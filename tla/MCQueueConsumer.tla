-------------------------- MODULE MCQueueConsumer --------------------------
(* QueueConsumer for TLC: one batch, in two chunks. *)
EXTENDS QueueConsumer, TLC

CONSTANTS m1, i1, i2, i3

OneBatch == m1 :> <<i1, i2, i3>>
=============================================================================
