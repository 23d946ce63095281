-------------------------- MODULE MCCompileHandler --------------------------
(* CompileHandler for TLC: requests spread over two isolates. *)
EXTENDS CompileHandler, TLC

CONSTANTS r1, r2, r3, w1, w2

TwoIsolates == (r1 :> w1) @@ (r2 :> w1) @@ (r3 :> w2)
=============================================================================
