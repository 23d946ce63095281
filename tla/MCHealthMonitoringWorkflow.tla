--------------------- MODULE MCHealthMonitoringWorkflow ---------------------
(* HealthMonitoringWorkflow for TLC: the third run brings a longer list. *)
EXTENDS HealthMonitoringWorkflow, TLC

CONSTANTS a, b

Lists == (1 :> <<a>>) @@ (2 :> <<a>>) @@ (3 :> <<b, a>>)
=============================================================================
