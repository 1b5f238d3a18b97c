------------------------------ MODULE MCPullV2 ------------------------------
(* Constants for the model checking of PullV2: see MCPullV2.cfg. *)
EXTENDS PullV2
=============================================================================
