----------------------------- MODULE MCPullTasks -----------------------------
(* Constants for the model checking of PullTasks: see MCPullTasks.cfg. *)
EXTENDS PullTasks
=============================================================================
