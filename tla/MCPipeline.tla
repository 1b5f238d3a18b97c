----------------------------- MODULE MCPipeline -----------------------------
(* Constants for the model checking of Pipeline: the workers are alike. *)
EXTENDS Pipeline, TLC

WorkerSymmetry == Permutations(Workers)
=============================================================================
