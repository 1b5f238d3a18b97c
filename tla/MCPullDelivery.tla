--------------------------- MODULE MCPullDelivery ---------------------------
(* Constants for the model checking of PullDelivery: one source for all files. *)
EXTENDS PullDelivery

AllFiles == [s \in Scopes |-> Files]
Interchangeable == Permutations(Workers) \cup Permutations(BatchIds)
=============================================================================
