------------------------------ MODULE MCPullApi ------------------------------
(* Constants for the model checking of PullApi: the scopes of all callers overlap. *)
EXTENDS PullApi

AllFiles == [s \in Scopes |-> Files]
Interchangeable == Permutations(Scopes) \cup Permutations(BatchIds)
=============================================================================
