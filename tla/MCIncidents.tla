----------------------------- MODULE MCIncidents -----------------------------
(* The instance of Incidents that TLC checks; handlers are interchangeable. *)
EXTENDS Incidents, TLC

RequestSymmetry == Permutations(Requests)
==============================================================================
