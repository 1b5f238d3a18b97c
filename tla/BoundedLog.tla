----------------------------- MODULE BoundedLog -----------------------------
(***************************************************************************)
(* What a consumer may rely on from the agent's buffers: entries of a      *)
(* source get consecutive numbers, at most Capacity of them are held, and  *)
(* an entry is given up only by moving the release point over it; the      *)
(* release point never moves back nor past the last entry.  A restart      *)
(* forgets all.                                                            *)
(***************************************************************************)
EXTENDS Naturals

CONSTANTS Sources, Capacity
VARIABLES head,   \* entries up to here are released, per source
          tail    \* entries up to here were appended, per source

Init == head = [s \in Sources |-> 0] /\ tail = [s \in Sources |-> 0]

Extend(s) == /\ tail[s] < tail'[s]
             /\ tail'[s] <= head[s] + Capacity
             /\ tail' = [tail EXCEPT ![s] = tail'[s]]
             /\ head' = head

Release(s) == /\ head[s] < head'[s]
              /\ head'[s] <= tail[s]
              /\ head' = [head EXCEPT ![s] = head'[s]]
              /\ tail' = tail

Restart == head' = [s \in Sources |-> 0] /\ tail' = [s \in Sources |-> 0]

Next == (\E s \in Sources : Extend(s) \/ Release(s)) \/ Restart

Spec == Init /\ [][Next]_<<head, tail>>
=============================================================================
