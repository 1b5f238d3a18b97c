----------------------------- MODULE Collection -----------------------------
(***************************************************************************)
(* The agent's file collector and its checkpoint positions, as the         *)
(* delivery services see them (internal/collector/collector.go and         *)
(* internal/checkpoint/checkpoint.go of agents/collector-agent).           *)
(*                                                                         *)
(* Line n of a file ends at offset n, so an offset counts lines.  A scan   *)
(* reads some lines and sends them on in two groups, the critical lines    *)
(* first; a consumer takes the groups one after the other.  Later scans    *)
(* queue behind these groups, so a file has one scan on its way at a time. *)
(* The files of this module are not rotated (see module Rotation).         *)
(***************************************************************************)
EXTENDS Naturals, FiniteSets, Sequences

CONSTANTS Files,       \* collected files
          Critical,    \* numbers of the lines with a critical keyword
          ScanSizes,   \* numbers of lines one scan may read
          MaxLines,    \* bound: lines a file grows to
          MaxCrashes   \* bound: agent restarts

ASSUME CollectionAssumption ==
    /\ Critical \subseteq Nat
    /\ ScanSizes \subseteq Nat \ {0}
    /\ MaxLines \in Nat /\ MaxCrashes \in Nat

VARIABLES read,      \* offset the collector has read to, per file
          hot,       \* critical lines of the last scan, not yet taken
          rest,      \* its other lines, not yet taken
          saved,     \* positions in the checkpoint store
          disk,      \* positions in the store's file
          crashes

collectionVars == <<read, hot, rest, saved, disk, crashes>>

AtStart == [f \in Files |-> 0]
NoLines == [f \in Files |-> <<>>]

CollectionInit ==
    /\ read = AtStart /\ hot = NoLines /\ rest = NoLines
    /\ saved = AtStart /\ disk = AtStart /\ crashes = 0

\* The lines of S in the order they stand in the file.
InOrder(S) == {g \in [1 .. Cardinality(S) -> S] : \A i, j \in DOMAIN g : i < j => g[i] < g[j]}

(***************************************************************************)
(* scanAndEmit: read n lines, split off the critical ones, send both       *)
(* groups and move on.                                                     *)
(***************************************************************************)
Scan(f, n) ==
    LET window == (read[f] + 1) .. (read[f] + n)
    IN  /\ hot[f] = <<>> /\ rest[f] = <<>>
        /\ read[f] + n <= MaxLines
        /\ \E h \in InOrder(window \cap Critical), r \in InOrder(window \ Critical) :
              /\ hot' = [hot EXCEPT ![f] = h]
              /\ rest' = [rest EXCEPT ![f] = r]
        /\ read' = [read EXCEPT ![f] = @ + n]
        /\ UNCHANGED <<saved, disk, crashes>>

\* The group a consumer takes next, and taking it.
Waiting(f) == IF hot[f] # <<>> THEN hot[f] ELSE rest[f]

Take(f) ==
    /\ Waiting(f) # <<>>
    /\ hot' = [hot EXCEPT ![f] = <<>>]
    /\ rest' = [rest EXCEPT ![f] = IF hot[f] # <<>> THEN @ ELSE <<>>]
    /\ UNCHANGED <<read, saved, disk, crashes>>

\* FileStore.Save: the position is overwritten, forwards or backwards.
SavePosition(f, o) == saved' = [saved EXCEPT ![f] = o]

\* A flush that succeeds writes all positions in one rename.
FlushPositions ==
    /\ disk' = saved
    /\ UNCHANGED <<read, hot, rest, saved, crashes>>

\* The agent dies and starts again from the store's file.
RestartCollection ==
    /\ crashes < MaxCrashes
    /\ crashes' = crashes + 1
    /\ read' = disk /\ saved' = disk
    /\ hot' = NoLines /\ rest' = NoLines
    /\ UNCHANGED disk

-----------------------------------------------------------------------------
\* For the properties of the services: a critical line further down may overtake line o.
Overtaken(o) == \E c \in Critical : o < c

CollectionTypeOK ==
    /\ read \in [Files -> Nat] /\ saved \in [Files -> Nat] /\ disk \in [Files -> Nat]
    /\ hot \in [Files -> Seq(Nat)] /\ rest \in [Files -> Seq(Nat)]
    /\ crashes \in Nat
=============================================================================
