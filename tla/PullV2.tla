------------------------------- MODULE PullV2 -------------------------------
(***************************************************************************)
(* The agent's v2 pull service                                             *)
(* (agents/collector-agent/internal/pullv2/service.go): a bounded buffer   *)
(* of collected records per source key, from which any HTTP caller pulls   *)
(* batches that it later acknowledges or rejects.  An acknowledgement      *)
(* moves the file checkpoint the collector restarts from.                  *)
(*                                                                         *)
(* The agent groups records by collect path and uses that path both as the *)
(* source key and as the file path: a source is one file.  Service methods *)
(* run under one mutex, hence one action each.  The checkpoint has no      *)
(* other writer here: the agent runs in pull mode.                         *)
(***************************************************************************)
EXTENDS Collection

CONSTANTS MaxBuffered,     \* maxBufferedRecords
          PullSizes,       \* max_records values the callers send
          Cursors,         \* cursor values the callers send; NoCursor is ""
          NoCursor,
          MaxBatches       \* bound: batches handed out

ASSUME PullV2Assumption ==
    /\ MaxBuffered \in Nat \ {0}
    /\ PullSizes \subseteq Nat \ {0}
    /\ Cursors \subseteq Nat \cup {NoCursor}
    /\ NoCursor \notin Nat
    /\ MaxBatches \in Nat

VARIABLES
    nextSeq,    \* last sequence number given out, per source
    committed,  \* NextCursor of the last acknowledged batch, per source
    records,    \* buffered records: sequence number -> offset, per source
    pending,    \* batches handed out and not answered yet
    batches,    \* batches handed out so far (a batch id is never reused)
    released,   \* history: highest cursor acknowledged since the agent started
    settled     \* history: lines an acknowledged cursor covered or the full buffer refused, ever

serviceVars == <<nextSeq, committed, records, pending, batches, released, settled>>
vars == <<collectionVars, serviceVars>>

\* Sequence numbers to offsets: what a buffer and a batch hold.
IsRecordMap(m) == DOMAIN m \subseteq Nat /\ m \in [DOMAIN m -> Nat]

IsBatch(b) ==
    /\ b = [id |-> b.id, source |-> b.source, next |-> b.next, recs |-> b.recs]
    /\ b.id \in Nat /\ b.source \in Files /\ b.next \in Nat
    /\ IsRecordMap(b.recs)

Larger(a, b) == IF a > b THEN a ELSE b

Empty == [s \in Files |-> [q \in {} |-> 0]]

Init ==
    /\ CollectionInit
    /\ nextSeq = AtStart /\ committed = AtStart /\ records = Empty
    /\ pending = {} /\ batches = 0
    /\ released = AtStart
    /\ settled = [s \in Files |-> {}]

Collect(s, n) == Scan(s, n) /\ UNCHANGED serviceVars

(***************************************************************************)
(* Append, called by the fan-out with one group: the buffer takes all of   *)
(* the group or none of it, and ErrBufferFull is only logged.              *)
(***************************************************************************)
FitsIfNotFull(s, n) == Cardinality(DOMAIN records[s]) < MaxBuffered  \* mutant: ignores n
Fits(s, n) == Cardinality(DOMAIN records[s]) + n <= MaxBuffered

Appended(s, group) ==
    [q \in DOMAIN records[s] \cup (nextSeq[s] + 1 .. nextSeq[s] + Len(group)) |->
        IF q \in DOMAIN records[s] THEN records[s][q] ELSE group[q - nextSeq[s]]]

AppendGroup(s) ==
    LET group == Waiting(s)
    IN  /\ Take(s)
        /\ IF Fits(s, Len(group))
           THEN /\ nextSeq' = [nextSeq EXCEPT ![s] = @ + Len(group)]
                /\ records' = [records EXCEPT ![s] = Appended(s, group)]
                /\ UNCHANGED settled
           ELSE /\ settled' = [settled EXCEPT ![s] = @ \cup {group[i] : i \in DOMAIN group}]
                /\ UNCHANGED <<nextSeq, records>>
        /\ UNCHANGED <<committed, pending, batches, released>>

(***************************************************************************)
(* Pull: up to max records above the caller's cursor, or above the         *)
(* committed cursor when the caller sends none.  An empty selection        *)
(* creates no batch.                                                       *)
(***************************************************************************)
StartCursor(s, cursor) == IF cursor = NoCursor THEN committed[s] ELSE cursor

Selected(s, start, max) ==
    LET above == {q \in DOMAIN records[s] : q > start}
    IN  {q \in above : Cardinality({p \in above : p <= q}) <= max}

Pull(s, cursor, max) ==
    LET chosen == Selected(s, StartCursor(s, cursor), max)
    IN  /\ IF chosen = {}
           THEN UNCHANGED <<pending, batches>>
           ELSE /\ batches < MaxBatches
                /\ batches' = batches + 1
                /\ \E last \in chosen :
                      /\ \A q \in chosen : q <= last
                      /\ pending' = pending \cup
                            {[id |-> batches', source |-> s, next |-> last,
                              recs |-> [q \in chosen |-> records[s][q]]]}
        /\ UNCHANGED <<nextSeq, committed, records, released, settled, collectionVars>>

(***************************************************************************)
(* Ack with status "ack": save the largest offset of the batch, commit its *)
(* cursor (overwriting whatever was committed), prune the buffer up to it, *)
(* forget the batch.  An unknown batch or a cursor other than the batch's  *)
(* is an error without effect, and a save error leaves a one-file batch as *)
(* it was.                                                                 *)
(***************************************************************************)
PruneOneMore(recs, cursor) ==   \* mutant: off by one
    [q \in {p \in DOMAIN recs : p > cursor + 1} |-> recs[q]]
PruneCommitted(recs, cursor) == [q \in {p \in DOMAIN recs : p > cursor} |-> recs[q]]

CollectedOffset(b) == {read[b.source]}   \* mutant: saves the collector's own position
LatestOffset(b) == {o \in {b.recs[q] : q \in DOMAIN b.recs} :
                       \A q \in DOMAIN b.recs : b.recs[q] <= o}

CommitsRequestCursor(b) == NoCursor         \* mutant: takes the optional request field
CommitsLastSeq(b) == nextSeq[b.source]      \* mutant: commits all that was appended
CommittedAfterAck(b) == b.next

Ack(b) ==
    /\ \E o \in LatestOffset(b) : SavePosition(b.source, o)
    /\ committed' = [committed EXCEPT ![b.source] = CommittedAfterAck(b)]
    /\ records' = [records EXCEPT ![b.source] = PruneCommitted(@, b.next)]
    /\ pending' = pending \ {b}
    /\ released' = [released EXCEPT ![b.source] = Larger(@, b.next)]
    /\ settled' = [settled EXCEPT ![b.source] =
                      @ \cup {records[b.source][q] : q \in {p \in DOMAIN records[b.source] : p <= b.next}}]
    /\ UNCHANGED <<read, hot, rest, disk, crashes, nextSeq, batches>>

Nack(b) ==
    /\ pending' = pending \ {b}
    /\ UNCHANGED <<nextSeq, committed, records, batches, released, settled, collectionVars>>

Flush == FlushPositions /\ UNCHANGED serviceVars

\* The service keeps nothing over a restart.
Crash ==
    /\ RestartCollection
    /\ nextSeq' = AtStart /\ committed' = AtStart /\ records' = Empty
    /\ pending' = {}
    /\ released' = AtStart
    /\ UNCHANGED <<batches, settled>>

Next ==
    \/ \E s \in Files, n \in ScanSizes : Collect(s, n)
    \/ \E s \in Files : AppendGroup(s)
    \/ \E s \in Files, cursor \in Cursors, max \in PullSizes : Pull(s, cursor, max)
    \/ \E b \in pending : Ack(b)
    \/ \E b \in pending : Nack(b)
    \/ Flush
    \/ Crash

Spec == Init /\ [][Next]_vars

-----------------------------------------------------------------------------
\* Every variable has its type: buffers and batches map sequence numbers to offsets.
TypeOK ==
    /\ CollectionTypeOK
    /\ nextSeq \in [Files -> Nat] /\ committed \in [Files -> Nat]
    /\ records = [s \in Files |-> records[s]]
    /\ \A s \in Files : IsRecordMap(records[s])
    /\ \A b \in pending : IsBatch(b)
    /\ batches \in Nat
    /\ released \in [Files -> Nat]
    /\ settled \in [Files -> SUBSET Nat]

(***************************************************************************)
(* A record leaves the buffer only when a caller acknowledged a cursor at  *)
(* or above it, in whatever order batches are pulled, acknowledged and     *)
(* rejected: the buffer holds exactly the sequence numbers above the       *)
(* highest acknowledged one.                                               *)
(***************************************************************************)
UnacknowledgedKept ==
    \A s \in Files : DOMAIN records[s] = (released[s] + 1) .. nextSeq[s]

(***************************************************************************)
(* A pull without a cursor never skips a buffered record, although an      *)
(* older batch acknowledged late moves the committed cursor backwards.     *)
(***************************************************************************)
DefaultCursorSkipsNothing ==
    \A s \in Files : \A q \in DOMAIN records[s] : committed[s] < q

(***************************************************************************)
(* Neither the checkpoint in memory nor the one on disk covers a record    *)
(* that is still buffered, so a crash at any moment collects it again:     *)
(* for every record that no critical line can overtake.                    *)
(***************************************************************************)
BufferedSurvivesCrash ==
    \A s \in Files : \A q \in DOMAIN records[s] :
        \/ Overtaken(records[s][q])
        \/ saved[s] < records[s][q] /\ disk[s] < records[s][q]

(***************************************************************************)
(* "Only after a log was sent downstream is the checkpoint updated"        *)
(* (checkpoint.go:2-4), as far as the code keeps it: a line the file       *)
(* checkpoint covers is one that a caller released with a cursor, except   *)
(* for the two gaps there are, a group the full buffer refused and a line  *)
(* that a critical one overtook.                                           *)
(***************************************************************************)
CheckpointCoversSettled ==
    \A s \in Files : \A n \in 1 .. disk[s] : n \in settled[s] \/ Overtaken(n)

\* The buffers seen as bounded logs with a release point (module BoundedLog).
Log == INSTANCE BoundedLog WITH Sources <- Files, head <- released, tail <- nextSeq,
                                Capacity <- MaxBuffered

(***************************************************************************)
(* The service implements BoundedLog: over capacity nothing is taken, an   *)
(* acknowledgement that arrives late never takes a release back, and only  *)
(* a restart starts the numbering again.                                   *)
(***************************************************************************)
ImplementsLog == Log!Spec
=============================================================================
