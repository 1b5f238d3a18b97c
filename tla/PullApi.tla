------------------------------- MODULE PullApi -------------------------------
(***************************************************************************)
(* The agent's v1 pull service                                             *)
(* (agents/collector-agent/internal/pullapi/service.go and normalize.go):  *)
(* one buffer for all files, numbered by one counter, that is trimmed from *)
(* the front when it overflows and never by an acknowledgement.            *)
(*                                                                         *)
(* Callers pull with a source path, a list of patterns: here a scope, by   *)
(* which the service keys its cursors.  Lines may join a record that is    *)
(* already buffered: a continuation line of a stack trace, or a repetition *)
(* of the same text within ten seconds.  Which lines those are depends on  *)
(* text and time alone and is given by constants.  Blank lines, which the  *)
(* service drops, are not lines of this model.                             *)
(*                                                                         *)
(* The actions are used by PullDelivery; here any caller may call them.    *)
(***************************************************************************)
EXTENDS Collection, SequencesExt

CONSTANTS Scopes,          \* source paths callers send
          FilesOf,         \* the files each of them matches
          Continuations,   \* lines that continue the record before them
          Repeats,         \* lines with one and the same text
          MaxBuffered,     \* maxBufferedRecord
          PullSizes,       \* records a response may hold (max_records, max_bytes)
          Cursors,         \* cursors callers send with a pull; NoCursor is ""
          CommitCursors,   \* committed_cursor values callers send with an ack
          NoCursor,
          BatchIds         \* bound: batch ids in use at a time

ASSUME PullApiAssumption ==
    /\ FilesOf \in [Scopes -> SUBSET Files]
    /\ Continuations \cap Repeats = {}
    /\ MaxBuffered \in Nat \ {0} /\ PullSizes \subseteq Nat \ {0}
    /\ NoCursor \notin Nat
    /\ Cursors \cup CommitCursors \subseteq Nat \cup {NoCursor}

VARIABLES
    nextSeq,     \* last sequence number used
    records,     \* buffered records by sequence number
    committed,   \* committedCursors, per scope
    pending,     \* batches handed out and not answered
    \* histories, per scope and since the agent started:
    acked,       \* sequence numbers of acknowledged batches
    vouched      \* highest cursor that a caller named itself

serviceVars == <<nextSeq, records, committed, pending, acked, vouched>>
apiVars == <<collectionVars, serviceVars>>

\* A record: its file, the offset it is checkpointed with, the lines it stands for.
Record == [file : Files, off : Nat, lines : SUBSET Nat]

Larger(a, b) == IF a > b THEN a ELSE b

NothingBuffered == [q \in {} |-> 0]
NothingCommitted == [s \in Scopes |-> 0]
NothingAcked == [s \in Scopes |-> {}]

ApiInit ==
    /\ CollectionInit
    /\ nextSeq = 0 /\ records = NothingBuffered
    /\ committed = NothingCommitted /\ pending = {}
    /\ acked = NothingAcked /\ vouched = NothingCommitted

Collect(f, n) == Scan(f, n) /\ UNCHANGED serviceVars

-----------------------------------------------------------------------------
(***************************************************************************)
(* AddRecords.  First normalizePluginBatch: a continuation line joins the  *)
(* line before it in the group.                                            *)
(***************************************************************************)
Joined(parts, n) ==
    IF parts # <<>> /\ n \in Continuations
    THEN [parts EXCEPT ![Len(parts)] = [off |-> n, lines |-> @.lines \cup {n}]]
    ELSE Append(parts, [off |-> n, lines |-> {n}])

Normalized(group) ==
    LET parts[i \in 0 .. Len(group)] ==
            IF i = 0 THEN <<>> ELSE Joined(parts[i - 1], group[i])
    IN  parts[Len(group)]

\* The newest record in the buffer that a continuation may be appended to.
Continued(recs, f, part) ==
    {q \in DOMAIN recs : /\ recs[q].file = f /\ recs[q].off < part.off
                         /\ \A p \in DOMAIN recs :
                               recs[p].file = f /\ recs[p].off < part.off => p <= q}

\* The buffered record with the same fingerprint.
Repeated(recs, f, part) ==
    {q \in DOMAIN recs : recs[q].file = f /\ recs[q].lines \subseteq Repeats}

\* What the buffered record becomes.
Extended(record, part) == [record EXCEPT !.off = part.off, !.lines = @ \cup part.lines]
Counted(record, part) == [record EXCEPT !.lines = @ \cup part.lines]

(***************************************************************************)
(* One record: append it to a buffered one and move its offset, or take a  *)
(* number and either count as a repetition of a buffered one, which keeps  *)
(* its own offset and number, or be buffered.                              *)
(***************************************************************************)
Added(f, state, part) ==
    LET seq == state.seq + 1
        home == IF part.lines \subseteq Continuations THEN Continued(state.recs, f, part)
                ELSE IF part.lines \subseteq Repeats THEN Repeated(state.recs, f, part)
                ELSE {}
    IN  CASE part.lines \subseteq Continuations /\ home # {} ->
               [state EXCEPT !.recs = [q \in DOMAIN @ |->
                   IF q \in home THEN Extended(@[q], part) ELSE @[q]]]
          [] ~(part.lines \subseteq Continuations) /\ home # {} ->
               [seq |-> seq,
                recs |-> [q \in DOMAIN state.recs |->
                   IF q \in home THEN Counted(state.recs[q], part) ELSE state.recs[q]]]
          [] OTHER ->
               [seq |-> seq,
                recs |-> [q \in DOMAIN state.recs \cup {seq} |->
                   IF q = seq THEN [file |-> f, off |-> part.off, lines |-> part.lines]
                   ELSE state.recs[q]]]

\* Over capacity the oldest records go.
Trimmed(recs) ==
    [q \in {p \in DOMAIN recs : Cardinality({r \in DOMAIN recs : r >= p}) <= MaxBuffered} |-> recs[q]]

\* The service's buffer after all parts of a group, before it is trimmed.
AllAdded(f, parts) ==
    LET state[i \in 0 .. Len(parts)] ==
            IF i = 0 THEN [seq |-> nextSeq, recs |-> records] ELSE Added(f, state[i - 1], parts[i])
    IN  state[Len(parts)]

AddRecords(f) ==
    LET after == AllAdded(f, Normalized(Waiting(f)))
    IN  /\ Take(f)
        /\ nextSeq' = after.seq
        /\ records' = Trimmed(after.recs)
        /\ UNCHANGED <<committed, pending, acked, vouched>>

-----------------------------------------------------------------------------
(***************************************************************************)
(* Pull: records of the scope above the caller's cursor, or above the      *)
(* committed one when the caller sends none.  A cursor beyond the newest   *)
(* matching record is taken for one of an earlier run of the agent, and    *)
(* the pull starts over.                                                   *)
(***************************************************************************)
Matching(s) == {q \in DOMAIN records : records[q].file \in FilesOf[s]}

StartCursor(s, cursor) ==
    LET start == IF cursor = NoCursor THEN committed[s] ELSE cursor
    IN  IF Matching(s) # {} /\ \A q \in Matching(s) : q < start THEN 0 ELSE start

SelectedAfterGap(s, start, n) ==   \* mutant: off by one
    LET above == {q \in Matching(s) : q > start + 1}
    IN  {q \in above : Cardinality({p \in above : p <= q}) <= n}
Selected(s, start, n) ==
    LET above == {q \in Matching(s) : q > start}
    IN  {q \in above : Cardinality({p \in above : p <= q}) <= n}

\* What the caller gets, if anything; its id is random in the code.
Response(s, cursor, n, id) ==
    LET chosen == Selected(s, StartCursor(s, cursor), n)
    IN  {[id |-> id, scope |-> s, next |-> last, recs |-> [q \in chosen |-> records[q]]] :
            last \in {q \in chosen : \A p \in chosen : p <= q}}

Vouched(highest, cursor) == IF cursor = NoCursor THEN highest ELSE Larger(highest, cursor)

Pull(s, cursor, n, id) ==
    /\ \A b \in pending : b.id # id
    /\ Response(s, cursor, n, id) # {}
    /\ pending' = pending \cup Response(s, cursor, n, id)
    /\ vouched' = [vouched EXCEPT ![s] = Vouched(@, cursor)]
    /\ UNCHANGED <<nextSeq, records, committed, acked, collectionVars>>

-----------------------------------------------------------------------------
(***************************************************************************)
(* Ack: forget the batch, raise the scope's committed cursor, save for     *)
(* every file of the batch its largest offset.  FileStore.Save never       *)
(* fails.                                                                  *)
(***************************************************************************)
CommitsNewest(b, cursor) == nextSeq                \* mutant: commits what was appended meanwhile
CommittedCursor(b, cursor) == IF cursor = NoCursor THEN b.next ELSE Larger(cursor, b.next)

OverwrittenCursor(s, cursor) == cursor             \* mutant: no guard against late answers
RaisedCursor(s, cursor) == Larger(committed[s], cursor)

SavesReadOffset(b) == [f \in Files |->             \* mutant: saves the collector's own position
    IF \E q \in DOMAIN b.recs : b.recs[q].file = f THEN read[f] ELSE saved[f]]
SavedOffsets(b) ==
    [f \in Files |->
        LET offsets == {b.recs[q].off : q \in {p \in DOMAIN b.recs : b.recs[p].file = f}}
        IN  IF offsets = {} THEN saved[f] ELSE Max(offsets)]

AckBatch(b, cursor) ==
    /\ pending' = pending \ {b}
    /\ committed' = [committed EXCEPT ![b.scope] = RaisedCursor(b.scope, CommittedCursor(b, cursor))]
    /\ saved' = SavedOffsets(b)
    /\ acked' = [acked EXCEPT ![b.scope] = @ \cup DOMAIN b.recs]
    /\ vouched' = [vouched EXCEPT ![b.scope] = Vouched(@, cursor)]
    /\ UNCHANGED <<read, hot, rest, disk, crashes, nextSeq, records>>

NackBatch(b) ==
    /\ pending' = pending \ {b}
    /\ UNCHANGED <<nextSeq, records, committed, acked, vouched, collectionVars>>

Flush == FlushPositions /\ UNCHANGED serviceVars

\* The service keeps nothing over a restart, its counter included.
Restart ==
    /\ RestartCollection
    /\ nextSeq' = 0 /\ records' = NothingBuffered
    /\ committed' = NothingCommitted /\ pending' = {}
    /\ acked' = NothingAcked /\ vouched' = NothingCommitted

ApiNext ==
    \/ \E f \in Files, n \in ScanSizes : Collect(f, n)
    \/ \E f \in Files : AddRecords(f)
    \/ \E s \in Scopes, cursor \in Cursors, n \in PullSizes, id \in BatchIds : Pull(s, cursor, n, id)
    \/ \E b \in pending, cursor \in CommitCursors : AckBatch(b, cursor)
    \/ \E b \in pending : NackBatch(b)
    \/ Flush
    \/ Restart

ApiSpec == ApiInit /\ [][ApiNext]_apiVars

-----------------------------------------------------------------------------
\* Every variable has its type and the buffer its bound.
ApiTypeOK ==
    /\ CollectionTypeOK
    /\ nextSeq \in Nat
    /\ DOMAIN records \subseteq 1 .. nextSeq /\ records \in [DOMAIN records -> Record]
    /\ Cardinality(DOMAIN records) <= MaxBuffered
    /\ committed \in [Scopes -> Nat]
    /\ \A b \in pending : /\ b.id \in BatchIds /\ b.scope \in Scopes /\ b.next \in DOMAIN b.recs
                          /\ b.recs \in [DOMAIN b.recs -> Record]
    /\ acked \in [Scopes -> SUBSET Nat] /\ vouched \in [Scopes -> Nat]

(***************************************************************************)
(* An answer that arrives late never moves a committed cursor back; only a *)
(* restart of the agent does.                                              *)
(***************************************************************************)
CommittedNeverMovesBack ==
    [][crashes' = crashes => \A s \in Scopes : committed'[s] >= committed[s]]_apiVars

\* Numbers the callers of a scope answer for.
Covered(s, q) == q \in acked[s] \/ q <= vouched[s]

(***************************************************************************)
(* A pull that leaves the cursor to the agent never starts above a record  *)
(* of its scope that no caller of that scope acknowledged or skipped by a  *)
(* cursor of its own, whatever the order of answers, rejections and        *)
(* overflows.                                                              *)
(***************************************************************************)
CommittedCoversOnlyAcked ==
    \A s \in Scopes : \A q \in Matching(s) : q <= committed[s] => Covered(s, q)

(***************************************************************************)
(* Neither checkpoint covers a buffered record that no caller answers for, *)
(* although the scopes of different callers overlap and each of them moves *)
(* the same checkpoints: for every record that no critical line overtakes. *)
(***************************************************************************)
UnackedSurvivesCrash ==
    \A q \in DOMAIN records :
        \/ \E s \in Scopes : Covered(s, q)
        \/ Overtaken(records[q].off)
        \/ saved[records[q].file] < records[q].off /\ disk[records[q].file] < records[q].off
=============================================================================
