---------------------------- MODULE PullDelivery ----------------------------
(***************************************************************************)
(* The delivery path from the agent's v1 pull service to the search index: *)
(* the control plane's pull tasks                                          *)
(* (services/control-plane/internal/ingest/executor.go) call the agent     *)
(* over HTTP, write what they get to Elasticsearch, acknowledge it and     *)
(* store the cursor for the next task of the source.                       *)
(*                                                                         *)
(* A source is named by its path, hence by the scope it pulls.  A worker   *)
(* is a goroutine that runs one task at a time; two of them may serve one  *)
(* source (a manual run beside a scheduled one).  Every request may fail   *)
(* before the agent sees it or lose its response after; MaxFaults bounds   *)
(* these faults and the failures of the control plane's own stores.        *)
(***************************************************************************)
EXTENDS PullApi

CONSTANTS Workers,
          MaxFaults   \* bound: lost calls, lost writes to the database, control-plane crashes

ASSUME PullDeliveryAssumption == MaxFaults \in Nat

VARIABLES
    cursor,       \* the cursor store: LastCursor of the newest row, per source
    stage,        \* where a worker stands: idle, pulled, indexed, acked or failed
    holds,        \* the batch it works on
    index,        \* lines in Elasticsearch
    deadLetters,  \* lines of dead-lettered packages
    faults

controlVars == <<cursor, stage, holds, index, deadLetters, faults>>
vars == <<apiVars, controlVars>>

NoBatch == [id |-> NoCursor]

Init ==
    /\ ApiInit
    /\ cursor = [s \in Scopes |-> NoCursor]
    /\ stage = [w \in Workers |-> "idle"] /\ holds = [w \in Workers |-> NoBatch]
    /\ index = {} /\ deadLetters = {} /\ faults = 0

\* The lines a batch carries.
LinesOf(b) == UNION {{<<b.recs[q].file, n>> : n \in b.recs[q].lines} : q \in DOMAIN b.recs}

Fault == faults < MaxFaults /\ faults' = faults + 1
NoFault == UNCHANGED faults

Goto(w, st) == stage' = [stage EXCEPT ![w] = st]
Finish(w) == Goto(w, "idle") /\ holds' = [holds EXCEPT ![w] = NoBatch]

-----------------------------------------------------------------------------
(***************************************************************************)
(* A task starts: resolveStartCursor reads the stored cursor, and the      *)
(* agent hands out a batch.  An empty answer ends the task as a success    *)
(* and changes nothing here.                                               *)
(***************************************************************************)
StartTask(w, s, n, id) ==
    /\ stage[w] = "idle"
    /\ \A v \in Workers : holds[v].id # id
    /\ Pull(s, cursor[s], n, id)
    /\ \/ /\ holds' = [holds EXCEPT ![w] = CHOOSE b \in pending' : b.id = id]
          /\ Goto(w, "pulled") /\ NoFault
       \/ UNCHANGED <<stage, holds>> /\ Fault    \* the response is lost, the task failed
    /\ UNCHANGED <<cursor, index, deadLetters>>

(***************************************************************************)
(* writeToESWithRetry: all records are in the index in the end, or some    *)
(* are and the batch failed.                                               *)
(***************************************************************************)
AcksBeforeWrite(w) == index              \* mutant: goes on without writing
Written(w) == index \cup LinesOf(holds[w])

WriteIndex(w) ==
    /\ stage[w] = "pulled"
    /\ index' = Written(w)
    /\ Goto(w, "indexed")
    /\ UNCHANGED <<cursor, holds, deadLetters, faults, apiVars>>

WriteFails(w) ==
    /\ stage[w] = "pulled"
    /\ \E part \in SUBSET LinesOf(holds[w]) : index' = index \cup part
    /\ Goto(w, "failed")
    /\ UNCHANGED <<cursor, holds, deadLetters, faults, apiVars>>

(***************************************************************************)
(* The acknowledgement: accepted, unknown to the agent (it restarted), or  *)
(* lost on the way there or back.  Anything but an accepted answer makes   *)
(* the executor reject the batch it has just indexed.                      *)
(***************************************************************************)
Acknowledge(w) ==
    LET b == holds[w]
    IN  /\ stage[w] = "indexed"
        /\ \/ /\ b \in pending /\ AckBatch(b, b.next)
              /\ \/ Goto(w, "acked") /\ NoFault
                 \/ Goto(w, "failed") /\ Fault
           \/ /\ b \notin pending
              /\ Goto(w, "failed") /\ NoFault /\ UNCHANGED apiVars
           \/ /\ b \in pending
              /\ Goto(w, "failed") /\ Fault /\ UNCHANGED apiVars
        /\ UNCHANGED <<cursor, holds, index, deadLetters>>

(***************************************************************************)
(* persistCursors: the batch's cursor becomes the newest row of its source *)
(* whatever was stored before; an error only fails the task.               *)
(***************************************************************************)
PersistsAgentCounter(b) == nextSeq       \* mutant: skips what was collected meanwhile
PersistedCursor(b) == b.next

PersistCursor(w) ==
    /\ stage[w] = "acked"
    /\ \/ cursor' = [cursor EXCEPT ![holds[w].scope] = PersistedCursor(holds[w])] /\ NoFault
       \/ UNCHANGED cursor /\ Fault
    /\ Finish(w)
    /\ UNCHANGED <<index, deadLetters, apiVars>>

(***************************************************************************)
(* handleNack: a dead letter, whose own errors are ignored, and a nack to  *)
(* the agent, which may not know the batch any more.                       *)
(***************************************************************************)
Rejected(b) == IF b \in pending THEN NackBatch(b) ELSE UNCHANGED apiVars

HandleNack(w) ==
    LET letter == deadLetters \cup LinesOf(holds[w])
    IN  /\ stage[w] = "failed"
        /\ \/ deadLetters' = letter /\ Rejected(holds[w]) /\ NoFault
           \/ deadLetters' = letter /\ UNCHANGED apiVars /\ Fault       \* the nack is lost
           \/ UNCHANGED deadLetters /\ Rejected(holds[w]) /\ Fault      \* the letter is not stored
        /\ Finish(w)
        /\ UNCHANGED <<cursor, index>>

\* The control plane dies; its stores are in the database.
ControlPlaneCrash ==
    /\ \E w \in Workers : stage[w] # "idle"
    /\ Fault
    /\ stage' = [w \in Workers |-> "idle"] /\ holds' = [w \in Workers |-> NoBatch]
    /\ UNCHANGED <<cursor, index, deadLetters, apiVars>>

-----------------------------------------------------------------------------
AgentStep ==
    \/ \E f \in Files, n \in ScanSizes : Collect(f, n)
    \/ \E f \in Files : AddRecords(f)
    \/ Flush
    \/ Restart

WorkerStep(w) ==
    \/ \E s \in Scopes, n \in PullSizes, id \in BatchIds : StartTask(w, s, n, id)
    \/ WriteIndex(w)
    \/ WriteFails(w)
    \/ Acknowledge(w)
    \/ PersistCursor(w)
    \/ HandleNack(w)

Next ==
    \/ AgentStep /\ UNCHANGED controlVars
    \/ \E w \in Workers : WorkerStep(w)
    \/ ControlPlaneCrash

Spec == Init /\ [][Next]_vars

-----------------------------------------------------------------------------
\* Every variable has its type; a worker holds a batch exactly while it has work to do.
TypeOK ==
    /\ ApiTypeOK
    /\ cursor \in [Scopes -> Nat \cup {NoCursor}]
    /\ stage \in [Workers -> {"idle", "pulled", "indexed", "acked", "failed"}]
    /\ \A w \in Workers : (stage[w] = "idle") <=> (holds[w] = NoBatch)
    /\ index \subseteq Files \X Nat /\ deadLetters \subseteq Files \X Nat
    /\ faults \in 0 .. MaxFaults

(***************************************************************************)
(* "Only after a log was sent downstream is the checkpoint updated"        *)
(* (checkpoint.go:3), end to end: every line that the checkpoint on disk   *)
(* covers is in the index, whatever calls are lost, writes fail, or        *)
(* control planes die, and however many tasks of a source run at once.     *)
(***************************************************************************)
CheckpointOnlyAfterIndexed ==
    \A f \in Files : \A n \in 1 .. disk[f] : <<f, n>> \in index

\* Lines that may join a buffered record.  When that record was handed out before, no
\* pull brings them any more, so the properties below speak of the other lines.
Joining == Continuations \cup Repeats

\* The other lines of a buffered record are in the index.
Indexed(q) == \A n \in records[q].lines \ Joining : <<records[q].file, n>> \in index

\* The agent's buffer still holds all that was collected.
NothingDropped == crashes = 0 /\ nextSeq <= MaxBuffered

(***************************************************************************)
(* The same while the agent stays up and its buffer does not overflow, for *)
(* any lines: a line the checkpoint covers is in the index, but for lines  *)
(* that join the record of another and, where a critical line overtakes,   *)
(* lines from the overtaken one back to it.                                *)
(***************************************************************************)
CheckpointCoversIndexed ==
    NothingDropped => \A f \in Files : \A n \in 1 .. disk[f] :
        n \in Joining \/ <<f, n>> \in index \/ \E k \in n .. disk[f] : Overtaken(k)

(***************************************************************************)
(* The stored cursor of a source never passes a buffered record that is    *)
(* not in the index, until the agent restarts: the next task would skip    *)
(* it, and the acknowledgement after that would move the checkpoint over   *)
(* it.                                                                     *)
(***************************************************************************)
CursorOnlyAfterIndexed ==
    crashes = 0 => \A s \in Scopes : cursor[s] # NoCursor =>
        \A q \in Matching(s) : q <= cursor[s] => Indexed(q)

(***************************************************************************)
(* A dead letter is a report, not the only copy: replaying one only marks  *)
(* it (pull_dead_letters.go:184-220), so its lines must be in the index or *)
(* still be buffered where the next task of every source will pull them.   *)
(***************************************************************************)
DeadLetterIsRetried ==
    NothingDropped => \A line \in deadLetters : line[2] \in Joining \/ line \in index \/
        \E q \in DOMAIN records :
            /\ records[q].file = line[1] /\ line[2] \in records[q].lines
            /\ \A s \in Scopes : line[1] \in FilesOf[s] /\ cursor[s] # NoCursor => cursor[s] < q

(***************************************************************************)
(* Over restarts of the agent as well: a record the agent takes for        *)
(* acknowledged is in the index.  Tasks that still hold a batch of an      *)
(* earlier run cannot acknowledge records of this one, although both runs  *)
(* number their records alike.                                             *)
(***************************************************************************)
AckedIsIndexed == \A s \in Scopes : \A q \in Matching(s) \cap acked[s] : Indexed(q)

(***************************************************************************)
(* A goroutine keeps going, the collector's and the scheduler's loops run, *)
(* and Elasticsearch accepts a batch now and then.                         *)
(***************************************************************************)
Fairness ==
    /\ \A f \in Files : WF_vars(AddRecords(f) /\ UNCHANGED controlVars)
    /\ \A w \in Workers :
          /\ \A s \in Scopes :
                WF_vars(\E n \in PullSizes, id \in BatchIds : StartTask(w, s, n, id) /\ NoFault)
          /\ SF_vars(WriteIndex(w))
          /\ WF_vars(Acknowledge(w) /\ NoFault) /\ WF_vars(PersistCursor(w) /\ NoFault)
          /\ WF_vars(HandleNack(w) /\ NoFault)

FairSpec == Spec /\ Fairness

(***************************************************************************)
(* Every line the collector read is in the index in the end, unless the    *)
(* agent restarts: then the stored cursor may pass over lines, as          *)
(* CheckpointOnlyAfterIndexed shows.                                       *)
(***************************************************************************)
EveryLineIndexed ==
    \A f \in Files : \A n \in 1 .. MaxLines :
        (n <= read[f]) ~> (<<f, n>> \in index \/ crashes > 0)
=============================================================================
