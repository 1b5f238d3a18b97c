------------------------------ MODULE Pipeline ------------------------------
(***************************************************************************)
(* The agent's Kafka pipeline                                              *)
(* (agents/collector-agent/internal/pipeline/pipeline.go and               *)
(* internal/retry/retry.go): workers take batches from the collector's     *)
(* fan-out, send them to Kafka with retries, and either move the file      *)
(* checkpoint or, when the retries are used up, put the batch into a cache *)
(* on disk that the next start of the agent sends again.                   *)
(*                                                                         *)
(* A batch is a set of lines <<file, number>>.  The agent registers no     *)
(* plugins, so a batch is sent as it was collected.  Two cached copies of  *)
(* one batch are one: nothing tells them apart.  In dual mode the pull     *)
(* service gets every batch too, and acknowledgements of its callers save  *)
(* to the same checkpoint store.                                           *)
(***************************************************************************)
EXTENDS Collection

CONSTANTS Workers,
          DualMode,          \* delivery mode dual: the pull service saves too
          MaxStoreFailures   \* bound: cache writes and removals that fail

ASSUME PipelineAssumption == DualMode \in BOOLEAN /\ MaxStoreFailures \in Nat

VARIABLES stage,     \* where a worker stands: idle, sending, sent or failed
          holds,     \* the batch it works on
          sent,      \* lines in Kafka
          cache,     \* batches in the disk cache
          loaded,    \* replayCache has read the cache
          left,      \* cached batches it has yet to send
          resent,    \* the batch it has sent and not removed yet
          pulled,    \* lines the pull service holds (dual mode)
          failures,
          passed     \* history: lines a later checkpoint passes unsent, see GapsOfCheckpoint

pipelineVars == <<stage, holds, sent, cache, loaded, left, resent, pulled, failures, passed>>
vars == <<collectionVars, pipelineVars>>

Lines == Files \X (1 .. MaxLines)

Init ==
    /\ CollectionInit
    /\ stage = [w \in Workers |-> "idle"] /\ holds = [w \in Workers |-> {}]
    /\ sent = {} /\ cache = {}
    /\ loaded = FALSE /\ left = {} /\ resent = {}
    /\ pulled = {} /\ failures = 0 /\ passed = {}

Goto(w, st) == stage' = [stage EXCEPT ![w] = st]
Finish(w) == Goto(w, "idle") /\ holds' = [holds EXCEPT ![w] = {}]

StoreFails == failures < MaxStoreFailures /\ failures' = failures + 1

Collect(f, n) == Scan(f, n) /\ UNCHANGED pipelineVars

-----------------------------------------------------------------------------
(***************************************************************************)
(* A worker's processBatch.  A failed attempt may have written some of the *)
(* batch.  An error of the cache is only logged.                           *)
(***************************************************************************)
TakeBatch(w, f) ==
    LET batch == {<<f, Waiting(f)[i]>> : i \in DOMAIN Waiting(f)}
    IN  /\ stage[w] = "idle"
        /\ Take(f)
        /\ Goto(w, "sending") /\ holds' = [holds EXCEPT ![w] = batch]
        /\ pulled' = IF DualMode THEN pulled \cup batch ELSE pulled
        /\ UNCHANGED <<sent, cache, loaded, left, resent, failures, passed>>

SendBatch(w) ==
    /\ stage[w] = "sending"
    /\ sent' = sent \cup holds[w]
    /\ Goto(w, "sent")
    /\ UNCHANGED <<holds, cache, loaded, left, resent, pulled, failures, passed, collectionVars>>

SendFails(w) ==
    /\ stage[w] = "sending"
    /\ \E part \in SUBSET holds[w] : sent' = sent \cup part
    /\ Goto(w, "failed")
    /\ UNCHANGED <<holds, cache, loaded, left, resent, pulled, failures, passed, collectionVars>>

CacheBatchForgotten(w) ==   \* mutant: forgets the batch
    /\ stage[w] = "failed"
    /\ Finish(w)
    /\ UNCHANGED <<sent, cache, loaded, left, resent, pulled, failures, passed, collectionVars>>
CacheBatch(w) ==
    /\ stage[w] = "failed"
    /\ \/ cache' = cache \cup {holds[w]} /\ UNCHANGED <<failures, passed>>
       \/ StoreFails /\ passed' = passed \cup holds[w] /\ UNCHANGED cache
    /\ Finish(w)
    /\ UNCHANGED <<sent, loaded, left, resent, pulled, collectionVars>>

SaveCheckpoint(w) ==
    /\ stage[w] = "sent"
    /\ \E last \in holds[w] :
          /\ \A line \in holds[w] : line[2] <= last[2]
          /\ SavePosition(last[1], last[2])
          /\ passed' = passed \cup {line \in UNION {holds[v] : v \in Workers} :
                                       line[1] = last[1] /\ line[2] < last[2] /\ line \notin holds[w]}
    /\ Finish(w)
    /\ UNCHANGED <<sent, cache, loaded, left, resent, pulled, failures,
                   read, hot, rest, disk, crashes>>

-----------------------------------------------------------------------------
(***************************************************************************)
(* replayCache, once per start of the agent and beside the workers: send   *)
(* each cached batch and remove its file.  A batch that cannot be sent     *)
(* stays for the next start.                                               *)
(***************************************************************************)
LoadCache ==
    /\ ~loaded
    /\ loaded' = TRUE /\ left' = cache
    /\ UNCHANGED <<stage, holds, sent, cache, resent, pulled, failures, passed, collectionVars>>

Resend(b) ==
    /\ b \in left /\ resent = {}
    /\ left' = left \ {b} /\ resent' = {b}
    /\ sent' = sent \cup b
    /\ UNCHANGED <<stage, holds, cache, loaded, pulled, failures, passed, collectionVars>>

ResendFailsAndRemoves(b) ==   \* mutant: removes what it could not send
    /\ b \in left /\ resent = {}
    /\ left' = left \ {b}
    /\ cache' = cache \ {b}
    /\ UNCHANGED <<stage, holds, sent, loaded, resent, pulled, failures, passed, collectionVars>>
ResendFails(b) ==
    /\ b \in left /\ resent = {}
    /\ left' = left \ {b}
    /\ \E part \in SUBSET b : sent' = sent \cup part
    /\ UNCHANGED <<stage, holds, cache, loaded, resent, pulled, failures, passed, collectionVars>>

RemoveResent ==
    /\ resent # {}
    /\ resent' = {}
    /\ \/ cache' = cache \ resent /\ UNCHANGED failures
       \/ StoreFails /\ UNCHANGED cache
    /\ UNCHANGED <<stage, holds, sent, loaded, left, pulled, passed, collectionVars>>

-----------------------------------------------------------------------------
\* A caller of the pull service acknowledges a batch that ends with this line.
AckPulled(line) ==
    /\ line \in pulled
    /\ SavePosition(line[1], line[2])
    /\ passed' = passed \cup {line[1]} \X (1 .. line[2])
    /\ UNCHANGED <<read, hot, rest, disk, crashes,
                   stage, holds, sent, cache, loaded, left, resent, pulled, failures>>

Flush == FlushPositions /\ UNCHANGED pipelineVars

\* The cache is on disk, everything else of the pipeline in memory.
Crash ==
    /\ RestartCollection
    /\ stage' = [w \in Workers |-> "idle"] /\ holds' = [w \in Workers |-> {}]
    /\ loaded' = FALSE /\ left' = {} /\ resent' = {}
    /\ pulled' = {}
    /\ UNCHANGED <<sent, cache, failures, passed>>

WorkerStep(w) ==
    \/ \E f \in Files : TakeBatch(w, f)
    \/ SendBatch(w)
    \/ SendFails(w)
    \/ CacheBatch(w)
    \/ SaveCheckpoint(w)

ReplayStep ==
    \/ LoadCache
    \/ \E b \in left : Resend(b) \/ ResendFails(b)
    \/ RemoveResent

Next ==
    \/ \E f \in Files, n \in ScanSizes : Collect(f, n)
    \/ \E w \in Workers : WorkerStep(w)
    \/ ReplayStep
    \/ \E line \in pulled : AckPulled(line)
    \/ Flush
    \/ Crash

Spec == Init /\ [][Next]_vars

-----------------------------------------------------------------------------
\* Every variable has its type; a worker holds a batch exactly while it works on one.
TypeOK ==
    /\ CollectionTypeOK
    /\ stage \in [Workers -> {"idle", "sending", "sent", "failed"}]
    /\ holds \in [Workers -> SUBSET Lines]
    /\ \A w \in Workers : stage[w] = "idle" <=> holds[w] = {}
    /\ sent \subseteq Lines /\ pulled \subseteq Lines /\ passed \subseteq Lines
    /\ cache \subseteq SUBSET Lines /\ left \subseteq SUBSET Lines
    /\ loaded \in BOOLEAN
    /\ resent = {} \/ \E b \in SUBSET Lines : resent = {b}
    /\ failures \in 0 .. MaxStoreFailures

(***************************************************************************)
(* "The whole flow ensures at-least-once" (pipeline.go:3): whatever line   *)
(* the checkpoint on disk covers, and will therefore not be collected      *)
(* again, is in Kafka or in the cache that the next start sends, over      *)
(* failing sends, crashes and interrupted replays.                         *)
(***************************************************************************)
CheckpointOnlyAfterSend ==
    \A f \in Files : \A n \in 1 .. disk[f] :
        <<f, n>> \in sent \/ \E b \in cache : <<f, n>> \in b

(***************************************************************************)
(* What is left of that promise with several workers, a cache that may     *)
(* fail and the pull service beside them: the checkpoint covers a line     *)
(* that is neither in Kafka nor in the cache only if another worker had    *)
(* the line in hand when the later one was saved, the cache refused it, a  *)
(* caller of the pull service acknowledged it or a later one, or a         *)
(* critical line overtook it.                                              *)
(***************************************************************************)
GapsOfCheckpoint ==
    \A f \in Files : \A n \in 1 .. disk[f] :
        \/ <<f, n>> \in sent \/ \E b \in cache : <<f, n>> \in b
        \/ <<f, n>> \in passed \/ Overtaken(n)

(***************************************************************************)
(* A batch leaves the cache only when all its lines are in Kafka, whatever *)
(* the workers, the replay and restarts do at the same time.               *)
(***************************************************************************)
CachedUntilSent == [][\A b \in cache : b \in cache' \/ b \subseteq sent]_vars
=============================================================================
