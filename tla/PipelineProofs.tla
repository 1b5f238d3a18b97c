--------------------------- MODULE PipelineProofs ---------------------------
(***************************************************************************)
(* Proofs about Pipeline for any files, workers, keywords, scan sizes and  *)
(* numbers of crashes and failures.                                        *)
(*                                                                         *)
(* The argument follows a line through the agent: what the collector has   *)
(* read is settled (in Kafka, in the cache, or on the list of excuses),    *)
(* in some worker's hands, or still waiting in one of the two groups.  A   *)
(* position is saved at the end of a batch; whatever it passes that is     *)
(* neither settled nor in somebody's hands still waits, and only a         *)
(* critical line can be in hand while an earlier line of its file waits.   *)
(***************************************************************************)
EXTENDS Pipeline, CollectionProofs

Settled(f, n) ==
    \/ <<f, n>> \in sent \/ \E b \in cache : <<f, n>> \in b
    \/ <<f, n>> \in passed \/ Overtaken(n)

Held(f, n) == \E w \in Workers : <<f, n>> \in holds[w]

\* The store knows no position beyond the lines there are.
PositionsExist ==
    \A f \in Files : read[f] <= MaxLines /\ saved[f] <= MaxLines /\ disk[f] <= MaxLines

\* A line that is in hand or waits has been read; the first group is the critical lines.
OnlyReadLines ==
    \A f \in Files, n \in Nat :
        /\ Held(f, n) => n <= read[f]
        /\ Waits(f, n) => 1 <= n /\ n <= read[f]
        /\ InGroup(hot[f], n) => n \in Critical

\* No line that was read is out of sight.
ReadLinesTraced ==
    \A f \in Files : \A n \in 1 .. read[f] : Settled(f, n) \/ Held(f, n) \/ Waits(f, n)

\* Whatever a position covers is settled.
PositionsSettled ==
    \A f \in Files :
        /\ \A n \in 1 .. saved[f] : Settled(f, n)
        /\ \A n \in 1 .. disk[f] : Settled(f, n)

\* Batches leave in file order, but for critical lines.
HandedOutInOrder ==
    \A f \in Files, m, n \in Nat : Held(f, m) /\ Waits(f, n) => m < n \/ m \in Critical

\* What a worker or the replay calls sent is in Kafka.
SentIsSent ==
    /\ \A w \in Workers : stage[w] = "sent" => holds[w] \subseteq sent
    /\ \A b \in resent : b \subseteq sent

IInv ==
    /\ TypeOK
    /\ PositionsExist
    /\ OnlyReadLines
    /\ ReadLinesTraced
    /\ PositionsSettled
    /\ HandedOutInOrder
    /\ SentIsSent

-----------------------------------------------------------------------------
(* Initially nothing has been read, and no position covers a line. *)
LEMMA InitIInv == Init => IInv
<1> SUFFICES ASSUME Init PROVE IInv
  OBVIOUS
<1> USE DEF Init, CollectionInit, AtStart, NoLines
<1>1. TypeOK
  <2>1. CollectionTypeOK
    BY DEF CollectionTypeOK
  <2>2. failures \in 0 .. MaxStoreFailures
    BY PipelineAssumption
  <2> QED BY <2>1, <2>2 DEF TypeOK
<1>2. \A f \in Files : \A n : ~Waits(f, n) /\ ~Held(f, n)
  BY EmptyGroup DEF Waits, Held
<1>3. PositionsExist
  BY CollectionAssumption DEF PositionsExist
<1>4. OnlyReadLines /\ HandedOutInOrder
  BY <1>2 DEF OnlyReadLines, HandedOutInOrder, Waits
<1>5. ReadLinesTraced /\ PositionsSettled
  BY DEF ReadLinesTraced, PositionsSettled
<1>6. SentIsSent
  BY DEF SentIsSent
<1> QED BY <1>1, <1>3, <1>4, <1>5, <1>6 DEF IInv

\* The waiting group of a file, as a batch of the pipeline.
GroupBatch(f) == {<<f, Waiting(f)[i]>> : i \in DOMAIN Waiting(f)}

\* What is in that batch.
LEMMA BatchOfLines ==
    ASSUME IInv, NEW f \in Files
    PROVE  /\ \A e, n : <<e, n>> \in GroupBatch(f) <=> e = f /\ InGroup(Waiting(f), n)
           /\ GroupBatch(f) \subseteq Lines
           /\ Waiting(f) # <<>> => GroupBatch(f) # {}
<1>1. Waiting(f) \in Seq(Nat)
  BY DEF IInv, TypeOK, CollectionTypeOK, Waiting
<1>2. DOMAIN Waiting(f) = 1 .. Len(Waiting(f)) /\ \A i \in DOMAIN Waiting(f) : Waiting(f)[i] \in Nat
  BY <1>1
<1> DEFINE b == GroupBatch(f)
<1>3. \A e, n : <<e, n>> \in b <=> e = f /\ InGroup(Waiting(f), n)
  BY <1>2 DEF InGroup, GroupBatch
<1>4. \A n \in Nat : InGroup(Waiting(f), n) => n \in 1 .. MaxLines
  <2>1. \A n \in Nat : InGroup(Waiting(f), n) => Waits(f, n)
    BY DEF Waiting, Waits
  <2>2. read[f] \in Nat /\ read[f] <= MaxLines
    BY DEF IInv, TypeOK, CollectionTypeOK, PositionsExist
  <2> QED BY <2>1, <2>2, CollectionAssumption DEF IInv, OnlyReadLines
<1>5. b \subseteq Lines
  <2>1. ASSUME NEW i \in DOMAIN Waiting(f) PROVE Waiting(f)[i] \in 1 .. MaxLines
    BY <1>2, <1>4 DEF InGroup
  <2> QED BY <2>1 DEF Lines, GroupBatch
<1>6. ASSUME Waiting(f) # <<>> PROVE b # {}
  <2>1. 1 \in DOMAIN Waiting(f)
    BY <1>1, <1>2, <1>6
  <2>2. <<f, Waiting(f)[1]>> \in b
    BY <2>1 DEF GroupBatch
  <2> QED BY <2>2
<1> QED BY <1>3, <1>5, <1>6

(* Types are kept. *)
LEMMA NextTypeOK == IInv /\ [Next]_vars => TypeOK'
<1> SUFFICES ASSUME IInv, [Next]_vars PROVE TypeOK'
  OBVIOUS
<1>0. TypeOK /\ CollectionTypeOK
  BY DEF IInv, TypeOK
<1> USE DEF TypeOK
<1>1. ASSUME NEW f \in Files, NEW n \in ScanSizes, Collect(f, n) PROVE TypeOK'
  BY <1>0, <1>1, ScanType DEF Collect, pipelineVars
<1>2. ASSUME NEW w \in Workers, NEW f \in Files, TakeBatch(w, f) PROVE TypeOK'
  <2> DEFINE b == GroupBatch(f)
  <2>1. b \subseteq Lines /\ b # {}
    BY <1>2, BatchOfLines DEF TakeBatch, Take
  <2>2. CollectionTypeOK'
    BY <1>0, <1>2, TakeType DEF TakeBatch
  <2>3. /\ stage' = [stage EXCEPT ![w] = "sending"]
        /\ holds' = [holds EXCEPT ![w] = b]
        /\ pulled' = IF DualMode THEN pulled \cup b ELSE pulled
    BY <1>2 DEF TakeBatch, Goto, GroupBatch
  <2>4. UNCHANGED <<sent, cache, loaded, left, resent, failures, passed>>
    BY <1>2 DEF TakeBatch
  <2> HIDE DEF b
  <2>5. pulled' \subseteq Lines
    BY <1>0, <2>1, <2>3
  <2>6. holds' \in [Workers -> SUBSET Lines] /\ stage' \in [Workers -> {"idle", "sending", "sent", "failed"}]
        /\ \A v \in Workers : stage'[v] = "idle" <=> holds'[v] = {}
    BY <1>0, <2>1, <2>3
  <2> QED BY <1>0, <2>2, <2>4, <2>5, <2>6
<1>3. ASSUME NEW w \in Workers, SendBatch(w) PROVE TypeOK'
  BY <1>0, <1>3 DEF SendBatch, Goto, collectionVars, CollectionTypeOK
<1>4. ASSUME NEW w \in Workers, SendFails(w) PROVE TypeOK'
  BY <1>0, <1>4 DEF SendFails, Goto, collectionVars, CollectionTypeOK
<1>5. ASSUME NEW w \in Workers, CacheBatch(w) PROVE TypeOK'
  <2>1. cache' \subseteq SUBSET Lines /\ passed' \subseteq Lines /\ failures' \in 0 .. MaxStoreFailures
    BY <1>0, <1>5, PipelineAssumption DEF CacheBatch, StoreFails
  <2> QED BY <1>0, <1>5, <2>1 DEF CacheBatch, Finish, Goto, collectionVars, CollectionTypeOK
<1>6. ASSUME NEW w \in Workers, SaveCheckpoint(w) PROVE TypeOK'
  <2>1. PICK last \in holds[w] :
          /\ SavePosition(last[1], last[2])
          /\ passed' = passed \cup {line \in UNION {holds[v] : v \in Workers} :
                                       line[1] = last[1] /\ line[2] < last[2] /\ line \notin holds[w]}
    BY <1>6 DEF SaveCheckpoint
  <2>2. saved' \in [Files -> Nat]
    BY <1>0, <2>1 DEF SavePosition, CollectionTypeOK, Lines
  <2>3. passed' \subseteq Lines
    BY <1>0, <2>1
  <2> QED BY <1>0, <1>6, <2>2, <2>3 DEF SaveCheckpoint, Finish, Goto, CollectionTypeOK
<1>7. ASSUME LoadCache PROVE TypeOK'
  BY <1>0, <1>7 DEF LoadCache, collectionVars, CollectionTypeOK
<1>8. ASSUME NEW b \in left, Resend(b) PROVE TypeOK'
  BY <1>0, <1>8 DEF Resend, collectionVars, CollectionTypeOK
<1>9. ASSUME NEW b \in left, ResendFails(b) PROVE TypeOK'
  BY <1>0, <1>9 DEF ResendFails, collectionVars, CollectionTypeOK
<1>10. ASSUME RemoveResent PROVE TypeOK'
  BY <1>0, <1>10, PipelineAssumption DEF RemoveResent, StoreFails, collectionVars, CollectionTypeOK
<1>11. ASSUME NEW line \in pulled, AckPulled(line) PROVE TypeOK'
  <2>1. PICK f \in Files, n \in 1 .. MaxLines : line = <<f, n>>
    BY <1>0 DEF Lines
  <2>2. saved' \in [Files -> Nat]
    BY <1>0, <1>11, <2>1 DEF AckPulled, SavePosition, CollectionTypeOK
  <2>3. passed' = passed \cup {f} \X (1 .. n)
    BY <1>11, <2>1 DEF AckPulled
  <2>4. passed' \subseteq Lines
    BY <1>0, <2>1, <2>3, CollectionAssumption DEF Lines
  <2> QED BY <1>0, <1>11, <2>2, <2>4 DEF AckPulled, CollectionTypeOK
<1>12. ASSUME Flush PROVE TypeOK'
  BY <1>0, <1>12 DEF Flush, FlushPositions, pipelineVars, CollectionTypeOK
<1>13. ASSUME Crash PROVE TypeOK'
  BY <1>0, <1>13, RestartType DEF Crash, RestartCollection
<1>14. ASSUME UNCHANGED vars PROVE TypeOK'
  BY <1>0, <1>14 DEF vars, pipelineVars, collectionVars, CollectionTypeOK
<1> QED BY <1>1, <1>2, <1>3, <1>4, <1>5, <1>6, <1>7, <1>8, <1>9, <1>10, <1>11, <1>12, <1>13, <1>14
        DEF Next, WorkerStep, ReplayStep

(* A batch leaves the cache only after the replay has sent it. *)
LEMMA CacheShrinksToSent ==
    ASSUME IInv, [Next]_vars
    PROVE  \A b \in cache : b \in cache' \/ b \subseteq sent
<1>1. ASSUME NEW w \in Workers, WorkerStep(w) PROVE cache \subseteq cache'
  BY <1>1 DEF WorkerStep, TakeBatch, SendBatch, SendFails, CacheBatch, SaveCheckpoint
<1>2. CASE RemoveResent
  BY <1>2 DEF RemoveResent, IInv, SentIsSent
<1>3. ASSUME ReplayStep, ~RemoveResent PROVE cache \subseteq cache'
  BY <1>3 DEF ReplayStep, LoadCache, Resend, ResendFails
<1> QED BY <1>1, <1>2, <1>3 DEF Next, vars, pipelineVars, Collect, AckPulled, Flush, Crash

(* What is settled stays settled. *)
LEMMA SettledStays ==
    ASSUME IInv, [Next]_vars, NEW f \in Files, NEW n \in Nat, Settled(f, n)
    PROVE  Settled(f, n)'
<1> USE DEF Settled
<1>0. Overtaken(n) => Overtaken(n)'
  BY DEF Overtaken
<1>1. sent \subseteq sent' /\ passed \subseteq passed'
  <2>1. ASSUME NEW w \in Workers, WorkerStep(w) PROVE sent \subseteq sent' /\ passed \subseteq passed'
    BY <2>1 DEF WorkerStep, TakeBatch, SendBatch, SendFails, CacheBatch, SaveCheckpoint
  <2>2. ASSUME ReplayStep PROVE sent \subseteq sent' /\ passed \subseteq passed'
    BY <2>2 DEF ReplayStep, LoadCache, Resend, ResendFails, RemoveResent
  <2> QED BY <2>1, <2>2 DEF Next, vars, pipelineVars, Collect, AckPulled, Flush, Crash
<1>2. \A b \in cache : b \in cache' \/ b \subseteq sent
  BY CacheShrinksToSent
<1> QED BY <1>0, <1>1, <1>2

(* The same, for the lines that positions cover. *)
LEMMA CoveredStays ==
    ASSUME IInv, [Next]_vars, NEW f \in Files, NEW k \in Nat, \A n \in 1 .. k : Settled(f, n)
    PROVE  \A n \in 1 .. k : Settled(f, n)'
<1> SUFFICES ASSUME NEW n \in 1 .. k PROVE Settled(f, n)'
  OBVIOUS
<1>1. n \in Nat /\ Settled(f, n)
  OBVIOUS
<1> QED BY <1>1, SettledStays

(* A step that leaves the collector and the workers' batches alone. *)
LEMMA QuietStep ==
    ASSUME IInv, [Next]_vars, UNCHANGED <<read, hot, rest, saved, disk, holds>>, SentIsSent'
    PROVE  IInv'
<1>1. TypeOK'
  BY NextTypeOK
<1>2. PositionsExist' /\ OnlyReadLines' /\ HandedOutInOrder'
  BY DEF IInv, PositionsExist, OnlyReadLines, HandedOutInOrder, Held, Waits
<1>3. \A f \in Files : read[f] \in Nat /\ saved[f] \in Nat /\ disk[f] \in Nat
  BY DEF IInv, TypeOK, CollectionTypeOK
<1>4. ReadLinesTraced'
  <2> SUFFICES ASSUME NEW f \in Files, NEW n \in 1 .. read[f]
               PROVE  Settled(f, n)' \/ Held(f, n)' \/ Waits(f, n)'
    BY DEF ReadLinesTraced
  <2>1. n \in Nat
    BY <1>3
  <2> QED BY <2>1, SettledStays DEF IInv, ReadLinesTraced, Held, Waits
<1>5. PositionsSettled'
  <2> SUFFICES ASSUME NEW f \in Files
               PROVE  (\A n \in 1 .. saved[f] : Settled(f, n)') /\ (\A n \in 1 .. disk[f] : Settled(f, n)')
    BY DEF PositionsSettled
  <2> QED BY <1>3, CoveredStays DEF IInv, PositionsSettled
<1> QED BY <1>1, <1>2, <1>4, <1>5 DEF IInv

(* A scan: what it reads waits behind everything that was read before. *)
LEMMA CollectIInv ==
    ASSUME IInv, NEW f \in Files, NEW k \in ScanSizes, Collect(f, k)
    PROVE  IInv'
<1>0. [Next]_vars
  BY DEF Next
<1>1. TypeOK'
  BY <1>0, NextTypeOK
<1>2. /\ k \in Nat
      /\ read \in [Files -> Nat] /\ saved \in [Files -> Nat] /\ disk \in [Files -> Nat]
  BY CollectionAssumption DEF IInv, TypeOK, CollectionTypeOK
<1>3. /\ read' = [read EXCEPT ![f] = read[f] + k]
      /\ read[f] + k <= MaxLines
      /\ UNCHANGED <<saved, disk, holds, stage, sent, resent>>
  BY DEF Collect, Scan, pipelineVars
<1>4. /\ \A m : ~Waits(f, m)
      /\ \A m : Waits(f, m)' <=> m \in (read[f] + 1) .. (read[f] + k)
      /\ \A m : InGroup(hot'[f], m) => m \in Critical
      /\ \A e \in Files \ {f} : hot'[e] = hot[e] /\ rest'[e] = rest[e]
  BY ScanWaits DEF IInv, TypeOK, Collect
<1>5. \A e \in Files \ {f} : \A m : Waits(e, m)' <=> Waits(e, m)
  BY <1>4 DEF Waits
<1>6. \A e \in Files : \A m : Held(e, m)' <=> Held(e, m)
  BY <1>3 DEF Held
<1>7. PositionsExist'
  BY <1>2, <1>3 DEF IInv, PositionsExist
<1>8. OnlyReadLines'
  <2> SUFFICES ASSUME NEW e \in Files, NEW n \in Nat
               PROVE  /\ Held(e, n)' => n <= read'[e]
                      /\ Waits(e, n)' => 1 <= n /\ n <= read'[e]
                      /\ InGroup(hot'[e], n) => n \in Critical
    BY DEF OnlyReadLines
  <2>1. read'[e] = IF e = f THEN read[f] + k ELSE read[e]
    BY <1>2, <1>3
  <2>2. CASE e = f
    BY <1>2, <1>4, <1>6, <2>1, <2>2 DEF IInv, OnlyReadLines
  <2>3. CASE e # f
    BY <1>4, <1>5, <1>6, <2>1, <2>3 DEF IInv, OnlyReadLines
  <2> QED BY <2>2, <2>3
<1>9. ReadLinesTraced'
  <2> SUFFICES ASSUME NEW e \in Files, NEW n \in 1 .. read'[e]
               PROVE  Settled(e, n)' \/ Held(e, n)' \/ Waits(e, n)'
    BY DEF ReadLinesTraced
  <2>1. n \in Nat /\ read'[e] = IF e = f THEN read[f] + k ELSE read[e]
    BY <1>2, <1>3
  <2>2. CASE n \in 1 .. read[e]
    <3>1. Settled(e, n) \/ Held(e, n) \/ Waits(e, n)
      BY <2>2 DEF IInv, ReadLinesTraced
    <3>2. CASE Settled(e, n)
      BY <1>0, <2>1, <3>2, SettledStays
    <3>3. CASE Held(e, n)
      BY <1>6, <3>3
    <3>4. CASE Waits(e, n)
      BY <1>4, <1>5, <3>4
    <3> QED BY <3>1, <3>2, <3>3, <3>4
  <2>3. CASE n \notin 1 .. read[e]
    <3>1. e = f /\ n \in (read[f] + 1) .. (read[f] + k)
      BY <1>2, <2>1, <2>3
    <3> QED BY <1>4, <3>1
  <2> QED BY <2>2, <2>3
<1>10. PositionsSettled'
  <2> SUFFICES ASSUME NEW e \in Files
               PROVE  (\A n \in 1 .. saved[e] : Settled(e, n)') /\ (\A n \in 1 .. disk[e] : Settled(e, n)')
    BY <1>3 DEF PositionsSettled
  <2>1. saved[e] \in Nat /\ disk[e] \in Nat
    BY <1>2
  <2> QED BY <1>0, <2>1, CoveredStays DEF IInv, PositionsSettled
<1>11. HandedOutInOrder'
  <2> SUFFICES ASSUME NEW e \in Files, NEW m \in Nat, NEW n \in Nat, Held(e, m)', Waits(e, n)'
               PROVE  m < n \/ m \in Critical
    BY DEF HandedOutInOrder
  <2>1. CASE e = f
    <3>1. m <= read[f]
      BY <1>6, <2>1 DEF IInv, OnlyReadLines
    <3>2. read[f] < n
      BY <1>2, <1>4, <2>1
    <3> QED BY <1>2, <3>1, <3>2
  <2>2. CASE e # f
    BY <1>5, <1>6, <2>2 DEF IInv, HandedOutInOrder
  <2> QED BY <2>1, <2>2
<1>12. SentIsSent'
  BY <1>3 DEF IInv, SentIsSent
<1> QED BY <1>1, <1>7, <1>8, <1>9, <1>10, <1>11, <1>12 DEF IInv

(* A worker takes a group: what waits behind it is no earlier, unless the *)
(* group is the critical lines.                                           *)
LEMMA TakeBatchIInv ==
    ASSUME IInv, NEW w \in Workers, NEW f \in Files, TakeBatch(w, f)
    PROVE  IInv'
<1>0. [Next]_vars
  BY DEF Next, WorkerStep
<1>1. TypeOK'
  BY <1>0, NextTypeOK
<1> DEFINE b == GroupBatch(f)
<1>2. /\ stage[w] = "idle" /\ Take(f)
      /\ stage' = [stage EXCEPT ![w] = "sending"] /\ holds' = [holds EXCEPT ![w] = b]
      /\ UNCHANGED <<sent, resent, read, saved, disk>>
  BY DEF TakeBatch, Goto, Take, GroupBatch
<1>3. \A e, n : <<e, n>> \in b <=> e = f /\ InGroup(Waiting(f), n)
  BY BatchOfLines
<1> HIDE DEF b
<1>4. /\ \A m : Waits(f, m) <=> InGroup(Waiting(f), m) \/ Waits(f, m)'
      /\ \A m : ~InGroup(hot'[f], m)
      /\ \A m, k : InGroup(Waiting(f), m) /\ Waits(f, k)' => InGroup(hot[f], m)
      /\ \A e \in Files \ {f} : hot'[e] = hot[e] /\ rest'[e] = rest[e]
  BY <1>2, TakeWaits DEF IInv, TypeOK
<1>5. \A e \in Files \ {f} : \A m : Waits(e, m)' <=> Waits(e, m)
  BY <1>4 DEF Waits
<1>6. \A e \in Files : \A m : Held(e, m)' <=> Held(e, m) \/ (e = f /\ InGroup(Waiting(f), m))
  <2> SUFFICES ASSUME NEW e \in Files, NEW m
               PROVE  Held(e, m)' <=> Held(e, m) \/ <<e, m>> \in b
    BY <1>3
  <2>1. holds[w] = {} /\ \A v \in Workers : holds'[v] = IF v = w THEN b ELSE holds[v]
    BY <1>2 DEF IInv, TypeOK
  <2> QED BY <2>1 DEF Held
<1>7. PositionsExist'
  BY <1>2 DEF IInv, PositionsExist
<1>8. OnlyReadLines'
  <2> SUFFICES ASSUME NEW e \in Files, NEW n \in Nat
               PROVE  /\ Held(e, n)' => n <= read[e]
                      /\ Waits(e, n)' => 1 <= n /\ n <= read[e]
                      /\ InGroup(hot'[e], n) => n \in Critical
    BY <1>2 DEF OnlyReadLines
  <2> QED BY <1>4, <1>5, <1>6 DEF IInv, OnlyReadLines
<1>9. ReadLinesTraced'
  <2> SUFFICES ASSUME NEW e \in Files, NEW n \in 1 .. read[e]
               PROVE  Settled(e, n)' \/ Held(e, n)' \/ Waits(e, n)'
    BY <1>2 DEF ReadLinesTraced
  <2>1. Settled(e, n) \/ Held(e, n) \/ Waits(e, n)
    BY DEF IInv, ReadLinesTraced
  <2>2. CASE Settled(e, n)
    <3>1. n \in Nat
      BY DEF IInv, TypeOK, CollectionTypeOK
    <3> QED BY <1>0, <2>2, <3>1, SettledStays
  <2>3. CASE Held(e, n)
    BY <1>6, <2>3
  <2>4. CASE Waits(e, n)
    BY <1>4, <1>5, <1>6, <2>4
  <2> QED BY <2>1, <2>2, <2>3, <2>4
<1>10. PositionsSettled'
  <2> SUFFICES ASSUME NEW e \in Files
               PROVE  (\A n \in 1 .. saved[e] : Settled(e, n)') /\ (\A n \in 1 .. disk[e] : Settled(e, n)')
    BY <1>2 DEF PositionsSettled
  <2>1. saved[e] \in Nat /\ disk[e] \in Nat
    BY DEF IInv, TypeOK, CollectionTypeOK
  <2> QED BY <1>0, <2>1, CoveredStays DEF IInv, PositionsSettled
<1>11. HandedOutInOrder'
  <2> SUFFICES ASSUME NEW e \in Files, NEW m \in Nat, NEW n \in Nat, Held(e, m)', Waits(e, n)'
               PROVE  m < n \/ m \in Critical
    BY DEF HandedOutInOrder
  <2>1. Waits(e, n)
    BY <1>4, <1>5
  <2>2. CASE Held(e, m)
    BY <2>1, <2>2 DEF IInv, HandedOutInOrder
  <2>3. CASE ~Held(e, m)
    <3>1. InGroup(hot[f], m)
      BY <1>4, <1>6, <2>3
    <3> QED BY <3>1 DEF IInv, OnlyReadLines
  <2> QED BY <2>2, <2>3
<1>12. SentIsSent'
  BY <1>2 DEF IInv, SentIsSent, TypeOK
<1> QED BY <1>1, <1>7, <1>8, <1>9, <1>10, <1>11, <1>12 DEF IInv

(* A worker that is through with its batch, which is settled now, as is what *)
(* the position it may have saved covers.                                    *)
LEMMA FinishIInv ==
    ASSUME IInv, [Next]_vars, NEW w \in Workers, Finish(w),
           UNCHANGED <<sent, resent, read, hot, rest, disk>>,
           \A f \in Files, n \in Nat : <<f, n>> \in holds[w] => Settled(f, n)',
           \A f \in Files : saved'[f] <= MaxLines /\ \A n \in 1 .. saved'[f] : Settled(f, n)'
    PROVE  IInv'
<1>1. TypeOK'
  BY NextTypeOK
<1>2. \A v \in Workers : /\ holds'[v] = IF v = w THEN {} ELSE holds[v]
                         /\ stage'[v] = IF v = w THEN "idle" ELSE stage[v]
  BY DEF Finish, Goto, IInv, TypeOK
<1>3. \A f \in Files, n \in Nat : Held(f, n)' => Held(f, n)
  BY <1>2 DEF Held
<1>4. \A f \in Files, n \in Nat : Held(f, n) => Held(f, n)' \/ Settled(f, n)'
  BY <1>2 DEF Held
<1>5. PositionsExist' /\ OnlyReadLines' /\ HandedOutInOrder'
  <2>1. \A f \in Files, n \in Nat : Waits(f, n)' <=> Waits(f, n)
    BY DEF Waits
  <2>2. OnlyReadLines' /\ HandedOutInOrder'
    BY <1>3, <2>1 DEF IInv, OnlyReadLines, HandedOutInOrder
  <2> QED BY <2>2 DEF IInv, PositionsExist
<1>6. ReadLinesTraced'
  <2> SUFFICES ASSUME NEW f \in Files, NEW n \in 1 .. read[f]
               PROVE  Settled(f, n)' \/ Held(f, n)' \/ Waits(f, n)'
    BY DEF ReadLinesTraced
  <2>1. n \in Nat
    BY DEF IInv, TypeOK, CollectionTypeOK
  <2>2. Settled(f, n) \/ Held(f, n) \/ Waits(f, n)
    BY DEF IInv, ReadLinesTraced
  <2> QED BY <1>4, <2>1, <2>2, SettledStays DEF Waits
<1>7. PositionsSettled'
  <2> SUFFICES ASSUME NEW f \in Files
               PROVE  (\A n \in 1 .. saved'[f] : Settled(f, n)') /\ (\A n \in 1 .. disk[f] : Settled(f, n)')
    BY DEF PositionsSettled
  <2>1. disk[f] \in Nat
    BY DEF IInv, TypeOK, CollectionTypeOK
  <2> QED BY <2>1, CoveredStays DEF IInv, PositionsSettled
<1>8. SentIsSent'
  BY <1>2 DEF IInv, SentIsSent
<1> QED BY <1>1, <1>5, <1>6, <1>7, <1>8 DEF IInv

(* A batch that went into the cache, or that the cache refused, is settled. *)
LEMMA CacheBatchIInv ==
    ASSUME IInv, NEW w \in Workers, CacheBatch(w)
    PROVE  IInv'
<1>1. [Next]_vars
  BY DEF Next, WorkerStep
<1>2. Finish(w) /\ UNCHANGED <<sent, resent, read, hot, rest, saved, disk>>
  BY DEF CacheBatch, collectionVars
<1>3. \A f \in Files, n \in Nat : <<f, n>> \in holds[w] => Settled(f, n)'
  BY DEF CacheBatch, Settled
<1>4. \A f \in Files : saved'[f] <= MaxLines /\ \A n \in 1 .. saved'[f] : Settled(f, n)'
  <2> SUFFICES ASSUME NEW f \in Files
               PROVE  saved[f] <= MaxLines /\ \A n \in 1 .. saved[f] : Settled(f, n)'
    BY <1>2
  <2>1. saved[f] \in Nat /\ saved[f] <= MaxLines
    BY DEF IInv, TypeOK, CollectionTypeOK, PositionsExist
  <2> QED BY <1>1, <2>1, CoveredStays DEF IInv, PositionsSettled
<1> QED BY <1>1, <1>2, <1>3, <1>4, FinishIInv

(* The heart of it: a position saved at the end of a sent batch passes over  *)
(* lines that are settled, that another worker has in hand, or that wait     *)
(* because a critical line overtook them.                                    *)
LEMMA SaveCheckpointIInv ==
    ASSUME IInv, NEW w \in Workers, SaveCheckpoint(w)
    PROVE  IInv'
<1>1. [Next]_vars
  BY DEF Next, WorkerStep
<1>2. stage[w] = "sent" /\ Finish(w) /\ UNCHANGED <<sent, resent, read, hot, rest, disk>>
  BY DEF SaveCheckpoint
<1>3. holds[w] \subseteq sent /\ holds[w] \subseteq Lines
  BY <1>2 DEF IInv, SentIsSent, TypeOK
<1>4. \A f \in Files, n \in Nat : <<f, n>> \in holds[w] => Settled(f, n)'
  BY <1>2, <1>3 DEF Settled
<1>5. PICK last \in holds[w] :
         /\ saved' = [saved EXCEPT ![last[1]] = last[2]]
         /\ passed' = passed \cup {line \in UNION {holds[v] : v \in Workers} :
                                      line[1] = last[1] /\ line[2] < last[2] /\ line \notin holds[w]}
  BY DEF SaveCheckpoint, SavePosition
<1>6. PICK e \in Files, k \in 1 .. MaxLines : last = <<e, k>>
  BY <1>3, <1>5 DEF Lines
<1>7. k \in Nat /\ k <= MaxLines /\ saved' = [saved EXCEPT ![e] = k]
  BY <1>5, <1>6, CollectionAssumption
<1>8. ASSUME NEW n \in 1 .. k PROVE Settled(e, n)'
  <2>1. Held(e, k) /\ n \in Nat /\ n \in 1 .. read[e]
    <3>1. Held(e, k)
      BY <1>5, <1>6 DEF Held
    <3>2. k <= read[e]
      BY <1>7, <3>1 DEF IInv, OnlyReadLines
    <3> QED BY <1>7, <3>1, <3>2 DEF IInv, TypeOK, CollectionTypeOK
  <2>2. CASE n = k
    BY <1>4, <1>5, <1>6, <1>7, <2>2
  <2>3. CASE n < k
    <3>1. Settled(e, n) \/ Held(e, n) \/ Waits(e, n)
      BY <2>1 DEF IInv, ReadLinesTraced
    <3>2. CASE Settled(e, n)
      BY <1>1, <2>1, <3>2, SettledStays
    <3>3. CASE Held(e, n)
      <4>1. PICK v \in Workers : <<e, n>> \in holds[v]
        BY <3>3 DEF Held
      <4>2. CASE <<e, n>> \in holds[w]
        BY <1>4, <2>1, <4>2
      <4>3. CASE <<e, n>> \notin holds[w]
        <5>1. <<e, n>> \in passed'
          BY <1>5, <1>6, <2>3, <4>1, <4>3
        <5> QED BY <5>1 DEF Settled
      <4> QED BY <4>2, <4>3
    <3>4. CASE Waits(e, n)
      <4>1. k \in Critical
        BY <1>7, <2>1, <2>3, <3>4 DEF IInv, HandedOutInOrder
      <4> QED BY <2>3, <4>1 DEF Settled, Overtaken
    <3> QED BY <3>1, <3>2, <3>3, <3>4
  <2> QED BY <1>7, <2>2, <2>3
<1>9. \A f \in Files : saved'[f] <= MaxLines /\ \A n \in 1 .. saved'[f] : Settled(f, n)'
  <2> SUFFICES ASSUME NEW f \in Files
               PROVE  saved'[f] <= MaxLines /\ \A n \in 1 .. saved'[f] : Settled(f, n)'
    OBVIOUS
  <2>1. saved[f] \in Nat /\ saved[f] <= MaxLines /\ saved'[f] = IF f = e THEN k ELSE saved[f]
    BY <1>7 DEF IInv, TypeOK, CollectionTypeOK, PositionsExist
  <2>2. CASE f = e
    BY <1>7, <1>8, <2>1, <2>2
  <2>3. CASE f # e
    BY <1>1, <2>1, <2>3, CoveredStays DEF IInv, PositionsSettled
  <2> QED BY <2>2, <2>3
<1> QED BY <1>1, <1>2, <1>4, <1>9, FinishIInv

(* What a caller of the pull service acknowledges is on the list of excuses. *)
LEMMA AckPulledIInv ==
    ASSUME IInv, NEW line \in pulled, AckPulled(line)
    PROVE  IInv'
<1>1. [Next]_vars
  BY DEF Next
<1>2. PICK e \in Files, k \in 1 .. MaxLines : line = <<e, k>>
  BY DEF IInv, TypeOK, Lines
<1>3. /\ k \in Nat /\ k <= MaxLines
      /\ saved' = [saved EXCEPT ![e] = k]
      /\ passed' = passed \cup {e} \X (1 .. k)
      /\ UNCHANGED <<read, hot, rest, disk, stage, holds, sent, resent>>
  BY <1>2, CollectionAssumption DEF AckPulled, SavePosition
<1>4. TypeOK'
  BY <1>1, NextTypeOK
<1>5. \A f \in Files : /\ read[f] \in Nat /\ disk[f] \in Nat /\ saved[f] \in Nat
                       /\ saved'[f] = IF f = e THEN k ELSE saved[f]
  BY <1>3 DEF IInv, TypeOK, CollectionTypeOK
<1>6. PositionsExist'
  BY <1>3, <1>5 DEF IInv, PositionsExist
<1>7. OnlyReadLines' /\ HandedOutInOrder' /\ SentIsSent'
  BY <1>3 DEF IInv, OnlyReadLines, HandedOutInOrder, SentIsSent, Held, Waits
<1>8. ReadLinesTraced'
  <2> SUFFICES ASSUME NEW f \in Files, NEW n \in 1 .. read[f]
               PROVE  Settled(f, n)' \/ Held(f, n)' \/ Waits(f, n)'
    BY <1>3 DEF ReadLinesTraced
  <2>1. n \in Nat
    BY <1>5
  <2> QED BY <1>1, <1>3, <2>1, SettledStays DEF IInv, ReadLinesTraced, Held, Waits
<1>9. PositionsSettled'
  <2> SUFFICES ASSUME NEW f \in Files
               PROVE  (\A n \in 1 .. saved'[f] : Settled(f, n)') /\ (\A n \in 1 .. disk[f] : Settled(f, n)')
    BY <1>3 DEF PositionsSettled
  <2>1. \A n \in 1 .. disk[f] : Settled(f, n)'
    BY <1>1, <1>5, CoveredStays DEF IInv, PositionsSettled
  <2>2. CASE f = e
    BY <1>3, <1>5, <2>1, <2>2 DEF Settled
  <2>3. CASE f # e
    BY <1>1, <1>5, <2>1, <2>3, CoveredStays DEF IInv, PositionsSettled
  <2> QED BY <2>2, <2>3
<1> QED BY <1>4, <1>6, <1>7, <1>8, <1>9 DEF IInv

(* A flush and a restart copy positions that are settled. *)
LEMMA FlushIInv ==
    ASSUME IInv, Flush
    PROVE  IInv'
<1>1. [Next]_vars
  BY DEF Next
<1>2. disk' = saved /\ UNCHANGED <<read, hot, rest, saved, stage, holds, sent, cache, resent, passed>>
  BY DEF Flush, FlushPositions, pipelineVars
<1>3. TypeOK'
  BY <1>1, NextTypeOK
<1>4. PositionsExist' /\ OnlyReadLines' /\ ReadLinesTraced' /\ HandedOutInOrder' /\ SentIsSent'
  BY <1>2 DEF IInv, PositionsExist, OnlyReadLines, ReadLinesTraced, HandedOutInOrder, SentIsSent,
              Held, Waits, Settled, Overtaken
<1>5. PositionsSettled'
  BY <1>2 DEF IInv, PositionsSettled, Settled, Overtaken
<1> QED BY <1>3, <1>4, <1>5 DEF IInv

LEMMA CrashIInv ==
    ASSUME IInv, Crash
    PROVE  IInv'
<1>1. [Next]_vars
  BY DEF Next
<1>2. /\ read' = disk /\ saved' = disk /\ disk' = disk
      /\ stage' = [w \in Workers |-> "idle"] /\ holds' = [w \in Workers |-> {}] /\ resent' = {}
      /\ UNCHANGED <<sent, cache, passed>>
  BY DEF Crash, RestartCollection
<1>3. TypeOK'
  BY <1>1, NextTypeOK
<1>4. \A f \in Files : \A n : ~Waits(f, n)' /\ ~Held(f, n)'
  BY <1>2, RestartWaits DEF Crash, Held
<1>5. PositionsExist'
  BY <1>2 DEF IInv, PositionsExist
<1>6. OnlyReadLines' /\ HandedOutInOrder'
  BY <1>4 DEF OnlyReadLines, HandedOutInOrder, Waits
<1>7. PositionsSettled' /\ ReadLinesTraced'
  BY <1>2 DEF IInv, PositionsSettled, ReadLinesTraced, Settled, Overtaken
<1>8. SentIsSent'
  BY <1>2 DEF SentIsSent
<1> QED BY <1>3, <1>5, <1>6, <1>7, <1>8 DEF IInv

(* Every step preserves the invariant. *)
LEMMA NextIInv == IInv /\ [Next]_vars => IInv'
<1> SUFFICES ASSUME IInv, [Next]_vars PROVE IInv'
  OBVIOUS
<1>1. ASSUME NEW w \in Workers, SendBatch(w) PROVE IInv'
  <2>1. SentIsSent'
    BY <1>1 DEF SendBatch, Goto, IInv, SentIsSent, TypeOK
  <2> QED BY <1>1, <2>1, QuietStep DEF SendBatch, collectionVars
<1>2. ASSUME NEW w \in Workers, SendFails(w) PROVE IInv'
  <2>1. SentIsSent'
    BY <1>2 DEF SendFails, Goto, IInv, SentIsSent, TypeOK
  <2> QED BY <1>2, <2>1, QuietStep DEF SendFails, collectionVars
<1>3. ASSUME NEW w \in Workers, WorkerStep(w) PROVE IInv'
  BY <1>1, <1>2, <1>3, TakeBatchIInv, CacheBatchIInv, SaveCheckpointIInv DEF WorkerStep
<1>4. CASE ReplayStep
  <2>1. SentIsSent' /\ UNCHANGED <<collectionVars, holds>>
    <3>1. CASE LoadCache
      BY <3>1 DEF LoadCache, IInv, SentIsSent
    <3>2. ASSUME NEW b \in left, Resend(b) PROVE SentIsSent' /\ UNCHANGED <<collectionVars, holds>>
      BY <3>2 DEF Resend, IInv, SentIsSent
    <3>3. ASSUME NEW b \in left, ResendFails(b) PROVE SentIsSent' /\ UNCHANGED <<collectionVars, holds>>
      BY <3>3 DEF ResendFails, IInv, SentIsSent
    <3>4. CASE RemoveResent
      BY <3>4 DEF RemoveResent, IInv, SentIsSent
    <3> QED BY <1>4, <3>1, <3>2, <3>3, <3>4 DEF ReplayStep
  <2> QED BY <2>1, QuietStep DEF collectionVars
<1>5. CASE UNCHANGED vars
  <2>1. SentIsSent'
    BY <1>5 DEF vars, pipelineVars, IInv, SentIsSent
  <2> QED BY <1>5, <2>1, QuietStep DEF vars, pipelineVars, collectionVars
<1> QED BY <1>3, <1>4, <1>5, CollectIInv, AckPulledIInv, FlushIInv, CrashIInv DEF Next

-----------------------------------------------------------------------------
(* The state of collector, workers, cache and replay always has its type, and *)
(* a worker holds a batch exactly while it works on one.                      *)
THEOREM PipelineTypeCorrect == Spec => []TypeOK
<1>1. IInv => TypeOK
  BY DEF IInv
<1> QED BY <1>1, InitIInv, NextIInv, PTL DEF Spec

(* The checkpoint on disk covers an unsent, uncached line only for the four    *)
(* reasons the property names, whatever workers, replay, flushes, crashes and  *)
(* callers of the pull service do.                                             *)
THEOREM CheckpointGapsAreExplained == Spec => []GapsOfCheckpoint
<1>1. IInv => GapsOfCheckpoint
  BY DEF IInv, PositionsSettled, GapsOfCheckpoint, Settled
<1> QED BY <1>1, InitIInv, NextIInv, PTL DEF Spec

(* No step takes an unsent batch out of the cache. *)
THEOREM CacheKeepsUnsent == Spec => CachedUntilSent
<1>1. IInv /\ [Next]_vars => [\A b \in cache : b \in cache' \/ b \subseteq sent]_vars
  <2> SUFFICES ASSUME IInv, [Next]_vars PROVE \A b \in cache : b \in cache' \/ b \subseteq sent
    OBVIOUS
  <2> QED BY CacheShrinksToSent
<1> QED BY <1>1, InitIInv, NextIInv, PTL DEF Spec, CachedUntilSent
=============================================================================
