------------------------ MODULE RotationAndTasksProofs ------------------------
(***************************************************************************)
(* Proofs about PullTasks and about Rotation, in two sections: neither     *)
(* module uses the other.                                                  *)
(***************************************************************************)
EXTENDS PullTasks, Rotation, SequenceTheorems, TLAPS

(***************************************************************************)
(* Proofs about PullTasks for any number of sources, rows, restarts and    *)
(* manual runs, with goroutines that end before their row is stale         *)
(* (MaxRun <= StaleAfter, as the default settings have it).                *)
(*                                                                         *)
(* The argument is one of time: a row is at most as old as its goroutine   *)
(* has run, so recovery finds only rows without goroutine, and a source    *)
(* without a row in flight has no goroutine either.  That an unattended    *)
(* source has at most one row in flight follows from the scheduler's look. *)
(***************************************************************************)

\* What holds of a row that a goroutine works on.
LiveRow(t) ==
    routine[t] # "none" =>
        /\ task[t].status \in InFlight
        /\ task[t].age <= ran[t] /\ ran[t] <= MaxRun

OneInFlight ==
    \A t, u \in TaskIds :
        /\ task[t].status \in InFlight /\ task[u].status \in InFlight
        /\ task[t].source \in Unattended /\ task[t].source = task[u].source
        => t = u

IInv ==
    /\ TypeOK
    /\ \A t \in TaskIds : LiveRow(t)
    /\ OneInFlight
    /\ QueuesOnlyIdleSource

(* A new row is a free one, whenever there is one. *)
LEMMA NewRowFree == FreeRows # {} => NewRow \in FreeRows
  BY DEF NewRow

(* Initially nothing is in flight. *)
LEMMA InitIInv == Init => IInv
  BY PullTasksAssumption DEF Init, IInv, TypeOK, LiveRow, OneInFlight, QueuesOnlyIdleSource,
     Statuses, InFlight, Unattended

(* Types are kept whatever operators do. *)
LEMMA NextTypeOK == TypeOK /\ [Next]_vars => TypeOK'
<1> SUFFICES ASSUME TypeOK, [Next]_vars PROVE TypeOK'
  OBVIOUS
<1> USE DEF TypeOK, Statuses, InFlight
<1>1. ASSUME StartPass PROVE TypeOK'
  BY <1>1 DEF StartPass
<1>2. ASSUME NEW s \in Sources, LookAt(s) PROVE TypeOK'
  BY <1>2 DEF LookAt
<1>3. ASSUME NEW s \in Sources, CreatePending(s), UNCHANGED <<restarts>>,
             todo' \subseteq Sources, chosen' \in Sources \cup {NoSource}
      PROVE  TypeOK'
  BY <1>3, NewRowFree DEF CreatePending, FreeRows
<1>4. ASSUME CreateScheduled PROVE TypeOK'
  BY <1>3, <1>4 DEF CreateScheduled
<1>5. ASSUME NEW s \in ManualSources, RunPullTask(s) PROVE TypeOK'
  BY <1>3, <1>5, PullTasksAssumption DEF RunPullTask
<1>6. ASSUME NEW t \in TaskIds, Routine(t) PROVE TypeOK'
  <2>1. CASE MarkRunning(t)
    <3> DEFINE row == [task[t] EXCEPT !.status = "running", !.age = 0]
    <3>1. /\ task' = [u \in TaskIds |-> task'[u]]
          /\ \A u \in TaskIds : task'[u] = IF u = t THEN row ELSE task[u]
      BY <2>1 DEF MarkRunning
    <3>2. row \in [source : Sources \cup {NoSource}, status : Statuses, age : Nat]
      OBVIOUS
    <3> HIDE DEF row
    <3>3. task' \in [TaskIds -> [source : Sources \cup {NoSource}, status : Statuses, age : Nat]]
      BY <3>1, <3>2
    <3> QED BY <2>1, <3>3 DEF MarkRunning
  <2>2. ASSUME NEW status \in {"success", "failed"}, MarkFinished(t, status) PROVE TypeOK'
    BY <2>2 DEF MarkFinished
  <2>3. CASE LoseMark(t)
    BY <2>3 DEF LoseMark
  <2> QED BY <1>6, <2>1, <2>2, <2>3 DEF Routine
<1>7. ASSUME RestartControlPlane PROVE TypeOK'
  BY <1>7 DEF RestartControlPlane
<1>8. ASSUME Tick PROVE TypeOK'
  <2>1. task' \in [TaskIds -> [source : Sources \cup {NoSource}, status : Statuses, age : Nat]]
    <3>1. \A t \in TaskIds : Smaller(task[t].age + 1, StaleAfter + 1) \in Nat
      BY PullTasksAssumption DEF Smaller
    <3>2. \A t \in TaskIds : task[t] \in [source : Sources \cup {NoSource}, status : Statuses, age : Nat]
      OBVIOUS
    <3> QED BY <1>8, <3>1, <3>2 DEF Tick
  <2>2. since' \in [Sources -> Nat] /\ ran' \in [TaskIds -> Nat]
    BY <1>8, PullTasksAssumption DEF Tick, Smaller
  <2> QED BY <1>8, <2>1, <2>2 DEF Tick
<1>9. ASSUME UNCHANGED vars PROVE TypeOK'
  BY <1>9 DEF vars
<1> QED BY <1>1, <1>2, <1>4, <1>5, <1>6, <1>7, <1>8, <1>9 DEF Next, Scheduler

(* Every step keeps rows and goroutines in step. *)
LEMMA NextIInv ==
    ASSUME MaxRun <= StaleAfter, IInv, [Next]_vars
    PROVE  IInv'
<1>t. TypeOK /\ TypeOK'
  BY NextTypeOK DEF IInv
<1>0. /\ \A t \in TaskIds : LiveRow(t)
      /\ OneInFlight /\ QueuesOnlyIdleSource
  BY DEF IInv
<1>n. NoSource \notin Unattended
  BY PullTasksAssumption DEF Unattended
<1> DEFINE Rest == (\A t \in TaskIds : LiveRow(t)) /\ OneInFlight /\ QueuesOnlyIdleSource
<1>1. ASSUME StartPass PROVE Rest'
  <2>1. \A t \in TaskIds : routine[t] # "none" => ~Stale(t)
    BY <1>t, <1>0, PullTasksAssumption DEF Stale, LiveRow, TypeOK
  <2>2. \A t \in TaskIds : /\ task'[t].source = task[t].source /\ task'[t].age = task[t].age
                           /\ task'[t].status = IF Stale(t) THEN "failed" ELSE task[t].status
    BY <1>t, <1>1 DEF StartPass, TypeOK
  <2>3. chosen' = NoSource /\ routine' = routine /\ ran' = ran
    BY <1>1 DEF StartPass
  <2> QED BY <1>0, <1>n, <2>1, <2>2, <2>3 DEF LiveRow, OneInFlight, QueuesOnlyIdleSource, InFlight
<1>2. ASSUME NEW s \in Sources, LookAt(s) PROVE Rest'
  BY <1>0, <1>n, <1>2 DEF LookAt, LiveRow, OneInFlight, QueuesOnlyIdleSource, HasInFlight
<1>3. ASSUME CreateScheduled PROVE Rest'
  <2> DEFINE t == NewRow
  <2>1. /\ task' = [task EXCEPT ![t] = [source |-> chosen, status |-> "pending", age |-> 0]]
        /\ routine' = [routine EXCEPT ![t] = "triggered"]
        /\ ran' = [ran EXCEPT ![t] = 0]
    BY <1>3 DEF CreateScheduled, CreatePending
  <2>2. (chosen \in Unattended => ~HasInFlight(chosen)) /\ chosen' = NoSource
    BY <1>0, <1>3 DEF CreateScheduled, QueuesOnlyIdleSource
  <2>3. t \in TaskIds
    BY NewRowFree, <1>3 DEF CreateScheduled, CreatePending, FreeRows
  <2>4. /\ task'[t] = [source |-> chosen, status |-> "pending", age |-> 0]
        /\ routine'[t] = "triggered" /\ ran'[t] = 0
        /\ \A u \in TaskIds \ {t} : task'[u] = task[u] /\ routine'[u] = routine[u] /\ ran'[u] = ran[u]
    BY <1>t, <2>1, <2>3 DEF TypeOK
  <2>5. \A u \in TaskIds : LiveRow(u)'
    BY <1>0, <2>4, PullTasksAssumption DEF LiveRow, InFlight
  <2>6. OneInFlight'
    BY <1>0, <2>2, <2>3, <2>4 DEF OneInFlight, HasInFlight
  <2> QED BY <1>n, <2>2, <2>5, <2>6 DEF QueuesOnlyIdleSource
<1>4. ASSUME NEW t \in TaskIds, Routine(t) PROVE Rest'
  <2>1. CASE MarkRunning(t)
    <3>1. /\ task'[t].status = "running" /\ task'[t].age = 0 /\ task'[t].source = task[t].source
          /\ routine'[t] = "running" /\ routine[t] # "none"
          /\ \A u \in TaskIds \ {t} : task'[u] = task[u] /\ routine'[u] = routine[u]
          /\ UNCHANGED <<ran, chosen>>
      BY <1>t, <2>1 DEF MarkRunning, TypeOK
    <3>2. task[t].status \in InFlight /\ ran[t] \in Nat /\ ran[t] <= MaxRun
      BY <1>t, <1>0, <3>1 DEF LiveRow, TypeOK
    <3> QED BY <1>0, <3>1, <3>2 DEF LiveRow, OneInFlight, QueuesOnlyIdleSource, HasInFlight, InFlight
  <2>2. ASSUME NEW status \in {"success", "failed"}, MarkFinished(t, status) PROVE Rest'
    <3>1. /\ task'[t].status \notin InFlight /\ routine'[t] = "none"
          /\ \A u \in TaskIds \ {t} : task'[u] = task[u] /\ routine'[u] = routine[u]
          /\ UNCHANGED <<ran, chosen>>
      BY <1>t, <2>2 DEF MarkFinished, TypeOK, InFlight
    <3> QED BY <1>0, <3>1 DEF LiveRow, OneInFlight, QueuesOnlyIdleSource, HasInFlight
  <2>3. CASE LoseMark(t)
    BY <1>t, <1>0, <2>3 DEF LoseMark, LiveRow, OneInFlight, QueuesOnlyIdleSource, HasInFlight, TypeOK
  <2> QED BY <1>4, <2>1, <2>2, <2>3 DEF Routine
<1>m. ASSUME NEW s \in ManualSources, RunPullTask(s) PROVE Rest'
  <2> DEFINE t == NewRow
  <2>1. /\ task' = [task EXCEPT ![t] = [source |-> s, status |-> "pending", age |-> 0]]
        /\ routine' = [routine EXCEPT ![t] = "triggered"]
        /\ ran' = [ran EXCEPT ![t] = 0]
    BY <1>m DEF RunPullTask, CreatePending
  <2>2. chosen' = chosen /\ s \notin Unattended
    BY <1>m DEF RunPullTask, Unattended
  <2>3. t \in TaskIds
    BY NewRowFree, <1>m DEF RunPullTask, CreatePending, FreeRows
  <2>4. /\ task'[t] = [source |-> s, status |-> "pending", age |-> 0]
        /\ routine'[t] = "triggered" /\ ran'[t] = 0
        /\ \A u \in TaskIds \ {t} : task'[u] = task[u] /\ routine'[u] = routine[u] /\ ran'[u] = ran[u]
    BY <1>t, <2>1, <2>3 DEF TypeOK
  <2>5. \A u \in TaskIds : LiveRow(u)'
    BY <1>0, <2>4, PullTasksAssumption DEF LiveRow, InFlight
  <2>6. OneInFlight'
    BY <1>0, <2>2, <2>3, <2>4 DEF OneInFlight
  <2>7. QueuesOnlyIdleSource'
    BY <1>0, <2>2, <2>3, <2>4 DEF QueuesOnlyIdleSource, HasInFlight
  <2> QED BY <2>5, <2>6, <2>7
<1>5. ASSUME RestartControlPlane PROVE Rest'
  BY <1>0, <1>n, <1>5 DEF RestartControlPlane, LiveRow, OneInFlight, QueuesOnlyIdleSource, HasInFlight
<1>6. ASSUME Tick PROVE Rest'
  <2>1. \A t \in TaskIds : /\ task'[t].source = task[t].source /\ task'[t].status = task[t].status
                           /\ task'[t].age = IF task[t].status \in InFlight
                                             THEN Smaller(task[t].age + 1, StaleAfter + 1)
                                             ELSE 0
                           /\ ran'[t] = IF routine[t] # "none" THEN ran[t] + 1 ELSE 0
    BY <1>t, <1>6 DEF Tick, TypeOK
  <2>2. UNCHANGED <<routine, chosen>> /\ \A t \in TaskIds : routine[t] # "none" => ran[t] < MaxRun
    BY <1>6 DEF Tick
  <2>3. \A t \in TaskIds : LiveRow(t)'
    BY <1>t, <1>0, <2>1, <2>2, PullTasksAssumption DEF LiveRow, Smaller, TypeOK
  <2> QED BY <1>0, <2>1, <2>2, <2>3 DEF OneInFlight, QueuesOnlyIdleSource, HasInFlight
<1>7. ASSUME UNCHANGED vars PROVE Rest'
  BY <1>0, <1>7 DEF vars, LiveRow, OneInFlight, QueuesOnlyIdleSource, HasInFlight
<1> QED BY <1>t, <1>1, <1>2, <1>3, <1>4, <1>m, <1>5, <1>6, <1>7 DEF Next, Scheduler, IInv

-----------------------------------------------------------------------------
(* Rows keep the types the table declares, with operators too. *)
THEOREM TypeCorrect == Spec => []TypeOK
<1>1. Init => TypeOK
  BY InitIInv DEF IInv
<1> QED BY <1>1, NextTypeOK, PTL DEF Spec

(* Between the scheduler's look at a source and the row it creates nobody    *)
(* else puts a row of that source in flight.                                 *)
THEOREM SchedulerQueuesOnlyIdleSource ==
    ASSUME MaxRun <= StaleAfter
    PROVE  Spec => []QueuesOnlyIdleSource
<1>1. IInv /\ [Next]_vars => IInv'
  BY NextIInv
<1>2. IInv => QueuesOnlyIdleSource
  BY DEF IInv
<1> QED BY <1>1, <1>2, InitIInv, PTL DEF Spec

(* Recovery of stale rows never touches one whose goroutine is alive. *)
THEOREM RecoveryFindsDeadRows ==
    ASSUME MaxRun <= StaleAfter
    PROVE  Spec => []LiveTaskInFlight
<1>1. IInv /\ [Next]_vars => IInv'
  BY NextIInv
<1>2. IInv => LiveTaskInFlight
  BY DEF IInv, LiveRow, LiveTaskInFlight
<1> QED BY <1>1, <1>2, InitIInv, PTL DEF Spec

(* No two goroutines ever pull one source at a time. *)
THEOREM SourceIsNotReentered ==
    ASSUME MaxRun <= StaleAfter
    PROVE  Spec => []NoReentry
<1>1. IInv /\ [Next]_vars => IInv'
  BY NextIInv
<1>2. IInv => NoReentry
  BY DEF IInv, LiveRow, OneInFlight, NoReentry
<1> QED BY <1>1, <1>2, InitIInv, PTL DEF Spec

(***************************************************************************)
(* Rotation.  A batch is a stretch of lines of one content.                *)
(***************************************************************************)
Stretch == [content : Nat \ {0}, from : Nat \ {0}, to : 0 .. MaxLines]

Positions == [inode : Nat, off : 0 .. MaxLines]

RotationTyped ==
    /\ RotationTypeOK
    /\ unanswered \in Seq(Stretch)
    /\ \A i \in 1 .. Len(unanswered) : unanswered[i].content <= content
    /\ saved \in Positions /\ disk \in Positions

\* The constants at hand.
LEMMA RotationConstants ==
    /\ MaxContents \in Nat \ {0} /\ MaxLines \in Nat /\ MaxUnanswered \in Nat /\ MaxCrashes \in Nat
    /\ ScanSizes \subseteq Nat \ {0} /\ Unloaded \notin Nat
    /\ Replacements \subseteq {"rename", "truncate"}
  BY RotationAssumption

\* What a scan reads lies in the file.
LEMMA ScanReads ==
    ASSUME RotationTyped, NEW n \in ScanSizes, Scan(n)
    PROVE  /\ Start \in Nat /\ ReadTo(n) \in 0 .. size /\ Start < ReadTo(n)
           /\ Start \in {0, position} /\ position \in Nat
           /\ position <= size => Start = position
           /\ size < position => Start = 0
  BY RotationConstants DEF Scan, Start, ReadTo, Lesser, RotationTyped, RotationTypeOK

\* A step of the collector or of a batch.
LEMMA RotationTypedInit == RotationInit => RotationTyped
<1> SUFFICES ASSUME RotationInit PROVE RotationTyped
  OBVIOUS
<1> QED BY RotationConstants DEF RotationInit, RotationTyped, RotationTypeOK, NoPosition, Positions


\* The types in four parts: the file, the batches, the positions, and what was delivered.
LoggerTyped ==
    /\ content \in 1 .. MaxContents /\ inodes \in Nat /\ inode \in 0 .. inodes
    /\ size \in 0 .. MaxLines

QueueTyped ==
    /\ unanswered \in Seq(Stretch) /\ Len(unanswered) <= MaxUnanswered
    /\ \A i \in 1 .. Len(unanswered) : unanswered[i].content <= content

PlacesTyped ==
    /\ position \in 0 .. MaxLines \cup {Unloaded} /\ positionOf \in 0 .. content
    /\ \A p \in {saved, disk} : p.inode \in 0 .. inodes /\ p.off \in 0 .. MaxLines
    /\ saved \in Positions /\ disk \in Positions
    /\ crashes \in 0 .. MaxCrashes

DeliveredTyped == delivered \subseteq (1 .. content) \X (1 .. MaxLines)

\* Every step keeps the types.
LEMMA RotationTypedNext == RotationTyped /\ [RotationNext]_rotationVars => RotationTyped'
<1> SUFFICES ASSUME RotationTyped, [RotationNext]_rotationVars PROVE RotationTyped'
  OBVIOUS
<1>0. \A i \in 1 .. Len(unanswered) : unanswered[i] \in Stretch
  BY ElementOfSeq DEF RotationTyped
<1>p. RotationTyped => LoggerTyped /\ QueueTyped /\ PlacesTyped /\ DeliveredTyped
  BY DEF RotationTyped, RotationTypeOK, LoggerTyped, QueueTyped, PlacesTyped, DeliveredTyped
<1>q. (LoggerTyped /\ QueueTyped /\ PlacesTyped /\ DeliveredTyped)' => RotationTyped'
  BY DEF RotationTyped, RotationTypeOK, LoggerTyped, QueueTyped, PlacesTyped, DeliveredTyped
<1>5. ASSUME NEW n \in ScanSizes, Scan(n) PROVE RotationTyped'
  <2> DEFINE b == [content |-> content, from |-> Start + 1, to |-> ReadTo(n)]
  <2>0. content \in Nat \ {0} /\ size \in 0 .. MaxLines /\ MaxLines \in Nat
    BY <1>p, RotationConstants DEF LoggerTyped
  <2>r. Start \in Nat /\ ReadTo(n) \in 0 .. size /\ Start < ReadTo(n)
    BY <1>5, ScanReads
  <2>1. b \in Stretch /\ b.content = content
    BY <2>0, <2>r DEF Stretch
  <2>2. /\ unanswered' = Append(unanswered, b) /\ Len(unanswered) < MaxUnanswered
        /\ position' = ReadTo(n) /\ positionOf' = content
        /\ UNCHANGED <<content, inode, inodes, size, saved, disk, delivered, crashes>>
    BY <1>5 DEF Scan, logger
  <2> HIDE DEF b
  <2>q. /\ unanswered \in Seq(Stretch) /\ Len(unanswered) \in Nat /\ MaxUnanswered \in Nat
        /\ \A i \in 1 .. Len(unanswered) : unanswered[i].content <= content
    BY <1>p, RotationConstants DEF QueueTyped
  <2>3. /\ unanswered' \in Seq(Stretch) /\ Len(unanswered') = Len(unanswered) + 1
        /\ \A i \in 1 .. Len(unanswered') :
              unanswered'[i] = IF i = Len(unanswered) + 1 THEN b ELSE unanswered[i]
    BY <2>1, <2>2, <2>q, AppendProperties
  <2>4. ASSUME NEW i \in 1 .. Len(unanswered') PROVE unanswered'[i].content <= content'
    <3>1. CASE i = Len(unanswered) + 1
      BY <2>0, <2>1, <2>2, <2>3, <3>1
    <3>2. CASE i # Len(unanswered) + 1
      <4>1. i \in 1 .. Len(unanswered) /\ unanswered'[i] = unanswered[i]
        BY <2>3, <2>q, <3>2
      <4> QED BY <2>2, <2>q, <4>1
    <3> QED BY <3>1, <3>2
  <2>5. QueueTyped'
    BY <2>2, <2>3, <2>4, <2>q DEF QueueTyped
  <2>6. LoggerTyped' /\ DeliveredTyped'
    BY <1>p, <2>2 DEF LoggerTyped, DeliveredTyped
  <2>7. position' \in 0 .. MaxLines /\ positionOf' \in 0 .. content'
    BY <2>0, <2>2, <2>r
  <2>8. PlacesTyped'
    BY <1>p, <2>2, <2>7 DEF PlacesTyped
  <2> QED BY <1>q, <2>5, <2>6, <2>8
<1>6. CASE Answer
  <2> DEFINE b == Head(unanswered)
  <2>q. /\ unanswered \in Seq(Stretch) /\ Len(unanswered) \in Nat /\ MaxUnanswered \in Nat
        /\ Len(unanswered) <= MaxUnanswered
        /\ \A i \in 1 .. Len(unanswered) : unanswered[i].content <= content
    BY <1>p, RotationConstants DEF QueueTyped
  <2>e. unanswered # <<>> /\ Len(unanswered) # 0
    BY <1>6, <2>q, EmptySeq DEF Answer
  <2>1. b = unanswered[1] /\ b \in Stretch /\ b.content <= content
    BY <1>0, <2>e, <2>q
  <2>t. /\ Tail(unanswered) \in Seq(Stretch) /\ Len(Tail(unanswered)) = Len(unanswered) - 1
        /\ \A i \in 1 .. Len(unanswered) - 1 : Tail(unanswered)[i] = unanswered[i + 1]
    BY <2>e, <2>q, HeadTailProperties
  <2>2. /\ saved' = [inode |-> inode, off |-> SavedOffset(b.to)]
        /\ delivered' = delivered \cup {<<b.content, n>> : n \in b.from .. b.to}
        /\ unanswered' = Tail(unanswered)
        /\ UNCHANGED <<content, inode, inodes, size, position, positionOf, disk, crashes>>
    BY <1>6 DEF Answer, logger
  <2> HIDE DEF b
  <2>c. /\ content \in Nat \ {0} /\ inode \in 0 .. inodes /\ inodes \in Nat /\ MaxLines \in Nat
        /\ saved.off \in 0 .. MaxLines
    BY <1>p, RotationConstants DEF LoggerTyped, PlacesTyped
  <2>b. b.content \in Nat \ {0} /\ b.from \in Nat \ {0} /\ b.to \in 0 .. MaxLines
    BY <2>1 DEF Stretch
  <2>3. SavedOffset(b.to) \in 0 .. MaxLines
    BY <2>b, <2>c DEF SavedOffset
  <2>4. saved' \in Positions /\ saved'.inode = inode /\ saved'.off \in 0 .. MaxLines
    BY <2>2, <2>3, <2>c DEF Positions
  <2>5. \A n \in b.from .. b.to : b.content \in 1 .. content /\ n \in 1 .. MaxLines
    BY <2>1, <2>b, <2>c
  <2>6. DeliveredTyped'
    BY <1>p, <2>2, <2>5 DEF DeliveredTyped
  <2>7. ASSUME NEW i \in 1 .. Len(unanswered') PROVE unanswered'[i].content <= content'
    <3>1. i \in 1 .. Len(unanswered) - 1 /\ i + 1 \in 1 .. Len(unanswered)
      BY <2>2, <2>q, <2>t
    <3>2. unanswered'[i] = unanswered[i + 1]
      BY <2>2, <2>t, <3>1
    <3> QED BY <2>2, <2>q, <3>1, <3>2
  <2>8. QueueTyped'
    BY <2>2, <2>7, <2>q, <2>t DEF QueueTyped
  <2>9. LoggerTyped'
    BY <1>p, <2>2 DEF LoggerTyped
  <2>10. PlacesTyped'
    BY <1>p, <2>2, <2>4, <2>c DEF PlacesTyped
  <2> QED BY <1>q, <2>6, <2>8, <2>9, <2>10
<1>4. CASE LoadPosition
  <2>0. saved.off \in 0 .. MaxLines /\ positionOf \in 0 .. content /\ content \in Nat /\ MaxLines \in Nat
    BY <1>p, RotationConstants DEF LoggerTyped, PlacesTyped
  <2>1. LoadedOffset(saved) \in 0 .. MaxLines
    BY <2>0 DEF LoadedOffset
  <2>2. /\ position' \in 0 .. MaxLines /\ positionOf' \in 0 .. content
        /\ UNCHANGED <<content, inode, inodes, size, unanswered, saved, disk, delivered, crashes>>
    BY <1>4, <2>0, <2>1 DEF LoadPosition, logger
  <2>3. (LoggerTyped /\ QueueTyped /\ DeliveredTyped)'
    BY <1>p, <2>2 DEF LoggerTyped, QueueTyped, DeliveredTyped
  <2>4. PlacesTyped'
    BY <1>p, <2>2 DEF PlacesTyped
  <2> QED BY <1>q, <2>3, <2>4
<1> USE RotationConstants DEF RotationTyped, RotationTypeOK
<1>1. CASE Write
  BY <1>1 DEF Write
<1>2. ASSUME NEW how \in Replacements, Rotate(how) PROVE RotationTyped'
  <2>1. /\ content' = content + 1 /\ content' \in 1 .. MaxContents /\ size' = 0
        /\ inode' \in {0, inode}
        /\ UNCHANGED <<inodes, position, positionOf, unanswered, saved, disk, delivered, crashes>>
    BY <1>2 DEF Rotate
  <2>2. \A k \in Nat : k <= content => k <= content'
    BY <2>1
  <2>3. delivered' \subseteq (1 .. content') \X (1 .. MaxLines)
    BY <2>1
  <2>4. positionOf' \in 0 .. content'
    BY <2>1
  <2>6. ASSUME NEW i \in 1 .. Len(unanswered) PROVE unanswered[i].content \in Nat
    BY <1>0 DEF Stretch
  <2>5. \A i \in 1 .. Len(unanswered') : unanswered'[i].content <= content'
    BY <2>1, <2>2, <2>6
  <2> QED BY <2>1, <2>3, <2>4, <2>5
<1>3. CASE Recreate
  <2>1. /\ inodes' = inodes + 1 /\ inode' = inodes'
        /\ UNCHANGED <<content, size, position, positionOf, unanswered, saved, disk, delivered, crashes>>
    BY <1>3 DEF Recreate
  <2>2. inodes' \in Nat /\ inode' \in 0 .. inodes' /\ 0 .. inodes \subseteq 0 .. inodes'
    BY <2>1
  <2> QED BY <2>1, <2>2
<1>7. CASE Flush
  BY <1>7 DEF Flush, logger
<1>8. CASE Crash
  BY <1>8 DEF Crash, logger
<1>9. CASE UNCHANGED rotationVars
  BY <1>9 DEF rotationVars
<1> QED BY <1>1, <1>2, <1>3, <1>4, <1>5, <1>6, <1>7, <1>8, <1>9 DEF RotationNext

(***************************************************************************)
(* Files, positions, batches and both checkpoints stay well-formed, for    *)
(* renames and truncations at any moment, any scan sizes and any numbers   *)
(* of contents and crashes.                                                *)
(***************************************************************************)
THEOREM RotationTypeCorrect == RotationSpec => []RotationTypeOK
<1>1. RotationTyped => RotationTypeOK
  BY DEF RotationTyped
<1> QED BY <1>1, RotationTypedInit, RotationTypedNext, PTL DEF RotationSpec

(***************************************************************************)
(* An idle log that is renamed.  Every content has an inode of its own, so *)
(* batches and the checkpoint of the file at the path are about its        *)
(* content; the read position of an earlier file is beyond its end until a *)
(* scan has started over.                                                  *)
(***************************************************************************)
InodeOfContent ==
    IF inode = 0 THEN inodes = content - 1 /\ size = 0 /\ unanswered = <<>>
    ELSE inodes = content /\ inode = inodes

BatchesOfFile ==
    \A i \in 1 .. Len(unanswered) : unanswered[i].content = content /\ unanswered[i].to <= size

Delivered(n) == <<content, n>> \in delivered
OnItsWay(n, i) ==
    \E j \in 1 .. Len(unanswered) : j < i /\ n \in unanswered[j].from .. unanswered[j].to

\* What is before a batch was delivered or is in an older one.
NoGapBefore ==
    \A i \in 1 .. Len(unanswered), n \in Nat :
        1 <= n /\ n < unanswered[i].from => Delivered(n) \/ OnItsWay(n, i)

PositionOfFile ==
    position # Unloaded =>
        IF positionOf = content
        THEN /\ position <= size
             /\ \A n \in 1 .. position : Delivered(n) \/ OnItsWay(n, Len(unanswered) + 1)
        ELSE position = 0 \/ size < position

CheckpointsOfFile ==
    \A p \in {saved, disk} :
        IF p.inode = 0 THEN p.off = 0
        ELSE p.inode = inode => p.off <= size /\ \A n \in 1 .. p.off : Delivered(n)

RotationInv == /\ InodeOfContent /\ BatchesOfFile /\ NoGapBefore
               /\ PositionOfFile /\ CheckpointsOfFile

\* Logs are renamed while nothing of them is on its way, and polled before they outgrow a position.
QuietRenames == Replacements \subseteq {"rename"} /\ RotatesWhenIdle /\ PolledOften

\* A new line, and a file that goes or comes.
LEMMA LoggerInv ==
    ASSUME QuietRenames, RotationTyped, RotationInv,
           Write \/ Recreate \/ \E how \in Replacements : Rotate(how)
    PROVE  RotationInv'
<1>a. /\ size \in Nat /\ content \in Nat \ {0} /\ inodes \in Nat /\ positionOf \in 0 .. content
      /\ position # Unloaded => position \in Nat
  BY RotationConstants DEF RotationTyped, RotationTypeOK
<1>b. \A i \in 1 .. Len(unanswered) : unanswered[i] \in Stretch
  BY ElementOfSeq DEF RotationTyped
<1>c. \A p \in {saved, disk} : p.off \in Nat /\ p.inode \in 0 .. inodes
  BY RotationConstants DEF RotationTyped, RotationTypeOK
<1>0. /\ size \in Nat /\ content \in Nat \ {0} /\ inodes \in Nat /\ positionOf \in 0 .. content
      /\ position # Unloaded => position \in Nat
      /\ \A i \in 1 .. Len(unanswered) : unanswered[i] \in Stretch
      /\ \A p \in {saved, disk} : p.off \in Nat /\ p.inode \in 0 .. inodes
  BY <1>a, <1>b, <1>c
<1>1. CASE Write
  <2>1. /\ inode # 0 /\ size' = size + 1
        /\ position # Unloaded /\ positionOf # content /\ position # 0 => size + 1 < position
        /\ UNCHANGED <<content, inode, inodes, position, positionOf, unanswered, saved, disk, delivered>>
    BY <1>1 DEF Write, QuietRenames
  <2>2. InodeOfContent'
    BY <2>1 DEF RotationInv, InodeOfContent
  <2>3. BatchesOfFile'
    BY <1>0, <2>1 DEF RotationInv, BatchesOfFile, Stretch
  <2>4. NoGapBefore'
    BY <2>1 DEF RotationInv, NoGapBefore, Delivered, OnItsWay
  <2>5. PositionOfFile'
    BY <1>0, <2>1 DEF RotationInv, PositionOfFile, Delivered, OnItsWay
  <2>6. CheckpointsOfFile'
    BY <1>0, <2>1 DEF RotationInv, CheckpointsOfFile, Delivered
  <2> QED BY <2>2, <2>3, <2>4, <2>5, <2>6 DEF RotationInv
<1>2. CASE Recreate
  <2>1. /\ inode = 0 /\ inode' = inodes + 1 /\ inodes' = inodes + 1
        /\ UNCHANGED <<content, size, position, positionOf, unanswered, saved, disk, delivered>>
    BY <1>2 DEF Recreate
  <2>2. unanswered' = <<>> /\ Len(unanswered') = 0 /\ InodeOfContent'
    BY <1>0, <2>1 DEF RotationInv, InodeOfContent
  <2>3. BatchesOfFile' /\ NoGapBefore'
    BY <2>2 DEF BatchesOfFile, NoGapBefore
  <2>4. PositionOfFile'
    BY <2>1 DEF RotationInv, PositionOfFile, Delivered, OnItsWay
  <2>5. \A p \in {saved, disk} : p.inode # inode'
    BY <1>0, <2>1
  <2>6. CheckpointsOfFile'
    BY <2>1, <2>5 DEF RotationInv, CheckpointsOfFile
  <2> QED BY <2>2, <2>3, <2>4, <2>6 DEF RotationInv
<1>3. CASE \E how \in Replacements : Rotate(how)
  <2>1. /\ inode # 0 /\ inode' = 0 /\ content' = content + 1 /\ size' = 0
        /\ unanswered = <<>>
        /\ UNCHANGED <<inodes, position, positionOf, unanswered, saved, disk>>
    BY <1>3 DEF Rotate, QuietRenames
  <2>2. Len(unanswered') = 0 /\ InodeOfContent'
    BY <1>0, <2>1 DEF RotationInv, InodeOfContent
  <2>3. BatchesOfFile' /\ NoGapBefore'
    BY <2>2 DEF BatchesOfFile, NoGapBefore
  <2>4. positionOf' # content' /\ (position' # Unloaded => position' = 0 \/ size' < position')
    BY <1>0, <2>1
  <2>5. PositionOfFile'
    BY <2>4 DEF PositionOfFile
  <2>6. CheckpointsOfFile'
    BY <2>1 DEF RotationInv, CheckpointsOfFile
  <2> QED BY <2>2, <2>3, <2>5, <2>6 DEF RotationInv
<1> QED BY <1>1, <1>2, <1>3

\* The start of the collector: the position it loads is covered by the checkpoint.
LEMMA LoadPositionInv ==
    ASSUME RotationTyped, RotationInv, LoadPosition
    PROVE  RotationInv'
<1>0. /\ size \in Nat /\ content \in Nat \ {0} /\ saved.off \in Nat
      /\ Unloaded \notin Nat
  BY RotationConstants DEF RotationTyped, RotationTypeOK
<1>1. /\ position' = LoadedOffset(saved) /\ positionOf' = IF inode = 0 THEN 0 ELSE content
      /\ UNCHANGED <<content, inode, inodes, size, unanswered, saved, disk, delivered>>
  BY DEF LoadPosition, logger
<1>2. InodeOfContent' /\ BatchesOfFile' /\ NoGapBefore' /\ CheckpointsOfFile'
  BY <1>1 DEF RotationInv, InodeOfContent, BatchesOfFile, NoGapBefore, CheckpointsOfFile,
     Delivered, OnItsWay
<1>3. PositionOfFile'
  <2>1. CASE inode = 0
    <3>1. positionOf' # content' /\ size' = 0 /\ position' \in Nat
      BY <1>0, <1>1, <2>1 DEF RotationInv, InodeOfContent, LoadedOffset
    <3> QED BY <3>1 DEF PositionOfFile
  <2>2. CASE inode # 0
    <3>1. /\ position' \in Nat /\ position' <= size
          /\ \A n \in 1 .. position' : Delivered(n)
      BY <1>0, <1>1, <2>2 DEF RotationInv, CheckpointsOfFile, LoadedOffset
    <3>2. positionOf' = content' /\ position' <= size' /\ \A n \in 1 .. position' : Delivered(n)'
      BY <1>1, <2>2, <3>1 DEF Delivered
    <3> QED BY <3>2 DEF PositionOfFile
  <2> QED BY <2>1, <2>2
<1> QED BY <1>2, <1>3 DEF RotationInv

\* A scan starts where the last one of this file ended, or at its head.
LEMMA ScanInv ==
    ASSUME RotationTyped, RotationInv, NEW n \in ScanSizes, Scan(n)
    PROVE  RotationInv'
<1>a. PICK len \in Nat : len = Len(unanswered)
  BY DEF RotationTyped
<1> DEFINE b == [content |-> content, from |-> Start + 1, to |-> ReadTo(n)]
<1>0. /\ size \in Nat /\ content \in Nat \ {0} /\ len \in Nat /\ position \in Nat
      /\ Start \in Nat /\ ReadTo(n) \in Nat /\ Start < ReadTo(n) /\ ReadTo(n) <= size
      /\ (position <= size => Start = position) /\ (size < position => Start = 0)
  BY <1>a, ScanReads DEF RotationTyped, RotationTypeOK
<1>1. /\ inode # 0 /\ position # Unloaded
      /\ unanswered' = Append(unanswered, b) /\ position' = ReadTo(n) /\ positionOf' = content
      /\ UNCHANGED <<content, inode, inodes, size, saved, disk, delivered>>
  BY DEF Scan, logger
<1>2. b.content = content /\ b.from = Start + 1 /\ b.to = ReadTo(n) /\ b \in [content : Nat, from : Nat, to : Nat]
  BY <1>0
<1> HIDE DEF b
<1>3. /\ Len(unanswered') = len + 1
      /\ \A i \in 1 .. len + 1 : unanswered'[i] = IF i = len + 1 THEN b ELSE unanswered[i]
  BY <1>0, <1>1, <1>a DEF RotationTyped
<1>4. InodeOfContent'
  BY <1>1 DEF RotationInv, InodeOfContent
<1>5. BatchesOfFile'
  BY <1>0, <1>1, <1>2, <1>3, <1>a DEF RotationInv, BatchesOfFile
<1>6. \A k, i : OnItsWay(k, i) /\ i \in 1 .. len + 1 => OnItsWay(k, i)'
  BY <1>0, <1>3, <1>a DEF OnItsWay
<1>7. \A k \in Nat : 1 <= k /\ k <= Start => Delivered(k) \/ OnItsWay(k, len + 1)
  BY <1>0, <1>1, <1>a DEF RotationInv, PositionOfFile
<1>8. NoGapBefore'
  <2> SUFFICES ASSUME NEW i \in 1 .. len + 1, NEW k \in Nat, 1 <= k, k < unanswered'[i].from
               PROVE  Delivered(k) \/ OnItsWay(k, i)'
    BY <1>1, <1>3 DEF NoGapBefore, Delivered
  <2>1. CASE i = len + 1
    BY <1>0, <1>2, <1>3, <1>6, <1>7, <2>1
  <2>2. CASE i # len + 1
    <3>1. i \in 1 .. len /\ unanswered'[i] = unanswered[i]
      BY <1>0, <1>3, <2>2
    <3>2. Delivered(k) \/ OnItsWay(k, i)
      BY <3>1, <1>a DEF RotationInv, NoGapBefore
    <3> QED BY <1>6, <3>2
  <2> QED BY <2>1, <2>2
<1>9. PositionOfFile'
  <2> SUFFICES ASSUME NEW k \in 1 .. ReadTo(n)
               PROVE  Delivered(k) \/ OnItsWay(k, len + 2)'
    BY <1>0, <1>1, <1>3 DEF PositionOfFile, Delivered
  <2>1. CASE k <= Start
    <3>1. Delivered(k) \/ OnItsWay(k, len + 1)
      BY <1>0, <1>7, <2>1
    <3>2. OnItsWay(k, len + 1)' => OnItsWay(k, len + 2)'
      BY <1>0 DEF OnItsWay
    <3> QED BY <1>0, <1>6, <3>1, <3>2
  <2>2. CASE Start < k
    <3>1. k \in b.from .. b.to /\ len + 1 \in 1 .. Len(unanswered') /\ unanswered'[len + 1] = b
      BY <1>0, <1>2, <1>3, <2>2
    <3>2. len + 1 < len + 2
      BY <1>0
    <3> QED BY <3>1, <3>2 DEF OnItsWay
  <2> QED BY <1>0, <2>1, <2>2
<1>10. CheckpointsOfFile'
  BY <1>1 DEF RotationInv, CheckpointsOfFile, Delivered
<1> QED BY <1>4, <1>5, <1>8, <1>9, <1>10 DEF RotationInv

\* An answer: the oldest batch closes the gap before the others, so the checkpoint may move to its end.
LEMMA AnswerInv ==
    ASSUME RotationTyped, RotationInv, Answer
    PROVE  RotationInv'
<1>a. PICK len \in Nat : len = Len(unanswered)
  BY DEF RotationTyped
<1>b. PICK b \in Stretch : b = Head(unanswered)
  BY HeadTailProperties DEF RotationTyped, Answer
<1>1. /\ unanswered # <<>> /\ saved' = [inode |-> inode, off |-> SavedOffset(b.to)]
      /\ delivered' = delivered \cup {<<b.content, n>> : n \in b.from .. b.to}
      /\ unanswered' = Tail(unanswered)
      /\ UNCHANGED <<content, inode, inodes, size, position, positionOf, disk>>
  BY <1>b DEF Answer, logger
<1>2. /\ 0 < len /\ b = unanswered[1] /\ Len(unanswered') = len - 1
      /\ \A i \in 1 .. len - 1 : unanswered'[i] = unanswered[i + 1]
  BY <1>a, <1>b, <1>1, HeadTailProperties DEF RotationTyped
<1>3. /\ size \in Nat /\ content \in Nat \ {0} /\ inode \in Nat
      /\ b.from \in Nat \ {0} /\ b.to \in Nat
      /\ position # Unloaded => position \in Nat
  BY RotationConstants DEF RotationTyped, RotationTypeOK, Stretch
<1>4. inode # 0 /\ b.content = content /\ b.to <= size
  BY <1>a, <1>1, <1>2 DEF RotationInv, InodeOfContent, BatchesOfFile
<1>5. InodeOfContent'
  BY <1>1, <1>4 DEF RotationInv, InodeOfContent
<1>6. BatchesOfFile'
  BY <1>a, <1>1, <1>2 DEF RotationInv, BatchesOfFile
<1>7. \A k : Delivered(k) => Delivered(k)'
  BY <1>1 DEF Delivered
<1>8. \A k \in b.from .. b.to : Delivered(k)'
  BY <1>1, <1>4 DEF Delivered
<1>9. \A k \in Nat : 1 <= k /\ k < b.from => Delivered(k)
  BY <1>a, <1>2 DEF RotationInv, NoGapBefore, OnItsWay
<1>10. \A k \in Nat, i \in 1 .. len : OnItsWay(k, i + 1) => Delivered(k)' \/ OnItsWay(k, i)'
  <2> SUFFICES ASSUME NEW k \in Nat, NEW i \in 1 .. len, OnItsWay(k, i + 1), ~ Delivered(k)'
               PROVE  OnItsWay(k, i)'
    OBVIOUS
  <2>1. PICK j \in 1 .. len : j < i + 1 /\ k \in unanswered[j].from .. unanswered[j].to
    BY <1>a DEF OnItsWay
  <2>2. j # 1
    BY <1>2, <1>8, <2>1
  <2>3. j - 1 \in 1 .. len - 1 /\ j - 1 < i /\ unanswered'[j - 1] = unanswered[j]
    BY <1>2, <2>1, <2>2
  <2> QED BY <1>2, <2>1, <2>3 DEF OnItsWay
<1>11. NoGapBefore'
  <2> SUFFICES ASSUME NEW i \in 1 .. len - 1, NEW k \in Nat, 1 <= k, k < unanswered'[i].from
               PROVE  Delivered(k)' \/ OnItsWay(k, i)'
    BY <1>2 DEF NoGapBefore
  <2>1. i + 1 \in 1 .. len /\ k < unanswered[i + 1].from /\ i \in 1 .. len
    BY <1>2
  <2>2. Delivered(k) \/ OnItsWay(k, i + 1)
    BY <1>a, <2>1 DEF RotationInv, NoGapBefore
  <2> QED BY <1>7, <1>10, <2>1, <2>2
<1>12. PositionOfFile'
  <2> SUFFICES ASSUME position # Unloaded, positionOf = content, NEW k \in 1 .. position
               PROVE  Delivered(k)' \/ OnItsWay(k, len)'
    BY <1>1, <1>2 DEF RotationInv, PositionOfFile
  <2>1. Delivered(k) \/ OnItsWay(k, len + 1)
    BY <1>a, <1>3 DEF RotationInv, PositionOfFile
  <2>2. k \in Nat /\ len \in 1 .. len
    BY <1>2, <1>3
  <2> QED BY <1>7, <1>10, <2>1, <2>2
<1>13. \A k \in 1 .. b.to : Delivered(k)'
  <2> SUFFICES ASSUME NEW k \in 1 .. b.to PROVE Delivered(k)'
    OBVIOUS
  <2>1. CASE k < b.from
    BY <1>3, <1>7, <1>9, <2>1
  <2>2. CASE b.from <= k
    BY <1>3, <1>8, <2>2
  <2> QED BY <1>3, <2>1, <2>2
<1>14. SavedOffset(b.to) \in {0, b.to}
  BY DEF SavedOffset
<1>15. CheckpointsOfFile'
  <2>1. saved'.inode = inode /\ saved'.off <= size /\ \A k \in 1 .. saved'.off : Delivered(k)'
    BY <1>1, <1>3, <1>4, <1>13, <1>14
  <2>2. IF disk.inode = 0 THEN disk.off = 0
        ELSE disk.inode = inode => disk.off <= size /\ \A k \in 1 .. disk.off : Delivered(k)'
    BY <1>7 DEF RotationInv, CheckpointsOfFile
  <2>3. UNCHANGED <<inode, size, disk>> /\ saved'.inode # 0
    BY <1>1, <1>4, <2>1
  <2> QED BY <2>1, <2>2, <2>3 DEF CheckpointsOfFile
<1> QED BY <1>5, <1>6, <1>11, <1>12, <1>15 DEF RotationInv

\* The checkpoint is written to disk, or read from it after a crash.
LEMMA CheckpointInv ==
    ASSUME RotationTyped, RotationInv, Flush \/ Crash
    PROVE  RotationInv'
<1>1. /\ UNCHANGED <<content, inode, inodes, size, delivered>>
      /\ saved' \in {saved, disk} /\ disk' \in {saved, disk}
      /\ \/ UNCHANGED <<position, positionOf, unanswered>>
         \/ position' = Unloaded /\ unanswered' = <<>>
  BY DEF Flush, Crash, logger
<1>2. CheckpointsOfFile'
  BY <1>1 DEF RotationInv, CheckpointsOfFile, Delivered
<1>3. CASE UNCHANGED <<position, positionOf, unanswered>>
  BY <1>1, <1>2, <1>3 DEF RotationInv, InodeOfContent, BatchesOfFile, NoGapBefore, PositionOfFile,
     Delivered, OnItsWay
<1>4. CASE position' = Unloaded /\ unanswered' = <<>>
  <2>1. Len(unanswered') = 0
    BY <1>4
  <2>2. InodeOfContent'
    BY <1>1, <1>4 DEF RotationInv, InodeOfContent
  <2>3. BatchesOfFile' /\ NoGapBefore' /\ PositionOfFile'
    BY <1>4, <2>1 DEF BatchesOfFile, NoGapBefore, PositionOfFile
  <2> QED BY <1>2, <2>2, <2>3 DEF RotationInv
<1> QED BY <1>1, <1>3, <1>4

\* The file is new, nothing is read.
LEMMA RotationInvInit == RotationInit => RotationInv
<1> SUFFICES ASSUME RotationInit PROVE RotationInv
  OBVIOUS
<1>1. Len(unanswered) = 0
  BY DEF RotationInit
<1>2. BatchesOfFile /\ NoGapBefore /\ InodeOfContent
  BY <1>1 DEF RotationInit, BatchesOfFile, NoGapBefore, InodeOfContent
<1>3. PositionOfFile /\ CheckpointsOfFile
  BY DEF RotationInit, PositionOfFile, CheckpointsOfFile, NoPosition
<1> QED BY <1>2, <1>3 DEF RotationInv

\* Every step of an idle, often polled log keeps the invariant.
LEMMA RotationInvNext ==
    ASSUME QuietRenames
    PROVE  RotationTyped /\ RotationInv /\ [RotationNext]_rotationVars => RotationInv'
<1> SUFFICES ASSUME RotationTyped, RotationInv, [RotationNext]_rotationVars PROVE RotationInv'
  OBVIOUS
<1>1. CASE UNCHANGED rotationVars
  BY <1>1 DEF rotationVars, RotationInv, InodeOfContent, BatchesOfFile, NoGapBefore,
     PositionOfFile, CheckpointsOfFile, Delivered, OnItsWay
<1>2. CASE RotationNext
  BY <1>2, LoggerInv, LoadPositionInv, ScanInv, AnswerInv, CheckpointInv DEF RotationNext
<1> QED BY <1>1, <1>2

(***************************************************************************)
(* The checkpoint of the file at the path covers only lines of this file   *)
(* that were delivered (checkpoint.go Save and Load with the inode).       *)
(***************************************************************************)
THEOREM CheckpointIsOfThisFile ==
    ASSUME QuietRenames
    PROVE  RotationSpec => []CheckpointOfThisFile
<1>1. RotationTyped /\ RotationInv => CheckpointOfThisFile
  BY DEF RotationTyped, RotationTypeOK, RotationInv, CheckpointsOfFile, CheckpointOfThisFile, Delivered
<1> QED BY <1>1, RotationTypedInit, RotationTypedNext, RotationInvInit, RotationInvNext,
           PTL DEF RotationSpec

(***************************************************************************)
(* A renamed log's new file is read from its head, and no line before the  *)
(* read position is lost, over crashes in between.                         *)
(***************************************************************************)
THEOREM RotatedFileIsReadFromItsHead ==
    ASSUME QuietRenames
    PROVE  RotationSpec => []NoLineSkipped
<1>1. RotationTyped /\ RotationInv => NoLineSkipped
  <2> SUFFICES ASSUME RotationTyped, RotationInv, positionOf = content, position # Unloaded,
                      NEW k \in 1 .. position, <<content, k>> \notin delivered
               PROVE  \E i \in DOMAIN unanswered :
                         /\ unanswered[i].content = content
                         /\ k \in unanswered[i].from .. unanswered[i].to
    BY DEF NoLineSkipped
  <2>1. OnItsWay(k, Len(unanswered) + 1)
    BY DEF RotationInv, PositionOfFile, Delivered
  <2>2. PICK j \in 1 .. Len(unanswered) : k \in unanswered[j].from .. unanswered[j].to
    BY <2>1 DEF OnItsWay
  <2>3. j \in DOMAIN unanswered
    BY DEF RotationTyped
  <2>4. unanswered[j].content = content
    BY DEF RotationInv, BatchesOfFile
  <2> QED BY <2>2, <2>3, <2>4
<1> QED BY <1>1, RotationTypedInit, RotationTypedNext, RotationInvInit, RotationInvNext,
           PTL DEF RotationSpec
=============================================================================
