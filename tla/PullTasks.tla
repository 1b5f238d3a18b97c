------------------------------ MODULE PullTasks ------------------------------
(***************************************************************************)
(* How the control plane runs pull tasks                                   *)
(* (services/control-plane/internal/ingest: scheduler.go, pull_tasks.go,   *)
(* pull_task_recovery.go).  The scheduler's loop creates a pending task    *)
(* for a source that is due and has none in flight; creating it starts a   *)
(* goroutine that marks it running and later finished; tasks whose         *)
(* goroutine died are failed by the scheduler after a while.  Operators    *)
(* may run a source at any time through the API.                           *)
(*                                                                         *)
(* The tasks are rows of a database and outlive the process.  Time is a    *)
(* tick; ages stop counting where nothing reads them any more.  A finished *)
(* task without goroutine is forgotten: only the time of the last task of  *)
(* a source is ever read again.                                            *)
(***************************************************************************)
EXTENDS Naturals, FiniteSets

CONSTANTS Sources,        \* active pull sources
          ManualSources,  \* sources that operators run by hand
          TaskIds,        \* bound: rows in use at a time
          NoSource,
          Interval,       \* pull_interval_sec, in ticks
          StaleAfter,     \* StaleTaskAfter, in ticks
          MaxRun,         \* longest run of a goroutine: ExecutionTimeout and the nack after it
          MaxRestarts     \* bound: restarts of the control plane

ASSUME PullTasksAssumption ==
    /\ ManualSources \subseteq Sources /\ NoSource \notin Sources
    /\ Interval \in Nat \ {0} /\ StaleAfter \in Nat /\ MaxRun \in Nat /\ MaxRestarts \in Nat

VARIABLES
    task,      \* the rows: source, status, and age since started_at or scheduled_at
    routine,   \* the goroutine of a row: none, triggered or running
    ran,       \* ticks since the goroutine was started
    since,     \* ticks since the last task of a source was scheduled
    todo,      \* sources the scheduler's current pass has yet to look at
    chosen,    \* the source it has found due and free, about to get a task
    restarts

vars == <<task, routine, ran, since, todo, chosen, restarts>>

InFlight == {"pending", "running"}
Statuses == InFlight \cup {"success", "failed"}

Init ==
    /\ task = [t \in TaskIds |-> [source |-> NoSource, status |-> "failed", age |-> 0]]
    /\ routine = [t \in TaskIds |-> "none"] /\ ran = [t \in TaskIds |-> 0]
    /\ since = [s \in Sources |-> Interval]   \* a source without tasks is due
    /\ todo = {} /\ chosen = NoSource /\ restarts = 0

Smaller(a, b) == IF a < b THEN a ELSE b

HasRunning(s) == \E t \in TaskIds : task[t].source = s /\ task[t].status = "running"  \* mutant: not pending
HasInFlight(s) == \E t \in TaskIds : task[t].source = s /\ task[t].status \in InFlight

FreeRows == {t \in TaskIds : task[t].status \notin InFlight /\ routine[t] = "none"}

\* CreatePending: a new row, and its goroutine.  Rows are alike: it does not matter which.
NewRow == CHOOSE t \in FreeRows : TRUE
CreatePending(s) ==
    /\ FreeRows # {}
    /\ task' = [task EXCEPT ![NewRow] = [source |-> s, status |-> "pending", age |-> 0]]
    /\ routine' = [routine EXCEPT ![NewRow] = "triggered"]
    /\ ran' = [ran EXCEPT ![NewRow] = 0]
    /\ since' = [since EXCEPT ![s] = 0]

-----------------------------------------------------------------------------
(***************************************************************************)
(* A pass of the scheduler: fail stale tasks, then look at every active    *)
(* source.  Between its look at a source and the new row others may act.   *)
(***************************************************************************)
StaleIfRunning(t) == task[t].status = "running" /\ task[t].age > StaleAfter  \* mutant: forgets pending
StaleEarly(t) == task[t].status \in InFlight /\ task[t].age > 0              \* mutant: no threshold
Stale(t) == task[t].status \in InFlight /\ task[t].age > StaleAfter

StartPass ==
    /\ todo = {} /\ chosen = NoSource
    /\ task' = [t \in TaskIds |-> IF Stale(t) THEN [task[t] EXCEPT !.status = "failed"] ELSE task[t]]
    /\ todo' = Sources
    /\ UNCHANGED <<routine, ran, since, chosen, restarts>>

LookAt(s) ==
    /\ chosen = NoSource /\ s \in todo
    /\ todo' = todo \ {s}
    /\ chosen' = IF ~HasInFlight(s) /\ since[s] >= Interval THEN s ELSE NoSource
    /\ UNCHANGED <<task, routine, ran, since, restarts>>

CreateScheduled ==
    /\ chosen # NoSource
    /\ CreatePending(chosen)
    /\ chosen' = NoSource
    /\ UNCHANGED <<todo, restarts>>

\* RunPullTask: no look at other tasks.  Bound: enough rows stay free for the scheduler.
RunPullTask(s) ==
    /\ Cardinality(FreeRows) > Cardinality(Sources)
    /\ CreatePending(s)
    /\ UNCHANGED <<todo, chosen, restarts>>

-----------------------------------------------------------------------------
(***************************************************************************)
(* The executor's marks, which overwrite whatever status the row has, and  *)
(* which leave it alone when the database refuses them.                    *)
(***************************************************************************)
MarkRunning(t) ==
    /\ routine[t] = "triggered"
    /\ task' = [task EXCEPT ![t].status = "running", ![t].age = 0]
    /\ routine' = [routine EXCEPT ![t] = "running"]
    /\ UNCHANGED <<ran, since, todo, chosen, restarts>>

MarkFinished(t, status) ==
    /\ routine[t] = "running"
    /\ task' = [task EXCEPT ![t].status = status]
    /\ routine' = [routine EXCEPT ![t] = "none"]
    /\ UNCHANGED <<ran, since, todo, chosen, restarts>>

LoseMark(t) ==
    /\ routine[t] # "none"
    /\ routine' = [routine EXCEPT ![t] = "none"]
    /\ UNCHANGED <<task, ran, since, todo, chosen, restarts>>

\* The goroutines and the scheduler's position are lost, the rows stay.
RestartControlPlane ==
    /\ restarts < MaxRestarts
    /\ restarts' = restarts + 1
    /\ routine' = [t \in TaskIds |-> "none"]
    /\ todo' = {} /\ chosen' = NoSource
    /\ UNCHANGED <<task, ran, since>>

\* A goroutine ends within MaxRun ticks: every call it makes has a deadline.
Tick ==
    /\ \A t \in TaskIds : routine[t] # "none" => ran[t] < MaxRun
    /\ task' = [t \in TaskIds |-> [task[t] EXCEPT !.age =
                   IF task[t].status \in InFlight THEN Smaller(@ + 1, StaleAfter + 1) ELSE 0]]
    /\ ran' = [t \in TaskIds |-> IF routine[t] # "none" THEN ran[t] + 1 ELSE 0]
    /\ since' = [s \in Sources |-> Smaller(since[s] + 1, Interval)]
    /\ UNCHANGED <<routine, todo, chosen, restarts>>

Routine(t) ==
    \/ MarkRunning(t)
    \/ \E status \in {"success", "failed"} : MarkFinished(t, status)
    \/ LoseMark(t)

Scheduler == StartPass \/ (\E s \in Sources : LookAt(s)) \/ CreateScheduled

Next ==
    \/ Scheduler
    \/ \E s \in ManualSources : RunPullTask(s)
    \/ \E t \in TaskIds : Routine(t)
    \/ RestartControlPlane
    \/ Tick

Spec == Init /\ [][Next]_vars

(***************************************************************************)
(* Time passes, the scheduler's loop runs (it never waits for a goroutine) *)
(* and every started goroutine goes on.                                    *)
(***************************************************************************)
Fairness ==
    /\ WF_vars(Tick)
    /\ WF_vars(StartPass) /\ WF_vars(CreateScheduled)
    /\ \A s \in Sources : WF_vars(LookAt(s))
    /\ \A t \in TaskIds : WF_vars(Routine(t))

FairSpec == Spec /\ Fairness

-----------------------------------------------------------------------------
\* Every variable has its type.
TypeOK ==
    /\ task \in [TaskIds -> [source : Sources \cup {NoSource}, status : Statuses, age : Nat]]
    /\ routine \in [TaskIds -> {"none", "triggered", "running"}]
    /\ ran \in [TaskIds -> Nat]
    /\ since \in [Sources -> Nat]
    /\ todo \subseteq Sources /\ chosen \in Sources \cup {NoSource}
    /\ restarts \in Nat

\* Sources that only the scheduler pulls: RunPullTask asks nobody before it creates a task.
Unattended == Sources \ ManualSources

(***************************************************************************)
(* "The scheduler relies on HasInFlight to avoid pulling one source        *)
(* concurrently" (pull_tasks.go:207-208): no two goroutines ever serve one *)
(* unattended source, over restarts, stale tasks and refused marks.        *)
(***************************************************************************)
NoReentry ==
    \A t, u \in TaskIds :
        /\ routine[t] # "none" /\ routine[u] # "none"
        /\ task[t].source \in Unattended /\ task[t].source = task[u].source
        => t = u

(***************************************************************************)
(* "While a source has a pending or running task none is queued again"     *)
(* (scheduler.go:113): what the scheduler saw when it looked at an         *)
(* unattended source still holds when it creates the row.                  *)
(***************************************************************************)
QueuesOnlyIdleSource == chosen \in Unattended => ~HasInFlight(chosen)

(***************************************************************************)
(* Recovery never takes a task, scheduled or manual, from a goroutine      *)
(* still at work on it: the row would turn from failed to running or       *)
(* success under the reader.                                               *)
(***************************************************************************)
LiveTaskInFlight ==
    \A t \in TaskIds : routine[t] # "none" => task[t].status \in InFlight

(***************************************************************************)
(* tick and shouldSchedule: every active source gets a new task again and  *)
(* again, over lost goroutines, refused marks and restarts.                *)
(***************************************************************************)
SourceScheduledAgain == \A s \in Sources : []<>(since[s] = 0)
=============================================================================
