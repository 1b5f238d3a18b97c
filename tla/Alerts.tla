------------------------------- MODULE Alerts -------------------------------
(***************************************************************************)
(* Alerts and the incidents they raise.  The alert evaluator's loop goes   *)
(* over the alert rules (alert/evaluator.go); the handler of an agent's    *)
(* metrics report goes over the resource thresholds                        *)
(* (resource/threshold_evaluator.go), one goroutine per report.  Both      *)
(* consult a suppressor in memory, insert an alert event, and have the     *)
(* incident creator (alert/incident_creator.go) link the event to an       *)
(* unresolved incident of the same source or open one.                     *)
(*                                                                         *)
(* Every rule and threshold here is of severity critical, the only one     *)
(* that raises incidents, and its condition matches.  A rule stands for    *)
(* one rule and source id, the suppressor's key.  Of the event only its    *)
(* existence is modelled: neither its notification, which decides nothing  *)
(* that follows, nor its own status.                                       *)
(***************************************************************************)
EXTENDS Incidents, FiniteSets

CONSTANTS Rules, Thresholds,
          Silenced,      \* rules under an active silence; thresholds are never silenced
          Loop,          \* the evaluator's goroutine
          Reports,       \* the goroutines of metrics reports
          MaxFaults,     \* bound: failed statements
          MaxRestarts    \* bound: restarts of the control plane

ASSUME AlertsAssumption ==
    /\ Sources = Rules \cup Thresholds /\ Rules \cap Thresholds = {}
    /\ Silenced \subseteq Rules
    /\ Loop \notin Reports
    /\ MaxFaults \in Nat /\ MaxRestarts \in Nat

VARIABLES
    suppressed,   \* keys of the suppressors younger than their window
    evaluation,   \* per evaluator: its stage, source and the incident it found
    fired,        \* history: events of a source since its last window ended or was lost
    faults, restarts

alertVars == <<suppressed, evaluation, fired, faults, restarts>>
vars == <<incidentVars, alertVars>>

Evaluators == Reports \cup {Loop}
NoEvaluation == [stage |-> "idle", source |-> Manual, found |-> 0]

Init ==
    /\ IncidentsInit
    /\ suppressed = {}
    /\ evaluation = [e \in Evaluators |-> NoEvaluation]
    /\ fired = [s \in Sources |-> 0]
    /\ faults = 0 /\ restarts = 0

Fault == faults < MaxFaults /\ faults' = faults + 1

Evaluate(e, stage, s, found) ==
    evaluation' = [evaluation EXCEPT ![e] = [stage |-> stage, source |-> s, found |-> found]]

-----------------------------------------------------------------------------
(***************************************************************************)
(* evaluateRule: the rule is recorded before its event is inserted.        *)
(***************************************************************************)
Unrecorded(s) == suppressed        \* mutant: forgets to record the rule
Recorded(s) == suppressed \cup {s}

MatchRule(s) ==
    /\ s \in Rules /\ s \notin suppressed
    /\ evaluation[Loop].stage = "idle"
    /\ suppressed' = Recorded(s)
    /\ Evaluate(Loop, "insert", s, 0)
    /\ UNCHANGED <<fired, faults, restarts, incidentVars>>

(***************************************************************************)
(* EvaluateMetrics, for one threshold: it is recorded when all is done.    *)
(***************************************************************************)
ExceedThreshold(e, s) ==
    /\ e \in Reports /\ s \in Thresholds /\ s \notin suppressed
    /\ evaluation[e].stage = "idle"
    /\ Evaluate(e, "insert", s, 0)
    /\ UNCHANGED <<suppressed, fired, faults, restarts, incidentVars>>

InsertEvent(e) ==
    LET s == evaluation[e].source
    IN  /\ evaluation[e].stage = "insert"
        /\ fired' = [fired EXCEPT ![s] = @ + 1]
        /\ Evaluate(e, IF s \in Silenced THEN "idle" ELSE "find", s, 0)
        /\ UNCHANGED <<suppressed, faults, restarts, incidentVars>>

\* The statement failed, or it succeeded and the answer was lost.
InsertFails(e) ==
    LET s == evaluation[e].source
    IN  /\ evaluation[e].stage = "insert"
        /\ fired' \in {fired, [fired EXCEPT ![s] = @ + 1]}
        /\ evaluation' = [evaluation EXCEPT ![e] = NoEvaluation]
        /\ Fault
        /\ UNCHANGED <<suppressed, restarts, incidentVars>>

-----------------------------------------------------------------------------
(***************************************************************************)
(* CreateFromAlert: find the newest unresolved incident of the source ...  *)
(***************************************************************************)
NotClosed == Statuses \ {"closed"}        \* mutant: takes a resolved incident for an open one
LinkedStatuses == {"open", "acknowledged", "investigating"}

Candidates(s) ==
    {i \in DOMAIN incident : incident[i].source = s /\ incident[i].status \in LinkedStatuses}

NoOpenIncident(s) == 0             \* mutant: always opens an incident
FindOpenIncident(s) ==
    IF Candidates(s) = {} THEN 0
    ELSE CHOOSE i \in Candidates(s) : \A j \in Candidates(s) : j <= i

FindIncident(e) ==
    LET s == evaluation[e].source
    IN  /\ evaluation[e].stage = "find"
        /\ Evaluate(e, "link", s, FindOpenIncident(s))
        /\ UNCHANGED <<suppressed, fired, faults, restarts, incidentVars>>

\* A report records its threshold in the end, whatever became of the incident.
Done(e) ==
    /\ evaluation' = [evaluation EXCEPT ![e] = NoEvaluation]
    /\ suppressed' = suppressed \cup ({evaluation[e].source} \cap Thresholds)

(***************************************************************************)
(* ... and link the event to it, or else insert an incident with its       *)
(* timeline entry and link in one transaction.                             *)
(***************************************************************************)
LinkOrCreate(e) ==
    /\ evaluation[e].stage = "link"
    /\ \/ evaluation[e].found # 0 /\ UNCHANGED incidentVars
       \/ /\ evaluation[e].found = 0
          /\ InsertIncident(evaluation[e].source, {"created"})
          /\ UNCHANGED request
    /\ Done(e)
    /\ UNCHANGED <<fired, faults, restarts>>

\* The incident creator's errors are logged or dropped.
CreateFails(e) ==
    /\ evaluation[e].stage \in {"find", "link"}
    /\ Done(e) /\ Fault
    /\ UNCHANGED <<fired, restarts, incidentVars>>

(***************************************************************************)
(* The window of a source ends.  It is far longer than the five seconds an *)
(* evaluation of a rule may take from Record on (evaluator.go:236).        *)
(***************************************************************************)
WindowEnds(s) ==
    /\ s \in suppressed
    /\ evaluation[Loop].stage # "idle" => evaluation[Loop].source # s
    /\ suppressed' = suppressed \ {s}
    /\ fired' = [fired EXCEPT ![s] = 0]
    /\ UNCHANGED <<evaluation, faults, restarts, incidentVars>>

\* The suppressors, evaluations and requests are lost; the tables stay.
Restart ==
    /\ restarts < MaxRestarts /\ restarts' = restarts + 1
    /\ suppressed' = {}
    /\ evaluation' = [e \in Evaluators |-> NoEvaluation]
    /\ request' = [r \in Requests |-> NoRequest]
    /\ fired' = [s \in Sources |-> 0]
    /\ UNCHANGED <<incident, created, faults>>

EvaluatorStep(e) ==
    \/ \E s \in Sources : ExceedThreshold(e, s)
    \/ InsertEvent(e)
    \/ InsertFails(e)
    \/ FindIncident(e)
    \/ LinkOrCreate(e)
    \/ CreateFails(e)

Next ==
    \/ \E s \in Sources : MatchRule(s) \/ WindowEnds(s)
    \/ \E e \in Evaluators : EvaluatorStep(e)
    \/ Restart
    \/ IncidentsNext /\ UNCHANGED alertVars

Spec == Init /\ [][Next]_vars

-----------------------------------------------------------------------------
\* Every variable has its type; only a report waits to record its source.
TypeOK ==
    /\ IncidentsTypeOK
    /\ suppressed \subseteq Sources
    /\ \A e \in Evaluators :
          /\ evaluation[e].stage \in {"idle", "insert", "find", "link"}
          /\ evaluation[e].found \in 0 .. created
          /\ evaluation[e].stage # "idle" =>
                evaluation[e].source \in (IF e = Loop THEN Rules ELSE Thresholds)
    /\ fired \in [Sources -> Nat]
    /\ faults \in 0 .. MaxFaults /\ restarts \in 0 .. MaxRestarts

\* The incidents of a source that nobody has resolved or closed.
UnresolvedOf(s) ==
    {i \in DOMAIN incident :
        incident[i].source = s /\ incident[i].status \notin {"resolved", "closed"}}

(***************************************************************************)
(* "The new alert event will be linked to that incident instead of         *)
(* creating a duplicate incident" (incident_creator.go:37-39): a source    *)
(* has at most one unresolved incident.                                    *)
(***************************************************************************)
OneUnresolvedIncident == \A s \in Sources : Cardinality(UnresolvedOf(s)) <= 1

(***************************************************************************)
(* "Suppressor deduplicates alert events from the same rule+source within  *)
(* a time window" (suppressor.go:8): a rule fires once at most before its  *)
(* window ends, although the insert of its event may fail or succeed       *)
(* unseen.  (A threshold is recorded after its event: reports that arrive  *)
(* together may both fire.)                                                *)
(***************************************************************************)
OneAlertPerWindow == \A s \in Rules : fired[s] <= 1

(***************************************************************************)
(* The ticker visits every rule in turn, a handler comes to its end, time  *)
(* passes, and the database answers in the end.                            *)
(***************************************************************************)
Fairness ==
    \A s \in Sources :
        /\ SF_vars(MatchRule(s)) /\ WF_vars(WindowEnds(s))
        /\ WF_vars(InsertEvent(Loop)) /\ WF_vars(FindIncident(Loop)) /\ WF_vars(LinkOrCreate(Loop))

FairSpec == Spec /\ Fairness

(***************************************************************************)
(* A rule that keeps matching and is not silenced gets an unresolved       *)
(* incident again and again, however often its incidents are resolved,     *)
(* closed or deleted and although a failed insert is not retried before    *)
(* the window has ended.                                                   *)
(***************************************************************************)
MatchingRuleHasIncident ==
    \A s \in Rules \ Silenced : []<>(UnresolvedOf(s) # {} \/ created = MaxIncidents)
=============================================================================
