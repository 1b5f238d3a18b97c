----------------------------- MODULE Incidents -----------------------------
(***************************************************************************)
(* The life of an incident in the control plane                            *)
(* (services/control-plane/internal/incident): HTTP handlers create,       *)
(* transition, archive and delete rows of the incidents table, and write   *)
(* the incident's timeline in a statement of its own.                      *)
(*                                                                         *)
(* A request is a handler at work on one incident.  A transition reads the *)
(* row, asks the state machine and writes the row in separate statements,  *)
(* so that other requests may come in between.  Rows are numbered in the   *)
(* order of created_at.  Incidents also come from alerts (module Alerts).  *)
(* Title, severity, assignee and the other columns are left out.           *)
(***************************************************************************)
EXTENDS Integers

CONSTANTS Requests,
          Sources,       \* alert rules and resource thresholds
          Manual,        \* the source of an incident a user opened
          Watched,       \* the actions was and timeline keep: all, or none where no property asks
          MaxIncidents   \* bound: rows ever created

VARIABLES
    incident,   \* the rows, by number: [status, source, was, timeline]
    created,    \* rows created so far
    request     \* per handler: its stage, incident and target status

incidentVars == <<incident, created, request>>

(***************************************************************************)
(* was is the history of a row: every status it had.  For acknowledged,    *)
(* resolved and closed this is what the columns acknowledged_at,           *)
(* resolved_at and closed_at record, which nothing clears.                 *)
(***************************************************************************)
Statuses == {"open", "acknowledged", "investigating", "resolved", "closed"}
Actions == (Statuses \ {"open"}) \cup {"created"}
ASSUME IncidentsAssumption ==
    Manual \notin Sources /\ MaxIncidents \in Nat /\ Watched \subseteq Statuses \cup {"created"}

Rows == [status : Statuses, source : Sources \cup {Manual},
         was : SUBSET Statuses, timeline : SUBSET Actions]

NoRequest == [stage |-> "idle", id |-> 0, action |-> "created"]

IncidentsInit ==
    /\ incident = [i \in {} |-> 0] /\ created = 0
    /\ request = [r \in Requests |-> NoRequest]

TransitionsSkip ==   \* mutant: an incident nobody investigated is resolved
    [open |-> {"acknowledged", "investigating", "closed"},
     acknowledged |-> {"investigating", "resolved", "closed"},
     investigating |-> {"resolved", "closed"}, resolved |-> {"closed"}, closed |-> {}]
Transitions ==
    [open |-> {"acknowledged", "investigating", "closed"},
     acknowledged |-> {"investigating", "closed"},
     investigating |-> {"resolved", "closed"}, resolved |-> {"closed"}, closed |-> {}]

CanTransition(from, to) == to \in Transitions[from]

-----------------------------------------------------------------------------
InsertIncident(source, timeline) ==
    /\ created < MaxIncidents
    /\ created' = created + 1
    /\ incident' = [i \in DOMAIN incident \cup {created'} |->
                       IF i = created'
                       THEN [status |-> "open", source |-> source,
                             was |-> {"open"} \cap Watched,
                             timeline |-> timeline \cap Watched]
                       ELSE incident[i]]

\* UPDATE incidents SET status = to, <to>_at = NOW(): the statement has no condition on the status.
SetStatus(i, to) ==
    incident' = [incident EXCEPT ![i].status = to, ![i].was = @ \cup ({to} \cap Watched)]

Goto(r, stage, i, action) ==
    request' = [request EXCEPT ![r] = [stage |-> stage, id |-> i, action |-> action]]
Finish(r) == request' = [request EXCEPT ![r] = NoRequest]

CreateIncident(r) ==
    /\ request[r].stage = "idle"
    /\ InsertIncident(Manual, {})
    /\ Goto(r, "written", created', "created")

ArchiveNotesOnly(r, i) ==   \* mutant: notes the archival without closing
    /\ request[r].stage = "idle"
    /\ Goto(r, "written", i, "closed")
    /\ UNCHANGED <<incident, created>>
ArchiveIncident(r, i) ==
    /\ request[r].stage = "idle"
    /\ SetStatus(i, "closed")
    /\ Goto(r, "written", i, "closed")
    /\ UNCHANGED created

(***************************************************************************)
(* DeleteIncident: the timeline and the row go in one transaction.         *)
(***************************************************************************)
DeleteIncident(r, i) ==
    /\ request[r].stage = "idle"
    /\ incident' = [j \in DOMAIN incident \ {i} |-> incident[j]]
    /\ UNCHANGED <<created, request>>

(***************************************************************************)
(* Service.Transition: GetIncident and the state machine's verdict ...     *)
(***************************************************************************)
CheckTransition(r, i, to) ==
    /\ request[r].stage = "idle"
    /\ CanTransition(incident[i].status, to)
    /\ Goto(r, "checked", i, to)
    /\ UNCHANGED <<incident, created>>

(***************************************************************************)
(* ... and UpdateIncidentStatus, which finds the row or reports            *)
(* ErrIncidentNotFound.                                                    *)
(***************************************************************************)
UpdateStatus(r) ==
    LET i == request[r].id
    IN  /\ request[r].stage = "checked"
        /\ \/ /\ i \in DOMAIN incident
              /\ SetStatus(i, request[r].action)
              /\ Goto(r, "written", i, request[r].action)
           \/ /\ i \notin DOMAIN incident
              /\ Finish(r) /\ UNCHANGED incident
        /\ UNCHANGED created

\* The timeline entry is lost when its statement fails or the row is gone; the error is ignored.
AddTimelineEntry(r) ==
    LET i == request[r].id
    IN  /\ request[r].stage = "written"
        /\ \/ /\ i \in DOMAIN incident
              /\ incident' = [incident EXCEPT ![i].timeline = @ \cup ({request[r].action} \cap Watched)]
           \/ UNCHANGED incident
        /\ Finish(r)
        /\ UNCHANGED created

RequestStep(r) ==
    \/ CreateIncident(r)
    \/ \E i \in DOMAIN incident :
          \/ ArchiveIncident(r, i)
          \/ DeleteIncident(r, i)
          \/ \E to \in Statuses : CheckTransition(r, i, to)
    \/ UpdateStatus(r)
    \/ AddTimelineEntry(r)

IncidentsNext == \E r \in Requests : RequestStep(r)

IncidentsSpec == IncidentsInit /\ [][IncidentsNext]_incidentVars

-----------------------------------------------------------------------------
\* Every variable has its type.
IncidentsTypeOK ==
    /\ created \in 0 .. MaxIncidents
    /\ DOMAIN incident \subseteq 1 .. created
    /\ incident \in [DOMAIN incident -> Rows]
    /\ request \in [Requests -> [stage : {"idle", "checked", "written"},
                               id : 0 .. created, action : Actions]]
    /\ \A r \in Requests :
          /\ request[r].stage # "idle" => request[r].id # 0
          /\ request[r].stage = "checked" => request[r].action # "created"

(***************************************************************************)
(* No incident is resolved that nobody investigated, although requests act *)
(* on rows read some time ago and archived or deleted meanwhile.           *)
(***************************************************************************)
ResolvedWasInvestigated ==
    \A i \in DOMAIN incident :
        "resolved" \in incident[i].was => "investigating" \in incident[i].was

(***************************************************************************)
(* The timeline, written in statements of its own, tells of no status the  *)
(* incident never had.                                                     *)
(***************************************************************************)
TimelineIsTrue ==
    \A i \in DOMAIN incident : incident[i].timeline \ {"created"} \subseteq incident[i].was

(***************************************************************************)
(* "closed: terminal state" (state_machine.go:36): an incident that was    *)
(* closed stays so, whatever was decided about it before.                  *)
(***************************************************************************)
ClosedIsTerminal ==
    \A i \in DOMAIN incident : "closed" \in incident[i].was => incident[i].status = "closed"
=============================================================================
