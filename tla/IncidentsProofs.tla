-------------------------- MODULE IncidentsProofs --------------------------
(***************************************************************************)
(* Proofs about module Incidents, for any number of concurrent handlers    *)
(* and of rows, and about module Alerts, which raises them, for any        *)
(* numbers of rules, thresholds and reports.  The second half is about     *)
(* Alerts: the windows of rules, then the incidents of a source.           *)
(***************************************************************************)
EXTENDS Alerts, FiniteSetTheorems, WellFoundedInduction, TLAPS

\* The state machine never leads back to open, and to resolved only from investigating.
LEMMA StateMachine ==
    ASSUME NEW from \in Statuses, NEW to \in Statuses, CanTransition(from, to)
    PROVE  to \in Actions \ {"created"} /\ (to = "resolved" => from = "investigating")
BY DEF CanTransition, Transitions, Statuses, Actions

\* What the three statements that write a row make of it.
LEMMA SetStatusEffect ==
    ASSUME IncidentsTypeOK, NEW i \in DOMAIN incident, NEW to \in Statuses, SetStatus(i, to)
    PROVE  /\ DOMAIN incident' = DOMAIN incident
           /\ incident' \in [DOMAIN incident -> Rows]
           /\ \A j \in DOMAIN incident :
                 /\ incident'[j].was = incident[j].was \cup (IF j = i THEN {to} \cap Watched ELSE {})
                 /\ incident'[j].timeline = incident[j].timeline
                 /\ incident'[j].status = IF j = i THEN to ELSE incident[j].status
<1> DEFINE D == DOMAIN incident
           row == [incident[i] EXCEPT !.status = to, !.was = @ \cup ({to} \cap Watched)]
<1>1. incident \in [D -> Rows] /\ Watched \subseteq Statuses \cup {"created"}
  BY IncidentsAssumption DEF IncidentsTypeOK
<1>2. {to} \cap Watched \subseteq Statuses
  OBVIOUS
<1>3. incident[i] \in Rows
  BY <1>1
<1>4. /\ row \in Rows /\ row.status = to
      /\ row.was = incident[i].was \cup ({to} \cap Watched)
      /\ row.timeline = incident[i].timeline
  BY <1>2, <1>3 DEF Rows
<1>5. incident' = [incident EXCEPT ![i] = row]
  BY DEF SetStatus
<1>6. \A j \in D : incident'[j] = IF j = i THEN row ELSE incident[j]
  BY <1>1, <1>5
<1>7. DOMAIN incident' = D
  BY <1>1, <1>5
<1>8. incident' \in [D -> Rows]
  BY <1>1, <1>4, <1>5
<1> HIDE DEF row
<1>9. \A j \in D : j # i => incident'[j].was = incident[j].was \cup {}
  BY <1>6
<1> QED
  BY <1>4, <1>6, <1>7, <1>8, <1>9

\* A new row, numbered next.
LEMMA InsertIncidentEffect ==
    ASSUME IncidentsTypeOK, NEW source \in Sources \cup {Manual}, NEW entries,
           entries \subseteq Actions, InsertIncident(source, entries)
    PROVE  /\ created' = created + 1 /\ created' \in 0 .. MaxIncidents
           /\ created' \notin DOMAIN incident
           /\ DOMAIN incident' = DOMAIN incident \cup {created'}
           /\ incident' \in [DOMAIN incident' -> Rows]
           /\ \A j \in DOMAIN incident : incident'[j] = incident[j]
           /\ incident'[created'].was \subseteq {"open"}
           /\ incident'[created'].status = "open"
           /\ incident'[created'].timeline \subseteq entries
<1> DEFINE D == DOMAIN incident
           row == [status |-> "open", source |-> source,
                   was |-> {"open"} \cap Watched, timeline |-> entries \cap Watched]
<1>1. /\ incident \in [D -> Rows] /\ D \subseteq 1 .. created
      /\ created \in 0 .. MaxIncidents /\ MaxIncidents \in Nat
      /\ Watched \subseteq Statuses \cup {"created"}
  BY IncidentsAssumption DEF IncidentsTypeOK
<1>2. /\ created < MaxIncidents /\ created' = created + 1
      /\ incident' = [j \in D \cup {created'} |-> IF j = created' THEN row ELSE incident[j]]
  BY DEF InsertIncident
<1>3. row \in Rows
  BY DEF Rows, Statuses
<1>4. created' \in 0 .. MaxIncidents /\ created' \notin D
  BY <1>1, <1>2
<1>5. /\ row.was \subseteq {"open"} /\ row.status = "open" /\ row.timeline \subseteq entries
  OBVIOUS
<1> HIDE DEF row
<1>6. \A j \in D : incident'[j] = incident[j]
  BY <1>2, <1>4
<1>7. incident' \in [D \cup {created'} -> Rows]
  BY <1>1, <1>2, <1>3
<1>8. DOMAIN incident' = D \cup {created'} /\ incident'[created'] = row
  BY <1>2
<1> QED
  BY <1>2, <1>4, <1>5, <1>6, <1>7, <1>8

\* An entry of the timeline changes the timeline of one row.
LEMMA EntryEffect ==
    ASSUME IncidentsTypeOK, NEW r \in Requests, AddTimelineEntry(r)
    PROVE  /\ DOMAIN incident' = DOMAIN incident
           /\ incident' \in [DOMAIN incident -> Rows]
           /\ \A j \in DOMAIN incident :
                 /\ incident'[j].was = incident[j].was
                 /\ incident'[j].status = incident[j].status
                 /\ incident'[j].timeline \subseteq incident[j].timeline
                       \cup (IF j = request[r].id THEN {request[r].action} ELSE {})
<1> DEFINE D == DOMAIN incident
           i == request[r].id
           entry == {request[r].action} \cap Watched
           row == [incident[i] EXCEPT !.timeline = @ \cup entry]
<1>1. incident \in [D -> Rows] /\ entry \subseteq Actions
  BY DEF IncidentsTypeOK
<1>2. CASE i \in D /\ incident' = [incident EXCEPT ![i].timeline = @ \cup entry]
  <2>1. incident[i] \in Rows
    BY <1>1, <1>2
  <2>2. /\ row \in Rows /\ row.status = incident[i].status /\ row.was = incident[i].was
        /\ row.timeline = incident[i].timeline \cup entry
    BY <1>1, <2>1 DEF Rows
  <2>3. incident' = [incident EXCEPT ![i] = row]
    BY <1>2
  <2>4. \A j \in D : incident'[j] = IF j = i THEN row ELSE incident[j]
    BY <1>1, <2>3
  <2>5. DOMAIN incident' = D /\ incident' \in [D -> Rows]
    BY <1>1, <2>2, <2>3
  <2>6. entry \subseteq {request[r].action}
    OBVIOUS
  <2> HIDE DEF row, entry
  <2> QED
    BY <2>2, <2>4, <2>5, <2>6
<1>3. CASE incident' = incident
  BY <1>1, <1>3
<1> QED
  BY <1>2, <1>3 DEF AddTimelineEntry

\* A handler's own record changes, the others' do not.
LEMMA GotoEffect ==
    ASSUME IncidentsTypeOK, NEW r \in Requests, NEW rec,
           request' = [request EXCEPT ![r] = rec]
    PROVE  request'[r] = rec /\ \A q \in Requests : q # r => request'[q] = request[q]
BY DEF IncidentsTypeOK

-----------------------------------------------------------------------------
\* No rows and no requests.
LEMMA TypeInit == IncidentsInit => IncidentsTypeOK
<1> SUFFICES ASSUME IncidentsInit PROVE IncidentsTypeOK
  OBVIOUS
<1>1. DOMAIN incident = {} /\ incident \in [DOMAIN incident -> Rows]
  BY DEF IncidentsInit
<1> QED
  BY <1>1, IncidentsAssumption DEF IncidentsInit, IncidentsTypeOK, NoRequest, Actions

\* The part of the type invariant that speaks of requests, after one of them moved.
LEMMA RequestTyped ==
    ASSUME IncidentsTypeOK, NEW r \in Requests, created' \in Nat, created <= created',
           NEW stage \in {"idle", "checked", "written"}, NEW i \in 0 .. created',
           NEW action \in Actions,
           stage # "idle" => i # 0, stage = "checked" => action # "created",
           request' = [request EXCEPT ![r] = [stage |-> stage, id |-> i, action |-> action]]
    PROVE  /\ request' \in [Requests -> [stage : {"idle", "checked", "written"},
                                        id : 0 .. created', action : Actions]]
           /\ \A q \in Requests :
                 /\ request'[q].stage # "idle" => request'[q].id # 0
                 /\ request'[q].stage = "checked" => request'[q].action # "created"
<1> DEFINE R(n) == [stage : {"idle", "checked", "written"}, id : 0 .. n, action : Actions]
           rec == [stage |-> stage, id |-> i, action |-> action]
<1>1. created \in Nat /\ request \in [Requests -> R(created)]
  BY IncidentsAssumption DEF IncidentsTypeOK
<1>2. 0 .. created \subseteq 0 .. created'
  BY <1>1
<1>3. R(created) \subseteq R(created')
  BY <1>2
<1>4. rec \in R(created')
  OBVIOUS
<1>5. /\ rec.stage # "idle" => rec.id # 0
      /\ rec.stage = "checked" => rec.action # "created"
  OBVIOUS
<1>6. request'[r] = rec /\ \A q \in Requests : q # r => request'[q] = request[q]
  BY GotoEffect
<1> HIDE DEF R, rec
<1>7. request \in [Requests -> R(created')]
  BY <1>1, <1>3
<1>8. request' \in [Requests -> R(created')]
  BY <1>4, <1>7 DEF rec
<1>9. \A q \in Requests :
         /\ request[q].stage # "idle" => request[q].id # 0
         /\ request[q].stage = "checked" => request[q].action # "created"
  BY DEF IncidentsTypeOK
<1>10. \A q \in Requests :
         /\ request'[q].stage # "idle" => request'[q].id # 0
         /\ request'[q].stage = "checked" => request'[q].action # "created"
  BY <1>5, <1>6, <1>9
<1> QED
  BY <1>8, <1>10 DEF R

\* Every statement of a request keeps rows and requests well-formed.
LEMMA TypeNext == IncidentsTypeOK /\ [IncidentsNext]_incidentVars => IncidentsTypeOK'
<1> SUFFICES ASSUME IncidentsTypeOK, [IncidentsNext]_incidentVars PROVE IncidentsTypeOK'
  OBVIOUS
<1>0. created \in 0 .. MaxIncidents /\ created \in Nat /\ DOMAIN incident \subseteq 1 .. created
  BY IncidentsAssumption DEF IncidentsTypeOK
<1>idle. "created" \in Actions /\ "closed" \in Actions /\ "closed" \in Statuses
  BY DEF Actions, Statuses
<1>1. CASE UNCHANGED incidentVars
  BY <1>1 DEF IncidentsTypeOK, incidentVars
<1>2. ASSUME NEW r \in Requests, CreateIncident(r) PROVE IncidentsTypeOK'
  <2>1. InsertIncident(Manual, {})
    BY <1>2 DEF CreateIncident
  <2>2. /\ created' = created + 1 /\ created' \in 0 .. MaxIncidents
        /\ DOMAIN incident' = DOMAIN incident \cup {created'}
        /\ incident' \in [DOMAIN incident' -> Rows]
    BY <2>1, InsertIncidentEffect
  <2>3. created' \in Nat /\ created <= created' /\ created' \in 0 .. created' /\ created' # 0
    BY <1>0, <2>2
  <2>4. DOMAIN incident' \subseteq 1 .. created'
    BY <1>0, <2>2
  <2>5. request' = [request EXCEPT ![r] =
            [stage |-> "written", id |-> created', action |-> "created"]]
    BY <1>2 DEF CreateIncident, Goto
  <2>6. "written" \in {"idle", "checked", "written"} /\ "written" # "checked"
    OBVIOUS
  <2> QED
    BY <1>idle, <2>2, <2>3, <2>4, <2>5, <2>6, RequestTyped DEF IncidentsTypeOK
<1>3. ASSUME NEW r \in Requests, NEW i \in DOMAIN incident, ArchiveIncident(r, i)
      PROVE  IncidentsTypeOK'
  <2>1. /\ SetStatus(i, "closed") /\ created' = created
        /\ request' = [request EXCEPT ![r] =
              [stage |-> "written", id |-> i, action |-> "closed"]]
    BY <1>3 DEF ArchiveIncident, Goto
  <2>2. DOMAIN incident' = DOMAIN incident /\ incident' \in [DOMAIN incident -> Rows]
    BY <1>idle, <2>1, SetStatusEffect
  <2>3. i \in 0 .. created' /\ i # 0 /\ created' \in Nat /\ created <= created'
    BY <1>0, <2>1
  <2>4. "written" \in {"idle", "checked", "written"} /\ "written" # "checked"
    OBVIOUS
  <2> QED
    BY <1>0, <1>idle, <2>1, <2>2, <2>3, <2>4, RequestTyped DEF IncidentsTypeOK
<1>4. ASSUME NEW r \in Requests, NEW i \in DOMAIN incident, DeleteIncident(r, i)
      PROVE  IncidentsTypeOK'
  <2>1. /\ incident' = [j \in DOMAIN incident \ {i} |-> incident[j]]
        /\ UNCHANGED <<created, request>>
    BY <1>4 DEF DeleteIncident
  <2>2. DOMAIN incident' = DOMAIN incident \ {i}
    BY <2>1
  <2>3. incident' \in [DOMAIN incident \ {i} -> Rows]
    BY <2>1 DEF IncidentsTypeOK
  <2> QED
    BY <2>1, <2>2, <2>3 DEF IncidentsTypeOK
<1>5. ASSUME NEW r \in Requests, NEW i \in DOMAIN incident, NEW to \in Statuses,
             CheckTransition(r, i, to)
      PROVE  IncidentsTypeOK'
  <2>1. /\ CanTransition(incident[i].status, to) /\ UNCHANGED <<incident, created>>
        /\ request' = [request EXCEPT ![r] = [stage |-> "checked", id |-> i, action |-> to]]
    BY <1>5 DEF CheckTransition, Goto
  <2>2. incident[i].status \in Statuses
    BY DEF IncidentsTypeOK, Rows
  <2>3. to \in Actions \ {"created"}
    BY <2>1, <2>2, StateMachine
  <2>4. i \in 0 .. created' /\ i # 0 /\ created' \in Nat /\ created <= created'
    BY <1>0, <2>1
  <2>5. "checked" \in {"idle", "checked", "written"}
    OBVIOUS
  <2> QED
    BY <2>1, <2>3, <2>4, <2>5, RequestTyped DEF IncidentsTypeOK
<1>6. ASSUME NEW r \in Requests, UpdateStatus(r) PROVE IncidentsTypeOK'
  <2> DEFINE i == request[r].id
  <2>1. /\ request[r].stage = "checked" /\ created' = created
        /\ i \in 0 .. created' /\ i # 0 /\ created' \in Nat /\ created <= created'
        /\ request[r].action \in Actions /\ request[r].action # "created"
    BY <1>0, <1>6 DEF UpdateStatus, IncidentsTypeOK
  <2>2. CASE /\ i \in DOMAIN incident
             /\ SetStatus(i, request[r].action)
             /\ Goto(r, "written", i, request[r].action)
    <3>1. request[r].action \in Statuses
      BY <2>1 DEF Actions
    <3>2. DOMAIN incident' = DOMAIN incident /\ incident' \in [DOMAIN incident -> Rows]
      BY <2>2, <3>1, SetStatusEffect
    <3>3. request' = [request EXCEPT ![r] =
              [stage |-> "written", id |-> i, action |-> request[r].action]]
      BY <2>2 DEF Goto
    <3>4. "written" \in {"idle", "checked", "written"} /\ "written" # "checked"
      OBVIOUS
    <3> HIDE DEF i
    <3> QED
      BY <1>0, <2>1, <3>2, <3>3, <3>4, RequestTyped DEF IncidentsTypeOK
  <2>3. CASE Finish(r) /\ UNCHANGED incident
    <3>1. request' = [request EXCEPT ![r] =
              [stage |-> "idle", id |-> 0, action |-> "created"]]
      BY <2>3 DEF Finish, NoRequest
    <3>2. "idle" \in {"idle", "checked", "written"} /\ "idle" # "checked" /\ 0 \in 0 .. created'
      BY <2>1
    <3> QED
      BY <1>idle, <2>1, <2>3, <3>1, <3>2, RequestTyped DEF IncidentsTypeOK
  <2> QED
    BY <1>6, <2>2, <2>3 DEF UpdateStatus
<1>7. ASSUME NEW r \in Requests, AddTimelineEntry(r) PROVE IncidentsTypeOK'
  <2>1. /\ created' = created /\ created' \in Nat /\ created <= created'
        /\ request' = [request EXCEPT ![r] =
              [stage |-> "idle", id |-> 0, action |-> "created"]]
    BY <1>0, <1>7 DEF AddTimelineEntry, Finish, NoRequest
  <2>2. DOMAIN incident' = DOMAIN incident /\ incident' \in [DOMAIN incident -> Rows]
    BY <1>7, EntryEffect
  <2>3. "idle" \in {"idle", "checked", "written"} /\ "idle" # "checked" /\ 0 \in 0 .. created'
    BY <2>1
  <2> QED
    BY <1>0, <1>idle, <2>1, <2>2, <2>3, RequestTyped DEF IncidentsTypeOK
<1> QED
  BY <1>1, <1>2, <1>3, <1>4, <1>5, <1>6, <1>7 DEF IncidentsNext, RequestStep

(***************************************************************************)
(* Every variable has its type, whatever handlers do at once.              *)
(***************************************************************************)
THEOREM TypeCorrect == IncidentsSpec => []IncidentsTypeOK
BY TypeInit, TypeNext, PTL DEF IncidentsSpec

-----------------------------------------------------------------------------
(***************************************************************************)
(* What the two properties of an incident's history rest on.  A status a   *)
(* row has is in its history; the history only grows, so that what a       *)
(* handler saw when it checked a transition is still in it when the        *)
(* handler writes the row, and what it wrote when it adds the entry.  A    *)
(* number is never given to a second row.                                  *)
(***************************************************************************)
StatusInHistory == \A i \in DOMAIN incident : incident[i].status \in incident[i].was
CheckedInHistory ==
    \A r \in Requests :
        request[r].stage = "checked" /\ request[r].action = "resolved"
            /\ request[r].id \in DOMAIN incident =>
                "investigating" \in incident[request[r].id].was
WrittenInHistory ==
    \A r \in Requests :
        request[r].stage = "written" /\ request[r].id \in DOMAIN incident =>
            request[r].action \in incident[request[r].id].was \cup {"created"}
HistoryInv ==
    /\ StatusInHistory /\ CheckedInHistory /\ WrittenInHistory
    /\ ResolvedWasInvestigated /\ TimelineIsTrue

\* No row has a history yet.
LEMMA HistoryInit == IncidentsInit => HistoryInv
<1> SUFFICES ASSUME IncidentsInit PROVE HistoryInv
  OBVIOUS
<1>1. DOMAIN incident = {} /\ \A r \in Requests : request[r].stage = "idle"
  BY DEF IncidentsInit, NoRequest
<1> QED
  BY <1>1 DEF HistoryInv, StatusInHistory, CheckedInHistory, WrittenInHistory,
             ResolvedWasInvestigated, TimelineIsTrue

(***************************************************************************)
(* A step that only lets histories grow, adds to a timeline what is in the *)
(* history, and moves a request within the two facts about requests keeps  *)
(* them all.                                                               *)
(***************************************************************************)
LEMMA HistoryGrows ==
    ASSUME IncidentsTypeOK, HistoryInv, NEW r \in Requests,
           \A j \in DOMAIN incident' :
              /\ incident'[j].status \in incident'[j].was
              /\ "resolved" \in incident'[j].was => "investigating" \in incident'[j].was
              /\ incident'[j].timeline \ {"created"} \subseteq incident'[j].was,
           \A j \in DOMAIN incident \cap DOMAIN incident' :
              incident[j].was \subseteq incident'[j].was,
           DOMAIN incident' \subseteq DOMAIN incident \cup {created + 1},
           \A q \in Requests : q # r => request'[q] = request[q],
           request'[r].id \in DOMAIN incident' =>
              /\ request'[r].stage = "checked" /\ request'[r].action = "resolved" =>
                    "investigating" \in incident'[request'[r].id].was
              /\ request'[r].stage = "written" =>
                    request'[r].action \in incident'[request'[r].id].was \cup {"created"}
    PROVE  HistoryInv'
<1>1. \A q \in Requests : request[q].id \in 0 .. created /\ created \in Nat
  BY IncidentsAssumption DEF IncidentsTypeOK
<1>2. \A q \in Requests : request[q].id \in DOMAIN incident' => request[q].id \in DOMAIN incident
  BY <1>1
<1>3. CheckedInHistory'
  <2> SUFFICES ASSUME NEW q \in Requests, q # r, request[q].stage = "checked",
                      request[q].action = "resolved", request[q].id \in DOMAIN incident'
               PROVE  "investigating" \in incident'[request[q].id].was
    BY DEF CheckedInHistory
  <2> QED
    BY <1>2 DEF HistoryInv, CheckedInHistory
<1>4. WrittenInHistory'
  <2> SUFFICES ASSUME NEW q \in Requests, q # r, request[q].stage = "written",
                      request[q].id \in DOMAIN incident'
               PROVE  request[q].action \in incident'[request[q].id].was \cup {"created"}
    BY DEF WrittenInHistory
  <2> QED
    BY <1>2 DEF HistoryInv, WrittenInHistory
<1> QED
  BY <1>3, <1>4 DEF HistoryInv, StatusInHistory, ResolvedWasInvestigated, TimelineIsTrue

\* Histories only grow, so what a request read of one stays true.
LEMMA HistoryNext ==
    ASSUME Statuses \subseteq Watched
    PROVE  IncidentsTypeOK /\ HistoryInv /\ [IncidentsNext]_incidentVars => HistoryInv'
<1> SUFFICES ASSUME IncidentsTypeOK, HistoryInv, [IncidentsNext]_incidentVars
             PROVE  HistoryInv'
  OBVIOUS
<1>0. /\ created \in Nat /\ DOMAIN incident \subseteq 1 .. created
      /\ incident \in [DOMAIN incident -> Rows]
  BY IncidentsAssumption DEF IncidentsTypeOK
<1>req. request = [q \in Requests |-> request[q]]
  BY DEF IncidentsTypeOK
<1>old. \A j \in DOMAIN incident :
           /\ incident[j].status \in incident[j].was
           /\ "resolved" \in incident[j].was => "investigating" \in incident[j].was
           /\ incident[j].timeline \ {"created"} \subseteq incident[j].was
  BY DEF HistoryInv, StatusInHistory, ResolvedWasInvestigated, TimelineIsTrue
<1>1. CASE UNCHANGED incidentVars
  BY <1>1 DEF HistoryInv, StatusInHistory, CheckedInHistory, WrittenInHistory,
              ResolvedWasInvestigated, TimelineIsTrue, incidentVars
<1>2. ASSUME NEW r \in Requests, CreateIncident(r) PROVE HistoryInv'
  <2>1. /\ InsertIncident(Manual, {})
        /\ incident' = [i \in DOMAIN incident \cup {created'} |->
               IF i = created'
               THEN [status |-> "open", source |-> Manual,
                     was |-> {"open"} \cap Watched, timeline |-> {} \cap Watched]
               ELSE incident[i]]
    BY <1>2 DEF CreateIncident, InsertIncident
  <2>2. /\ created' = created + 1 /\ created' \notin DOMAIN incident
        /\ DOMAIN incident' = DOMAIN incident \cup {created'}
        /\ \A j \in DOMAIN incident : incident'[j] = incident[j]
        /\ incident'[created'].status = "open"
        /\ incident'[created'].timeline \subseteq {}
        /\ incident'[created'].was \subseteq {"open"}
    BY <2>1, InsertIncidentEffect
  <2>3. "open" \in Watched
    BY DEF Statuses
  <2>4. incident'[created'].was = {"open"} \cap Watched
    BY <2>1
  <2>5. \A j \in DOMAIN incident' :
           /\ incident'[j].status \in incident'[j].was
           /\ "resolved" \in incident'[j].was => "investigating" \in incident'[j].was
           /\ incident'[j].timeline \ {"created"} \subseteq incident'[j].was
    BY <1>old, <2>2, <2>3, <2>4
  <2>6. request' = [request EXCEPT ![r] =
            [stage |-> "written", id |-> created', action |-> "created"]]
    BY <1>2 DEF CreateIncident, Goto
  <2>7. /\ request'[r].stage = "written" /\ request'[r].action = "created"
        /\ \A q \in Requests : q # r => request'[q] = request[q]
    BY <2>6, <1>req
  <2> QED
    BY <2>2, <2>5, <2>7, HistoryGrows
<1>3. ASSUME NEW r \in Requests, NEW i \in DOMAIN incident, ArchiveIncident(r, i)
      PROVE  HistoryInv'
  <2>1. /\ SetStatus(i, "closed")
        /\ request' = [request EXCEPT ![r] =
              [stage |-> "written", id |-> i, action |-> "closed"]]
    BY <1>3 DEF ArchiveIncident, Goto
  <2>2. "closed" \in Statuses /\ {"closed"} \cap Watched = {"closed"}
    BY DEF Statuses
  <2>3. /\ DOMAIN incident' = DOMAIN incident
        /\ \A j \in DOMAIN incident :
              /\ incident'[j].was = incident[j].was \cup (IF j = i THEN {"closed"} ELSE {})
              /\ incident'[j].timeline = incident[j].timeline
              /\ incident'[j].status = IF j = i THEN "closed" ELSE incident[j].status
    BY <2>1, <2>2, SetStatusEffect
  <2>4. \A j \in DOMAIN incident' :
           /\ incident'[j].status \in incident'[j].was
           /\ "resolved" \in incident'[j].was => "investigating" \in incident'[j].was
           /\ incident'[j].timeline \ {"created"} \subseteq incident'[j].was
    BY <1>old, <2>3
  <2>5. /\ request'[r].stage = "written" /\ request'[r].action = "closed" /\ request'[r].id = i
        /\ \A q \in Requests : q # r => request'[q] = request[q]
    BY <2>1, <1>req
  <2>6. request'[r].action \in incident'[request'[r].id].was
    BY <2>3, <2>5
  <2> QED
    BY <2>3, <2>4, <2>5, <2>6, HistoryGrows
<1>4. ASSUME NEW r \in Requests, NEW i \in DOMAIN incident, DeleteIncident(r, i)
      PROVE  HistoryInv'
  <2>1. /\ incident' = [j \in DOMAIN incident \ {i} |-> incident[j]] /\ request' = request
    BY <1>4 DEF DeleteIncident
  <2>2. /\ DOMAIN incident' = DOMAIN incident \ {i}
        /\ \A j \in DOMAIN incident' : incident'[j] = incident[j]
    BY <2>1
  <2> QED
    BY <2>1, <2>2 DEF HistoryInv, StatusInHistory, CheckedInHistory, WrittenInHistory,
                      ResolvedWasInvestigated, TimelineIsTrue
<1>5. ASSUME NEW r \in Requests, NEW i \in DOMAIN incident, NEW to \in Statuses,
             CheckTransition(r, i, to)
      PROVE  HistoryInv'
  <2>1. /\ CanTransition(incident[i].status, to) /\ incident' = incident
        /\ request' = [request EXCEPT ![r] = [stage |-> "checked", id |-> i, action |-> to]]
    BY <1>5 DEF CheckTransition, Goto
  <2>2. incident[i].status \in Statuses
    BY DEF IncidentsTypeOK, Rows
  <2>3. to = "resolved" => incident[i].status = "investigating"
    BY <2>1, <2>2, StateMachine
  <2>4. /\ request'[r].stage = "checked" /\ request'[r].action = to /\ request'[r].id = i
        /\ \A q \in Requests : q # r => request'[q] = request[q]
    BY <2>1, <1>req
  <2>5. request'[r].action = "resolved" => "investigating" \in incident'[request'[r].id].was
    BY <1>old, <2>1, <2>3, <2>4
  <2>6. \A j \in DOMAIN incident' :
           /\ incident'[j].status \in incident'[j].was
           /\ "resolved" \in incident'[j].was => "investigating" \in incident'[j].was
           /\ incident'[j].timeline \ {"created"} \subseteq incident'[j].was
    BY <1>old, <2>1
  <2>7. /\ DOMAIN incident' = DOMAIN incident
        /\ \A j \in DOMAIN incident : incident[j].was \subseteq incident'[j].was
    BY <2>1
  <2> QED
    BY <2>4, <2>5, <2>6, <2>7, HistoryGrows
<1>6. ASSUME NEW r \in Requests, UpdateStatus(r) PROVE HistoryInv'
  <2> DEFINE i == request[r].id
             to == request[r].action
  <2>1. request[r].stage = "checked" /\ to \in Statuses
    BY <1>6 DEF UpdateStatus, IncidentsTypeOK, Actions
  <2>2. CASE i \in DOMAIN incident /\ SetStatus(i, to) /\ Goto(r, "written", i, to)
    <3>1. {to} \cap Watched = {to}
      BY <2>1
    <3>2. request' = [request EXCEPT ![r] = [stage |-> "written", id |-> i, action |-> to]]
      BY <2>2 DEF Goto
    <3>3. to = "resolved" => "investigating" \in incident[i].was
      BY <2>1, <2>2 DEF HistoryInv, CheckedInHistory
    <3>4. /\ request'[r].stage = "written" /\ request'[r].id = i /\ request'[r].action = to
          /\ \A q \in Requests : q # r => request'[q] = request[q]
      BY <3>2, <1>req
    <3>5. /\ DOMAIN incident' = DOMAIN incident
          /\ \A j \in DOMAIN incident :
                /\ incident'[j].was = incident[j].was \cup (IF j = i THEN {to} ELSE {})
                /\ incident'[j].timeline = incident[j].timeline
                /\ incident'[j].status = IF j = i THEN to ELSE incident[j].status
      BY <2>1, <2>2, <3>1, SetStatusEffect
    <3> HIDE DEF i, to
    <3>6. \A j \in DOMAIN incident' :
             /\ incident'[j].status \in incident'[j].was
             /\ "resolved" \in incident'[j].was => "investigating" \in incident'[j].was
             /\ incident'[j].timeline \ {"created"} \subseteq incident'[j].was
      BY <1>old, <3>3, <3>5
    <3>7. request'[r].action \in incident'[request'[r].id].was
      BY <2>2, <3>4, <3>5
    <3> QED
      BY <3>4, <3>5, <3>6, <3>7, HistoryGrows
  <2>3. CASE Finish(r) /\ incident' = incident
    <3>1. request' = [request EXCEPT ![r] = NoRequest]
      BY <2>3 DEF Finish
    <3>2. /\ request'[r].stage = "idle"
          /\ \A q \in Requests : q # r => request'[q] = request[q]
      BY <3>1, <1>req DEF NoRequest
    <3>3. /\ DOMAIN incident' = DOMAIN incident
          /\ \A j \in DOMAIN incident : incident'[j] = incident[j]
      BY <2>3
    <3> QED
      BY <1>old, <3>2, <3>3, HistoryGrows
  <2> QED
    BY <1>6, <2>2, <2>3 DEF UpdateStatus
<1>7. ASSUME NEW r \in Requests, AddTimelineEntry(r) PROVE HistoryInv'
  <2>1. /\ request[r].stage = "written"
        /\ request' = [request EXCEPT ![r] = NoRequest]
    BY <1>7 DEF AddTimelineEntry, Finish
  <2>2. /\ request'[r].stage = "idle"
        /\ \A q \in Requests : q # r => request'[q] = request[q]
    BY <2>1, <1>req DEF NoRequest
  <2>3. /\ DOMAIN incident' = DOMAIN incident
        /\ \A j \in DOMAIN incident :
              /\ incident'[j].was = incident[j].was
              /\ incident'[j].status = incident[j].status
              /\ incident'[j].timeline \subseteq incident[j].timeline
                    \cup (IF j = request[r].id THEN {request[r].action} ELSE {})
    BY <1>7, EntryEffect
  <2>4. request[r].id \in DOMAIN incident =>
            request[r].action \in incident[request[r].id].was \cup {"created"}
    BY <2>1 DEF HistoryInv, WrittenInHistory
  <2>5. \A j \in DOMAIN incident' :
           /\ incident'[j].status \in incident'[j].was
           /\ "resolved" \in incident'[j].was => "investigating" \in incident'[j].was
           /\ incident'[j].timeline \ {"created"} \subseteq incident'[j].was
    BY <1>old, <2>3, <2>4
  <2> QED
    BY <2>2, <2>3, <2>5, HistoryGrows
<1> QED
  BY <1>1, <1>2, <1>3, <1>4, <1>5, <1>6, <1>7 DEF IncidentsNext, RequestStep

(***************************************************************************)
(* No incident is resolved that nobody investigated, whatever handlers     *)
(* race on it.                                                             *)
(***************************************************************************)
THEOREM ResolutionFollowsInvestigation ==
    ASSUME Statuses \subseteq Watched
    PROVE  IncidentsSpec => []ResolvedWasInvestigated
<1>1. IncidentsTypeOK /\ HistoryInv /\ [IncidentsNext]_incidentVars => HistoryInv'
  BY HistoryNext
<1>2. HistoryInv => ResolvedWasInvestigated
  BY DEF HistoryInv
<1> QED
  BY <1>1, <1>2, HistoryInit, TypeCorrect, PTL DEF IncidentsSpec

(***************************************************************************)
(* The timeline tells of no status the incident never had, although its    *)
(* entries are written after the row and other handlers may delete or      *)
(* change the row in between.                                              *)
(***************************************************************************)
THEOREM TimelineTellsTheTruth ==
    ASSUME Statuses \subseteq Watched
    PROVE  IncidentsSpec => []TimelineIsTrue
<1>1. IncidentsTypeOK /\ HistoryInv /\ [IncidentsNext]_incidentVars => HistoryInv'
  BY HistoryNext
<1>2. HistoryInv => TimelineIsTrue
  BY DEF HistoryInv
<1> QED
  BY <1>1, <1>2, HistoryInit, TypeCorrect, PTL DEF IncidentsSpec

-----------------------------------------------------------------------------
\* A set of numbers has a least one.
LEMMA LeastNumber ==
    ASSUME NEW S, S \subseteq Nat, S # {}
    PROVE  \E n \in S : \A m \in S : n <= m
<1>1. PICK n \in S : \A m \in S : ~(<<m, n>> \in OpToRel(<, Nat))
  BY NatLessThanWellFounded, WFMin
<1>2. \A m \in S : ~(m < n)
  BY <1>1, Zenon DEF OpToRel
<1> QED BY <1>2

-----------------------------------------------------------------------------
(***************************************************************************)
(* Alerts.  An evaluation has a source of its evaluator's kind, and has    *)
(* found an incident that was created.                                     *)
(***************************************************************************)
Stages == {"idle", "insert", "find", "link"}
SourcesOf(e) == IF e = Loop THEN Rules ELSE Thresholds

Evaluation(e, x, n) ==
    /\ x \in [stage : Stages, source : Sources \cup {Manual}, found : Nat]
    /\ x.found \in 0 .. n
    /\ x.stage # "idle" => x.source \in SourcesOf(e)

Evaluations ==
    /\ evaluation = [e \in Evaluators |-> evaluation[e]]
    /\ \A e \in Evaluators : Evaluation(e, evaluation[e], created)

AlertsTyped == TypeOK /\ Evaluations

\* One step of one evaluator.
LEMMA EvaluationMoves ==
    ASSUME Evaluations, NEW e \in Evaluators, NEW x, created \in Nat, created' \in Nat,
           created <= created', Evaluation(e, x, created'),
           evaluation' = [evaluation EXCEPT ![e] = x]
    PROVE  /\ Evaluations'
           /\ evaluation'[e] = x
           /\ \A d \in Evaluators : d # e => evaluation'[d] = evaluation[d]
<1>1. /\ evaluation'[e] = x
      /\ \A d \in Evaluators : d # e => evaluation'[d] = evaluation[d]
      /\ evaluation' = [d \in Evaluators |-> evaluation'[d]]
  BY DEF Evaluations
<1>2. \A d \in Evaluators : Evaluation(d, evaluation[d], created')
  BY DEF Evaluations, Evaluation
<1>3. \A d \in Evaluators : Evaluation(d, evaluation'[d], created')
  BY <1>1, <1>2
<1> QED BY <1>1, <1>3 DEF Evaluations, Evaluators

\* The type invariant of Alerts, put together.
LEMMA AlertsTypedNext ==
    ASSUME IncidentsTypeOK', suppressed' \subseteq Sources, Evaluations', fired' \in [Sources -> Nat],
           faults' \in 0 .. MaxFaults, restarts' \in 0 .. MaxRestarts
    PROVE  AlertsTyped'
<1>1. \A e \in Evaluators : Evaluation(e, evaluation'[e], created')
  BY DEF Evaluations
<1>2. \A e \in Evaluators :
          /\ evaluation'[e].stage \in {"idle", "insert", "find", "link"}
          /\ evaluation'[e].found \in 0 .. created'
          /\ evaluation'[e].stage # "idle" =>
                evaluation'[e].source \in (IF e = Loop THEN Rules ELSE Thresholds)
  BY <1>1 DEF Evaluation, Stages, SourcesOf
<1> QED BY <1>2 DEF AlertsTyped, TypeOK, Evaluators

\* Nothing has happened yet.
LEMMA AlertsTypedInit == Init => AlertsTyped
<1> SUFFICES ASSUME Init PROVE AlertsTyped
  OBVIOUS
<1>1. IncidentsTypeOK /\ created = 0
  BY TypeInit DEF Init, IncidentsInit
<1>2. \A e \in Evaluators : evaluation[e] = NoEvaluation
  BY DEF Init
<1>3. \A e : Evaluation(e, NoEvaluation, 0)
  BY DEF Evaluation, NoEvaluation, Stages
<1>4. Evaluations
  BY <1>1, <1>2, <1>3 DEF Evaluations, Init
<1>5. \A e \in Evaluators :
          /\ evaluation[e].stage \in {"idle", "insert", "find", "link"}
          /\ evaluation[e].found \in 0 .. created
          /\ evaluation[e].stage # "idle" =>
                evaluation[e].source \in (IF e = Loop THEN Rules ELSE Thresholds)
  BY <1>1, <1>2 DEF NoEvaluation
<1> QED BY <1>1, <1>4, <1>5, AlertsAssumption DEF Init, AlertsTyped, TypeOK

\* The search finds the newest candidate when there is one, and 0 when there is none.
LEMMA FoundIncident ==
    ASSUME AlertsTyped, NEW s \in Sources
    PROVE  /\ FindOpenIncident(s) \in 0 .. created
           /\ FindOpenIncident(s) = 0 <=> Candidates(s) = {}
<1>1. Candidates(s) \subseteq 1 .. created /\ created \in Nat
  BY IncidentsAssumption DEF Candidates, AlertsTyped, TypeOK, IncidentsTypeOK
<1>2. ASSUME Candidates(s) # {}
      PROVE  \E i \in Candidates(s) : \A j \in Candidates(s) : j <= i
  <2> DEFINE Bounds == {n \in Nat : \A j \in Candidates(s) : j <= n}
  <2>1. created \in Bounds
    BY <1>1
  <2>2. PICK n \in Bounds : \A m \in Bounds : n <= m
    BY <2>1, LeastNumber
  <2>3. n # 0
    BY <1>1, <1>2, <2>2
  <2>4. n - 1 \notin Bounds /\ n - 1 \in Nat
    BY <2>2, <2>3
  <2>5. PICK i \in Candidates(s) : ~(i <= n - 1)
    BY <2>4
  <2>6. i = n
    BY <1>1, <2>2, <2>5
  <2> QED BY <2>2, <2>6
<1>3. CASE Candidates(s) = {}
  BY <1>1, <1>3 DEF FindOpenIncident
<1>4. CASE Candidates(s) # {}
  <2>1. FindOpenIncident(s) \in Candidates(s)
    BY <1>2, <1>4 DEF FindOpenIncident
  <2> QED BY <1>1, <1>4, <2>1
<1> QED BY <1>3, <1>4

-----------------------------------------------------------------------------
(***************************************************************************)
(* The window of a rule.  The loop's suppressor has the key of the rule    *)
(* whose event is about to be inserted, and the event is the first of its  *)
(* window; while the key is there, the rule is not matched again.          *)
(***************************************************************************)
WindowInv ==
    \A s \in Rules :
        /\ fired[s] <= 1
        /\ s \notin suppressed => fired[s] = 0
        /\ evaluation[Loop].stage = "insert" /\ evaluation[Loop].source = s =>
              s \in suppressed /\ fired[s] = 0

\* The types at hand.
LEMMA AlertTypes ==
    ASSUME AlertsTyped
    PROVE  /\ created \in Nat /\ Sources = Rules \cup Thresholds /\ Rules \cap Thresholds = {}
           /\ Loop \in Evaluators /\ \A e \in Evaluators \ {Loop} : SourcesOf(e) = Thresholds
           /\ SourcesOf(Loop) = Rules /\ \A e \in Reports : e \in Evaluators \ {Loop}
           /\ fired \in [Sources -> Nat] /\ suppressed \subseteq Sources
           /\ IncidentsTypeOK /\ Evaluations
           /\ faults \in 0 .. MaxFaults /\ restarts \in 0 .. MaxRestarts
           /\ MaxFaults \in Nat /\ MaxRestarts \in Nat
           /\ \A e \in Evaluators :
                 /\ Evaluation(e, evaluation[e], created)
                 /\ evaluation[e].stage # "idle" =>
                       evaluation[e].source \in SourcesOf(e) /\ evaluation[e].source \in Sources
<1>1. \A e \in Evaluators : Evaluation(e, evaluation[e], created)
  BY DEF AlertsTyped, Evaluations
<1>2. created \in Nat
  BY IncidentsAssumption DEF AlertsTyped, TypeOK, IncidentsTypeOK
<1>3. \A e \in Evaluators : SourcesOf(e) \subseteq Sources
  BY AlertsAssumption DEF SourcesOf
<1> QED BY <1>1, <1>2, <1>3, AlertsAssumption
        DEF AlertsTyped, TypeOK, Evaluation, SourcesOf, Evaluators

\* A statement may fail as often as the bound says.
LEMMA FaultCounts == ASSUME AlertsTyped, Fault PROVE faults' \in 0 .. MaxFaults
  BY AlertTypes DEF Fault

\* Rows and requests that stay as they are stay well-formed.
LEMMA IncidentsUnchanged == ASSUME IncidentsTypeOK, UNCHANGED incidentVars PROVE IncidentsTypeOK'
  BY TypeNext

\* The loop takes up a rule that is not suppressed.
LEMMA MatchRuleInv ==
    ASSUME AlertsTyped, WindowInv, NEW s \in Sources, MatchRule(s)
    PROVE  AlertsTyped' /\ WindowInv'
<1> DEFINE x == [stage |-> "insert", source |-> s, found |-> 0]
<1>1. /\ s \in Rules /\ s \notin suppressed /\ suppressed' = suppressed \cup {s}
      /\ evaluation' = [evaluation EXCEPT ![Loop] = x]
      /\ UNCHANGED <<fired, faults, restarts>> /\ UNCHANGED incidentVars
  BY DEF MatchRule, Recorded, Evaluate
<1>2. created' = created /\ created \in Nat /\ created' \in Nat /\ created <= created' /\ Evaluations
  BY <1>1, AlertTypes DEF incidentVars
<1>3. Evaluation(Loop, x, created')
  BY <1>1, <1>2, AlertTypes DEF Evaluation, Stages
<1> HIDE DEF x
<1>4. Evaluations' /\ evaluation'[Loop] = x
  <2>1. Loop \in Evaluators
    BY AlertTypes
  <2> QED BY <1>1, <1>2, <1>3, <2>1, EvaluationMoves
<1>5. AlertsTyped'
  BY <1>1, <1>4, AlertTypes, IncidentsUnchanged, AlertsTypedNext
<1>6. WindowInv'
  BY <1>1, <1>4 DEF WindowInv, x
<1> QED BY <1>5, <1>6

\* A report takes up a threshold.
LEMMA ExceedThresholdInv ==
    ASSUME AlertsTyped, WindowInv, NEW e \in Evaluators, NEW s \in Sources, ExceedThreshold(e, s)
    PROVE  AlertsTyped' /\ WindowInv'
<1> DEFINE x == [stage |-> "insert", source |-> s, found |-> 0]
<1>1. /\ e \in Reports /\ s \in Thresholds
      /\ evaluation' = [evaluation EXCEPT ![e] = x]
      /\ UNCHANGED <<suppressed, fired, faults, restarts>> /\ UNCHANGED incidentVars
  BY DEF ExceedThreshold, Evaluate
<1>2. created' = created /\ created \in Nat /\ created' \in Nat /\ created <= created' /\ Evaluations
  BY <1>1, AlertTypes DEF incidentVars
<1>3. Evaluation(e, x, created')
  BY <1>1, <1>2, AlertTypes DEF Evaluation, Stages
<1> HIDE DEF x
<1>4. Evaluations' /\ evaluation'[Loop] = evaluation[Loop]
  <2>1. Loop \in Evaluators /\ Loop # e
    BY <1>1, AlertTypes
  <2> QED BY <1>1, <1>2, <1>3, <2>1, EvaluationMoves
<1>5. AlertsTyped'
  BY <1>1, <1>4, AlertTypes, IncidentsUnchanged, AlertsTypedNext
<1>6. WindowInv'
  BY <1>1, <1>4 DEF WindowInv
<1> QED BY <1>5, <1>6

(* An event is inserted, or the statement's answer is lost: a rule's is the first of its window. *)
LEMMA InsertInv ==
    ASSUME AlertsTyped, WindowInv, NEW e \in Evaluators, NEW x,
           evaluation[e].stage = "insert", Evaluation(e, x, created), x.stage # "insert",
           evaluation' = [evaluation EXCEPT ![e] = x],
           \/ fired' = fired
           \/ fired' = [fired EXCEPT ![evaluation[e].source] = @ + 1],
           faults' \in 0 .. MaxFaults, UNCHANGED <<suppressed, restarts>>, UNCHANGED incidentVars
    PROVE  AlertsTyped' /\ WindowInv'
<1> DEFINE s == evaluation[e].source
<1>2. created' = created /\ created \in Nat /\ created' \in Nat /\ created <= created' /\ Evaluations
  BY AlertTypes DEF incidentVars
<1>3. s \in Sources /\ s \in SourcesOf(e)
  BY AlertTypes
<1>4. /\ Evaluations' /\ evaluation'[e] = x
      /\ \A d \in Evaluators : d # e => evaluation'[d] = evaluation[d]
  BY <1>2, EvaluationMoves
<1>5. fired' \in [Sources -> Nat] /\ \A t \in Sources : t # s => fired'[t] = fired[t]
  BY <1>3, AlertTypes
<1>6. AlertsTyped'
  BY <1>4, <1>5, AlertTypes, IncidentsUnchanged, AlertsTypedNext
<1>7. fired'[s] \in {fired[s], fired[s] + 1} /\ fired[s] \in Nat
  BY <1>3, AlertTypes
<1>8. CASE e = Loop
  <2>1. s \in Rules /\ s \in suppressed /\ fired[s] = 0
    BY <1>3, <1>8, AlertTypes DEF WindowInv
  <2>2. evaluation'[Loop].stage # "insert"
    BY <1>4, <1>8
  <2>3. fired'[s] \in {0, 1}
    BY <1>7, <2>1
  <2> HIDE DEF s
  <2>4. \A t \in Rules : t \in Sources
    BY AlertTypes
  <2> QED BY <1>5, <1>6, <2>1, <2>2, <2>3, <2>4 DEF WindowInv
<1>9. CASE e # Loop
  <2>1. s \notin Rules /\ \A t \in Rules : t \in Sources
    BY <1>3, <1>9, AlertTypes
  <2>2. evaluation'[Loop] = evaluation[Loop]
    BY <1>4, <1>9, AlertTypes
  <2> HIDE DEF s
  <2> QED BY <1>5, <1>6, <2>1, <2>2 DEF WindowInv
<1> QED BY <1>8, <1>9

\* The insert of an event, answered or not.
LEMMA InsertEventInv ==
    ASSUME AlertsTyped, WindowInv, NEW e \in Evaluators, InsertEvent(e) \/ InsertFails(e)
    PROVE  AlertsTyped' /\ WindowInv'
<1> DEFINE s == evaluation[e].source
<1>1. CASE InsertEvent(e)
  <2>1. PICK st \in {"idle", "find"} :
           evaluation' = [evaluation EXCEPT ![e] = [stage |-> st, source |-> s, found |-> 0]]
    BY <1>1 DEF InsertEvent, Evaluate
  <2> DEFINE x == [stage |-> st, source |-> s, found |-> 0]
  <2>2. /\ evaluation[e].stage = "insert" /\ fired' = [fired EXCEPT ![s] = @ + 1]
        /\ UNCHANGED <<suppressed, faults, restarts>> /\ UNCHANGED incidentVars
    BY <1>1 DEF InsertEvent
  <2>3. Evaluation(e, x, created) /\ x.stage # "insert"
    BY <2>2, AlertTypes DEF Evaluation, Stages
  <2>4. faults' \in 0 .. MaxFaults
    BY <2>2, AlertTypes
  <2> HIDE DEF x
  <2> QED BY <2>1, <2>2, <2>3, <2>4, InsertInv DEF x
<1>2. CASE InsertFails(e)
  <2>1. /\ evaluation[e].stage = "insert" /\ evaluation' = [evaluation EXCEPT ![e] = NoEvaluation]
        /\ fired' = fired \/ fired' = [fired EXCEPT ![s] = @ + 1]
        /\ UNCHANGED <<suppressed, restarts>> /\ UNCHANGED incidentVars
    BY <1>2 DEF InsertFails
  <2>2. Evaluation(e, NoEvaluation, created) /\ NoEvaluation.stage # "insert"
    BY AlertTypes DEF Evaluation, Stages, NoEvaluation
  <2>3. faults' \in 0 .. MaxFaults
    BY <1>2, FaultCounts DEF InsertFails
  <2> QED BY <2>1, <2>2, <2>3, InsertInv
<1> QED BY <1>1, <1>2

(* A step of the incident creator: only the keys of thresholds are added. *)
LEMMA CreatorInv ==
    ASSUME AlertsTyped, WindowInv, NEW e \in Evaluators, NEW x,
           IncidentsTypeOK', created' \in Nat, created <= created',
           Evaluation(e, x, created'), x.stage # "insert",
           evaluation' = [evaluation EXCEPT ![e] = x],
           suppressed \subseteq suppressed', suppressed' \subseteq Sources,
           faults' \in 0 .. MaxFaults, UNCHANGED <<fired, restarts>>
    PROVE  AlertsTyped' /\ WindowInv'
<1>1. created \in Nat /\ Evaluations
  BY AlertTypes
<1>2. /\ Evaluations' /\ evaluation'[e] = x
      /\ \A d \in Evaluators : d # e => evaluation'[d] = evaluation[d]
  BY <1>1, EvaluationMoves
<1>3. AlertsTyped'
  BY <1>2, AlertTypes, AlertsTypedNext
<1>4. evaluation'[Loop].stage = "insert" => evaluation'[Loop] = evaluation[Loop]
  BY <1>2, AlertTypes
<1>5. WindowInv'
  BY <1>4 DEF WindowInv
<1> QED BY <1>3, <1>5

\* An incident that the creator opens is a row like any other.
LEMMA RaisedIncident ==
    ASSUME IncidentsTypeOK, NEW s \in Sources, InsertIncident(s, {"created"}), UNCHANGED request
    PROVE  IncidentsTypeOK' /\ created' = created + 1
<1>1. {"created"} \subseteq Actions
  BY DEF Actions
<1>2. /\ created' = created + 1 /\ created' \in 0 .. MaxIncidents
      /\ DOMAIN incident' = DOMAIN incident \cup {created'}
      /\ incident' \in [DOMAIN incident' -> Rows]
  BY <1>1, InsertIncidentEffect
<1>3. /\ created \in Nat /\ DOMAIN incident \subseteq 1 .. created
      /\ request \in [Requests -> [stage : {"idle", "checked", "written"},
                                   id : 0 .. created, action : Actions]]
  BY IncidentsAssumption DEF IncidentsTypeOK
<1>4. DOMAIN incident' \subseteq 1 .. created' /\ 0 .. created \subseteq 0 .. created'
  BY <1>2, <1>3
<1>5. request' \in [Requests -> [stage : {"idle", "checked", "written"},
                                 id : 0 .. created', action : Actions]]
  BY <1>3, <1>4
<1> QED BY <1>2, <1>4, <1>5 DEF IncidentsTypeOK

\* What the last step of an evaluation records.
LEMMA DoneEffect ==
    ASSUME AlertsTyped, NEW e \in Evaluators, Done(e), created' \in Nat
    PROVE  /\ evaluation' = [evaluation EXCEPT ![e] = NoEvaluation]
           /\ suppressed \subseteq suppressed' /\ suppressed' \subseteq Sources
           /\ Evaluation(e, NoEvaluation, created') /\ NoEvaluation.stage = "idle"
  BY AlertTypes DEF Done, Evaluation, NoEvaluation, Stages

\* The two statements of the incident creator, and their failure.
LEMMA FindOrCreateInv ==
    ASSUME AlertsTyped, WindowInv, NEW e \in Evaluators,
           FindIncident(e) \/ LinkOrCreate(e) \/ CreateFails(e)
    PROVE  AlertsTyped' /\ WindowInv'
<1> DEFINE s == evaluation[e].source
<1>0. /\ created \in Nat /\ IncidentsTypeOK /\ suppressed \subseteq Sources
      /\ faults \in 0 .. MaxFaults
  BY AlertTypes
<1>1. CASE FindIncident(e)
  <2> DEFINE x == [stage |-> "link", source |-> s, found |-> FindOpenIncident(s)]
  <2>1. /\ evaluation[e].stage = "find" /\ evaluation' = [evaluation EXCEPT ![e] = x]
        /\ UNCHANGED <<suppressed, fired, faults, restarts>> /\ UNCHANGED incidentVars
    BY <1>1 DEF FindIncident, Evaluate
  <2>2. s \in Sources /\ s \in SourcesOf(e)
    BY <2>1, AlertTypes
  <2>3. FindOpenIncident(s) \in 0 .. created
    BY <2>2, FoundIncident
  <2>4. Evaluation(e, x, created) /\ x.stage # "insert"
    BY <1>0, <2>2, <2>3 DEF Evaluation, Stages
  <2>5. created' = created /\ IncidentsTypeOK'
    BY <1>0, <2>1, IncidentsUnchanged DEF incidentVars
  <2> HIDE DEF x
  <2>6. Evaluation(e, x, created') /\ created' \in Nat /\ created <= created'
    BY <1>0, <2>4, <2>5
  <2>7. /\ suppressed \subseteq suppressed' /\ suppressed' \subseteq Sources
        /\ faults' \in 0 .. MaxFaults /\ UNCHANGED <<fired, restarts>>
    BY <1>0, <2>1
  <2> QED BY <2>1, <2>4, <2>5, <2>6, <2>7, CreatorInv
<1>2. CASE LinkOrCreate(e)
  <2>1. evaluation[e].stage = "link" /\ Done(e) /\ UNCHANGED <<fired, faults, restarts>>
    BY <1>2 DEF LinkOrCreate
  <2>2. s \in Sources
    BY <2>1, AlertTypes
  <2>3. IncidentsTypeOK' /\ (created' = created \/ created' = created + 1)
    BY <1>0, <1>2, <2>2, IncidentsUnchanged, RaisedIncident DEF LinkOrCreate, incidentVars
  <2>4. created' \in Nat /\ created <= created'
    BY <1>0, <2>3
  <2> QED BY <1>0, <2>1, <2>3, <2>4, DoneEffect, CreatorInv
<1>3. CASE CreateFails(e)
  <2>1. Done(e) /\ UNCHANGED <<fired, restarts>> /\ UNCHANGED incidentVars
    BY <1>3 DEF CreateFails
  <2>2. created' = created /\ IncidentsTypeOK' /\ created' \in Nat
    BY <1>0, <2>1, IncidentsUnchanged DEF incidentVars
  <2>3. faults' \in 0 .. MaxFaults
    BY <1>3, FaultCounts DEF CreateFails
  <2> QED BY <1>0, <2>1, <2>2, <2>3, DoneEffect, CreatorInv
<1> QED BY <1>1, <1>2, <1>3

(* While a rule is between its key and its event, its window does not end. *)
LEMMA WindowEndsInv ==
    ASSUME AlertsTyped, WindowInv, NEW s \in Sources, WindowEnds(s)
    PROVE  AlertsTyped' /\ WindowInv'
<1>1. /\ evaluation[Loop].stage # "idle" => evaluation[Loop].source # s
      /\ suppressed' = suppressed \ {s} /\ fired' = [fired EXCEPT ![s] = 0]
      /\ UNCHANGED <<evaluation, faults, restarts>> /\ UNCHANGED incidentVars
  BY DEF WindowEnds
<1>2. /\ fired' \in [Sources -> Nat] /\ fired'[s] = 0
      /\ \A t \in Sources : t # s => fired'[t] = fired[t]
  BY <1>1, AlertTypes
<1>3. Evaluations' /\ suppressed' \subseteq Sources
  BY <1>1, AlertTypes DEF Evaluations, incidentVars
<1>4. AlertsTyped'
  BY <1>1, <1>2, <1>3, AlertTypes, IncidentsUnchanged, AlertsTypedNext
<1>5. \A t \in Rules : t \in Sources
  BY AlertTypes
<1>6. WindowInv'
  BY <1>1, <1>2, <1>5 DEF WindowInv
<1> QED BY <1>4, <1>6

\* A restart empties the suppressors and ends every evaluation.
LEMMA RestartInv ==
    ASSUME AlertsTyped, WindowInv, Restart
    PROVE  AlertsTyped' /\ WindowInv'
<1>1. /\ suppressed' = {} /\ fired' = [s \in Sources |-> 0]
      /\ evaluation' = [e \in Evaluators |-> NoEvaluation]
      /\ request' = [r \in Requests |-> NoRequest]
      /\ UNCHANGED <<incident, created, faults>> /\ restarts' \in 0 .. MaxRestarts
  BY AlertTypes DEF Restart
<1>2. /\ \A e \in Evaluators : Evaluation(e, NoEvaluation, created')
      /\ NoEvaluation.stage = "idle"
  BY <1>1, AlertTypes DEF Evaluation, NoEvaluation, Stages
<1>3. Evaluations'
  BY <1>1, <1>2 DEF Evaluations, Evaluators
<1>4. IncidentsTypeOK'
  <2>1. created \in Nat /\ IncidentsTypeOK
    BY AlertTypes
  <2>2. NoRequest \in [stage : {"idle", "checked", "written"}, id : 0 .. created, action : Actions]
    BY <2>1 DEF NoRequest, Actions
  <2> QED BY <1>1, <2>1, <2>2 DEF IncidentsTypeOK, NoRequest
<1>5. AlertsTyped'
  BY <1>1, <1>3, <1>4, AlertTypes, AlertsTypedNext
<1>6. evaluation'[Loop] = NoEvaluation /\ \A s \in Rules : fired'[s] = 0
  BY <1>1, AlertTypes
<1>7. WindowInv'
  BY <1>2, <1>6 DEF WindowInv
<1> QED BY <1>5, <1>7

\* Requests leave the evaluators alone.
LEMMA RequestsInv ==
    ASSUME AlertsTyped, WindowInv, [IncidentsNext]_incidentVars, UNCHANGED alertVars
    PROVE  AlertsTyped' /\ WindowInv'
<1>1. IncidentsTypeOK' /\ UNCHANGED <<suppressed, evaluation, fired, faults, restarts>>
  BY AlertTypes, TypeNext DEF alertVars
<1>2. created \in Nat /\ created' \in Nat /\ created <= created'
  <2>1. created' = created \/ created' = created + 1
    BY DEF IncidentsNext, RequestStep, CreateIncident, ArchiveIncident, DeleteIncident,
           CheckTransition, UpdateStatus, AddTimelineEntry, InsertIncident, incidentVars
  <2> QED BY <2>1, AlertTypes
<1>3. Evaluations'
  BY <1>1, <1>2, AlertTypes DEF Evaluations, Evaluation
<1>4. AlertsTyped'
  BY <1>1, <1>3, AlertTypes, AlertsTypedNext
<1>5. WindowInv'
  BY <1>1 DEF WindowInv
<1> QED BY <1>4, <1>5

\* Both invariants hold in every state.
LEMMA AlertsInv == Spec => [](AlertsTyped /\ WindowInv)
<1>1. Init => WindowInv
  <2> SUFFICES ASSUME Init PROVE WindowInv
    OBVIOUS
  <2>1. \A s \in Rules : fired[s] = 0
    BY AlertsAssumption DEF Init
  <2>2. evaluation[Loop].stage = "idle"
    BY DEF Init, Evaluators, NoEvaluation
  <2> QED BY <2>1, <2>2 DEF WindowInv
<1>2. ASSUME AlertsTyped, WindowInv, [Next]_vars PROVE AlertsTyped' /\ WindowInv'
  <2>1. CASE UNCHANGED vars
    BY <1>2, <2>1, RequestsInv DEF vars
  <2>2. ASSUME NEW e \in Evaluators, EvaluatorStep(e) PROVE AlertsTyped' /\ WindowInv'
    BY <1>2, <2>2, ExceedThresholdInv, InsertEventInv, FindOrCreateInv DEF EvaluatorStep
  <2> QED BY <1>2, <2>1, <2>2, MatchRuleInv, WindowEndsInv, RestartInv, RequestsInv DEF Next
<1> QED BY <1>1, <1>2, AlertsTypedInit, PTL DEF Spec

(***************************************************************************)
(* Suppressors, evaluations, incidents and requests stay well-formed, and  *)
(* the loop works on rules, reports on thresholds, for any numbers of      *)
(* rules, thresholds, reports and requests.                                *)
(***************************************************************************)
THEOREM AlertsTypeCorrect == Spec => []TypeOK
<1>1. AlertsTyped => TypeOK
  BY DEF AlertsTyped
<1> QED BY <1>1, AlertsInv, PTL

(***************************************************************************)
(* A rule fires at most once before its window ends (suppressor.go),       *)
(* although its event's insertion may fail or succeed unseen, beside any   *)
(* number of reports and requests, and over restarts.                      *)
(***************************************************************************)
THEOREM AlertsOncePerWindow == Spec => []OneAlertPerWindow
<1>1. WindowInv => OneAlertPerWindow
  BY DEF WindowInv, OneAlertPerWindow
<1> QED BY <1>1, AlertsInv, PTL


-----------------------------------------------------------------------------
(***************************************************************************)
(* The incidents of a source.  An evaluation that found none is still      *)
(* right when it opens one, provided nobody else works on its source       *)
(* (ReportsApart) and no request brings an incident back that has left its *)
(* source (CheckStillTrue: what a request has checked still holds).        *)
(***************************************************************************)
OneIncident == \A s \in Sources : \A i, j \in UnresolvedOf(s) : i = j

NothingToLink ==
    \A e \in Evaluators, s \in Sources :
        /\ evaluation[e].stage = "link" /\ evaluation[e].found = 0
        /\ evaluation[e].source = s
        => UnresolvedOf(s) = {}

SourceInv == OneIncident /\ NothingToLink

\* No two reports evaluate the same threshold at the same time.
ReportsApart ==
    \A d, e \in Reports :
        d # e /\ evaluation[d].stage # "idle" /\ evaluation[e].stage # "idle" =>
            evaluation[d].source # evaluation[e].source

\* Nobody has changed an incident between the check of a transition and its write.
CheckStillTrue ==
    \A r \in Requests :
        request[r].stage = "checked" =>
            /\ request[r].id \in DOMAIN incident
            /\ CanTransition(incident[request[r].id].status, request[r].action)

\* The statuses an incident creator looks for are the unresolved ones.
LEMMA UnresolvedAreCandidates ==
    ASSUME IncidentsTypeOK, NEW s PROVE UnresolvedOf(s) = Candidates(s)
<1>1. \A i \in DOMAIN incident : incident[i].status \in Statuses
  BY DEF IncidentsTypeOK, Rows
<1> QED BY <1>1 DEF UnresolvedOf, Candidates, LinkedStatuses, Statuses

\* The state machine leads from no resolved status to an unresolved one.
LEMMA ResolvedStays ==
    ASSUME NEW from \in Statuses, NEW to \in Statuses, CanTransition(from, to),
           from \in {"resolved", "closed"}
    PROVE  to \in {"resolved", "closed"}
  BY DEF CanTransition, Transitions, Statuses

\* No source gets an incident by rows going, or moving within the state machine.
LEMMA NoneAdded ==
    ASSUME DOMAIN incident' \subseteq DOMAIN incident,
           \A j \in DOMAIN incident' :
              /\ incident'[j].source = incident[j].source
              /\ incident[j].status \in {"resolved", "closed"} =>
                    incident'[j].status \in {"resolved", "closed"}
    PROVE  \A s : UnresolvedOf(s)' \subseteq UnresolvedOf(s)
  BY DEF UnresolvedOf

\* The statements that write a row keep its source.
LEMMA SourcesStay ==
    ASSUME IncidentsTypeOK,
           \/ \E i \in DOMAIN incident, to \in Statuses : SetStatus(i, to)
           \/ \E r \in Requests : AddTimelineEntry(r)
    PROVE  \A j \in DOMAIN incident : incident'[j].source = incident[j].source
<1>1. \A j \in DOMAIN incident : incident[j] \in Rows
  BY DEF IncidentsTypeOK
<1>2. ASSUME NEW i \in DOMAIN incident, NEW to \in Statuses, SetStatus(i, to)
      PROVE  \A j \in DOMAIN incident : incident'[j].source = incident[j].source
  <2> DEFINE row == [incident[i] EXCEPT !.status = to, !.was = @ \cup ({to} \cap Watched)]
  <2>1. row.source = incident[i].source
    BY <1>1 DEF Rows
  <2>2. incident' = [incident EXCEPT ![i] = row]
    BY <1>2 DEF SetStatus
  <2> HIDE DEF row
  <2> QED BY <2>1, <2>2
<1>3. ASSUME NEW r \in Requests, AddTimelineEntry(r)
      PROVE  \A j \in DOMAIN incident : incident'[j].source = incident[j].source
  <2> DEFINE i == request[r].id
             row == [incident[i] EXCEPT !.timeline = @ \cup ({request[r].action} \cap Watched)]
  <2>1. i \in DOMAIN incident => row.source = incident[i].source
    BY <1>1 DEF Rows
  <2>2. \/ i \in DOMAIN incident /\ incident' = [incident EXCEPT ![i] = row]
        \/ incident' = incident
    BY <1>3 DEF AddTimelineEntry
  <2> HIDE DEF row, i
  <2> QED BY <2>1, <2>2
<1> QED BY <1>2, <1>3

(* No source gets an incident by a request whose check still holds. *)
LEMMA RequestsAddNone ==
    ASSUME IncidentsTypeOK, CheckStillTrue, IncidentsNext
    PROVE  \A s \in Sources : UnresolvedOf(s)' \subseteq UnresolvedOf(s)
<1>1. PICK r \in Requests : RequestStep(r)
  BY DEF IncidentsNext
<1>2. \A j \in DOMAIN incident : incident[j] \in Rows /\ incident[j].status \in Statuses
  BY DEF IncidentsTypeOK, Rows
<1>3. CASE CreateIncident(r)
  <2>1. /\ created' = created + 1
        /\ incident' = [i \in DOMAIN incident \cup {created'} |->
               IF i = created'
               THEN [status |-> "open", source |-> Manual,
                     was |-> {"open"} \cap Watched, timeline |-> {} \cap Watched]
               ELSE incident[i]]
    BY <1>3 DEF CreateIncident, InsertIncident
  <2>2. created' \notin DOMAIN incident
    BY <2>1, IncidentsAssumption DEF IncidentsTypeOK
  <2>3. /\ DOMAIN incident' = DOMAIN incident \cup {created'}
        /\ incident'[created'].source = Manual
        /\ \A j \in DOMAIN incident : incident'[j] = incident[j]
    BY <2>1, <2>2
  <2> QED BY <2>3, IncidentsAssumption DEF UnresolvedOf
<1>4. ASSUME NEW i \in DOMAIN incident, ArchiveIncident(r, i)
      PROVE  \A s \in Sources : UnresolvedOf(s)' \subseteq UnresolvedOf(s)
  <2>1. SetStatus(i, "closed") /\ "closed" \in Statuses
    BY <1>4 DEF ArchiveIncident, Statuses
  <2>2. /\ DOMAIN incident' = DOMAIN incident
        /\ \A j \in DOMAIN incident :
              incident'[j].status = IF j = i THEN "closed" ELSE incident[j].status
    BY <2>1, SetStatusEffect
  <2> QED BY <2>1, <2>2, SourcesStay, NoneAdded
<1>5. ASSUME NEW i \in DOMAIN incident, DeleteIncident(r, i)
      PROVE  \A s \in Sources : UnresolvedOf(s)' \subseteq UnresolvedOf(s)
  <2>1. incident' = [j \in DOMAIN incident \ {i} |-> incident[j]]
    BY <1>5 DEF DeleteIncident
  <2>2. DOMAIN incident' \subseteq DOMAIN incident /\ \A j \in DOMAIN incident' : incident'[j] = incident[j]
    BY <2>1
  <2> QED BY <2>2, NoneAdded
<1>6. ASSUME NEW i \in DOMAIN incident, NEW to \in Statuses, CheckTransition(r, i, to)
      PROVE  \A s \in Sources : UnresolvedOf(s)' \subseteq UnresolvedOf(s)
  BY <1>6 DEF CheckTransition, UnresolvedOf
<1>7. CASE UpdateStatus(r)
  <2> DEFINE i == request[r].id
             to == request[r].action
  <2>1. i \in DOMAIN incident /\ CanTransition(incident[i].status, to)
    BY <1>7 DEF UpdateStatus, CheckStillTrue
  <2>2. to \in Statuses /\ incident[i].status \in Statuses
    BY <1>2, <2>1 DEF IncidentsTypeOK, CanTransition, Transitions, Statuses
  <2>3. SetStatus(i, to)
    BY <1>7, <2>1 DEF UpdateStatus
  <2>4. /\ DOMAIN incident' = DOMAIN incident
        /\ \A j \in DOMAIN incident :
              incident'[j].status = IF j = i THEN to ELSE incident[j].status
    BY <2>1, <2>2, <2>3, SetStatusEffect
  <2>5. incident[i].status \in {"resolved", "closed"} => to \in {"resolved", "closed"}
    BY <2>1, <2>2, ResolvedStays
  <2>6. \A j \in DOMAIN incident : incident'[j].source = incident[j].source
    BY <2>1, <2>2, <2>3, SourcesStay
  <2> HIDE DEF i, to
  <2> QED BY <2>4, <2>5, <2>6, NoneAdded
<1>8. CASE AddTimelineEntry(r)
  <2>1. /\ DOMAIN incident' = DOMAIN incident
        /\ \A j \in DOMAIN incident : incident'[j].status = incident[j].status
    BY <1>8, EntryEffect
  <2> QED BY <1>8, <2>1, SourcesStay, NoneAdded
<1> QED BY <1>1, <1>3, <1>4, <1>5, <1>6, <1>7, <1>8 DEF RequestStep

\* No evaluation moves by a request.
LEMMA RequestsSourceInv ==
    ASSUME IncidentsTypeOK, CheckStillTrue, SourceInv, IncidentsNext, UNCHANGED alertVars
    PROVE  SourceInv'
<1>1. \A s \in Sources : UnresolvedOf(s)' \subseteq UnresolvedOf(s)
  BY RequestsAddNone
<1>2. OneIncident'
  BY <1>1 DEF SourceInv, OneIncident
<1>3. NothingToLink'
  BY <1>1 DEF SourceInv, NothingToLink, alertVars
<1> QED BY <1>2, <1>3 DEF SourceInv


\* An evaluation that moves while the incidents stay, having found what there is to link to.
LEMMA MovesInv ==
    ASSUME Evaluations, SourceInv, UNCHANGED incidentVars, NEW e \in Evaluators, NEW x,
           evaluation' = [evaluation EXCEPT ![e] = x],
           \A s \in Sources :
              x.stage = "link" /\ x.found = 0 /\ x.source = s => UnresolvedOf(s) = {}
    PROVE  SourceInv'
<1>1. \A d \in Evaluators : evaluation'[d] = IF d = e THEN x ELSE evaluation[d]
  BY DEF Evaluations
<1>2. \A s : UnresolvedOf(s)' = UnresolvedOf(s)
  BY DEF incidentVars, UnresolvedOf
<1>3. OneIncident'
  BY <1>2 DEF SourceInv, OneIncident
<1>4. NothingToLink'
  BY <1>1, <1>2 DEF SourceInv, NothingToLink
<1> QED BY <1>3, <1>4 DEF SourceInv

(* The creator opens an incident only for a source that has none left, and no *)
(* other evaluation of that source is on its way.                              *)
LEMMA OpensInv ==
    ASSUME ReportsApart, AlertsTyped, SourceInv, NEW e \in Evaluators,
           evaluation[e].stage = "link", evaluation[e].found = 0,
           InsertIncident(evaluation[e].source, {"created"}),
           evaluation' = [evaluation EXCEPT ![e] = NoEvaluation]
    PROVE  SourceInv'
<1>0. PICK s \in Sources : s = evaluation[e].source
  BY AlertTypes
<1> DEFINE row == [status |-> "open", source |-> s, was |-> {"open"} \cap Watched,
                   timeline |-> {"created"} \cap Watched]
<1>1. s \in SourcesOf(e) /\ UnresolvedOf(s) = {}
  BY <1>0, AlertTypes DEF SourceInv, NothingToLink
<1>2. /\ created' = created + 1
      /\ incident' = [i \in DOMAIN incident \cup {created'} |->
             IF i = created' THEN row ELSE incident[i]]
  BY <1>0 DEF InsertIncident
<1>3. created' \notin DOMAIN incident
  BY <1>2, AlertTypes, IncidentsAssumption DEF IncidentsTypeOK
<1>4. row.status \notin {"resolved", "closed"} /\ row.source = s
  OBVIOUS
<1>5. \A d \in Evaluators : evaluation'[d] = IF d = e THEN NoEvaluation ELSE evaluation[d]
  BY AlertTypes DEF Evaluations
<1>6. \A d \in Evaluators \ {e} : evaluation[d].stage # "idle" => evaluation[d].source # s
  <2>1. e # Loop => e \in Reports
    BY DEF Evaluators
  <2>2. \A d \in Evaluators \ {e} :
           (d \in Reports /\ e \in Reports) \/ SourcesOf(d) \cap SourcesOf(e) = {}
    BY <2>1, AlertsAssumption DEF Evaluators, SourcesOf
  <2>3. \A d \in Evaluators : evaluation[d].stage # "idle" => evaluation[d].source \in SourcesOf(d)
    BY AlertTypes
  <2> QED BY <1>0, <1>1, <2>2, <2>3 DEF ReportsApart
<1> HIDE DEF row
<1>7. /\ DOMAIN incident' = DOMAIN incident \cup {created'} /\ incident'[created'] = row
      /\ \A j \in DOMAIN incident : incident'[j] = incident[j]
  BY <1>2, <1>3
<1>8. /\ UnresolvedOf(s)' = UnresolvedOf(s) \cup {created'}
      /\ \A t : t # s => UnresolvedOf(t)' = UnresolvedOf(t)
  <2>1. \A t : UnresolvedOf(t)' = {j \in DOMAIN incident' :
            incident'[j].source = t /\ incident'[j].status \notin {"resolved", "closed"}}
    BY DEF UnresolvedOf
  <2>2. \A t : UnresolvedOf(t) = {j \in DOMAIN incident :
            incident[j].source = t /\ incident[j].status \notin {"resolved", "closed"}}
    BY DEF UnresolvedOf
  <2> QED BY <1>4, <1>7, <2>1, <2>2
<1>9. OneIncident'
  BY <1>1, <1>8 DEF SourceInv, OneIncident
<1>10. NothingToLink'
  <2>1. \A d \in Evaluators, t \in Sources :
           evaluation'[d].stage = "link" /\ evaluation'[d].source = t =>
              d # e /\ t # s /\ evaluation'[d] = evaluation[d]
    BY <1>5, <1>6 DEF NoEvaluation
  <2> QED BY <1>8, <2>1 DEF SourceInv, NothingToLink
<1> QED BY <1>9, <1>10 DEF SourceInv

(* An evaluation, whatever its next step, leaves its source with one incident. *)
LEMMA EvaluatorSourceInv ==
    ASSUME ReportsApart, AlertsTyped, SourceInv, NEW e \in Evaluators, EvaluatorStep(e)
    PROVE  SourceInv'
<1>1. Evaluations /\ NoEvaluation.stage # "link"
  BY AlertTypes DEF NoEvaluation
<1>2. ASSUME NEW s \in Sources, ExceedThreshold(e, s) PROVE SourceInv'
  <2> DEFINE x == [stage |-> "insert", source |-> s, found |-> 0]
  <2>1. evaluation' = [evaluation EXCEPT ![e] = x] /\ UNCHANGED incidentVars
    BY <1>2 DEF ExceedThreshold, Evaluate
  <2>2. x.stage # "link"
    OBVIOUS
  <2> HIDE DEF x
  <2> QED BY <1>1, <2>1, <2>2, MovesInv
<1>3. CASE InsertEvent(e)
  <2>1. PICK st \in {"idle", "find"} :
           evaluation' = [evaluation EXCEPT
               ![e] = [stage |-> st, source |-> evaluation[e].source, found |-> 0]]
    BY <1>3 DEF InsertEvent, Evaluate
  <2> DEFINE x == [stage |-> st, source |-> evaluation[e].source, found |-> 0]
  <2>2. x.stage # "link" /\ UNCHANGED incidentVars
    BY <1>3 DEF InsertEvent
  <2> HIDE DEF x
  <2> QED BY <1>1, <2>1, <2>2, MovesInv DEF x
<1>4. CASE InsertFails(e)
  BY <1>1, <1>4, MovesInv DEF InsertFails
<1>5. CASE FindIncident(e)
  <2> DEFINE s == evaluation[e].source
             x == [stage |-> "link", source |-> s, found |-> FindOpenIncident(s)]
  <2>1. /\ evaluation[e].stage = "find" /\ evaluation' = [evaluation EXCEPT ![e] = x]
        /\ UNCHANGED incidentVars
    BY <1>5 DEF FindIncident, Evaluate
  <2>2. s \in Sources
    BY <2>1, AlertTypes
  <2>3. FindOpenIncident(s) = 0 => UnresolvedOf(s) = {}
    BY <2>2, AlertTypes, FoundIncident, UnresolvedAreCandidates
  <2>4. \A t \in Sources :
           x.stage = "link" /\ x.found = 0 /\ x.source = t => UnresolvedOf(t) = {}
    BY <2>3
  <2> HIDE DEF x
  <2> QED BY <1>1, <2>1, <2>4, MovesInv
<1>6. CASE LinkOrCreate(e)
  <2>1. evaluation[e].stage = "link" /\ evaluation' = [evaluation EXCEPT ![e] = NoEvaluation]
    BY <1>6 DEF LinkOrCreate, Done
  <2>2. CASE UNCHANGED incidentVars
    BY <1>1, <2>1, <2>2, MovesInv
  <2>3. CASE evaluation[e].found = 0 /\ InsertIncident(evaluation[e].source, {"created"})
    BY <2>1, <2>3, OpensInv
  <2> QED BY <1>6, <2>2, <2>3 DEF LinkOrCreate
<1>7. CASE CreateFails(e)
  BY <1>1, <1>7, MovesInv DEF CreateFails, Done
<1> QED BY <1>2, <1>3, <1>4, <1>5, <1>6, <1>7 DEF EvaluatorStep

(* The rule taken up, the end of a window and a restart touch no incident. *)
LEMMA LoopSourceInv ==
    ASSUME AlertsTyped, SourceInv,
           (\E s \in Sources : MatchRule(s) \/ WindowEnds(s)) \/ Restart \/ UNCHANGED vars
    PROVE  SourceInv'
<1>1. ASSUME NEW s \in Sources, MatchRule(s) PROVE SourceInv'
  <2> DEFINE x == [stage |-> "insert", source |-> s, found |-> 0]
  <2>1. evaluation' = [evaluation EXCEPT ![Loop] = x] /\ UNCHANGED incidentVars
    BY <1>1 DEF MatchRule, Evaluate
  <2>2. x.stage # "link" /\ Evaluations /\ Loop \in Evaluators
    BY AlertTypes
  <2> HIDE DEF x
  <2> QED BY <2>1, <2>2, MovesInv
<1>2. CASE UNCHANGED <<incident, evaluation>>
  <2>1. \A s : UnresolvedOf(s)' = UnresolvedOf(s)
    BY <1>2 DEF UnresolvedOf
  <2> QED BY <1>2, <2>1 DEF SourceInv, OneIncident, NothingToLink
<1>3. CASE Restart
  <2>1. /\ \A e \in Evaluators : evaluation'[e] = NoEvaluation
        /\ \A s : UnresolvedOf(s)' = UnresolvedOf(s)
    BY <1>3 DEF Restart, UnresolvedOf
  <2>2. OneIncident'
    BY <2>1 DEF SourceInv, OneIncident
  <2>3. NothingToLink'
    BY <2>1 DEF NothingToLink, NoEvaluation
  <2> QED BY <2>2, <2>3 DEF SourceInv
<1> QED BY <1>1, <1>2, <1>3 DEF WindowEnds, vars, incidentVars, alertVars

(***************************************************************************)
(* A source has at most one unresolved incident (incident_creator.go): an  *)
(* event is linked to it instead of opening a duplicate, as long as no two *)
(* reports evaluate the same threshold at once and every transition that a *)
(* request has checked is still allowed when it is written.  Whatever else *)
(* happens between the creator's search and its insert does no harm: other *)
(* evaluations, requests that create, resolve, close or delete incidents,  *)
(* failed statements and restarts.                                         *)
(***************************************************************************)
THEOREM OneIncidentPerSource ==
    Spec /\ [](ReportsApart /\ CheckStillTrue) => []OneUnresolvedIncident
<1>1. Init => SourceInv
  <2> SUFFICES ASSUME Init PROVE SourceInv
    OBVIOUS
  <2>1. \A s : UnresolvedOf(s) = {}
    BY DEF Init, IncidentsInit, UnresolvedOf
  <2> QED BY <2>1 DEF SourceInv, OneIncident, NothingToLink
<1>2. ASSUME AlertsTyped, ReportsApart, CheckStillTrue, SourceInv, [Next]_vars PROVE SourceInv'
  <2>1. IncidentsTypeOK
    BY <1>2, AlertTypes
  <2> QED BY <1>2, <2>1, LoopSourceInv, EvaluatorSourceInv, RequestsSourceInv DEF Next
<1>3. ASSUME SourceInv PROVE OneUnresolvedIncident
  <2> SUFFICES ASSUME NEW s \in Sources PROVE Cardinality(UnresolvedOf(s)) <= 1
    BY DEF OneUnresolvedIncident
  <2>1. CASE UnresolvedOf(s) = {}
    BY <2>1, FS_EmptySet
  <2>2. ASSUME NEW i \in UnresolvedOf(s) PROVE Cardinality(UnresolvedOf(s)) <= 1
    <3>1. UnresolvedOf(s) = {i}
      BY <1>3, <2>2 DEF SourceInv, OneIncident
    <3> QED BY <3>1, FS_Singleton
  <2> QED BY <2>1, <2>2
<1> QED BY <1>1, <1>2, <1>3, AlertsInv, PTL DEF Spec

-----------------------------------------------------------------------------
(***************************************************************************)
(* One report and one request at a time, beside the loop.  Alone, a        *)
(* request finds what it has checked as it was, or in another status that  *)
(* still allows the transition: evaluators only add incidents.             *)
(***************************************************************************)
OneAtATime == (\A d, e \in Reports : d = e) /\ (\A q, r \in Requests : q = r)

\* A check stays true while rows are added.
LEMMA CheckOutlivesNewRows ==
    ASSUME CheckStillTrue, UNCHANGED request, DOMAIN incident \subseteq DOMAIN incident',
           \A j \in DOMAIN incident : incident'[j] = incident[j]
    PROVE  CheckStillTrue'
  BY DEF CheckStillTrue, CanTransition

\* A lone request that moves has not checked before.
LEMMA LoneRequest ==
    ASSUME OneAtATime, IncidentsTypeOK, CheckStillTrue, IncidentsNext
    PROVE  CheckStillTrue'
<1>1. PICK r \in Requests : RequestStep(r)
  BY DEF IncidentsNext
<1>2. \A q \in Requests : q = r
  BY DEF OneAtATime
<1>3. ASSUME NEW x, request' = [request EXCEPT ![r] = x] PROVE request'[r] = x
  BY <1>3, GotoEffect
<1>4. ASSUME NEW i \in DOMAIN incident, NEW to \in Statuses, CheckTransition(r, i, to)
      PROVE  CheckStillTrue'
  <2>1. CanTransition(incident[i].status, to) /\ UNCHANGED <<incident, created>>
    BY <1>4 DEF CheckTransition
  <2>2. request'[r] = [stage |-> "checked", id |-> i, action |-> to]
    BY <1>3, <1>4 DEF CheckTransition, Goto
  <2> QED BY <1>2, <2>1, <2>2 DEF CheckStillTrue, CanTransition
<1>5. ASSUME request'[r].stage # "checked" PROVE CheckStillTrue'
  BY <1>2, <1>5 DEF CheckStillTrue
<1>6. CASE \/ CreateIncident(r) \/ UpdateStatus(r) \/ AddTimelineEntry(r)
           \/ \E i \in DOMAIN incident : ArchiveIncident(r, i) \/ DeleteIncident(r, i)
  <2>1. \/ request'[r].stage = "idle"
        \/ \E i, action : Goto(r, "written", i, action)
        \/ Finish(r)
    BY <1>6 DEF CreateIncident, UpdateStatus, AddTimelineEntry, ArchiveIncident, DeleteIncident
  <2>2. request'[r].stage \in {"idle", "written"}
    BY <1>3, <2>1 DEF Goto, Finish, NoRequest
  <2> QED BY <1>5, <2>2
<1> QED BY <1>1, <1>4, <1>6 DEF RequestStep

\* Evaluators add rows and change none.
LEMMA EvaluatorsAddRows ==
    ASSUME IncidentsTypeOK, NEW e \in Evaluators, EvaluatorStep(e)
    PROVE  /\ UNCHANGED request /\ DOMAIN incident \subseteq DOMAIN incident'
           /\ \A j \in DOMAIN incident : incident'[j] = incident[j]
<1>1. CASE UNCHANGED incidentVars
  BY <1>1 DEF incidentVars
<1>2. CASE evaluation[e].stage = "link" /\ LinkOrCreate(e)
  <2> DEFINE row == [status |-> "open", source |-> evaluation[e].source,
                     was |-> {"open"} \cap Watched, timeline |-> {"created"} \cap Watched]
  <2>1. CASE /\ InsertIncident(evaluation[e].source, {"created"}) /\ UNCHANGED request
    <3>1. /\ created' = created + 1
          /\ incident' = [i \in DOMAIN incident \cup {created'} |->
                 IF i = created' THEN row ELSE incident[i]]
      BY <2>1 DEF InsertIncident
    <3>2. created' \notin DOMAIN incident
      BY <3>1, IncidentsAssumption DEF IncidentsTypeOK
    <3> HIDE DEF row
    <3> QED BY <2>1, <3>1, <3>2
  <2> QED BY <1>1, <1>2, <2>1 DEF LinkOrCreate
<1> QED BY <1>1, <1>2 DEF EvaluatorStep, ExceedThreshold, InsertEvent, InsertFails, FindIncident,
        CreateFails, LinkOrCreate

(***************************************************************************)
(* With one report and one request at a time, as the run has it, the two   *)
(* conditions hold, and with them the promise: the loop, a report and a    *)
(* request may still interleave in every way.                              *)
(***************************************************************************)
THEOREM OneIncidentOneAtATime ==
    ASSUME OneAtATime PROVE Spec => []OneUnresolvedIncident
<1>1. ReportsApart
  BY DEF OneAtATime, ReportsApart
<1>2. Init => CheckStillTrue
  BY DEF Init, IncidentsInit, CheckStillTrue, NoRequest
<1>3. ASSUME AlertsTyped, CheckStillTrue, [Next]_vars PROVE CheckStillTrue'
  <2>1. IncidentsTypeOK
    BY <1>3, AlertTypes
  <2>2. ASSUME UNCHANGED <<incident, request>> PROVE CheckStillTrue'
    BY <1>3, <2>2, CheckOutlivesNewRows
  <2>3. CASE Restart
    BY <2>3 DEF Restart, CheckStillTrue, NoRequest
  <2>4. ASSUME NEW e \in Evaluators, EvaluatorStep(e) PROVE CheckStillTrue'
    BY <1>3, <2>1, <2>4, EvaluatorsAddRows, CheckOutlivesNewRows
  <2>5. ASSUME NEW s \in Sources, MatchRule(s) \/ WindowEnds(s) PROVE CheckStillTrue'
    BY <2>2, <2>5 DEF MatchRule, WindowEnds, incidentVars
  <2>6. CASE IncidentsNext
    BY <1>3, <2>1, <2>6, LoneRequest
  <2> QED BY <1>3, <2>2, <2>3, <2>4, <2>5, <2>6 DEF Next, vars, incidentVars
<1> QED BY <1>1, <1>2, <1>3, AlertsInv, OneIncidentPerSource, PTL DEF Spec
=============================================================================
