---------------------------- MODULE IncidentPages ----------------------------
(***************************************************************************)
(* The incident pages of the console, pages/incidents/: the list with its  *)
(* batches, the detail page, the timeline, the reports, and what           *)
(* incidentAuthorization.ts lets a user do on them.                        *)
(*                                                                         *)
(* The counters over the list and the names of assignees are left out.     *)
(***************************************************************************)
EXTENDS ConsolePage

IncidentRights == {"read", "create", "update", "assign", "close", "archive"}

\* The server's answer to the mutations of incident.ts, in its page's words.
IncidentEffect(kind, s) ==
    CASE kind = "acknowledge" /\ s = "alerted" -> "acknowledged"
      [] kind = "investigate" /\ s \in {"alerted", "acknowledged"} -> "analyzing"
      [] kind = "resolve" /\ s = "analyzing" -> "resolved"
      [] kind = "archive" -> "archived"
      [] kind = "delete" -> "gone"
      [] kind = "update" -> s
      [] OTHER -> "refused"

----------------------------------------------------------------------------
(* IncidentList.  Loads have no sequence number, and only batches and       *)
(* changes of the view clear the selection.                                 *)

LoadIncidents(w, view) == Load(w, "list", view)

CloseKind(w, kind) == IF w.ui.dialog # None /\ w.ui.dialog.kind = kind THEN Close(w) ELSE w

\* refreshCurrentPage: when the rows of a later page were deleted, the page
\* changes, and an effect loads it; otherwise the view of the click is loaded.
RefreshIncidents(c, w) ==
    IF c.then = "lastOfPage"
    THEN LoadIncidents(CloseKind(Idle([w EXCEPT !.ui.view = FirstView], c.flag), "delete"), FirstView)
    ELSE Await(w, "list", c.of, c.flag, c.then)

\* runBatchRequest: the selection goes, the list is read again, and then the
\* handler closes its dialog.
IncidentListAnswer(c, w) ==
    CASE c.kind = "read" -> CloseKind(Idle(Answered(c, w), c.flag), c.then)
      [] c.kind = "create" -> IF c.ok THEN Leave(w) ELSE w
      [] OTHER -> RefreshIncidents(c, [w EXCEPT !.ui.sel = {}])

IncidentListMount(w) == LoadIncidents(w, FirstView)

OnIncidentList == page = "IncidentList" /\ ~ui.hidden

ChangeIncidentView(v) ==
    /\ OnIncidentList /\ ui.dialog = None /\ v # ui.view
    /\ Become({LoadIncidents([World EXCEPT !.ui.view = v, !.ui.sel = {}], v)})

ReloadIncidents ==
    /\ OnIncidentList /\ ui.dialog = None
    /\ Become({LoadIncidents(World, ui.view)})

SelectIncidents(rows) ==
    /\ OnIncidentList /\ ui.dialog = None /\ rows \subseteq Shown \cup ui.sel /\ rows # ui.sel
    /\ Become({[World EXCEPT !.ui.sel = rows]})

CreateIncidentRow ==
    /\ OnIncidentList /\ ui.dialog = None /\ "create" \in grants
    /\ Become({Write(World, "create", {}, "none", "none")})

RightFor(kind) ==
    CASE kind = "assign" -> "assign" [] kind = "archive" -> "archive"
      [] kind = "delete" -> "close" [] OTHER -> "update"

\* openAssignModal, openArchiveModal, confirmBatchTransition and the delete
\* question, for one row or for the selection: the targets are kept.
AskForIncidents(kind, rows) ==
    /\ OnIncidentList /\ ui.dialog = None /\ RightFor(kind) \in grants
    /\ \/ rows = ui.sel /\ rows # {} /\ "submit" \notin ui.busy
       \/ kind \in {"assign", "delete"} /\ \E r \in Shown : rows = {r}
    /\ Become({Open(World, kind, rows)})

CancelIncidents == OnIncidentList /\ ui.dialog # None /\ Become({Close(World)})

\* handleConfirmAssign, handleConfirmArchive, handleDeleteIncidents and the
\* answer to confirmBatchTransition: one request for each target.
ConfirmIncidents ==
    /\ OnIncidentList /\ ui.dialog # None /\ "submit" \notin ui.busy
    /\ LET kind == ui.dialog.kind
           rows == ui.dialog.row
           emptied == kind = "delete" /\ ui.view # FirstView /\ Cardinality(rows) >= Cardinality(Shown)
       IN  Become({Write(World, IF kind = "assign" THEN "update" ELSE kind, rows, "submit",
                         IF emptied THEN "lastOfPage" ELSE kind)})

IncidentListNext ==
    \/ \E v \in View : ChangeIncidentView(v)
    \/ ReloadIncidents \/ CreateIncidentRow \/ CancelIncidents \/ ConfirmIncidents
    \/ \E rows \in SUBSET Row : SelectIncidents(rows)
    \/ \E rows \in SUBSET Row, kind \in {"assign", "acknowledge", "investigate", "resolve", "archive", "delete"} :
           AskForIncidents(kind, rows)

----------------------------------------------------------------------------
(* IncidentDetail.  The page shows one incident; the list panel is the      *)
(* incident, the side panel its timeline.                                   *)

Subject == CHOOSE r \in Listed[FirstView] : TRUE

LoadDetail(w) == Load(w, "list", FirstView)
LoadTimeline(w) == Load(w, "side", Subject)

Known(w) == Subject \in RowsOf(w.ui.list)

\* The incident is set, or taken away, which runs the effect on it; a handler
\* that reloads both goes on to the timeline.
DetailAnswered(c, w) ==
    LET next == Answered([c EXCEPT !.ok = c.ok /\ c.at.status[Subject] # "gone"], w)
        effect == IF Known(next) THEN LoadTimeline(next)
                  ELSE [next EXCEPT !.ui.side.loading = FALSE]
    IN  CASE c.then = "transition" -> Await(effect, "side", Subject, c.flag, "none")
          [] OTHER -> Idle(effect, c.flag)

DetailChanged(c, w) ==
    CASE ~c.ok -> Idle(w, "act")
      [] c.ok /\ c.kind = "update" -> Await(Close(w), "list", FirstView, "act", "none")
      [] c.ok /\ c.kind = "archive" -> Await(Close(w), "list", FirstView, "act", "transition")
      [] OTHER -> Await(w, "list", FirstView, "act", "transition")

IncidentDetailAnswer(c, w) ==
    CASE c.kind # "read" -> DetailChanged(c, w)
      [] c.kind = "read" /\ c.panel = "list" -> DetailAnswered(c, w)
      [] OTHER -> Idle(Answered(c, w), c.flag)

IncidentDetailMount(w) == LoadDetail(w)

\* The early returns: a spinner while loading, then an error without retry.
OnIncidentDetail ==
    page = "IncidentDetail" /\ ~ui.list.loading /\ Subject \in Shown

RefreshDetail ==
    /\ OnIncidentDetail /\ ui.dialog = None
    /\ Become({LoadTimeline(LoadDetail(World))})

\* The button of the incident's status.
TransitionIncident(kind) ==
    /\ OnIncidentDetail /\ ui.dialog = None /\ "act" \notin ui.busy /\ "update" \in grants
    /\ <<kind, StatusOf(Subject)>> \in
           {<<"acknowledge", "alerted">>, <<"investigate", "acknowledged">>, <<"resolve", "analyzing">>}
    /\ Become({Write(World, kind, {Subject}, "act", "none")})

\* openAnalysisEditor and the archive button.
OpenDetailDialog(kind) ==
    /\ OnIncidentDetail /\ ui.dialog = None
    /\ \/ kind = "update" /\ "update" \in grants
       \/ kind = "archive" /\ "archive" \in grants /\ "act" \notin ui.busy /\ StatusOf(Subject) = "resolved"
    /\ Become({Open(World, kind, Subject)})

CloseDetailDialog == OnIncidentDetail /\ ui.dialog # None /\ Become({Close(World)})

\* handleSaveAnalysis, handleArchive.
ConfirmDetailDialog ==
    /\ OnIncidentDetail /\ ui.dialog # None /\ "act" \notin ui.busy
    /\ Become({Write(World, ui.dialog.kind, {Subject}, "act", "none")})

IncidentDetailNext ==
    \/ RefreshDetail \/ CloseDetailDialog \/ ConfirmDetailDialog
    \/ \E kind \in {"acknowledge", "investigate", "resolve"} : TransitionIncident(kind)
    \/ \E kind \in {"update", "archive"} : OpenDetailDialog(kind)

----------------------------------------------------------------------------
(* IncidentTimeline.  The incident that is selected is kept in held.        *)

LoadChosenTimeline(w) ==
    IF w.ui.held = None
    THEN [w EXCEPT !.ui.side.of = None, !.ui.side.shown = None, !.ui.side.loading = FALSE]
    ELSE Load(w, "side", w.ui.held)

IncidentTimelineAnswer(c, w) == Answered(c, w)
IncidentTimelineMount(w) == LoadChosenTimeline(Load(w, "list", FirstView))

ChooseIncident(r) ==
    /\ page = "IncidentTimeline" /\ r \in Shown \cup {None} /\ r # ui.held
    /\ Become({LoadChosenTimeline([World EXCEPT !.ui.held = r])})

RefreshTimeline ==
    /\ page = "IncidentTimeline"
    /\ Become({LoadChosenTimeline(Load(World, "list", FirstView))})

IncidentTimelineNext == RefreshTimeline \/ \E r \in Row \cup {None} : ChooseIncident(r)

----------------------------------------------------------------------------
(* The reports: root causes, SLA and the archive with its exports.          *)

LoadAnalysisRows(w) == Load(w, "list", w.ui.view)
LoadArchivedRows(w) == Load(w, "list", w.ui.view)

\* Promise.all: the rows and the summary come together or not at all.
LoadSlaRows(w) == Load(w, "list", w.ui.view)

LoadReport(w) ==
    CASE page = "IncidentAnalysis" -> LoadAnalysisRows(w)
      [] page = "IncidentSLA" -> LoadSlaRows(w)
      [] page = "IncidentArchive" -> LoadArchivedRows(w)

\* handleDownloadMarkdown: exportingKey names one row, and the end of an older
\* export does not clear the key of a newer one.
ExportAnswered(c, w) == IF w.ui.busy = c.rows THEN [w EXCEPT !.ui.busy = {}] ELSE w

IncidentReportAnswer(c, w) == IF c.kind = "export" THEN ExportAnswered(c, w) ELSE Answered(c, w)

ChangeReportView(v) ==
    /\ page \in {"IncidentAnalysis", "IncidentSLA", "IncidentArchive"} /\ v # ui.view
    /\ Become({LoadReport([World EXCEPT !.ui.view = v])})

ReloadReport ==
    /\ page \in {"IncidentAnalysis", "IncidentSLA", "IncidentArchive"}
    /\ Become({LoadReport(World)})

ExportIncident(r) ==
    /\ page = "IncidentArchive" /\ r \in Shown /\ r \notin ui.busy
    /\ LET w == Write(World, "export", {r}, "none", "none")
       IN  Become({[w EXCEPT !.ui.busy = {r}]})

IncidentReportsNext ==
    ReloadReport \/ (\E v \in View : ChangeReportView(v)) \/ (\E r \in Row : ExportIncident(r))

\* IncidentArchiveReport: one load; autoPrint opens the print dialog once.
LoadArchiveReport(w) == Load(w, "list", FirstView)

ArchiveReportAnswer(c, w) ==
    LET next == AnsweredKeeping([c EXCEPT !.ok = c.ok /\ c.at.status[Subject] # "gone"], w)
    IN  IF Known(next) /\ next.ui.held = "autoPrint" /\ c.at.status[Subject] = "archived"
        THEN [next EXCEPT !.ui.held = "printed"] ELSE next
=============================================================================
