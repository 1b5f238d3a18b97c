--------------------------- MODULE OperationsPages ---------------------------
(***************************************************************************)
(* pages/Dashboard.tsx, pages/storage/ (BackupRecovery.tsx,                *)
(* IndexManagement.tsx, LifecyclePolicy.tsx, CapacityMonitoring.tsx),      *)
(* pages/reports/ (DownloadRecords.tsx, ReportManagement.tsx),             *)
(* pages/performance/ (HealthCheck.tsx, PerformanceMonitoring.tsx) and     *)
(* pages/integration/WebhookManagement.tsx.                                *)
(*                                                                         *)
(* Reads a load makes side by side count as one call.                      *)
(***************************************************************************)
EXTENDS AlertPages, SearchPages

\* A state that names one row: the next one takes its place, and any answer
\* clears it.
Mark(w, r) == [w EXCEPT !.ui.busy = (@ \ Row) \cup {r}]
Unmark(w) == [w EXCEPT !.ui.busy = @ \ Row]

\* The question about a deletion has a state apart from the form's.
CloseQuestion(w) == IF w.ui.dialog # None /\ w.ui.dialog.kind = "delete" THEN Close(w) ELSE w

----------------------------------------------------------------------------
(* Dashboard.  A view is the range of the overview, held whether the page   *)
(* refreshes by itself, flight the refresh that is on its way.              *)

\* doRefresh: there is one refresh at a time, whatever range it is for.
DoRefresh(w, range) ==
    IF w.ui.flight # None THEN w ELSE [Load(w, "list", range) EXCEPT !.ui.flight = range]

DashboardAnswer(c, w) == AnsweredKeeping(c, [w EXCEPT !.ui.flight = None])

DashboardMount(w, interval) == DoRefresh([w EXCEPT !.ui.held = interval], FirstView)

OnDashboard == page = "Dashboard" /\ ~ui.hidden

RefreshDashboard == OnDashboard /\ ~ui.list.loading /\ Become({DoRefresh(World, ui.view)})

\* handleOverviewRangeChange.
ChangeOverviewRange(v) ==
    /\ OnDashboard /\ v # ui.view
    /\ Become({DoRefresh([World EXCEPT !.ui.view = v], v)})

ChangeInterval(interval) ==
    /\ OnDashboard /\ interval # ui.held
    /\ Become({[World EXCEPT !.ui.held = interval]})

\* The timer of startRefreshTimers, which stops while the tab is hidden.
DashboardTick == OnDashboard /\ ui.held # None /\ Become({DoRefresh(World, ui.view)})
DashboardHidden == OnDashboard /\ Become({[World EXCEPT !.ui.hidden = TRUE]})
DashboardVisible ==
    /\ page = "Dashboard" /\ ui.hidden
    /\ LET next == [World EXCEPT !.ui.hidden = FALSE]
       IN  Become({IF ui.held # None THEN DoRefresh(next, ui.view) ELSE next})

DashboardNext ==
    \/ RefreshDashboard \/ DashboardTick \/ DashboardHidden \/ DashboardVisible
    \/ \E v \in View : ChangeOverviewRange(v)
    \/ \E interval \in {None, "interval"} : ChangeInterval(interval)

----------------------------------------------------------------------------
(* BackupRecovery.  A view is a repository; the repositories are the panel  *)
(* at the side; held is the repository localStorage remembers.  Whether     *)
(* there are repositories does not change while the page is open.           *)

\* One error is shared by both lists: each load drops it.
LoadBackup(w, panel, of) ==
    LET next == Load(w, panel, of)
    IN  [next EXCEPT !.ui.list.failed = FALSE, !.ui.side.failed = FALSE]

LoadSnapshots(w, repo) == IF repo = None THEN [w EXCEPT !.ui.list.shown = None] ELSE LoadBackup(w, "list", repo)

\* The effects on the selected repository: both load functions depend on it.
SelectRepository(w, repo) ==
    LoadSnapshots(LoadBackup([w EXCEPT !.ui.view = repo, !.ui.held = repo], "side", "repositories"), repo)

\* loadRepositories: with none selected, the remembered one or the first.
RepositoriesAnswered(c, w) ==
    LET next == AnsweredKeeping(c, w)
    IN  IF c.ok /\ w.ui.view = None
        THEN SelectRepository(next, IF w.ui.held = None THEN FirstView ELSE w.ui.held)
        ELSE next

SnapshotChanged(c, w) ==
    LET next == CASE c.kind = "create" -> Idle(IF c.ok THEN CloseForm(w) ELSE w, c.flag)
                  [] c.kind = "cancel" -> [w EXCEPT !.ui.flight = None]
                  [] OTHER -> Unmark(w)
    IN  IF c.ok THEN LoadSnapshots(next, c.of) ELSE next

SnapshotRestored(c, w) ==
    LET free == Idle(w, c.flag)
    IN  IF c.ok /\ free.ui.dialog # None /\ free.ui.dialog.kind = "restore" THEN Close(free) ELSE free

BackupRecoveryAnswer(c, w) ==
    CASE c.kind = "read" -> IF c.panel = "list" THEN AnsweredKeeping(c, w) ELSE RepositoriesAnswered(c, w)
      [] c.kind = "restore" -> SnapshotRestored(c, w)
      [] OTHER -> SnapshotChanged(c, w)

\* The server: a snapshot is looked up in the repository the request names.
SnapshotEffect(c, r, s) ==
    IF r \notin Listed[c.of] THEN "refused" ELSE IF c.kind = "restore" THEN "same" ELSE "gone"

BackupRecoveryMount(w, remembered) ==
    LoadSnapshots(LoadBackup([w EXCEPT !.ui.view = None, !.ui.held = remembered], "side", "repositories"), None)

OnBackup == page = "BackupRecovery" /\ ui.dialog = None
SnapshotTable == OnBackup /\ ui.view # None /\ ~ui.list.loading /\ ~ui.list.failed /\ ~ui.side.failed

ChooseRepository(v) ==
    /\ OnBackup /\ v # ui.view /\ ui.side.shown # None
    /\ Become({SelectRepository(World, v)})

ReloadSnapshots == OnBackup /\ Become({LoadSnapshots(World, ui.view)})

OpenSnapshot(kind, r) ==
    /\ IF kind = "create" THEN OnBackup /\ ui.view # None ELSE SnapshotTable
    /\ Openable(kind, r) /\ (kind = "restore" => StatusOf(r) = "success")
    /\ Become({Open(World, kind, r)})

CloseSnapshot == page = "BackupRecovery" /\ ui.dialog # None /\ Become({Close(World)})

CreateSnapshot ==
    /\ page = "BackupRecovery" /\ Dialog("create") /\ "create" \notin ui.busy
    /\ Become({Write(World, "create", {}, "create", "none")})

RestoreSnapshot ==
    /\ page = "BackupRecovery" /\ Dialog("restore") /\ "restore" \notin ui.busy
    /\ Become({Write(World, "restore", {ui.dialog.row}, "restore", "none")})

\* handleCancel and handleDelete name the repository that is selected.
CancelSnapshot(r) ==
    /\ SnapshotTable /\ r \in Shown /\ StatusOf(r) = "inProgress" /\ ui.flight # r
    /\ Become({[Write(World, "cancel", {r}, "none", "none") EXCEPT !.ui.flight = r]})

DeleteSnapshot(r) ==
    /\ SnapshotTable /\ r \in Shown \ ui.busy /\ StatusOf(r) # "inProgress"
    /\ Become({Mark(Write(World, "delete", {r}, "none", "none"), r)})

BackupRecoveryNext ==
    \/ ReloadSnapshots \/ CloseSnapshot \/ CreateSnapshot \/ RestoreSnapshot
    \/ \E v \in View : ChooseRepository(v)
    \/ \E r \in Row \cup {None} : \E kind \in {"create", "restore"} : OpenSnapshot(kind, r)
    \/ \E r \in Row : CancelSnapshot(r) \/ DeleteSnapshot(r)

----------------------------------------------------------------------------
(* IndexManagement, LifecyclePolicy, and CapacityMonitoring, whose view is  *)
(* a range: they only read, and keep what they show when a read fails.      *)

LoadStorage(w) == Load(w, "list", w.ui.view)

\* The button is busy while a load runs; the retry of an error is not.
ReloadStorage ==
    /\ page \in {"IndexManagement", "LifecyclePolicy", "CapacityMonitoring"}
    /\ ui.list.failed \/ ~ui.list.loading
    /\ Become({LoadStorage(World)})

ChangeCapacityRange(v) ==
    /\ page = "CapacityMonitoring" /\ v # ui.view
    /\ Become({LoadStorage([World EXCEPT !.ui.view = v])})

StorageNext == ReloadStorage \/ \E v \in View : ChangeCapacityRange(v)

----------------------------------------------------------------------------
(* DownloadRecords.  A view is a page of export jobs; the server completes  *)
(* a pending job by itself.                                                 *)

ExportRights == {"createExport", "download"}

LoadJobs(w, view) == Load(w, "list", view)

JobCreated(c, w) ==
    LET free == Idle(w, c.flag) IN IF c.ok THEN LoadJobs(Close(free), c.of) ELSE free

DownloadRecordsAnswer(c, w) ==
    CASE c.kind = "read" -> AnsweredKeeping(c, w)
      [] c.kind = "create" -> JobCreated(c, w)
      [] OTHER -> Unmark(w)

OnDownloads == page = "DownloadRecords" /\ ui.dialog = None

ReloadJobs == OnDownloads /\ ~ui.list.loading /\ Become({LoadJobs(World, ui.view)})

\* The 3 s interval while a job that is shown is not finished.
PollJobs ==
    /\ page = "DownloadRecords" /\ \E r \in Shown : StatusOf(r) = "pending"
    /\ Become({LoadJobs(World, ui.view)})

ChangeJobPage(v) ==
    /\ OnDownloads /\ v # ui.view
    /\ Become({LoadJobs([World EXCEPT !.ui.view = v], v)})

OpenCreateJob == OnDownloads /\ "createExport" \in grants /\ Become({Open(World, "create", None)})
CloseCreateJob == page = "DownloadRecords" /\ ui.dialog # None /\ Become({Close(World)})

CreateJob ==
    /\ page = "DownloadRecords" /\ Dialog("create") /\ "create" \notin ui.busy
    /\ Become({Write(World, "create", {}, "create", "none")})

DownloadJob(r) ==
    /\ OnDownloads /\ ~ui.list.loading /\ "download" \in grants
    /\ r \in Shown \ ui.busy /\ StatusOf(r) = "completed"
    /\ Become({Mark(Write(World, "download", {r}, "none", "none"), r)})

DownloadRecordsNext ==
    \/ ReloadJobs \/ PollJobs \/ OpenCreateJob \/ CloseCreateJob \/ CreateJob
    \/ \E v \in View : ChangeJobPage(v)
    \/ \E r \in Row : DownloadJob(r)

----------------------------------------------------------------------------
(* ReportManagement: saved queries with a tag, read through the client that *)
(* joins a read in flight.                                                  *)

ReportRights == {"createReport", "updateReport", "deleteReport", "generate"}

LoadReports(w, flag) == FetchSavedQueries(w, FirstView, flag)

ReportChanged(c, w) ==
    IF ~c.ok THEN Idle(w, c.flag)
    ELSE LoadReports(IF c.kind = "delete" THEN CloseQuestion(w) ELSE CloseForm(w), c.flag)

\* handleGenerate goes to the download records.
ReportGenerated(c, w) == IF c.ok THEN Leave(w) ELSE Unmark(w)

ReportManagementAnswer(c, w) ==
    CASE c.kind = "read" -> Idle(AnsweredKeeping(c, w), c.flag)
      [] c.kind = "generate" -> ReportGenerated(c, w)
      [] OTHER -> ReportChanged(c, w)

OnReports == page = "ReportManagement" /\ ~ui.hidden /\ ui.dialog = None

ReloadReports == OnReports /\ Become({LoadReports(World, "none")})

OpenReport(kind, r) ==
    /\ OnReports /\ (kind # "create" => ~ui.list.loading)
    /\ [create |-> "createReport", edit |-> "updateReport", delete |-> "deleteReport"][kind] \in grants
    /\ Openable(kind, r)
    /\ Become({Open(World, kind, r)})

CloseReport == page = "ReportManagement" /\ ui.dialog # None /\ Become({Close(World)})

SaveReport ==
    /\ page = "ReportManagement" /\ Form /\ "save" \notin ui.busy
    /\ Become({Submit(World, "save")})

DeleteReport ==
    /\ page = "ReportManagement" /\ Dialog("delete")
    /\ Become({Write(World, "delete", {ui.dialog.row}, "none", "none")})

GenerateReport(r) ==
    /\ OnReports /\ ~ui.list.loading /\ "generate" \in grants /\ r \in Shown \ ui.busy
    /\ Become({Mark(Write(World, "generate", {r}, "none", "none"), r)})

ReportManagementNext ==
    \/ ReloadReports \/ CloseReport \/ SaveReport \/ DeleteReport
    \/ \E r \in Row \cup {None} : \E kind \in {"create", "edit", "delete"} : OpenReport(kind, r)
    \/ \E r \in Row : GenerateReport(r)

----------------------------------------------------------------------------
(* HealthCheck: the resource thresholds, and the overview of the services   *)
(* at the side.  No button is disabled while its request runs.              *)

LoadThresholds(w) == Load(w, "list", FirstView)
LoadOverview(w) == Load(w, "side", "overview")

HealthCheckAnswer(c, w) ==
    CASE c.kind = "read" -> IF c.panel = "list" THEN Answered(c, w) ELSE AnsweredKeeping(c, w)
      [] c.kind \in {"create", "update"} -> IF c.ok THEN LoadThresholds(CloseForm(w)) ELSE w
      [] OTHER -> IF c.ok THEN LoadThresholds(w) ELSE w

HealthCheckMount(w) == LoadOverview(LoadThresholds(w))

OnHealth == page = "HealthCheck" /\ ui.dialog = None
ThresholdTable == OnHealth /\ ~ui.list.loading

RefreshOverview == OnHealth /\ ~ui.side.loading /\ Become({LoadOverview(World)})

OpenThreshold(kind, r) ==
    /\ IF kind = "create" THEN OnHealth ELSE ThresholdTable
    /\ Openable(kind, r)
    /\ Become({Open(World, kind, r)})

CloseThreshold == page = "HealthCheck" /\ ui.dialog # None /\ Become({Close(World)})
SaveThreshold == page = "HealthCheck" /\ Form /\ Become({Submit(World, "none")})

DeleteThreshold(r) ==
    /\ ThresholdTable /\ r \in Shown
    /\ Become({Write(World, "delete", {r}, "none", "none")})

ToggleThreshold(r) ==
    /\ ThresholdTable /\ r \in Shown
    /\ LET kind == IF StatusOf(r) = "enabled" THEN "disable" ELSE "enable"
       IN  Become({Write(World, kind, {r}, "none", "none")})

HealthCheckNext ==
    \/ RefreshOverview \/ CloseThreshold \/ SaveThreshold
    \/ \E r \in Row \cup {None} : \E kind \in {"create", "edit"} : OpenThreshold(kind, r)
    \/ \E r \in Row : DeleteThreshold(r) \/ ToggleThreshold(r)

----------------------------------------------------------------------------
(* PerformanceMonitoring: the agents, and the metrics of the selected one   *)
(* (held) over the range (view) at the side.                                *)

\* loadMetrics, which its effect calls when the agent or the range changes.
LoadMetrics(w) ==
    IF w.ui.held = None THEN [w EXCEPT !.ui.side.shown = None]
    ELSE Load(w, "side", <<w.ui.held, w.ui.view>>)

WatchAgent(w, r) == IF w.ui.held = r THEN w ELSE LoadMetrics([w EXCEPT !.ui.held = r])

AgentsAnswered(c, w) ==
    LET known == {r \in Listed[FirstView] : c.at.status[r] # "gone"}
        next == AnsweredKeeping(c, w)
        chosen == IF w.ui.held \in known THEN w.ui.held
                  ELSE IF known = {} THEN None ELSE CHOOSE r \in known : TRUE
    IN  IF c.ok THEN WatchAgent(next, chosen) ELSE next

PerformanceAnswer(c, w) == IF c.panel = "list" THEN AgentsAnswered(c, w) ELSE Answered(c, w)

PerformanceMount(w) == LoadMetrics(Load(w, "list", FirstView))

OnPerformance == page = "PerformanceMonitoring"

ChooseWatched(r) == OnPerformance /\ r \in Shown /\ r # ui.held /\ Become({WatchAgent(World, r)})

ChangeMetricsRange(v) ==
    /\ OnPerformance /\ v # ui.view
    /\ Become({LoadMetrics([World EXCEPT !.ui.view = v])})

RefreshMetrics == OnPerformance /\ ~ui.side.loading /\ Become({LoadMetrics(World)})

PerformanceNext ==
    \/ RefreshMetrics
    \/ \E r \in Row : ChooseWatched(r)
    \/ \E v \in View : ChangeMetricsRange(v)

----------------------------------------------------------------------------
(* WebhookManagement: the channels of one type, always read anew.           *)

WebhookRights == {"createHook", "updateHook", "deleteHook", "testHook"}

LoadHooks(w, flag) == FetchChannels(w, TRUE, flag)

HookReread(c, w) ==
    IF c.ok /\ \A r \in c.rows : c.at.status[r] # "gone"
    THEN LoadHooks(CloseForm([w EXCEPT !.ui.known = c.since]), c.flag)
    ELSE Idle(w, c.flag)

WebhookManagementAnswer(c, w) ==
    CASE c.kind = "test" -> Unmark(w)
      [] c.kind = "delete" -> IF c.ok THEN LoadHooks(CloseQuestion(Invalidate(w)), c.flag) ELSE w
      [] c.kind \notin {"test", "delete", "read"} -> ChannelChanged(c, w)
      [] c.kind = "read" /\ c.then = "reread" -> HookReread(c, CacheChannels(c, w))
      [] OTHER -> Idle(AnsweredKeeping(c, CacheChannels(c, w)), c.flag)

WebhookManagementMount(w) == LoadHooks(w, "none")

OnHooks == page = "WebhookManagement" /\ ui.dialog = None
HookTable == OnHooks /\ ~ui.list.loading

ReloadHooks == OnHooks /\ Become({LoadHooks(World, "none")})

OpenHook(kind, r) ==
    /\ IF kind = "create" THEN OnHooks ELSE HookTable
    /\ [create |-> "createHook", edit |-> "updateHook", delete |-> "deleteHook"][kind] \in grants
    /\ Openable(kind, r)
    /\ Become({Open(World, kind, r)})

CloseHook == page = "WebhookManagement" /\ ui.dialog # None /\ Become({Close(World)})

SubmitHook ==
    /\ page = "WebhookManagement" /\ Form /\ "submit" \notin ui.busy
    /\ Become({Submit(World, "submit")})

DeleteHook ==
    /\ page = "WebhookManagement" /\ Dialog("delete")
    /\ Become({Write(World, "delete", {ui.dialog.row}, "none", "none")})

TestHook(r) ==
    /\ HookTable /\ "testHook" \in grants /\ r \in Shown \ ui.busy
    /\ Become({Mark(Write(World, "test", {r}, "none", "none"), r)})

WebhookManagementNext ==
    \/ ReloadHooks \/ CloseHook \/ SubmitHook \/ DeleteHook
    \/ \E r \in Row \cup {None} : \E kind \in {"create", "edit", "delete"} : OpenHook(kind, r)
    \/ \E r \in Row : TestHook(r)
=============================================================================
