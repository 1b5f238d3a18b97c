----------------------------- MODULE ConsoleViews ----------------------------
(***************************************************************************)
(* The list pages of the web console (apps/frontend-console/src/pages):    *)
(* one visit of one page, with the calls it makes and the server behind    *)
(* them.  The routes of App.tsx mount one page at a time, and what a page  *)
(* has left behind when it goes changes nothing in the next one.           *)
(*                                                                         *)
(* Handlers of a page interleave: a button may be pressed, a filter be     *)
(* changed, or a timer fire while the calls of an earlier handler are in   *)
(* flight, and answers come in any order, with one exception: most pages   *)
(* do not number their loads, so that an older answer may replace a newer  *)
(* one.  InOrder names the pages whose reads are taken to be answered in   *)
(* the order they were made; what is claimed of them holds only then.      *)
(***************************************************************************)
EXTENDS AlertPages, IncidentPages, SearchPages, SecurityPages, IngestionPages, OperationsPages

CONSTANT InOrder   \* pages whose reads of a panel are answered in order

ASSUME InOrderAssumption == InOrder \subseteq STRING

\* The list pages that App.tsx has routes to, and the drawers of rows they open.
PageNames == {
    "AlertList", "AlertRules", "SilencePolicy", "NotificationConfig", "IncidentList",
    "IncidentDetail", "IncidentTimeline", "IncidentAnalysis", "IncidentSLA", "IncidentArchive",
    "IncidentArchiveReport", "SearchHistory", "SavedQueries", "UserManagement",
    "RolePermissions", "AuditLogs", "LoginPolicy", "SourceManagement", "SourceStatus",
    "AgentManagement", "AccessWizard", "DeadLetters", "Receipts", "TaskDetail", "PackageDetail",
    "Dashboard", "BackupRecovery", "IndexManagement", "LifecyclePolicy", "CapacityMonitoring",
    "DownloadRecords", "ReportManagement", "HealthCheck", "PerformanceMonitoring",
    "WebhookManagement"}

ASSUME PageNamesAssumption == Page \subseteq PageNames

----------------------------------------------------------------------------
(* What differs between the pages: the server's answers, the statuses rows  *)
(* may have, the rights that the pages look at, and their handlers.         *)

\* The status a row gets from a mutation.
Effect(kind, s) ==
    CASE page = "AlertList" -> AlertEffect(kind, s)
      [] page = "AlertRules" -> RuleEffect(kind, s)
      [] page = "SilencePolicy" -> SilenceEffect(kind, s)
      [] page \in {"NotificationConfig", "WebhookManagement"} -> ChannelEffect(kind, s)
      [] page \in {"IncidentList", "IncidentDetail"} -> IncidentEffect(kind, s)
      [] page = "SearchHistory" -> HistoryEffect(kind, s)
      [] page \in {"SavedQueries", "ReportManagement"} -> SavedEffect(kind, s)
      [] page = "HealthCheck" -> RuleEffect(kind, s)
      [] page = "UserManagement" -> UserEffect(kind, s)
      [] page = "LoginPolicy" -> PolicyEffect(kind, s)
      [] page \in {"SourceManagement", "SourceStatus", "AgentManagement"} -> SourceEffect(kind, s)
      [] OTHER -> "same"

\* The statuses rows may have when the page is opened.
Starts(p) ==
    CASE p = "AlertList" -> {"firing"}
      [] p = "IncidentList" -> {"alerted"}
      [] p = "IncidentDetail" -> {"alerted", "acknowledged", "analyzing", "resolved", "gone"}
      [] p = "IncidentArchiveReport" -> {"archived", "alerted", "gone"}
      [] p \in {"AlertRules", "SilencePolicy", "NotificationConfig", "HealthCheck", "WebhookManagement",
               "ReportManagement", "PerformanceMonitoring"} -> {"enabled", "gone"}
      [] p = "BackupRecovery" -> {"success", "inProgress"}
      [] p = "DownloadRecords" -> {"pending", "gone"}
      [] p = "SavedQueries" -> {"dirty", "gone"}
      [] p = "UserManagement" -> {"active", "reserved"}
      [] p \in {"SourceManagement", "AgentManagement"} -> {"active", "gone"}
      [] p = "AccessWizard" -> {"online", "gone"}
      [] p = "DeadLetters" -> {"pending", "replayed"}
      [] OTHER -> {"present"}

\* The status of a new row.
Created ==
    CASE page = "IncidentList" -> "alerted"
      [] page = "SavedQueries" -> "clean"
      [] page \in {"UserManagement", "SourceManagement"} -> "active"
      [] page = "AccessWizard" -> "source"
      [] page = "DownloadRecords" -> "pending"
      [] page = "BackupRecovery" -> "inProgress"
      [] OTHER -> "enabled"

\* The pages with filters, ranges or pages of rows; the others show one view.
Viewed == {"AlertList", "UserManagement", "AuditLogs", "SearchHistory", "SavedQueries", "IncidentList",
           "IncidentAnalysis", "IncidentSLA", "IncidentArchive", "SourceStatus", "AgentManagement",
           "DeadLetters", "Receipts", "BackupRecovery", "DownloadRecords"}

\* What the user may have been granted.
Rights(p) ==
    CASE p \in {"IncidentList", "IncidentDetail"} -> {IncidentRights, {}}
      [] p = "UserManagement" -> {UserRights, {}}
      [] p = "AuditLogs" -> {AuditRights, {}}
      [] p = "LoginPolicy" -> {PolicyRights, {}}
      [] p = "DownloadRecords" -> {ExportRights, {}}
      [] p = "ReportManagement" -> {ReportRights, {}}
      [] p = "WebhookManagement" -> {WebhookRights, {}}
      [] p \in {"SourceManagement", "SourceStatus", "AgentManagement", "DeadLetters", "TaskDetail"} -> {IngestRights, {}}
      [] OTHER -> {{}}

\* The effects of the first render.
Mounts(p, w) ==
    CASE p = "AlertList" -> {AlertListMount(w)}
      [] p = "AlertRules" -> {AlertRulesMount(w, None), AlertRulesMount(w, "draft")}
      [] p = "SilencePolicy" -> {SilencePolicyMount(w)}
      [] p = "NotificationConfig" -> {NotificationConfigMount(w)}
      [] p = "IncidentList" -> {IncidentListMount(w)}
      [] p = "IncidentDetail" -> {IncidentDetailMount(w)}
      [] p = "IncidentTimeline" -> {IncidentTimelineMount(w)}
      [] p = "IncidentArchiveReport" -> {LoadArchiveReport([w EXCEPT !.ui.held = "autoPrint"])}
      [] p = "SearchHistory" -> {SearchHistoryMount(w)}
      [] p = "SavedQueries" -> {SavedQueriesMount(w)}
      [] p = "UserManagement" -> {UserManagementMount(w)}
      [] p = "RolePermissions" -> {RolePermissionsMount(w)}
      [] p = "AuditLogs" -> {AuditLogsMount(w)}
      [] p = "LoginPolicy" -> {LoadPolicy(w)}
      [] p = "Dashboard" -> {DashboardMount(w, None), DashboardMount(w, "interval")}
      [] p = "BackupRecovery" -> {BackupRecoveryMount(w, repo) : repo \in View \cup {None}}
      [] p \in {"IndexManagement", "LifecyclePolicy", "CapacityMonitoring"} -> {LoadStorage(w)}
      [] p = "DownloadRecords" -> {LoadJobs(w, FirstView)}
      [] p = "ReportManagement" -> {LoadReports(w, "none")}
      [] p = "HealthCheck" -> {HealthCheckMount(w)}
      [] p = "PerformanceMonitoring" -> {PerformanceMount(w)}
      [] p = "WebhookManagement" -> {WebhookManagementMount(w)}
      [] p = "SourceManagement" -> {SourceManagementMount(w)}
      [] p = "SourceStatus" -> {SourceStatusMount(w)}
      [] p = "AgentManagement" -> {AgentManagementMount(w)}
      [] p = "AccessWizard" -> {AccessWizardMount(w)}
      [] p = "DeadLetters" -> {LoadDeadLetters(w, FirstView)}
      [] p = "Receipts" -> {LoadReceipts(w, FirstView)}
      [] p \in {"TaskDetail", "PackageDetail"} -> {LoadRecord(w, p)}
      [] OTHER -> {LoadReport(w)}

\* What follows the await of a call.
PageAnswer(c, w) ==
    CASE page = "AlertList" -> AlertListAnswer(c, w)
      [] page = "AlertRules" -> AlertRulesAnswer(c, w)
      [] page = "SilencePolicy" -> SilencePolicyAnswer(c, w)
      [] page = "NotificationConfig" -> NotificationConfigAnswer(c, w)
      [] page = "IncidentList" -> IncidentListAnswer(c, w)
      [] page = "IncidentDetail" -> IncidentDetailAnswer(c, w)
      [] page = "IncidentTimeline" -> IncidentTimelineAnswer(c, w)
      [] page = "IncidentArchiveReport" -> ArchiveReportAnswer(c, w)
      [] page = "SearchHistory" -> SearchHistoryAnswer(c, w)
      [] page = "SavedQueries" -> SavedQueriesAnswer(c, w)
      [] page = "UserManagement" -> UserManagementAnswer(c, w)
      [] page = "RolePermissions" -> RolePermissionsAnswer(c, w)
      [] page = "AuditLogs" -> AuditLogsAnswer(c, w)
      [] page = "LoginPolicy" -> PolicyAnswer(c, w)
      [] page = "Dashboard" -> DashboardAnswer(c, w)
      [] page = "BackupRecovery" -> BackupRecoveryAnswer(c, w)
      [] page \in {"IndexManagement", "LifecyclePolicy", "CapacityMonitoring"} -> AnsweredKeeping(c, w)
      [] page = "DownloadRecords" -> DownloadRecordsAnswer(c, w)
      [] page = "ReportManagement" -> ReportManagementAnswer(c, w)
      [] page = "HealthCheck" -> HealthCheckAnswer(c, w)
      [] page = "PerformanceMonitoring" -> PerformanceAnswer(c, w)
      [] page = "WebhookManagement" -> WebhookManagementAnswer(c, w)
      [] page = "SourceManagement" -> SourceManagementAnswer(c, w)
      [] page = "SourceStatus" -> SourceStatusAnswer(c, w)
      [] page = "AgentManagement" -> AgentManagementAnswer(c, w)
      [] page = "AccessWizard" -> AccessWizardAnswer(c, w)
      [] page = "DeadLetters" -> DeadLetterAnswer(c, w)
      [] page \in {"Receipts", "TaskDetail", "PackageDetail"} -> Answered(c, w)
      [] OTHER -> IncidentReportAnswer(c, w)

----------------------------------------------------------------------------
(* Rows of no interest, those the first view does not list, start alike.    *)

Init ==
    /\ page \in Page
    /\ grants \in Rights(page)
    /\ store \in {s \in [Row -> Starts(page)] :
           \A r, q \in Row \ Listed[FirstView] :
               /\ s[r] = s[q]
               /\ page \notin Viewed => s[r] = CHOOSE x \in Starts(page) : TRUE}
    /\ version = 0 /\ outside = 0
    /\ \E w \in Mounts(page, Opened(store)) : ui = w.ui /\ calls = w.calls

\* The server's possible answers to a call.
Outcomes(c) ==
    CASE c.kind = "read" -> ReadOutcomes(World, c)
      [] c.kind = "create" -> CreateOutcomes(World, c, Created, IF page = "BackupRecovery" THEN c.of ELSE FirstView)
      [] c.kind = "replay" -> RequestOutcomes(World, c, [r \in Row |-> LetterEffect(c.kind, store[r])])
      [] OTHER -> WriteOutcomes(World, c,
                     [r \in Row |-> IF page = "BackupRecovery" THEN SnapshotEffect(c, r, store[r])
                                    ELSE Effect(c.kind, store[r])])

Answer(c) ==
    /\ page \in InOrder /\ c.kind = "read" =>
           \A d \in calls : d.kind = "read" /\ d.panel = c.panel => d.id >= c.id
    /\ Become({PageAnswer(o.call, o.world) : o \in Outcomes(c)})

\* Somebody else deletes a row; the server finishes an export.
Outside ==
    /\ outside < MaxOutside[page]
    /\ outside' = outside + 1
    /\ version' = version + 1
    /\ \E r \in Row :
           /\ store[r] # "gone"
           /\ store' = [store EXCEPT ![r] = IF page = "DownloadRecords" THEN "completed" ELSE "gone"]
    /\ UNCHANGED <<page, grants, ui, calls>>

Next ==
    \/ AlertListNext \/ AlertRulesNext \/ SilencePolicyNext \/ NotificationConfigNext
    \/ IncidentListNext \/ IncidentDetailNext \/ IncidentTimelineNext \/ IncidentReportsNext
    \/ SearchHistoryNext \/ SavedQueriesNext
    \/ UserManagementNext \/ RolePermissionsNext \/ AuditLogsNext \/ LoginPolicyNext
    \/ SourceManagementNext \/ SourceStatusNext \/ AgentManagementNext \/ AccessWizardNext \/ DrawersNext
    \/ DashboardNext \/ BackupRecoveryNext \/ StorageNext \/ DownloadRecordsNext
    \/ ReportManagementNext \/ HealthCheckNext \/ PerformanceNext \/ WebhookManagementNext
    \/ \E c \in calls : Answer(c)
    \/ Outside

Spec == Init /\ [][Next]_vars

----------------------------------------------------------------------------
(***************************************************************************)
(* No spinner turns and no button is disabled for ever: each waits for a   *)
(* call in flight, whatever handlers overlap, fail, join another's load or *)
(* replace it, and whichever of them was to clear it.                      *)
(***************************************************************************)
SpinnersEnd ==
    /\ \A p \in Panels : ui[p].loading => \E c \in calls : c.kind = "read" /\ c.panel = p
    /\ \A b \in ui.busy : \E c \in calls : b = c.flag \/ b \in c.rows

(***************************************************************************)
(* A batch acts on rows the user sees: rows that left the list with a      *)
(* reload, a filter or a deletion are not selected.  IncidentList,         *)
(* SearchHistory and UserManagement do not see to it; what AccessWizard    *)
(* keeps as chosen is a source for its next step and no batch.             *)
(***************************************************************************)
SelectionShown ==
    page \notin {"IncidentList", "SearchHistory", "UserManagement", "AccessWizard"} => ui.sel \subseteq Shown

(***************************************************************************)
(* Read your writes: when nothing is in flight, the rows on the screen are *)
(* not older than any change of theirs the user was told of, although      *)
(* reads and writes overlap and a read may have been sent before a write   *)
(* it is answered after.                                                   *)
(***************************************************************************)
OwnWritesShown ==
    calls = {} /\ ui.list.shown # None /\ ~ui.list.failed =>
        \A r \in Listed[ui.list.shown.of] : ui.known[r] <= ui.list.shown.version

\* Of every page but those whose reload joins a read in flight, and the form.
WritesShown ==
    page \notin {"SearchHistory", "SavedQueries", "ReportManagement", "LoginPolicy"} => OwnWritesShown

(***************************************************************************)
(* What a panel shows is what was asked for last: the answer for an older  *)
(* filter, page or row never stays when no read is left.                   *)
(***************************************************************************)
LastAskedIsShown ==
    \A p \in Panels :
        /\ ui[p].shown # None /\ ~ui[p].failed /\ ui[p].of # None
        /\ \A c \in calls : c.kind # "read" \/ c.panel # p
        => ui[p].shown.of = ui[p].of

(***************************************************************************)
(* A handler does not run twice at a time: no two calls are made on behalf *)
(* of the same button.  (The switch in the drawer of UserManagement looks  *)
(* at no flag.)                                                            *)
(***************************************************************************)
OncePerButton ==
    \A c, d \in calls :
        c.flag = d.flag /\ c.flag # "none" /\ (page = "UserManagement" => c.flag # "act") => c = d

----------------------------------------------------------------------------
(***************************************************************************)
(* What the pages do not keep to.                                          *)
(*                                                                         *)
(* The rows on the screen are those of the filter and page on the screen.  *)
(* Handlers that reload do so with the view of their click, so a view      *)
(* chosen while they run is undone: SearchHistory, AlertList, SourceStatus *)
(* and others.                                                             *)
(***************************************************************************)
ViewIsShown ==
    calls = {} /\ ui.list.shown # None /\ ~ui.list.failed => ui.list.shown.of = ui.view

(***************************************************************************)
(* What is saved was asked for: the defaults the form of LoginPolicy shows *)
(* until the tenant's policy has been read are never saved over it.        *)
(***************************************************************************)
PolicyAsSeen == page = "LoginPolicy" => store[Policy] # "default"
=============================================================================
