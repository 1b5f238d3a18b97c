---------------------------- MODULE IngestionPages ---------------------------
(***************************************************************************)
(* pages/ingestion/: SourceManagement.tsx, SourceStatus.tsx,               *)
(* AgentManagement.tsx, AccessWizard.tsx, and the drawers of tasks,        *)
(* packages, receipts and dead letters, each opened as a page of its own.  *)
(*                                                                         *)
(* None of their load functions has a sequence number.  The reads a load   *)
(* makes side by side count as one call.  A filter of rows already loaded  *)
(* is left out.                                                            *)
(***************************************************************************)
EXTENDS ConsolePage

IngestRights == {"read", "run", "delete", "replay"}

\* deletePullSource and runPullTask may end in a timeout, which the pages
\* treat otherwise than a refusal: how a call fails is chosen with it.
Failures == {"timeout", "refused"}

\* The 1.2 s timer after runPullTask: a call without a server, which reads
\* again the view of the click.
StartTimer(w, of) == Send(w, [NewCall EXCEPT !.kind = "timer", !.of = of])

\* openTaskHistory, openPackageHistory: historyLoadingState names the last row
\* asked for, and is cleared by that row's answer only.
AskHistory(w, r) == Load(w, "side", r)

\* The answer opens the drawer, with the error of a call that failed.
HistoryAnswered(c, w) ==
    [w EXCEPT !.ui.side.shown = c.at, !.ui.side.failed = ~c.ok,
              !.ui.side.loading = @ /\ w.ui.side.of # c.of]

NoOverlay == ui.dialog = None /\ ui.side.shown = None
CloseDrawer(w) == [w EXCEPT !.ui.side.shown = None]

----------------------------------------------------------------------------
(* SourceManagement.                                                        *)

SourceEffect(kind, s) ==
    CASE kind = "delete" -> "gone"
      [] kind = "disable" -> "disabled"
      [] kind = "run" -> IF s = "disabled" THEN "refused" ELSE "same"
      [] OTHER -> s

LoadSources(w) == Load(w, "list", FirstView)

\* A timeout closes the question and reads the list again, as a success does.
SourceDeleted(c, w) ==
    IF c.ok \/ c.then = "timeout" THEN LoadSources(Idle(Close(w), c.flag)) ELSE Idle(w, c.flag)

\* handleSubmit closes the form that is open when its answer comes.
SourceSaved(c, w) ==
    IF c.ok THEN LoadSources(Idle(CloseForm(w), c.flag)) ELSE Idle(w, c.flag)

SourceManagementAnswer(c, w) ==
    CASE c.kind = "read" -> IF c.panel = "list" THEN Answered(c, w) ELSE HistoryAnswered(c, w)
      [] c.kind = "timer" -> LoadSources(w)
      [] c.kind = "delete" -> SourceDeleted(c, w)
      [] c.kind = "run" -> IF c.ok THEN StartTimer(w, FirstView) ELSE w
      [] c.kind = "disable" -> IF c.ok THEN LoadSources(w) ELSE w
      [] OTHER -> SourceSaved(c, w)

SourceManagementMount(w) == LoadSources(w)

OnSources == page = "SourceManagement" /\ NoOverlay
SourceTable == OnSources /\ ~ui.list.loading  \* a spinner replaces it

ReloadSources == OnSources /\ Become({LoadSources(World)})

\* openCreateModal, openEditModal, openDeleteModal.
OpenSource(kind, r) ==
    /\ IF kind = "create" THEN OnSources ELSE SourceTable
    /\ kind = "delete" => "delete" \in grants
    /\ Openable(kind, r)
    /\ Become({Open(World, kind, r)})

CloseSource ==
    /\ page = "SourceManagement" /\ ui.side.shown = None
    /\ Form \/ (Dialog("delete") /\ "delete" \notin ui.busy)
    /\ Become({Close(World)})

SubmitSource ==
    /\ page = "SourceManagement" /\ ui.side.shown = None
    /\ Form /\ "submit" \notin ui.busy
    /\ Become({Submit(World, "submit")})

\* handleDeleteConfirm, once the name of the source is typed.
ConfirmDeleteSource(failure) ==
    /\ page = "SourceManagement" /\ ui.side.shown = None
    /\ Dialog("delete") /\ "delete" \notin ui.busy
    /\ Become({Write(World, "delete", {ui.dialog.row}, "delete", failure)})

DisableSource(r) ==
    /\ SourceTable /\ r \in Shown
    /\ Become({Write(World, "disable", {r}, "none", "none")})

RunSource(r) ==
    /\ SourceTable /\ "run" \in grants
    /\ r \in Shown /\ StatusOf(r) # "disabled"
    /\ Become({Write(World, "run", {r}, "none", "none")})

OpenSourceHistory(r) ==
    /\ SourceTable /\ "read" \in grants
    /\ r \in Shown /\ ~(ui.side.loading /\ ui.side.of = r)
    /\ Become({AskHistory(World, r)})

CloseSourceHistory ==
    /\ page = "SourceManagement" /\ ui.side.shown # None
    /\ Become({CloseDrawer(World)})

SourceManagementNext ==
    \/ ReloadSources \/ CloseSource \/ SubmitSource \/ CloseSourceHistory
    \/ \E f \in Failures : ConfirmDeleteSource(f)
    \/ \E r \in Row \cup {None} : \E kind \in {"create", "edit", "delete"} : OpenSource(kind, r)
    \/ \E r \in Row : DisableSource(r) \/ RunSource(r) \/ OpenSourceHistory(r)

----------------------------------------------------------------------------
(* SourceStatus.  A view is a time range; every range reports the same      *)
(* sources.  held is the response the next one is compared with.            *)

Reported == IF ui.list.shown = None THEN {} ELSE Listed[FirstView]

LoadStatus(w, range) == Load(w, "list", range)

\* buildRefreshDelta compares with whatever was answered last.
StatusAnswered(c, w) ==
    IF c.ok THEN [AnsweredKeeping(c, w) EXCEPT !.ui.held = c.of] ELSE AnsweredKeeping(c, w)

RunAnswered(c, w) ==
    LET free == [w EXCEPT !.ui.busy = @ \ c.rows]
    IN  IF c.ok THEN StartTimer(free, c.of) ELSE free

SourceStatusAnswer(c, w) ==
    CASE c.kind = "read" -> IF c.panel = "list" THEN StatusAnswered(c, w) ELSE HistoryAnswered(c, w)
      [] c.kind = "timer" -> LoadStatus(w, c.of)
      [] OTHER -> RunAnswered(c, w)

SourceStatusMount(w) == LoadStatus(w, FirstView)

OnStatus == page = "SourceStatus" /\ NoOverlay
StatusTable == OnStatus /\ ~(ui.list.loading /\ ui.list.shown = None)

ChangeRange(v) ==
    /\ OnStatus /\ v # ui.view
    /\ Become({LoadStatus([World EXCEPT !.ui.view = v, !.ui.held = None], v)})

ReloadStatus == OnStatus /\ Become({LoadStatus(World, ui.view)})

\* The interval runs while automatic refresh is on, nothing lies over the
\* page and no history is being loaded.
ToggleAutoRefresh == OnStatus /\ Become({[World EXCEPT !.ui.hidden = ~@]})

PollStatus ==
    /\ OnStatus /\ ~ui.hidden /\ ~ui.side.loading
    /\ Become({LoadStatus(World, ui.view)})

RunFromStatus(r) ==
    /\ StatusTable /\ "run" \in grants
    /\ r \in Reported \ ui.busy
    /\ LET w == Write(World, "run", {r}, "none", "none")
       IN  Become({[w EXCEPT !.ui.busy = @ \cup {r}]})

OpenStatusHistory(r) ==
    /\ StatusTable /\ "read" \in grants
    /\ r \in Reported /\ ~(ui.side.loading /\ ui.side.of = r)
    /\ Become({AskHistory(World, r)})

OpenStatusDetail(r) == StatusTable /\ r \in Reported /\ Become({Open(World, "detail", r)})

CloseStatusDetail ==
    /\ page = "SourceStatus" /\ Dialog("detail") /\ ui.side.shown = None
    /\ Become({Close(World)})

\* queueTaskHistoryFromDetail: the history is asked for when the dialog has
\* gone (handleDetailAfterOpenChange).
HistoryFromDetail ==
    /\ page = "SourceStatus" /\ Dialog("detail") /\ ui.side.shown = None
    /\ "read" \in grants
    /\ ~(ui.side.loading /\ ui.side.of = ui.dialog.row)
    /\ Become({AskHistory(Close(World), ui.dialog.row)})

CloseStatusHistory ==
    /\ page = "SourceStatus" /\ ui.side.shown # None
    /\ Become({CloseDrawer(World)})

SourceStatusNext ==
    \/ ReloadStatus \/ ToggleAutoRefresh \/ PollStatus
    \/ CloseStatusDetail \/ HistoryFromDetail \/ CloseStatusHistory
    \/ \E v \in View : ChangeRange(v)
    \/ \E r \in Row : RunFromStatus(r) \/ OpenStatusHistory(r) \/ OpenStatusDetail(r)

----------------------------------------------------------------------------
(* AgentManagement.  The rows are the sources: each view holds those of one *)
(* agent, which goes with the last of them.                                 *)

Agents == {v \in View : ui.list.shown # None /\ \E r \in Listed[v] : StatusOf(r) # "gone"}
SourcesOf(v) == {r \in Listed[v] : StatusOf(r) # "gone"}

LoadAgents(w) == Load(w, "list", FirstView)

\* handleDeleteAgent: what any of the deletions answered.
AgentDeleted(c, w) ==
    IF c.done # {} \/ c.ok \/ c.then = "timeout" THEN LoadAgents(Idle(Close(w), c.flag)) ELSE Idle(w, c.flag)

AgentManagementAnswer(c, w) ==
    IF c.kind = "read" THEN AnsweredKeeping(c, w) ELSE AgentDeleted(c, w)

AgentManagementMount(w) == LoadAgents(w)

OnAgents == page = "AgentManagement" /\ ui.dialog = None

ReloadAgents == OnAgents /\ Become({LoadAgents(World)})

\* The question keeps the sources the agent was shown with.
OpenDeleteAgent(v) ==
    /\ OnAgents /\ ~ui.list.loading
    /\ "delete" \in grants /\ v \in Agents
    /\ Become({Open(World, "delete", SourcesOf(v))})

CloseDeleteAgent ==
    /\ page = "AgentManagement" /\ Dialog("delete") /\ "delete" \notin ui.busy
    /\ Become({Close(World)})

ConfirmDeleteAgent(failure) ==
    /\ page = "AgentManagement" /\ Dialog("delete") /\ "delete" \notin ui.busy
    /\ Become({Write(World, "delete", ui.dialog.row, "delete", failure)})

AgentManagementNext ==
    \/ ReloadAgents \/ CloseDeleteAgent
    \/ \E v \in View : OpenDeleteAgent(v)
    \/ \E f \in Failures : ConfirmDeleteAgent(f)

----------------------------------------------------------------------------
(* AccessWizard.  view stands for the inputs with the name of the source,   *)
(* which FirstView lacks; sel is the selected agent, held whose address the *)
(* URL is; flight whether it is an existing agent or a new one; dialog the  *)
(* step.  The panel at the side is the deployment script.                   *)

Inputs(w) == [view |-> w.ui.view, agent |-> w.ui.sel, url |-> w.ui.held, mode |-> w.ui.flight]

\* The effect on the inputs: the script of the old ones is dropped.
SetInputs(w, new) ==
    LET next == [w EXCEPT !.ui.view = new.view, !.ui.sel = new.agent,
                          !.ui.held = new.url, !.ui.flight = new.mode]
    IN  IF Inputs(next) = Inputs(w) THEN w ELSE [next EXCEPT !.ui.side.shown = None]

\* The effect on the selected agent: its address becomes the URL.
SelectAgent(w, r) ==
    SetInputs(w, [Inputs(w) EXCEPT !.agent = {r}, !.url = IF w.ui.flight = "existing" THEN r ELSE @])

WizardLoadAgents(w) == Load(w, "list", FirstView)

\* The first agent is selected, and its address taken, whatever was typed.
\* (The rows are the agents and the source that is saved.)
WizardAgents(c, w) ==
    LET known == {r \in Listed[FirstView] : c.ok /\ c.at.status[r] = "online"}
        first == CHOOSE r \in known : TRUE
        next == AnsweredKeeping(c, w)
    IN  IF known = {} THEN next
        ELSE SetInputs(next, [Inputs(next) EXCEPT !.agent = {first}, !.url = first])

\* handleCreate: a new host whose paths overlap those of an active source is
\* saved as paused; findOverlappingActivePullSource only words the message.
SourceCreated(c, w) ==
    CASE c.ok -> Leave(w)
      [] ~c.ok /\ c.then = "overlap" /\ c.since = "new" ->
             Send(w, [NewCall EXCEPT !.kind = "create", !.of = c.of, !.flag = c.flag, !.then = "paused"])
      [] OTHER -> Idle(w, c.flag)

AccessWizardAnswer(c, w) ==
    CASE c.kind = "create" -> SourceCreated(c, w)
      [] c.kind = "read" /\ c.panel = "list" -> WizardAgents(c, w)
      [] OTHER -> AnsweredKeeping(c, w)

AccessWizardMount(w) ==
    WizardLoadAgents([w EXCEPT !.ui.flight = "existing", !.ui.held = "typed",
                               !.ui.dialog = [kind |-> "step", row |-> 0]])

OnStep(n) == page = "AccessWizard" /\ ~ui.hidden /\ ui.dialog.row = n

\* validateStep.
Valid(step) ==
    CASE step = 0 -> ui.view # FirstView
      [] step = 1 -> ui.held # None /\ (ui.flight = "existing" => ui.sel # {})
      [] OTHER -> TRUE

\* handleNext and handlePrev.
GoToStep(n, m) ==
    /\ OnStep(n) /\ (m > n => Valid(n))
    /\ Become({[World EXCEPT !.ui.dialog.row = m]})

ReloadWizardAgents == page = "AccessWizard" /\ ~ui.hidden /\ Become({WizardLoadAgents(World)})

TypeName(v) == OnStep(0) /\ v # ui.view /\ Become({SetInputs(World, [Inputs(World) EXCEPT !.view = v])})

TypeAddress(url) == OnStep(1) /\ url # ui.held /\ Become({SetInputs(World, [Inputs(World) EXCEPT !.url = url])})

ChooseAgent(r) ==
    /\ OnStep(1) /\ ui.flight = "existing" /\ r \in Shown /\ StatusOf(r) = "online"
    /\ Become({SelectAgent(World, r)})

\* Back to an existing agent, the effect takes the selected one's address.
ChooseMode(mode) ==
    /\ OnStep(1) /\ mode # ui.flight
    /\ LET next == SetInputs(World, [Inputs(World) EXCEPT !.mode = mode])
       IN  Become({IF mode = "existing" /\ ui.sel # {} THEN SelectAgent(next, CHOOSE r \in ui.sel : TRUE) ELSE next})

GenerateScript ==
    /\ OnStep(2) /\ ~ui.side.loading /\ Valid(1)
    /\ Become({Load(World, "side", Inputs(World))})

\* The button's request keeps the mode of the click.
CreateSource(failure) ==
    /\ OnStep(2) /\ "submit" \notin ui.busy /\ Valid(1)
    /\ LET w == Write(World, "create", {}, "submit", failure)
       IN  Become({[w EXCEPT !.calls = {IF c.id = w.ui.started THEN [c EXCEPT !.since = ui.flight] ELSE c : c \in @}]})

LeaveWizard == page = "AccessWizard" /\ ~ui.hidden /\ Become({Leave(World)})

AccessWizardNext ==
    \/ ReloadWizardAgents \/ GenerateScript \/ LeaveWizard
    \/ \E n \in 0..1 : GoToStep(n, n + 1) \/ GoToStep(n + 1, n)
    \/ \E v \in View : TypeName(v)
    \/ \E url \in {None, "typed"} : TypeAddress(url)
    \/ \E r \in Row : ChooseAgent(r)
    \/ \E mode \in {"existing", "new"} : ChooseMode(mode)
    \/ \E failure \in {"overlap", "refused"} : CreateSource(failure)

----------------------------------------------------------------------------
(* The drawers.  DeadLetterDrawer has a selection to replay; ReceiptDrawer  *)
(* has a filter and pages; PullTaskDetailDrawer and PullPackageDetailDrawer *)
(* show one record.                                                         *)

LetterEffect(kind, s) == IF s = "pending" THEN "replayed" ELSE "same"

LoadDeadLetters(w, view) == Load(w, "list", view)

\* handleReplay: the reload is of the view of the click.
LettersReplayed(c, w) ==
    LET free == Idle(w, c.flag)
    IN  IF c.ok THEN LoadDeadLetters([Close(free) EXCEPT !.ui.sel = {}], c.of) ELSE free

LettersAnswered(c, w) == IF c.ok THEN Prune(Answered(c, w)) ELSE AnsweredKeeping(c, w)

DeadLetterAnswer(c, w) == IF c.kind = "read" THEN LettersAnswered(c, w) ELSE LettersReplayed(c, w)

OnDeadLetters == page = "DeadLetters" /\ ~ui.hidden /\ ui.dialog = None
LetterTable == OnDeadLetters /\ ~ui.list.loading /\ ~ui.list.failed

\* The filter is always there; the pages only with the table.
ChangeLetterView(v) ==
    /\ OnDeadLetters /\ v # ui.view /\ (v # FirstView => LetterTable)
    /\ Become({LoadDeadLetters([World EXCEPT !.ui.view = v], v)})

ReloadDeadLetters == OnDeadLetters /\ Become({LoadDeadLetters(World, ui.view)})

SelectDeadLetters(rows) ==
    /\ LetterTable /\ "replay" \in grants
    /\ rows \subseteq Shown /\ rows # ui.sel
    /\ Become({[World EXCEPT !.ui.sel = rows]})

OpenReplay == LetterTable /\ ui.sel # {} /\ Become({Open(World, "replay", None)})
CloseReplay == page = "DeadLetters" /\ Dialog("replay") /\ Become({Close(World)})

ReplayDeadLetters ==
    /\ page = "DeadLetters" /\ Dialog("replay")
    /\ ui.sel # {} /\ "replay" \notin ui.busy
    /\ Become({Write(World, "replay", ui.sel, "replay", "none")})

LoadReceipts(w, view) == Load(w, "list", view)

ChangeReceiptView(v) ==
    /\ page = "Receipts" /\ v # ui.view
    /\ Become({LoadReceipts([World EXCEPT !.ui.view = v], v)})

ReloadReceipts == page = "Receipts" /\ Become({LoadReceipts(World, ui.view)})

\* A task is read with its packages, the panel at the side.
LoadRecord(w, p) ==
    LET record == Load(w, "list", FirstView)
    IN  IF p = "TaskDetail" /\ "read" \in grants THEN Load(record, "side", FirstView) ELSE record

ReloadDetail == page \in {"TaskDetail", "PackageDetail"} /\ Become({LoadRecord(World, page)})

CloseDrawers ==
    /\ page \in {"DeadLetters", "Receipts", "TaskDetail", "PackageDetail"}
    /\ ~ui.hidden /\ ui.dialog = None
    /\ Become({Leave(World)})

DrawersNext ==
    \/ ReloadDeadLetters \/ OpenReplay \/ CloseReplay \/ ReplayDeadLetters
    \/ ReloadReceipts \/ ReloadDetail \/ CloseDrawers
    \/ \E v \in View : ChangeLetterView(v) \/ ChangeReceiptView(v)
    \/ \E rows \in SUBSET Row : SelectDeadLetters(rows)
=============================================================================
