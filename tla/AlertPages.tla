----------------------------- MODULE AlertPages ------------------------------
(***************************************************************************)
(* The alert pages of the console: pages/alerts/AlertList.tsx,             *)
(* AlertRules.tsx, SilencePolicy.tsx and NotificationConfig.tsx with the   *)
(* channel cache of api/notification.ts.                                   *)
(***************************************************************************)
EXTENDS ConsolePage

\* The early returns of these pages: nothing but a spinner, nothing but the
\* error with its retry button, or the whole page.
SpinnerOnly == ui.list.loading /\ Shown = {}
ErrorOnly == ~SpinnerOnly /\ ui.list.failed /\ Shown = {}
WholePage == ~SpinnerOnly /\ ~ErrorOnly

----------------------------------------------------------------------------
(* AlertList.                                                               *)

\* The server's answer to the mutations of alert.ts.
AlertEffect(kind, s) ==
    CASE <<kind, s>> \in {<<"acknowledge", "acknowledged">>, <<"resolve", "resolved">>,
                          <<"silence", "silenced">>} -> "same"
      [] kind = "acknowledge" /\ s = "firing" -> "acknowledged"
      [] kind = "resolve" /\ s # "resolved" -> "resolved"
      [] kind = "silence" /\ s \notin {"resolved", "silenced"} -> "silenced"
      [] OTHER -> "refused"

\* Mutant: a forced load also joins the one that is in flight.
AwaitAlertsJoining(w, view, force, flag, then) ==
    IF w.ui.flight # None /\ w.ui.flight.view = view THEN w
    ELSE LET next == Await(w, "list", view, flag, then)
         IN  [next EXCEPT !.ui.flight = [view |-> view, id |-> next.ui.started]]

\* loadAlerts: a load that is not forced joins one with the same key.
AwaitAlerts(w, view, force, flag, then) ==
    IF ~force /\ w.ui.flight # None /\ w.ui.flight.view = view THEN w
    ELSE LET next == Await(w, "list", view, flag, then)
         IN  [next EXCEPT !.ui.flight = [view |-> view, id |-> next.ui.started]]

LoadAlerts(w, view, force) == AwaitAlerts(w, view, force, "none", "none")

\* executeBatch and confirmBatchSilence end after the reload they await.
AlertHandlerEnds(c, w) ==
    LET free == Idle(w, c.flag) IN IF c.then = "silence" THEN Close(free) ELSE free

AlertsAnswered(c, w) ==
    LET own == w.ui.flight # None /\ w.ui.flight.id = c.id
        next == IF own THEN [w EXCEPT !.ui.flight = None] ELSE w
    IN  AlertHandlerEnds(c, Prune(AnsweredLatest(c, next)))

\* A mutation of one alert reloads the view of its click; so does a failed
\* one when the alert is gone (handleMutationError).  A batch always reloads.
AlertMutated(c, w) ==
    LET reload == c.ok \/ c.missing # {}
    IN  CASE c.then = "single" /\ reload ->
                AwaitAlerts(w, c.of, TRUE, "batch", IF c.ok THEN "silence" ELSE "none")
          [] c.then = "single" /\ ~reload -> Idle(w, "batch")
          [] c.then # "single" /\ c.flag = "none" -> IF reload THEN LoadAlerts(w, c.of, TRUE) ELSE w
          [] OTHER -> AwaitAlerts([w EXCEPT !.ui.sel = {}], c.of, TRUE, "batch", c.then)

AlertListAnswer(c, w) == IF c.kind = "read" THEN AlertsAnswered(c, w) ELSE AlertMutated(c, w)

AlertListMount(w) == LoadAlerts(w, FirstView, FALSE)

OnAlertList == page = "AlertList" /\ ~ui.hidden

\* A filter or the page changes, and the effect on loadAlerts runs.
ChangeAlertView(v) ==
    /\ OnAlertList /\ WholePage /\ ui.dialog = None /\ v # ui.view
    /\ Become({LoadAlerts([World EXCEPT !.ui.view = v], v, FALSE)})

ReloadAlerts ==
    /\ OnAlertList /\ ~SpinnerOnly /\ ui.dialog = None
    /\ Become({LoadAlerts(World, ui.view, TRUE)})

\* The 30 s interval, which is cleared while the tab is hidden.
PollAlerts ==
    /\ OnAlertList
    /\ Become({LoadAlerts(World, ui.view, FALSE)})

AlertsHidden == OnAlertList /\ Become({[World EXCEPT !.ui.hidden = TRUE]})

AlertsVisible ==
    /\ page = "AlertList" /\ ui.hidden
    /\ Become({LoadAlerts([World EXCEPT !.ui.hidden = FALSE], ui.view, FALSE)})

\* The buttons of a row.
AlertActions(r) ==
    (IF StatusOf(r) = "firing" THEN {"acknowledge"} ELSE {}) \cup
    (IF StatusOf(r) \in {"firing", "acknowledged"} THEN {"resolve", "silence"} ELSE {})

\* handleAcknowledge, handleResolve.
MutateAlert(r, kind) ==
    /\ OnAlertList /\ WholePage /\ ui.dialog = None
    /\ r \in Shown /\ kind \in AlertActions(r) \ {"silence"}
    /\ Become({Write(World, kind, {r}, "none", "none")})

\* handleSilence.
OpenSilence(r) ==
    /\ OnAlertList /\ WholePage /\ ui.dialog = None
    /\ r \in Shown /\ "silence" \in AlertActions(r)
    /\ Become({Open(World, "silence", r)})

SelectAlerts(rows) ==
    /\ OnAlertList /\ WholePage /\ ui.dialog = None
    /\ rows \subseteq Shown /\ rows # ui.sel
    /\ Become({[World EXCEPT !.ui.sel = rows]})

\* executeBatch from the bar over the table.
BatchAlerts(kind) ==
    /\ OnAlertList /\ WholePage /\ ui.dialog = None
    /\ ui.sel # {} /\ "batch" \notin ui.busy
    /\ Become({IF kind = "silence" THEN Open(World, "silence", None)
               ELSE Write(World, kind, ui.sel, "batch", "none")})

\* confirmBatchSilence: one alert, or the selection.
ConfirmSilence ==
    /\ OnAlertList /\ WholePage /\ Dialog("silence") /\ "batch" \notin ui.busy
    /\ LET r == ui.dialog.row
       IN  Become({IF r # None THEN Write(World, "silence", {r}, "batch", "single")
                   ELSE IF ui.sel = {} THEN Close(World)
                   ELSE Write(World, "silence", ui.sel, "batch", "silence")})

CancelSilence == OnAlertList /\ WholePage /\ Dialog("silence") /\ Become({Close(World)})

AlertListNext ==
    \/ \E v \in View : ChangeAlertView(v)
    \/ ReloadAlerts \/ PollAlerts \/ AlertsHidden \/ AlertsVisible
    \/ \E r \in Row : OpenSilence(r) \/ \E kind \in {"acknowledge", "resolve"} : MutateAlert(r, kind)
    \/ \E rows \in SUBSET Row : SelectAlerts(rows)
    \/ \E kind \in {"acknowledge", "resolve", "silence"} : BatchAlerts(kind)
    \/ ConfirmSilence \/ CancelSilence

----------------------------------------------------------------------------
(* AlertRules.  A load has no sequence number.  While the draft of another  *)
(* page waits for the channels, held is "draft".                            *)

RuleEffect(kind, s) ==
    CASE kind = "enable" -> "enabled"
      [] kind = "disable" -> "disabled"
      [] kind = "delete" -> "gone"
      [] OTHER -> s

LoadRules(w, flag) == Await(w, "list", FirstView, flag, "none")

\* The effect on pendingPrefillDraft: the form of a new rule opens.
OpenDraft(w) ==
    IF w.ui.held = "draft" /\ ~w.ui.list.loading /\ w.ui.side.shown # None
    THEN [Open(w, "create", None) EXCEPT !.ui.held = None]
    ELSE w

\* fetchNotificationChannels failed: there are none to choose from.
ChannelsAnswered(c, w) ==
    Answered([c EXCEPT !.ok = TRUE], w)

RuleChanged(c, w) ==
    IF ~c.ok THEN Idle(w, c.flag)
    ELSE LoadRules(CASE c.flag = "none" -> w
                     [] c.flag # "none" /\ c.kind = "delete" -> CloseDelete(w)
                     [] OTHER -> CloseForm(w), c.flag)

AlertRulesAnswer(c, w) ==
    OpenDraft(CASE c.kind = "read" /\ c.panel = "list" -> Idle(Answered(c, w), c.flag)
                [] c.kind = "read" /\ c.panel = "side" -> ChannelsAnswered(c, w)
                [] OTHER -> RuleChanged(c, w))

\* The page is opened from the menu, or with the draft of a rule.
AlertRulesMount(w, held) ==
    Load(LoadRules([w EXCEPT !.ui.held = held], "none"), "side", None)

OnAlertRules == page = "AlertRules" /\ WholePage

ReloadRules ==
    /\ page = "AlertRules" /\ ~SpinnerOnly /\ (WholePage => ui.dialog = None)
    /\ Become({LoadRules(World, "none")})

\* openCreate, openEdit and the delete button.
OpenRule(kind, r) ==
    /\ OnAlertRules /\ ui.dialog = None
    /\ Openable(kind, r)
    /\ Become({Open(World, kind, r)})

CloseRule == OnAlertRules /\ ui.dialog # None /\ Become({Close(World)})

\* Mutant: the button is not disabled while the request runs.
SubmitRuleAgain ==
    /\ OnAlertRules /\ Form
    /\ Become({IF FormSends THEN Submit(World, "submit") ELSE LoadRules(CloseForm(World), "none")})

SubmitRule ==
    /\ OnAlertRules /\ Form /\ "submit" \notin ui.busy
    /\ Become({IF FormSends THEN Submit(World, "submit") ELSE LoadRules(CloseForm(World), "none")})

DeleteRule ==
    /\ OnAlertRules /\ Dialog("delete") /\ "submit" \notin ui.busy
    /\ Become({Write(World, "delete", {ui.dialog.row}, "submit", "none")})

ToggleRule(r) ==
    /\ OnAlertRules /\ ui.dialog = None /\ r \in Shown
    /\ LET kind == IF StatusOf(r) = "enabled" THEN "disable" ELSE "enable"
       IN  Become({Write(World, kind, {r}, "none", "none")})

AlertRulesNext ==
    \/ ReloadRules \/ CloseRule \/ SubmitRule \/ DeleteRule
    \/ \E r \in Row \cup {None} : \E kind \in {"create", "edit", "delete"} : OpenRule(kind, r)
    \/ \E r \in Row : ToggleRule(r)

----------------------------------------------------------------------------
(* SilencePolicy.  The reload is not awaited: the button is free before it. *)

SilenceEffect(kind, s) == IF kind = "delete" THEN "gone" ELSE s

LoadSilences(w) == Load(w, "list", FirstView)

SilenceChanged(c, w) ==
    LET free == Idle(w, c.flag) 
    IN  IF ~c.ok THEN free
        ELSE LoadSilences(IF c.kind = "delete" THEN CloseDelete(free) ELSE CloseForm(free))

SilencePolicyAnswer(c, w) == IF c.kind = "read" THEN Answered(c, w) ELSE SilenceChanged(c, w)

SilencePolicyMount(w) == LoadSilences(w)

OnSilencePolicy == page = "SilencePolicy"

ReloadSilences == OnSilencePolicy /\ ui.dialog = None /\ Become({LoadSilences(World)})

OpenSilencePolicy(kind, r) ==
    /\ OnSilencePolicy /\ ui.dialog = None
    /\ Openable(kind, r)
    /\ Become({Open(World, kind, r)})

CloseSilencePolicy == OnSilencePolicy /\ ui.dialog # None /\ Become({Close(World)})

SubmitSilence ==
    /\ OnSilencePolicy /\ Form /\ "submit" \notin ui.busy
    /\ Become({IF FormSends THEN Submit(World, "submit") ELSE LoadSilences(CloseForm(World))})

DeleteSilence ==
    /\ OnSilencePolicy /\ Dialog("delete") /\ "delete" \notin ui.busy
    /\ Become({Write(World, "delete", {ui.dialog.row}, "delete", "none")})

SilencePolicyNext ==
    \/ ReloadSilences \/ CloseSilencePolicy \/ SubmitSilence \/ DeleteSilence
    \/ \E r \in Row \cup {None} : \E kind \in {"create", "edit", "delete"} : OpenSilencePolicy(kind, r)

----------------------------------------------------------------------------
(* NotificationConfig.  held is the cache of notification.ts.  A load that  *)
(* could join another finds the cache filled or just emptied, so none does. *)

ChannelEffect(kind, s) ==
    CASE kind = "enable" -> "enabled"
      [] kind = "disable" -> "disabled"
      [] kind = "delete" -> "gone"
      [] kind = "test" -> "same"
      [] OTHER -> s

Invalidate(w) == [w EXCEPT !.ui.held = None]

\* fetchNotificationChannels for loadChannels, and what is awaited after it.
FetchChannels(w, force, flag) ==
    IF force \/ w.ui.held = None THEN Await(w, "list", FirstView, flag, "none")
    ELSE Idle([w EXCEPT !.ui.list.shown = w.ui.held, !.ui.list.loading = FALSE,
                        !.ui.list.failed = FALSE], flag)

\* An answer fills the cache, also when it was emptied since the call.
CacheChannels(c, w) == IF c.ok THEN [w EXCEPT !.ui.held = c.at] ELSE w

\* createNotificationChannel and updateNotificationChannel read the channels
\* again before they succeed, so the change is not known before that.
ChannelChanged(c, w) ==
    CASE c.kind = "test" -> [w EXCEPT !.ui.busy = @ \ Row]
      [] c.kind # "test" /\ ~c.ok -> Idle(w, c.flag)
      [] c.kind = "delete" /\ c.ok -> FetchChannels(CloseDelete(Invalidate(w)), FALSE, c.flag)
      [] OTHER -> LET next == [Invalidate(w) EXCEPT !.ui.known = ui.known]
                  IN  Send(next, [NewCall EXCEPT !.of = FirstView, !.rows = c.done, !.flag = c.flag,
                                                 !.then = "reread", !.since = w.ui.known])

\* loadChannels then finds what was read in the cache; without the channel
\* the change counts as failed.
ChannelsReread(c, w) ==
    IF c.ok /\ \A r \in c.rows : c.at.status[r] # "gone"
    THEN LET next == [w EXCEPT !.ui.known = c.since]
         IN  FetchChannels(IF c.flag = "none" THEN next ELSE CloseForm(next), FALSE, c.flag)
    ELSE Idle(w, c.flag)

NotificationConfigAnswer(c, w) ==
    CASE c.kind # "read" -> ChannelChanged(c, w)
      [] c.kind = "read" /\ c.then = "reread" -> ChannelsReread(c, CacheChannels(c, w))
      [] OTHER -> Idle(Answered(c, CacheChannels(c, w)), c.flag)

NotificationConfigMount(w) == FetchChannels(w, FALSE, "none")

OnNotificationConfig == page = "NotificationConfig" /\ WholePage

\* The refresh button and the retry of the error page.
ReloadChannels ==
    /\ page = "NotificationConfig" /\ ~SpinnerOnly /\ (WholePage => ui.dialog = None)
    /\ Become({FetchChannels(World, TRUE, "none")})

OpenChannel(kind, r) ==
    /\ OnNotificationConfig /\ ui.dialog = None
    /\ Openable(kind, r)
    /\ Become({Open(World, kind, r)})

CloseChannel == OnNotificationConfig /\ ui.dialog # None /\ Become({Close(World)})

SubmitChannel ==
    /\ OnNotificationConfig /\ Form /\ "submit" \notin ui.busy
    /\ Become({IF FormSends THEN Submit(World, "submit") ELSE FetchChannels(CloseForm(World), FALSE, "none")})

DeleteChannel ==
    /\ OnNotificationConfig /\ Dialog("delete") /\ "submit" \notin ui.busy
    /\ Become({Write(World, "delete", {ui.dialog.row}, "submit", "none")})

ToggleChannel(r) ==
    /\ OnNotificationConfig /\ ui.dialog = None /\ r \in Shown
    /\ LET kind == IF StatusOf(r) = "enabled" THEN "disable" ELSE "enable"
       IN  Become({Write(World, kind, {r}, "none", "none")})

\* testingId names one channel: the test of another one takes its place.
TestChannel(r) ==
    /\ OnNotificationConfig /\ ui.dialog = None /\ r \in Shown
    /\ StatusOf(r) = "enabled" /\ r \notin ui.busy
    /\ LET w == Write(World, "test", {r}, "none", "none")
       IN  Become({[w EXCEPT !.ui.busy = (@ \ Row) \cup {r}]})

NotificationConfigNext ==
    \/ ReloadChannels \/ CloseChannel \/ SubmitChannel \/ DeleteChannel
    \/ \E r \in Row \cup {None} : \E kind \in {"create", "edit", "delete"} : OpenChannel(kind, r)
    \/ \E r \in Row : ToggleChannel(r) \/ TestChannel(r)
=============================================================================
