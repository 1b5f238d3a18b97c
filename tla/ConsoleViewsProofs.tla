-------------------------- MODULE ConsoleViewsProofs --------------------------
(***************************************************************************)
(* Proofs about ConsoleViews for any pages, rows, views, rights, numbers   *)
(* of calls and acts of other users.                                       *)
(*                                                                         *)
(* A handler is a chain of operators on the world, so the invariant is     *)
(* stated of a world and of the button that the running handler holds      *)
(* (Safe), and there is a lemma for each operator of ConsolePage; the      *)
(* lemmas of a page follow its handlers through these.                     *)
(***************************************************************************)
EXTENDS ConsoleViews, TLAPS

(***************************************************************************)
(* The shape of a world: records with all of their fields.  What a panel   *)
(* shows, and what a read will answer, is a snapshot of the server's rows. *)
(***************************************************************************)
UiFields == {"view", "list", "side", "sel", "dialog", "busy", "flight", "held", "hidden",
             "known", "started"}
PanelFields == {"of", "shown", "loading", "failed", "latest"}
CallFields == {"id", "kind", "panel", "of", "rows", "flag", "then", "ok", "done", "missing",
               "at", "since"}
WorldFields == {"ui", "calls", "store", "version"}

IsSnapshot(s) == s = [x \in {"of", "status", "version"} |-> s[x]]

IsCall(c) ==
    /\ c = [x \in CallFields |-> c[x]]
    /\ c.id \in Nat /\ c.panel \in Panels /\ c.flag \in Flags \cup {"none"}
    /\ c.kind = "read" => IsSnapshot(c.at) /\ c.at.of = c.of

IsPanel(q) ==
    /\ q = [x \in PanelFields |-> q[x]]
    /\ q.latest \in Nat
    /\ q.shown # None => IsSnapshot(q.shown)

IsUi(u) ==
    /\ u = [x \in UiFields |-> u[x]]
    /\ IsPanel(u.list) /\ IsPanel(u.side) /\ u.started \in Nat

IsWorld(w) ==
    /\ w = [x \in WorldFields |-> w[x]]
    /\ IsUi(w.ui) /\ \A c \in w.calls : IsCall(c)

----------------------------------------------------------------------------
(***************************************************************************)
(* Which pages do what.  LatestPages number their loads, OnePages load one *)
(* thing only, QueryPages join loads of the same address.                  *)
(***************************************************************************)
ChannelPages == {"NotificationConfig", "WebhookManagement"}
QueryPages == {"SearchHistory", "SavedQueries", "ReportManagement"}
LatestPages == {"AlertList", "AuditLogs", "SearchHistory", "SavedQueries"}
OnePages == {"RolePermissions", "LoginPolicy", "ReportManagement"}
Ordered == page \in InOrder \cup LatestPages

\* A panel that is only ever loaded with one thing.
Fixed(p, o) == \/ page \in OnePages \cup {"NotificationConfig"} /\ o = FirstView
               \/ page = "BackupRecovery" /\ p = "side" /\ o = "repositories"

\* The calls whose row is marked busy, and the flag that may be held twice.
Marks(kind) ==
    \/ page \in ChannelPages /\ kind = "test"
    \/ page = "IncidentArchive" /\ kind = "export"
    \/ page = "SourceStatus" /\ kind = "run"
    \/ page = "BackupRecovery" /\ kind = "delete"
    \/ page = "DownloadRecords" /\ kind = "download"
    \/ page = "ReportManagement" /\ kind = "generate"
Loose(f) == page = "UserManagement" /\ f = "act"

\* The calls that may hold a button: their answer frees it or hands it on.
MayHold(kind, panel, flag, then) ==
    \/ page = "AlertList" /\ flag = "batch"
    \/ page \in {"AlertRules", "UserManagement"} /\ panel = "list"
    \/ page \in {"SilencePolicy", "AuditLogs", "LoginPolicy", "AgentManagement", "AccessWizard",
                 "DeadLetters"} /\ kind # "read"
    \/ page = "NotificationConfig" /\ kind # "test"
    \/ page = "WebhookManagement" /\ kind \notin {"test", "delete"}
    \/ page = "IncidentList" /\ kind # "create"
    \/ page = "IncidentDetail" /\ flag = "act"
    \/ page \in {"SearchHistory", "SavedQueries"} /\ kind = "read" /\ flag = "retry"
    \/ page = "SearchHistory" /\ kind = "delete" /\ then = "batch"
    \/ page = "SavedQueries" /\ kind = "update" /\ then = "cleanup"
    \/ page = "SourceManagement" /\ kind \in {"delete", "create", "update"}
    \/ page = "BackupRecovery" /\ kind \in {"create", "restore"}
    \/ page = "DownloadRecords" /\ kind = "create"
    \/ page = "ReportManagement" /\ kind # "generate" /\ flag = "save"

\* The pages that only read.
ReadPages == {"IncidentTimeline", "IncidentAnalysis", "IncidentSLA", "IncidentArchiveReport",
              "RolePermissions", "Dashboard", "IndexManagement", "LifecyclePolicy",
              "CapacityMonitoring", "PerformanceMonitoring", "Receipts", "TaskDetail", "PackageDetail"}

CallOK(c) ==
    /\ c.flag = "none" \/ MayHold(c.kind, c.panel, c.flag, c.then)
    /\ c.then = "reread" => page \in ChannelPages /\ c.kind = "read" /\ c.panel = "list"
    /\ page = "AlertList" /\ c.then = "single" => c.flag = "batch"
    /\ page = "IncidentDetail" /\ c.kind # "read" => c.flag = "act"
    /\ page = "UserManagement" /\ c.kind # "read" =>
          /\ c.flag \in {"act", "batch"}
          /\ c.since # None => c.flag = "act" /\ c.since \in Seq({"update", "grant", "revoke"}) \ {<<>>}
    /\ c.kind = "read" \/ page \notin ReadPages
    /\ page \in {"IncidentArchive", "AuditLogs"} => c.kind \in {"read", "export"}
    /\ page = "IncidentArchive" /\ c.kind = "export" => \E r \in Row : c.rows = {r}
    /\ page = "AccessWizard" => c.kind \in {"read", "create"}
    /\ page = "DownloadRecords" => c.kind \in {"read", "create", "download"}
    /\ page = "BackupRecovery" => c.kind \in {"read", "create", "restore", "cancel", "delete"}
    /\ page = "SourceStatus" => c.kind \in {"read", "timer", "run"}
    /\ page \in QueryPages \cup {"NotificationConfig", "AuditLogs"} => c.panel = "list"
    /\ c.kind = "read" => \A o \in {FirstView, "repositories"} : Fixed(c.panel, o) => c.of = o

----------------------------------------------------------------------------
(***************************************************************************)
(* What is true of a component u and the calls C it waits for, while the   *)
(* handler that runs holds the button f.                                   *)
(***************************************************************************)
Loads(c, p) == c.kind = "read" /\ c.panel = p /\ c.then # "reread"
Last(u, c, p) == Loads(c, p) /\ c.id = u[p].latest
Waits(u, C, p) == \E c \in C : Last(u, c, p) /\ c.of = u[p].of

\* Spinners wait for the load that was asked for last.
Spinning(u, C) == \A p \in Panels : u[p].loading => Waits(u, C, p)

\* What is busy waits for a call, or for the handler that runs.
Holds(c, b) == IF b \in Row THEN Marks(c.kind) /\ b \in c.rows ELSE c.flag = b

Busy(u, C, f) ==
    /\ \A b \in u.busy : b # "none" /\ (b = f \/ \E c \in C : Holds(c, b))
    /\ page = "IncidentArchive" => \A a, b \in u.busy : a = b

\* A button is held once.
Once(u, C, f) ==
    /\ f \in Flags \cup {"none"}
    /\ \A c \in C : c.flag # "none" /\ ~Loose(c.flag) => c.flag \in u.busy
    /\ \A c, d \in C : c.flag = d.flag /\ c.flag # "none" /\ ~Loose(c.flag) => c = d
    /\ f # "none" /\ ~Loose(f) => f \in u.busy /\ \A c \in C : c.flag # f

\* Calls have numbers of their own, and queries are not read twice at a time.
Numbers(u, C) ==
    /\ \A c \in C : CallOK(c) /\ c.id <= u.started
    /\ \A p \in Panels : u[p].latest <= u.started
    /\ \A c, d \in C : c.id = d.id => c = d
    /\ page \in QueryPages =>
          \A c, d \in C : c.kind = "read" /\ d.kind = "read" /\ c.of = d.of => c = d

\* The number of the last load is that of a load of what was asked for.
Newest(u, C) ==
    page = "IncidentTimeline" \/ \A p \in Panels, c \in C : Last(u, c, p) => c.of = u[p].of

\* A panel shows what was asked for last, or waits for it.
Settled(q) == q.shown = None \/ q.failed \/ q.of = None \/ q.shown.of = q.of

Asked(u, C) ==
    /\ Ordered => \A p \in Panels : Waits(u, C, p) \/ Settled(u[p])
    /\ page \in InOrder =>
          \A p \in Panels, c \in C : Loads(c, p) =>
              /\ c.id <= u[p].latest
              /\ Waits(u, C, p) \/ (page = "IncidentTimeline" /\ p = "side" /\ u[p].of = None)
    /\ \A p \in Panels, o \in {FirstView, "repositories"} : Fixed(p, o) =>
          u[p].of \in {None, o} /\ (u[p].shown # None => u[p].shown.of = o)

\* A selection is on the screen.
Selectable(sel, list) ==
    IF page \in {"AlertList", "DeadLetters"} THEN sel \subseteq RowsOf(list)
    ELSE page \in {"IncidentList", "SearchHistory", "UserManagement", "AccessWizard"} \/ sel = {}
Selected(u) == Selectable(u.sel, u.list)

\* Questions and forms of some pages.
Askable(dialog, busy) == dialog # None =>
    /\ page = "SavedQueries" /\ dialog.kind = "cleanup" => "cleanup" \notin busy
    /\ page = "IncidentList" =>
          dialog.kind \in {"assign", "acknowledge", "investigate", "resolve", "archive", "delete"}
    /\ page = "IncidentDetail" => dialog.kind \in {"update", "archive"}
DialogOK(u) == Askable(u.dialog, u.busy)

Holdable(held) ==
    /\ page = "LoginPolicy" => held \in [from : {"default", "tenant", "reset"}, edited : BOOLEAN]
    /\ page = "NotificationConfig" /\ held # None => IsSnapshot(held) /\ held.of = FirstView
HeldOK(u) == Holdable(u.held)

Sound(u, C, f) ==
    /\ Spinning(u, C) /\ Busy(u, C, f) /\ Once(u, C, f) /\ Numbers(u, C) /\ Newest(u, C)
    /\ Asked(u, C) /\ Selected(u) /\ DialogOK(u) /\ HeldOK(u)

\* The world of a handler that holds the button f.
Safe(w, f) == IsWorld(w) /\ Sound(w.ui, w.calls, f)

ViewsInv == page \in Page /\ Safe(World, "none")


----------------------------------------------------------------------------
(***************************************************************************)
(* What a handler keeps when it sets a few fields of the component.        *)
(***************************************************************************)

\* n is a world whose component differs from that of w in X alone.
Alike(w, n, X) ==
    /\ n = [x \in WorldFields |-> n[x]] /\ n.ui = [x \in UiFields |-> n.ui[x]]
    /\ \A x \in UiFields \ X : n.ui[x] = w.ui[x]

Asides == {"view", "sel", "dialog", "held", "hidden", "flight", "known"}

\* What an assignment of asides has to see to.
AsidesOK(u) == Selected(u) /\ DialogOK(u) /\ HeldOK(u)

\* The fields that the invariant looks at are those of the panels, of the
\* buttons and of the counter.
LEMMA AsideKept ==
    ASSUME NEW w, NEW f, Safe(w, f), NEW n, Alike(w, n, Asides), n.calls = w.calls, AsidesOK(n.ui)
    PROVE  Safe(n, f)
<1>1. n.ui.list = w.ui.list /\ n.ui.side = w.ui.side /\ n.ui.busy = w.ui.busy
      /\ n.ui.started = w.ui.started
    BY DEF Alike, Asides, UiFields
<1>2. \A p \in Panels : n.ui[p] = w.ui[p]
    BY <1>1 DEF Panels
<1>3. IsWorld(n)
    BY <1>1 DEF Alike, Safe, IsWorld, IsUi
<1>4. Spinning(n.ui, n.calls) /\ Newest(n.ui, n.calls) /\ Asked(n.ui, n.calls)
    BY <1>2 DEF Safe, Sound, Spinning, Newest, Asked, Waits, Last
<1>5. Busy(n.ui, n.calls, f) /\ Once(n.ui, n.calls, f) /\ Numbers(n.ui, n.calls)
    BY <1>1, <1>2 DEF Safe, Sound, Busy, Once, Numbers
<1> QED
    BY <1>3, <1>4, <1>5 DEF Safe, Sound, AsidesOK

\* Assignments of one field.
LEMMA SetFields ==
    ASSUME NEW w, NEW f, Safe(w, f), NEW x
    PROVE  /\ Safe([w EXCEPT !.ui.view = x], f)
           /\ Safe([w EXCEPT !.ui.flight = x], f)
           /\ Safe([w EXCEPT !.ui.hidden = x], f)
           /\ Safe([w EXCEPT !.ui.known = x], f)
<1>1. Safe([w EXCEPT !.ui.view = x], f)
  <2> DEFINE n == [w EXCEPT !.ui.view = x]
  <2>1. n.calls = w.calls /\ Alike(w, n, {"view"}) BY DEF Safe, IsWorld, IsUi, Alike, WorldFields, UiFields
  <2> HIDE DEF n
  <2>2. Alike(w, n, Asides) BY <2>1 DEF Alike, Asides
  <2>3. AsidesOK(n.ui)
      BY <2>1 DEF Alike, UiFields, AsidesOK, Safe, Sound, Selected, DialogOK, HeldOK
  <2>4. Safe(n, f) BY <2>1, <2>2, <2>3, AsideKept
  <2> QED BY <2>4 DEF n
<1>2. Safe([w EXCEPT !.ui.flight = x], f)
  <2> DEFINE n == [w EXCEPT !.ui.flight = x]
  <2>1. n.calls = w.calls /\ Alike(w, n, {"flight"}) BY DEF Safe, IsWorld, IsUi, Alike, WorldFields, UiFields
  <2> HIDE DEF n
  <2>2. Alike(w, n, Asides) BY <2>1 DEF Alike, Asides
  <2>3. AsidesOK(n.ui)
      BY <2>1 DEF Alike, UiFields, AsidesOK, Safe, Sound, Selected, DialogOK, HeldOK
  <2>4. Safe(n, f) BY <2>1, <2>2, <2>3, AsideKept
  <2> QED BY <2>4 DEF n
<1>3. Safe([w EXCEPT !.ui.hidden = x], f)
  <2> DEFINE n == [w EXCEPT !.ui.hidden = x]
  <2>1. n.calls = w.calls /\ Alike(w, n, {"hidden"}) BY DEF Safe, IsWorld, IsUi, Alike, WorldFields, UiFields
  <2> HIDE DEF n
  <2>2. Alike(w, n, Asides) BY <2>1 DEF Alike, Asides
  <2>3. AsidesOK(n.ui)
      BY <2>1 DEF Alike, UiFields, AsidesOK, Safe, Sound, Selected, DialogOK, HeldOK
  <2>4. Safe(n, f) BY <2>1, <2>2, <2>3, AsideKept
  <2> QED BY <2>4 DEF n
<1>4. Safe([w EXCEPT !.ui.known = x], f)
  <2> DEFINE n == [w EXCEPT !.ui.known = x]
  <2>1. n.calls = w.calls /\ Alike(w, n, {"known"}) BY DEF Safe, IsWorld, IsUi, Alike, WorldFields, UiFields
  <2> HIDE DEF n
  <2>2. Alike(w, n, Asides) BY <2>1 DEF Alike, Asides
  <2>3. AsidesOK(n.ui)
      BY <2>1 DEF Alike, UiFields, AsidesOK, Safe, Sound, Selected, DialogOK, HeldOK
  <2>4. Safe(n, f) BY <2>1, <2>2, <2>3, AsideKept
  <2> QED BY <2>4 DEF n
<1> QED BY <1>1, <1>2, <1>3, <1>4

\* A selection of rows that are shown.
LEMMA SetSelection ==
    ASSUME NEW w, NEW f, Safe(w, f), NEW rows, Selectable(rows, w.ui.list)
    PROVE  Safe([w EXCEPT !.ui.sel = rows], f)
<1> DEFINE n == [w EXCEPT !.ui.sel = rows]
<1>1. n.calls = w.calls /\ n.ui.sel = rows /\ Alike(w, n, {"sel"})
    BY DEF Safe, IsWorld, IsUi, Alike, WorldFields, UiFields
<1> HIDE DEF n
<1>2. Alike(w, n, Asides) BY <1>1 DEF Alike, Asides
<1>3. AsidesOK(n.ui)
    BY <1>1 DEF Alike, UiFields, AsidesOK, Safe, Sound, Selected, DialogOK, HeldOK
<1>4. Safe(n, f) BY <1>1, <1>2, <1>3, AsideKept
<1> QED BY <1>4 DEF n

\* Nothing is selected, whatever the page.
LEMMA Unselected ==
    ASSUME NEW w, NEW f, Safe(w, f)
    PROVE  Safe([w EXCEPT !.ui.sel = {}], f)
BY SetSelection DEF Selectable

\* A dialog of a kind that the page asks.
LEMMA SetDialog ==
    ASSUME NEW w, NEW f, Safe(w, f), NEW d, Askable(d, w.ui.busy)
    PROVE  Safe([w EXCEPT !.ui.dialog = d], f)
<1> DEFINE n == [w EXCEPT !.ui.dialog = d]
<1>1. n.calls = w.calls /\ n.ui.dialog = d /\ Alike(w, n, {"dialog"})
    BY DEF Safe, IsWorld, IsUi, Alike, WorldFields, UiFields
<1> HIDE DEF n
<1>2. Alike(w, n, Asides) BY <1>1 DEF Alike, Asides
<1>3. AsidesOK(n.ui)
    BY <1>1 DEF Alike, UiFields, AsidesOK, Safe, Sound, Selected, DialogOK, HeldOK
<1>4. Safe(n, f) BY <1>1, <1>2, <1>3, AsideKept
<1> QED BY <1>4 DEF n

\* What the page keeps aside.
LEMMA SetHeld ==
    ASSUME NEW w, NEW f, Safe(w, f), NEW x, Holdable(x)
    PROVE  Safe([w EXCEPT !.ui.held = x], f)
<1> DEFINE n == [w EXCEPT !.ui.held = x]
<1>1. n.calls = w.calls /\ n.ui.held = x /\ Alike(w, n, {"held"})
    BY DEF Safe, IsWorld, IsUi, Alike, WorldFields, UiFields
<1> HIDE DEF n
<1>2. Alike(w, n, Asides) BY <1>1 DEF Alike, Asides
<1>3. AsidesOK(n.ui)
    BY <1>1 DEF Alike, UiFields, AsidesOK, Safe, Sound, Selected, DialogOK, HeldOK
<1>4. Safe(n, f) BY <1>1, <1>2, <1>3, AsideKept
<1> QED BY <1>4 DEF n

\* A new view starts without a selection.
LEMMA SetView ==
    ASSUME NEW w, NEW f, Safe(w, f), NEW v
    PROVE  Safe([w EXCEPT !.ui.view = v, !.ui.sel = {}], f)
<1> DEFINE n == [w EXCEPT !.ui.view = v, !.ui.sel = {}]
<1>1. n.calls = w.calls /\ n.ui.sel = {} /\ Alike(w, n, {"view", "sel"})
    BY DEF Safe, IsWorld, IsUi, Alike, WorldFields, UiFields
<1> HIDE DEF n
<1>2. Alike(w, n, Asides) BY <1>1 DEF Alike, Asides
<1>3. AsidesOK(n.ui)
    BY <1>1 DEF Alike, UiFields, AsidesOK, Safe, Sound, Selected, Selectable, DialogOK, HeldOK
<1>4. Safe(n, f) BY <1>1, <1>2, <1>3, AsideKept
<1> QED BY <1>4 DEF n

\* A new view with what goes with it.
LEMMA SetViewHeld ==
    ASSUME NEW w, NEW f, Safe(w, f), NEW v, NEW x, Holdable(x)
    PROVE  Safe([w EXCEPT !.ui.view = v, !.ui.held = x], f)
<1> DEFINE n == [w EXCEPT !.ui.view = v, !.ui.held = x]
<1>1. n.calls = w.calls /\ n.ui.held = x /\ Alike(w, n, {"view", "held"})
    BY DEF Safe, IsWorld, IsUi, Alike, WorldFields, UiFields
<1> HIDE DEF n
<1>2. Alike(w, n, Asides) BY <1>1 DEF Alike, Asides
<1>3. AsidesOK(n.ui)
    BY <1>1 DEF Alike, UiFields, AsidesOK, Safe, Sound, Selected, DialogOK, HeldOK
<1>4. Safe(n, f) BY <1>1, <1>2, <1>3, AsideKept
<1> QED BY <1>4 DEF n


\* Dialogs can be closed on every page.
LEMMA Closing ==
    ASSUME NEW w, NEW f, Safe(w, f)
    PROVE  /\ Safe(Close(w), f) /\ Safe(CloseForm(w), f) /\ Safe(CloseQuestion(w), f)
           /\ \A kind : Safe(CloseKind(w, kind), f) /\ Safe(CloseOnly(w, kind), f)
<1>1. Safe(Close(w), f)
    BY SetDialog DEF Close, Askable
<1> QED
    BY <1>1, Zenon DEF CloseForm, CloseQuestion, CloseKind, CloseOnly

\* The pages that ask nothing of what their dialogs are.
FormPages == {"AlertList", "AlertRules", "SilencePolicy", "NotificationConfig", "WebhookManagement",
              "UserManagement", "RolePermissions", "SourceManagement", "SourceStatus",
              "AgentManagement", "AccessWizard", "DeadLetters", "BackupRecovery",
              "DownloadRecords", "ReportManagement", "HealthCheck"}

\* A dialog is opened.
LEMMA Opening ==
    ASSUME NEW w, NEW f, Safe(w, f), page \in FormPages, NEW kind, NEW r
    PROVE  Safe(Open(w, kind, r), f)
BY SetDialog DEF Open, Askable, FormPages

\* The answer of a deletion closes its question, or takes the row from a form.
LEMMA ClosingDelete ==
    ASSUME NEW w, NEW f, Safe(w, f), page \in FormPages
    PROVE  Safe(CloseDelete(w), f)
<1>1. Safe(Close(w), f)
    BY Closing
<1> DEFINE n == [w EXCEPT !.ui.dialog.row = None]
<1>2. n.calls = w.calls /\ Alike(w, n, {"dialog"})
    BY DEF Safe, IsWorld, IsUi, Alike, WorldFields, UiFields
<1> HIDE DEF n
<1>3. Alike(w, n, Asides) BY <1>2 DEF Alike, Asides
<1>4. AsidesOK(n.ui)
    BY <1>2 DEF Alike, UiFields, AsidesOK, Safe, Sound, Selected, DialogOK, Askable, FormPages, HeldOK
<1>5. Safe(n, f) BY <1>2, <1>3, <1>4, AsideKept
<1> QED BY <1>1, <1>5, Zenon DEF n, CloseDelete

----------------------------------------------------------------------------
(***************************************************************************)
(* Calls that are sent.                                                    *)
(***************************************************************************)

\* A call whose number is its own.
Sent(w, n, c) ==
    /\ n.calls = w.calls \cup {c} /\ c.id = w.ui.started + 1 /\ n.ui.started = w.ui.started + 1
    /\ IsCall(c) /\ CallOK(c)

\* Who holds the buttons of n, where the handler held f and holds g now: the
\* call was given the button, or takes one that was free, or none.
Given(c, f, g) == c.flag = f /\ g = "none"
Taken(w, c, f, g) ==
    f = "none" /\ g = "none" /\ (c.flag # "none" /\ ~Loose(c.flag) => c.flag \notin w.ui.busy)
Flagged(w, n, c, f, g) ==
    /\ Given(c, f, g) \/ Taken(w, c, f, g) \/ (c.flag = "none" /\ g = f)
    /\ \A b \in n.ui.busy : b # "none" /\ (b \in w.ui.busy \/ Holds(c, b))
    /\ \A b \in w.ui.busy : b \notin Row => b \in n.ui.busy
    /\ c.flag # "none" /\ ~Loose(c.flag) => c.flag \in n.ui.busy
    /\ page = "IncidentArchive" => n.ui.busy = w.ui.busy \/ \A a, b \in n.ui.busy : a = b

\* Flags are no rows.
LEMMA FlagsApart ==
    \A b \in Flags \cup {"none"} : b \notin Row
BY PageAssumption

\* The buttons after a call is sent: it is given the one of its handler, or takes one.
LEMMA SentBusy ==
    ASSUME NEW w, NEW f, NEW n, NEW c, NEW g, Safe(w, f), Sent(w, n, c), Flagged(w, n, c, f, g)
    PROVE  Busy(n.ui, n.calls, g) /\ Once(n.ui, n.calls, g)
<1>0. c.flag \in Flags \cup {"none"} /\ c.flag \notin Row
    BY FlagsApart DEF Sent, IsCall
<1>1. Busy(n.ui, n.calls, g)
  <2>1. ASSUME NEW b \in n.ui.busy
        PROVE  b # "none" /\ (b = g \/ \E d \in n.calls : Holds(d, b))
    <3>1. CASE Holds(c, b)
        BY <3>1 DEF Flagged, Sent
    <3>2. CASE b \in w.ui.busy /\ b = f
      <4>1. b # "none" BY <3>2 DEF Safe, Sound, Busy
      <4>2. CASE Given(c, f, g)
          BY <3>2, <4>1, <4>2, <1>0 DEF Given, Holds, Sent
      <4>3. CASE ~Given(c, f, g)
          BY <3>2, <4>1, <4>3 DEF Flagged, Taken
      <4> QED BY <4>2, <4>3
    <3>3. CASE b \in w.ui.busy /\ b # f
        BY <3>3 DEF Safe, Sound, Busy, Sent
    <3> QED BY <3>1, <3>2, <3>3 DEF Flagged
  <2>2. page = "IncidentArchive" => \A a, b \in n.ui.busy : a = b
      BY DEF Flagged, Safe, Sound, Busy
  <2> QED BY <2>1, <2>2 DEF Busy
<1>2. \A d \in n.calls : d.flag # "none" /\ ~Loose(d.flag) => d.flag \in n.ui.busy
  <2> SUFFICES ASSUME NEW d \in n.calls, d.flag # "none", ~Loose(d.flag)
               PROVE  d.flag \in n.ui.busy
      OBVIOUS
  <2>1. CASE d = c
      BY <2>1 DEF Flagged
  <2>2. CASE d \in w.calls
    <3>1. d.flag \in w.ui.busy BY <2>2 DEF Safe, Sound, Once
    <3>2. d.flag \notin Row
        BY <2>2, FlagsApart DEF Safe, IsWorld, IsCall
    <3> QED BY <3>1, <3>2 DEF Flagged
  <2> QED BY <2>1, <2>2 DEF Sent
<1>3. ASSUME c.flag # "none", ~Loose(c.flag), NEW d \in w.calls
      PROVE  d.flag # c.flag
  <2>1. CASE Given(c, f, g)
      BY <2>1, <1>3 DEF Given, Safe, Sound, Once
  <2>2. CASE Taken(w, c, f, g)
      BY <2>2, <1>3 DEF Taken, Safe, Sound, Once
  <2> QED BY <2>1, <2>2, <1>3 DEF Flagged
<1>4. \A d, e \in n.calls : d.flag = e.flag /\ d.flag # "none" /\ ~Loose(d.flag) => d = e
  <2> SUFFICES ASSUME NEW d \in n.calls, NEW e \in n.calls, d.flag = e.flag,
                      d.flag # "none", ~Loose(d.flag)
               PROVE  d = e
      OBVIOUS
  <2>1. d = c \/ d \in w.calls BY DEF Sent
  <2>2. e = c \/ e \in w.calls BY DEF Sent
  <2> QED BY <2>1, <2>2, <1>3 DEF Safe, Sound, Once
<1>5. g # "none" /\ ~Loose(g) => g \in n.ui.busy /\ \A d \in n.calls : d.flag # g
  <2> SUFFICES ASSUME g # "none", ~Loose(g) PROVE g \in n.ui.busy /\ \A d \in n.calls : d.flag # g
      OBVIOUS
  <2>1. c.flag = "none" /\ g = f BY DEF Flagged, Given, Taken
  <2>2. g \in w.ui.busy /\ \A d \in w.calls : d.flag # g
      BY <2>1 DEF Safe, Sound, Once
  <2>3. g \notin Row
      BY <2>1, FlagsApart DEF Safe, Sound, Once
  <2> QED BY <2>1, <2>2, <2>3 DEF Flagged, Sent
<1>6. g \in Flags \cup {"none"}
    BY DEF Flagged, Given, Taken, Safe, Sound, Once
<1> QED BY <1>1, <1>2, <1>4, <1>5, <1>6 DEF Once

\* The number of a call that is sent is larger than those before it.
LEMMA SentNumber ==
    ASSUME NEW w, NEW f, NEW n, NEW c, Safe(w, f), Sent(w, n, c)
    PROVE  /\ w.ui.started \in Nat /\ n.ui.started \in Nat /\ n.ui.started = w.ui.started + 1
           /\ c.id \in Nat /\ c.id = n.ui.started
           /\ \A d \in w.calls : d.id \in Nat /\ d.id <= w.ui.started /\ d.id < c.id
           /\ \A p \in Panels : w.ui[p].latest \in Nat /\ w.ui[p].latest < n.ui.started
<1>1. w.ui.started \in Nat BY DEF Safe, IsWorld, IsUi
<1>2. c.id = w.ui.started + 1 /\ n.ui.started = w.ui.started + 1 BY DEF Sent
<1>3. \A d \in w.calls : d.id \in Nat BY DEF Safe, IsWorld, IsCall
<1>4. \A d \in w.calls : d.id <= w.ui.started BY DEF Safe, Sound, Numbers
<1>5. \A p \in Panels : w.ui[p].latest <= w.ui.started BY DEF Safe, Sound, Numbers
<1>6. \A p \in Panels : w.ui[p].latest \in Nat BY DEF Safe, IsWorld, IsUi, Panels, IsPanel
<1> QED BY <1>1, <1>2, <1>3, <1>4, <1>5, <1>6

\* A world with a call more.
LEMMA SentWorld ==
    ASSUME NEW w, NEW f, NEW n, NEW c, Safe(w, f), Sent(w, n, c),
           Alike(w, n, Asides \cup {"busy", "started", "list", "side"}),
           IsPanel(n.ui.list), IsPanel(n.ui.side)
    PROVE  IsWorld(n)
<1>1. n.ui.started \in Nat BY SentNumber
<1>2. \A d \in n.calls : IsCall(d) BY DEF Sent, Safe, IsWorld
<1> QED BY <1>1, <1>2 DEF Alike, IsWorld, IsUi

\* The numbers of the calls after one is sent.
LEMMA SentNumbers ==
    ASSUME NEW w, NEW f, NEW n, NEW c, Safe(w, f), Sent(w, n, c), IsWorld(n),
           \A p \in Panels : n.ui[p].latest <= n.ui.started,
           page \in QueryPages /\ c.kind = "read" => \A d \in w.calls : d.kind = "read" => d.of # c.of
    PROVE  Numbers(n.ui, n.calls)
<1>1. w.ui.started \in Nat /\ \A d \in w.calls : d.id \in Nat /\ d.id <= w.ui.started /\ d.id < c.id
    BY SentNumber
<1>2. \A d \in n.calls : CallOK(d) /\ d.id <= n.ui.started
    BY <1>1 DEF Sent, Safe, Sound, Numbers
<1>3. \A d, e \in n.calls : d.id = e.id => d = e
  <2> SUFFICES ASSUME NEW d \in n.calls, NEW e \in n.calls, d.id = e.id PROVE d = e
      OBVIOUS
  <2>1. (d = c \/ d \in w.calls) /\ (e = c \/ e \in w.calls) BY DEF Sent
  <2> QED BY <1>1, <2>1 DEF Safe, Sound, Numbers
<1>4. page \in QueryPages =>
          \A d, e \in n.calls : d.kind = "read" /\ e.kind = "read" /\ d.of = e.of => d = e
  <2> SUFFICES ASSUME page \in QueryPages, NEW d \in n.calls, NEW e \in n.calls,
                      d.kind = "read", e.kind = "read", d.of = e.of
               PROVE  d = e
      OBVIOUS
  <2>1. (d = c \/ d \in w.calls) /\ (e = c \/ e \in w.calls) BY DEF Sent
  <2> QED BY <2>1 DEF Safe, Sound, Numbers
<1> QED BY <1>2, <1>3, <1>4 DEF Numbers

\* A call that is no load leaves the panels as they are.
LEMMA SendingOther ==
    ASSUME NEW w, NEW f, NEW n, NEW c, NEW g, Safe(w, f), Sent(w, n, c), Flagged(w, n, c, f, g),
           Alike(w, n, Asides \cup {"busy", "started"}), AsidesOK(n.ui),
           c.kind # "read" \/ c.then = "reread"
    PROVE  Safe(n, g)
<1>1. n.ui.list = w.ui.list /\ n.ui.side = w.ui.side
    BY DEF Alike, Asides, UiFields
<1>2. \A p \in Panels : n.ui[p] = w.ui[p]
    BY <1>1 DEF Panels
<1>3. IsWorld(n)
  <2>1. IsPanel(n.ui.list) /\ IsPanel(n.ui.side) BY <1>1 DEF Safe, IsWorld, IsUi
  <2>2. Alike(w, n, Asides \cup {"busy", "started", "list", "side"}) BY DEF Alike
  <2> QED BY <2>1, <2>2, SentWorld
<1>4. \A p \in Panels : ~Loads(c, p)
    BY DEF Loads
<1>5. \A p \in Panels : Waits(w.ui, w.calls, p) => Waits(n.ui, n.calls, p)
    BY <1>2 DEF Waits, Last, Sent
<1>6. Spinning(n.ui, n.calls)
    BY <1>2, <1>5 DEF Safe, Sound, Spinning
<1>7. Newest(n.ui, n.calls)
    BY <1>2, <1>4 DEF Safe, Sound, Newest, Last, Sent
<1>8. Asked(n.ui, n.calls)
  <2>1. Ordered => \A p \in Panels : Waits(n.ui, n.calls, p) \/ Settled(n.ui[p])
      BY <1>2, <1>5 DEF Safe, Sound, Asked
  <2>2. page \in InOrder =>
          \A p \in Panels, d \in n.calls : Loads(d, p) =>
              /\ d.id <= n.ui[p].latest
              /\ Waits(n.ui, n.calls, p) \/ (page = "IncidentTimeline" /\ p = "side" /\ n.ui[p].of = None)
      BY <1>2, <1>4, <1>5 DEF Safe, Sound, Asked, Sent
  <2>3. \A p \in Panels, o \in {FirstView, "repositories"} : Fixed(p, o) =>
          n.ui[p].of \in {None, o} /\ (n.ui[p].shown # None => n.ui[p].shown.of = o)
      BY <1>2 DEF Safe, Sound, Asked
  <2> QED BY <2>1, <2>2, <2>3 DEF Asked
<1>9. Busy(n.ui, n.calls, g) /\ Once(n.ui, n.calls, g)
    BY SentBusy
<1>10. Numbers(n.ui, n.calls)
  <2>1. \A p \in Panels : n.ui[p].latest <= n.ui.started
      BY <1>2, SentNumber
  <2>2. page \in QueryPages => c.kind # "read"
      BY DEF Sent, CallOK, QueryPages, ChannelPages
  <2> QED BY <1>3, <2>1, <2>2, SentNumbers
<1> QED
    BY <1>3, <1>6, <1>7, <1>8, <1>9, <1>10 DEF Safe, Sound, AsidesOK

\* What a panel may be asked for.
LoadOf(p, of) ==
    /\ p \in Panels
    /\ page \in QueryPages \cup {"NotificationConfig", "AuditLogs"} => p = "list"
    /\ \A o \in {FirstView, "repositories"} : Fixed(p, o) => of = o

\* A load: the panel p waits for c.
LEMMA SendingLoad ==
    ASSUME NEW w, NEW f, NEW n, NEW c, NEW g, Safe(w, f), Sent(w, n, c), Flagged(w, n, c, f, g),
           NEW p \in Panels, LoadOf(p, c.of), Loads(c, p),
           Alike(w, n, Asides \cup {"busy", "started", p}), AsidesOK(n.ui),
           IsPanel(n.ui[p]), n.ui[p].of = c.of, n.ui[p].latest = c.id, n.ui[p].shown = w.ui[p].shown,
           page \in QueryPages => \A d \in w.calls : d.kind = "read" => d.of # c.of
    PROVE  Safe(n, g)
<1>1. \A q \in Panels : q # p => n.ui[q] = w.ui[q]
    BY DEF Alike, Asides, UiFields, Panels
<1>2. \A q \in Panels : IsPanel(n.ui[q]) /\ IsPanel(w.ui[q])
    BY <1>1 DEF Panels, Safe, IsWorld, IsUi
<1>3. IsWorld(n)
  <2>1. IsPanel(n.ui.list) /\ IsPanel(n.ui.side) BY <1>2 DEF Panels
  <2>2. Alike(w, n, Asides \cup {"busy", "started", "list", "side"}) BY DEF Alike, Panels
  <2> QED BY <2>1, <2>2, SentWorld
<1>4. w.ui.started \in Nat /\ \A d \in w.calls : d.id \in Nat /\ d.id <= w.ui.started /\ d.id < c.id
    BY SentNumber
<1>5. Waits(n.ui, n.calls, p)
    BY DEF Waits, Last, Sent
<1>6. \A q \in Panels : q # p => ~Loads(c, q)
    BY DEF Loads
<1>7. \A q \in Panels : Waits(w.ui, w.calls, q) => Waits(n.ui, n.calls, q)
    BY <1>1, <1>5 DEF Waits, Last, Sent
<1>8. Spinning(n.ui, n.calls)
    BY <1>1, <1>5, <1>7 DEF Safe, Sound, Spinning
<1>9. Newest(n.ui, n.calls)
  <2> SUFFICES ASSUME page # "IncidentTimeline", NEW q \in Panels, NEW d \in n.calls, Last(n.ui, d, q)
               PROVE  d.of = n.ui[q].of
      BY DEF Newest
  <2>1. CASE q = p
      BY <2>1, <1>4 DEF Last, Sent
  <2>2. CASE q # p
      BY <2>2, <1>1, <1>6 DEF Last, Sent, Safe, Sound, Newest
  <2> QED BY <2>1, <2>2
<1>10. Asked(n.ui, n.calls)
  <2>1. Ordered => \A q \in Panels : Waits(n.ui, n.calls, q) \/ Settled(n.ui[q])
      BY <1>1, <1>5, <1>7 DEF Safe, Sound, Asked
  <2>2. page \in InOrder =>
          \A q \in Panels, d \in n.calls : Loads(d, q) =>
              /\ d.id <= n.ui[q].latest
              /\ Waits(n.ui, n.calls, q) \/ (page = "IncidentTimeline" /\ q = "side" /\ n.ui[q].of = None)
    <3> SUFFICES ASSUME page \in InOrder, NEW q \in Panels, NEW d \in n.calls, Loads(d, q)
                 PROVE  /\ d.id <= n.ui[q].latest
                        /\ Waits(n.ui, n.calls, q)
                           \/ (page = "IncidentTimeline" /\ q = "side" /\ n.ui[q].of = None)
        OBVIOUS
    <3>1. CASE q = p
        BY <3>1, <1>4, <1>5 DEF Sent, IsCall
    <3>2. CASE q # p
        BY <3>2, <1>1, <1>6, <1>7 DEF Sent, Safe, Sound, Asked
    <3> QED BY <3>1, <3>2
  <2>3. \A q \in Panels, o \in {FirstView, "repositories"} : Fixed(q, o) =>
          n.ui[q].of \in {None, o} /\ (n.ui[q].shown # None => n.ui[q].shown.of = o)
      BY <1>1 DEF Safe, Sound, Asked, LoadOf
  <2> QED BY <2>1, <2>2, <2>3 DEF Asked
<1>11. Busy(n.ui, n.calls, g) /\ Once(n.ui, n.calls, g)
    BY SentBusy
<1>12. Numbers(n.ui, n.calls)
  <2>1. \A q \in Panels : n.ui[q].latest <= n.ui.started
    <3>1. n.ui.started \in Nat /\ c.id = n.ui.started
          /\ \A q \in Panels : w.ui[q].latest \in Nat /\ w.ui[q].latest < n.ui.started
        BY SentNumber
    <3> QED BY <1>1, <3>1
  <2> QED BY <1>3, <2>1, SentNumbers
<1> QED
    BY <1>3, <1>8, <1>9, <1>10, <1>11, <1>12 DEF Safe, Sound, AsidesOK

\* The call that Send adds, and what else it does.
LEMMA SendShape ==
    ASSUME NEW w, NEW f, Safe(w, f), NEW k, k = [x \in CallFields |-> k[x]]
    PROVE  \E c : /\ Send(w, k).calls = w.calls \cup {c}
                  /\ c.id = w.ui.started + 1
                  /\ c = [x \in CallFields |-> c[x]]
                  /\ \A x \in CallFields \ {"id", "at"} : c[x] = k[x]
                  /\ c.kind = "read" => c.at = Snapshot(w, c.of)
                  /\ Send(w, k).ui.started = w.ui.started + 1
                  /\ Alike(w, Send(w, k), {"started"})
<1> DEFINE c == [k EXCEPT !.id = w.ui.started + 1,
                          !.at = IF k.kind = "read" THEN Snapshot(w, k.of) ELSE None]
<1>1. c = [x \in CallFields |-> c[x]] /\ \A x \in CallFields \ {"id", "at"} : c[x] = k[x]
    BY DEF CallFields
<1>2. c.id = w.ui.started + 1
    BY DEF CallFields
<1>3. c.kind = "read" => c.at = Snapshot(w, c.of)
    BY DEF CallFields
<1>4. Send(w, k).calls = w.calls \cup {c} /\ Send(w, k).ui.started = w.ui.started + 1
      /\ Alike(w, Send(w, k), {"started"})
    BY DEF Send, Safe, IsWorld, IsUi, Alike, WorldFields, UiFields
<1> HIDE DEF c
<1> QED BY <1>1, <1>2, <1>3, <1>4, Zenon

\* A snapshot is one.
LEMMA Snapshots == \A w, of : IsSnapshot(Snapshot(w, of)) /\ Snapshot(w, of).of = of
BY DEF IsSnapshot, Snapshot

\* A panel that waits for the load with the number m.
Asking(q, of, m) == q.of = of /\ q.loading /\ ~q.failed /\ q.latest = m

Awaited(q, of, m) ==
    [q EXCEPT !.of = of, !.loading = TRUE, !.failed = FALSE, !.latest = m]

\* What a load makes of its panel.
LEMMA AwaitedPanel ==
    ASSUME NEW q, IsPanel(q), NEW of, NEW m \in Nat
    PROVE  /\ IsPanel(Awaited(q, of, m)) /\ Asking(Awaited(q, of, m), of, m)
           /\ Awaited(q, of, m).shown = q.shown
<1> DEFINE n == Awaited(q, of, m)
<1>1. /\ n = [x \in PanelFields |-> n[x]]
      /\ n.of = of /\ n.loading /\ ~n.failed /\ n.latest = m /\ n.shown = q.shown
    BY DEF Awaited, IsPanel, PanelFields
<1> HIDE DEF n
<1>2. IsPanel(n) /\ Asking(n, of, m) /\ n.shown = q.shown
    BY <1>1 DEF IsPanel, Asking
<1> QED BY <1>2 DEF n

\* n is w with the load c, which the panel p waits for.
AwaitMakes(w, n, c, p, of, flag, then) ==
    /\ n.calls = w.calls \cup {c}
    /\ c = [x \in CallFields |-> c[x]] /\ c.id = w.ui.started + 1
    /\ c.kind = "read" /\ c.panel = p /\ c.of = of /\ c.flag = flag /\ c.then = then
    /\ c.at = Snapshot(w, of)
    /\ n.ui.started = w.ui.started + 1
    /\ IsPanel(n.ui[p]) /\ Asking(n.ui[p], of, w.ui.started + 1)
    /\ n.ui[p].shown = w.ui[p].shown
    /\ Alike(w, n, {"started", p})

\* What Await does.
LEMMA AwaitShape ==
    ASSUME NEW w, NEW f, Safe(w, f), NEW p \in Panels, NEW of, NEW flag, NEW then
    PROVE  \E c : AwaitMakes(w, Await(w, p, of, flag, then), c, p, of, flag, then)
<1> DEFINE k == [NewCall EXCEPT !.panel = p, !.of = of, !.flag = flag, !.then = then]
           s == Send(w, k)
           n == [s EXCEPT !.ui[p].of = of, !.ui[p].loading = TRUE, !.ui[p].failed = FALSE,
                          !.ui[p].latest = w.ui.started + 1]
<1>1. /\ k = [x \in CallFields |-> k[x]]
      /\ k.kind = "read" /\ k.panel = p /\ k.of = of /\ k.flag = flag /\ k.then = then
    BY DEF NewCall, CallFields
<1>2. Await(w, p, of, flag, then) = n
    BY DEF Await
<1> HIDE DEF k
<1>3. PICK c : /\ s.calls = w.calls \cup {c}
               /\ c.id = w.ui.started + 1
               /\ c = [x \in CallFields |-> c[x]]
               /\ \A x \in CallFields \ {"id", "at"} : c[x] = k[x]
               /\ c.kind = "read" => c.at = Snapshot(w, c.of)
               /\ s.ui.started = w.ui.started + 1
               /\ Alike(w, s, {"started"})
    BY <1>1, SendShape
<1> HIDE DEF s
<1>4. c.kind = "read" /\ c.panel = p /\ c.of = of /\ c.flag = flag /\ c.then = then
      /\ c.at = Snapshot(w, of)
    BY <1>1, <1>3 DEF CallFields
<1>5. s.ui[p] = w.ui[p] /\ p \in UiFields /\ p # "started"
    BY <1>3 DEF Alike, UiFields, Panels
<1>6. IsPanel(w.ui[p])
    BY DEF Safe, IsWorld, IsUi, Panels
<1>7. IsPanel(n.ui[p]) /\ Asking(n.ui[p], of, w.ui.started + 1) /\ n.ui[p].shown = w.ui[p].shown
  <2>1. n.ui[p] = Awaited(w.ui[p], of, w.ui.started + 1)
      BY <1>3, <1>5 DEF Alike, WorldFields, Awaited
  <2>2. w.ui.started + 1 \in Nat
      BY DEF Safe, IsWorld, IsUi
  <2> QED BY <1>6, <2>1, <2>2, AwaitedPanel
<1>8. n.calls = s.calls /\ n.ui.started = s.ui.started /\ Alike(s, n, {p})
    BY <1>3, <1>5 DEF Alike, WorldFields, UiFields
<1> HIDE DEF n
<1>9. Alike(w, n, {"started", p})
    BY <1>3, <1>8 DEF Alike
<1>10. AwaitMakes(w, n, c, p, of, flag, then)
    BY <1>3, <1>4, <1>7, <1>8, <1>9 DEF AwaitMakes
<1> QED BY <1>2, <1>10

\* A query that no read in flight is for.
Alone(w, of) == page \in QueryPages => \A d \in w.calls : d.kind = "read" => d.of # of

\* A load function up to its await: the button f goes to the call, or stays.
LEMMA SendingAwait ==
    ASSUME NEW w, NEW f, Safe(w, f), NEW p, NEW of, LoadOf(p, of),
           Alone(w, of),
           NEW flag, NEW g, NEW then, then # "reread",
           page = "AlertList" => then # "single",
           flag = "none" \/ MayHold("read", p, flag, then),
           (flag = f /\ g = "none") \/ (flag = "none" /\ g = f)
    PROVE  Safe(Await(w, p, of, flag, then), g)
<1> DEFINE n == Await(w, p, of, flag, then)
<1>0. p \in Panels
    BY DEF LoadOf
<1>1. PICK c : AwaitMakes(w, n, c, p, of, flag, then)
    BY <1>0, AwaitShape, Zenon
<1> HIDE DEF n
<1>2. c.flag \in Flags \cup {"none"}
    BY <1>1 DEF Safe, Sound, Once, AwaitMakes
<1>3. IsCall(c)
  <2>1. w.ui.started + 1 \in Nat BY DEF Safe, IsWorld, IsUi
  <2> QED BY <1>0, <1>1, <1>2, <2>1, Snapshots DEF IsCall, AwaitMakes
<1>4. CallOK(c)
    BY <1>1, <1>0 DEF CallOK, LoadOf, QueryPages, ChannelPages, AwaitMakes
<1>5. Sent(w, n, c)
    BY <1>1, <1>3, <1>4 DEF Sent, AwaitMakes
<1>6. n.ui.busy = w.ui.busy /\ n.ui.sel = w.ui.sel /\ n.ui.dialog = w.ui.dialog /\ n.ui.held = w.ui.held
    BY <1>0, <1>1 DEF Alike, UiFields, Panels, AwaitMakes
<1>7. Flagged(w, n, c, f, g)
  <2>1. f # "none" /\ ~Loose(f) => f \in w.ui.busy BY DEF Safe, Sound, Once
  <2>2. \A b \in w.ui.busy : b # "none" BY DEF Safe, Sound, Busy
  <2>3. c.flag # "none" /\ ~Loose(c.flag) => c.flag \in n.ui.busy
      BY <1>1, <1>6, <2>1 DEF AwaitMakes
  <2> QED BY <1>1, <1>6, <2>2, <2>3 DEF Flagged, Given, AwaitMakes
<1>8. Alike(w, n, Asides \cup {"busy", "started", p})
    BY <1>1 DEF Alike, AwaitMakes
<1>9. AsidesOK(n.ui)
  <2>1. n.ui.list.shown = w.ui.list.shown
      BY <1>0, <1>1 DEF Alike, UiFields, Panels, AwaitMakes
  <2>2. RowsOf(n.ui.list) = RowsOf(w.ui.list)
      BY <2>1 DEF RowsOf
  <2> QED BY <1>6, <2>2 DEF AsidesOK, Safe, Sound, Selected, Selectable, DialogOK, HeldOK
<1>10. Loads(c, p) /\ LoadOf(p, c.of) /\ n.ui[p].of = c.of /\ n.ui[p].latest = c.id
    BY <1>1 DEF Loads, Asking, AwaitMakes
<1>11. Safe(n, g)
    BY <1>0, <1>1, <1>5, <1>7, <1>8, <1>9, <1>10, SendingLoad DEF Alone, AwaitMakes
<1> QED BY <1>11 DEF n

\* A handler that awaits the load goes on with its button.
LEMMA Awaiting ==
    ASSUME NEW w, NEW f, Safe(w, f), NEW p, NEW of, LoadOf(p, of), page \notin QueryPages,
           NEW then, then # "reread",
           page = "AlertList" => then # "single",
           f = "none" \/ MayHold("read", p, f, then)
    PROVE  Safe(Await(w, p, of, f, then), "none")
BY SendingAwait DEF Alone

\* A load that no handler waits for.
LEMMA Loading ==
    ASSUME NEW w, NEW f, Safe(w, f), NEW p, NEW of, LoadOf(p, of), page \notin QueryPages
    PROVE  Safe(Load(w, p, of), f)
BY SendingAwait DEF Load, Alone

\* A button that is freed.
LEMMA Idling ==
    ASSUME NEW w, NEW f, Safe(w, f)
    PROVE  Safe(Idle(w, f), "none")
<1> DEFINE n == Idle(w, f)
<1>1. n.calls = w.calls /\ Alike(w, n, {"busy"}) /\ n.ui.busy = w.ui.busy \ {f}
    BY DEF Idle, Safe, IsWorld, IsUi, Alike, WorldFields, UiFields
<1> HIDE DEF n
<1>2. n.ui.list = w.ui.list /\ n.ui.side = w.ui.side /\ n.ui.started = w.ui.started
      /\ n.ui.sel = w.ui.sel /\ n.ui.dialog = w.ui.dialog /\ n.ui.held = w.ui.held
    BY <1>1 DEF Alike, UiFields
<1>3. \A p \in Panels : n.ui[p] = w.ui[p]
    BY <1>2 DEF Panels
<1>4. IsWorld(n)
    BY <1>1, <1>2 DEF Alike, Safe, IsWorld, IsUi
<1>5. Spinning(n.ui, n.calls) /\ Newest(n.ui, n.calls) /\ Asked(n.ui, n.calls)
    BY <1>1, <1>3 DEF Safe, Sound, Spinning, Newest, Asked, Waits, Last
<1>6. Numbers(n.ui, n.calls)
    BY <1>1, <1>2, <1>3 DEF Safe, Sound, Numbers
<1>7. Busy(n.ui, n.calls, "none")
    BY <1>1 DEF Safe, Sound, Busy
<1>8. Once(n.ui, n.calls, "none")
    BY <1>1 DEF Safe, Sound, Once
<1>9. Selected(n.ui) /\ DialogOK(n.ui) /\ HeldOK(n.ui)
    BY <1>1, <1>2 DEF Safe, Sound, Selected, DialogOK, Askable, HeldOK
<1>10. Safe(n, "none")
    BY <1>4, <1>5, <1>6, <1>7, <1>8, <1>9 DEF Safe, Sound
<1> QED BY <1>10 DEF n

----------------------------------------------------------------------------
(***************************************************************************)
(* Writes.                                                                 *)
(***************************************************************************)

\* The call of a write.
IsWrite(c, kind, rows, flag, then, since) ==
    /\ c.kind = kind /\ c.panel = "list" /\ c.rows = rows /\ c.flag = flag /\ c.then = then
    /\ c.since = since

\* The writes that a page makes.
Fits(kind, rows, flag, then, since) ==
    /\ kind # "read" /\ flag \in Flags \cup {"none"}
    /\ \A c : IsWrite(c, kind, rows, flag, then, since) => CallOK(c)

\* n is w with the call c of a write.
Written(w, n, c) ==
    /\ n.calls = w.calls \cup {c} /\ c = [x \in CallFields |-> c[x]]
    /\ c.id = w.ui.started + 1 /\ n.ui.started = w.ui.started + 1
    /\ Alike(w, n, {"busy", "started"})

\* The button of a write is disabled.
Disables(w, n, flag) == n.ui.busy = IF flag = "none" THEN w.ui.busy ELSE w.ui.busy \cup {flag}

\* What Write does.
LEMMA WriteShape ==
    ASSUME NEW w, NEW f, Safe(w, f), NEW kind, NEW rows, NEW flag, NEW then
    PROVE  \E c : /\ Written(w, Write(w, kind, rows, flag, then), c)
                  /\ IsWrite(c, kind, rows, flag, then, None)
                  /\ Disables(w, Write(w, kind, rows, flag, then), flag)
<1> DEFINE k == [NewCall EXCEPT !.kind = kind, !.of = w.ui.view, !.rows = rows,
                                !.flag = flag, !.then = then]
           s == Send(w, k)
           busy == IF flag = "none" THEN s.ui.busy ELSE s.ui.busy \cup {flag}
           n == [s EXCEPT !.ui.busy = IF flag = "none" THEN @ ELSE @ \cup {flag}]
<1>1. k = [x \in CallFields |-> k[x]] /\ IsWrite(k, kind, rows, flag, then, None)
    BY DEF NewCall, CallFields, IsWrite
<1>2. Write(w, kind, rows, flag, then) = n
    BY DEF Write
<1> HIDE DEF k
<1>3. PICK c : /\ s.calls = w.calls \cup {c}
               /\ c.id = w.ui.started + 1
               /\ c = [x \in CallFields |-> c[x]]
               /\ \A x \in CallFields \ {"id", "at"} : c[x] = k[x]
               /\ c.kind = "read" => c.at = Snapshot(w, c.of)
               /\ s.ui.started = w.ui.started + 1
               /\ Alike(w, s, {"started"})
    BY <1>1, SendShape
<1> HIDE DEF s
<1>4. IsWrite(c, kind, rows, flag, then, None)
    BY <1>1, <1>3 DEF CallFields, IsWrite
<1>5. n.calls = s.calls /\ n.ui.started = s.ui.started /\ Alike(s, n, {"busy"}) /\ n.ui.busy = busy
    BY <1>3 DEF Alike, WorldFields, UiFields
<1>6. s.ui.busy = w.ui.busy
    BY <1>3 DEF Alike, UiFields
<1> HIDE DEF n
<1>7. Alike(w, n, {"busy", "started"})
    BY <1>3, <1>5 DEF Alike
<1>8. Written(w, n, c)
    BY <1>3, <1>5, <1>7 DEF Written
<1>9. Written(w, n, c) /\ IsWrite(c, kind, rows, flag, then, None)
      /\ Disables(w, n, flag)
    BY <1>4, <1>5, <1>6, <1>8 DEF Disables
<1> QED BY <1>2, <1>9, Zenon

\* Any world with one write more whose buttons fit.
LEMMA SendingWrite ==
    ASSUME NEW w, NEW f, Safe(w, f), NEW n, NEW c, Written(w, n, c),
           NEW kind, NEW rows, NEW flag, NEW then, NEW since,
           IsWrite(c, kind, rows, flag, then, since), Fits(kind, rows, flag, then, since),
           NEW g, Flagged(w, n, c, f, g), DialogOK(n.ui)
    PROVE  Safe(n, g)
<1>1. Sent(w, n, c)
  <2>1. w.ui.started + 1 \in Nat BY DEF Safe, IsWorld, IsUi
  <2>2. CallOK(c) BY DEF Fits
  <2> QED BY <2>1, <2>2 DEF Sent, Written, IsCall, IsWrite, Fits, Panels
<1>2. Alike(w, n, Asides \cup {"busy", "started"})
    BY DEF Written, Alike
<1>3. AsidesOK(n.ui)
  <2>1. n.ui.list = w.ui.list /\ n.ui.sel = w.ui.sel /\ n.ui.held = w.ui.held
      BY DEF Written, Alike, UiFields
  <2> QED BY <2>1 DEF AsidesOK, Safe, Sound, Selected, HeldOK
<1>4. c.kind # "read"
    BY DEF IsWrite, Fits
<1> QED BY <1>1, <1>2, <1>3, <1>4, SendingOther

\* A write that takes a button which is free, or is handed it, or has none.
Takes(w, flag, f) ==
    \/ flag = "none"
    \/ flag = f
    \/ f = "none" /\ (Loose(flag) \/ flag \notin w.ui.busy)

After(flag, f) == IF flag = "none" THEN f ELSE "none"

\* The button of a write is taken by it.
LEMMA WritingFlagged ==
    ASSUME NEW w, NEW f, Safe(w, f), NEW n, NEW c, NEW flag, c.flag = flag, Takes(w, flag, f),
           Disables(w, n, flag),
           flag \in Flags \cup {"none"},
           page = "IncidentArchive" => flag = "none"
    PROVE  Flagged(w, n, c, f, After(flag, f))
<1>1. flag \notin Row BY FlagsApart
<1>2. \A b \in w.ui.busy : b # "none" BY DEF Safe, Sound, Busy
<1>3. Given(c, f, After(flag, f)) \/ Taken(w, c, f, After(flag, f))
      \/ (c.flag = "none" /\ After(flag, f) = f)
    BY DEF Takes, Given, Taken, After
<1>4. \A b \in n.ui.busy : b # "none" /\ (b \in w.ui.busy \/ Holds(c, b))
    BY <1>1, <1>2 DEF Holds, Disables
<1> QED BY <1>3, <1>4 DEF Flagged, Disables

\* A write whose handler holds no button, its own, or one it hands over.
LEMMA Writing ==
    ASSUME NEW w, NEW f, Safe(w, f), NEW kind, NEW rows, NEW flag, NEW then,
           Fits(kind, rows, flag, then, None), Takes(w, flag, f),
           page = "IncidentArchive" => flag = "none",
           page = "SavedQueries" => flag = "none" \/ w.ui.dialog = None
    PROVE  Safe(Write(w, kind, rows, flag, then), After(flag, f))
<1> DEFINE n == Write(w, kind, rows, flag, then)
<1>1. PICK c : /\ Written(w, n, c)
               /\ IsWrite(c, kind, rows, flag, then, None)
               /\ Disables(w, n, flag)
    BY WriteShape, Zenon
<1> HIDE DEF n
<1>2. Flagged(w, n, c, f, After(flag, f))
    BY <1>1, WritingFlagged DEF IsWrite, Fits
<1>3. DialogOK(n.ui)
  <2>1. n.ui.dialog = w.ui.dialog BY <1>1 DEF Written, Alike, UiFields
  <2> QED BY <1>1, <2>1 DEF Safe, Sound, DialogOK, Askable, Disables
<1>4. Safe(n, After(flag, f))
    BY <1>1, <1>2, <1>3, SendingWrite
<1> QED BY <1>4 DEF n

\* A write that keeps something of its click in since.
Annotated(n, id, x) == [n EXCEPT !.calls = {IF c.id = id THEN [c EXCEPT !.since = x] ELSE c : c \in @}]

\* The same of a write that keeps something of its click.
LEMMA WritingAnnotated ==
    ASSUME NEW w, NEW f, Safe(w, f), NEW kind, NEW rows, NEW flag, NEW then, NEW x, NEW id,
           Fits(kind, rows, flag, then, x), Takes(w, flag, f), id = w.ui.started + 1,
           page # "IncidentArchive",
           page = "SavedQueries" => flag = "none" \/ w.ui.dialog = None
    PROVE  Safe(Annotated(Write(w, kind, rows, flag, then), id, x), After(flag, f))
<1> DEFINE s == Write(w, kind, rows, flag, then)
           n == Annotated(s, id, x)
<1>1. PICK d : /\ Written(w, s, d)
               /\ IsWrite(d, kind, rows, flag, then, None)
               /\ Disables(w, s, flag)
    BY WriteShape, Zenon
<1> HIDE DEF s
<1> DEFINE e == [d EXCEPT !.since = x]
<1>2. e = [y \in CallFields |-> e[y]] /\ e.id = d.id /\ IsWrite(e, kind, rows, flag, then, x)
    BY <1>1 DEF Written, IsWrite, CallFields
<1>3. n.calls = w.calls \cup {e}
  <2>1. \A c \in w.calls : c.id # id
    <3>1. \A c \in w.calls : c.id \in Nat /\ c.id <= w.ui.started
        BY DEF Safe, IsWorld, IsCall, Sound, Numbers
    <3> QED BY <3>1 DEF Safe, IsWorld, IsUi
  <2>2. n.calls = {IF c.id = id THEN [c EXCEPT !.since = x] ELSE c : c \in s.calls}
      BY <1>1 DEF Annotated, Written, Alike, WorldFields
  <2>3. s.calls = w.calls \cup {d} /\ d.id = id
      BY <1>1 DEF Written
  <2> QED BY <2>1, <2>2, <2>3
<1>4. n.ui = s.ui /\ n = [y \in WorldFields |-> n[y]]
    BY <1>1 DEF Annotated, Written, Alike, WorldFields
<1> HIDE DEF n, e
<1>5. Written(w, n, e)
    BY <1>1, <1>2, <1>3, <1>4 DEF Written, Alike
<1>6. Flagged(w, n, e, f, After(flag, f))
  <2>1. Disables(w, n, flag) BY <1>1, <1>4 DEF Disables
  <2> QED BY <1>2, <2>1, WritingFlagged DEF IsWrite, Fits
<1>7. DialogOK(n.ui)
  <2>1. n.ui.dialog = w.ui.dialog BY <1>5 DEF Written, Alike, UiFields
  <2> QED BY <1>1, <1>4, <2>1 DEF Safe, Sound, DialogOK, Askable, Disables
<1>8. Safe(n, After(flag, f))
    BY <1>2, <1>5, <1>6, <1>7, SendingWrite
<1> QED BY <1>8 DEF n, s

\* A write whose row is marked busy.
LEMMA Marking ==
    ASSUME NEW w, Safe(w, "none"), NEW kind, NEW r \in Row, Marks(kind),
           Fits(kind, {r}, "none", "none", None), NEW B,
           \A b \in B : b = r \/ b \in w.ui.busy,
           \A b \in w.ui.busy : b \notin Row => b \in B,
           page = "IncidentArchive" => B = {r}
    PROVE  Safe([Write(w, kind, {r}, "none", "none") EXCEPT !.ui.busy = B], "none")
<1> DEFINE s == Write(w, kind, {r}, "none", "none")
           n == [s EXCEPT !.ui.busy = B]
<1>1. PICK c : /\ Written(w, s, c)
               /\ IsWrite(c, kind, {r}, "none", "none", None)
               /\ Disables(w, s, "none")
    BY WriteShape, Zenon
<1> HIDE DEF s
<1>2. n.calls = s.calls /\ n.ui.started = s.ui.started /\ Alike(s, n, {"busy"}) /\ n.ui.busy = B
    BY <1>1 DEF Alike, WorldFields, UiFields, Written
<1> HIDE DEF n
<1>3. Written(w, n, c)
    BY <1>1, <1>2 DEF Written, Alike
<1>4. Flagged(w, n, c, "none", "none")
  <2>1. r # "none" BY PageAssumption
  <2>2. \A b \in w.ui.busy : b # "none" BY DEF Safe, Sound, Busy
  <2>3. Holds(c, r) BY <1>1 DEF Holds, IsWrite
  <2> QED BY <1>1, <1>2, <2>1, <2>2, <2>3 DEF Flagged, IsWrite
<1>5. DialogOK(n.ui)
  <2>1. n.ui.dialog = w.ui.dialog BY <1>3 DEF Written, Alike, UiFields
  <2> QED BY <1>2, <2>1 DEF Safe, Sound, DialogOK, Askable, Marks, ChannelPages
<1>6. Safe(n, "none")
    BY <1>1, <1>3, <1>4, <1>5, SendingWrite
<1> QED BY <1>6 DEF n, s

\* The three ways in which pages mark a row.
LEMMA MarkingRow ==
    ASSUME NEW w, Safe(w, "none"), NEW kind, NEW r \in Row, Marks(kind),
           Fits(kind, {r}, "none", "none", None)
    PROVE  /\ page # "IncidentArchive" =>
                  /\ Safe([Write(w, kind, {r}, "none", "none") EXCEPT !.ui.busy = (@ \ Row) \cup {r}], "none")
                  /\ Safe([Write(w, kind, {r}, "none", "none") EXCEPT !.ui.busy = @ \cup {r}], "none")
                  /\ Safe(Mark(Write(w, kind, {r}, "none", "none"), r), "none")
           /\ page = "IncidentArchive" =>
                  Safe([Write(w, kind, {r}, "none", "none") EXCEPT !.ui.busy = {r}], "none")
<1> DEFINE s == Write(w, kind, {r}, "none", "none")
<1>1. s.ui.busy = w.ui.busy
  <2>1. PICK c : /\ Written(w, s, c)
                 /\ IsWrite(c, kind, {r}, "none", "none", None)
                 /\ Disables(w, s, "none")
      BY WriteShape, Zenon
  <2> QED BY <2>1 DEF Disables
<1>2. ASSUME page # "IncidentArchive"
      PROVE  Safe([s EXCEPT !.ui.busy = (w.ui.busy \ Row) \cup {r}], "none")
    BY <1>2, Marking
<1>3. ASSUME page # "IncidentArchive"
      PROVE  Safe([s EXCEPT !.ui.busy = w.ui.busy \cup {r}], "none")
    BY <1>3, Marking
<1>4. ASSUME page = "IncidentArchive"
      PROVE  Safe([s EXCEPT !.ui.busy = {r}], "none")
  <2>1. \A b \in w.ui.busy : b \in Row
      BY <1>4 DEF Safe, Sound, Busy, Holds, Numbers, CallOK, MayHold
  <2> QED BY <1>4, <2>1, Marking
<1> HIDE DEF s
<1>5. page # "IncidentArchive" =>
          /\ Safe([s EXCEPT !.ui.busy = (@ \ Row) \cup {r}], "none")
          /\ Safe([s EXCEPT !.ui.busy = @ \cup {r}], "none")
          /\ Safe(Mark(s, r), "none")
    BY <1>1, <1>2, <1>3 DEF Mark
<1> QED BY <1>4, <1>5, Zenon DEF s

----------------------------------------------------------------------------
(***************************************************************************)
(* Panels that show something else, or nothing, although no load of theirs *)
(* was answered.                                                           *)
(***************************************************************************)

\* The timeline is asked for nothing.
AskedForNothing(p, q) == page = "IncidentTimeline" /\ p = "side" /\ q.of = None /\ ~q.loading

\* What a panel may become.
Redrawn(w, p, q) ==
    /\ IsPanel(q) /\ q.latest = w.ui[p].latest /\ (q.loading => w.ui[p].loading)
    /\ q.of = w.ui[p].of \/ AskedForNothing(p, q)
    /\ Ordered => Waits(w.ui, w.calls, p) \/ Settled(q)
    /\ \A o \in {FirstView, "repositories"} : Fixed(p, o) /\ q.shown # None => q.shown.of = o

\* A panel that is redrawn as it may be.
LEMMA Redrawing ==
    ASSUME NEW w, NEW f, Safe(w, f), NEW p \in Panels, NEW n, n.calls = w.calls,
           Alike(w, n, Asides \cup {p}), Redrawn(w, p, n.ui[p]), AsidesOK(n.ui)
    PROVE  Safe(n, f)
<1>1. \A q \in Panels : q # p => n.ui[q] = w.ui[q]
    BY DEF Alike, Asides, UiFields, Panels
<1>2. n.ui.busy = w.ui.busy /\ n.ui.started = w.ui.started
    BY DEF Alike, Asides, UiFields, Panels
<1>3. IsWorld(n)
  <2>1. \A q \in Panels : IsPanel(n.ui[q]) BY <1>1 DEF Panels, Safe, IsWorld, IsUi, Redrawn
  <2> QED BY <1>2, <2>1 DEF Panels, Alike, Safe, IsWorld, IsUi
<1>4. \A q \in Panels : Waits(w.ui, w.calls, q) => Waits(n.ui, n.calls, q) \/ AskedForNothing(q, n.ui[q])
    BY <1>1 DEF Waits, Last, Redrawn
<1>5. Spinning(n.ui, n.calls)
    BY <1>1, <1>4 DEF Safe, Sound, Spinning, Redrawn, AskedForNothing
<1>6. Newest(n.ui, n.calls)
    BY <1>1 DEF Safe, Sound, Newest, Last, Redrawn, AskedForNothing
<1>7. Asked(n.ui, n.calls)
  <2>1. Ordered => \A q \in Panels : Waits(n.ui, n.calls, q) \/ Settled(n.ui[q])
    <3> SUFFICES ASSUME Ordered, NEW q \in Panels PROVE Waits(n.ui, n.calls, q) \/ Settled(n.ui[q])
        OBVIOUS
    <3>1. AskedForNothing(q, n.ui[q]) => Settled(n.ui[q]) BY DEF AskedForNothing, Settled
    <3>2. CASE q = p
        BY <1>4, <3>1, <3>2 DEF Redrawn
    <3>3. CASE q # p
        BY <1>1, <1>4, <3>1, <3>3 DEF Safe, Sound, Asked
    <3> QED BY <3>2, <3>3
  <2>2. page \in InOrder =>
          \A q \in Panels, d \in n.calls : Loads(d, q) =>
              /\ d.id <= n.ui[q].latest
              /\ Waits(n.ui, n.calls, q) \/ (page = "IncidentTimeline" /\ q = "side" /\ n.ui[q].of = None)
    <3> SUFFICES ASSUME page \in InOrder, NEW q \in Panels, NEW d \in n.calls, Loads(d, q)
                 PROVE  /\ d.id <= n.ui[q].latest
                        /\ Waits(n.ui, n.calls, q)
                           \/ (page = "IncidentTimeline" /\ q = "side" /\ n.ui[q].of = None)
        OBVIOUS
    <3>1. n.ui[q].latest = w.ui[q].latest /\ (n.ui[q].of = w.ui[q].of \/ AskedForNothing(q, n.ui[q]))
        BY <1>1 DEF Redrawn
    <3>2. /\ d.id <= w.ui[q].latest
          /\ Waits(w.ui, w.calls, q) \/ (page = "IncidentTimeline" /\ q = "side" /\ w.ui[q].of = None)
        BY DEF Safe, Sound, Asked
    <3> QED BY <1>4, <3>1, <3>2 DEF AskedForNothing
  <2>3. \A q \in Panels, o \in {FirstView, "repositories"} : Fixed(q, o) =>
          n.ui[q].of \in {None, o} /\ (n.ui[q].shown # None => n.ui[q].shown.of = o)
      BY <1>1 DEF Safe, Sound, Asked, Redrawn, AskedForNothing
  <2> QED BY <2>1, <2>2, <2>3 DEF Asked
<1>8. Busy(n.ui, n.calls, f) /\ Once(n.ui, n.calls, f)
    BY <1>2 DEF Safe, Sound, Busy, Once
<1>9. Numbers(n.ui, n.calls)
    BY <1>1, <1>2 DEF Safe, Sound, Numbers, Redrawn
<1> QED
    BY <1>3, <1>5, <1>6, <1>7, <1>8, <1>9 DEF Safe, Sound, AsidesOK

\* A panel that shows nothing is settled.
LEMMA Hiding ==
    ASSUME NEW w, NEW f, Safe(w, f)
    PROVE  /\ Safe([w EXCEPT !.ui.side.shown = None], f)
           /\ page \notin {"AlertList", "DeadLetters"} => Safe([w EXCEPT !.ui.list.shown = None], f)
<1>1. Safe([w EXCEPT !.ui.side.shown = None], f)
  <2> DEFINE n == [w EXCEPT !.ui.side.shown = None]
  <2>1. n.calls = w.calls /\ Alike(w, n, {"side"})
        /\ n.ui.side = [w.ui.side EXCEPT !.shown = None]
      BY DEF Safe, IsWorld, IsUi, Alike, WorldFields, UiFields
  <2> HIDE DEF n
  <2>2. \A q : IsPanel(q) => IsPanel([q EXCEPT !.shown = None])
                             /\ [q EXCEPT !.shown = None].shown = None
                             /\ \A x \in PanelFields \ {"shown"} : [q EXCEPT !.shown = None][x] = q[x]
      BY DEF IsPanel, PanelFields
  <2>3. IsPanel(w.ui.side)
      BY DEF Safe, IsWorld, IsUi
  <2>4. Redrawn(w, "side", n.ui.side)
      BY <2>1, <2>2, <2>3 DEF Redrawn, Settled, PanelFields
  <2>5. AsidesOK(n.ui)
      BY <2>1 DEF Alike, UiFields, AsidesOK, Safe, Sound, Selected, DialogOK, HeldOK
  <2>6. Alike(w, n, Asides \cup {"side"})
      BY <2>1 DEF Alike
  <2>7. Safe(n, f)
      BY <2>1, <2>4, <2>5, <2>6, Redrawing DEF Panels
  <2> QED BY <2>7 DEF n
<1>2. ASSUME page \notin {"AlertList", "DeadLetters"}
      PROVE  Safe([w EXCEPT !.ui.list.shown = None], f)
  <2> DEFINE n == [w EXCEPT !.ui.list.shown = None]
  <2>1. n.calls = w.calls /\ Alike(w, n, {"list"})
        /\ n.ui.list = [w.ui.list EXCEPT !.shown = None]
      BY DEF Safe, IsWorld, IsUi, Alike, WorldFields, UiFields
  <2> HIDE DEF n
  <2>2. \A q : IsPanel(q) => IsPanel([q EXCEPT !.shown = None])
                             /\ [q EXCEPT !.shown = None].shown = None
                             /\ \A x \in PanelFields \ {"shown"} : [q EXCEPT !.shown = None][x] = q[x]
      BY DEF IsPanel, PanelFields
  <2>3. IsPanel(w.ui.list)
      BY DEF Safe, IsWorld, IsUi
  <2>4. Redrawn(w, "list", n.ui.list)
      BY <2>1, <2>2, <2>3 DEF Redrawn, Settled, PanelFields
  <2>5. AsidesOK(n.ui)
      BY <1>2, <2>1 DEF Alike, UiFields, AsidesOK, Safe, Sound, Selected, Selectable, DialogOK, HeldOK
  <2>6. Alike(w, n, Asides \cup {"list"})
      BY <2>1 DEF Alike
  <2>7. Safe(n, f)
      BY <2>1, <2>4, <2>5, <2>6, Redrawing DEF Panels
  <2> QED BY <2>7 DEF n
<1> QED BY <1>1, <1>2

----------------------------------------------------------------------------
(***************************************************************************)
(* Answers.  c is a call in flight, w the world after the server's step    *)
(* and k the call with its answer; a handler may have set asides of w.     *)
(***************************************************************************)
Results(w, k, c) ==
    /\ c \in World.calls /\ w.calls = World.calls \ {c}
    /\ Alike(World, w, Asides) /\ AsidesOK(w.ui)
    /\ k = [x \in CallFields |-> k[x]]
    /\ \A x \in CallFields \ {"ok", "done", "missing", "at"} : k[x] = c[x]
    /\ c.kind = "read" => IsSnapshot(k.at) /\ k.at.of = c.of

\* The reads of the pages in InOrder are answered in order.
InTurn(c) ==
    page \in InOrder /\ c.kind = "read" =>
        \A d \in World.calls : d.kind = "read" /\ d.panel = c.panel => d.id >= c.id

\* n is w but for the rows and buttons that the answer frees.
Freed(w, n, c) ==
    /\ n.ui.busy \subseteq w.ui.busy
    /\ \A b \in w.ui.busy : b \notin Row => b \in n.ui.busy
    /\ \A b \in n.ui.busy : b = c.flag \/ ~Holds(c, b)

\* What holds of the buttons and of the numbers whatever call is answered.
LEMMA ResultsShape ==
    ASSUME ViewsInv, NEW w, NEW k, NEW c, Results(w, k, c), NEW n, n.calls = w.calls, Freed(w, n, c)
    PROVE  /\ Busy(n.ui, n.calls, c.flag) /\ Once(n.ui, n.calls, c.flag)
           /\ IsCall(c) /\ CallOK(c) /\ \A d \in n.calls : IsCall(d)
           /\ w.ui.list = World.ui.list /\ w.ui.side = World.ui.side /\ w.ui.busy = World.ui.busy
           /\ w.ui.started = World.ui.started
           /\ \A p \in Panels : w.ui[p] = World.ui[p] /\ IsPanel(w.ui[p])
<1>0. Safe(World, "none")
    BY DEF ViewsInv
<1>1. w.ui.list = World.ui.list /\ w.ui.side = World.ui.side /\ w.ui.busy = World.ui.busy
      /\ w.ui.started = World.ui.started
    BY DEF Results, Alike, Asides, UiFields
<1>2. \A p \in Panels : w.ui[p] = World.ui[p] /\ IsPanel(w.ui[p])
    BY <1>0, <1>1 DEF Panels, Safe, IsWorld, IsUi
<1>3. IsCall(c) /\ CallOK(c) /\ \A d \in n.calls : IsCall(d)
    BY <1>0 DEF Safe, Sound, IsWorld, Numbers, Results
<1>4. c \in World.calls /\ n.calls = World.calls \ {c} /\ n.ui.busy \subseteq World.ui.busy
    BY <1>1 DEF Results, Freed
<1>5. Busy(n.ui, n.calls, c.flag)
    BY <1>0, <1>4 DEF Freed, Safe, Sound, Busy
<1>6. Once(n.ui, n.calls, c.flag)
  <2>1. /\ \A d \in World.calls : d.flag # "none" /\ ~Loose(d.flag) => d.flag \in World.ui.busy
        /\ \A d, e \in World.calls : d.flag = e.flag /\ d.flag # "none" /\ ~Loose(d.flag) => d = e
      BY <1>0 DEF Safe, Sound, Once
  <2>2. \A d \in World.calls : d.flag \in Flags \cup {"none"} /\ d.flag \notin Row
      BY <1>0, FlagsApart DEF Safe, IsWorld, IsCall
  <2> QED BY <1>1, <1>4, <2>1, <2>2 DEF Once, Freed
<1> QED BY <1>1, <1>2, <1>3, <1>5, <1>6

\* The answer of a call that is no load.
LEMMA PassingFreed ==
    ASSUME ViewsInv, NEW w, NEW k, NEW c, Results(w, k, c), c.kind # "read" \/ c.then = "reread",
           NEW n, n.calls = w.calls, Freed(w, n, c), Alike(w, n, {"busy"})
    PROVE  Safe(n, c.flag)
<1>0. Safe(World, "none")
    BY DEF ViewsInv
<1>1. /\ Busy(n.ui, n.calls, c.flag) /\ Once(n.ui, n.calls, c.flag)
      /\ IsCall(c) /\ CallOK(c) /\ \A d \in n.calls : IsCall(d)
      /\ w.ui.list = World.ui.list /\ w.ui.side = World.ui.side /\ w.ui.busy = World.ui.busy
      /\ w.ui.started = World.ui.started
      /\ \A p \in Panels : w.ui[p] = World.ui[p] /\ IsPanel(w.ui[p])
    BY ResultsShape
<1>2. /\ n.ui.list = w.ui.list /\ n.ui.side = w.ui.side /\ n.ui.started = w.ui.started
      /\ n.ui.sel = w.ui.sel /\ n.ui.dialog = w.ui.dialog /\ n.ui.held = w.ui.held
      /\ \A p \in Panels : n.ui[p] = World.ui[p]
    BY <1>1 DEF Alike, UiFields, Panels
<1>3. IsWorld(n)
    BY <1>0, <1>1, <1>2 DEF Alike, IsWorld, IsUi, Safe
<1>4. n.calls = World.calls \ {c} /\ \A p \in Panels : ~Loads(c, p)
    BY DEF Results, Loads
<1>5. \A p \in Panels : Waits(World.ui, World.calls, p) => Waits(n.ui, n.calls, p)
    BY <1>2, <1>4 DEF Waits, Last
<1>6. Spinning(n.ui, n.calls) /\ Newest(n.ui, n.calls)
    BY <1>0, <1>2, <1>4, <1>5 DEF Safe, Sound, Spinning, Newest, Last
<1>7. Asked(n.ui, n.calls)
    BY <1>0, <1>2, <1>4, <1>5 DEF Safe, Sound, Asked
<1>8. Numbers(n.ui, n.calls)
    BY <1>0, <1>1, <1>2, <1>4 DEF Safe, Sound, Numbers
<1>9. Selected(n.ui) /\ DialogOK(n.ui) /\ HeldOK(n.ui)
    BY <1>2 DEF Results, AsidesOK, Selected, DialogOK, Askable, HeldOK, Freed
<1> QED BY <1>1, <1>3, <1>6, <1>7, <1>8, <1>9 DEF Safe, Sound

\* The answer of a write that has marked no row.
LEMMA Passing ==
    ASSUME ViewsInv, NEW w, NEW k, NEW c, Results(w, k, c), c.kind # "read" \/ c.then = "reread",
           ~Marks(c.kind)
    PROVE  Safe(w, c.flag)
<1>1. Freed(w, w, c)
    BY DEF Freed, Holds
<1>2. Alike(w, w, {"busy"})
    BY DEF Results, Alike
<1> QED BY <1>1, <1>2, PassingFreed

\* The answers that take the mark from their row.
LEMMA PassingMarked ==
    ASSUME ViewsInv, NEW w, NEW k, NEW c, Results(w, k, c), Marks(c.kind), c.kind # "read"
    PROVE  /\ c.flag = "none"
           /\ Safe(Unmark(w), "none")
           /\ Safe([w EXCEPT !.ui.busy = @ \ Row], "none")
           /\ page = "SourceStatus" => Safe([w EXCEPT !.ui.busy = @ \ k.rows], "none")
<1>1. CallOK(c) /\ IsCall(c)
    BY DEF ViewsInv, Safe, Sound, Numbers, Results, IsWorld
<1>2. c.flag = "none"
    BY <1>1 DEF CallOK, Marks, MayHold, ChannelPages
<1>3. IsUi(World.ui)
    BY DEF ViewsInv, Safe, IsWorld
<1>4. \A b \in World.ui.busy : b # "none"
    BY DEF ViewsInv, Safe, Sound, Busy
<1>5. w.ui.busy = World.ui.busy
    BY DEF Results, Alike, Asides, UiFields
<1>6. Safe([w EXCEPT !.ui.busy = @ \ Row], "none")
  <2> DEFINE n == [w EXCEPT !.ui.busy = @ \ Row]
  <2>1. n.calls = w.calls /\ n.ui.busy = w.ui.busy \ Row /\ Alike(w, n, {"busy"})
      BY DEF Results, Alike, WorldFields, UiFields
  <2> HIDE DEF n
  <2>2. Freed(w, n, c)
      BY <1>2, <1>4, <1>5, <2>1 DEF Freed, Holds
  <2>3. Safe(n, c.flag)
      BY <2>1, <2>2, PassingFreed
  <2> QED BY <1>2, <2>3 DEF n
<1>7. ASSUME page = "SourceStatus" PROVE Safe([w EXCEPT !.ui.busy = @ \ k.rows], "none")
  <2> DEFINE n == [w EXCEPT !.ui.busy = (@ \ k.rows)]
  <2>0. k.rows = c.rows
      BY DEF Results, CallFields
  <2>1. n.calls = w.calls /\ n.ui.busy = w.ui.busy \ k.rows /\ Alike(w, n, {"busy"})
      BY DEF Results, Alike, WorldFields, UiFields
  <2> HIDE DEF n
  <2>2. \A b \in w.ui.busy : b \in Row
      BY <1>4, <1>5, <1>7 DEF ViewsInv, Safe, Sound, Busy, Holds, Numbers, CallOK, MayHold
  <2>3. Freed(w, n, c)
      BY <1>2, <1>4, <1>5, <2>0, <2>1, <2>2 DEF Freed, Holds
  <2>4. Safe(n, c.flag)
      BY <2>1, <2>3, PassingFreed
  <2> QED BY <1>2, <2>4 DEF n
<1> QED BY <1>2, <1>6, <1>7 DEF Unmark

\* What the panel p of a load c becomes with its answer.
Drawn(w, q, k, c) ==
    LET old == w.ui[c.panel] IN
    /\ IsPanel(q) /\ q.latest = old.latest
    /\ q.loading => old.loading /\ (c.id # old.latest \/ c.of # old.of)
    /\ \/ q.of = old.of /\ (q.failed \/ q.shown = None \/ q.shown = k.at)
       \/ q.of = old.of /\ (q.failed <=> old.failed) /\ q.shown = old.shown /\ c.id # old.latest
       \/ c.id = old.latest /\ Settled(q) /\ page \notin OnePages
    /\ page \in LatestPages => c.id = old.latest \/ ((q.failed <=> old.failed) /\ q.shown = old.shown)
    /\ \A o \in {FirstView, "repositories"} :
           Fixed(c.panel, o) => q.of \in {None, o} /\ (q.shown # None => q.shown.of = o)

\* The answer of a load, whatever its page does with the panel within Drawn.
LEMMA Drawing ==
    ASSUME ViewsInv, NEW w, NEW k, NEW c, Results(w, k, c), InTurn(c),
           NEW p \in Panels, Loads(c, p),
           NEW n, n.calls = w.calls, Alike(w, n, Asides \cup {p}), Drawn(w, n.ui[p], k, c),
           AsidesOK(n.ui)
    PROVE  Safe(n, c.flag)
<1>0. Safe(World, "none")
    BY DEF ViewsInv
<1>01. n.ui.busy = w.ui.busy /\ n.ui.started = w.ui.started /\ c.panel = p /\ c.kind = "read"
    BY DEF Alike, Asides, UiFields, Panels, Loads
<1>02. Freed(w, n, c)
    BY <1>01 DEF Freed, Holds, Marks
<1>1. /\ Busy(n.ui, n.calls, c.flag) /\ Once(n.ui, n.calls, c.flag)
      /\ IsCall(c) /\ CallOK(c) /\ \A d \in n.calls : IsCall(d)
      /\ w.ui.list = World.ui.list /\ w.ui.side = World.ui.side /\ w.ui.busy = World.ui.busy
      /\ w.ui.started = World.ui.started
      /\ \A q \in Panels : w.ui[q] = World.ui[q] /\ IsPanel(w.ui[q])
    BY <1>02, ResultsShape
<1>2. \A q \in Panels : q # p => n.ui[q] = World.ui[q]
    BY <1>1 DEF Alike, Asides, UiFields, Panels
<1> DEFINE old == World.ui[p]
           new == n.ui[p]
<1>3. /\ IsPanel(new) /\ IsPanel(old) /\ new.latest = old.latest
      /\ new.loading => old.loading /\ (c.id # old.latest \/ c.of # old.of)
      /\ \/ new.of = old.of /\ (new.failed \/ new.shown = None \/ new.shown = k.at)
         \/ new.of = old.of /\ (new.failed <=> old.failed) /\ new.shown = old.shown /\ c.id # old.latest
         \/ c.id = old.latest /\ Settled(new) /\ page \notin OnePages
      /\ page \in LatestPages => c.id = old.latest \/ ((new.failed <=> old.failed) /\ new.shown = old.shown)
      /\ \A o \in {FirstView, "repositories"} :
             Fixed(p, o) => new.of \in {None, o} /\ (new.shown # None => new.shown.of = o)
    BY <1>01, <1>1 DEF Drawn
<1>4. IsWorld(n)
  <2>1. IsPanel(n.ui.list) /\ IsPanel(n.ui.side) BY <1>1, <1>2, <1>3 DEF Panels
  <2>2. n.ui.started \in Nat BY <1>0, <1>01, <1>1 DEF Safe, IsWorld, IsUi
  <2> QED BY <1>1, <2>1, <2>2 DEF Alike, IsWorld, IsUi
<1>5. c \in World.calls /\ n.calls = World.calls \ {c} /\ \A q \in Panels : q # p => ~Loads(c, q)
    BY <1>01 DEF Results, Loads
<1>6. \A d \in n.calls : d.id # c.id
    BY <1>0, <1>5 DEF Safe, Sound, Numbers
<1>7. \A q \in Panels : q # p => (Waits(World.ui, World.calls, q) => Waits(n.ui, n.calls, q))
    BY <1>2, <1>5 DEF Waits, Last
\* The load that the panel waits for is another, or this one.
<1>8. ASSUME Waits(World.ui, World.calls, p)
      PROVE  \/ c.id # old.latest /\ (new.of = old.of => Waits(n.ui, n.calls, p))
             \/ c.id = old.latest /\ c.of = old.of
  <2>1. PICK d \in World.calls : Loads(d, p) /\ d.id = old.latest /\ d.of = old.of
      BY <1>8 DEF Waits, Last
  <2>2. CASE d = c
      BY <2>1, <2>2
  <2>3. CASE d # c
      BY <1>3, <1>5, <1>6, <2>1, <2>3 DEF Waits, Last
  <2> QED BY <2>2, <2>3
<1>9. Spinning(n.ui, n.calls)
  <2>1. ASSUME new.loading PROVE Waits(n.ui, n.calls, p)
    <3>1. Waits(World.ui, World.calls, p)
        BY <1>0, <1>3, <2>1 DEF Safe, Sound, Spinning
    <3> QED BY <1>3, <1>8, <2>1, <3>1
  <2> QED BY <1>0, <1>2, <1>7, <2>1 DEF Safe, Sound, Spinning
<1>10. Newest(n.ui, n.calls)
  <2> SUFFICES ASSUME page # "IncidentTimeline", NEW q \in Panels, NEW d \in n.calls, Last(n.ui, d, q)
               PROVE  d.of = n.ui[q].of
      BY DEF Newest
  <2>1. CASE q # p
      BY <1>0, <1>2, <1>5, <2>1 DEF Last, Safe, Sound, Newest
  <2>2. CASE q = p
    <3>1. Loads(d, p) /\ d.id = old.latest
        BY <1>3, <2>2 DEF Last
    <3>2. d.of = old.of
        BY <1>0, <1>5, <3>1 DEF Last, Safe, Sound, Newest
    <3> QED BY <1>3, <1>6, <2>2, <3>1, <3>2
  <2> QED BY <2>1, <2>2
<1>11. Asked(n.ui, n.calls)
  <2>0. c.of = k.at.of
      BY <1>01 DEF Results
  <2>1. ASSUME c.id = old.latest, page # "IncidentTimeline"
        PROVE  Settled(new)
    <3>1. c.of = old.of
        BY <1>0, <1>5, <2>1 DEF Last, Safe, Sound, Newest
    <3> QED BY <1>3, <2>0, <2>1, <3>1 DEF Settled
  <2>2. ASSUME Ordered PROVE Waits(n.ui, n.calls, p) \/ Settled(new)
    <3>1. CASE Waits(World.ui, World.calls, p) /\ c.id # old.latest
        BY <1>3, <1>8, <3>1
    <3>2. CASE Waits(World.ui, World.calls, p) /\ c.id = old.latest
        BY <1>3, <1>8, <2>0, <3>2 DEF Settled
    <3>3. CASE ~Waits(World.ui, World.calls, p)
      <4>1. Settled(old)
          BY <1>0, <2>2, <3>3 DEF Safe, Sound, Asked
      <4>2. CASE page \in InOrder
        <5>1. page = "IncidentTimeline" /\ old.of = None
            BY <1>0, <1>5, <3>3, <4>2 DEF Safe, Sound, Asked
        <5> QED BY <1>3, <5>1 DEF Settled
      <4>3. CASE page \in LatestPages /\ c.id = old.latest
          BY <2>1, <4>3 DEF LatestPages
      <4>4. CASE page \in LatestPages /\ c.id # old.latest
          BY <1>3, <4>1, <4>4 DEF Settled
      <4> QED BY <2>2, <4>2, <4>3, <4>4 DEF Ordered
    <3> QED BY <3>1, <3>2, <3>3
  <2>3. Ordered => \A q \in Panels : Waits(n.ui, n.calls, q) \/ Settled(n.ui[q])
      BY <1>0, <1>2, <1>7, <2>2 DEF Safe, Sound, Asked
  <2>4. page \in InOrder =>
          \A q \in Panels, d \in n.calls : Loads(d, q) =>
              /\ d.id <= n.ui[q].latest
              /\ Waits(n.ui, n.calls, q) \/ (page = "IncidentTimeline" /\ q = "side" /\ n.ui[q].of = None)
    <3> SUFFICES ASSUME page \in InOrder, NEW q \in Panels, NEW d \in n.calls, Loads(d, q)
                 PROVE  /\ d.id <= n.ui[q].latest
                        /\ Waits(n.ui, n.calls, q)
                           \/ (page = "IncidentTimeline" /\ q = "side" /\ n.ui[q].of = None)
        OBVIOUS
    <3>1. /\ d.id <= World.ui[q].latest
          /\ \/ Waits(World.ui, World.calls, q)
             \/ page = "IncidentTimeline" /\ q = "side" /\ World.ui[q].of = None
        BY <1>0, <1>5 DEF Safe, Sound, Asked
    <3>2. CASE q # p
        BY <1>2, <1>7, <3>1, <3>2
    <3>3. CASE q = p
      <4>1. d.id >= c.id /\ d.id # c.id /\ d.id \in Nat /\ c.id \in Nat /\ old.latest \in Nat
          BY <1>01, <1>1, <1>3, <1>5, <1>6, <3>3 DEF InTurn, Loads, IsCall, IsPanel
      <4>2. c.id # old.latest
          BY <3>1, <3>3, <4>1
      <4> QED BY <1>3, <1>8, <3>1, <3>3, <4>2
    <3> QED BY <3>2, <3>3
  <2>5. \A q \in Panels, o \in {FirstView, "repositories"} : Fixed(q, o) =>
          n.ui[q].of \in {None, o} /\ (n.ui[q].shown # None => n.ui[q].shown.of = o)
      BY <1>0, <1>2, <1>3 DEF Safe, Sound, Asked
  <2> QED BY <2>3, <2>4, <2>5 DEF Asked
<1>12. Numbers(n.ui, n.calls)
    BY <1>0, <1>01, <1>1, <1>2, <1>3, <1>5 DEF Safe, Sound, Numbers
<1> QED BY <1>1, <1>4, <1>9, <1>10, <1>11, <1>12 DEF Safe, Sound, AsidesOK

\* The panel of an answered load: emptied by a failure, or kept.
Filled(q, old, k) ==
    /\ IsPanel(q) /\ q.of = old.of /\ q.latest = old.latest /\ ~q.loading /\ q.failed = ~k.ok
    /\ q.shown = IF k.ok THEN k.at ELSE None
Kept(q, old, k) ==
    /\ IsPanel(q) /\ q.of = old.of /\ q.latest = old.latest /\ ~q.loading /\ q.failed
    /\ q.shown = old.shown

\* What an answer makes of its panel.
LEMMA FilledPanel ==
    ASSUME NEW q, IsPanel(q), NEW k, k.ok => IsSnapshot(k.at)
    PROVE  /\ Filled([q EXCEPT !.loading = FALSE, !.failed = ~k.ok,
                               !.shown = IF k.ok THEN k.at ELSE None], q, k)
           /\ Kept([q EXCEPT !.loading = FALSE, !.failed = TRUE], q, k)
<1>1. Filled([q EXCEPT !.loading = FALSE, !.failed = ~k.ok,
                       !.shown = IF k.ok THEN k.at ELSE None], q, k)
  <2> DEFINE n == [q EXCEPT !.loading = FALSE, !.failed = ~k.ok,
                            !.shown = IF k.ok THEN k.at ELSE None]
  <2>1. /\ n = [x \in PanelFields |-> n[x]]
        /\ n.of = q.of /\ n.latest = q.latest /\ ~n.loading /\ n.failed = ~k.ok
        /\ n.shown = IF k.ok THEN k.at ELSE None
      BY DEF IsPanel, PanelFields
  <2> HIDE DEF n
  <2>2. Filled(n, q, k)
      BY <2>1 DEF Filled, IsPanel
  <2> QED BY <2>2 DEF n
<1>2. Kept([q EXCEPT !.loading = FALSE, !.failed = TRUE], q, k)
  <2> DEFINE n == [q EXCEPT !.loading = FALSE, !.failed = TRUE]
  <2>1. /\ n = [x \in PanelFields |-> n[x]]
        /\ n.of = q.of /\ n.latest = q.latest /\ ~n.loading /\ n.failed /\ n.shown = q.shown
      BY DEF IsPanel, PanelFields
  <2> HIDE DEF n
  <2>2. Kept(n, q, k)
      BY <2>1 DEF Kept, IsPanel
  <2> QED BY <2>2 DEF n
<1> QED BY <1>1, <1>2

\* What Answered and AnsweredKeeping do to the world.
LEMMA AnsweredShape ==
    ASSUME NEW w, w = [x \in WorldFields |-> w[x]], w.ui = [x \in UiFields |-> w.ui[x]],
           NEW k, k.panel \in Panels, IsPanel(w.ui[k.panel]), k.ok => IsSnapshot(k.at)
    PROVE  /\ Answered(k, w).calls = w.calls /\ Alike(w, Answered(k, w), {k.panel})
           /\ Filled(Answered(k, w).ui[k.panel], w.ui[k.panel], k)
           /\ AnsweredKeeping(k, w).calls = w.calls /\ Alike(w, AnsweredKeeping(k, w), {k.panel})
           /\ IF k.ok THEN Filled(AnsweredKeeping(k, w).ui[k.panel], w.ui[k.panel], k)
              ELSE Kept(AnsweredKeeping(k, w).ui[k.panel], w.ui[k.panel], k)
<1> DEFINE p == k.panel
<1>1. p \in UiFields
    BY DEF Panels, UiFields
<1>2. Answered(k, w).calls = w.calls /\ Alike(w, Answered(k, w), {p})
      /\ Filled(Answered(k, w).ui[p], w.ui[p], k)
  <2> DEFINE n == [w EXCEPT !.ui[p].loading = FALSE, !.ui[p].failed = ~k.ok,
                            !.ui[p].shown = IF k.ok THEN k.at ELSE None]
  <2>1. n.calls = w.calls /\ Alike(w, n, {p})
        /\ n.ui[p] = [w.ui[p] EXCEPT !.loading = FALSE, !.failed = ~k.ok,
                                     !.shown = IF k.ok THEN k.at ELSE None]
      BY <1>1 DEF Alike, WorldFields, UiFields
  <2>2. Filled([w.ui[p] EXCEPT !.loading = FALSE, !.failed = ~k.ok,
                               !.shown = IF k.ok THEN k.at ELSE None], w.ui[p], k)
      BY FilledPanel
  <2> HIDE DEF n
  <2>3. n.calls = w.calls /\ Alike(w, n, {p}) /\ Filled(n.ui[p], w.ui[p], k)
      BY <2>1, <2>2
  <2> QED BY <2>3 DEF n, Answered
<1>3. [w EXCEPT !.ui[p].loading = FALSE, !.ui[p].failed = TRUE].calls = w.calls
      /\ Alike(w, [w EXCEPT !.ui[p].loading = FALSE, !.ui[p].failed = TRUE], {p})
      /\ Kept([w EXCEPT !.ui[p].loading = FALSE, !.ui[p].failed = TRUE].ui[p], w.ui[p], k)
  <2> DEFINE n == [w EXCEPT !.ui[p].loading = FALSE, !.ui[p].failed = TRUE]
  <2>1. n.calls = w.calls /\ Alike(w, n, {p})
        /\ n.ui[p] = [w.ui[p] EXCEPT !.loading = FALSE, !.failed = TRUE]
      BY <1>1 DEF Alike, WorldFields, UiFields
  <2>2. Kept([w.ui[p] EXCEPT !.loading = FALSE, !.failed = TRUE], w.ui[p], k)
      BY FilledPanel
  <2> HIDE DEF n
  <2>3. n.calls = w.calls /\ Alike(w, n, {p}) /\ Kept(n.ui[p], w.ui[p], k)
      BY <2>1, <2>2
  <2> QED BY <2>3 DEF n
<1>4. CASE k.ok
    BY <1>2, <1>4 DEF AnsweredKeeping
<1>5. CASE ~k.ok
    BY <1>2, <1>3, <1>5 DEF AnsweredKeeping
<1> QED BY <1>4, <1>5

Reading(c) == c.kind = "read" /\ c.then # "reread"

\* What the answered call and its panel are.
Reply(w, k, c) ==
    /\ w = [x \in WorldFields |-> w[x]] /\ w.ui = [x \in UiFields |-> w.ui[x]]
    /\ k.id = c.id /\ k.kind = c.kind /\ k.panel = c.panel /\ k.of = c.of /\ k.rows = c.rows
    /\ k.flag = c.flag /\ k.then = c.then /\ k.since = c.since
    /\ c.panel \in Panels /\ IsPanel(w.ui[c.panel]) /\ w.ui[c.panel] = World.ui[c.panel]
    /\ w.ui.list = World.ui.list /\ w.ui.side = World.ui.side
    /\ IsPanel(w.ui.list) /\ IsPanel(w.ui.side)
    /\ (c.kind = "read" => IsSnapshot(k.at) /\ k.at.of = c.of)
    /\ c \in World.calls /\ CallOK(c) /\ IsCall(c)

\* Facts about every answer.
LEMMA ReplyShape ==
    ASSUME ViewsInv, NEW w, NEW k, NEW c, Results(w, k, c)
    PROVE  Reply(w, k, c)
<1>1. w = [x \in WorldFields |-> w[x]] /\ w.ui = [x \in UiFields |-> w.ui[x]]
      /\ w.ui.list = World.ui.list /\ w.ui.side = World.ui.side
    BY DEF Results, Alike, Asides, UiFields
<1>2. k.id = c.id /\ k.kind = c.kind /\ k.panel = c.panel /\ k.of = c.of /\ k.rows = c.rows
      /\ k.flag = c.flag /\ k.then = c.then /\ k.since = c.since
    BY DEF Results, CallFields
<1>3. c \in World.calls /\ CallOK(c) /\ IsCall(c)
    BY DEF ViewsInv, Safe, Sound, Numbers, IsWorld, Results
<1>4. c.panel \in Panels
    BY <1>3 DEF IsCall
<1>5. IsPanel(w.ui.list) /\ IsPanel(w.ui.side)
    BY <1>1 DEF ViewsInv, Safe, IsWorld, IsUi
<1>6. IsPanel(w.ui[c.panel]) /\ w.ui[c.panel] = World.ui[c.panel]
    BY <1>1, <1>4, <1>5 DEF Panels
<1>7. c.kind = "read" => IsSnapshot(k.at) /\ k.at.of = c.of
    BY DEF Results
<1> QED BY <1>1, <1>2, <1>3, <1>4, <1>5, <1>6, <1>7 DEF Reply

\* A panel that is filled, or kept, is drawn as it may be.
LEMMA DrawnFilled ==
    ASSUME ViewsInv, NEW w, NEW k, NEW c, Results(w, k, c), Reading(c), NEW q,
           Filled(q, w.ui[c.panel], k) \/ Kept(q, w.ui[c.panel], k),
           page \in LatestPages => c.id = w.ui[c.panel].latest
    PROVE  Drawn(w, q, k, c)
<1>0. Reply(w, k, c)
    BY ReplyShape
<1>1. /\ c.panel \in Panels /\ w.ui[c.panel] = World.ui[c.panel]
      /\ (c.kind = "read" => IsSnapshot(k.at) /\ k.at.of = c.of)
      /\ CallOK(c)
    BY <1>0 DEF Reply
<1>2. \A o \in {FirstView, "repositories"} : Fixed(c.panel, o) =>
          /\ c.of = o
          /\ w.ui[c.panel].of \in {None, o}
          /\ w.ui[c.panel].shown # None => w.ui[c.panel].shown.of = o
    BY <1>1 DEF Reading, CallOK, ViewsInv, Safe, Sound, Asked
<1> QED
    BY <1>1, <1>2 DEF Drawn, Filled, Kept, Reading

\* The answer of a load.
LEMMA AnsweredLoad ==
    ASSUME ViewsInv, NEW w, NEW k, NEW c, Results(w, k, c), InTurn(c), Reading(c),
           page \in LatestPages => c.id = w.ui[c.panel].latest,
           page \in {"AlertList", "DeadLetters"} => c.panel = "side"
    PROVE  Safe(Answered(k, w), c.flag) /\ Safe(AnsweredKeeping(k, w), c.flag)
<1>0. Reply(w, k, c)
    BY ReplyShape
<1>1. /\ w = [x \in WorldFields |-> w[x]] /\ w.ui = [x \in UiFields |-> w.ui[x]]
      /\ k.panel = c.panel
      /\ c.panel \in Panels /\ IsPanel(w.ui[c.panel])
      /\ (c.kind = "read" => IsSnapshot(k.at) /\ k.at.of = c.of)
    BY <1>0 DEF Reply
<1> DEFINE m == Answered(k, w)
           n == AnsweredKeeping(k, w)
<1>2. /\ m.calls = w.calls /\ Alike(w, m, {c.panel})
      /\ Filled(m.ui[c.panel], w.ui[c.panel], k)
      /\ n.calls = w.calls /\ Alike(w, n, {c.panel})
      /\ IF k.ok THEN Filled(n.ui[c.panel], w.ui[c.panel], k) ELSE Kept(n.ui[c.panel], w.ui[c.panel], k)
    BY <1>1, AnsweredShape DEF Reading
<1> HIDE DEF m, n
<1>3. Drawn(w, m.ui[c.panel], k, c) /\ Drawn(w, n.ui[c.panel], k, c)
    BY <1>2, DrawnFilled
<1>4. AsidesOK(w.ui)
    BY DEF Results
<1>5. \A v : Alike(w, v, {c.panel}) => Alike(w, v, Asides \cup {c.panel}) /\ AsidesOK(v.ui)
  <2> SUFFICES ASSUME NEW v, Alike(w, v, {c.panel})
               PROVE  Alike(w, v, Asides \cup {c.panel}) /\ AsidesOK(v.ui)
      OBVIOUS
  <2>1. v.ui.sel = w.ui.sel /\ v.ui.dialog = w.ui.dialog /\ v.ui.held = w.ui.held /\ v.ui.busy = w.ui.busy
        /\ (c.panel = "side" => v.ui.list = w.ui.list)
      BY <1>1 DEF Alike, UiFields, Panels
  <2>2. Alike(w, v, Asides \cup {c.panel})
      BY DEF Alike
  <2> QED BY <1>4, <2>1, <2>2 DEF AsidesOK, Selected, Selectable, DialogOK, HeldOK
<1>6. Loads(c, c.panel)
    BY DEF Loads, Reading
<1>7. Safe(m, c.flag)
    BY <1>1, <1>2, <1>3, <1>5, <1>6, Drawing
<1>8. Safe(n, c.flag)
    BY <1>1, <1>2, <1>3, <1>5, <1>6, Drawing
<1> QED BY <1>7, <1>8 DEF m, n

\* An answer that is dropped because a later load was sent.
LEMMA AnsweredOld ==
    ASSUME ViewsInv, NEW w, NEW k, NEW c, Results(w, k, c), InTurn(c), Reading(c),
           c.id # w.ui[c.panel].latest
    PROVE  Safe(w, c.flag)
<1>0. Reply(w, k, c)
    BY ReplyShape
<1>1. /\ c.panel \in Panels /\ IsPanel(w.ui[c.panel]) /\ w.ui[c.panel] = World.ui[c.panel]
      /\ (c.kind = "read" => IsSnapshot(k.at) /\ k.at.of = c.of)
    BY <1>0 DEF Reply
<1>2. Drawn(w, w.ui[c.panel], k, c)
    BY <1>1 DEF Drawn, ViewsInv, Safe, Sound, Asked
<1>3. Alike(w, w, Asides \cup {c.panel}) /\ AsidesOK(w.ui)
    BY DEF Results, Alike
<1>4. Loads(c, c.panel)
    BY DEF Loads, Reading
<1> QED BY <1>1, <1>2, <1>3, <1>4, Drawing

\* A load function with a sequence number.
LEMMA AnsweredLast ==
    ASSUME ViewsInv, NEW w, NEW k, NEW c, Results(w, k, c), InTurn(c), Reading(c),
           page \notin {"AlertList", "DeadLetters"}
    PROVE  Safe(AnsweredLatest(k, w), c.flag)
<1>0. Reply(w, k, c)
    BY ReplyShape
<1>1. k.panel = c.panel /\ k.id = c.id
    BY <1>0 DEF Reply
<1>2. CASE c.id = w.ui[c.panel].latest
    BY <1>1, <1>2, AnsweredLoad DEF AnsweredLatest
<1>3. CASE c.id # w.ui[c.panel].latest
    BY <1>1, <1>3, AnsweredOld DEF AnsweredLatest
<1> QED BY <1>2, <1>3

----------------------------------------------------------------------------
(***************************************************************************)
(* Steps.  A handler makes one world of another while the page stays.      *)
(***************************************************************************)
\* What the page decides stays while the page does.
LEMMA SamePageCalls ==
    ASSUME page' = page
    PROVE  /\ \A kind : Marks(kind)' <=> Marks(kind)
           /\ \A f : Loose(f)' <=> Loose(f)
           /\ \A p, o : Fixed(p, o)' <=> Fixed(p, o)
           /\ \A c : CallOK(c)' <=> CallOK(c)
           /\ Ordered' <=> Ordered
<1>1. \A kind : Marks(kind)' <=> Marks(kind) BY DEF Marks
<1>2. \A f : Loose(f)' <=> Loose(f) BY DEF Loose
<1>3. \A p, o : Fixed(p, o)' <=> Fixed(p, o) BY DEF Fixed
<1>4. \A kind, panel, flag, then : MayHold(kind, panel, flag, then)' <=> MayHold(kind, panel, flag, then)
    BY DEF MayHold
<1>5. \A c : CallOK(c)' <=> CallOK(c) BY <1>3, <1>4 DEF CallOK
<1>6. Ordered' <=> Ordered BY DEF Ordered
<1> QED BY <1>1, <1>2, <1>3, <1>5, <1>6

\* The invariant of a component says the same after a step.
LEMMA SamePageSound ==
    ASSUME page' = page
    PROVE  \A u, C, f : Sound(u, C, f) => Sound(u, C, f)'
<1> SUFFICES ASSUME NEW u, NEW C, NEW f, Sound(u, C, f) PROVE Sound(u, C, f)'
    OBVIOUS
<1>1. Spinning(u, C)' BY DEF Sound, Spinning, Waits, Last, Loads, Panels
<1>2. Busy(u, C, f)'
  <2>1. \A c, b : Holds(c, b)' <=> Holds(c, b) BY SamePageCalls DEF Holds
  <2> QED BY <2>1 DEF Sound, Busy
<1>3. Once(u, C, f)' BY SamePageCalls DEF Sound, Once, Flags
<1>4. Numbers(u, C)' BY SamePageCalls DEF Sound, Numbers, Panels, QueryPages
<1>5. Newest(u, C)' BY DEF Sound, Newest, Last, Loads, Panels
<1>6. Asked(u, C)'
  <2>1. \A p : Waits(u, C, p)' <=> Waits(u, C, p) BY DEF Waits, Last, Loads
  <2>2. \A q : Settled(q)' <=> Settled(q) BY DEF Settled
  <2>3. \A c, p : Loads(c, p)' <=> Loads(c, p) BY DEF Loads
  <2> QED BY <2>1, <2>2, <2>3, SamePageCalls DEF Sound, Asked, Panels
<1>7. Selected(u)'
    BY DEF Sound, Selected, Selectable, RowsOf
<1>8. DialogOK(u)'
    BY DEF Sound, DialogOK, Askable
<1>9. HeldOK(u)'
    BY DEF Sound, HeldOK, Holdable, IsSnapshot
<1> QED BY <1>1, <1>2, <1>3, <1>4, <1>5, <1>6, <1>7, <1>8, <1>9 DEF Sound

\* A step to a world that is safe.
LEMMA Stepping ==
    ASSUME page' = page, page \in Page, NEW n, Safe(n, "none"), ui' = n.ui, calls' = n.calls
    PROVE  ViewsInv'
<1>1. Sound(n.ui, n.calls, "none") /\ IsUi(n.ui) /\ \A c \in n.calls : IsCall(c)
    BY DEF Safe, IsWorld
<1>2. PICK u, C : u = ui' /\ C = calls' /\ Sound(u, C, "none") /\ IsUi(u) /\ \A c \in C : IsCall(c)
    BY <1>1
<1>3. Sound(u, C, "none")'
    BY <1>2, SamePageSound
<1>4. IsUi(u)' /\ \A c \in C : IsCall(c)'
    BY <1>2 DEF IsUi, IsCall, IsPanel, IsSnapshot, UiFields, PanelFields, CallFields, Panels, Flags
<1> QED
    BY <1>2, <1>3, <1>4 DEF ViewsInv, Safe, IsWorld, World, WorldFields

\* The step of a handler that ends in a world that is safe.
LEMMA Becoming ==
    ASSUME ViewsInv, NEW n, Safe(n, "none"), Become({n})
    PROVE  ViewsInv'
BY Stepping DEF Become, ViewsInv

\* A component that has made no call.
LEMMA Mounting ==
    ASSUME NEW n, n = [x \in WorldFields |-> n[x]], n.ui = [x \in UiFields |-> n.ui[x]],
           n.calls = {}, n.ui.list = EmptyPanel, n.ui.side = EmptyPanel, n.ui.busy = {},
           n.ui.started \in Nat, AsidesOK(n.ui)
    PROVE  Safe(n, "none")
<1>1. IsPanel(EmptyPanel) /\ EmptyPanel.shown = None /\ EmptyPanel.of = None /\ EmptyPanel.loading = FALSE
      /\ EmptyPanel.latest = 0
    BY DEF EmptyPanel, IsPanel, PanelFields
<1>2. \A p \in Panels : n.ui[p] = EmptyPanel
    BY DEF Panels
<1>3. IsWorld(n)
    BY <1>1 DEF IsWorld, IsUi
<1>4. Spinning(n.ui, n.calls) /\ Newest(n.ui, n.calls)
    BY <1>1, <1>2 DEF Spinning, Newest
<1>5. Asked(n.ui, n.calls)
    BY <1>1, <1>2 DEF Asked, Settled
<1>6. Busy(n.ui, n.calls, "none") /\ Once(n.ui, n.calls, "none")
    BY DEF Busy, Once
<1>7. Numbers(n.ui, n.calls)
    BY <1>1, <1>2 DEF Numbers
<1> QED BY <1>3, <1>4, <1>5, <1>6, <1>7 DEF Safe, Sound, AsidesOK

\* What a page starts from.
LEMMA Starting ==
    ASSUME NEW s, NEW w, w = Opened(s), page # "LoginPolicy"
    PROVE  Safe(w, "none")
<1>1. /\ w = [x \in WorldFields |-> w[x]] /\ w.ui = [x \in UiFields |-> w.ui[x]]
      /\ w.calls = {} /\ w.ui.list = EmptyPanel /\ w.ui.side = EmptyPanel /\ w.ui.busy = {}
      /\ w.ui.started = 0 /\ w.ui.sel = {} /\ w.ui.dialog = None /\ w.ui.held = None
    BY DEF Opened, Blank, WorldFields, UiFields
<1>2. AsidesOK(w.ui)
    BY <1>1 DEF AsidesOK, Selected, Selectable, DialogOK, Askable, HeldOK, Holdable
<1> QED BY <1>1, <1>2, Mounting

\* A component that is left.
LEMMA Leaving ==
    ASSUME NEW w, w = [x \in WorldFields |-> w[x]], w.ui.started \in Nat, page # "LoginPolicy"
    PROVE  Safe(Leave(w), "none")
<1> DEFINE b == [Blank EXCEPT !.hidden = TRUE, !.started = w.ui.started]
           n == [w EXCEPT !.ui = b, !.calls = {}]
<1>1. /\ b = [x \in UiFields |-> b[x]] /\ b.list = EmptyPanel /\ b.side = EmptyPanel /\ b.busy = {}
      /\ b.started = w.ui.started /\ b.sel = {} /\ b.dialog = None /\ b.held = None
    BY DEF Blank, UiFields
<1> HIDE DEF b
<1>2. n.ui = b /\ n.calls = {} /\ n = [x \in WorldFields |-> n[x]]
    BY DEF WorldFields
<1> HIDE DEF n
<1>3. AsidesOK(n.ui)
    BY <1>1, <1>2 DEF AsidesOK, Selected, Selectable, DialogOK, Askable, HeldOK, Holdable
<1>4. Safe(n, "none")
    BY <1>1, <1>2, <1>3, Mounting
<1> QED BY <1>4 DEF n, b, Leave

\* The server's step changes the store, and what is known of it.
LEMMA OutcomeResults ==
    ASSUME ViewsInv, NEW c \in World.calls, NEW w, w.calls = World.calls, Alike(World, w, {"known"}),
           NEW k, k = [x \in CallFields |-> k[x]],
           \A x \in CallFields \ {"ok", "done", "missing", "at"} : k[x] = c[x],
           c.kind = "read" => IsSnapshot(k.at) /\ k.at.of = c.of,
           NEW n, n = [w EXCEPT !.calls = @ \ {c}]
    PROVE  Results(n, k, c)
<1>1. n.calls = World.calls \ {c} /\ n.ui = w.ui /\ n = [x \in WorldFields |-> n[x]]
    BY DEF Alike, WorldFields
<1>2. Alike(World, n, {"known"})
    BY <1>1 DEF Alike
<1>3. AsidesOK(n.ui)
    BY <1>2 DEF Alike, UiFields, AsidesOK, ViewsInv, Safe, Sound, Selected, DialogOK, HeldOK
<1>4. Alike(World, n, Asides)
    BY <1>2 DEF Alike, Asides
<1> QED BY <1>1, <1>3, <1>4 DEF Results

\* A write that the server applies.
LEMMA ApplyResults ==
    ASSUME ViewsInv, NEW c \in World.calls, c.kind # "read", NEW applied, NEW acked, NEW new
    PROVE  Results(Apply(World, c, applied, acked, new).world, Apply(World, c, applied, acked, new).call, c)
<1> DEFINE changed == {r \in applied : new[r] # "same"}
           v == IF changed = {} THEN World.version ELSE World.version + 1
           next == [World EXCEPT !.store = [r \in Row |-> IF r \in changed THEN new[r] ELSE @[r]],
                                 !.version = v,
                                 !.ui.known = [r \in Row |-> IF r \in acked \cap changed THEN v ELSE @[r]]]
           n == [next EXCEPT !.calls = @ \ {c}]
           k == [c EXCEPT !.done = acked,
                          !.missing = {r \in c.rows : World.store[r] = "gone"},
                          !.ok = acked # {} /\ c.rows \subseteq acked]
<1>1. Apply(World, c, applied, acked, new).world = n /\ Apply(World, c, applied, acked, new).call = k
    BY DEF Apply, Outcome
<1>2. IsWorld(World) /\ IsCall(c)
    BY DEF ViewsInv, Safe, IsWorld
<1>3. k = [x \in CallFields |-> k[x]]
      /\ \A x \in CallFields \ {"ok", "done", "missing", "at"} : k[x] = c[x]
    BY <1>2 DEF IsCall, CallFields
<1>4. next.calls = World.calls /\ Alike(World, next, {"known"})
    BY <1>2 DEF IsWorld, IsUi, Alike, WorldFields, UiFields
<1> HIDE DEF next, k
<1>5. Results(n, k, c)
    BY <1>3, <1>4, OutcomeResults
<1> QED BY <1>1, <1>5

\* Every outcome of a call is the world and the call that a handler goes on with.
LEMMA Resulting ==
    ASSUME ViewsInv, NEW c \in calls, NEW o \in Outcomes(c)
    PROVE  Results(o.world, o.call, c)
<1>0. c \in World.calls
    BY DEF World
<1>1. IsCall(c) /\ Alike(World, World, {"known"})
    BY <1>0 DEF ViewsInv, Safe, IsWorld, IsUi, Alike
<1>2. Results(Outcome(World, c).world, Outcome(World, c).call, c)
  <2>1. Outcome(World, c).world = [World EXCEPT !.calls = @ \ {c}] /\ Outcome(World, c).call = c
      BY DEF Outcome
  <2>2. /\ c = [x \in CallFields |-> c[x]]
        /\ c.kind = "read" => IsSnapshot(c.at) /\ c.at.of = c.of
      BY <1>1 DEF IsCall
  <2> QED BY <1>0, <1>1, <2>1, <2>2, OutcomeResults
<1>3. ASSUME c.kind = "read", NEW at, IsSnapshot(at), at.of = c.of,
             o = [Outcome(World, c) EXCEPT !.call.ok = TRUE, !.call.at = at]
      PROVE  Results(o.world, o.call, c)
  <2> DEFINE k == [c EXCEPT !.ok = TRUE, !.at = at]
  <2>1. o.world = [World EXCEPT !.calls = @ \ {c}] /\ o.call = k
      BY <1>3 DEF Outcome
  <2>2. k = [x \in CallFields |-> k[x]]
        /\ (\A x \in CallFields \ {"ok", "done", "missing", "at"} : k[x] = c[x])
        /\ k.at = at
      BY <1>1 DEF IsCall, CallFields
  <2> HIDE DEF k
  <2> QED BY <1>0, <1>1, <1>3, <2>1, <2>2, OutcomeResults
<1>4. CASE c.kind = "read"
  <2>1. o \in ReadOutcomes(World, c)
      BY <1>4 DEF Outcomes
  <2>2. IsSnapshot(c.at) /\ c.at.of = c.of
      BY <1>1, <1>4 DEF IsCall
  <2>3. CASE o = Outcome(World, c)
      BY <1>2, <2>3
  <2>4. ASSUME NEW at \in {c.at, Snapshot(World, c.of)},
               o = [Outcome(World, c) EXCEPT !.call.ok = TRUE, !.call.at = at]
        PROVE  Results(o.world, o.call, c)
    <3>1. IsSnapshot(at) /\ at.of = c.of
        BY <2>2, <2>4, Snapshots
    <3> QED BY <1>3, <1>4, <2>4, <3>1
  <2> QED BY <2>1, <2>3, <2>4 DEF ReadOutcomes
<1>5. ASSUME c.kind # "read", NEW applied, NEW new, o \in Applications(World, c, applied, new)
      PROVE  Results(o.world, o.call, c)
    BY <1>0, <1>5, ApplyResults DEF Applications
<1>6. CASE c.kind # "read"
  <2>1. o = Outcome(World, c) \/ \E applied, new : o \in Applications(World, c, applied, new)
    <3>1. \A new : o \in WriteOutcomes(World, c, new) => \E applied : o \in Applications(World, c, applied, new)
        BY DEF WriteOutcomes
    <3>2. \A new : o \in RequestOutcomes(World, c, new) =>
              o = Outcome(World, c) \/ \E applied : o \in Applications(World, c, applied, new)
        BY DEF RequestOutcomes
    <3>3. \A s, v : o \in CreateOutcomes(World, c, s, v) =>
              o = Outcome(World, c) \/ \E applied, new : o \in Applications(World, c, applied, new)
        BY DEF CreateOutcomes
    <3>4. CASE c.kind = "create"
        BY <3>3, <3>4 DEF Outcomes
    <3>5. CASE c.kind = "replay"
        BY <3>2, <3>5 DEF Outcomes
    <3>6. CASE c.kind \notin {"read", "create", "replay"}
      <4>1. \E new : o \in WriteOutcomes(World, c, new)
          BY <3>6 DEF Outcomes
      <4> QED BY <3>1, <4>1
    <3> QED BY <1>6, <3>4, <3>5, <3>6
  <2> QED BY <1>2, <1>5, <1>6, <2>1
<1> QED BY <1>4, <1>6

----------------------------------------------------------------------------
(***************************************************************************)
(* The client of the query API, which joins loads.                         *)
(***************************************************************************)
\* c is the call d under a new number, with the button of the handler or d's.
Joined(w, n, d, c) ==
    /\ n.calls = (w.calls \ {d}) \cup {c}
    /\ c = [x \in CallFields |-> c[x]] /\ c.id = w.ui.started + 1
    /\ \A x \in CallFields \ {"id", "flag"} : c[x] = d[x]
    /\ Alike(w, n, {"started", "list"}) /\ n.ui.started = w.ui.started + 1
    /\ IsPanel(n.ui.list) /\ Asking(n.ui.list, d.of, w.ui.started + 1)
    /\ n.ui.list.shown = w.ui.list.shown

\* A load that is joined goes on under the number of the later one.
LEMMA Joining ==
    ASSUME NEW w, NEW f, Safe(w, f), page \in QueryPages, NEW d \in w.calls, d.kind = "read",
           NEW n, NEW c, Joined(w, n, d, c), NEW g,
           (c.flag = d.flag /\ g = f) \/ (c.flag = f /\ d.flag = "none" /\ g = "none"),
           c.flag = "none" \/ MayHold("read", "list", c.flag, c.then)
    PROVE  Safe(n, g)
<1>1. IsCall(d) /\ CallOK(d) /\ d.panel = "list" /\ d.then # "reread"
    BY DEF Safe, IsWorld, Sound, Numbers, CallOK, QueryPages, ChannelPages
<1>2. c.kind = "read" /\ c.panel = "list" /\ c.of = d.of /\ c.then = d.then /\ c.rows = d.rows
      /\ c.at = d.at /\ c.since = d.since
    BY <1>1 DEF Joined, CallFields
<1>3. w.ui.started \in Nat /\ c.id = w.ui.started + 1 /\ c.id \in Nat
      /\ \A x \in w.calls : x.id \in Nat /\ x.id <= w.ui.started
    BY DEF Joined, Safe, IsWorld, IsUi, IsCall, Sound, Numbers
<1>4. n.ui.side = w.ui.side /\ n.ui.busy = w.ui.busy /\ n.ui.sel = w.ui.sel
      /\ n.ui.dialog = w.ui.dialog /\ n.ui.held = w.ui.held
    BY DEF Joined, Alike, UiFields
<1>5. \A x \in w.calls : x.panel = "list"
    BY DEF Safe, Sound, Numbers, CallOK
<1>6. \A x \in n.calls : x = c \/ (x \in w.calls /\ x # d)
    BY DEF Joined
<1>7. c \in n.calls /\ \A x \in w.calls : x # d => x \in n.calls
    BY DEF Joined
<1>8. c.flag \in Flags \cup {"none"}
    BY <1>1 DEF IsCall, Safe, Sound, Once
<1>9. IsCall(c) /\ CallOK(c)
  <2>1. IsCall(c)
      BY <1>1, <1>2, <1>3, <1>8 DEF IsCall, Joined
  <2>2. CallOK(c)
      BY <1>1, <1>2 DEF CallOK, QueryPages, ChannelPages, ReadPages
  <2> QED BY <2>1, <2>2
<1>10. IsWorld(n)
    BY <1>4, <1>6, <1>9, <1>3 DEF Joined, Alike, Safe, IsWorld, IsUi
<1>11. Last(n.ui, c, "list") /\ Waits(n.ui, n.calls, "list") /\ ~Loads(c, "side")
    BY <1>1, <1>2, <1>3, <1>7 DEF Last, Loads, Waits, Joined, Asking
<1>12. \A x \in w.calls : ~Loads(x, "side")
    BY <1>5 DEF Loads
<1>13. ~Waits(w.ui, w.calls, "side") /\ ~w.ui.side.loading
    BY <1>12 DEF Waits, Last, Safe, Sound, Spinning, Panels
<1>14. Spinning(n.ui, n.calls)
    BY <1>4, <1>11, <1>13 DEF Spinning, Panels
<1>15. Newest(n.ui, n.calls)
  <2>1. \A x \in n.calls : Last(n.ui, x, "list") => x = c
      BY <1>3, <1>6 DEF Last, Joined, Asking
  <2>2. \A x \in n.calls : ~Last(n.ui, x, "side")
      BY <1>6, <1>11, <1>12 DEF Last
  <2> QED BY <1>2, <2>1, <2>2 DEF Newest, Panels, Joined, Asking
<1>16. Asked(n.ui, n.calls)
  <2>1. Ordered => Settled(n.ui.side)
      BY <1>4, <1>13 DEF Safe, Sound, Asked, Panels
  <2>2. \A x \in n.calls : Loads(x, "list") => x.id <= n.ui.list.latest
      BY <1>3, <1>6 DEF Joined, Asking
  <2>3. \A x \in n.calls : ~Loads(x, "side")
      BY <1>6, <1>11, <1>12
  <2>4. \A o \in {FirstView, "repositories"} : Fixed("list", o) =>
          n.ui.list.of \in {None, o} /\ (n.ui.list.shown # None => n.ui.list.shown.of = o)
      BY <1>1 DEF CallOK, Joined, Asking, Safe, Sound, Asked, Panels
  <2>5. \A o \in {FirstView, "repositories"} : Fixed("side", o) =>
          n.ui.side.of \in {None, o} /\ (n.ui.side.shown # None => n.ui.side.shown.of = o)
      BY <1>4 DEF Safe, Sound, Asked, Panels
  <2> QED BY <1>11, <2>1, <2>2, <2>3, <2>4, <2>5 DEF Asked, Panels
<1>17. Busy(n.ui, n.calls, g)
  <2>1. \A b \in w.ui.busy : b # "none" /\ (b = f \/ \E x \in w.calls : Holds(x, b))
      BY DEF Safe, Sound, Busy
  <2>2. \A b : ~(b \in Row /\ Holds(d, b))
      BY <1>1 DEF Holds, Marks, QueryPages
  <2>3. \A b : b \notin Row /\ b = c.flag => Holds(c, b)
      BY DEF Holds
  <2>4. ASSUME NEW b \in n.ui.busy
        PROVE  b # "none" /\ (b = g \/ \E x \in n.calls : Holds(x, b))
    <3>1. b \in w.ui.busy /\ b # "none" BY <1>4, <2>1, <2>4
    <3>2. CASE b = f
      <4>1. f \notin Row BY FlagsApart DEF Safe, Sound, Once
      <4> QED BY <3>1, <3>2, <4>1, <2>3, <1>7
    <3>3. CASE \E x \in w.calls : Holds(x, b)
      <4>1. PICK x \in w.calls : Holds(x, b) BY <3>3
      <4>2. CASE x # d
          BY <4>1, <4>2, <3>1, <1>7
      <4>3. CASE x = d
        <5>1. b \notin Row /\ b = d.flag BY <4>1, <4>3, <2>2 DEF Holds
        <5> QED BY <5>1, <3>1, <2>3, <1>7
      <4> QED BY <4>2, <4>3
    <3> QED BY <2>1, <3>1, <3>2, <3>3
  <2>5. page # "IncidentArchive"
      BY DEF QueryPages
  <2> QED BY <2>4, <2>5 DEF Busy
<1>18. Once(n.ui, n.calls, g)
  <2>1. /\ f \in Flags \cup {"none"}
        /\ \A x \in w.calls : x.flag # "none" => x.flag \in w.ui.busy
        /\ \A x, y \in w.calls : x.flag = y.flag /\ x.flag # "none" => x = y
        /\ f # "none" => f \in w.ui.busy /\ \A x \in w.calls : x.flag # f
      BY DEF Safe, Sound, Once, Loose, QueryPages
  <2>2. g \in Flags \cup {"none"}
      BY <2>1
  <2>3. \A x \in n.calls : x.flag # "none" => x.flag \in n.ui.busy
      BY <1>4, <1>6, <2>1
  <2>4. \A x \in n.calls : x # c /\ x.flag = c.flag /\ c.flag # "none" => FALSE
      BY <1>6, <2>1
  <2>5. \A x, y \in n.calls : x.flag = y.flag /\ x.flag # "none" => x = y
      BY <1>6, <2>1, <2>4
  <2>6. g # "none" => g \in n.ui.busy /\ \A x \in n.calls : x.flag # g
      BY <1>4, <1>6, <2>1
  <2> QED BY <2>2, <2>3, <2>5, <2>6 DEF Once
<1>19. Numbers(n.ui, n.calls)
  <2>1. \A x \in n.calls : CallOK(x) /\ x.id <= n.ui.started
      BY <1>3, <1>6, <1>9 DEF Safe, Sound, Numbers, Joined
  <2>2. \A p \in Panels : n.ui[p].latest <= n.ui.started
    <3>1. w.ui.side.latest \in Nat /\ w.ui.side.latest <= w.ui.started
        BY DEF Safe, IsWorld, IsUi, IsPanel, Sound, Numbers, Panels
    <3>2. n.ui.side.latest <= n.ui.started
        BY <1>3, <1>4, <3>1 DEF Joined
    <3>3. n.ui.list.latest <= n.ui.started
        BY <1>3 DEF Joined, Asking
    <3> QED BY <3>2, <3>3 DEF Panels
  <2>3. \A x, y \in n.calls : x.id = y.id => x = y
    <3>1. \A x \in w.calls : x.id # c.id
        BY <1>3
    <3> QED BY <1>6, <3>1 DEF Safe, Sound, Numbers
  <2>4. \A x, y \in n.calls : x.kind = "read" /\ y.kind = "read" /\ x.of = y.of => x = y
      BY <1>2, <1>6 DEF Safe, Sound, Numbers
  <2> QED BY <2>1, <2>2, <2>3, <2>4 DEF Numbers
<1>20. Selected(n.ui) /\ DialogOK(n.ui) /\ HeldOK(n.ui)
  <2>1. RowsOf(n.ui.list) = RowsOf(w.ui.list)
      BY DEF Joined, RowsOf
  <2> QED BY <1>4, <2>1 DEF Safe, Sound, Selected, Selectable, DialogOK, HeldOK
<1> QED BY <1>10, <1>14, <1>15, <1>16, <1>17, <1>18, <1>19, <1>20 DEF Safe, Sound

\* What joining a load does to the calls.
LEMMA JoinedShape ==
    ASSUME NEW w, NEW f, Safe(w, f), page \in QueryPages, NEW d \in w.calls, d.kind = "read",
           NEW flag
    PROVE  \E c : Joined(w, QueryGet(w, d.of, flag), d, c)
                  /\ c.flag = IF flag = "none" THEN d.flag ELSE flag
<1> DEFINE same == {c \in w.calls : c.kind = "read" /\ c.of = d.of}
           next == Await(w, "list", d.of, flag, "none")
           c == [d EXCEPT !.id = next.ui.started, !.flag = IF flag = "none" THEN @ ELSE flag]
           n == [next EXCEPT !.calls = (w.calls \ same) \cup {c}]
<1>1. same = {d}
    BY DEF Safe, Sound, Numbers
<1>2. QueryGet(w, d.of, flag) = n
  <2>1. same # {}
      BY <1>1
  <2>2. {[x EXCEPT !.id = next.ui.started, !.flag = IF flag = "none" THEN @ ELSE flag] : x \in same} = {c}
      BY <1>1
  <2> HIDE DEF c
  <2> QED BY <2>1, <2>2 DEF QueryGet
<1>3. /\ next.ui.started = w.ui.started + 1
      /\ IsPanel(next.ui["list"]) /\ Asking(next.ui["list"], d.of, w.ui.started + 1)
      /\ next.ui["list"].shown = w.ui["list"].shown
      /\ Alike(w, next, {"started", "list"})
  <2>1. "list" \in Panels
      BY DEF Panels
  <2>2. \E x : AwaitMakes(w, next, x, "list", d.of, flag, "none")
      BY <2>1, AwaitShape, Zenon
  <2> QED BY <2>2 DEF AwaitMakes
<1> HIDE DEF next
<1>4. d = [x \in CallFields |-> d[x]]
    BY DEF Safe, IsWorld, IsCall
<1>5. /\ c = [x \in CallFields |-> c[x]] /\ c.id = w.ui.started + 1
      /\ \A x \in CallFields \ {"id", "flag"} : c[x] = d[x]
      /\ c.flag = IF flag = "none" THEN d.flag ELSE flag
    BY <1>3, <1>4 DEF CallFields
<1> HIDE DEF c, same
<1>6. n.calls = (w.calls \ {d}) \cup {c} /\ n.ui = next.ui /\ n = [x \in WorldFields |-> n[x]]
    BY <1>1, <1>3 DEF Alike, WorldFields
<1> HIDE DEF n
<1>7. Alike(w, n, {"started", "list"})
    BY <1>3, <1>6 DEF Alike
<1>8. Joined(w, n, d, c)
    BY <1>3, <1>5, <1>6, <1>7 DEF Joined
<1> QED BY <1>2, <1>5, <1>8

\* A query is loaded, by a handler that gives its button to the load or keeps it.
LEMMA Querying ==
    ASSUME NEW w, NEW f, Safe(w, f), page \in QueryPages, NEW view,
           page = "ReportManagement" => view = FirstView,
           NEW flag, NEW g,
           flag = "none" \/ MayHold("read", "list", flag, "none"),
           (flag = f /\ g = "none") \/ (flag = "none" /\ g = f)
    PROVE  Safe(QueryGet(w, view, flag), g)
<1> DEFINE same == {c \in w.calls : c.kind = "read" /\ c.of = view}
<1>1. CASE same = {}
  <2>1. LoadOf("list", view)
      BY DEF LoadOf, Panels, Fixed, QueryPages, OnePages
  <2>2. Alone(w, view)
      BY <1>1 DEF Alone
  <2>3. Safe(Await(w, "list", view, flag, "none"), g)
      BY <2>1, <2>2, SendingAwait
  <2> QED BY <1>1, <2>3 DEF QueryGet
<1>2. CASE same # {}
  <2>1. PICK d \in w.calls : d.kind = "read" /\ d.of = view
      BY <1>2
  <2>2. PICK c : /\ Joined(w, QueryGet(w, d.of, flag), d, c)
                 /\ c.flag = IF flag = "none" THEN d.flag ELSE flag
      BY <2>1, JoinedShape
  <2>3. CallOK(d)
      BY DEF Safe, Sound, Numbers
  <2>4. c.then = d.then /\ d.panel = "list"
      BY <2>2, <2>3 DEF Joined, CallFields, CallOK
  <2>5. d.flag = "none" \/ MayHold("read", "list", d.flag, d.then)
      BY <2>1, <2>3, <2>4 DEF CallOK
  <2>6. c.flag = "none" \/ MayHold("read", "list", c.flag, c.then)
    <3>1. flag = "none" \/ MayHold("read", "list", flag, c.then)
        BY DEF MayHold, QueryPages
    <3> QED BY <2>2, <2>4, <2>5, <3>1
  <2>7. flag # "none" => d.flag = "none"
    <3> SUFFICES ASSUME flag # "none" PROVE d.flag = "none"
        OBVIOUS
    <3>1. flag = f /\ ~Loose(f)
        BY DEF Loose, QueryPages
    <3>2. d.flag # f
        BY <3>1 DEF Safe, Sound, Once
    <3>3. d.flag \in {"none", f}
        BY <2>5, <3>1 DEF MayHold, QueryPages
    <3> QED BY <3>2, <3>3
  <2>8. (c.flag = d.flag /\ g = f) \/ (c.flag = f /\ d.flag = "none" /\ g = "none")
      BY <2>2, <2>7
  <2>9. Safe(QueryGet(w, d.of, flag), g)
      BY <2>1, <2>2, <2>6, <2>8, Joining
  <2> QED BY <2>1, <2>9
<1> QED BY <1>1, <1>2

\* The button of a retry.
LEMMA Retrying ==
    ASSUME NEW w, Safe(w, "none"), page \in {"SearchHistory", "SavedQueries"}, "retry" \notin w.ui.busy
    PROVE  Safe([w EXCEPT !.ui.busy = @ \cup {"retry"}], "retry")
<1> DEFINE n == [w EXCEPT !.ui.busy = @ \cup {"retry"}]
<1>1. n.calls = w.calls /\ Alike(w, n, {"busy"}) /\ n.ui.busy = w.ui.busy \cup {"retry"}
    BY DEF Safe, IsWorld, IsUi, Alike, WorldFields, UiFields
<1> HIDE DEF n
<1>2. n.ui.list = w.ui.list /\ n.ui.side = w.ui.side /\ n.ui.started = w.ui.started
      /\ n.ui.sel = w.ui.sel /\ n.ui.dialog = w.ui.dialog /\ n.ui.held = w.ui.held
    BY <1>1 DEF Alike, UiFields
<1>3. \A p \in Panels : n.ui[p] = w.ui[p]
    BY <1>2 DEF Panels
<1>4. IsWorld(n)
    BY <1>1, <1>2 DEF Alike, Safe, IsWorld, IsUi
<1>5. Spinning(n.ui, n.calls) /\ Newest(n.ui, n.calls) /\ Asked(n.ui, n.calls)
    BY <1>1, <1>3 DEF Safe, Sound, Spinning, Newest, Asked, Waits, Last
<1>6. Numbers(n.ui, n.calls)
    BY <1>1, <1>2, <1>3 DEF Safe, Sound, Numbers
<1>7. Busy(n.ui, n.calls, "retry")
    BY <1>1 DEF Safe, Sound, Busy
<1>8. Once(n.ui, n.calls, "retry")
  <2>1. \A c \in w.calls : c.flag # "retry"
      BY DEF Safe, Sound, Once, Loose
  <2> QED BY <1>1, <2>1 DEF Safe, Sound, Once, Flags
<1>9. Selected(n.ui) /\ DialogOK(n.ui) /\ HeldOK(n.ui)
    BY <1>1, <1>2 DEF Safe, Sound, Selected, DialogOK, Askable, HeldOK
<1>10. Safe(n, "retry")
    BY <1>4, <1>5, <1>6, <1>7, <1>8, <1>9 DEF Safe, Sound
<1> QED BY <1>10 DEF n

----------------------------------------------------------------------------
(***************************************************************************)
(* The pages.  Of each: its first load, the handlers of its user, and what *)
(* follows the answers of its calls.                                       *)
(***************************************************************************)
\* The world that the handlers of an action start from.
LEMMA WorldSafe ==
    ASSUME ViewsInv
    PROVE  Safe(World, "none")
BY DEF ViewsInv

\* An answer that the page takes for a failure, or for a success.
LEMMA OtherOk ==
    ASSUME NEW w, NEW k, NEW c, Results(w, k, c), NEW x
    PROVE  Results(w, [k EXCEPT !.ok = x], c)
<1> DEFINE j == [k EXCEPT !.ok = x]
<1>1. k = [y \in CallFields |-> k[y]]
    BY DEF Results
<1>2. j = [y \in CallFields |-> j[y]] /\ \A y \in CallFields \ {"ok"} : j[y] = k[y]
    BY <1>1 DEF CallFields
<1> HIDE DEF j
<1>3. j.at = k.at
    BY <1>2 DEF CallFields
<1>4. \A y \in CallFields \ {"ok", "done", "missing", "at"} : j[y] = c[y]
    BY <1>2 DEF Results
<1>5. Results(w, j, c)
    BY <1>2, <1>3, <1>4 DEF Results
<1> QED BY <1>5 DEF j

\* Pages whose panels may be loaded with anything.
Free == page \notin {"NotificationConfig", "AuditLogs", "BackupRecovery"} \cup OnePages \cup QueryPages

\* Loads of pages whose panels may be loaded with anything.
LEMMA LoadingFree ==
    ASSUME NEW w, NEW f, Safe(w, f), Free, NEW p \in Panels, NEW of
    PROVE  /\ Safe(Load(w, p, of), f)
           /\ \A then : then \notin {"reread", "single"} /\ (f = "none" \/ MayHold("read", p, f, then)) =>
                  Safe(Await(w, p, of, f, then), "none")
<1>1. LoadOf(p, of) /\ page \notin QueryPages
    BY DEF LoadOf, Fixed, Free
<1>2. Safe(Load(w, p, of), f)
    BY <1>1, Loading
<1>3. ASSUME NEW then, then \notin {"reread", "single"}, f = "none" \/ MayHold("read", p, f, then)
      PROVE  Safe(Await(w, p, of, f, then), "none")
    BY <1>1, <1>3, Awaiting
<1> QED BY <1>2, <1>3

\* Pages that load their list with the first view only.
LEMMA LoadingFirst ==
    ASSUME NEW w, NEW f, Safe(w, f), page \notin QueryPages
    PROVE  /\ Safe(Load(w, "list", FirstView), f)
           /\ \A then : then \notin {"reread", "single"} /\ (f = "none" \/ MayHold("read", "list", f, then)) =>
                  Safe(Await(w, "list", FirstView, f, then), "none")
<1>1. LoadOf("list", FirstView)
    BY DEF LoadOf, Fixed, Panels
<1>2. Safe(Load(w, "list", FirstView), f)
    BY <1>1, Loading
<1>3. ASSUME NEW then, then \notin {"reread", "single"}, f = "none" \/ MayHold("read", "list", f, then)
      PROVE  Safe(Await(w, "list", FirstView, f, then), "none")
    BY <1>1, <1>3, Awaiting
<1> QED BY <1>2, <1>3

\* The calls of the pages that only read.
LEMMA OnlyReads ==
    ASSUME ViewsInv, NEW w, NEW k, NEW c, Results(w, k, c), page \in ReadPages
    PROVE  Reading(c) /\ c.flag = "none" /\ k.kind = "read" /\ k.panel \in Panels
<1>1. Reply(w, k, c)
    BY ReplyShape
<1>2. c.kind = "read" /\ c.then # "reread" /\ c.flag = "none"
    BY <1>1 DEF Reply, CallOK, ReadPages, MayHold, ChannelPages
<1> QED BY <1>1, <1>2 DEF Reply, Reading

\* The answers of the pages that only read.
LEMMA ReadPageAnswers ==
    ASSUME ViewsInv, NEW w, NEW k, NEW c, Results(w, k, c), InTurn(c), page \in ReadPages
    PROVE  Safe(Answered(k, w), "none") /\ Safe(AnsweredKeeping(k, w), "none")
<1>1. Reading(c) /\ c.flag = "none"
    BY OnlyReads
<1>2. page \notin LatestPages /\ page \notin {"AlertList", "DeadLetters"}
    BY DEF ReadPages, LatestPages
<1>3. Safe(Answered(k, w), c.flag) /\ Safe(AnsweredKeeping(k, w), c.flag)
    BY <1>1, <1>2, AnsweredLoad
<1> QED BY <1>1, <1>3

----------------------------------------------------------------------------
(* RolePermissions.                                                         *)
\* What RolePermissions does when it is opened.
LEMMA RolePermissionsMounted ==
    ASSUME NEW w, Safe(w, "none"), page = "RolePermissions"
    PROVE  Safe(RolePermissionsMount(w), "none")
BY LoadingFirst DEF QueryPages, RolePermissionsMount, LoadRoles

\* What the user and the timers do on RolePermissions.
LEMMA RolePermissionsKept ==
    ASSUME ViewsInv, RolePermissionsNext
    PROVE  ViewsInv'
<1>1. CASE ReloadRoles
  <2>1. Safe(LoadRoles(World), "none")
      BY <1>1, WorldSafe, LoadingFirst DEF ReloadRoles, QueryPages, LoadRoles
  <2> QED BY <1>1, <2>1, Becoming DEF ReloadRoles
<1>2. CASE CloseRoleDrawer
    BY <1>2, WorldSafe, Closing, Becoming DEF CloseRoleDrawer
<1>3. ASSUME NEW r \in Row, OpenRoleDrawer(r)
      PROVE  ViewsInv'
  <2>1. Safe(Open(World, "role", r), "none")
      BY <1>3, WorldSafe, Opening DEF OpenRoleDrawer, FormPages
  <2> QED BY <1>3, <2>1, Becoming DEF OpenRoleDrawer
<1> QED BY <1>1, <1>2, <1>3 DEF RolePermissionsNext

\* What follows the calls of RolePermissions.
LEMMA RolePermissionsAnswers ==
    ASSUME ViewsInv, page = "RolePermissions", NEW w, NEW k, NEW c, Results(w, k, c), InTurn(c)
    PROVE  Safe(RolePermissionsAnswer(k, w), "none")
BY ReadPageAnswers DEF ReadPages, RolePermissionsAnswer

----------------------------------------------------------------------------
(* IncidentTimeline.                                                        *)
\* The timeline of the incident that is chosen, or of none.
LEMMA ChoosingTimeline ==
    ASSUME NEW w, Safe(w, "none"), page = "IncidentTimeline"
    PROVE  Safe(LoadChosenTimeline(w), "none")
<1>1. CASE w.ui.held # None
  <2>1. "side" \in Panels /\ Free
      BY DEF Panels, Free, OnePages, QueryPages
  <2>2. Safe(Load(w, "side", w.ui.held), "none")
      BY <2>1, LoadingFree
  <2> QED BY <1>1, <2>2 DEF LoadChosenTimeline
<1>2. CASE w.ui.held = None
  <2> DEFINE n == [w EXCEPT !.ui.side.of = None, !.ui.side.shown = None, !.ui.side.loading = FALSE]
  <2>1. IsWorld(w) /\ IsPanel(w.ui.side)
      BY DEF Safe, IsWorld, IsUi
  <2>2. n.calls = w.calls /\ Alike(w, n, {"side"})
      BY <2>1 DEF IsWorld, IsUi, Alike, WorldFields, UiFields
  <2>3. /\ n.ui.side = [x \in PanelFields |-> n.ui.side[x]] /\ n.ui.side.of = None
        /\ n.ui.side.shown = None /\ n.ui.side.loading = FALSE
        /\ n.ui.side.latest = w.ui.side.latest
      BY <2>1 DEF IsWorld, IsUi, IsPanel, WorldFields, UiFields, PanelFields
  <2> HIDE DEF n
  <2>4. IsPanel(n.ui.side)
      BY <2>1, <2>3 DEF IsPanel
  <2>5. Redrawn(w, "side", n.ui.side)
      BY <2>3, <2>4 DEF Redrawn, AskedForNothing, Settled
  <2>6. AsidesOK(n.ui)
    <3>1. n.ui.list = w.ui.list /\ n.ui.sel = w.ui.sel /\ n.ui.dialog = w.ui.dialog
          /\ n.ui.held = w.ui.held /\ n.ui.busy = w.ui.busy
        BY <2>2 DEF Alike, UiFields
    <3> QED BY <3>1 DEF AsidesOK, Safe, Sound, Selected, DialogOK, HeldOK
  <2>7. Alike(w, n, Asides \cup {"side"})
      BY <2>2 DEF Alike
  <2>8. Safe(n, "none")
      BY <2>2, <2>5, <2>6, <2>7, Redrawing DEF Panels
  <2> QED BY <1>2, <2>8 DEF n, LoadChosenTimeline
<1> QED BY <1>1, <1>2

\* What IncidentTimeline does when it is opened.
LEMMA IncidentTimelineMounted ==
    ASSUME NEW w, Safe(w, "none"), page = "IncidentTimeline"
    PROVE  Safe(IncidentTimelineMount(w), "none")
<1>1. Safe(Load(w, "list", FirstView), "none")
    BY LoadingFirst DEF QueryPages
<1> QED BY <1>1, ChoosingTimeline DEF IncidentTimelineMount

\* What the user and the timers do on IncidentTimeline.
LEMMA IncidentTimelineKept ==
    ASSUME ViewsInv, IncidentTimelineNext
    PROVE  ViewsInv'
<1>1. CASE RefreshTimeline
  <2>1. Safe(Load(World, "list", FirstView), "none")
      BY <1>1, WorldSafe, LoadingFirst DEF RefreshTimeline, QueryPages
  <2>2. Safe(LoadChosenTimeline(Load(World, "list", FirstView)), "none")
      BY <1>1, <2>1, ChoosingTimeline DEF RefreshTimeline
  <2> QED BY <1>1, <2>2, Becoming DEF RefreshTimeline
<1>2. ASSUME NEW r, ChooseIncident(r)
      PROVE  ViewsInv'
  <2>1. Safe([World EXCEPT !.ui.held = r], "none")
      BY <1>2, WorldSafe, SetHeld DEF ChooseIncident, Holdable
  <2>2. Safe(LoadChosenTimeline([World EXCEPT !.ui.held = r]), "none")
      BY <1>2, <2>1, ChoosingTimeline DEF ChooseIncident
  <2> QED BY <1>2, <2>2, Becoming DEF ChooseIncident
<1> QED BY <1>1, <1>2 DEF IncidentTimelineNext

\* What follows the calls of IncidentTimeline.
LEMMA IncidentTimelineAnswers ==
    ASSUME ViewsInv, page = "IncidentTimeline", NEW w, NEW k, NEW c, Results(w, k, c), InTurn(c)
    PROVE  Safe(IncidentTimelineAnswer(k, w), "none")
BY ReadPageAnswers DEF ReadPages, IncidentTimelineAnswer

----------------------------------------------------------------------------
(* The incident reports.                                                    *)
ReportPages == {"IncidentAnalysis", "IncidentSLA", "IncidentArchive"}

\* What the reports load.
LEMMA ReportLoads ==
    ASSUME NEW w, Safe(w, "none"), page \in ReportPages
    PROVE  Safe(LoadReport(w), "none")
<1>1. "list" \in Panels /\ Free
    BY DEF Panels, Free, OnePages, QueryPages, ReportPages
<1>2. Safe(Load(w, "list", w.ui.view), "none")
    BY <1>1, LoadingFree
<1> QED BY <1>2 DEF LoadReport, ReportPages, LoadAnalysisRows, LoadSlaRows, LoadArchivedRows

\* What ArchiveReport does when it is opened.
LEMMA ArchiveReportMounted ==
    ASSUME NEW w, Safe(w, "none"), page = "IncidentArchiveReport"
    PROVE  Safe(LoadArchiveReport([w EXCEPT !.ui.held = "autoPrint"]), "none")
<1>1. Safe([w EXCEPT !.ui.held = "autoPrint"], "none")
    BY SetHeld DEF Holdable
<1> QED BY <1>1, LoadingFirst DEF LoadArchiveReport, QueryPages

\* What the user and the timers do on the reports.
LEMMA IncidentReportsKept ==
    ASSUME ViewsInv, IncidentReportsNext
    PROVE  ViewsInv'
<1>1. CASE ReloadReport
  <2>1. Safe(LoadReport(World), "none")
      BY <1>1, WorldSafe, ReportLoads DEF ReloadReport, ReportPages
  <2> QED BY <1>1, <2>1, Becoming DEF ReloadReport
<1>2. ASSUME NEW v, ChangeReportView(v)
      PROVE  ViewsInv'
  <2>1. Safe([World EXCEPT !.ui.view = v], "none")
      BY WorldSafe, SetFields
  <2>2. Safe(LoadReport([World EXCEPT !.ui.view = v]), "none")
      BY <1>2, <2>1, ReportLoads DEF ChangeReportView, ReportPages
  <2> QED BY <1>2, <2>2, Becoming DEF ChangeReportView
<1>3. ASSUME NEW r \in Row, ExportIncident(r)
      PROVE  ViewsInv'
  <2> DEFINE w == Write(World, "export", {r}, "none", "none")
  <2>1. page = "IncidentArchive"
      BY <1>3 DEF ExportIncident
  <2>2. Marks("export")
      BY <2>1 DEF Marks
  <2>3. Fits("export", {r}, "none", "none", None)
      BY <2>1 DEF Fits, IsWrite, CallOK, MayHold, ReadPages, ChannelPages, QueryPages
  <2>4. Safe([w EXCEPT !.ui.busy = {r}], "none")
      BY <2>1, <2>2, <2>3, WorldSafe, MarkingRow
  <2> QED BY <1>3, <2>4, Becoming DEF ExportIncident
<1> QED BY <1>1, <1>2, <1>3 DEF IncidentReportsNext

\* The end of an export.
LEMMA ExportEnds ==
    ASSUME ViewsInv, page = "IncidentArchive", NEW w, NEW k, NEW c, Results(w, k, c), c.kind # "read"
    PROVE  Safe(ExportAnswered(k, w), "none")
<1>1. Reply(w, k, c)
    BY ReplyShape
<1>2. c.kind = "export" /\ c.flag = "none" /\ c.then # "reread"
    BY <1>1 DEF Reply, CallOK, MayHold, ChannelPages
<1>3. PICK r \in Row : c.rows = {r}
    BY <1>1, <1>2 DEF Reply, CallOK
<1>4. k.rows = {r}
    BY <1>1, <1>3 DEF Reply
<1>5. w.ui.busy = World.ui.busy
    BY DEF Results, Alike, Asides, UiFields
<1>6. \A a, b \in w.ui.busy : a = b
    BY <1>5 DEF ViewsInv, Safe, Sound, Busy
<1>7. CASE w.ui.busy = {r}
  <2> DEFINE n == [w EXCEPT !.ui.busy = {}]
  <2>1. n.calls = w.calls /\ Alike(w, n, {"busy"}) /\ n.ui.busy = {}
      BY <1>1 DEF Reply, Alike, WorldFields, UiFields
  <2> HIDE DEF n
  <2>2. Freed(w, n, c)
      BY <1>7, <2>1 DEF Freed
  <2>3. Safe(n, "none")
      BY <1>2, <2>1, <2>2, PassingFreed
  <2> QED BY <1>4, <1>7, <2>3 DEF ExportAnswered, n
<1>8. CASE w.ui.busy # {r}
  <2>1. Freed(w, w, c)
      BY <1>2, <1>3, <1>6, <1>8 DEF Freed, Holds
  <2>2. Alike(w, w, {"busy"})
      BY <1>1 DEF Reply, Alike
  <2>3. Safe(w, "none")
      BY <1>2, <2>1, <2>2, PassingFreed
  <2> QED BY <1>4, <1>8, <2>3 DEF ExportAnswered
<1> QED BY <1>7, <1>8

\* What follows the calls of the reports.
LEMMA IncidentReportAnswers ==
    ASSUME ViewsInv, page \in ReportPages, NEW w, NEW k, NEW c, Results(w, k, c), InTurn(c)
    PROVE  Safe(IncidentReportAnswer(k, w), "none")
<1>1. Reply(w, k, c)
    BY ReplyShape
<1>2. CASE page # "IncidentArchive"
  <2>1. page \in ReadPages
      BY <1>2 DEF ReportPages, ReadPages
  <2>2. k.kind = "read"
      BY <2>1, OnlyReads
  <2> QED BY <2>1, <2>2, ReadPageAnswers DEF IncidentReportAnswer
<1>3. CASE page = "IncidentArchive" /\ c.kind # "read"
  <2>1. k.kind = "export"
      BY <1>1, <1>3 DEF Reply, CallOK
  <2> QED BY <1>3, <2>1, ExportEnds DEF IncidentReportAnswer
<1>4. CASE page = "IncidentArchive" /\ c.kind = "read"
  <2>1. k.kind = "read" /\ Reading(c) /\ c.flag = "none"
      BY <1>1, <1>4 DEF Reply, CallOK, MayHold, ChannelPages, Reading
  <2>2. Safe(Answered(k, w), c.flag)
      BY <1>4, <2>1, AnsweredLoad DEF LatestPages
  <2> QED BY <2>1, <2>2 DEF IncidentReportAnswer
<1> QED BY <1>2, <1>3, <1>4

\* What follows the calls of ArchiveReport.
LEMMA ArchiveReportAnswers ==
    ASSUME ViewsInv, page = "IncidentArchiveReport", NEW w, NEW k, NEW c, Results(w, k, c), InTurn(c)
    PROVE  Safe(ArchiveReportAnswer(k, w), "none")
<1> DEFINE j == [k EXCEPT !.ok = k.ok /\ k.at.status[Subject] # "gone"]
           next == AnsweredKeeping(j, w)
<1>1. Results(w, j, c)
    BY OtherOk
<1>2. Safe(next, "none")
    BY <1>1, ReadPageAnswers DEF ReadPages
<1>3. Safe([next EXCEPT !.ui.held = "printed"], "none")
    BY <1>2, SetHeld DEF Holdable
<1> HIDE DEF next
<1> QED BY <1>2, <1>3 DEF ArchiveReportAnswer, next

----------------------------------------------------------------------------
(* What the pages below share.                                              *)

\* An aside that changes before the answer is used.
LEMMA ResultsKept ==
    ASSUME NEW w, NEW k, NEW c, Results(w, k, c), NEW x
    PROVE  /\ Results([w EXCEPT !.ui.flight = x], k, c)
           /\ Results([w EXCEPT !.ui.view = x], k, c)
           /\ Holdable(x) => Results([w EXCEPT !.ui.held = x], k, c)
<1>1. w = [y \in WorldFields |-> w[y]] /\ w.ui = [y \in UiFields |-> w.ui[y]]
    BY DEF Results, Alike
<1>2. ASSUME NEW n, n.calls = w.calls, Alike(w, n, {"flight", "view"}) \/ (Alike(w, n, {"held"}) /\ Holdable(n.ui.held))
      PROVE  Results(n, k, c)
  <2>1. Alike(w, n, {"flight", "view", "held"}) /\ (n.ui.held = w.ui.held \/ Holdable(n.ui.held))
      BY <1>2 DEF Alike, UiFields
  <2>2. Alike(World, n, Asides)
      BY <2>1 DEF Results, Alike, Asides
  <2>3. AsidesOK(n.ui)
    <3>1. n.ui.list = w.ui.list /\ n.ui.sel = w.ui.sel /\ n.ui.dialog = w.ui.dialog /\ n.ui.busy = w.ui.busy
        BY <2>1 DEF Alike, UiFields
    <3> QED BY <2>1, <3>1 DEF Results, AsidesOK, Selected, DialogOK, HeldOK
  <2> QED BY <1>2, <2>2, <2>3 DEF Results
<1>3. Results([w EXCEPT !.ui.flight = x], k, c)
  <2> DEFINE n == [w EXCEPT !.ui.flight = x]
  <2>1. n.calls = w.calls /\ Alike(w, n, {"flight", "view"})
      BY <1>1 DEF Alike, WorldFields, UiFields
  <2> HIDE DEF n
  <2>2. Results(n, k, c) BY <1>2, <2>1
  <2> QED BY <2>2 DEF n
<1>4. Results([w EXCEPT !.ui.view = x], k, c)
  <2> DEFINE n == [w EXCEPT !.ui.view = x]
  <2>1. n.calls = w.calls /\ Alike(w, n, {"flight", "view"})
      BY <1>1 DEF Alike, WorldFields, UiFields
  <2> HIDE DEF n
  <2>2. Results(n, k, c) BY <1>2, <2>1
  <2> QED BY <2>2 DEF n
<1>5. ASSUME Holdable(x)
      PROVE  Results([w EXCEPT !.ui.held = x], k, c)
  <2> DEFINE n == [w EXCEPT !.ui.held = x]
  <2>1. n.calls = w.calls /\ Alike(w, n, {"held"}) /\ n.ui.held = x
      BY <1>1 DEF Alike, WorldFields, UiFields
  <2> HIDE DEF n
  <2>2. Results(n, k, c) BY <1>2, <1>5, <2>1
  <2> QED BY <2>2 DEF n
<1> QED BY <1>3, <1>4, <1>5

\* The two requests of a form.
LEMMA Submitting ==
    ASSUME NEW w, NEW f, Safe(w, f), NEW flag, Takes(w, flag, f),
           Fits("create", {}, flag, "none", None), \A r : Fits("update", {r}, flag, "none", None),
           page # "IncidentArchive", page = "SavedQueries" => flag = "none"
    PROVE  Safe(Submit(w, flag), After(flag, f))
<1>1. Safe(Write(w, "create", {}, flag, "none"), After(flag, f))
    BY Writing
<1>2. Safe(Write(w, "update", {w.ui.dialog.row}, flag, "none"), After(flag, f))
  <2>1. Fits("update", {w.ui.dialog.row}, flag, "none", None)
      OBVIOUS
  <2> QED BY <2>1, Writing
<1> QED BY <1>1, <1>2 DEF Submit

----------------------------------------------------------------------------
(* The pages of the storage.                                                *)
StoragePages == {"IndexManagement", "LifecyclePolicy", "CapacityMonitoring"}

\* What the storage pages load.
LEMMA StorageLoads ==
    ASSUME NEW w, Safe(w, "none"), page \in StoragePages
    PROVE  Safe(LoadStorage(w), "none")
<1>1. "list" \in Panels /\ Free
    BY DEF Panels, Free, OnePages, QueryPages, StoragePages
<1> QED BY <1>1, LoadingFree DEF LoadStorage

\* What the user and the timers do on the storage pages.
LEMMA StorageKept ==
    ASSUME ViewsInv, StorageNext
    PROVE  ViewsInv'
<1>1. CASE ReloadStorage
  <2>1. Safe(LoadStorage(World), "none")
      BY <1>1, WorldSafe, StorageLoads DEF ReloadStorage, StoragePages
  <2> QED BY <1>1, <2>1, Becoming DEF ReloadStorage
<1>2. ASSUME NEW v, ChangeCapacityRange(v)
      PROVE  ViewsInv'
  <2>1. Safe([World EXCEPT !.ui.view = v], "none")
      BY WorldSafe, SetFields
  <2>2. Safe(LoadStorage([World EXCEPT !.ui.view = v]), "none")
      BY <1>2, <2>1, StorageLoads DEF ChangeCapacityRange, StoragePages
  <2> QED BY <1>2, <2>2, Becoming DEF ChangeCapacityRange
<1> QED BY <1>1, <1>2 DEF StorageNext

\* What follows the calls of the storage pages.
LEMMA StorageAnswers ==
    ASSUME ViewsInv, page \in StoragePages, NEW w, NEW k, NEW c, Results(w, k, c), InTurn(c)
    PROVE  Safe(AnsweredKeeping(k, w), "none")
BY ReadPageAnswers DEF ReadPages, StoragePages

----------------------------------------------------------------------------
(* PerformanceMonitoring.                                                   *)
\* The chart of the agent that is watched.
LEMMA MetricsLoads ==
    ASSUME NEW w, Safe(w, "none"), page = "PerformanceMonitoring"
    PROVE  Safe(LoadMetrics(w), "none")
<1>1. "side" \in Panels /\ Free
    BY DEF Panels, Free, OnePages, QueryPages
<1>2. Safe(Load(w, "side", <<w.ui.held, w.ui.view>>), "none")
    BY <1>1, LoadingFree
<1>3. Safe([w EXCEPT !.ui.side.shown = None], "none")
    BY Hiding
<1> QED BY <1>2, <1>3 DEF LoadMetrics

\* An agent is watched.
LEMMA Watching ==
    ASSUME NEW w, Safe(w, "none"), page = "PerformanceMonitoring", NEW r
    PROVE  Safe(WatchAgent(w, r), "none")
<1>1. Safe([w EXCEPT !.ui.held = r], "none")
    BY SetHeld DEF Holdable
<1>2. Safe(LoadMetrics([w EXCEPT !.ui.held = r]), "none")
    BY <1>1, MetricsLoads
<1> QED BY <1>2 DEF WatchAgent

\* What Performance does when it is opened.
LEMMA PerformanceMounted ==
    ASSUME NEW w, Safe(w, "none"), page = "PerformanceMonitoring"
    PROVE  Safe(PerformanceMount(w), "none")
<1>1. Safe(Load(w, "list", FirstView), "none")
    BY LoadingFirst DEF QueryPages
<1> QED BY <1>1, MetricsLoads DEF PerformanceMount

\* What the user and the timers do on Performance.
LEMMA PerformanceKept ==
    ASSUME ViewsInv, PerformanceNext
    PROVE  ViewsInv'
<1>1. CASE RefreshMetrics
  <2>1. Safe(LoadMetrics(World), "none")
      BY <1>1, WorldSafe, MetricsLoads DEF RefreshMetrics, OnPerformance
  <2> QED BY <1>1, <2>1, Becoming DEF RefreshMetrics
<1>2. ASSUME NEW r, ChooseWatched(r)
      PROVE  ViewsInv'
  <2>1. Safe(WatchAgent(World, r), "none")
      BY <1>2, WorldSafe, Watching DEF ChooseWatched, OnPerformance
  <2> QED BY <1>2, <2>1, Becoming DEF ChooseWatched
<1>3. ASSUME NEW v, ChangeMetricsRange(v)
      PROVE  ViewsInv'
  <2>1. Safe([World EXCEPT !.ui.view = v], "none")
      BY WorldSafe, SetFields
  <2>2. Safe(LoadMetrics([World EXCEPT !.ui.view = v]), "none")
      BY <1>3, <2>1, MetricsLoads DEF ChangeMetricsRange, OnPerformance
  <2> QED BY <1>3, <2>2, Becoming DEF ChangeMetricsRange
<1> QED BY <1>1, <1>2, <1>3 DEF PerformanceNext

\* What follows the calls of Performance.
LEMMA PerformanceAnswers ==
    ASSUME ViewsInv, page = "PerformanceMonitoring", NEW w, NEW k, NEW c, Results(w, k, c), InTurn(c)
    PROVE  Safe(PerformanceAnswer(k, w), "none")
<1>1. Safe(Answered(k, w), "none") /\ Safe(AnsweredKeeping(k, w), "none")
    BY ReadPageAnswers DEF ReadPages
<1>2. \A r : Safe(WatchAgent(AnsweredKeeping(k, w), r), "none")
    BY <1>1, Watching
<1>3. Safe(AgentsAnswered(k, w), "none")
    BY <1>1, <1>2 DEF AgentsAnswered
<1> QED BY <1>1, <1>3 DEF PerformanceAnswer

----------------------------------------------------------------------------
(* Dashboard.                                                               *)
\* A refresh, unless one is on its way.
LEMMA Refreshing ==
    ASSUME NEW w, Safe(w, "none"), page = "Dashboard", NEW range
    PROVE  Safe(DoRefresh(w, range), "none")
<1>1. "list" \in Panels /\ Free
    BY DEF Panels, Free, OnePages, QueryPages
<1>2. Safe(Load(w, "list", range), "none")
    BY <1>1, LoadingFree
<1>3. Safe([Load(w, "list", range) EXCEPT !.ui.flight = range], "none")
    BY <1>2, SetFields
<1> QED BY <1>3 DEF DoRefresh

\* What Dashboard does when it is opened.
LEMMA DashboardMounted ==
    ASSUME NEW w, Safe(w, "none"), page = "Dashboard", NEW interval
    PROVE  Safe(DashboardMount(w, interval), "none")
<1>1. Safe([w EXCEPT !.ui.held = interval], "none")
    BY SetHeld DEF Holdable
<1> QED BY <1>1, Refreshing DEF DashboardMount

\* What the user and the timers do on Dashboard.
LEMMA DashboardKept ==
    ASSUME ViewsInv, DashboardNext
    PROVE  ViewsInv'
<1>1. CASE RefreshDashboard
  <2>1. Safe(DoRefresh(World, ui.view), "none")
      BY <1>1, WorldSafe, Refreshing DEF RefreshDashboard, OnDashboard
  <2> QED BY <1>1, <2>1, Becoming DEF RefreshDashboard
<1>2. CASE DashboardTick
  <2>1. Safe(DoRefresh(World, ui.view), "none")
      BY <1>2, WorldSafe, Refreshing DEF DashboardTick, OnDashboard
  <2> QED BY <1>2, <2>1, Becoming DEF DashboardTick
<1>3. CASE DashboardHidden
  <2>1. Safe([World EXCEPT !.ui.hidden = TRUE], "none")
      BY WorldSafe, SetFields
  <2> QED BY <1>3, <2>1, Becoming DEF DashboardHidden
<1>4. CASE DashboardVisible
  <2> DEFINE next == [World EXCEPT !.ui.hidden = FALSE]
  <2>1. Safe(next, "none")
      BY WorldSafe, SetFields
  <2> HIDE DEF next
  <2>2. Safe(DoRefresh(next, ui.view), "none")
      BY <1>4, <2>1, Refreshing DEF DashboardVisible
  <2>3. Become({IF ui.held # None THEN DoRefresh(next, ui.view) ELSE next})
      BY <1>4 DEF DashboardVisible, next
  <2>4. Safe(IF ui.held # None THEN DoRefresh(next, ui.view) ELSE next, "none")
      BY <2>1, <2>2
  <2> QED BY <2>3, <2>4, Becoming
<1>5. ASSUME NEW v, ChangeOverviewRange(v)
      PROVE  ViewsInv'
  <2>1. Safe([World EXCEPT !.ui.view = v], "none")
      BY WorldSafe, SetFields
  <2>2. Safe(DoRefresh([World EXCEPT !.ui.view = v], v), "none")
      BY <1>5, <2>1, Refreshing DEF ChangeOverviewRange, OnDashboard
  <2> QED BY <1>5, <2>2, Becoming DEF ChangeOverviewRange
<1>6. ASSUME NEW interval, ChangeInterval(interval)
      PROVE  ViewsInv'
  <2>1. Safe([World EXCEPT !.ui.held = interval], "none")
      BY <1>6, WorldSafe, SetHeld DEF Holdable, ChangeInterval, OnDashboard
  <2> QED BY <1>6, <2>1, Becoming DEF ChangeInterval
<1> QED BY <1>1, <1>2, <1>3, <1>4, <1>5, <1>6 DEF DashboardNext

\* What follows the calls of Dashboard.
LEMMA DashboardAnswers ==
    ASSUME ViewsInv, page = "Dashboard", NEW w, NEW k, NEW c, Results(w, k, c), InTurn(c)
    PROVE  Safe(DashboardAnswer(k, w), "none")
<1>1. Results([w EXCEPT !.ui.flight = None], k, c)
    BY ResultsKept
<1> QED BY <1>1, ReadPageAnswers DEF ReadPages, DashboardAnswer

----------------------------------------------------------------------------
(* Reloads that prune the selection; leaving a page.                        *)
\* A reload that takes the rows that left from the selection.
LEMMA Pruning ==
    ASSUME ViewsInv, NEW w, NEW k, NEW c, Results(w, k, c), InTurn(c), Reading(c),
           page \in LatestPages => c.id = w.ui[c.panel].latest,
           page \in {"AlertList", "DeadLetters"}
    PROVE  Safe(Prune(Answered(k, w)), c.flag)
<1> DEFINE m == Answered(k, w)
           n == Prune(m)
<1>1. Reply(w, k, c)
    BY ReplyShape
<1>2. k.ok => IsSnapshot(k.at)
    BY <1>1 DEF Reply, Reading
<1>3. k.panel = c.panel /\ c.panel \in Panels /\ IsPanel(w.ui[c.panel])
    BY <1>1 DEF Reply
<1>4. m.calls = w.calls /\ Alike(w, m, {c.panel}) /\ Filled(m.ui[c.panel], w.ui[c.panel], k)
    BY <1>1, <1>2, <1>3, AnsweredShape DEF Reply
<1> HIDE DEF m
<1>5. /\ n.calls = w.calls /\ Alike(m, n, {"sel"}) /\ n.ui.list = m.ui.list
      /\ n.ui.sel \subseteq RowsOf(n.ui.list)
    BY <1>4 DEF Prune, Alike, WorldFields, UiFields
<1> HIDE DEF n
<1>6. n.ui[c.panel] = m.ui[c.panel]
    BY <1>3, <1>5 DEF Alike, UiFields, Panels
<1>7. Drawn(w, n.ui[c.panel], k, c)
    BY <1>4, <1>6, DrawnFilled
<1>8. Alike(w, n, Asides \cup {c.panel})
    BY <1>4, <1>5 DEF Alike, Asides
<1>9. AsidesOK(n.ui)
  <2>1. n.ui.dialog = w.ui.dialog /\ n.ui.busy = w.ui.busy /\ n.ui.held = w.ui.held
      BY <1>3, <1>4, <1>5 DEF Alike, UiFields, Panels
  <2>2. DialogOK(w.ui) /\ HeldOK(w.ui)
      BY DEF Results, AsidesOK
  <2> QED BY <1>5, <2>1, <2>2 DEF AsidesOK, Selected, Selectable, DialogOK, HeldOK
<1>10. Loads(c, c.panel)
    BY DEF Loads, Reading
<1>11. Safe(n, c.flag)
    BY <1>3, <1>5, <1>7, <1>8, <1>9, <1>10, Drawing
<1> QED BY <1>11 DEF n, m

\* A selection loses the rows that are not shown.
LEMMA PruningSafe ==
    ASSUME NEW w, NEW f, Safe(w, f)
    PROVE  Safe(Prune(w), f)
<1>1. Selectable(w.ui.sel \cap RowsOf(w.ui.list), w.ui.list)
    BY DEF Safe, Sound, Selected, Selectable
<1>2. Safe([w EXCEPT !.ui.sel = w.ui.sel \cap RowsOf(w.ui.list)], f)
    BY <1>1, SetSelection
<1> QED BY <1>2 DEF Prune

\* A failure that leaves the rows of the list, and their selection.
LEMMA KeepingLoad ==
    ASSUME ViewsInv, NEW w, NEW k, NEW c, Results(w, k, c), InTurn(c), Reading(c), ~k.ok,
           page \notin LatestPages
    PROVE  Safe(AnsweredKeeping(k, w), c.flag)
<1> DEFINE n == AnsweredKeeping(k, w)
<1>1. Reply(w, k, c)
    BY ReplyShape
<1>2. k.panel = c.panel /\ c.panel \in Panels /\ IsPanel(w.ui[c.panel])
    BY <1>1 DEF Reply
<1>3. n.calls = w.calls /\ Alike(w, n, {c.panel}) /\ Kept(n.ui[c.panel], w.ui[c.panel], k)
    BY <1>1, <1>2, AnsweredShape DEF Reply
<1> HIDE DEF n
<1>4. Drawn(w, n.ui[c.panel], k, c)
    BY <1>3, DrawnFilled
<1>5. Alike(w, n, Asides \cup {c.panel})
    BY <1>3 DEF Alike
<1>6. AsidesOK(n.ui)
  <2>1. n.ui.list.shown = w.ui.list.shown
      BY <1>2, <1>3 DEF Alike, UiFields, Panels, Kept
  <2>2. RowsOf(n.ui.list) = RowsOf(w.ui.list)
      BY <2>1 DEF RowsOf
  <2>3. n.ui.dialog = w.ui.dialog /\ n.ui.busy = w.ui.busy /\ n.ui.held = w.ui.held /\ n.ui.sel = w.ui.sel
      BY <1>2, <1>3 DEF Alike, UiFields, Panels
  <2> QED BY <2>2, <2>3 DEF Results, AsidesOK, Selected, Selectable, DialogOK, HeldOK
<1>7. Loads(c, c.panel)
    BY DEF Loads, Reading
<1>8. Safe(n, c.flag)
    BY <1>2, <1>3, <1>4, <1>5, <1>6, <1>7, Drawing
<1> QED BY <1>8 DEF n

\* Leaving any page but the form.
LEMMA LeavingPage ==
    ASSUME NEW w, NEW f, Safe(w, f), page # "LoginPolicy"
    PROVE  Safe(Leave(w), "none")
BY Leaving DEF Safe, IsWorld, IsUi

----------------------------------------------------------------------------
(* HealthCheck.                                                             *)
\* The writes of HealthCheck hold no button.
LEMMA HealthWrites ==
    ASSUME page = "HealthCheck", NEW kind, kind # "read", NEW rows
    PROVE  Fits(kind, rows, "none", "none", None)
BY DEF Fits, IsWrite, CallOK, MayHold, ReadPages, ChannelPages, QueryPages

\* What HealthCheck loads.
LEMMA HealthLoads ==
    ASSUME NEW w, Safe(w, "none"), page = "HealthCheck"
    PROVE  Safe(LoadThresholds(w), "none") /\ Safe(LoadOverview(w), "none")
<1>1. "list" \in Panels /\ "side" \in Panels /\ Free
    BY DEF Panels, Free, OnePages, QueryPages
<1> QED BY <1>1, LoadingFree DEF LoadThresholds, LoadOverview

\* What HealthCheck does when it is opened.
LEMMA HealthCheckMounted ==
    ASSUME NEW w, Safe(w, "none"), page = "HealthCheck"
    PROVE  Safe(HealthCheckMount(w), "none")
BY HealthLoads DEF HealthCheckMount

\* What the user and the timers do on HealthCheck.
LEMMA HealthCheckKept ==
    ASSUME ViewsInv, HealthCheckNext
    PROVE  ViewsInv'
<1>1. CASE RefreshOverview
  <2>1. Safe(LoadOverview(World), "none")
      BY <1>1, WorldSafe, HealthLoads DEF RefreshOverview, OnHealth
  <2> QED BY <1>1, <2>1, Becoming DEF RefreshOverview
<1>2. CASE CloseThreshold
    BY <1>2, WorldSafe, Closing, Becoming DEF CloseThreshold
<1>3. CASE SaveThreshold
  <2>1. Fits("create", {}, "none", "none", None) /\ \A r : Fits("update", {r}, "none", "none", None)
      BY <1>3, HealthWrites DEF SaveThreshold
  <2>2. Takes(World, "none", "none") /\ After("none", "none") = "none"
      BY DEF Takes, After
  <2>3. Safe(Submit(World, "none"), "none")
      BY <1>3, <2>1, <2>2, WorldSafe, Submitting DEF SaveThreshold
  <2> QED BY <1>3, <2>3, Becoming DEF SaveThreshold
<1>4. ASSUME NEW r, NEW kind, OpenThreshold(kind, r)
      PROVE  ViewsInv'
  <2>1. page = "HealthCheck"
      BY <1>4 DEF OpenThreshold, OnHealth, ThresholdTable
  <2>2. Safe(Open(World, kind, r), "none")
      BY <2>1, WorldSafe, Opening DEF FormPages
  <2> QED BY <1>4, <2>2, Becoming DEF OpenThreshold
<1>5. ASSUME NEW r, page = "HealthCheck", NEW kind, kind # "read"
      PROVE  Safe(Write(World, kind, {r}, "none", "none"), "none")
  <2>1. Fits(kind, {r}, "none", "none", None)
      BY <1>5, HealthWrites
  <2>2. Takes(World, "none", "none") /\ After("none", "none") = "none"
      BY DEF Takes, After
  <2> QED BY <1>5, <2>1, <2>2, WorldSafe, Writing
<1>6. ASSUME NEW r, DeleteThreshold(r)
      PROVE  ViewsInv'
    BY <1>5, <1>6, Becoming DEF DeleteThreshold, ThresholdTable, OnHealth
<1>7. ASSUME NEW r, ToggleThreshold(r)
      PROVE  ViewsInv'
  <2> DEFINE kind == IF StatusOf(r) = "enabled" THEN "disable" ELSE "enable"
  <2>1. Become({Write(World, kind, {r}, "none", "none")}) /\ page = "HealthCheck"
      BY <1>7 DEF ToggleThreshold, ThresholdTable, OnHealth
  <2>2. kind # "read"
      OBVIOUS
  <2> HIDE DEF kind
  <2> QED BY <1>5, <2>1, <2>2, Becoming
<1> QED BY <1>1, <1>2, <1>3, <1>4, <1>6, <1>7 DEF HealthCheckNext

\* What follows the calls of HealthCheck.
LEMMA HealthCheckAnswers ==
    ASSUME ViewsInv, page = "HealthCheck", NEW w, NEW k, NEW c, Results(w, k, c), InTurn(c)
    PROVE  Safe(HealthCheckAnswer(k, w), "none")
<1>1. k.kind = c.kind /\ c.flag = "none" /\ c.then # "reread"
  <2>1. Reply(w, k, c)
      BY ReplyShape
  <2> QED BY <2>1 DEF Reply, CallOK, MayHold, ChannelPages
<1>2. CASE c.kind = "read"
  <2>1. Safe(Answered(k, w), c.flag) /\ Safe(AnsweredKeeping(k, w), c.flag)
      BY <1>1, <1>2, AnsweredLoad DEF Reading, LatestPages
  <2> QED BY <1>1, <1>2, <2>1 DEF HealthCheckAnswer
<1>3. CASE c.kind # "read"
  <2>1. Safe(w, c.flag)
      BY <1>3, Passing DEF Marks, ChannelPages
  <2>2. Safe(CloseForm(w), "none")
      BY <1>1, <2>1, Closing
  <2>3. Safe(LoadThresholds(w), "none") /\ Safe(LoadThresholds(CloseForm(w)), "none")
      BY <1>1, <2>1, <2>2, HealthLoads
  <2> QED BY <1>1, <1>3, <2>1, <2>3 DEF HealthCheckAnswer
<1> QED BY <1>2, <1>3

----------------------------------------------------------------------------
(* Writes that hold a button or none, loads that free one.                  *)
\* A write that holds no button.
LEMMA PlainWrite ==
    ASSUME NEW w, NEW f, Safe(w, f), NEW kind, NEW rows, NEW then, Fits(kind, rows, "none", then, None)
    PROVE  Safe(Write(w, kind, rows, "none", then), f)
<1>1. Takes(w, "none", f) /\ After("none", f) = f
    BY DEF Takes, After
<1> QED BY <1>1, Writing

\* A write that takes a button which is free.
LEMMA FlagWrite ==
    ASSUME NEW w, Safe(w, "none"), NEW kind, NEW rows, NEW then, NEW flag,
           Fits(kind, rows, flag, then, None), Loose(flag) \/ flag \notin w.ui.busy,
           page \notin {"IncidentArchive", "SavedQueries"}
    PROVE  Safe(Write(w, kind, rows, flag, then), "none")
<1>1. Takes(w, flag, "none") /\ After(flag, "none") = "none"
    BY DEF Takes, After
<1> QED BY <1>1, Writing

\* The same of a form.
LEMMA FormWrite ==
    ASSUME NEW w, Safe(w, "none"), NEW flag, Loose(flag) \/ flag \notin w.ui.busy,
           Fits("create", {}, flag, "none", None), \A r : Fits("update", {r}, flag, "none", None),
           page \notin {"IncidentArchive", "SavedQueries"}
    PROVE  Safe(Submit(w, flag), "none")
<1>1. Takes(w, flag, "none") /\ After(flag, "none") = "none"
    BY DEF Takes, After
<1> QED BY <1>1, Submitting

\* The answer of a load on the pages without numbered loads, and the end of its handler.
LEMMA SimpleRead ==
    ASSUME ViewsInv, NEW w, NEW k, NEW c, Results(w, k, c), InTurn(c), Reading(c),
           page \notin LatestPages, page # "DeadLetters"
    PROVE  /\ Safe(Answered(k, w), c.flag) /\ Safe(AnsweredKeeping(k, w), c.flag)
           /\ Safe(Idle(Answered(k, w), c.flag), "none") /\ Safe(Idle(AnsweredKeeping(k, w), c.flag), "none")
<1>1. Safe(Answered(k, w), c.flag) /\ Safe(AnsweredKeeping(k, w), c.flag)
    BY AnsweredLoad DEF LatestPages
<1> QED BY <1>1, Idling

----------------------------------------------------------------------------
(* The drawers.                                                             *)
DrawerPages == {"DeadLetters", "Receipts", "TaskDetail", "PackageDetail"}

\* What the drawers load.
LEMMA DrawerLoads ==
    ASSUME NEW w, Safe(w, "none"), page \in DrawerPages, NEW of, NEW p
    PROVE  /\ Safe(LoadDeadLetters(w, of), "none") /\ Safe(LoadReceipts(w, of), "none")
           /\ Safe(LoadRecord(w, p), "none")
<1>1. "list" \in Panels /\ "side" \in Panels /\ Free
    BY DEF Panels, Free, OnePages, QueryPages, DrawerPages
<1>2. Safe(Load(w, "list", of), "none") /\ Safe(Load(w, "list", FirstView), "none")
    BY <1>1, LoadingFree
<1>3. Safe(Load(Load(w, "list", FirstView), "side", FirstView), "none")
    BY <1>1, <1>2, LoadingFree
<1> QED BY <1>2, <1>3 DEF LoadDeadLetters, LoadReceipts, LoadRecord

\* Another page of dead letters is shown.
LEMMA ChangingLetters ==
    ASSUME NEW w, Safe(w, "none"), page \in DrawerPages, NEW v
    PROVE  Safe(Load([w EXCEPT !.ui.view = v], "list", v), "none")
<1>1. Safe([w EXCEPT !.ui.view = v], "none")
    BY SetFields
<1>2. Safe(LoadReceipts([w EXCEPT !.ui.view = v], v), "none")
    BY <1>1, DrawerLoads
<1> QED BY <1>2 DEF LoadReceipts

\* What the user and the timers do on the drawers.
LEMMA DrawersKept ==
    ASSUME ViewsInv, DrawersNext
    PROVE  ViewsInv'
<1>0. page \in DrawerPages
    BY DEF DrawersNext, ReloadDeadLetters, OnDeadLetters, OpenReplay, LetterTable, CloseReplay,
           ReplayDeadLetters, ReloadReceipts, ReloadDetail, CloseDrawers, ChangeLetterView,
           ChangeReceiptView, SelectDeadLetters, DrawerPages
<1>1. CASE ReloadDeadLetters
  <2>1. Safe(LoadDeadLetters(World, ui.view), "none")
      BY <1>0, WorldSafe, DrawerLoads
  <2> QED BY <1>1, <2>1, Becoming DEF ReloadDeadLetters
<1>2. CASE OpenReplay
  <2>1. Safe(Open(World, "replay", None), "none")
      BY <1>2, WorldSafe, Opening DEF FormPages, OpenReplay, LetterTable, OnDeadLetters
  <2> QED BY <1>2, <2>1, Becoming DEF OpenReplay
<1>3. CASE CloseReplay
    BY <1>3, WorldSafe, Closing, Becoming DEF CloseReplay
<1>4. CASE ReplayDeadLetters
  <2>1. page = "DeadLetters" /\ "replay" \notin World.ui.busy
      BY <1>4 DEF ReplayDeadLetters, World
  <2>2. Fits("replay", ui.sel, "replay", "none", None)
      BY <2>1 DEF Fits, Flags, IsWrite, CallOK, MayHold, ReadPages, ChannelPages, QueryPages
  <2>3. Safe(Write(World, "replay", ui.sel, "replay", "none"), "none")
      BY <2>1, <2>2, WorldSafe, FlagWrite
  <2> QED BY <1>4, <2>3, Becoming DEF ReplayDeadLetters
<1>5. CASE ReloadReceipts
  <2>1. Safe(LoadReceipts(World, ui.view), "none")
      BY <1>0, WorldSafe, DrawerLoads
  <2> QED BY <1>5, <2>1, Becoming DEF ReloadReceipts
<1>6. CASE ReloadDetail
  <2>1. Safe(LoadRecord(World, page), "none")
      BY <1>0, WorldSafe, DrawerLoads
  <2> QED BY <1>6, <2>1, Becoming DEF ReloadDetail
<1>7. CASE CloseDrawers
  <2>1. Safe(Leave(World), "none")
      BY <1>0, WorldSafe, LeavingPage DEF DrawerPages
  <2> QED BY <1>7, <2>1, Becoming DEF CloseDrawers
<1>8. ASSUME NEW v, ChangeLetterView(v) \/ ChangeReceiptView(v)
      PROVE  ViewsInv'
  <2>1. Safe(Load([World EXCEPT !.ui.view = v], "list", v), "none")
      BY <1>0, WorldSafe, ChangingLetters
  <2> QED BY <1>8, <2>1, Becoming DEF ChangeLetterView, ChangeReceiptView, LoadDeadLetters, LoadReceipts
<1>9. ASSUME NEW rows, SelectDeadLetters(rows)
      PROVE  ViewsInv'
  <2>1. Selectable(rows, World.ui.list)
      BY <1>9 DEF SelectDeadLetters, LetterTable, OnDeadLetters, Selectable, Shown, World
  <2>2. Safe([World EXCEPT !.ui.sel = rows], "none")
      BY <2>1, WorldSafe, SetSelection
  <2> QED BY <1>9, <2>2, Becoming DEF SelectDeadLetters
<1> QED BY <1>1, <1>2, <1>3, <1>4, <1>5, <1>6, <1>7, <1>8, <1>9 DEF DrawersNext

\* What follows the calls of DeadLetter.
LEMMA DeadLetterAnswers ==
    ASSUME ViewsInv, page = "DeadLetters", NEW w, NEW k, NEW c, Results(w, k, c), InTurn(c)
    PROVE  Safe(DeadLetterAnswer(k, w), "none")
<1>1. k.kind = c.kind /\ k.flag = c.flag /\ c.then # "reread" /\ (c.kind = "read" => c.flag = "none")
  <2>1. Reply(w, k, c)
      BY ReplyShape
  <2> QED BY <2>1 DEF Reply, CallOK, MayHold, ChannelPages
<1>2. CASE c.kind = "read"
  <2>1. Reading(c) /\ page \notin LatestPages
      BY <1>1, <1>2 DEF Reading, LatestPages
  <2>2. Safe(Prune(Answered(k, w)), "none")
      BY <1>1, <1>2, <2>1, Pruning
  <2>3. ~k.ok => Safe(AnsweredKeeping(k, w), "none")
      BY <1>1, <1>2, <2>1, KeepingLoad
  <2> QED BY <1>1, <1>2, <2>2, <2>3 DEF DeadLetterAnswer, LettersAnswered
<1>3. CASE c.kind # "read"
  <2> DEFINE free == Idle(w, k.flag)
  <2>1. Safe(w, c.flag)
      BY <1>3, Passing DEF Marks, ChannelPages
  <2>2. Safe(free, "none")
      BY <1>1, <2>1, Idling
  <2> HIDE DEF free
  <2>3. Safe([Close(free) EXCEPT !.ui.sel = {}], "none")
      BY <2>2, Closing, Unselected
  <2>4. Safe(LoadDeadLetters([Close(free) EXCEPT !.ui.sel = {}], k.of), "none")
      BY <2>3, DrawerLoads DEF DrawerPages
  <2> QED BY <1>1, <1>3, <2>2, <2>4 DEF DeadLetterAnswer, LettersReplayed, free
<1> QED BY <1>2, <1>3

\* What follows the reads of the other drawers.
LEMMA DrawerAnswers ==
    ASSUME ViewsInv, page \in {"Receipts", "TaskDetail", "PackageDetail"},
           NEW w, NEW k, NEW c, Results(w, k, c), InTurn(c)
    PROVE  Safe(Answered(k, w), "none")
BY ReadPageAnswers DEF ReadPages

----------------------------------------------------------------------------
(* SilencePolicy.                                                           *)
\* What SilencePolicy loads.
LEMMA SilenceLoads ==
    ASSUME NEW w, NEW f, Safe(w, f), page = "SilencePolicy"
    PROVE  Safe(LoadSilences(w), f)
BY LoadingFirst DEF LoadSilences, QueryPages

\* What the user and the timers do on SilencePolicy.
LEMMA SilencePolicyKept ==
    ASSUME ViewsInv, SilencePolicyNext
    PROVE  ViewsInv'
<1>0. page = "SilencePolicy"
    BY DEF SilencePolicyNext, ReloadSilences, OpenSilencePolicy, CloseSilencePolicy, SubmitSilence,
           DeleteSilence, OnSilencePolicy
<1>1. CASE ReloadSilences
  <2>1. Safe(LoadSilences(World), "none")
      BY <1>0, WorldSafe, SilenceLoads
  <2> QED BY <1>1, <2>1, Becoming DEF ReloadSilences
<1>2. CASE CloseSilencePolicy
    BY <1>2, WorldSafe, Closing, Becoming DEF CloseSilencePolicy
<1>3. ASSUME NEW kind, kind # "read", NEW rows, NEW flag \in {"submit", "delete"}
      PROVE  Fits(kind, rows, flag, "none", None)
    BY <1>0, <1>3 DEF Fits, Flags, IsWrite, CallOK, MayHold, ReadPages, ChannelPages, QueryPages
<1>4. CASE SubmitSilence
  <2>1. "submit" \notin World.ui.busy
      BY <1>4 DEF SubmitSilence, World
  <2>2. Safe(Submit(World, "submit"), "none")
      BY <1>0, <1>3, <2>1, WorldSafe, FormWrite
  <2>3. Safe(LoadSilences(CloseForm(World)), "none")
      BY <1>0, WorldSafe, Closing, SilenceLoads
  <2>4. Safe(IF FormSends THEN Submit(World, "submit") ELSE LoadSilences(CloseForm(World)), "none")
      BY <2>2, <2>3
  <2> QED BY <1>4, <2>4, Becoming DEF SubmitSilence
<1>5. CASE DeleteSilence
  <2>1. "delete" \notin World.ui.busy
      BY <1>5 DEF DeleteSilence, World
  <2>2. Safe(Write(World, "delete", {ui.dialog.row}, "delete", "none"), "none")
      BY <1>0, <1>3, <2>1, WorldSafe, FlagWrite
  <2> QED BY <1>5, <2>2, Becoming DEF DeleteSilence
<1>6. ASSUME NEW r, NEW kind, OpenSilencePolicy(kind, r)
      PROVE  ViewsInv'
  <2>1. Safe(Open(World, kind, r), "none")
      BY <1>0, WorldSafe, Opening DEF FormPages
  <2> QED BY <1>6, <2>1, Becoming DEF OpenSilencePolicy
<1> QED BY <1>1, <1>2, <1>4, <1>5, <1>6 DEF SilencePolicyNext

\* What follows the calls of SilencePolicy.
LEMMA SilencePolicyAnswers ==
    ASSUME ViewsInv, page = "SilencePolicy", NEW w, NEW k, NEW c, Results(w, k, c), InTurn(c)
    PROVE  Safe(SilencePolicyAnswer(k, w), "none")
<1>1. k.kind = c.kind /\ k.flag = c.flag /\ c.then # "reread" /\ (c.kind = "read" => c.flag = "none")
  <2>1. Reply(w, k, c)
      BY ReplyShape
  <2> QED BY <2>1 DEF Reply, CallOK, MayHold, ChannelPages
<1>2. CASE c.kind = "read"
    BY <1>1, <1>2, SimpleRead DEF Reading, LatestPages, SilencePolicyAnswer
<1>3. CASE c.kind # "read"
  <2> DEFINE free == Idle(w, k.flag)
  <2>1. Safe(w, c.flag)
      BY <1>3, Passing DEF Marks, ChannelPages
  <2>2. Safe(free, "none")
      BY <1>1, <2>1, Idling
  <2> HIDE DEF free
  <2>3. Safe(CloseForm(free), "none") /\ Safe(CloseDelete(free), "none")
      BY <2>2, Closing, ClosingDelete DEF FormPages
  <2>4. Safe(LoadSilences(CloseForm(free)), "none") /\ Safe(LoadSilences(CloseDelete(free)), "none")
      BY <2>3, SilenceLoads
  <2> QED BY <1>1, <1>3, <2>2, <2>4 DEF SilencePolicyAnswer, SilenceChanged, free
<1> QED BY <1>2, <1>3

----------------------------------------------------------------------------
(* AlertRules.                                                              *)
\* What AlertRules loads, on behalf of a button or of none.
LEMMA RulesLoads ==
    ASSUME NEW w, NEW f, Safe(w, f), page = "AlertRules"
    PROVE  Safe(LoadRules(w, f), "none")
<1>1. MayHold("read", "list", f, "none")
    BY DEF MayHold
<1> QED BY <1>1, LoadingFirst DEF LoadRules, QueryPages

\* The form opens with a draft from another page.
LEMMA Drafting ==
    ASSUME NEW w, Safe(w, "none"), page = "AlertRules"
    PROVE  Safe(OpenDraft(w), "none")
<1>1. Safe(Open(w, "create", None), "none")
    BY Opening DEF FormPages
<1>2. Safe([Open(w, "create", None) EXCEPT !.ui.held = None], "none")
    BY <1>1, SetHeld DEF Holdable
<1> QED BY <1>2 DEF OpenDraft

\* What AlertRules does when it is opened.
LEMMA AlertRulesMounted ==
    ASSUME NEW w, Safe(w, "none"), page = "AlertRules", NEW held
    PROVE  Safe(AlertRulesMount(w, held), "none")
<1>1. Safe([w EXCEPT !.ui.held = held], "none")
    BY SetHeld DEF Holdable
<1>2. Safe(LoadRules([w EXCEPT !.ui.held = held], "none"), "none")
    BY <1>1, RulesLoads
<1>3. "side" \in Panels /\ Free
    BY DEF Panels, Free, OnePages, QueryPages
<1> QED BY <1>2, <1>3, LoadingFree DEF AlertRulesMount

\* What the user and the timers do on AlertRules.
LEMMA AlertRulesKept ==
    ASSUME ViewsInv, AlertRulesNext
    PROVE  ViewsInv'
<1>0. page = "AlertRules"
    BY DEF AlertRulesNext, ReloadRules, OpenRule, CloseRule, SubmitRule, DeleteRule, ToggleRule, OnAlertRules
<1>1. CASE ReloadRules
  <2>1. Safe(LoadRules(World, "none"), "none")
      BY <1>0, WorldSafe, RulesLoads
  <2> QED BY <1>1, <2>1, Becoming DEF ReloadRules
<1>2. CASE CloseRule
    BY <1>2, WorldSafe, Closing, Becoming DEF CloseRule
<1>3. ASSUME NEW kind, kind # "read", NEW rows, NEW flag \in {"submit", "none"}
      PROVE  Fits(kind, rows, flag, "none", None)
    BY <1>0, <1>3 DEF Fits, Flags, IsWrite, CallOK, MayHold, ReadPages, ChannelPages, QueryPages
<1>4. CASE SubmitRule
  <2>1. "submit" \notin World.ui.busy
      BY <1>4 DEF SubmitRule, World
  <2>2. Safe(Submit(World, "submit"), "none")
      BY <1>0, <1>3, <2>1, WorldSafe, FormWrite
  <2>3. Safe(LoadRules(CloseForm(World), "none"), "none")
      BY <1>0, WorldSafe, Closing, RulesLoads
  <2>4. Safe(IF FormSends THEN Submit(World, "submit") ELSE LoadRules(CloseForm(World), "none"), "none")
      BY <2>2, <2>3
  <2> QED BY <1>4, <2>4, Becoming DEF SubmitRule
<1>5. CASE DeleteRule
  <2>1. "submit" \notin World.ui.busy
      BY <1>5 DEF DeleteRule, World
  <2>2. Safe(Write(World, "delete", {ui.dialog.row}, "submit", "none"), "none")
      BY <1>0, <1>3, <2>1, WorldSafe, FlagWrite
  <2> QED BY <1>5, <2>2, Becoming DEF DeleteRule
<1>6. ASSUME NEW r, NEW kind, OpenRule(kind, r)
      PROVE  ViewsInv'
  <2>1. Safe(Open(World, kind, r), "none")
      BY <1>0, WorldSafe, Opening DEF FormPages
  <2> QED BY <1>6, <2>1, Becoming DEF OpenRule
<1>7. ASSUME NEW r, ToggleRule(r)
      PROVE  ViewsInv'
  <2> DEFINE kind == IF StatusOf(r) = "enabled" THEN "disable" ELSE "enable"
  <2>1. Become({Write(World, kind, {r}, "none", "none")})
      BY <1>7 DEF ToggleRule
  <2>2. kind # "read"
      OBVIOUS
  <2> HIDE DEF kind
  <2>3. Safe(Write(World, kind, {r}, "none", "none"), "none")
      BY <1>3, <2>2, WorldSafe, PlainWrite
  <2> QED BY <2>1, <2>3, Becoming
<1> QED BY <1>1, <1>2, <1>4, <1>5, <1>6, <1>7 DEF AlertRulesNext

\* What follows the calls of AlertRules.
LEMMA AlertRulesAnswers ==
    ASSUME ViewsInv, page = "AlertRules", NEW w, NEW k, NEW c, Results(w, k, c), InTurn(c)
    PROVE  Safe(AlertRulesAnswer(k, w), "none")
<1>1. /\ k.kind = c.kind /\ k.flag = c.flag /\ k.panel = c.panel /\ c.then # "reread"
      /\ c.panel = "side" /\ c.kind = "read" => c.flag = "none"
      /\ c.panel \in Panels
  <2>1. Reply(w, k, c)
      BY ReplyShape
  <2> QED BY <2>1 DEF Reply, CallOK, MayHold, ChannelPages
<1>2. CASE c.kind = "read" /\ c.panel = "list"
  <2>1. Safe(Idle(Answered(k, w), c.flag), "none")
      BY <1>1, <1>2, SimpleRead DEF Reading, LatestPages
  <2>2. Safe(OpenDraft(Idle(Answered(k, w), k.flag)), "none")
      BY <1>1, <2>1, Drafting
  <2> QED BY <1>1, <1>2, <2>2 DEF AlertRulesAnswer
<1>3. CASE c.kind = "read" /\ c.panel = "side"
  <2>1. Results(w, [k EXCEPT !.ok = TRUE], c)
      BY OtherOk
  <2>2. Safe(ChannelsAnswered(k, w), "none")
      BY <1>1, <1>3, <2>1, SimpleRead DEF Reading, LatestPages, ChannelsAnswered
  <2>3. Safe(OpenDraft(ChannelsAnswered(k, w)), "none")
      BY <2>2, Drafting
  <2> QED BY <1>1, <1>3, <2>3 DEF AlertRulesAnswer
<1>4. CASE c.kind # "read"
  <2>1. Safe(w, c.flag)
      BY <1>1, <1>4, Passing DEF Marks, ChannelPages
  <2>2. Safe(CloseForm(w), c.flag) /\ Safe(CloseDelete(w), c.flag)
      BY <2>1, Closing, ClosingDelete DEF FormPages
  <2>3. /\ Safe(LoadRules(w, k.flag), "none") /\ Safe(LoadRules(CloseForm(w), k.flag), "none")
        /\ Safe(LoadRules(CloseDelete(w), k.flag), "none")
      BY <1>1, <2>1, <2>2, RulesLoads
  <2>4. Safe(Idle(w, k.flag), "none")
      BY <1>1, <2>1, Idling
  <2>5. Safe(RuleChanged(k, w), "none")
      BY <2>3, <2>4 DEF RuleChanged
  <2>6. Safe(OpenDraft(RuleChanged(k, w)), "none")
      BY <2>5, Drafting
  <2> QED BY <1>1, <1>4, <2>6 DEF AlertRulesAnswer
<1> QED BY <1>1, <1>2, <1>3, <1>4 DEF Panels

----------------------------------------------------------------------------
(* AlertList.                                                               *)
\* What AlertList loads, on behalf of a batch or of none.
LEMMA AlertLoads ==
    ASSUME NEW w, NEW f, Safe(w, f), page = "AlertList", NEW view, NEW force, NEW then,
           then \notin {"reread", "single"}, f = "none" \/ (f = "batch" /\ force)
    PROVE  Safe(AwaitAlerts(w, view, force, f, then), "none")
<1> DEFINE next == Await(w, "list", view, f, then)
<1>1. "list" \in Panels /\ Free
    BY DEF Panels, Free, OnePages, QueryPages
<1>2. f = "none" \/ MayHold("read", "list", f, then)
    BY DEF MayHold
<1>3. Safe(next, "none")
    BY <1>1, <1>2, LoadingFree
<1> HIDE DEF next
<1>4. Safe([next EXCEPT !.ui.flight = [view |-> view, id |-> next.ui.started]], "none")
    BY <1>3, SetFields
<1> QED BY <1>4 DEF AwaitAlerts, next

\* What AlertList loads on behalf of none.
LEMMA AlertLoadsPlain ==
    ASSUME NEW w, Safe(w, "none"), page = "AlertList", NEW view, NEW force
    PROVE  Safe(LoadAlerts(w, view, force), "none")
BY AlertLoads DEF LoadAlerts

\* What the user and the timers do on AlertList.
LEMMA AlertListKept ==
    ASSUME ViewsInv, AlertListNext
    PROVE  ViewsInv'
<1>0. page = "AlertList"
    BY DEF AlertListNext, ChangeAlertView, ReloadAlerts, PollAlerts, AlertsHidden, AlertsVisible,
           OpenSilence, MutateAlert, SelectAlerts, BatchAlerts, ConfirmSilence, CancelSilence, OnAlertList
<1>1. ASSUME NEW v, ChangeAlertView(v)
      PROVE  ViewsInv'
  <2>1. Safe([World EXCEPT !.ui.view = v], "none")
      BY WorldSafe, SetFields
  <2>2. Safe(LoadAlerts([World EXCEPT !.ui.view = v], v, FALSE), "none")
      BY <1>0, <2>1, AlertLoadsPlain
  <2> QED BY <1>1, <2>2, Becoming DEF ChangeAlertView
<1>2. CASE ReloadAlerts
  <2>1. Safe(LoadAlerts(World, ui.view, TRUE), "none")
      BY <1>0, WorldSafe, AlertLoadsPlain
  <2> QED BY <1>2, <2>1, Becoming DEF ReloadAlerts
<1>3. CASE PollAlerts
  <2>1. Safe(LoadAlerts(World, ui.view, FALSE), "none")
      BY <1>0, WorldSafe, AlertLoadsPlain
  <2> QED BY <1>3, <2>1, Becoming DEF PollAlerts
<1>4. CASE AlertsHidden
  <2>1. Safe([World EXCEPT !.ui.hidden = TRUE], "none")
      BY WorldSafe, SetFields
  <2> QED BY <1>4, <2>1, Becoming DEF AlertsHidden
<1>5. CASE AlertsVisible
  <2>1. Safe([World EXCEPT !.ui.hidden = FALSE], "none")
      BY WorldSafe, SetFields
  <2>2. Safe(LoadAlerts([World EXCEPT !.ui.hidden = FALSE], ui.view, FALSE), "none")
      BY <1>0, <2>1, AlertLoadsPlain
  <2> QED BY <1>5, <2>2, Becoming DEF AlertsVisible
<1>6. ASSUME NEW kind, NEW r
      PROVE  Safe(Open(World, kind, r), "none")
    BY <1>0, WorldSafe, Opening DEF FormPages
<1>7. ASSUME NEW r, OpenSilence(r)
      PROVE  ViewsInv'
    BY <1>6, <1>7, Becoming DEF OpenSilence
<1>8. ASSUME NEW kind, kind # "read", NEW rows, NEW flag \in {"batch", "none"}, NEW then,
             then \in {"none", "silence"} \/ (then = "single" /\ flag = "batch")
      PROVE  Fits(kind, rows, flag, then, None)
    BY <1>0, <1>8 DEF Fits, Flags, IsWrite, CallOK, MayHold, ReadPages, ChannelPages, QueryPages
<1>9. ASSUME NEW r, NEW kind \in {"acknowledge", "resolve"}, MutateAlert(r, kind)
      PROVE  ViewsInv'
  <2>1. Safe(Write(World, kind, {r}, "none", "none"), "none")
      BY <1>8, WorldSafe, PlainWrite
  <2> QED BY <1>9, <2>1, Becoming DEF MutateAlert
<1>10. ASSUME NEW rows, SelectAlerts(rows)
      PROVE  ViewsInv'
  <2>1. Selectable(rows, World.ui.list)
      BY <1>0, <1>10 DEF SelectAlerts, Selectable, Shown, World
  <2>2. Safe([World EXCEPT !.ui.sel = rows], "none")
      BY <2>1, WorldSafe, SetSelection
  <2> QED BY <1>10, <2>2, Becoming DEF SelectAlerts
<1>11. ASSUME "batch" \notin ui.busy, NEW kind, kind # "read", NEW rows, NEW then \in {"none", "silence", "single"}
       PROVE  Safe(Write(World, kind, rows, "batch", then), "none")
  <2>1. "batch" \notin World.ui.busy
      BY <1>11 DEF World
  <2>2. Fits(kind, rows, "batch", then, None)
      BY <1>8, <1>11
  <2> QED BY <1>0, <2>1, <2>2, WorldSafe, FlagWrite
<1>12. ASSUME NEW kind \in {"acknowledge", "resolve", "silence"}, BatchAlerts(kind)
       PROVE  ViewsInv'
  <2>1. Safe(Write(World, kind, ui.sel, "batch", "none"), "none")
      BY <1>11, <1>12 DEF BatchAlerts
  <2>2. Safe(IF kind = "silence" THEN Open(World, "silence", None)
             ELSE Write(World, kind, ui.sel, "batch", "none"), "none")
      BY <1>6, <2>1
  <2> QED BY <1>12, <2>2, Becoming DEF BatchAlerts
<1>13. CASE ConfirmSilence
  <2> DEFINE r == ui.dialog.row
             n == IF r # None THEN Write(World, "silence", {r}, "batch", "single")
                  ELSE IF ui.sel = {} THEN Close(World)
                  ELSE Write(World, "silence", ui.sel, "batch", "silence")
  <2>1. /\ Safe(Write(World, "silence", {r}, "batch", "single"), "none")
        /\ Safe(Write(World, "silence", ui.sel, "batch", "silence"), "none")
      BY <1>11, <1>13 DEF ConfirmSilence
  <2>2. Safe(Close(World), "none")
      BY WorldSafe, Closing
  <2>3. Become({n})
      BY <1>13 DEF ConfirmSilence
  <2>4. Safe(n, "none")
      BY <2>1, <2>2
  <2> HIDE DEF n
  <2> QED BY <2>3, <2>4, Becoming
<1>14. CASE CancelSilence
    BY <1>14, WorldSafe, Closing, Becoming DEF CancelSilence
<1> QED BY <1>1, <1>2, <1>3, <1>4, <1>5, <1>7, <1>9, <1>10, <1>12, <1>13, <1>14 DEF AlertListNext

\* What follows the calls of AlertList.
LEMMA AlertListAnswers ==
    ASSUME ViewsInv, page = "AlertList", NEW w, NEW k, NEW c, Results(w, k, c), InTurn(c)
    PROVE  Safe(AlertListAnswer(k, w), "none")
<1>1. /\ k.kind = c.kind /\ k.flag = c.flag /\ k.then = c.then /\ k.id = c.id /\ k.panel = c.panel
      /\ c.panel \in Panels /\ c.then # "reread" /\ c.flag \in {"none", "batch"}
      /\ c.then = "single" => c.flag = "batch"
  <2>1. Reply(w, k, c)
      BY ReplyShape
  <2> QED BY <2>1 DEF Reply, CallOK, MayHold, ChannelPages
<1>2. CASE c.kind = "read"
  <2> DEFINE own == w.ui.flight # None /\ w.ui.flight.id = k.id
             next == IF own THEN [w EXCEPT !.ui.flight = None] ELSE w
  <2>1. Results(next, k, c)
      BY ResultsKept
  <2> HIDE DEF next
  <2> DEFINE drawn == Prune(AnsweredLatest(k, next))
  <2>0. AlertsAnswered(k, w) = AlertHandlerEnds(k, drawn)
      BY DEF AlertsAnswered, next
  <2> HIDE DEF drawn
  <2>2. Reading(c)
      BY <1>1, <1>2 DEF Reading
  <2>5. Safe(drawn, c.flag)
    <3>1. CASE next.ui[k.panel].latest = k.id
      <4>1. Safe(Prune(Answered(k, next)), c.flag)
          BY <1>1, <2>1, <2>2, <3>1, Pruning
      <4> QED BY <3>1, <4>1 DEF AnsweredLatest, drawn
    <3>2. CASE next.ui[k.panel].latest # k.id
      <4>1. Safe(next, c.flag)
          BY <1>1, <2>1, <2>2, <3>2, AnsweredOld
      <4>2. Safe(Prune(next), c.flag)
          BY <4>1, PruningSafe
      <4> QED BY <3>2, <4>2 DEF AnsweredLatest, drawn
    <3> QED BY <3>1, <3>2
  <2>7. Safe(Idle(drawn, k.flag), "none")
      BY <1>1, <2>5, Idling
  <2>8. Safe(Close(Idle(drawn, k.flag)), "none")
      BY <2>7, Closing
  <2> QED BY <1>1, <1>2, <2>0, <2>7, <2>8 DEF AlertListAnswer, AlertHandlerEnds
<1>3. CASE c.kind # "read"
  <2>1. Safe(w, c.flag)
      BY <1>1, <1>3, Passing DEF Marks, ChannelPages
  <2>2. Safe([w EXCEPT !.ui.sel = {}], c.flag)
      BY <2>1, Unselected
  <2>3. CASE k.then = "single"
    <3>1. /\ Safe(AwaitAlerts(w, k.of, TRUE, "batch", "silence"), "none")
          /\ Safe(AwaitAlerts(w, k.of, TRUE, "batch", "none"), "none")
        BY <1>1, <2>1, <2>3, AlertLoads
    <3>2. Safe(Idle(w, "batch"), "none")
        BY <1>1, <2>1, <2>3, Idling
    <3>3. Safe(AlertMutated(k, w), "none")
        BY <2>3, <3>1, <3>2 DEF AlertMutated
    <3> QED BY <1>1, <1>3, <3>3 DEF AlertListAnswer
  <2>4. CASE k.then # "single" /\ k.flag = "none"
    <3>1. Safe(LoadAlerts(w, k.of, TRUE), "none")
        BY <1>1, <2>1, <2>4, AlertLoadsPlain
    <3>2. Safe(AlertMutated(k, w), "none")
        BY <1>1, <2>1, <2>4, <3>1 DEF AlertMutated
    <3> QED BY <1>1, <1>3, <3>2 DEF AlertListAnswer
  <2>5. CASE k.then # "single" /\ k.flag # "none"
    <3>1. Safe(AwaitAlerts([w EXCEPT !.ui.sel = {}], k.of, TRUE, "batch", k.then), "none")
        BY <1>1, <2>2, <2>5, AlertLoads
    <3>2. Safe(AlertMutated(k, w), "none")
        BY <2>5, <3>1 DEF AlertMutated
    <3> QED BY <1>1, <1>3, <3>2 DEF AlertListAnswer
  <2> QED BY <2>3, <2>4, <2>5
<1> QED BY <1>2, <1>3

----------------------------------------------------------------------------
(* NotificationConfig and WebhookManagement.                                *)
\* The rows of the cache are shown.
LEMMA CachedRows ==
    ASSUME NEW w, NEW f, Safe(w, f), page = "NotificationConfig", w.ui.held # None
    PROVE  Safe([w EXCEPT !.ui.list.shown = w.ui.held, !.ui.list.loading = FALSE,
                          !.ui.list.failed = FALSE], f)
<1> DEFINE n == [w EXCEPT !.ui.list.shown = w.ui.held, !.ui.list.loading = FALSE, !.ui.list.failed = FALSE]
<1>1. IsWorld(w) /\ IsPanel(w.ui.list)
    BY DEF Safe, IsWorld, IsUi
<1>2. IsSnapshot(w.ui.held) /\ w.ui.held.of = FirstView
    BY DEF Safe, Sound, HeldOK, Holdable
<1>3. n.calls = w.calls /\ Alike(w, n, {"list"})
    BY <1>1 DEF IsWorld, IsUi, Alike, WorldFields, UiFields
<1>4. /\ n.ui.list = [x \in PanelFields |-> n.ui.list[x]]
      /\ n.ui.list.of = w.ui.list.of /\ n.ui.list.latest = w.ui.list.latest
      /\ n.ui.list.shown = w.ui.held /\ n.ui.list.loading = FALSE
    BY <1>1 DEF IsWorld, IsUi, IsPanel, WorldFields, UiFields, PanelFields
<1> HIDE DEF n
<1>5. IsPanel(n.ui.list)
    BY <1>1, <1>2, <1>4 DEF IsPanel
<1>6. w.ui.list.of \in {None, FirstView}
    BY DEF Safe, Sound, Asked, Fixed, Panels
<1>7. Settled(n.ui.list)
    BY <1>2, <1>4, <1>6 DEF Settled
<1>8. \A o \in {FirstView, "repositories"} : Fixed("list", o) /\ n.ui.list.shown # None => n.ui.list.shown.of = o
    BY <1>2, <1>4 DEF Fixed
<1>9. Redrawn(w, "list", n.ui.list)
    BY <1>4, <1>5, <1>7, <1>8 DEF Redrawn
<1>10. AsidesOK(n.ui)
  <2>1. n.ui.sel = w.ui.sel /\ n.ui.dialog = w.ui.dialog /\ n.ui.busy = w.ui.busy /\ n.ui.held = w.ui.held
      BY <1>3 DEF Alike, UiFields
  <2> QED BY <2>1 DEF AsidesOK, Safe, Sound, Selected, Selectable, DialogOK, HeldOK
<1>11. Alike(w, n, Asides \cup {"list"})
    BY <1>3 DEF Alike
<1>12. Safe(n, f)
    BY <1>3, <1>9, <1>10, <1>11, Redrawing DEF Panels
<1> QED BY <1>12 DEF n

\* The channels are loaded, on behalf of a button or of none.
LEMMA Fetching ==
    ASSUME NEW w, NEW f, Safe(w, f), page \in ChannelPages, NEW force, page = "WebhookManagement" => force
    PROVE  Safe(FetchChannels(w, force, f), "none")
<1>1. CASE force \/ w.ui.held = None
  <2>1. MayHold("read", "list", f, "none")
      BY DEF MayHold, ChannelPages
  <2>2. Safe(Await(w, "list", FirstView, f, "none"), "none")
      BY <2>1, LoadingFirst DEF QueryPages, ChannelPages
  <2> QED BY <1>1, <2>2 DEF FetchChannels
<1>2. CASE ~force /\ w.ui.held # None
  <2>1. Safe([w EXCEPT !.ui.list.shown = w.ui.held, !.ui.list.loading = FALSE,
                       !.ui.list.failed = FALSE], f)
      BY <1>2, CachedRows DEF ChannelPages
  <2>2. Safe(Idle([w EXCEPT !.ui.list.shown = w.ui.held, !.ui.list.loading = FALSE,
                            !.ui.list.failed = FALSE], f), "none")
      BY <2>1, Idling
  <2> QED BY <1>2, <2>2 DEF FetchChannels
<1> QED BY <1>1, <1>2

\* The channels are read again on behalf of a change.
LEMMA Rereading ==
    ASSUME NEW w, NEW f, Safe(w, f), page \in ChannelPages, NEW rows, NEW since
    PROVE  Safe(Send(w, [NewCall EXCEPT !.of = FirstView, !.rows = rows, !.flag = f,
                                        !.then = "reread", !.since = since]), "none")
<1> DEFINE k == [NewCall EXCEPT !.of = FirstView, !.rows = rows, !.flag = f, !.then = "reread", !.since = since]
           n == Send(w, k)
<1>1. /\ k = [x \in CallFields |-> k[x]] /\ k.kind = "read" /\ k.panel = "list" /\ k.of = FirstView
      /\ k.flag = f /\ k.then = "reread"
    BY DEF NewCall, CallFields
<1> HIDE DEF k
<1>2. PICK c : /\ n.calls = w.calls \cup {c}
               /\ c.id = w.ui.started + 1
               /\ c = [x \in CallFields |-> c[x]]
               /\ \A x \in CallFields \ {"id", "at"} : c[x] = k[x]
               /\ c.kind = "read" => c.at = Snapshot(w, c.of)
               /\ n.ui.started = w.ui.started + 1
               /\ Alike(w, n, {"started"})
    BY <1>1, SendShape
<1> HIDE DEF n
<1>3. c.kind = "read" /\ c.panel = "list" /\ c.of = FirstView /\ c.flag = f /\ c.then = "reread"
      /\ c.at = Snapshot(w, c.of)
    BY <1>1, <1>2 DEF CallFields
<1>4. f \in Flags \cup {"none"} /\ (f # "none" /\ ~Loose(f) => f \in w.ui.busy)
    BY DEF Safe, Sound, Once
<1>5. IsCall(c)
  <2>1. w.ui.started + 1 \in Nat BY DEF Safe, IsWorld, IsUi
  <2> QED BY <1>2, <1>3, <1>4, <2>1, Snapshots DEF IsCall, Panels
<1>6. CallOK(c)
    BY <1>3 DEF CallOK, MayHold, ChannelPages, QueryPages, ReadPages, Fixed, OnePages
<1>7. Sent(w, n, c)
    BY <1>2, <1>5, <1>6 DEF Sent
<1>8. n.ui.busy = w.ui.busy /\ n.ui.sel = w.ui.sel /\ n.ui.dialog = w.ui.dialog /\ n.ui.held = w.ui.held
      /\ n.ui.list = w.ui.list
    BY <1>2 DEF Alike, UiFields
<1>9. Flagged(w, n, c, f, "none")
  <2>1. \A b \in w.ui.busy : b # "none"
      BY DEF Safe, Sound, Busy
  <2> QED BY <1>3, <1>4, <1>8, <2>1 DEF Flagged, Given
<1>10. Alike(w, n, Asides \cup {"busy", "started"})
    BY <1>2 DEF Alike
<1>11. AsidesOK(n.ui)
    BY <1>8 DEF AsidesOK, Safe, Sound, Selected, DialogOK, HeldOK
<1>12. Safe(n, "none")
    BY <1>3, <1>7, <1>9, <1>10, <1>11, SendingOther
<1> QED BY <1>12 DEF n, k

\* The answer of a read that fills the cache.
LEMMA Caching ==
    ASSUME ViewsInv, NEW w, NEW k, NEW c, Results(w, k, c), page \in ChannelPages, c.kind = "read"
    PROVE  Results(CacheChannels(k, w), k, c)
<1>1. Reply(w, k, c)
    BY ReplyShape
<1>2. page = "NotificationConfig" => c.of = FirstView
    BY <1>1 DEF Reply, CallOK, Fixed
<1>3. Holdable(k.at)
    BY <1>1, <1>2 DEF Holdable, Reply, ChannelPages
<1>4. Results([w EXCEPT !.ui.held = k.at], k, c)
    BY <1>3, ResultsKept
<1> QED BY <1>4 DEF CacheChannels

\* The writes of the channel pages.
LEMMA ChannelWrites ==
    ASSUME page \in ChannelPages, NEW kind, kind # "read", NEW rows, NEW flag \in {"none", "submit"},
           kind \in {"test", "delete"} => flag = "none" \/ (kind = "delete" /\ page = "NotificationConfig")
    PROVE  Fits(kind, rows, flag, "none", None)
BY DEF Fits, Flags, IsWrite, CallOK, MayHold, ReadPages, ChannelPages, QueryPages

\* What a change of a channel does but for its test.
LEMMA ChannelChanges ==
    ASSUME NEW w, NEW k, Safe(w, k.flag), page \in ChannelPages, k.kind # "test",
           k.kind = "delete" => page = "NotificationConfig"
    PROVE  Safe(ChannelChanged(k, w), "none")
<1>1. Safe(Idle(w, k.flag), "none")
    BY Idling
<1>2. Safe(Invalidate(w), k.flag)
    BY SetHeld DEF Invalidate, Holdable, ChannelPages
<1>3. ASSUME k.kind = "delete"
      PROVE  Safe(FetchChannels(CloseDelete(Invalidate(w)), FALSE, k.flag), "none")
  <2>1. Safe(CloseDelete(Invalidate(w)), k.flag)
      BY <1>2, ClosingDelete DEF FormPages, ChannelPages
  <2> QED BY <1>3, <2>1, Fetching
<1>4. Safe([Invalidate(w) EXCEPT !.ui.known = ui.known], k.flag)
    BY <1>2, SetFields
<1>5. Safe(Send([Invalidate(w) EXCEPT !.ui.known = ui.known],
                [NewCall EXCEPT !.of = FirstView, !.rows = k.done, !.flag = k.flag,
                                !.then = "reread", !.since = w.ui.known]), "none")
    BY <1>4, Rereading
<1> QED BY <1>1, <1>3, <1>5 DEF ChannelChanged

\* What NotificationConfig does when it is opened.
LEMMA NotificationConfigMounted ==
    ASSUME NEW w, Safe(w, "none"), page = "NotificationConfig"
    PROVE  Safe(NotificationConfigMount(w), "none")
BY Fetching DEF NotificationConfigMount, ChannelPages

\* What the user and the timers do on NotificationConfig.
LEMMA NotificationConfigKept ==
    ASSUME ViewsInv, NotificationConfigNext
    PROVE  ViewsInv'
<1>0. page = "NotificationConfig" /\ page \in ChannelPages
    BY DEF NotificationConfigNext, ReloadChannels, OpenChannel, CloseChannel, SubmitChannel,
           DeleteChannel, ToggleChannel, TestChannel, OnNotificationConfig, ChannelPages
<1>1. CASE ReloadChannels
  <2>1. Safe(FetchChannels(World, TRUE, "none"), "none")
      BY <1>0, WorldSafe, Fetching
  <2> QED BY <1>1, <2>1, Becoming DEF ReloadChannels
<1>2. CASE CloseChannel
    BY <1>2, WorldSafe, Closing, Becoming DEF CloseChannel
<1>3. CASE SubmitChannel
  <2>1. "submit" \notin World.ui.busy
      BY <1>3 DEF SubmitChannel, World
  <2>2. Fits("create", {}, "submit", "none", None) /\ \A r : Fits("update", {r}, "submit", "none", None)
      BY <1>0, ChannelWrites
  <2>3. Safe(Submit(World, "submit"), "none")
      BY <1>0, <2>1, <2>2, WorldSafe, FormWrite
  <2>4. Safe(CloseForm(World), "none")
      BY WorldSafe, Closing
  <2>5. Safe(FetchChannels(CloseForm(World), FALSE, "none"), "none")
      BY <1>0, <2>4, Fetching
  <2>6. Safe(IF FormSends THEN Submit(World, "submit")
             ELSE FetchChannels(CloseForm(World), FALSE, "none"), "none")
      BY <2>3, <2>5
  <2> QED BY <1>3, <2>6, Becoming DEF SubmitChannel
<1>4. CASE DeleteChannel
  <2>1. "submit" \notin World.ui.busy
      BY <1>4 DEF DeleteChannel, World
  <2>2. Fits("delete", {ui.dialog.row}, "submit", "none", None)
      BY <1>0, ChannelWrites
  <2>3. Safe(Write(World, "delete", {ui.dialog.row}, "submit", "none"), "none")
      BY <1>0, <2>1, <2>2, WorldSafe, FlagWrite
  <2> QED BY <1>4, <2>3, Becoming DEF DeleteChannel
<1>5. ASSUME NEW r, NEW kind, OpenChannel(kind, r)
      PROVE  ViewsInv'
  <2>1. Safe(Open(World, kind, r), "none")
      BY <1>0, WorldSafe, Opening DEF FormPages
  <2> QED BY <1>5, <2>1, Becoming DEF OpenChannel
<1>6. ASSUME NEW r, ToggleChannel(r)
      PROVE  ViewsInv'
  <2> DEFINE kind == IF StatusOf(r) = "enabled" THEN "disable" ELSE "enable"
  <2>1. Become({Write(World, kind, {r}, "none", "none")})
      BY <1>6 DEF ToggleChannel
  <2>2. kind # "read"
      OBVIOUS
  <2> HIDE DEF kind
  <2>3. Fits(kind, {r}, "none", "none", None)
      BY <1>0, <2>2, ChannelWrites
  <2>4. Safe(Write(World, kind, {r}, "none", "none"), "none")
      BY <2>3, WorldSafe, PlainWrite
  <2> QED BY <2>1, <2>4, Becoming
<1>7. ASSUME NEW r \in Row, TestChannel(r)
      PROVE  ViewsInv'
  <2>1. Marks("test") /\ Fits("test", {r}, "none", "none", None)
      BY <1>0, ChannelWrites DEF Marks
  <2>2. Safe([Write(World, "test", {r}, "none", "none") EXCEPT !.ui.busy = (@ \ Row) \cup {r}], "none")
      BY <1>0, <2>1, WorldSafe, MarkingRow
  <2> QED BY <1>7, <2>2, Becoming DEF TestChannel
<1> QED BY <1>1, <1>2, <1>3, <1>4, <1>5, <1>6, <1>7 DEF NotificationConfigNext

\* What follows the calls of NotificationConfig.
LEMMA NotificationConfigAnswers ==
    ASSUME ViewsInv, page = "NotificationConfig", NEW w, NEW k, NEW c, Results(w, k, c), InTurn(c)
    PROVE  Safe(NotificationConfigAnswer(k, w), "none")
<1>0. page \in ChannelPages
    BY DEF ChannelPages
<1>1. k.kind = c.kind /\ k.flag = c.flag /\ k.then = c.then
  <2>1. Reply(w, k, c)
      BY ReplyShape
  <2> QED BY <2>1 DEF Reply
<1>2. CASE c.kind = "read" /\ c.then # "reread"
  <2>1. Results(CacheChannels(k, w), k, c)
      BY <1>0, <1>2, Caching
  <2>2. Safe(Idle(Answered(k, CacheChannels(k, w)), c.flag), "none")
      BY <1>2, <2>1, SimpleRead DEF Reading, LatestPages
  <2> QED BY <1>1, <1>2, <2>2 DEF NotificationConfigAnswer
<1>3. CASE c.kind = "read" /\ c.then = "reread"
  <2> DEFINE m == CacheChannels(k, w)
             next == [m EXCEPT !.ui.known = k.since]
  <2>1. Results(m, k, c)
      BY <1>0, <1>3, Caching
  <2> HIDE DEF m
  <2>2. Safe(m, c.flag)
      BY <1>3, <2>1, Passing DEF Marks, ChannelPages
  <2>3. Safe(next, c.flag)
      BY <2>2, SetFields
  <2> HIDE DEF next
  <2>4. Safe(CloseForm(next), c.flag)
      BY <2>3, Closing
  <2>5. /\ Safe(FetchChannels(next, FALSE, k.flag), "none")
        /\ Safe(FetchChannels(CloseForm(next), FALSE, k.flag), "none")
      BY <1>0, <1>1, <2>3, <2>4, Fetching
  <2>6. Safe(Idle(m, k.flag), "none")
      BY <1>1, <2>2, Idling
  <2>7. Safe(ChannelsReread(k, m), "none")
      BY <2>5, <2>6 DEF ChannelsReread, next
  <2> QED BY <1>1, <1>3, <2>7 DEF NotificationConfigAnswer, m
<1>4. CASE c.kind = "test"
  <2>1. Safe([w EXCEPT !.ui.busy = @ \ Row], "none")
      BY <1>0, <1>4, PassingMarked DEF Marks
  <2> QED BY <1>1, <1>4, <2>1 DEF NotificationConfigAnswer, ChannelChanged
<1>5. CASE c.kind \notin {"read", "test"}
  <2>1. Safe(w, c.flag)
      BY <1>5, Passing DEF Marks
  <2>2. Safe(ChannelChanged(k, w), "none")
      BY <1>0, <1>1, <1>5, <2>1, ChannelChanges
  <2> QED BY <1>1, <1>5, <2>2 DEF NotificationConfigAnswer
<1> QED BY <1>2, <1>3, <1>4, <1>5

----------------------------------------------------------------------------
\* What WebhookManagement loads.
LEMMA HookLoads ==
    ASSUME NEW w, NEW f, Safe(w, f), page = "WebhookManagement"
    PROVE  Safe(LoadHooks(w, f), "none")
BY Fetching DEF LoadHooks, ChannelPages

\* What the user and the timers do on WebhookManagement.
LEMMA WebhookManagementKept ==
    ASSUME ViewsInv, WebhookManagementNext
    PROVE  ViewsInv'
<1>0. page = "WebhookManagement" /\ page \in ChannelPages
    BY DEF WebhookManagementNext, ReloadHooks, OpenHook, CloseHook, SubmitHook,
           DeleteHook, TestHook, OnHooks, HookTable, ChannelPages
<1>1. CASE ReloadHooks
  <2>1. Safe(LoadHooks(World, "none"), "none")
      BY <1>0, WorldSafe, HookLoads
  <2> QED BY <1>1, <2>1, Becoming DEF ReloadHooks
<1>2. CASE CloseHook
    BY <1>2, WorldSafe, Closing, Becoming DEF CloseHook
<1>3. CASE SubmitHook
  <2>1. "submit" \notin World.ui.busy
      BY <1>3 DEF SubmitHook, World
  <2>2. Fits("create", {}, "submit", "none", None) /\ \A r : Fits("update", {r}, "submit", "none", None)
      BY <1>0, ChannelWrites
  <2>3. Safe(Submit(World, "submit"), "none")
      BY <1>0, <2>1, <2>2, WorldSafe, FormWrite
  <2> QED BY <1>3, <2>3, Becoming DEF SubmitHook
<1>4. CASE DeleteHook
  <2>1. Fits("delete", {ui.dialog.row}, "none", "none", None)
      BY <1>0, ChannelWrites
  <2>2. Safe(Write(World, "delete", {ui.dialog.row}, "none", "none"), "none")
      BY <2>1, WorldSafe, PlainWrite
  <2> QED BY <1>4, <2>2, Becoming DEF DeleteHook
<1>5. ASSUME NEW r, NEW kind, OpenHook(kind, r)
      PROVE  ViewsInv'
  <2>1. Safe(Open(World, kind, r), "none")
      BY <1>0, WorldSafe, Opening DEF FormPages
  <2> QED BY <1>5, <2>1, Becoming DEF OpenHook
<1>6. ASSUME NEW r \in Row, TestHook(r)
      PROVE  ViewsInv'
  <2>1. Marks("test") /\ Fits("test", {r}, "none", "none", None)
      BY <1>0, ChannelWrites DEF Marks
  <2>2. Safe(Mark(Write(World, "test", {r}, "none", "none"), r), "none")
      BY <1>0, <2>1, WorldSafe, MarkingRow
  <2> QED BY <1>6, <2>2, Becoming DEF TestHook
<1> QED BY <1>1, <1>2, <1>3, <1>4, <1>5, <1>6 DEF WebhookManagementNext

\* What follows the calls of WebhookManagement.
LEMMA WebhookManagementAnswers ==
    ASSUME ViewsInv, page = "WebhookManagement", NEW w, NEW k, NEW c, Results(w, k, c), InTurn(c)
    PROVE  Safe(WebhookManagementAnswer(k, w), "none")
<1>0. page \in ChannelPages
    BY DEF ChannelPages
<1>1. k.kind = c.kind /\ k.flag = c.flag /\ k.then = c.then /\ (c.kind = "delete" => c.flag = "none")
  <2>1. Reply(w, k, c)
      BY ReplyShape
  <2> QED BY <2>1 DEF Reply, CallOK, MayHold
<1>2. CASE c.kind = "read" /\ c.then # "reread"
  <2>1. Results(CacheChannels(k, w), k, c)
      BY <1>0, <1>2, Caching
  <2>2. Safe(Idle(AnsweredKeeping(k, CacheChannels(k, w)), c.flag), "none")
      BY <1>2, <2>1, SimpleRead DEF Reading, LatestPages
  <2> QED BY <1>1, <1>2, <2>2 DEF WebhookManagementAnswer
<1>3. CASE c.kind = "read" /\ c.then = "reread"
  <2> DEFINE m == CacheChannels(k, w)
             next == [m EXCEPT !.ui.known = k.since]
  <2>1. Results(m, k, c)
      BY <1>0, <1>3, Caching
  <2> HIDE DEF m
  <2>2. Safe(m, c.flag)
      BY <1>3, <2>1, Passing DEF Marks, ChannelPages
  <2>3. Safe(CloseForm(next), c.flag)
      BY <2>2, SetFields, Closing
  <2>4. Safe(LoadHooks(CloseForm(next), k.flag), "none")
      BY <1>1, <2>3, HookLoads
  <2>5. Safe(Idle(m, k.flag), "none")
      BY <1>1, <2>2, Idling
  <2>6. Safe(HookReread(k, m), "none")
      BY <2>4, <2>5 DEF HookReread
  <2> QED BY <1>1, <1>3, <2>6 DEF WebhookManagementAnswer, m
<1>4. CASE c.kind = "test"
  <2>1. Safe(Unmark(w), "none")
      BY <1>0, <1>4, PassingMarked DEF Marks
  <2> QED BY <1>1, <1>4, <2>1 DEF WebhookManagementAnswer
<1>5. CASE c.kind \notin {"read", "test"}
  <2>1. Safe(w, c.flag)
      BY <1>5, Passing DEF Marks
  <2>2. CASE c.kind = "delete"
    <3>1. Safe(CloseQuestion(Invalidate(w)), c.flag)
        BY <2>1, SetHeld, Closing DEF Invalidate, Holdable
    <3>2. Safe(LoadHooks(CloseQuestion(Invalidate(w)), k.flag), "none")
        BY <1>1, <3>1, HookLoads
    <3> QED BY <1>1, <2>1, <2>2, <3>2 DEF WebhookManagementAnswer
  <2>3. CASE c.kind # "delete"
    <3>1. Safe(ChannelChanged(k, w), "none")
        BY <1>0, <1>1, <1>5, <2>1, <2>3, ChannelChanges
    <3> QED BY <1>1, <1>5, <2>3, <3>1 DEF WebhookManagementAnswer
  <2> QED BY <2>2, <2>3
<1> QED BY <1>2, <1>3, <1>4, <1>5

----------------------------------------------------------------------------
(* IncidentList.                                                            *)
Transitions == {"assign", "acknowledge", "investigate", "resolve", "archive", "delete"}

\* What IncidentList loads.
LEMMA IncidentLoads ==
    ASSUME NEW w, NEW f, Safe(w, f), page = "IncidentList", NEW of
    PROVE  /\ Safe(LoadIncidents(w, of), f)
           /\ \A then : then # "reread" => Safe(Await(w, "list", of, f, then), "none")
<1>1. LoadOf("list", of) /\ page \notin QueryPages
    BY DEF LoadOf, Fixed, Panels, QueryPages, OnePages
<1>2. Safe(LoadIncidents(w, of), f)
    BY <1>1, Loading DEF LoadIncidents
<1>3. ASSUME NEW then, then # "reread"
      PROVE  Safe(Await(w, "list", of, f, then), "none")
  <2>1. MayHold("read", "list", f, then)
      BY DEF MayHold
  <2> QED BY <1>1, <1>3, <2>1, Awaiting
<1> QED BY <1>2, <1>3

\* What the user and the timers do on IncidentList.
LEMMA IncidentListKept ==
    ASSUME ViewsInv, IncidentListNext
    PROVE  ViewsInv'
<1>0. page = "IncidentList"
    BY DEF IncidentListNext, ChangeIncidentView, ReloadIncidents, CreateIncidentRow, CancelIncidents,
           ConfirmIncidents, SelectIncidents, AskForIncidents, OnIncidentList
<1>1. ASSUME NEW v, ChangeIncidentView(v)
      PROVE  ViewsInv'
  <2>1. Safe([World EXCEPT !.ui.view = v, !.ui.sel = {}], "none")
      BY WorldSafe, SetView
  <2>2. Safe(LoadIncidents([World EXCEPT !.ui.view = v, !.ui.sel = {}], v), "none")
      BY <1>0, <2>1, IncidentLoads
  <2> QED BY <1>1, <2>2, Becoming DEF ChangeIncidentView
<1>2. CASE ReloadIncidents
  <2>1. Safe(LoadIncidents(World, ui.view), "none")
      BY <1>0, WorldSafe, IncidentLoads
  <2> QED BY <1>2, <2>1, Becoming DEF ReloadIncidents
<1>3. CASE CreateIncidentRow
  <2>1. Fits("create", {}, "none", "none", None)
      BY <1>0 DEF Fits, IsWrite, CallOK, ReadPages, ChannelPages, QueryPages
  <2>2. Safe(Write(World, "create", {}, "none", "none"), "none")
      BY <2>1, WorldSafe, PlainWrite
  <2> QED BY <1>3, <2>2, Becoming DEF CreateIncidentRow
<1>4. CASE CancelIncidents
    BY <1>4, WorldSafe, Closing, Becoming DEF CancelIncidents
<1>5. CASE ConfirmIncidents
  <2> DEFINE asked == ui.dialog.kind
             rows == ui.dialog.row
             emptied == asked = "delete" /\ ui.view # FirstView /\ Cardinality(rows) >= Cardinality(Shown)
             kind == IF asked = "assign" THEN "update" ELSE asked
             then == IF emptied THEN "lastOfPage" ELSE asked
  <2>1. asked \in Transitions
      BY <1>0, <1>5, WorldSafe DEF ConfirmIncidents, Safe, Sound, DialogOK, Askable, World, Transitions
  <2>2. Become({Write(World, kind, rows, "submit", then)})
      BY <1>5 DEF ConfirmIncidents
  <2>3. kind \notin {"read", "create"} /\ then # "reread"
      BY <2>1 DEF Transitions
  <2>4. "submit" \notin World.ui.busy
      BY <1>5 DEF ConfirmIncidents, World
  <2> HIDE DEF kind, then, rows
  <2>5. Fits(kind, rows, "submit", then, None)
      BY <1>0, <2>3 DEF Fits, Flags, IsWrite, CallOK, MayHold, ReadPages, ChannelPages, QueryPages
  <2>6. Safe(Write(World, kind, rows, "submit", then), "none")
      BY <1>0, <2>4, <2>5, WorldSafe, FlagWrite
  <2> QED BY <2>2, <2>6, Becoming
<1>6. ASSUME NEW rows, SelectIncidents(rows)
      PROVE  ViewsInv'
  <2>1. Safe([World EXCEPT !.ui.sel = rows], "none")
      BY <1>0, WorldSafe, SetSelection DEF Selectable
  <2> QED BY <1>6, <2>1, Becoming DEF SelectIncidents
<1>7. ASSUME NEW rows, NEW kind \in Transitions, AskForIncidents(kind, rows)
      PROVE  ViewsInv'
  <2>1. Askable([kind |-> kind, row |-> rows], World.ui.busy)
      BY <1>0 DEF Askable, Transitions
  <2>2. Safe(Open(World, kind, rows), "none")
      BY <2>1, WorldSafe, SetDialog DEF Open
  <2> QED BY <1>7, <2>2, Becoming DEF AskForIncidents
<1> QED BY <1>1, <1>2, <1>3, <1>4, <1>5, <1>6, <1>7 DEF IncidentListNext, Transitions

\* What follows the calls of IncidentList.
LEMMA IncidentListAnswers ==
    ASSUME ViewsInv, page = "IncidentList", NEW w, NEW k, NEW c, Results(w, k, c), InTurn(c)
    PROVE  Safe(IncidentListAnswer(k, w), "none")
<1>1. k.kind = c.kind /\ k.flag = c.flag /\ k.then = c.then /\ c.then # "reread"
      /\ (c.kind = "create" => c.flag = "none")
  <2>1. Reply(w, k, c)
      BY ReplyShape
  <2> QED BY <2>1 DEF Reply, CallOK, MayHold, ChannelPages
<1>2. CASE c.kind = "read"
  <2>1. Safe(Idle(Answered(k, w), c.flag), "none")
      BY <1>1, <1>2, SimpleRead DEF Reading, LatestPages
  <2>2. Safe(CloseKind(Idle(Answered(k, w), k.flag), k.then), "none")
      BY <1>1, <2>1, Closing
  <2> QED BY <1>1, <1>2, <2>2 DEF IncidentListAnswer
<1>3. CASE c.kind # "read"
  <2>1. Safe(w, c.flag)
      BY <1>3, Passing DEF Marks, ChannelPages
  <2>2. CASE c.kind = "create"
    <3>1. Safe(Leave(w), "none")
        BY <2>1, LeavingPage
    <3> QED BY <1>1, <2>1, <2>2, <3>1 DEF IncidentListAnswer
  <2>3. CASE c.kind # "create"
    <3> DEFINE m == [w EXCEPT !.ui.sel = {}]
               turned == [m EXCEPT !.ui.view = FirstView]
    <3>1. Safe(m, k.flag)
        BY <1>1, <2>1, Unselected
    <3> HIDE DEF m
    <3>2. Safe(Await(m, "list", k.of, k.flag, k.then), "none")
        BY <1>1, <3>1, IncidentLoads
    <3>3. Safe(turned, k.flag)
        BY <3>1, SetFields
    <3> HIDE DEF turned
    <3>4. Safe(CloseKind(Idle(turned, k.flag), "delete"), "none")
        BY <3>3, Idling, Closing
    <3>5. Safe(LoadIncidents(CloseKind(Idle(turned, k.flag), "delete"), FirstView), "none")
        BY <3>4, IncidentLoads
    <3>6. Safe(RefreshIncidents(k, m), "none")
        BY <3>2, <3>5 DEF RefreshIncidents, turned
    <3> QED BY <1>1, <1>3, <2>3, <3>6 DEF IncidentListAnswer, m
  <2> QED BY <2>2, <2>3
<1> QED BY <1>2, <1>3

----------------------------------------------------------------------------
(* IncidentDetail.                                                          *)
\* What IncidentDetail loads.
LEMMA DetailLoads ==
    ASSUME NEW w, NEW f, Safe(w, f), page = "IncidentDetail"
    PROVE  /\ Safe(LoadDetail(w), f) /\ Safe(LoadTimeline(w), f)
           /\ f \in {"none", "act"} =>
                  /\ \A then : then \notin {"reread", "single"} => Safe(Await(w, "list", FirstView, f, then), "none")
                  /\ Safe(Await(w, "side", Subject, f, "none"), "none")
<1>1. "list" \in Panels /\ "side" \in Panels /\ Free
    BY DEF Panels, Free, OnePages, QueryPages
<1>2. f \in {"none", "act"} => \A p, then : f = "none" \/ MayHold("read", p, f, then)
    BY DEF MayHold
<1>3. Safe(LoadDetail(w), f) /\ Safe(LoadTimeline(w), f)
    BY <1>1, LoadingFree DEF LoadDetail, LoadTimeline
<1>4. ASSUME f \in {"none", "act"}, NEW then, then \notin {"reread", "single"}, NEW p \in Panels, NEW of
      PROVE  Safe(Await(w, p, of, f, then), "none")
    BY <1>1, <1>2, <1>4, LoadingFree
<1> QED BY <1>1, <1>3, <1>4

\* The timeline's spinner is cleared with the incident.
LEMMA Resting ==
    ASSUME NEW w, NEW f, Safe(w, f)
    PROVE  Safe([w EXCEPT !.ui.side.loading = FALSE], f)
<1> DEFINE n == [w EXCEPT !.ui.side.loading = FALSE]
<1>1. IsWorld(w) /\ IsPanel(w.ui.side)
    BY DEF Safe, IsWorld, IsUi
<1>2. n.calls = w.calls /\ Alike(w, n, {"side"})
    BY <1>1 DEF IsWorld, IsUi, Alike, WorldFields, UiFields
<1>3. /\ n.ui.side = [x \in PanelFields |-> n.ui.side[x]]
      /\ n.ui.side.of = w.ui.side.of /\ n.ui.side.latest = w.ui.side.latest
      /\ n.ui.side.shown = w.ui.side.shown /\ n.ui.side.failed = w.ui.side.failed
      /\ n.ui.side.loading = FALSE
    BY <1>1 DEF IsWorld, IsUi, IsPanel, WorldFields, UiFields, PanelFields
<1> HIDE DEF n
<1>4. IsPanel(n.ui.side)
    BY <1>1, <1>3 DEF IsPanel
<1>5. Redrawn(w, "side", n.ui.side)
    BY <1>3, <1>4 DEF Redrawn, Safe, Sound, Asked, Settled, Panels
<1>6. AsidesOK(n.ui)
  <2>1. n.ui.list = w.ui.list /\ n.ui.sel = w.ui.sel /\ n.ui.dialog = w.ui.dialog /\ n.ui.busy = w.ui.busy
        /\ n.ui.held = w.ui.held
      BY <1>2 DEF Alike, UiFields
  <2> QED BY <2>1 DEF AsidesOK, Safe, Sound, Selected, DialogOK, HeldOK
<1>7. Alike(w, n, Asides \cup {"side"})
    BY <1>2 DEF Alike
<1>8. Safe(n, f)
    BY <1>2, <1>5, <1>6, <1>7, Redrawing DEF Panels
<1> QED BY <1>8 DEF n

\* What the user and the timers do on IncidentDetail.
LEMMA IncidentDetailKept ==
    ASSUME ViewsInv, IncidentDetailNext
    PROVE  ViewsInv'
<1>0. page = "IncidentDetail"
    BY DEF IncidentDetailNext, RefreshDetail, CloseDetailDialog, ConfirmDetailDialog,
           TransitionIncident, OpenDetailDialog, OnIncidentDetail
<1>1. CASE RefreshDetail
  <2>1. Safe(LoadTimeline(LoadDetail(World)), "none")
      BY <1>0, WorldSafe, DetailLoads
  <2> QED BY <1>1, <2>1, Becoming DEF RefreshDetail
<1>2. CASE CloseDetailDialog
    BY <1>2, WorldSafe, Closing, Becoming DEF CloseDetailDialog
<1>3. ASSUME NEW kind, kind # "read", "act" \notin ui.busy
      PROVE  Safe(Write(World, kind, {Subject}, "act", "none"), "none")
  <2>1. Fits(kind, {Subject}, "act", "none", None)
      BY <1>0, <1>3 DEF Fits, Flags, IsWrite, CallOK, MayHold, ReadPages, ChannelPages, QueryPages
  <2>2. "act" \notin World.ui.busy
      BY <1>3 DEF World
  <2> QED BY <1>0, <2>1, <2>2, WorldSafe, FlagWrite
<1>4. CASE ConfirmDetailDialog
  <2>1. ui.dialog.kind # "read" /\ "act" \notin ui.busy
      BY <1>0, <1>4, WorldSafe DEF ConfirmDetailDialog, Safe, Sound, DialogOK, Askable, World
  <2>2. Safe(Write(World, ui.dialog.kind, {Subject}, "act", "none"), "none")
      BY <1>3, <2>1
  <2> QED BY <1>4, <2>2, Becoming DEF ConfirmDetailDialog
<1>5. ASSUME NEW kind \in {"acknowledge", "investigate", "resolve"}, TransitionIncident(kind)
      PROVE  ViewsInv'
  <2>1. Safe(Write(World, kind, {Subject}, "act", "none"), "none")
      BY <1>3, <1>5 DEF TransitionIncident
  <2> QED BY <1>5, <2>1, Becoming DEF TransitionIncident
<1>6. ASSUME NEW kind \in {"update", "archive"}, OpenDetailDialog(kind)
      PROVE  ViewsInv'
  <2>1. Askable([kind |-> kind, row |-> Subject], World.ui.busy)
      BY <1>0 DEF Askable
  <2>2. Safe(Open(World, kind, Subject), "none")
      BY <2>1, WorldSafe, SetDialog DEF Open
  <2> QED BY <1>6, <2>2, Becoming DEF OpenDetailDialog
<1> QED BY <1>1, <1>2, <1>4, <1>5, <1>6 DEF IncidentDetailNext

\* What follows the calls of IncidentDetail.
LEMMA IncidentDetailAnswers ==
    ASSUME ViewsInv, page = "IncidentDetail", NEW w, NEW k, NEW c, Results(w, k, c), InTurn(c)
    PROVE  Safe(IncidentDetailAnswer(k, w), "none")
<1>1. /\ k.kind = c.kind /\ k.flag = c.flag /\ k.panel = c.panel /\ c.then # "reread"
      /\ c.flag \in {"none", "act"} /\ (c.kind # "read" => c.flag = "act")
  <2>1. Reply(w, k, c)
      BY ReplyShape
  <2> QED BY <2>1 DEF Reply, CallOK, MayHold, ChannelPages
<1>2. CASE c.kind = "read" /\ c.panel = "list"
  <2> DEFINE j == [k EXCEPT !.ok = k.ok /\ k.at.status[Subject] # "gone"]
             next == Answered(j, w)
             effect == IF Known(next) THEN LoadTimeline(next) ELSE [next EXCEPT !.ui.side.loading = FALSE]
  <2>1. Results(w, j, c)
      BY OtherOk
  <2> HIDE DEF j
  <2>2. Safe(next, c.flag)
      BY <1>1, <1>2, <2>1, SimpleRead DEF Reading, LatestPages
  <2> HIDE DEF next
  <2>3. Safe(LoadTimeline(next), c.flag) /\ Safe([next EXCEPT !.ui.side.loading = FALSE], c.flag)
      BY <2>2, DetailLoads, Resting
  <2>4. Safe(effect, c.flag)
      BY <2>3
  <2>5. DetailAnswered(k, w) = IF k.then = "transition" THEN Await(effect, "side", Subject, k.flag, "none")
                               ELSE Idle(effect, k.flag)
      BY DEF DetailAnswered, next, j
  <2> HIDE DEF effect
  <2>6. Safe(Await(effect, "side", Subject, k.flag, "none"), "none") /\ Safe(Idle(effect, k.flag), "none")
      BY <1>1, <2>4, DetailLoads, Idling
  <2> QED BY <1>1, <1>2, <2>5, <2>6 DEF IncidentDetailAnswer
<1>3. CASE c.kind = "read" /\ c.panel # "list"
  <2>1. Safe(Idle(Answered(k, w), c.flag), "none")
      BY <1>1, <1>3, SimpleRead DEF Reading, LatestPages
  <2> QED BY <1>1, <1>3, <2>1 DEF IncidentDetailAnswer
<1>4. CASE c.kind # "read"
  <2>1. Safe(w, "act")
      BY <1>1, <1>4, Passing DEF Marks, ChannelPages
  <2>2. Safe(Idle(w, "act"), "none")
      BY <2>1, Idling
  <2>3. Safe(Close(w), "act")
      BY <2>1, Closing
  <2>4. /\ Safe(Await(Close(w), "list", FirstView, "act", "none"), "none")
        /\ Safe(Await(Close(w), "list", FirstView, "act", "transition"), "none")
        /\ Safe(Await(w, "list", FirstView, "act", "transition"), "none")
      BY <2>1, <2>3, DetailLoads
  <2>5. Safe(DetailChanged(k, w), "none")
      BY <2>2, <2>4 DEF DetailChanged
  <2> QED BY <1>1, <1>4, <2>5 DEF IncidentDetailAnswer
<1> QED BY <1>2, <1>3, <1>4

----------------------------------------------------------------------------
(* SearchHistory and SavedQueries.                                          *)
SearchPageNames == {"SearchHistory", "SavedQueries"}

\* What their loads do, with a button that the handler keeps.
LEMMA SearchLoads ==
    ASSUME NEW w, NEW f, Safe(w, f), page \in SearchPageNames, NEW v
    PROVE  Safe(LoadHistory(w, v), f) /\ Safe(LoadSavedQueries(w, v), f)
<1>1. Safe(QueryGet(w, v, "none"), f)
    BY Querying DEF SearchPageNames, QueryPages
<1> QED BY <1>1 DEF LoadHistory, LoadSavedQueries, FetchQueryHistory, FetchSavedQueries

\* Another page of queries is shown.
LEMMA GoingTo ==
    ASSUME NEW w, NEW f, Safe(w, f), page \in SearchPageNames, NEW v
    PROVE  Safe(GoTo(w, v), f)
<1>1. Safe([w EXCEPT !.ui.view = v], f)
    BY SetFields
<1>2. Safe(QueryGet([w EXCEPT !.ui.view = v], v, "none"), f)
    BY <1>1, Querying DEF SearchPageNames, QueryPages
<1> QED BY <1>2 DEF GoTo

\* The user turns to another page of queries.
LEMMA Turning ==
    ASSUME NEW w, NEW f, Safe(w, f), page \in SearchPageNames, NEW v
    PROVE  Safe(Turn(w, v), f)
<1> DEFINE n == Turn(w, v)
<1>1. n.calls = w.calls /\ n.ui.sel = {} /\ Alike(w, n, {"view", "sel", "held"})
    BY DEF Turn, Safe, IsWorld, IsUi, Alike, WorldFields, UiFields
<1> HIDE DEF n
<1>2. Alike(w, n, Asides) BY <1>1 DEF Alike, Asides
<1>3. AsidesOK(n.ui)
    BY <1>1 DEF Alike, UiFields, AsidesOK, Safe, Sound, Selected, Selectable, DialogOK, HeldOK, Holdable, SearchPageNames
<1>4. Safe(n, f) BY <1>1, <1>2, <1>3, AsideKept
<1> QED BY <1>4 DEF n

\* The retry of a query holds its button until the answer.
LEMMA RetryingQuery ==
    ASSUME NEW w, Safe(w, "none"), page \in SearchPageNames, "retry" \notin w.ui.busy, NEW v
    PROVE  Safe(QueryGet([w EXCEPT !.ui.busy = @ \cup {"retry"}], v, "retry"), "none")
<1>1. Safe([w EXCEPT !.ui.busy = @ \cup {"retry"}], "retry")
    BY Retrying DEF SearchPageNames
<1>2. MayHold("read", "list", "retry", "none")
    BY DEF MayHold, SearchPageNames
<1> QED BY <1>1, <1>2, Querying DEF SearchPageNames, QueryPages

\* The page that was turned to is given up: the panel keeps what it shows.
GivenUp(w) ==
    [w EXCEPT !.ui.held = None, !.ui.list.loading = FALSE,
              !.ui.list.of = IF w.ui.list.shown = None THEN None ELSE w.ui.list.shown.of]

\* A query that is given up shows nothing.
LEMMA GivingUp ==
    ASSUME ViewsInv, NEW w, NEW k, NEW c, Results(w, k, c), InTurn(c), Reading(c),
           page \in SearchPageNames, c.id = w.ui.list.latest, c.panel = "list"
    PROVE  Safe(GivenUp(w), c.flag)
<1> DEFINE n == GivenUp(w)
<1>1. Reply(w, k, c)
    BY ReplyShape
<1>2. n.calls = w.calls /\ Alike(w, n, {"list", "held"})
    BY <1>1 DEF GivenUp, Reply, Alike, WorldFields, UiFields
<1>3. /\ n.ui.list = [x \in PanelFields |-> n.ui.list[x]]
      /\ n.ui.list.of = IF w.ui.list.shown = None THEN None ELSE w.ui.list.shown.of
      /\ n.ui.list.latest = w.ui.list.latest /\ n.ui.list.failed = w.ui.list.failed
      /\ n.ui.list.shown = w.ui.list.shown /\ n.ui.list.loading = FALSE
    BY <1>1 DEF GivenUp, Reply, IsPanel, WorldFields, UiFields, PanelFields
<1> HIDE DEF n
<1>4. IsPanel(n.ui.list) /\ Settled(n.ui.list)
    BY <1>1, <1>3 DEF Reply, IsPanel, Settled
<1>5. \A o \in {FirstView, "repositories"} : ~Fixed("list", o)
    BY DEF Fixed, SearchPageNames, OnePages
<1>6. Drawn(w, n.ui.list, k, c)
    BY <1>3, <1>4, <1>5 DEF Drawn, SearchPageNames, OnePages
<1>7. AsidesOK(n.ui)
  <2>1. n.ui.dialog = w.ui.dialog /\ n.ui.busy = w.ui.busy /\ AsidesOK(w.ui) /\ n.ui.sel = w.ui.sel
      BY <1>2 DEF Results, Alike, UiFields
  <2> QED BY <2>1 DEF AsidesOK, Selected, Selectable, DialogOK, HeldOK, Holdable, SearchPageNames
<1>8. Alike(w, n, Asides \cup {"list"})
    BY <1>2 DEF Alike, Asides
<1>9. Loads(c, "list")
    BY DEF Loads, Reading
<1>10. Safe(n, c.flag)
    BY <1>2, <1>6, <1>7, <1>8, <1>9, Drawing DEF Panels
<1> QED BY <1>10 DEF n

\* The answer of a query, and of a page that has become empty.
LEMMA PagedAnswers ==
    ASSUME ViewsInv, NEW w, NEW k, NEW c, Results(w, k, c), InTurn(c), c.kind = "read",
           page \in SearchPageNames
    PROVE  Safe(PagedAnswer(k, w), "none")
<1>1. Reply(w, k, c)
    BY ReplyShape
<1>2. /\ k.id = c.id /\ k.flag = c.flag /\ k.panel = "list" /\ c.panel = "list" /\ Reading(c)
      /\ page \in LatestPages /\ page \notin {"AlertList", "DeadLetters"}
    BY <1>1 DEF Reply, CallOK, Reading, SearchPageNames, QueryPages, ChannelPages, LatestPages
<1>3. CASE w.ui.list.latest # k.id
  <2>1. Safe(w, c.flag)
      BY <1>2, <1>3, AnsweredOld
  <2>2. Safe(Idle(w, k.flag), "none")
      BY <1>2, <2>1, Idling
  <2> QED BY <1>3, <2>2 DEF PagedAnswer
<1>4. CASE w.ui.list.latest = k.id
  <2>1. Results([w EXCEPT !.ui.held = None], k, c)
      BY ResultsKept DEF Holdable, SearchPageNames
  <2>2. [w EXCEPT !.ui.held = None].ui[c.panel].latest = c.id
      BY <1>1, <1>2, <1>4 DEF Reply, WorldFields, UiFields
  <2>3. Safe(Answered(k, [w EXCEPT !.ui.held = None]), c.flag)
      BY <1>2, <2>1, <2>2, AnsweredLoad
  <2>4. Safe(AnsweredKeeping(k, w), c.flag)
      BY <1>2, <1>4, AnsweredLoad
  <2>5. Safe(GivenUp(w), c.flag)
      BY <1>2, <1>4, GivingUp
  <2>6. Safe(GoTo(GivenUp(w), w.ui.held.from), c.flag)
      BY <2>5, GoingTo
  <2>7. /\ Safe(Idle(Answered(k, [w EXCEPT !.ui.held = None]), k.flag), "none")
        /\ Safe(Idle(AnsweredKeeping(k, w), k.flag), "none")
        /\ Safe(Idle(GoTo(GivenUp(w), w.ui.held.from), k.flag), "none")
      BY <1>2, <2>3, <2>4, <2>6, Idling
  <2> QED BY <1>4, <2>7 DEF PagedAnswer, GivenUp
<1> QED BY <1>3, <1>4

----------------------------------------------------------------------------
\* The writes of SearchHistory.
LEMMA HistoryWrites ==
    ASSUME page = "SearchHistory", NEW rows, NEW x
    PROVE  /\ \A kind : kind \in {"delete", "bookmark"} => Fits(kind, rows, "none", "none", None)
           /\ Fits("delete", rows, "none", "single", x) /\ Fits("delete", rows, "batch", "batch", x)
BY DEF Fits, Flags, IsWrite, CallOK, MayHold, ReadPages, ChannelPages, QueryPages

\* A row, or a batch of rows, is deleted.
LEMMA DeletingHistory ==
    ASSUME NEW w, Safe(w, "none"), page = "SearchHistory", NEW rows
    PROVE  /\ Safe(DeleteHistory(w, rows, "none", "single"), "none")
           /\ "batch" \notin w.ui.busy => Safe(DeleteHistory(w, rows, "batch", "batch"), "none")
<1>1. Safe(DeleteHistory(w, rows, "none", "single"), "none")
  <2>1. Takes(w, "none", "none") /\ After("none", "none") = "none"
      BY DEF Takes, After
  <2>2. Safe(Annotated(Write(w, "delete", rows, "none", "single"), w.ui.started + 1, Total), "none")
      BY <2>1, HistoryWrites, WritingAnnotated
  <2> QED BY <2>2 DEF DeleteHistory, Annotated
<1>2. ASSUME "batch" \notin w.ui.busy
      PROVE  Safe(DeleteHistory(w, rows, "batch", "batch"), "none")
  <2>1. Takes(w, "batch", "none") /\ After("batch", "none") = "none"
      BY <1>2 DEF Takes, After
  <2>2. Safe(Annotated(Write(w, "delete", rows, "batch", "batch"), w.ui.started + 1, Total), "none")
      BY <2>1, HistoryWrites, WritingAnnotated
  <2> QED BY <2>2 DEF DeleteHistory, Annotated
<1> QED BY <1>1, <1>2

\* The list is loaded again after a deletion.
LEMMA RefreshingHistory ==
    ASSUME NEW w, NEW f, Safe(w, f), page = "SearchHistory", NEW k, NEW affected
    PROVE  Safe(RefreshAfterDelete(k, w, affected), f)
<1>1. Safe([w EXCEPT !.ui.sel = {}], f)
    BY Unselected
<1>2. /\ Safe(GoTo([w EXCEPT !.ui.sel = {}], FirstView), f)
      /\ Safe(LoadHistory([w EXCEPT !.ui.sel = {}], k.of), f)
    BY <1>1, GoingTo, SearchLoads DEF SearchPageNames
<1> QED BY <1>2 DEF RefreshAfterDelete

\* What SearchHistory does when it is opened.
LEMMA SearchHistoryMounted ==
    ASSUME NEW w, Safe(w, "none"), page = "SearchHistory"
    PROVE  Safe(SearchHistoryMount(w), "none")
BY SearchLoads DEF SearchHistoryMount, SearchPageNames

\* What the user and the timers do on SearchHistory.
LEMMA SearchHistoryKept ==
    ASSUME ViewsInv, SearchHistoryNext
    PROVE  ViewsInv'
<1>0. page = "SearchHistory" /\ page \in SearchPageNames
    BY DEF SearchHistoryNext, SearchInHistory, RetryHistory, DeleteSelectedHistory, TurnHistory,
           DeleteHistoryRow, ReplayHistory, BookmarkHistory, SelectHistory, OnSearchHistory, SearchPageNames
<1>1. CASE SearchInHistory
  <2>1. Safe([World EXCEPT !.ui.view = FirstView, !.ui.sel = {}], "none")
      BY WorldSafe, SetView
  <2>2. Safe(LoadHistory([World EXCEPT !.ui.view = FirstView, !.ui.sel = {}], FirstView), "none")
      BY <1>0, <2>1, SearchLoads
  <2> QED BY <1>1, <2>2, Becoming DEF SearchInHistory
<1>2. CASE RetryHistory
  <2>1. "retry" \notin World.ui.busy
      BY <1>2 DEF RetryHistory, World
  <2>2. Safe(QueryGet([World EXCEPT !.ui.busy = @ \cup {"retry"}], ui.view, "retry"), "none")
      BY <1>0, <2>1, WorldSafe, RetryingQuery
  <2> QED BY <1>2, <2>2, Becoming DEF RetryHistory, FetchQueryHistory
<1>3. CASE DeleteSelectedHistory
  <2>1. "batch" \notin World.ui.busy
      BY <1>3 DEF DeleteSelectedHistory, World
  <2>2. Safe(DeleteHistory(World, ui.sel, "batch", "batch"), "none")
      BY <1>0, <2>1, WorldSafe, DeletingHistory
  <2> QED BY <1>3, <2>2, Becoming DEF DeleteSelectedHistory
<1>4. ASSUME NEW v, TurnHistory(v)
      PROVE  ViewsInv'
  <2>1. Safe(Turn(World, v), "none")
      BY <1>0, WorldSafe, Turning
  <2>2. Safe(LoadHistory(Turn(World, v), v), "none")
      BY <1>0, <2>1, SearchLoads
  <2> QED BY <1>4, <2>2, Becoming DEF TurnHistory
<1>5. ASSUME NEW r, DeleteHistoryRow(r)
      PROVE  ViewsInv'
  <2>1. Safe(DeleteHistory(World, {r}, "none", "single"), "none")
      BY <1>0, WorldSafe, DeletingHistory
  <2> QED BY <1>5, <2>1, Becoming DEF DeleteHistoryRow
<1>6. ASSUME NEW r, ReplayHistory(r)
      PROVE  ViewsInv'
  <2>1. Safe(Leave(World), "none")
      BY <1>0, WorldSafe, LeavingPage
  <2> QED BY <1>6, <2>1, Becoming DEF ReplayHistory
<1>7. ASSUME NEW r, BookmarkHistory(r)
      PROVE  ViewsInv'
  <2>1. Fits("bookmark", {r}, "none", "none", None)
      BY <1>0, HistoryWrites
  <2>2. Safe(Write(World, "bookmark", {r}, "none", "none"), "none")
      BY <2>1, WorldSafe, PlainWrite
  <2> QED BY <1>7, <2>2, Becoming DEF BookmarkHistory
<1>8. ASSUME NEW rows, SelectHistory(rows)
      PROVE  ViewsInv'
  <2>1. Safe([World EXCEPT !.ui.sel = rows], "none")
      BY <1>0, WorldSafe, SetSelection DEF Selectable
  <2> QED BY <1>8, <2>1, Becoming DEF SelectHistory
<1> QED BY <1>1, <1>2, <1>3, <1>4, <1>5, <1>6, <1>7, <1>8 DEF SearchHistoryNext

\* What follows the calls of SearchHistory.
LEMMA SearchHistoryAnswers ==
    ASSUME ViewsInv, page = "SearchHistory", NEW w, NEW k, NEW c, Results(w, k, c), InTurn(c)
    PROVE  Safe(SearchHistoryAnswer(k, w), "none")
<1>0. page \in SearchPageNames
    BY DEF SearchPageNames
<1>1. /\ k.kind = c.kind /\ k.flag = c.flag /\ k.then = c.then
      /\ c.kind # "read" /\ ~(c.kind = "delete" /\ c.then = "batch") => c.flag = "none"
  <2>1. Reply(w, k, c)
      BY ReplyShape
  <2> QED BY <2>1 DEF Reply, CallOK, MayHold
<1>2. CASE c.kind = "read"
  <2>1. Safe(PagedAnswer(k, w), "none")
      BY <1>0, <1>2, PagedAnswers
  <2> QED BY <1>1, <1>2, <2>1 DEF SearchHistoryAnswer
<1>3. CASE c.kind # "read"
  <2>1. Safe(w, k.flag)
      BY <1>1, <1>3, Passing DEF Marks, ChannelPages
  <2>2. Safe(RefreshAfterDelete(k, w, k.done \cup k.missing), k.flag)
      BY <2>1, RefreshingHistory
  <2>3. Safe(Idle(RefreshAfterDelete(k, w, k.done \cup k.missing), k.flag), "none")
      BY <2>2, Idling
  <2>4. c.kind = "delete" => Safe(HistoryDeleted(k, w), "none")
      BY <1>1, <1>3, <2>1, <2>2, <2>3 DEF HistoryDeleted
  <2> QED BY <1>1, <1>3, <2>1, <2>4 DEF SearchHistoryAnswer
<1> QED BY <1>2, <1>3

----------------------------------------------------------------------------
\* The writes of SavedQueries.
LEMMA SavedWrites ==
    ASSUME page = "SavedQueries", NEW rows
    PROVE  /\ \A kind, then : kind \in {"create", "update", "delete"} /\ then \in {"none", "lastOfPage"} =>
                  Fits(kind, rows, "none", then, None)
           /\ Fits("update", rows, "cleanup", "cleanup", None)
BY DEF Fits, Flags, IsWrite, CallOK, MayHold, ReadPages, ChannelPages, QueryPages

\* What SavedQueries does when it is opened.
LEMMA SavedQueriesMounted ==
    ASSUME NEW w, Safe(w, "none"), page = "SavedQueries"
    PROVE  Safe(SavedQueriesMount(w), "none")
BY SearchLoads DEF SavedQueriesMount, SearchPageNames

\* What the user and the timers do on SavedQueries.
LEMMA SavedQueriesKept ==
    ASSUME ViewsInv, SavedQueriesNext
    PROVE  ViewsInv'
<1>0. page = "SavedQueries" /\ page \in SearchPageNames
    BY DEF SavedQueriesNext, SearchInSaved, RetrySaved, OpenCleanup, CloseSaved, SaveQuery,
           ConfirmCleanup, TurnSaved, OpenSaved, DeleteSaved, ExecuteSaved, OnSavedQueries, SearchPageNames
<1>1. CASE SearchInSaved
  <2>1. Safe([World EXCEPT !.ui.view = FirstView], "none")
      BY WorldSafe, SetFields
  <2>2. Safe(LoadSavedQueries([World EXCEPT !.ui.view = FirstView], FirstView), "none")
      BY <1>0, <2>1, SearchLoads
  <2> QED BY <1>1, <2>2, Becoming DEF SearchInSaved
<1>2. CASE RetrySaved
  <2>1. "retry" \notin World.ui.busy
      BY <1>2 DEF RetrySaved, World
  <2>2. Safe(QueryGet([World EXCEPT !.ui.busy = @ \cup {"retry"}], ui.view, "retry"), "none")
      BY <1>0, <2>1, WorldSafe, RetryingQuery
  <2> QED BY <1>2, <2>2, Becoming DEF RetrySaved, FetchSavedQueries
<1>3. CASE OpenCleanup
  <2>1. PICK dirty : Become({Open(World, "cleanup", dirty)})
      BY <1>3 DEF OpenCleanup
  <2>2. Askable([kind |-> "cleanup", row |-> dirty], World.ui.busy)
      BY <1>0, <1>3 DEF Askable, OpenCleanup, World
  <2>3. Safe(Open(World, "cleanup", dirty), "none")
      BY <2>2, WorldSafe, SetDialog DEF Open
  <2> QED BY <2>1, <2>3, Becoming
<1>4. CASE CloseSaved
    BY <1>4, WorldSafe, Closing, Becoming DEF CloseSaved
<1>5. CASE SaveQuery
  <2>1. Takes(World, "none", "none") /\ After("none", "none") = "none"
      BY DEF Takes, After
  <2>2. Fits("create", {}, "none", "none", None) /\ \A r : Fits("update", {r}, "none", "none", None)
      BY <1>0, SavedWrites
  <2>3. Safe(Submit(World, "none"), "none")
      BY <1>0, <2>1, <2>2, WorldSafe, Submitting
  <2> QED BY <1>5, <2>3, Becoming DEF SaveQuery
<1>6. CASE ConfirmCleanup
  <2> DEFINE w == Close(World)
  <2>1. Safe(w, "none")
      BY WorldSafe, Closing
  <2>2. World.ui.dialog # None /\ World.ui.dialog.kind = "cleanup"
      BY <1>6 DEF ConfirmCleanup, Dialog, World
  <2>3. "cleanup" \notin World.ui.busy
      BY <1>0, <2>2, WorldSafe DEF Safe, Sound, DialogOK, Askable
  <2>4. w.ui.dialog = None /\ "cleanup" \notin w.ui.busy
      BY <2>3, WorldSafe DEF Close, Safe, IsWorld, IsUi, WorldFields, UiFields
  <2> HIDE DEF w
  <2>5. Takes(w, "cleanup", "none") /\ After("cleanup", "none") = "none"
      BY <2>4 DEF Takes, After
  <2>6. Fits("update", ui.dialog.row, "cleanup", "cleanup", None)
      BY <1>0, SavedWrites
  <2>7. Safe(Write(w, "update", ui.dialog.row, "cleanup", "cleanup"), "none")
      BY <1>0, <2>1, <2>4, <2>5, <2>6, Writing
  <2> QED BY <1>6, <2>7, Becoming DEF ConfirmCleanup, w
<1>7. ASSUME NEW v, TurnSaved(v)
      PROVE  ViewsInv'
  <2>1. Safe(Turn(World, v), "none")
      BY <1>0, WorldSafe, Turning
  <2>2. Safe(LoadSavedQueries(Turn(World, v), v), "none")
      BY <1>0, <2>1, SearchLoads
  <2> QED BY <1>7, <2>2, Becoming DEF TurnSaved
<1>8. ASSUME NEW r, NEW kind \in {"create", "edit"}, OpenSaved(kind, r)
      PROVE  ViewsInv'
  <2>1. Askable([kind |-> kind, row |-> r], World.ui.busy)
      BY <1>0 DEF Askable
  <2>2. Safe(Open(World, kind, r), "none")
      BY <2>1, WorldSafe, SetDialog DEF Open
  <2> QED BY <1>8, <2>2, Becoming DEF OpenSaved
<1>9. ASSUME NEW r, DeleteSaved(r)
      PROVE  ViewsInv'
  <2>1. PICK then \in {"lastOfPage", "none"} : Become({Write(World, "delete", {r}, "none", then)})
      BY <1>9 DEF DeleteSaved
  <2>2. Fits("delete", {r}, "none", then, None)
      BY <1>0, SavedWrites
  <2>3. Safe(Write(World, "delete", {r}, "none", then), "none")
      BY <2>2, WorldSafe, PlainWrite
  <2> QED BY <2>1, <2>3, Becoming
<1>10. ASSUME NEW r, ExecuteSaved(r)
      PROVE  ViewsInv'
  <2>1. Safe(Leave(World), "none")
      BY <1>0, WorldSafe, LeavingPage
  <2> QED BY <1>10, <2>1, Becoming DEF ExecuteSaved
<1> QED BY <1>1, <1>2, <1>3, <1>4, <1>5, <1>6, <1>7, <1>8, <1>9, <1>10 DEF SavedQueriesNext

\* What follows the calls of SavedQueries.
LEMMA SavedQueriesAnswers ==
    ASSUME ViewsInv, page = "SavedQueries", NEW w, NEW k, NEW c, Results(w, k, c), InTurn(c)
    PROVE  Safe(SavedQueriesAnswer(k, w), "none")
<1>0. page \in SearchPageNames
    BY DEF SearchPageNames
<1>1. /\ k.kind = c.kind /\ k.flag = c.flag /\ k.then = c.then
      /\ c.kind # "read" /\ ~(c.kind = "update" /\ c.then = "cleanup") => c.flag = "none"
  <2>1. Reply(w, k, c)
      BY ReplyShape
  <2> QED BY <2>1 DEF Reply, CallOK, MayHold
<1>2. CASE c.kind = "read"
  <2>1. Safe(PagedAnswer(k, w), "none")
      BY <1>0, <1>2, PagedAnswers
  <2> QED BY <1>1, <1>2, <2>1 DEF SavedQueriesAnswer
<1>3. CASE c.kind # "read"
  <2>1. Safe(w, k.flag)
      BY <1>1, <1>3, Passing DEF Marks, ChannelPages
  <2>2. Safe(CloseForm(w), k.flag)
      BY <2>1, Closing
  <2>3. /\ Safe(GoTo(w, FirstView), k.flag) /\ Safe(LoadSavedQueries(w, k.of), k.flag)
        /\ Safe(GoTo(CloseForm(w), FirstView), k.flag) /\ Safe(LoadSavedQueries(CloseForm(w), k.of), k.flag)
      BY <1>0, <2>1, <2>2, GoingTo, SearchLoads
  <2>4. Safe(QuerySaved(k, w), k.flag) /\ Safe(SavedDeleted(k, w), k.flag)
      BY <2>1, <2>3 DEF QuerySaved, SavedDeleted
  <2>5. Safe(Idle(w, k.flag), "none") /\ Safe(Idle(LoadSavedQueries(w, k.of), k.flag), "none")
      BY <2>1, <2>3, Idling
  <2>6. Safe(QueriesCleaned(k, w), "none")
      BY <2>5 DEF QueriesCleaned
  <2> QED BY <1>1, <1>3, <2>4, <2>6 DEF SavedQueriesAnswer
<1> QED BY <1>2, <1>3

----------------------------------------------------------------------------
(* ReportManagement.                                                        *)
\* What ReportManagement loads.
LEMMA ReportsLoads ==
    ASSUME NEW w, NEW f, Safe(w, f), page = "ReportManagement", f \in {"none", "save"}
    PROVE  Safe(LoadReports(w, f), "none")
<1>1. f = "none" \/ MayHold("read", "list", f, "none")
    BY DEF MayHold
<1>2. Safe(QueryGet(w, FirstView, f), "none")
    BY <1>1, Querying DEF QueryPages
<1> QED BY <1>2 DEF LoadReports, FetchSavedQueries

\* What ReportManagement does when it is opened.
LEMMA ReportManagementMounted ==
    ASSUME NEW w, Safe(w, "none"), page = "ReportManagement"
    PROVE  Safe(LoadReports(w, "none"), "none")
BY ReportsLoads

\* The writes of ReportManagement.
LEMMA ReportWrites ==
    ASSUME page = "ReportManagement", NEW rows
    PROVE  /\ Fits("create", rows, "save", "none", None) /\ Fits("update", rows, "save", "none", None)
           /\ Fits("delete", rows, "none", "none", None) /\ Fits("generate", rows, "none", "none", None)
BY DEF Fits, Flags, IsWrite, CallOK, MayHold, ReadPages, ChannelPages, QueryPages

\* What the user and the timers do on ReportManagement.
LEMMA ReportManagementKept ==
    ASSUME ViewsInv, ReportManagementNext
    PROVE  ViewsInv'
<1>0. page = "ReportManagement"
    BY DEF ReportManagementNext, ReloadReports, CloseReport, SaveReport, DeleteReport, OpenReport,
           GenerateReport, OnReports
<1>1. CASE ReloadReports
  <2>1. Safe(LoadReports(World, "none"), "none")
      BY <1>0, WorldSafe, ReportsLoads
  <2> QED BY <1>1, <2>1, Becoming DEF ReloadReports
<1>2. CASE CloseReport
    BY <1>2, WorldSafe, Closing, Becoming DEF CloseReport
<1>3. CASE SaveReport
  <2>1. "save" \notin World.ui.busy
      BY <1>3 DEF SaveReport, World
  <2>2. Fits("create", {}, "save", "none", None) /\ \A r : Fits("update", {r}, "save", "none", None)
      BY <1>0, ReportWrites
  <2>3. Safe(Submit(World, "save"), "none")
      BY <1>0, <2>1, <2>2, WorldSafe, FormWrite
  <2> QED BY <1>3, <2>3, Becoming DEF SaveReport
<1>4. CASE DeleteReport
  <2>1. Fits("delete", {ui.dialog.row}, "none", "none", None)
      BY <1>0, ReportWrites
  <2>2. Safe(Write(World, "delete", {ui.dialog.row}, "none", "none"), "none")
      BY <2>1, WorldSafe, PlainWrite
  <2> QED BY <1>4, <2>2, Becoming DEF DeleteReport
<1>5. ASSUME NEW r, NEW kind, OpenReport(kind, r)
      PROVE  ViewsInv'
  <2>1. Safe(Open(World, kind, r), "none")
      BY <1>0, WorldSafe, Opening DEF FormPages
  <2> QED BY <1>5, <2>1, Becoming DEF OpenReport
<1>6. ASSUME NEW r \in Row, GenerateReport(r)
      PROVE  ViewsInv'
  <2>1. Marks("generate") /\ Fits("generate", {r}, "none", "none", None)
      BY <1>0, ReportWrites DEF Marks
  <2>2. Safe(Mark(Write(World, "generate", {r}, "none", "none"), r), "none")
      BY <1>0, <2>1, WorldSafe, MarkingRow
  <2> QED BY <1>6, <2>2, Becoming DEF GenerateReport
<1> QED BY <1>1, <1>2, <1>3, <1>4, <1>5, <1>6 DEF ReportManagementNext

\* The world of an answer is one, with the number of calls that were made.
LEMMA ResultsWorld ==
    ASSUME ViewsInv, NEW w, NEW k, NEW c, Results(w, k, c)
    PROVE  w = [x \in WorldFields |-> w[x]] /\ w.ui.started \in Nat
<1>1. w.ui.started = World.ui.started /\ World.ui.started \in Nat
    BY DEF Results, Alike, UiFields, Asides, ViewsInv, Safe, IsWorld, IsUi
<1> QED BY <1>1 DEF Results, Alike

\* What follows the calls of ReportManagement.
LEMMA ReportManagementAnswers ==
    ASSUME ViewsInv, page = "ReportManagement", NEW w, NEW k, NEW c, Results(w, k, c), InTurn(c)
    PROVE  Safe(ReportManagementAnswer(k, w), "none")
<1>1. k.kind = c.kind /\ k.flag = c.flag /\ c.flag \in {"none", "save"} /\ c.then # "reread"
  <2>1. Reply(w, k, c)
      BY ReplyShape
  <2> QED BY <2>1 DEF Reply, CallOK, MayHold, ChannelPages
<1>2. CASE c.kind = "read"
  <2>1. Safe(Idle(AnsweredKeeping(k, w), c.flag), "none")
      BY <1>1, <1>2, SimpleRead DEF Reading, LatestPages
  <2> QED BY <1>1, <1>2, <2>1 DEF ReportManagementAnswer
<1>3. CASE c.kind = "generate"
  <2>1. Safe(Unmark(w), "none")
      BY <1>3, PassingMarked DEF Marks
  <2>2. Safe(Leave(w), "none")
    <3>1. w = [x \in WorldFields |-> w[x]] /\ w.ui.started \in Nat
        BY ResultsWorld
    <3> QED BY <3>1, Leaving
  <2> QED BY <1>1, <1>3, <2>1, <2>2 DEF ReportManagementAnswer, ReportGenerated
<1>4. CASE c.kind \notin {"read", "generate"}
  <2>1. Safe(w, k.flag)
      BY <1>1, <1>4, Passing DEF Marks, ChannelPages
  <2>2. Safe(CloseQuestion(w), k.flag) /\ Safe(CloseForm(w), k.flag)
      BY <2>1, Closing
  <2>3. Safe(LoadReports(CloseQuestion(w), k.flag), "none") /\ Safe(LoadReports(CloseForm(w), k.flag), "none")
      BY <1>1, <2>2, ReportsLoads
  <2>4. Safe(Idle(w, k.flag), "none")
      BY <2>1, Idling
  <2>5. Safe(ReportChanged(k, w), "none")
      BY <2>3, <2>4 DEF ReportChanged
  <2> QED BY <1>1, <1>4, <2>5 DEF ReportManagementAnswer
<1> QED BY <1>2, <1>3, <1>4

----------------------------------------------------------------------------
(* UserManagement.                                                          *)

\* A status that a handler writes into what a panel shows.
LEMMA Restating ==
    ASSUME NEW w, NEW f, Safe(w, f), page = "UserManagement", NEW r, NEW x
    PROVE  /\ w.ui.list.shown # None => Safe([w EXCEPT !.ui.list.shown.status[r] = x], f)
           /\ w.ui.side.shown # None => Safe([w EXCEPT !.ui.side.shown.status[r] = x], f)
<1>0. IsWorld(w) /\ IsPanel(w.ui.list) /\ IsPanel(w.ui.side)
    BY DEF Safe, IsWorld, IsUi
<1>1. ASSUME NEW p \in Panels, w.ui[p].shown # None, NEW n, n.calls = w.calls, Alike(w, n, {p}),
             n.ui[p] = [y \in PanelFields |-> n.ui[p][y]],
             \A y \in PanelFields \ {"shown"} : n.ui[p][y] = w.ui[p][y],
             IsSnapshot(n.ui[p].shown), n.ui[p].shown.of = w.ui[p].shown.of
      PROVE  Safe(n, f)
  <2>1. IsPanel(w.ui[p])
      BY <1>0 DEF Panels
  <2>2. IsPanel(n.ui[p]) /\ n.ui[p].latest = w.ui[p].latest /\ n.ui[p].of = w.ui[p].of
        /\ n.ui[p].loading = w.ui[p].loading /\ n.ui[p].failed = w.ui[p].failed
      BY <1>1, <2>1 DEF IsPanel, PanelFields
  <2>3. Ordered => Waits(w.ui, w.calls, p) \/ Settled(n.ui[p])
    <3>1. Ordered => Waits(w.ui, w.calls, p) \/ Settled(w.ui[p])
        BY DEF Safe, Sound, Asked
    <3> QED BY <1>1, <2>2, <3>1 DEF Settled
  <2>4. \A o \in {FirstView, "repositories"} : ~Fixed(p, o)
      BY DEF Fixed, OnePages
  <2>5. Redrawn(w, p, n.ui[p])
      BY <2>2, <2>3, <2>4 DEF Redrawn
  <2>6. n.ui.dialog = w.ui.dialog /\ n.ui.busy = w.ui.busy
      BY <1>1 DEF Alike, UiFields, Panels
  <2>7. AsidesOK(n.ui)
      BY <2>6 DEF AsidesOK, Selected, Selectable, DialogOK, Askable, HeldOK, Holdable
  <2>8. Alike(w, n, Asides \cup {p})
      BY <1>1 DEF Alike
  <2> QED BY <1>1, <2>5, <2>7, <2>8, Redrawing
<1>2. ASSUME w.ui.list.shown # None
      PROVE  Safe([w EXCEPT !.ui.list.shown.status[r] = x], f)
  <2> DEFINE n == [w EXCEPT !.ui.list.shown.status[r] = x]
  <2>1. n.calls = w.calls /\ Alike(w, n, {"list"})
      BY <1>0 DEF IsWorld, IsUi, Alike, WorldFields, UiFields
  <2>2. n.ui.list = [y \in PanelFields |-> n.ui.list[y]] /\ \A y \in PanelFields \ {"shown"} : n.ui.list[y] = w.ui.list[y]
      BY <1>0 DEF IsWorld, IsUi, IsPanel, WorldFields, UiFields, PanelFields
  <2>3. IsSnapshot(w.ui.list.shown)
      BY <1>0, <1>2 DEF IsPanel
  <2>4. n.ui.list.shown = [w.ui.list.shown EXCEPT !.status[r] = x]
      BY <1>0 DEF IsWorld, IsUi, IsPanel, WorldFields, UiFields, PanelFields
  <2>5. IsSnapshot(n.ui.list.shown) /\ n.ui.list.shown.of = w.ui.list.shown.of
      BY <2>3, <2>4 DEF IsSnapshot
  <2> HIDE DEF n
  <2>6. Safe(n, f)
      BY <1>1, <1>2, <2>1, <2>2, <2>5 DEF Panels
  <2> QED BY <2>6 DEF n
<1>3. ASSUME w.ui.side.shown # None
      PROVE  Safe([w EXCEPT !.ui.side.shown.status[r] = x], f)
  <2> DEFINE n == [w EXCEPT !.ui.side.shown.status[r] = x]
  <2>1. n.calls = w.calls /\ Alike(w, n, {"side"})
      BY <1>0 DEF IsWorld, IsUi, Alike, WorldFields, UiFields
  <2>2. n.ui.side = [y \in PanelFields |-> n.ui.side[y]] /\ \A y \in PanelFields \ {"shown"} : n.ui.side[y] = w.ui.side[y]
      BY <1>0 DEF IsWorld, IsUi, IsPanel, WorldFields, UiFields, PanelFields
  <2>3. IsSnapshot(w.ui.side.shown)
      BY <1>0, <1>3 DEF IsPanel
  <2>4. n.ui.side.shown = [w.ui.side.shown EXCEPT !.status[r] = x]
      BY <1>0 DEF IsWorld, IsUi, IsPanel, WorldFields, UiFields, PanelFields
  <2>5. IsSnapshot(n.ui.side.shown) /\ n.ui.side.shown.of = w.ui.side.shown.of
      BY <2>3, <2>4 DEF IsSnapshot
  <2> HIDE DEF n
  <2>6. Safe(n, f)
      BY <1>1, <1>3, <2>1, <2>2, <2>5 DEF Panels
  <2> QED BY <2>6 DEF n
<1> QED BY <1>2, <1>3

\* What UserManagement loads, on behalf of a button or of none.
LEMMA UserLoads ==
    ASSUME NEW w, NEW f, Safe(w, f), page = "UserManagement", NEW v
    PROVE  Safe(LoadUsers(w, v, f), "none") /\ Safe(LoadUsers(w, v, "none"), f)
<1>1. "list" \in Panels /\ Free
    BY DEF Panels, Free, OnePages, QueryPages
<1>2. Safe(Load(w, "list", v), f)
    BY <1>1, LoadingFree
<1>3. MayHold("read", "list", f, "none")
    BY DEF MayHold
<1>4. Safe(Await(w, "list", v, f, "none"), "none")
    BY <1>1, <1>3, LoadingFree
<1> QED BY <1>2, <1>4 DEF LoadUsers, Load

\* The writes of UserManagement.
LEMMA UserWrites ==
    ASSUME page = "UserManagement", NEW kind, kind # "read", NEW rows, NEW flag \in {"act", "batch"}
    PROVE  /\ Fits(kind, rows, flag, "none", None)
           /\ \A plan \in Seq({"update", "grant", "revoke"}) \ {<<>>} : Fits(kind, rows, "act", "none", plan)
BY DEF Fits, Flags, IsWrite, CallOK, MayHold, ReadPages, ChannelPages, QueryPages

\* The first request of an edit.
LEMMA StartingEdit ==
    ASSUME NEW w, NEW f \in {"none", "act"}, Safe(w, f), page = "UserManagement", NEW r,
           NEW plan \in Seq({"update", "grant", "revoke"}) \ {<<>>}
    PROVE  Safe(StartEdit(w, r, plan), "none")
<1>1. Head(plan) # "read"
  <2>1. Head(plan) \in {"update", "grant", "revoke"}
      OBVIOUS
  <2> QED BY <2>1
<1>2. Fits(Head(plan), {r}, "act", "none", plan)
    BY <1>1, UserWrites
<1>3. Takes(w, "act", f) /\ After("act", f) = "none"
    BY DEF Takes, After, Loose
<1> DEFINE next == Write(w, Head(plan), {r}, "act", "none")
<1>4. next.ui.started = w.ui.started + 1
  <2>1. PICK c : Written(w, next, c)
      BY WriteShape
  <2> QED BY <2>1 DEF Written
<1>5. Safe(Annotated(next, w.ui.started + 1, plan), "none")
    BY <1>2, <1>3, WritingAnnotated
<1> QED BY <1>4, <1>5 DEF StartEdit, Annotated

\* What UserManagement does when it is opened.
LEMMA UserManagementMounted ==
    ASSUME NEW w, Safe(w, "none"), page = "UserManagement"
    PROVE  Safe(UserManagementMount(w), "none")
BY UserLoads DEF UserManagementMount

\* The rest of a plan, and the plans of the form, are sequences of requests.
LEMMA RestOfPlan ==
    ASSUME NEW S, NEW s \in Seq(S), Len(s) > 1
    PROVE  Tail(s) \in Seq(S) /\ Tail(s) # <<>>
<1>1. s # <<>>
    OBVIOUS
<1>2. Tail(s) \in Seq(S) /\ Len(Tail(s)) = Len(s) - 1
    BY <1>1
<1>3. Len(s) \in Nat
    OBVIOUS
<1>4. Len(<<>>) = 0
    OBVIOUS
<1>5. Len(Tail(s)) # 0
    BY <1>2, <1>3
<1> QED BY <1>2, <1>4, <1>5

\* The requests of an edit are one at least.
LEMMA ShortPlans ==
    ASSUME NEW S, NEW a \in S, NEW b \in S
    PROVE  <<>> \in Seq(S) /\ <<a>> \in Seq(S) /\ <<a, b>> \in Seq(S)
OBVIOUS

\* What an edit of a user plans to send.
LEMMA PlansOfEdit ==
    EditPlans \subseteq Seq({"update", "grant", "revoke"}) \ {<<>>}
<1> DEFINE S == {"update", "grant", "revoke"}
           profile == IF "profile" \in grants THEN {<<>>, <<"update">>} ELSE {<<>>}
           role == {<<>>}
               \cup (IF Bare(ui.held) /\ "grant" \in grants THEN {<<"grant">>} ELSE {})
               \cup (IF ~Bare(ui.held) /\ "revoke" \in grants THEN {<<"revoke">>} ELSE {})
               \cup (IF ~Bare(ui.held) /\ {"grant", "revoke"} \subseteq grants THEN {<<"revoke", "grant">>} ELSE {})
<1>1. "update" \in S /\ "grant" \in S /\ "revoke" \in S
    OBVIOUS
<1>2. EditPlans = {p \o q : p \in profile, q \in role} \ {<<>>}
    BY DEF EditPlans
<1> HIDE DEF S
<1>3. <<>> \in Seq(S) /\ <<"update">> \in Seq(S) /\ <<"grant">> \in Seq(S) /\ <<"revoke">> \in Seq(S)
      /\ <<"revoke", "grant">> \in Seq(S)
    BY <1>1, ShortPlans
<1>4. profile \subseteq Seq(S) /\ role \subseteq Seq(S)
    BY <1>3, Zenon
<1> HIDE DEF profile, role
<1>5. \A p, q \in Seq(S) : p \o q \in Seq(S)
    OBVIOUS
<1>6. ASSUME NEW plan \in EditPlans
      PROVE  plan \in Seq(S) \ {<<>>}
  <2>1. PICK p \in profile, q \in role : plan = p \o q
      BY <1>2
  <2>2. p \in Seq(S) /\ q \in Seq(S) /\ plan # <<>>
      BY <1>2, <1>4
  <2> QED BY <1>5, <2>1, <2>2
<1> QED BY <1>6 DEF S

\* The drawer shows the user of the list until the answer comes.
LEMMA ShowingDetail ==
    ASSUME NEW w, Safe(w, "none"), page = "UserManagement", NEW r, NEW s, IsSnapshot(s)
    PROVE  Safe([Load(w, "side", r) EXCEPT !.ui.side.shown = [s EXCEPT !.of = r]], "none")
<1> DEFINE m == Load(w, "side", r)
           n == [m EXCEPT !.ui.side.shown = [s EXCEPT !.of = r]]
<1>1. Safe(m, "none")
    BY LoadingFree DEF Free, OnePages, QueryPages, Panels
<1>2. PICK c : AwaitMakes(w, m, c, "side", r, "none", "none")
    BY AwaitShape DEF Load, Panels
<1>3. m.ui.side.of = r
    BY <1>2 DEF AwaitMakes, Asking
<1> HIDE DEF m
<1>4. n.calls = m.calls /\ Alike(m, n, {"side"})
    BY <1>1 DEF Safe, IsWorld, IsUi, Alike, WorldFields, UiFields
<1>5. /\ n.ui.side = [x \in PanelFields |-> n.ui.side[x]] /\ n.ui.side.of = r
      /\ n.ui.side.latest = m.ui.side.latest /\ n.ui.side.loading = m.ui.side.loading
      /\ n.ui.side.shown = [s EXCEPT !.of = r] /\ m.ui.side.latest \in Nat
    BY <1>1, <1>3 DEF Safe, IsWorld, IsUi, IsPanel, WorldFields, UiFields, PanelFields
<1> HIDE DEF n
<1>6. IsSnapshot(n.ui.side.shown) /\ n.ui.side.shown.of = r
    BY <1>5 DEF IsSnapshot
<1>7. Redrawn(m, "side", n.ui.side)
  <2>1. IsPanel(n.ui.side) /\ Settled(n.ui.side)
      BY <1>5, <1>6 DEF IsPanel, Settled
  <2> QED BY <1>3, <1>5, <2>1 DEF Redrawn, Fixed, OnePages
<1>8. n.ui.dialog = m.ui.dialog /\ n.ui.busy = m.ui.busy
    BY <1>4 DEF Alike, UiFields
<1>9. AsidesOK(n.ui)
    BY <1>8 DEF AsidesOK, Selected, Selectable, DialogOK, Askable, HeldOK, Holdable
<1>10. Alike(m, n, Asides \cup {"side"})
    BY <1>4 DEF Alike
<1>11. Safe(n, "none")
    BY <1>1, <1>4, <1>7, <1>9, <1>10, Redrawing DEF Panels
<1> QED BY <1>11 DEF n, m

\* Users are selected.
LEMMA SelectingUsers ==
    ASSUME NEW w, NEW f, Safe(w, f), page = "UserManagement", NEW rows, NEW records
    PROVE  Safe([w EXCEPT !.ui.sel = rows, !.ui.flight = records], f)
<1>1. Safe([w EXCEPT !.ui.sel = rows], f)
    BY SetSelection DEF Selectable
<1>2. Safe([[w EXCEPT !.ui.sel = rows] EXCEPT !.ui.flight = records], f)
    BY <1>1, SetFields
<1>3. [[w EXCEPT !.ui.sel = rows] EXCEPT !.ui.flight = records] = [w EXCEPT !.ui.sel = rows, !.ui.flight = records]
    BY DEF Safe, IsWorld, IsUi, WorldFields, UiFields
<1> QED BY <1>2, <1>3

\* What the user and the timers do on UserManagement.
LEMMA UserManagementKept ==
    ASSUME ViewsInv, UserManagementNext
    PROVE  ViewsInv'
<1>0. page = "UserManagement"
    BY DEF UserManagementNext, RefreshUsers, OpenCreateUser, CreateUser, EditUser, CloseUserDialog,
           ChangeUserView, OpenEditUser, OpenDetail, ToggleUser, SelectUsers, BatchUsers,
           UserTable, OnUserManagement
<1>1. CASE RefreshUsers
  <2>1. Safe([World EXCEPT !.ui.sel = {}], "none")
      BY WorldSafe, Unselected
  <2>2. Safe(LoadUsers([World EXCEPT !.ui.sel = {}], ui.view, "none"), "none")
      BY <1>0, <2>1, UserLoads
  <2> QED BY <1>1, <2>2, Becoming DEF RefreshUsers
<1>2. CASE OpenCreateUser
  <2>1. Safe(Open(World, "create", None), "none")
      BY <1>0, WorldSafe, Opening DEF FormPages
  <2> QED BY <1>2, <2>1, Becoming DEF OpenCreateUser
<1>3. CASE CreateUser
  <2>1. Fits("create", {}, "act", "none", None)
      BY <1>0, UserWrites
  <2>2. Safe(Write(World, "create", {}, "act", "none"), "none")
      BY <1>0, <2>1, WorldSafe, FlagWrite DEF Loose
  <2> QED BY <1>3, <2>2, Becoming DEF CreateUser
<1>4. CASE EditUser
  <2>1. PICK plan \in EditPlans : Become({StartEdit(World, ui.dialog.row, plan)})
      BY <1>4 DEF EditUser
  <2>2. Safe(StartEdit(World, ui.dialog.row, plan), "none")
      BY <1>0, WorldSafe, PlansOfEdit, StartingEdit
  <2> QED BY <2>1, <2>2, Becoming
<1>5. CASE CloseUserDialog
    BY <1>5, WorldSafe, Closing, Becoming DEF CloseUserDialog
<1>6. ASSUME NEW v, ChangeUserView(v)
      PROVE  ViewsInv'
  <2>1. Safe([World EXCEPT !.ui.view = v, !.ui.sel = {}], "none")
      BY WorldSafe, SetView
  <2>2. Safe(LoadUsers([World EXCEPT !.ui.view = v, !.ui.sel = {}], v, "none"), "none")
      BY <1>0, <2>1, UserLoads
  <2> QED BY <1>6, <2>2, Becoming DEF ChangeUserView
<1>7. ASSUME NEW r, OpenEditUser(r)
      PROVE  ViewsInv'
  <2>1. PICK x : Become({[Open(World, "edit", r) EXCEPT !.ui.held = x]})
      BY <1>7 DEF OpenEditUser
  <2>2. Safe(Open(World, "edit", r), "none")
      BY <1>0, WorldSafe, Opening DEF FormPages
  <2>3. Safe([Open(World, "edit", r) EXCEPT !.ui.held = x], "none")
      BY <1>0, <2>2, SetHeld DEF Holdable
  <2> QED BY <2>1, <2>3, Becoming
<1>8. ASSUME NEW r, OpenDetail(r)
      PROVE  ViewsInv'
  <2>1. ui.list.shown # None
      BY <1>8 DEF OpenDetail, Shown, RowsOf
  <2>2. IsSnapshot(ui.list.shown)
      BY <2>1, WorldSafe DEF Safe, IsWorld, IsUi, IsPanel, World
  <2>3. Safe(Open(World, "detail", r), "none")
      BY <1>0, WorldSafe, Opening DEF FormPages
  <2>4. Safe([Load(Open(World, "detail", r), "side", r) EXCEPT !.ui.side.shown = [ui.list.shown EXCEPT !.of = r]], "none")
      BY <1>0, <2>2, <2>3, ShowingDetail
  <2> QED BY <1>8, <2>4, Becoming DEF OpenDetail
<1>9. ASSUME NEW r, ToggleUser(r)
      PROVE  ViewsInv'
  <2>1. PICK kind \in {"enable", "disable"} : Become({Write(World, kind, {r}, "act", "none")})
      BY <1>9 DEF ToggleUser
  <2>2. Fits(kind, {r}, "act", "none", None)
      BY <1>0, UserWrites
  <2>3. Safe(Write(World, kind, {r}, "act", "none"), "none")
      BY <1>0, <2>2, WorldSafe, FlagWrite DEF Loose
  <2> QED BY <2>1, <2>3, Becoming
<1>10. ASSUME NEW rows, SelectUsers(rows)
      PROVE  ViewsInv'
  <2>1. Safe([World EXCEPT !.ui.sel = rows, !.ui.flight = [r \in rows |-> StatusOf(r)]], "none")
      BY <1>0, WorldSafe, SelectingUsers
  <2> QED BY <1>10, <2>1, Becoming DEF SelectUsers
<1>11. ASSUME NEW kind \in {"enable", "disable"}, BatchUsers(kind)
      PROVE  ViewsInv'
  <2>1. PICK rows : Become({Write(World, kind, rows, "batch", "none")})
      BY <1>11 DEF BatchUsers
  <2>2. Fits(kind, rows, "batch", "none", None) /\ "batch" \notin World.ui.busy
      BY <1>0, <1>11, UserWrites DEF BatchUsers, World
  <2>3. Safe(Write(World, kind, rows, "batch", "none"), "none")
      BY <1>0, <2>2, WorldSafe, FlagWrite
  <2> QED BY <2>1, <2>3, Becoming
<1> QED BY <1>1, <1>2, <1>3, <1>4, <1>5, <1>6, <1>7, <1>8, <1>9, <1>10, <1>11 DEF UserManagementNext

\* What follows the calls of UserManagement.
LEMMA UserManagementAnswers ==
    ASSUME ViewsInv, page = "UserManagement", NEW w, NEW k, NEW c, Results(w, k, c), InTurn(c)
    PROVE  Safe(UserManagementAnswer(k, w), "none")
<1>0. Reply(w, k, c)
    BY ReplyShape
<1>1. /\ k.kind = c.kind /\ k.flag = c.flag /\ k.panel = c.panel /\ k.since = c.since /\ c.then # "reread"
      /\ c.kind = "read" /\ c.panel # "list" => c.flag = "none"
      /\ c.kind # "read" => /\ c.flag \in {"act", "batch"}
                            /\ c.since # None => c.flag = "act" /\ c.since \in Seq({"update", "grant", "revoke"}) \ {<<>>}
    BY <1>0 DEF Reply, CallOK, MayHold, ChannelPages
<1>2. CASE c.kind = "read" /\ c.panel = "list"
  <2>1. Safe(Idle(Answered(k, w), c.flag), "none")
      BY <1>1, <1>2, SimpleRead DEF Reading, LatestPages
  <2> QED BY <1>1, <1>2, <2>1 DEF UserManagementAnswer
<1>3. CASE c.kind = "read" /\ c.panel # "list"
  <2> DEFINE r == k.of
             ok == k.ok /\ k.at.status[r] # "gone"
             next == AnsweredKeeping([k EXCEPT !.ok = ok], w)
  <2>2. Results(w, [k EXCEPT !.ok = ok], c)
      BY OtherOk
  <2>3. Safe(next, c.flag)
      BY <1>1, <1>3, <2>2, SimpleRead DEF Reading, LatestPages
  <2>4. c.panel = "side"
      BY <1>0, <1>3 DEF Reply, Panels
  <2>5. next.ui.list = w.ui.list
    <3>1. [k EXCEPT !.ok = ok].panel = "side"
        BY <1>1, <2>2, <2>4 DEF Results, CallFields
    <3>2. w = [x \in WorldFields |-> w[x]] /\ w.ui = [x \in UiFields |-> w.ui[x]]
        BY <1>0 DEF Reply
    <3> HIDE DEF ok
    <3> QED BY <3>1, <3>2 DEF AnsweredKeeping, Answered, WorldFields, UiFields
  <2> HIDE DEF next
  <2>6. w.ui.list.shown # None => Safe([next EXCEPT !.ui.list.shown.status[r] = k.at.status[r]], c.flag)
      BY <2>3, <2>5, Restating
  <2>7. r \in RowsOf(w.ui.list) => w.ui.list.shown # None
      BY DEF RowsOf
  <2>8. Safe(DetailShown(k, w), "none")
      BY <1>1, <1>3, <2>3, <2>6, <2>7 DEF DetailShown, next
  <2> QED BY <1>1, <1>3, <2>8 DEF UserManagementAnswer
<1>4. CASE c.kind # "read"
  <2>1. Safe(w, k.flag)
      BY <1>1, <1>4, Passing DEF Marks, ChannelPages
  <2>2. Safe(Idle(w, k.flag), "none")
      BY <2>1, Idling
  <2>3. Safe(UserCreated(k, w), "none")
    <3>1. Safe(CloseOnly(w, "create"), k.flag)
        BY <2>1, Closing
    <3> DEFINE next == [CloseOnly(w, "create") EXCEPT !.ui.view = FirstView, !.ui.sel = {}]
               effect == IF w.ui.view = FirstView THEN next ELSE LoadUsers(next, FirstView, "none")
    <3>2. Safe(next, k.flag)
        BY <3>1, SetView
    <3> HIDE DEF next
    <3>3. Safe(LoadUsers(next, FirstView, "none"), k.flag)
        BY <3>2, UserLoads
    <3>4. Safe(effect, k.flag)
        BY <3>2, <3>3
    <3> HIDE DEF effect
    <3>5. Safe(LoadUsers(effect, FirstView, k.flag), "none")
        BY <3>4, UserLoads
    <3> QED BY <2>2, <3>5 DEF UserCreated, effect, next
  <2>4. c.since # None => Safe(UserEdited(k, w), "none")
    <3> SUFFICES ASSUME c.since # None PROVE Safe(UserEdited(k, w), "none")
        OBVIOUS
    <3>1. k.flag = "act" /\ k.since \in Seq({"update", "grant", "revoke"}) \ {<<>>}
        BY <1>1, <1>4
    <3>2. Safe([w EXCEPT !.ui.known = ui.known], k.flag)
        BY <2>1, SetFields
    <3>3. ASSUME Len(k.since) > 1
          PROVE  Safe(StartEdit([w EXCEPT !.ui.known = ui.known], CHOOSE r \in k.rows : TRUE, Tail(k.since)), "none")
      <4>1. Tail(k.since) \in Seq({"update", "grant", "revoke"}) /\ Tail(k.since) # <<>>
          BY <3>1, <3>3, RestOfPlan
      <4> QED BY <3>1, <3>2, <4>1, StartingEdit
    <3>4. Safe(CloseOnly(w, "edit"), k.flag)
        BY <2>1, Closing
    <3>5. Safe(LoadUsers(CloseOnly(w, "edit"), k.of, k.flag), "none")
        BY <3>4, UserLoads
    <3> QED BY <2>2, <3>3, <3>5 DEF UserEdited
  <2>5. Safe(BatchUpdated(k, w), "none")
    <3>1. Safe([w EXCEPT !.ui.sel = {}], k.flag)
        BY <2>1, Unselected
    <3>2. Safe(LoadUsers([w EXCEPT !.ui.sel = {}], k.of, k.flag), "none")
        BY <3>1, UserLoads
    <3> QED BY <2>2, <3>2 DEF BatchUpdated
  <2>6. Safe(StatusUpdated(k, w), "none")
    <3> DEFINE r == CHOOSE r \in k.rows : TRUE
               x == IF k.kind = "enable" THEN "active" ELSE "disabled"
               drawer == w.ui.side.shown # None /\ w.ui.side.shown.of = r
               next == IF drawer THEN [w EXCEPT !.ui.side.shown.status[r] = x] ELSE w
    <3> HIDE DEF r, x
    <3>1. w.ui.side.shown # None => Safe([w EXCEPT !.ui.side.shown.status[r] = x], k.flag)
        BY <2>1, Restating
    <3>2. Safe(next, k.flag)
        BY <2>1, <3>1
    <3> HIDE DEF next
    <3>3. Safe(LoadUsers(next, k.of, k.flag), "none")
        BY <3>2, UserLoads
    <3> QED BY <2>2, <3>3 DEF StatusUpdated, next, r, x
  <2> QED BY <1>1, <1>4, <2>3, <2>4, <2>5, <2>6 DEF UserManagementAnswer
<1> QED BY <1>2, <1>3, <1>4

----------------------------------------------------------------------------
(* AuditLogs.                                                               *)
\* What AuditLogs loads.
LEMMA AuditLoads ==
    ASSUME NEW w, Safe(w, "none"), page = "AuditLogs", NEW v, NEW mode
    PROVE  Safe(LoadAudit(w, v, mode), "none")
<1> DEFINE next == Load(w, "list", v)
<1>1. Safe(next, "none")
  <2>1. LoadOf("list", v)
      BY DEF LoadOf, Fixed, OnePages, Panels
  <2> QED BY <2>1, Loading DEF QueryPages
<1> HIDE DEF next
<1>2. Safe([next EXCEPT !.ui.flight = [view |-> v, id |-> next.ui.started]], "none")
    BY <1>1, SetFields
<1> QED BY <1>2 DEF LoadAudit, next

\* What AuditLogs does when it is opened.
LEMMA AuditLogsMounted ==
    ASSUME NEW w, Safe(w, "none"), page = "AuditLogs"
    PROVE  Safe(AuditLogsMount(w), "none")
BY AuditLoads DEF AuditLogsMount

\* A reader without the right sees nothing.
LEMMA Denying ==
    ASSUME NEW w, Safe(w, "none"), page = "AuditLogs"
    PROVE  Safe(DenyAudit(w), "none")
<1> DEFINE n == DenyAudit(w)
<1>0. IsWorld(w) /\ IsPanel(w.ui.list)
    BY DEF Safe, IsWorld, IsUi
<1>1. n.calls = w.calls /\ Alike(w, n, {"list"})
    BY <1>0 DEF DenyAudit, IsWorld, IsUi, Alike, WorldFields, UiFields
<1>2. /\ n.ui.list = [x \in PanelFields |-> n.ui.list[x]] /\ n.ui.list.of = w.ui.list.of
      /\ n.ui.list.latest = w.ui.list.latest /\ n.ui.list.loading = w.ui.list.loading
      /\ n.ui.list.shown = None
    BY <1>0 DEF DenyAudit, IsWorld, IsUi, IsPanel, WorldFields, UiFields, PanelFields
<1> HIDE DEF n
<1>3. Redrawn(w, "list", n.ui.list)
  <2>1. IsPanel(n.ui.list) /\ Settled(n.ui.list)
      BY <1>0, <1>2 DEF IsPanel, Settled
  <2> QED BY <1>2, <2>1 DEF Redrawn
<1>4. n.ui.sel = w.ui.sel /\ n.ui.dialog = w.ui.dialog /\ n.ui.busy = w.ui.busy /\ n.ui.held = w.ui.held
    BY <1>1 DEF Alike, UiFields
<1>5. AsidesOK(n.ui)
    BY <1>4 DEF AsidesOK, Safe, Sound, Selected, Selectable, DialogOK, HeldOK
<1>6. Alike(w, n, Asides \cup {"list"})
    BY <1>1 DEF Alike
<1>7. Safe(n, "none")
    BY <1>1, <1>3, <1>5, <1>6, Redrawing DEF Panels
<1> QED BY <1>7 DEF n

\* What the user and the timers do on AuditLogs.
LEMMA AuditLogsKept ==
    ASSUME ViewsInv, AuditLogsNext
    PROVE  ViewsInv'
<1>0. page = "AuditLogs"
    BY DEF AuditLogsNext, SearchReserved, ExportAudit, SearchAudit, TurnAudit
<1>1. CASE SearchReserved
  <2>1. Safe(DenyAudit(World), "none")
      BY <1>0, WorldSafe, Denying
  <2> QED BY <1>1, <2>1, Becoming DEF SearchReserved
<1>2. CASE ExportAudit
  <2>1. "export" \notin World.ui.busy
      BY <1>2 DEF ExportAudit, World
  <2>2. Fits("export", {}, "export", "none", None)
      BY <1>0 DEF Fits, Flags, IsWrite, CallOK, MayHold, ReadPages, ChannelPages, QueryPages
  <2>3. Safe(Write(World, "export", {}, "export", "none"), "none")
      BY <1>0, <2>1, <2>2, WorldSafe, FlagWrite
  <2> QED BY <1>2, <2>3, Becoming DEF ExportAudit
<1>3. ASSUME NEW v, SearchAudit(v)
      PROVE  ViewsInv'
  <2>1. Safe(LoadAudit(World, v, "replace"), "none")
      BY <1>0, WorldSafe, AuditLoads
  <2> QED BY <1>3, <2>1, Becoming DEF SearchAudit
<1>4. ASSUME NEW v, TurnAudit(v)
      PROVE  ViewsInv'
  <2>1. Safe(LoadAudit(World, v, "paginate"), "none")
      BY <1>0, WorldSafe, AuditLoads
  <2> QED BY <1>4, <2>1, Becoming DEF TurnAudit
<1> QED BY <1>1, <1>2, <1>3, <1>4 DEF AuditLogsNext

\* The answer of a load: the rows of the last one, and the error of a denial.
LEMMA AuditAnswering ==
    ASSUME ViewsInv, page = "AuditLogs", NEW w, NEW k, NEW c, Results(w, k, c), InTurn(c), c.kind = "read"
    PROVE  Safe(AuditAnswered(k, w), c.flag)
<1>0. Reply(w, k, c)
    BY ReplyShape
<1> DEFINE own == w.ui.flight # None /\ w.ui.flight.view = k.of
           m == IF own THEN [w EXCEPT !.ui.flight = None] ELSE w
           next == AnsweredLatest(k, m)
           n == AuditAnswered(k, w)
<1>1. Reading(c) /\ Loads(c, "list") /\ c.panel = "list" /\ k.panel = "list" /\ k.id = c.id
    BY <1>0 DEF Reply, CallOK, ChannelPages, Reading, Loads
<1>2. m = [x \in WorldFields |-> m[x]] /\ m.ui = [x \in UiFields |-> m.ui[x]] /\ m.calls = w.calls
      /\ Alike(w, m, {"flight"}) /\ m.ui.list = w.ui.list
  <2>1. w = [x \in WorldFields |-> w[x]] /\ w.ui = [x \in UiFields |-> w.ui[x]]
      BY <1>0 DEF Reply
  <2> QED BY <2>1 DEF Alike, WorldFields, UiFields
<1> HIDE DEF m
<1>3. /\ next.calls = w.calls /\ Alike(m, next, {"list"})
      /\ c.id = w.ui.list.latest => Filled(next.ui.list, w.ui.list, k)
      /\ c.id # w.ui.list.latest => next.ui.list = w.ui.list
  <2>0. IsPanel(m.ui[k.panel]) /\ k.panel \in Panels /\ (k.ok => IsSnapshot(k.at))
      BY <1>0, <1>1, <1>2 DEF Reply, Panels
  <2>1. /\ Answered(k, m).calls = m.calls /\ Alike(m, Answered(k, m), {k.panel})
        /\ Filled(Answered(k, m).ui[k.panel], m.ui[k.panel], k)
      BY <1>2, <2>0, AnsweredShape
  <2>2. Alike(m, m, {"list"})
      BY <1>2 DEF Alike
  <2> QED BY <1>1, <1>2, <2>1, <2>2 DEF AnsweredLatest
<1> HIDE DEF next
<1>4. Alike(w, next, {"flight", "list"})
    BY <1>2, <1>3 DEF Alike
<1>5. n = [next EXCEPT !.ui.list.failed = @ \/ w.ui.list.failed,
                       !.ui.view = IF w.ui.list.latest = k.id /\ k.ok THEN k.of ELSE @]
    BY DEF AuditAnswered, next, m
<1> HIDE DEF n
<1>6. n.calls = w.calls /\ Alike(w, n, {"flight", "view", "list"})
    BY <1>3, <1>4, <1>5 DEF Alike, WorldFields, UiFields
<1>7. IsPanel(next.ui.list) /\ IsPanel(w.ui.list) /\ next.ui.list.of = w.ui.list.of
      /\ next.ui.list.latest = w.ui.list.latest
    BY <1>0, <1>3 DEF Reply, Filled
<1>8. /\ n.ui.list = [x \in PanelFields |-> n.ui.list[x]] /\ n.ui.list.of = next.ui.list.of
      /\ n.ui.list.latest = next.ui.list.latest /\ n.ui.list.loading = next.ui.list.loading
      /\ n.ui.list.shown = next.ui.list.shown /\ (n.ui.list.failed <=> (next.ui.list.failed \/ w.ui.list.failed))
    BY <1>4, <1>5, <1>7 DEF Alike, IsPanel, WorldFields, UiFields, PanelFields
<1>9. IsPanel(n.ui.list)
    BY <1>7, <1>8 DEF IsPanel
<1>10. Drawn(w, n.ui.list, k, c)
  <2>0. \A o \in {FirstView, "repositories"} : ~Fixed("list", o)
      BY DEF Fixed, OnePages
  <2>1. CASE c.id = w.ui.list.latest
    <3>1. Filled(next.ui.list, w.ui.list, k)
        BY <1>3, <2>1
    <3>2. ~n.ui.list.loading /\ (n.ui.list.shown = None \/ n.ui.list.shown = k.at)
        BY <1>8, <3>1 DEF Filled
    <3> QED BY <1>1, <1>7, <1>8, <1>9, <2>0, <2>1, <3>2 DEF Drawn
  <2>2. CASE c.id # w.ui.list.latest
    <3>1. next.ui.list = w.ui.list
        BY <1>3, <2>2
    <3> QED BY <1>1, <1>7, <1>8, <1>9, <2>0, <2>2, <3>1 DEF Drawn
  <2> QED BY <2>1, <2>2
<1>11. AsidesOK(n.ui)
  <2>1. n.ui.dialog = w.ui.dialog /\ n.ui.busy = w.ui.busy /\ n.ui.held = w.ui.held
        /\ n.ui.sel = w.ui.sel /\ AsidesOK(w.ui)
      BY <1>6 DEF Alike, UiFields, Results
  <2> QED BY <2>1 DEF AsidesOK, Selected, Selectable, DialogOK, HeldOK
<1>12. Alike(w, n, Asides \cup {"list"})
    BY <1>6 DEF Alike, Asides
<1>13. Safe(n, c.flag)
    BY <1>1, <1>6, <1>10, <1>11, <1>12, Drawing DEF Panels
<1> QED BY <1>13 DEF n

\* What follows the calls of AuditLogs.
LEMMA AuditLogsAnswers ==
    ASSUME ViewsInv, page = "AuditLogs", NEW w, NEW k, NEW c, Results(w, k, c), InTurn(c)
    PROVE  Safe(AuditLogsAnswer(k, w), "none")
<1>1. k.kind = c.kind /\ k.flag = c.flag /\ (c.kind = "read" => c.flag = "none")
  <2>1. Reply(w, k, c)
      BY ReplyShape
  <2> QED BY <2>1 DEF Reply, CallOK, MayHold
<1>2. CASE c.kind = "read"
  <2>1. Safe(AuditAnswered(k, w), "none")
      BY <1>1, <1>2, AuditAnswering
  <2> QED BY <1>1, <1>2, <2>1 DEF AuditLogsAnswer
<1>3. CASE c.kind # "read"
  <2>1. Safe(w, c.flag)
      BY <1>3, Passing DEF Marks, ChannelPages
  <2>2. Safe(Idle(w, c.flag), "none")
      BY <2>1, Idling
  <2> QED BY <1>1, <1>3, <2>2 DEF AuditLogsAnswer
<1> QED BY <1>2, <1>3

----------------------------------------------------------------------------
(* LoginPolicy.                                                             *)
\* The states of the form.
LEMMA Forms ==
    ASSUME page = "LoginPolicy"
    PROVE  /\ Holdable(FormOf("tenant")) /\ Holdable(Defaults)
           /\ \A h : Holdable(h) => h.from # "read" /\ Holdable([h EXCEPT !.edited = TRUE])
           /\ Holdable([from |-> "reset", edited |-> TRUE])
<1> DEFINE S == [from : {"default", "tenant", "reset"}, edited : BOOLEAN]
<1>1. \A h : Holdable(h) <=> h \in S
    BY DEF Holdable
<1>2. FormOf("tenant") \in S /\ Defaults \in S /\ [from |-> "reset", edited |-> TRUE] \in S
    BY DEF FormOf, Defaults
<1>3. ASSUME NEW h \in S
      PROVE  h.from # "read" /\ [h EXCEPT !.edited = TRUE] \in S
    OBVIOUS
<1> QED BY <1>1, <1>2, <1>3

\* What LoginPolicy does when it is opened.
LEMMA LoginPolicyMounted ==
    ASSUME NEW s, NEW w, w = Opened(s), page = "LoginPolicy"
    PROVE  Safe(LoadPolicy(w), "none")
<1> DEFINE next == [w EXCEPT !.ui.held = Defaults]
<1>1. /\ next = [x \in WorldFields |-> next[x]] /\ next.ui = [x \in UiFields |-> next.ui[x]]
      /\ next.calls = {} /\ next.ui.list = EmptyPanel /\ next.ui.side = EmptyPanel /\ next.ui.busy = {}
      /\ next.ui.started = 0 /\ next.ui.held = Defaults /\ next.ui.sel = {} /\ next.ui.dialog = None
    BY DEF Opened, Blank, WorldFields, UiFields
<1> HIDE DEF next
<1>2. AsidesOK(next.ui)
    BY <1>1, Forms DEF AsidesOK, Selected, Selectable, DialogOK, Askable, HeldOK
<1>3. Safe(next, "none")
    BY <1>1, <1>2, Mounting
<1>4. Safe(Load(next, "list", FirstView), "none")
    BY <1>3, LoadingFirst DEF QueryPages
<1> QED BY <1>3, <1>4 DEF LoadPolicy, next

\* The form is edited.
LEMMA EditingPolicy ==
    ASSUME NEW w, Safe(w, "none"), page = "LoginPolicy"
    PROVE  Safe([w EXCEPT !.ui.held.edited = TRUE], "none")
<1> DEFINE n == [w EXCEPT !.ui.held.edited = TRUE]
<1>1. n.calls = w.calls /\ n.ui.held = [w.ui.held EXCEPT !.edited = TRUE] /\ Alike(w, n, {"held"})
    BY DEF Safe, IsWorld, IsUi, Alike, WorldFields, UiFields
<1> HIDE DEF n
<1>2. Alike(w, n, Asides) BY <1>1 DEF Alike, Asides
<1>3. Holdable(n.ui.held)
    BY <1>1, Forms DEF Safe, Sound, HeldOK
<1>4. AsidesOK(n.ui)
    BY <1>1, <1>3 DEF Alike, UiFields, AsidesOK, Safe, Sound, Selected, DialogOK, HeldOK
<1>5. Safe(n, "none") BY <1>1, <1>2, <1>4, AsideKept
<1> QED BY <1>5 DEF n

\* What the user and the timers do on LoginPolicy.
LEMMA LoginPolicyKept ==
    ASSUME ViewsInv, LoginPolicyNext
    PROVE  ViewsInv'
<1>0. page = "LoginPolicy"
    BY DEF LoginPolicyNext, EditPolicy, ResetPolicy, SavePolicy
<1>1. CASE EditPolicy
  <2>1. Safe([World EXCEPT !.ui.held.edited = TRUE], "none")
      BY <1>0, WorldSafe, EditingPolicy
  <2> QED BY <1>1, <2>1, Becoming DEF EditPolicy
<1>2. CASE ResetPolicy
  <2>1. Safe([World EXCEPT !.ui.held = [from |-> "reset", edited |-> TRUE]], "none")
      BY <1>0, WorldSafe, Forms, SetHeld
  <2> QED BY <1>2, <2>1, Becoming DEF ResetPolicy
<1>3. CASE SavePolicy
  <2>1. "save" \notin World.ui.busy
      BY <1>3 DEF SavePolicy, World
  <2>2. ui.held.from # "read"
    <3>1. Holdable(ui.held)
        BY WorldSafe DEF Safe, Sound, HeldOK, World
    <3> QED BY <1>0, <3>1, Forms
  <2>3. Fits(ui.held.from, {Policy}, "save", "none", None)
      BY <1>0, <2>2 DEF Fits, Flags, IsWrite, CallOK, MayHold, ReadPages, ChannelPages, QueryPages
  <2>4. Safe(Write(World, ui.held.from, {Policy}, "save", "none"), "none")
      BY <1>0, <2>1, <2>3, WorldSafe, FlagWrite
  <2> QED BY <1>3, <2>4, Becoming DEF SavePolicy
<1> QED BY <1>1, <1>2, <1>3 DEF LoginPolicyNext

\* The answer of a save replaces the form and what the page has read.
LEMMA PolicySaved ==
    ASSUME NEW w, NEW f, Safe(w, f), page = "LoginPolicy", NEW h, Holdable(h), NEW s, IsSnapshot(s), s.of = FirstView
    PROVE  Safe([w EXCEPT !.ui.held = h, !.ui.list.shown = s], f)
<1> DEFINE n == [w EXCEPT !.ui.held = h, !.ui.list.shown = s]
<1>0. IsWorld(w) /\ IsPanel(w.ui.list)
    BY DEF Safe, IsWorld, IsUi
<1>1. n.calls = w.calls /\ Alike(w, n, {"held", "list"}) /\ n.ui.held = h
    BY <1>0 DEF IsWorld, IsUi, Alike, WorldFields, UiFields
<1>2. /\ n.ui.list = [x \in PanelFields |-> n.ui.list[x]] /\ n.ui.list.of = w.ui.list.of
      /\ n.ui.list.latest = w.ui.list.latest /\ n.ui.list.loading = w.ui.list.loading
      /\ n.ui.list.shown = s
    BY <1>0 DEF IsWorld, IsUi, IsPanel, WorldFields, UiFields, PanelFields
<1> HIDE DEF n
<1>3. w.ui.list.of \in {None, FirstView}
    BY DEF Safe, Sound, Asked, Fixed, OnePages, Panels
<1>4. Redrawn(w, "list", n.ui.list)
  <2>1. IsPanel(n.ui.list) /\ Settled(n.ui.list)
      BY <1>0, <1>2, <1>3 DEF IsPanel, Settled
  <2>2. \A o \in {FirstView, "repositories"} : Fixed("list", o) => n.ui.list.shown.of = o
      BY <1>2 DEF Fixed
  <2> QED BY <1>2, <2>1, <2>2 DEF Redrawn
<1>5. AsidesOK(n.ui)
  <2>1. n.ui.sel = w.ui.sel /\ n.ui.dialog = w.ui.dialog /\ n.ui.busy = w.ui.busy
      BY <1>1 DEF Alike, UiFields
  <2> QED BY <1>1, <2>1 DEF AsidesOK, Safe, Sound, Selected, Selectable, DialogOK, HeldOK
<1>6. Alike(w, n, Asides \cup {"list"})
    BY <1>1 DEF Alike, Asides
<1>7. Safe(n, f)
    BY <1>1, <1>4, <1>5, <1>6, Redrawing DEF Panels
<1> QED BY <1>7 DEF n

\* What follows the calls of LoginPolicy.
LEMMA LoginPolicyAnswers ==
    ASSUME ViewsInv, page = "LoginPolicy", NEW w, NEW k, NEW c, Results(w, k, c), InTurn(c)
    PROVE  Safe(PolicyAnswer(k, w), "none")
<1>1. k.kind = c.kind /\ k.flag = c.flag /\ (c.kind = "read" => c.flag = "none" /\ Reading(c))
  <2>1. Reply(w, k, c)
      BY ReplyShape
  <2> QED BY <2>1 DEF Reply, CallOK, MayHold, Reading, ChannelPages
<1>2. CASE c.kind = "read"
  <2>1. Safe(AnsweredKeeping(k, w), "none")
      BY <1>1, <1>2, SimpleRead DEF LatestPages
  <2>2. Safe([AnsweredKeeping(k, w) EXCEPT !.ui.held = FormOf("tenant")], "none")
      BY <2>1, SetHeld, Forms
  <2> QED BY <1>1, <1>2, <2>1, <2>2 DEF PolicyAnswer
<1>3. CASE c.kind # "read"
  <2>1. Safe(w, c.flag)
      BY <1>3, Passing DEF Marks, ChannelPages
  <2>2. Safe(Idle(w, c.flag), "none")
      BY <2>1, Idling
  <2>3. Safe([Idle(w, c.flag) EXCEPT !.ui.held = FormOf("tenant"), !.ui.list.shown = Snapshot(w, FirstView)], "none")
      BY <2>2, PolicySaved, Forms, Snapshots
  <2> QED BY <1>1, <1>3, <2>2, <2>3 DEF PolicyAnswer
<1> QED BY <1>2, <1>3

----------------------------------------------------------------------------
(* The pages of the ingestion.                                              *)

\* A call that is neither a load nor marks a button of its own: it has none, or
\* the one that the handler hands on.
LEMMA SendingOn ==
    ASSUME NEW w, NEW f, Safe(w, f), NEW k, k = [x \in CallFields |-> k[x]],
           k.panel = "list", Fits(k.kind, k.rows, k.flag, k.then, k.since),
           NEW g, (k.flag = f /\ g = "none") \/ (k.flag = "none" /\ g = f)
    PROVE  Safe(Send(w, k), g)
<1> DEFINE n == Send(w, k)
<1>2. PICK c : /\ n.calls = w.calls \cup {c}
               /\ c.id = w.ui.started + 1
               /\ c = [x \in CallFields |-> c[x]]
               /\ \A x \in CallFields \ {"id", "at"} : c[x] = k[x]
               /\ c.kind = "read" => c.at = Snapshot(w, c.of)
               /\ n.ui.started = w.ui.started + 1
               /\ Alike(w, n, {"started"})
    BY SendShape
<1> HIDE DEF n
<1>3. c.kind = k.kind /\ c.panel = "list" /\ c.rows = k.rows /\ c.flag = k.flag /\ c.then = k.then /\ c.since = k.since
    BY <1>2 DEF CallFields
<1>4. /\ f \in Flags \cup {"none"} /\ (f # "none" /\ ~Loose(f) => f \in w.ui.busy)
      /\ \A b \in w.ui.busy : b # "none"
    BY DEF Safe, Sound, Once, Busy
<1>5. IsCall(c)
  <2>1. w.ui.started + 1 \in Nat BY DEF Safe, IsWorld, IsUi
  <2> QED BY <1>2, <1>3, <2>1 DEF Fits, IsCall, Panels
<1>6. CallOK(c)
    BY <1>3 DEF Fits, IsWrite
<1>7. Sent(w, n, c)
    BY <1>2, <1>5, <1>6 DEF Sent
<1>8. n.ui.busy = w.ui.busy /\ n.ui.sel = w.ui.sel /\ n.ui.dialog = w.ui.dialog /\ n.ui.held = w.ui.held
      /\ n.ui.list = w.ui.list
    BY <1>2 DEF Alike, UiFields
<1>9. Flagged(w, n, c, f, g)
    BY <1>3, <1>4, <1>8 DEF Flagged, Given
<1>10. Alike(w, n, Asides \cup {"busy", "started"})
    BY <1>2 DEF Alike
<1>11. AsidesOK(n.ui)
    BY <1>8 DEF AsidesOK, Safe, Sound, Selected, DialogOK, HeldOK
<1>12. Safe(n, g)
    BY <1>3, <1>7, <1>9, <1>10, <1>11, SendingOther DEF Fits
<1> QED BY <1>12 DEF n

\* The timer after a run.
LEMMA Timing ==
    ASSUME NEW w, NEW f, Safe(w, f), page \in {"SourceManagement", "SourceStatus"}, NEW of
    PROVE  Safe(StartTimer(w, of), f)
<1> DEFINE k == [NewCall EXCEPT !.kind = "timer", !.of = of]
<1>1. /\ k = [x \in CallFields |-> k[x]] /\ k.kind = "timer" /\ k.panel = "list" /\ k.flag = "none"
      /\ k.then = "none" /\ k.rows = {} /\ k.since = None
    BY DEF NewCall, CallFields
<1> HIDE DEF k
<1>2. Fits("timer", {}, "none", "none", None)
    BY DEF Fits, IsWrite, CallOK, MayHold, ReadPages, ChannelPages, QueryPages
<1>3. Safe(Send(w, k), f)
    BY <1>1, <1>2, SendingOn
<1> QED BY <1>3 DEF StartTimer, k

\* The answer that opens a drawer.
HistoryPages == {"SourceManagement", "SourceStatus"}

\* The answer that fills a drawer.
LEMMA HistoryAnswers ==
    ASSUME ViewsInv, page \in HistoryPages, NEW w, NEW k, NEW c, Results(w, k, c), InTurn(c),
           Reading(c), c.panel # "list"
    PROVE  Safe(HistoryAnswered(k, w), c.flag)
<1> DEFINE n == HistoryAnswered(k, w)
<1>1. Reply(w, k, c)
    BY ReplyShape
<1>2. c.panel = "side"
    BY <1>1 DEF Reply, Panels
<1>3. n.calls = w.calls /\ Alike(w, n, {"side"})
    BY <1>1 DEF HistoryAnswered, Reply, Alike, WorldFields, UiFields
<1>4. /\ n.ui.side = [x \in PanelFields |-> n.ui.side[x]]
      /\ n.ui.side.of = w.ui.side.of /\ n.ui.side.latest = w.ui.side.latest /\ n.ui.side.shown = k.at
      /\ n.ui.side.loading => w.ui.side.loading /\ w.ui.side.of # k.of
    BY <1>1 DEF HistoryAnswered, Reply, IsPanel, WorldFields, UiFields, PanelFields
<1> HIDE DEF n
<1>5. IsPanel(n.ui.side)
    BY <1>1, <1>4 DEF Reply, IsPanel, Reading
<1>6. Drawn(w, n.ui.side, k, c)
  <2>1. \A o \in {FirstView, "repositories"} : ~Fixed("side", o)
      BY DEF Fixed, OnePages, HistoryPages
  <2>2. k.of = c.of /\ page \notin LatestPages
      BY <1>1 DEF Reply, LatestPages, HistoryPages
  <2> QED BY <1>2, <1>4, <1>5, <2>1, <2>2 DEF Drawn
<1>7. AsidesOK(n.ui)
  <2>1. /\ n.ui.list = w.ui.list /\ n.ui.dialog = w.ui.dialog /\ n.ui.busy = w.ui.busy
        /\ n.ui.held = w.ui.held /\ n.ui.sel = w.ui.sel /\ AsidesOK(w.ui)
      BY <1>3 DEF Alike, UiFields, Results
  <2> QED BY <2>1 DEF AsidesOK, Selected, Selectable, DialogOK, HeldOK
<1>8. Alike(w, n, Asides \cup {"side"}) /\ Loads(c, "side")
    BY <1>2, <1>3 DEF Alike, Loads, Reading
<1>9. Safe(n, c.flag)
    BY <1>3, <1>6, <1>7, <1>8, Drawing DEF Panels
<1> QED BY <1>9 DEF n

\* What the pages of sources and agents load.
LEMMA SourceLoads ==
    ASSUME NEW w, NEW f, Safe(w, f), page \in HistoryPages \cup {"AgentManagement", "AccessWizard"}, NEW x
    PROVE  /\ Safe(LoadSources(w), f) /\ Safe(AskHistory(w, x), f) /\ Safe(LoadStatus(w, x), f)
           /\ Safe(LoadAgents(w), f) /\ Safe(WizardLoadAgents(w), f)
<1>1. "list" \in Panels /\ "side" \in Panels /\ Free
    BY DEF Panels, Free, OnePages, QueryPages, HistoryPages
<1>2. Safe(Load(w, "list", FirstView), f) /\ Safe(Load(w, "list", x), f) /\ Safe(Load(w, "side", x), f)
    BY <1>1, LoadingFree
<1> QED BY <1>2 DEF LoadSources, AskHistory, LoadStatus, LoadAgents, WizardLoadAgents

----------------------------------------------------------------------------
(* SourceManagement.                                                        *)
\* The writes of SourceManagement.
LEMMA SourceWrites ==
    ASSUME page = "SourceManagement", NEW rows
    PROVE  /\ Fits("create", rows, "submit", "none", None) /\ Fits("update", rows, "submit", "none", None)
           /\ Fits("disable", rows, "none", "none", None) /\ Fits("run", rows, "none", "none", None)
           /\ \A failure \in Failures : Fits("delete", rows, "delete", failure, None)
BY DEF Fits, Flags, IsWrite, CallOK, MayHold, ReadPages, ChannelPages, QueryPages, Failures

\* What SourceManagement does when it is opened.
LEMMA SourceManagementMounted ==
    ASSUME NEW w, Safe(w, "none"), page = "SourceManagement"
    PROVE  Safe(SourceManagementMount(w), "none")
BY SourceLoads DEF SourceManagementMount, HistoryPages

\* What the user and the timers do on SourceManagement.
LEMMA SourceManagementKept ==
    ASSUME ViewsInv, SourceManagementNext
    PROVE  ViewsInv'
<1>0. page = "SourceManagement" /\ page \in HistoryPages
    BY DEF SourceManagementNext, ReloadSources, CloseSource, SubmitSource, CloseSourceHistory,
           ConfirmDeleteSource, OpenSource, DisableSource, RunSource, OpenSourceHistory,
           SourceTable, OnSources, HistoryPages
<1>1. CASE ReloadSources
  <2>1. Safe(LoadSources(World), "none")
      BY <1>0, WorldSafe, SourceLoads
  <2> QED BY <1>1, <2>1, Becoming DEF ReloadSources
<1>2. CASE CloseSource
    BY <1>2, WorldSafe, Closing, Becoming DEF CloseSource
<1>3. CASE SubmitSource
  <2>1. "submit" \notin World.ui.busy
      BY <1>3 DEF SubmitSource, World
  <2>2. Fits("create", {}, "submit", "none", None) /\ \A r : Fits("update", {r}, "submit", "none", None)
      BY <1>0, SourceWrites
  <2>3. Safe(Submit(World, "submit"), "none")
      BY <1>0, <2>1, <2>2, WorldSafe, FormWrite
  <2> QED BY <1>3, <2>3, Becoming DEF SubmitSource
<1>4. CASE CloseSourceHistory
  <2>1. Safe(CloseDrawer(World), "none")
      BY WorldSafe, Hiding DEF CloseDrawer
  <2> QED BY <1>4, <2>1, Becoming DEF CloseSourceHistory
<1>5. ASSUME NEW failure \in Failures, ConfirmDeleteSource(failure)
      PROVE  ViewsInv'
  <2>1. "delete" \notin World.ui.busy
      BY <1>5 DEF ConfirmDeleteSource, World
  <2>2. Fits("delete", {ui.dialog.row}, "delete", failure, None)
      BY <1>0, SourceWrites
  <2>3. Safe(Write(World, "delete", {ui.dialog.row}, "delete", failure), "none")
      BY <1>0, <2>1, <2>2, WorldSafe, FlagWrite
  <2> QED BY <1>5, <2>3, Becoming DEF ConfirmDeleteSource
<1>6. ASSUME NEW r, NEW kind, OpenSource(kind, r)
      PROVE  ViewsInv'
  <2>1. Safe(Open(World, kind, r), "none")
      BY <1>0, WorldSafe, Opening DEF FormPages
  <2> QED BY <1>6, <2>1, Becoming DEF OpenSource
<1>7. ASSUME NEW r, DisableSource(r)
      PROVE  ViewsInv'
  <2>1. Safe(Write(World, "disable", {r}, "none", "none"), "none")
      BY <1>0, WorldSafe, SourceWrites, PlainWrite
  <2> QED BY <1>7, <2>1, Becoming DEF DisableSource
<1>8. ASSUME NEW r, RunSource(r)
      PROVE  ViewsInv'
  <2>1. Safe(Write(World, "run", {r}, "none", "none"), "none")
      BY <1>0, WorldSafe, SourceWrites, PlainWrite
  <2> QED BY <1>8, <2>1, Becoming DEF RunSource
<1>9. ASSUME NEW r, OpenSourceHistory(r)
      PROVE  ViewsInv'
  <2>1. Safe(AskHistory(World, r), "none")
      BY <1>0, WorldSafe, SourceLoads
  <2> QED BY <1>9, <2>1, Becoming DEF OpenSourceHistory
<1> QED BY <1>1, <1>2, <1>3, <1>4, <1>5, <1>6, <1>7, <1>8, <1>9 DEF SourceManagementNext

\* What follows the calls of SourceManagement.
LEMMA SourceManagementAnswers ==
    ASSUME ViewsInv, page = "SourceManagement", NEW w, NEW k, NEW c, Results(w, k, c), InTurn(c)
    PROVE  Safe(SourceManagementAnswer(k, w), "none")
<1>0. page \in HistoryPages
    BY DEF HistoryPages
<1>1. /\ k.kind = c.kind /\ k.flag = c.flag /\ k.panel = c.panel /\ c.then # "reread"
      /\ c.kind \notin {"delete", "create", "update"} => c.flag = "none"
  <2>1. Reply(w, k, c)
      BY ReplyShape
  <2> QED BY <2>1 DEF Reply, CallOK, MayHold, ChannelPages
<1>2. CASE c.kind = "read"
  <2>1. Reading(c) /\ c.flag = "none"
      BY <1>1, <1>2 DEF Reading
  <2>2. Safe(Answered(k, w), "none")
      BY <2>1, SimpleRead DEF LatestPages
  <2>3. c.panel # "list" => Safe(HistoryAnswered(k, w), "none")
      BY <1>0, <2>1, HistoryAnswers
  <2> QED BY <1>1, <1>2, <2>2, <2>3 DEF SourceManagementAnswer
<1>3. CASE c.kind # "read"
  <2>1. Safe(w, k.flag)
      BY <1>1, <1>3, Passing DEF Marks, ChannelPages
  <2>2. Safe(Idle(w, k.flag), "none")
      BY <2>1, Idling
  <2>3. Safe(Close(w), k.flag) /\ Safe(CloseForm(w), k.flag)
      BY <2>1, Closing
  <2>4. Safe(Idle(Close(w), k.flag), "none") /\ Safe(Idle(CloseForm(w), k.flag), "none")
      BY <2>3, Idling
  <2>5. Safe(LoadSources(Idle(Close(w), k.flag)), "none") /\ Safe(LoadSources(Idle(CloseForm(w), k.flag)), "none")
      BY <1>0, <2>4, SourceLoads
  <2>6. Safe(SourceDeleted(k, w), "none") /\ Safe(SourceSaved(k, w), "none")
      BY <2>2, <2>5 DEF SourceDeleted, SourceSaved
  <2>7. Safe(LoadSources(w), k.flag) /\ Safe(StartTimer(w, FirstView), k.flag)
      BY <1>0, <2>1, SourceLoads, Timing DEF HistoryPages
  <2> QED BY <1>1, <1>3, <2>1, <2>6, <2>7 DEF SourceManagementAnswer
<1> QED BY <1>2, <1>3

----------------------------------------------------------------------------
(* SourceStatus.                                                            *)
\* What SourceStatus does when it is opened.
LEMMA SourceStatusMounted ==
    ASSUME NEW w, Safe(w, "none"), page = "SourceStatus"
    PROVE  Safe(SourceStatusMount(w), "none")
BY SourceLoads DEF SourceStatusMount, HistoryPages

\* What the user and the timers do on SourceStatus.
LEMMA SourceStatusKept ==
    ASSUME ViewsInv, SourceStatusNext
    PROVE  ViewsInv'
<1>0. page = "SourceStatus" /\ page \in HistoryPages
    BY DEF SourceStatusNext, ReloadStatus, ToggleAutoRefresh, PollStatus, CloseStatusDetail,
           HistoryFromDetail, CloseStatusHistory, ChangeRange, RunFromStatus, OpenStatusHistory,
           OpenStatusDetail, StatusTable, OnStatus, HistoryPages
<1>1. CASE ReloadStatus
  <2>1. Safe(LoadStatus(World, ui.view), "none")
      BY <1>0, WorldSafe, SourceLoads
  <2> QED BY <1>1, <2>1, Becoming DEF ReloadStatus
<1>2. CASE ToggleAutoRefresh
  <2>1. Safe([World EXCEPT !.ui.hidden = ~@], "none")
      BY WorldSafe, SetFields
  <2> QED BY <1>2, <2>1, Becoming DEF ToggleAutoRefresh
<1>3. CASE PollStatus
  <2>1. Safe(LoadStatus(World, ui.view), "none")
      BY <1>0, WorldSafe, SourceLoads
  <2> QED BY <1>3, <2>1, Becoming DEF PollStatus
<1>4. CASE CloseStatusDetail
    BY <1>4, WorldSafe, Closing, Becoming DEF CloseStatusDetail
<1>5. CASE HistoryFromDetail
  <2>1. Safe(Close(World), "none")
      BY WorldSafe, Closing
  <2>2. Safe(AskHistory(Close(World), ui.dialog.row), "none")
      BY <1>0, <2>1, SourceLoads
  <2> QED BY <1>5, <2>2, Becoming DEF HistoryFromDetail
<1>6. CASE CloseStatusHistory
  <2>1. Safe(CloseDrawer(World), "none")
      BY WorldSafe, Hiding DEF CloseDrawer
  <2> QED BY <1>6, <2>1, Becoming DEF CloseStatusHistory
<1>7. ASSUME NEW v, ChangeRange(v)
      PROVE  ViewsInv'
  <2>1. Safe([World EXCEPT !.ui.view = v, !.ui.held = None], "none")
      BY <1>0, WorldSafe, SetViewHeld DEF Holdable
  <2>2. Safe(LoadStatus([World EXCEPT !.ui.view = v, !.ui.held = None], v), "none")
      BY <1>0, <2>1, SourceLoads
  <2> QED BY <1>7, <2>2, Becoming DEF ChangeRange
<1>8. ASSUME NEW r \in Row, RunFromStatus(r)
      PROVE  ViewsInv'
  <2>1. Marks("run")
      BY <1>0 DEF Marks
  <2>2. Fits("run", {r}, "none", "none", None)
      BY <1>0 DEF Fits, IsWrite, CallOK, MayHold, ReadPages, ChannelPages, QueryPages
  <2>3. Safe([Write(World, "run", {r}, "none", "none") EXCEPT !.ui.busy = @ \cup {r}], "none")
      BY <1>0, <2>1, <2>2, WorldSafe, MarkingRow
  <2> QED BY <1>8, <2>3, Becoming DEF RunFromStatus
<1>9. ASSUME NEW r, OpenStatusHistory(r)
      PROVE  ViewsInv'
  <2>1. Safe(AskHistory(World, r), "none")
      BY <1>0, WorldSafe, SourceLoads
  <2> QED BY <1>9, <2>1, Becoming DEF OpenStatusHistory
<1>10. ASSUME NEW r, OpenStatusDetail(r)
      PROVE  ViewsInv'
  <2>1. Safe(Open(World, "detail", r), "none")
      BY <1>0, WorldSafe, Opening DEF FormPages
  <2> QED BY <1>10, <2>1, Becoming DEF OpenStatusDetail
<1> QED BY <1>1, <1>2, <1>3, <1>4, <1>5, <1>6, <1>7, <1>8, <1>9, <1>10 DEF SourceStatusNext

\* What follows the calls of SourceStatus.
LEMMA SourceStatusAnswers ==
    ASSUME ViewsInv, page = "SourceStatus", NEW w, NEW k, NEW c, Results(w, k, c), InTurn(c)
    PROVE  Safe(SourceStatusAnswer(k, w), "none")
<1>0. page \in HistoryPages
    BY DEF HistoryPages
<1>1. /\ k.kind = c.kind /\ k.panel = c.panel /\ k.rows = c.rows /\ c.then # "reread" /\ c.flag = "none"
      /\ c.kind \in {"read", "timer", "run"}
  <2>1. Reply(w, k, c)
      BY ReplyShape
  <2> QED BY <2>1 DEF Reply, CallOK, MayHold, ChannelPages
<1>2. CASE c.kind = "read"
  <2>1. Reading(c)
      BY <1>1, <1>2 DEF Reading
  <2>2. Safe(AnsweredKeeping(k, w), "none")
      BY <1>1, <2>1, SimpleRead DEF LatestPages
  <2>3. Safe([AnsweredKeeping(k, w) EXCEPT !.ui.held = k.of], "none")
      BY <2>2, SetHeld DEF Holdable
  <2>4. Safe(StatusAnswered(k, w), "none")
      BY <2>2, <2>3 DEF StatusAnswered
  <2>5. c.panel # "list" => Safe(HistoryAnswered(k, w), "none")
      BY <1>0, <1>1, <2>1, HistoryAnswers
  <2> QED BY <1>1, <1>2, <2>4, <2>5 DEF SourceStatusAnswer
<1>3. CASE c.kind = "timer"
  <2>1. Safe(w, "none")
      BY <1>1, <1>3, Passing DEF Marks, ChannelPages
  <2>2. Safe(LoadStatus(w, k.of), "none")
      BY <1>0, <2>1, SourceLoads
  <2> QED BY <1>1, <1>3, <2>2 DEF SourceStatusAnswer
<1>4. CASE c.kind = "run"
  <2>1. Safe([w EXCEPT !.ui.busy = @ \ k.rows], "none")
      BY <1>4, PassingMarked DEF Marks
  <2>2. Safe(StartTimer([w EXCEPT !.ui.busy = @ \ k.rows], k.of), "none")
      BY <2>1, Timing
  <2>3. Safe(RunAnswered(k, w), "none")
      BY <1>1, <2>1, <2>2 DEF RunAnswered
  <2> QED BY <1>1, <1>4, <2>3 DEF SourceStatusAnswer
<1> QED BY <1>1, <1>2, <1>3, <1>4

----------------------------------------------------------------------------
(* AgentManagement.                                                         *)
\* What AgentManagement does when it is opened.
LEMMA AgentManagementMounted ==
    ASSUME NEW w, Safe(w, "none"), page = "AgentManagement"
    PROVE  Safe(AgentManagementMount(w), "none")
BY SourceLoads DEF AgentManagementMount

\* What the user and the timers do on AgentManagement.
LEMMA AgentManagementKept ==
    ASSUME ViewsInv, AgentManagementNext
    PROVE  ViewsInv'
<1>0. page = "AgentManagement"
    BY DEF AgentManagementNext, ReloadAgents, CloseDeleteAgent, OpenDeleteAgent, ConfirmDeleteAgent, OnAgents
<1>1. CASE ReloadAgents
  <2>1. Safe(LoadAgents(World), "none")
      BY <1>0, WorldSafe, SourceLoads
  <2> QED BY <1>1, <2>1, Becoming DEF ReloadAgents
<1>2. CASE CloseDeleteAgent
    BY <1>2, WorldSafe, Closing, Becoming DEF CloseDeleteAgent
<1>3. ASSUME NEW v, OpenDeleteAgent(v)
      PROVE  ViewsInv'
  <2>1. Safe(Open(World, "delete", SourcesOf(v)), "none")
      BY <1>0, WorldSafe, Opening DEF FormPages
  <2> QED BY <1>3, <2>1, Becoming DEF OpenDeleteAgent
<1>4. ASSUME NEW failure \in Failures, ConfirmDeleteAgent(failure)
      PROVE  ViewsInv'
  <2>1. "delete" \notin World.ui.busy
      BY <1>4 DEF ConfirmDeleteAgent, World
  <2>2. Fits("delete", ui.dialog.row, "delete", failure, None)
      BY <1>0 DEF Fits, Flags, IsWrite, CallOK, MayHold, ReadPages, ChannelPages, QueryPages, Failures
  <2>3. Safe(Write(World, "delete", ui.dialog.row, "delete", failure), "none")
      BY <1>0, <2>1, <2>2, WorldSafe, FlagWrite
  <2> QED BY <1>4, <2>3, Becoming DEF ConfirmDeleteAgent
<1> QED BY <1>1, <1>2, <1>3, <1>4 DEF AgentManagementNext

\* What follows the calls of AgentManagement.
LEMMA AgentManagementAnswers ==
    ASSUME ViewsInv, page = "AgentManagement", NEW w, NEW k, NEW c, Results(w, k, c), InTurn(c)
    PROVE  Safe(AgentManagementAnswer(k, w), "none")
<1>1. /\ k.kind = c.kind /\ k.flag = c.flag /\ (c.kind = "read" => c.flag = "none" /\ Reading(c))
  <2>1. Reply(w, k, c)
      BY ReplyShape
  <2> QED BY <2>1 DEF Reply, CallOK, MayHold, ChannelPages, Reading
<1>2. CASE c.kind = "read"
  <2>1. Safe(AnsweredKeeping(k, w), "none")
      BY <1>1, <1>2, SimpleRead DEF LatestPages
  <2> QED BY <1>1, <1>2, <2>1 DEF AgentManagementAnswer
<1>3. CASE c.kind # "read"
  <2>1. Safe(w, k.flag)
      BY <1>1, <1>3, Passing DEF Marks, ChannelPages
  <2>2. Safe(Close(w), k.flag)
      BY <2>1, Closing
  <2>3. Safe(Idle(w, k.flag), "none") /\ Safe(Idle(Close(w), k.flag), "none")
      BY <2>1, <2>2, Idling
  <2>4. Safe(LoadAgents(Idle(Close(w), k.flag)), "none")
      BY <2>3, SourceLoads
  <2>5. Safe(AgentDeleted(k, w), "none")
      BY <2>3, <2>4 DEF AgentDeleted
  <2> QED BY <1>1, <1>3, <2>5 DEF AgentManagementAnswer
<1> QED BY <1>2, <1>3

----------------------------------------------------------------------------
(* AccessWizard.                                                            *)
\* What AccessWizard keeps beside its panels.
LEMMA WizardAside ==
    ASSUME NEW w, NEW f, Safe(w, f), page = "AccessWizard", NEW n, n.calls = w.calls, Alike(w, n, Asides)
    PROVE  Safe(n, f)
<1>1. AsidesOK(n.ui)
    BY DEF AsidesOK, Selected, Selectable, DialogOK, Askable, HeldOK, Holdable
<1> QED BY <1>1, AsideKept

\* The name and the path are typed.
LEMMA SettingInputs ==
    ASSUME NEW w, NEW f, Safe(w, f), page = "AccessWizard", NEW new
    PROVE  Safe(SetInputs(w, new), f)
<1> DEFINE next == [w EXCEPT !.ui.view = new.view, !.ui.sel = new.agent,
                             !.ui.held = new.url, !.ui.flight = new.mode]
<1>1. next.calls = w.calls /\ Alike(w, next, Asides)
    BY DEF Safe, IsWorld, IsUi, Alike, Asides, WorldFields, UiFields
<1> HIDE DEF next
<1>2. Safe(next, f)
    BY <1>1, WizardAside
<1>3. Safe([next EXCEPT !.ui.side.shown = None], f)
    BY <1>2, Hiding
<1> QED BY <1>3 DEF SetInputs, next

\* An agent is chosen.
LEMMA SelectingAgent ==
    ASSUME NEW w, NEW f, Safe(w, f), page = "AccessWizard", NEW r
    PROVE  Safe(SelectAgent(w, r), f)
BY SettingInputs DEF SelectAgent

\* What AccessWizard does when it is opened.
LEMMA AccessWizardMounted ==
    ASSUME NEW w, Safe(w, "none"), page = "AccessWizard"
    PROVE  Safe(AccessWizardMount(w), "none")
<1> DEFINE n == [w EXCEPT !.ui.flight = "existing", !.ui.held = "typed",
                          !.ui.dialog = [kind |-> "step", row |-> 0]]
<1>1. n.calls = w.calls /\ Alike(w, n, Asides)
    BY DEF Safe, IsWorld, IsUi, Alike, Asides, WorldFields, UiFields
<1> HIDE DEF n
<1>2. Safe(WizardLoadAgents(n), "none")
    BY <1>1, WizardAside, SourceLoads
<1> QED BY <1>2 DEF AccessWizardMount, n

\* What the user and the timers do on AccessWizard.
LEMMA AccessWizardKept ==
    ASSUME ViewsInv, AccessWizardNext
    PROVE  ViewsInv'
<1>0. page = "AccessWizard"
    BY DEF AccessWizardNext, ReloadWizardAgents, GenerateScript, LeaveWizard, GoToStep, TypeName,
           TypeAddress, ChooseAgent, ChooseMode, CreateSource, OnStep
<1>1. CASE ReloadWizardAgents
  <2>1. Safe(WizardLoadAgents(World), "none")
      BY <1>0, WorldSafe, SourceLoads
  <2> QED BY <1>1, <2>1, Becoming DEF ReloadWizardAgents
<1>2. CASE GenerateScript
  <2>1. Safe(AskHistory(World, Inputs(World)), "none")
      BY <1>0, WorldSafe, SourceLoads
  <2> QED BY <1>2, <2>1, Becoming DEF GenerateScript, AskHistory
<1>3. CASE LeaveWizard
  <2>1. Safe(Leave(World), "none")
      BY <1>0, WorldSafe, LeavingPage
  <2> QED BY <1>3, <2>1, Becoming DEF LeaveWizard
<1>4. ASSUME NEW n, NEW m, GoToStep(n, m)
      PROVE  ViewsInv'
  <2> DEFINE next == [World EXCEPT !.ui.dialog.row = m]
  <2>1. next.calls = World.calls /\ Alike(World, next, Asides)
      BY WorldSafe DEF Safe, IsWorld, IsUi, Alike, Asides, WorldFields, UiFields
  <2>2. Become({next})
      BY <1>4 DEF GoToStep
  <2> HIDE DEF next
  <2>3. Safe(next, "none")
      BY <1>0, <2>1, WorldSafe, WizardAside
  <2> QED BY <2>2, <2>3, Becoming
<1>5. ASSUME NEW v, TypeName(v)
      PROVE  ViewsInv'
  <2>1. Safe(SetInputs(World, [Inputs(World) EXCEPT !.view = v]), "none")
      BY <1>0, WorldSafe, SettingInputs
  <2> QED BY <1>5, <2>1, Becoming DEF TypeName
<1>6. ASSUME NEW url, TypeAddress(url)
      PROVE  ViewsInv'
  <2>1. Safe(SetInputs(World, [Inputs(World) EXCEPT !.url = url]), "none")
      BY <1>0, WorldSafe, SettingInputs
  <2> QED BY <1>6, <2>1, Becoming DEF TypeAddress
<1>7. ASSUME NEW r, ChooseAgent(r)
      PROVE  ViewsInv'
  <2>1. Safe(SelectAgent(World, r), "none")
      BY <1>0, WorldSafe, SelectingAgent
  <2> QED BY <1>7, <2>1, Becoming DEF ChooseAgent
<1>8. ASSUME NEW mode, ChooseMode(mode)
      PROVE  ViewsInv'
  <2> DEFINE next == SetInputs(World, [Inputs(World) EXCEPT !.mode = mode])
             agent == CHOOSE r \in ui.sel : TRUE
  <2>1. Safe(next, "none")
      BY <1>0, WorldSafe, SettingInputs
  <2>2. Become({IF mode = "existing" /\ ui.sel # {} THEN SelectAgent(next, agent) ELSE next})
      BY <1>8 DEF ChooseMode
  <2> HIDE DEF next, agent
  <2>3. Safe(SelectAgent(next, agent), "none")
      BY <1>0, <2>1, SelectingAgent
  <2>4. Safe(IF mode = "existing" /\ ui.sel # {} THEN SelectAgent(next, agent) ELSE next, "none")
      BY <2>1, <2>3
  <2> QED BY <2>2, <2>4, Becoming
<1>9. ASSUME NEW failure \in {"overlap", "refused"}, CreateSource(failure)
      PROVE  ViewsInv'
  <2> DEFINE w == Write(World, "create", {}, "submit", failure)
  <2>1. Takes(World, "submit", "none") /\ After("submit", "none") = "none"
      BY <1>9 DEF Takes, After, CreateSource, World
  <2>2. Fits("create", {}, "submit", failure, ui.flight)
      BY <1>0 DEF Fits, Flags, IsWrite, CallOK, MayHold, ReadPages, ChannelPages, QueryPages
  <2>3. w.ui.started = World.ui.started + 1
    <3>1. PICK c : Written(World, w, c)
        BY WorldSafe, WriteShape
    <3> QED BY <3>1 DEF Written
  <2>4. Safe(Annotated(w, w.ui.started, ui.flight), "none")
      BY <1>0, <2>1, <2>2, <2>3, WorldSafe, WritingAnnotated
  <2>5. Become({Annotated(w, w.ui.started, ui.flight)})
      BY <1>9 DEF CreateSource, Annotated
  <2> QED BY <2>4, <2>5, Becoming
<1> QED BY <1>1, <1>2, <1>3, <1>4, <1>5, <1>6, <1>7, <1>8, <1>9 DEF AccessWizardNext

\* What follows the calls of AccessWizard.
LEMMA AccessWizardAnswers ==
    ASSUME ViewsInv, page = "AccessWizard", NEW w, NEW k, NEW c, Results(w, k, c), InTurn(c)
    PROVE  Safe(AccessWizardAnswer(k, w), "none")
<1>1. /\ k.kind = c.kind /\ k.flag = c.flag /\ k.panel = c.panel
      /\ c.kind = "read" => c.flag = "none" /\ Reading(c)
      /\ c.kind \in {"read", "create"}
  <2>1. Reply(w, k, c)
      BY ReplyShape
  <2> QED BY <2>1 DEF Reply, CallOK, MayHold, ChannelPages, Reading
<1>2. CASE c.kind = "read"
  <2>1. Safe(AnsweredKeeping(k, w), "none")
      BY <1>1, <1>2, SimpleRead DEF LatestPages
  <2>2. \A new : Safe(SetInputs(AnsweredKeeping(k, w), new), "none")
      BY <2>1, SettingInputs
  <2>3. Safe(WizardAgents(k, w), "none")
      BY <2>1, <2>2 DEF WizardAgents
  <2> QED BY <1>1, <1>2, <2>1, <2>3 DEF AccessWizardAnswer
<1>3. CASE c.kind = "create"
  <2>1. Safe(w, k.flag)
      BY <1>1, <1>3, Passing DEF Marks, ChannelPages
  <2>2. Safe(Idle(w, k.flag), "none")
      BY <2>1, Idling
  <2>3. Safe(Leave(w), "none")
      BY <2>1, LeavingPage
  <2> DEFINE j == [NewCall EXCEPT !.kind = "create", !.of = k.of, !.flag = k.flag, !.then = "paused"]
  <2>4. /\ j = [x \in CallFields |-> j[x]] /\ j.kind = "create" /\ j.panel = "list" /\ j.flag = k.flag
        /\ j.then = "paused" /\ j.rows = {} /\ j.since = None
      BY DEF NewCall, CallFields
  <2> HIDE DEF j
  <2>5. Fits("create", {}, k.flag, "paused", None)
    <3>1. k.flag \in Flags \cup {"none"}
        BY <2>1 DEF Safe, Sound, Once
    <3> QED BY <3>1 DEF Fits, IsWrite, CallOK, MayHold, ReadPages, ChannelPages, QueryPages
  <2>6. Safe(Send(w, j), "none")
      BY <2>1, <2>4, <2>5, SendingOn
  <2>7. Safe(SourceCreated(k, w), "none")
      BY <2>2, <2>3, <2>6 DEF SourceCreated, j
  <2> QED BY <1>1, <1>3, <2>7 DEF AccessWizardAnswer
<1> QED BY <1>1, <1>2, <1>3

----------------------------------------------------------------------------
(* BackupRecovery.                                                          *)

\* q with its error dropped.
Unfailed(q, old) ==
    /\ q = [x \in PanelFields |-> q[x]] /\ q.failed = FALSE
    /\ q.of = old.of /\ q.shown = old.shown /\ q.loading = old.loading /\ q.latest = old.latest

\* Both lists drop the error: the repositories are always those that were
\* asked for, and the snapshots are hidden or on their way.
LEMMA DroppingErrors ==
    ASSUME NEW w, NEW f, Safe(w, f), page = "BackupRecovery",
           w.ui.list.shown = None \/ Waits(w.ui, w.calls, "list")
    PROVE  Safe([w EXCEPT !.ui.list.failed = FALSE, !.ui.side.failed = FALSE], f)
<1> DEFINE m == [w EXCEPT !.ui.list.failed = FALSE]
           n == [w EXCEPT !.ui.list.failed = FALSE, !.ui.side.failed = FALSE]
<1>1. IsWorld(w) /\ IsPanel(w.ui.list) /\ IsPanel(w.ui.side)
    BY DEF Safe, IsWorld, IsUi
<1>2. \A q : IsPanel(q) => Unfailed([q EXCEPT !.failed = FALSE], q)
    BY DEF IsPanel, PanelFields, Unfailed
<1>3. /\ m.calls = w.calls /\ Alike(w, m, {"list"})
      /\ m.ui.list = [w.ui.list EXCEPT !.failed = FALSE]
    BY <1>1 DEF IsWorld, IsUi, Alike, WorldFields, UiFields
<1>4. /\ n.calls = w.calls /\ Alike(m, n, {"side"})
      /\ n.ui.side = [w.ui.side EXCEPT !.failed = FALSE]
    BY <1>1 DEF IsWorld, IsUi, Alike, WorldFields, UiFields
<1> HIDE DEF m, n
<1>5. Unfailed(m.ui.list, w.ui.list) /\ IsPanel(m.ui.list)
    BY <1>1, <1>2, <1>3 DEF Unfailed, IsPanel
<1>6. Unfailed(n.ui.side, w.ui.side) /\ IsPanel(n.ui.side)
    BY <1>1, <1>2, <1>4 DEF Unfailed, IsPanel
<1>7. Safe(m, f)
  <2>1. \A o \in {FirstView, "repositories"} : Fixed("list", o) /\ w.ui.list.shown # None => w.ui.list.shown.of = o
      BY DEF Safe, Sound, Asked, Panels
  <2>2. Redrawn(w, "list", m.ui.list)
      BY <1>5, <2>1 DEF Redrawn, Settled, Unfailed
  <2>3. AsidesOK(m.ui)
    <3>1. /\ m.ui.sel = w.ui.sel /\ m.ui.dialog = w.ui.dialog /\ m.ui.busy = w.ui.busy /\ m.ui.held = w.ui.held
        BY <1>3 DEF Alike, UiFields
    <3> QED BY <3>1 DEF AsidesOK, Safe, Sound, Selected, Selectable, DialogOK, HeldOK
  <2>4. Alike(w, m, Asides \cup {"list"}) /\ "list" \in Panels
      BY <1>3 DEF Alike, Panels
  <2> QED BY <1>3, <2>2, <2>3, <2>4, Redrawing
<1>8. m.ui.side = w.ui.side
    BY <1>3 DEF Alike, UiFields
<1>9. Redrawn(m, "side", n.ui.side)
  <2>1. Fixed("side", "repositories")
      BY DEF Fixed
  <2>2. m.ui.side.of \in {None, "repositories"}
        /\ (m.ui.side.shown # None => m.ui.side.shown.of = "repositories")
      BY <1>7, <2>1 DEF Safe, Sound, Asked, Panels
  <2>3. \A o \in {FirstView, "repositories"} : Fixed("side", o) /\ m.ui.side.shown # None => m.ui.side.shown.of = o
      BY <1>7 DEF Safe, Sound, Asked, Panels
  <2> QED BY <1>6, <1>8, <2>2, <2>3 DEF Redrawn, Settled, Unfailed
<1>10. AsidesOK(n.ui)
  <2>1. /\ n.ui.sel = m.ui.sel /\ n.ui.dialog = m.ui.dialog /\ n.ui.busy = m.ui.busy /\ n.ui.held = m.ui.held
      BY <1>4 DEF Alike, UiFields
  <2> QED BY <1>7, <2>1 DEF AsidesOK, Safe, Sound, Selected, Selectable, DialogOK, HeldOK
<1>11. Alike(m, n, Asides \cup {"side"}) /\ "side" \in Panels
    BY <1>4 DEF Alike, Panels
<1>12. Safe(n, f)
    BY <1>3, <1>4, <1>7, <1>9, <1>10, <1>11, Redrawing
<1> QED BY <1>12 DEF n

\* What the page may load.
LEMMA BackupPanels ==
    ASSUME page = "BackupRecovery"
    PROVE  LoadOf("side", "repositories") /\ (\A x : LoadOf("list", x)) /\ page \notin QueryPages
BY DEF LoadOf, Fixed, Panels, OnePages, QueryPages

\* The snapshots of a repository are loaded, or hidden when there is none.
LEMMA LoadingSnapshots ==
    ASSUME NEW w, NEW f, Safe(w, f), page = "BackupRecovery", NEW repo
    PROVE  Safe(LoadSnapshots(w, repo), f)
<1>1. CASE repo = None
    BY <1>1, Hiding DEF LoadSnapshots
<1>2. CASE repo # None
  <2> DEFINE n == Load(w, "list", repo)
  <2>1. Safe(n, f)
      BY BackupPanels, Loading
  <2>2. PICK c : AwaitMakes(w, n, c, "list", repo, "none", "none")
    <3>1. \E c : AwaitMakes(w, Await(w, "list", repo, "none", "none"), c, "list", repo, "none", "none")
        BY AwaitShape DEF Panels
    <3> QED BY <3>1, Zenon DEF Load
  <2> HIDE DEF n
  <2>3. Waits(n.ui, n.calls, "list")
      BY <2>2 DEF AwaitMakes, Asking, Waits, Last, Loads
  <2>4. Safe([n EXCEPT !.ui.list.failed = FALSE, !.ui.side.failed = FALSE], f)
      BY <2>1, <2>3, DroppingErrors
  <2> QED BY <1>2, <2>4 DEF n, LoadSnapshots, LoadBackup
<1> QED BY <1>1, <1>2

\* z is y with the list q.
ListIs(y, z, q) ==
    /\ z.ui.list = q
    /\ z.ui = [x \in UiFields |-> z.ui[x]] /\ z = [x \in WorldFields |-> z[x]]
    /\ \A x \in UiFields \ {"list"} : z.ui[x] = y.ui[x]
    /\ \A x \in WorldFields \ {"ui"} : z[x] = y[x]

\* A load of the list changes the list alone: it then awaits the answer of its call.
LEMMA ListAwaited ==
    ASSUME NEW y, y = [x \in WorldFields |-> y[x]], y.ui = [x \in UiFields |-> y.ui[x]],
           NEW of, NEW i
    PROVE  ListIs(y, [y EXCEPT !.ui["list"].of = of, !.ui["list"].loading = TRUE,
                               !.ui["list"].failed = FALSE, !.ui["list"].latest = i],
                  Awaited(y.ui.list, of, i))
<1> DEFINE z == [y EXCEPT !.ui["list"].of = of, !.ui["list"].loading = TRUE,
                          !.ui["list"].failed = FALSE, !.ui["list"].latest = i]
<1>1. z.ui["list"] = Awaited(y.ui["list"], of, i)
    BY DEF WorldFields, UiFields, Awaited
<1>2. z.ui = [x \in UiFields |-> z.ui[x]] /\ z = [x \in WorldFields |-> z[x]]
    BY DEF WorldFields, UiFields
<1>3. \A x \in UiFields \ {"list"} : z.ui[x] = y.ui[x]
    BY DEF WorldFields, UiFields
<1>4. z.calls = y.calls /\ z.store = y.store /\ z.version = y.version
    BY DEF WorldFields
<1> HIDE DEF z
<1>5. \A x \in WorldFields \ {"ui"} : z[x] = y[x]
    BY <1>4 DEF WorldFields
<1>6. z.ui.list = Awaited(y.ui.list, of, i)
    BY <1>1
<1>7. ListIs(y, z, Awaited(y.ui.list, of, i))
    BY <1>2, <1>3, <1>5, <1>6 DEF ListIs
<1> QED BY <1>7 DEF z

\* The repositories are loaded, and the snapshots of the one that is selected.
LEMMA LoadingBackup ==
    ASSUME NEW w, NEW f, Safe(w, f), page = "BackupRecovery", NEW repo
    PROVE  Safe(LoadSnapshots(LoadBackup(w, "side", "repositories"), repo), f)
<1> DEFINE a == Load(w, "side", "repositories")
           b == [a EXCEPT !.ui.list.failed = FALSE, !.ui.side.failed = FALSE]
<1>1. Safe(a, f)
    BY BackupPanels, Loading
<1>2. PICK c : AwaitMakes(w, a, c, "side", "repositories", "none", "none")
  <2>1. \E c : AwaitMakes(w, Await(w, "side", "repositories", "none", "none"), c, "side", "repositories", "none", "none")
      BY AwaitShape DEF Panels
  <2> QED BY <2>1, Zenon DEF Load
<1>3. LoadBackup(w, "side", "repositories") = b
    BY DEF LoadBackup
<1> HIDE DEF a
<1>4. IsWorld(a) /\ IsPanel(a.ui.list) /\ IsPanel(a.ui.side)
    BY <1>1 DEF Safe, IsWorld, IsUi
<1>5. CASE repo = None
  <2> DEFINE h == [a EXCEPT !.ui.list.shown = None]
             g == [h EXCEPT !.ui.list.failed = FALSE, !.ui.side.failed = FALSE]
             n == [b EXCEPT !.ui.list.shown = None]
  <2>1. Safe(h, f)
      BY <1>1, Hiding
  <2>2. h.ui.list.shown = None
      BY <1>4 DEF IsWorld, IsUi, IsPanel, WorldFields, UiFields, PanelFields
  <2>3. Safe(g, f)
      BY <2>1, <2>2, DroppingErrors
  <2>4. n = g
    <3>1. n.ui.list = g.ui.list
        BY <1>4 DEF IsWorld, IsUi, IsPanel, WorldFields, UiFields, PanelFields
    <3>2. /\ n.calls = a.calls /\ n.store = a.store /\ n.version = a.version
          /\ g.calls = a.calls /\ g.store = a.store /\ g.version = a.version
          /\ n = [x \in WorldFields |-> n[x]] /\ g = [x \in WorldFields |-> g[x]]
      <4>1. /\ b.calls = a.calls /\ b.store = a.store /\ b.version = a.version /\ b = [x \in WorldFields |-> b[x]]
            /\ h.calls = a.calls /\ h.store = a.store /\ h.version = a.version /\ h = [x \in WorldFields |-> h[x]]
          BY <1>4 DEF IsWorld, WorldFields
      <4> HIDE DEF b, h
      <4> QED BY <4>1 DEF WorldFields
    <3>3. Alike(a, n, {"list", "side"}) /\ n.ui.side = [a.ui.side EXCEPT !.failed = FALSE]
        BY <1>4 DEF IsWorld, IsUi, Alike, WorldFields, UiFields
    <3>4. Alike(a, g, {"list", "side"}) /\ g.ui.side = [a.ui.side EXCEPT !.failed = FALSE]
        BY <1>4 DEF IsWorld, IsUi, Alike, WorldFields, UiFields
    <3> HIDE DEF n, g
    <3>5. n.ui = g.ui
        BY <3>1, <3>3, <3>4 DEF Alike, UiFields
    <3> QED BY <3>2, <3>5 DEF WorldFields
  <2> HIDE DEF n, g
  <2>5. Safe(n, f)
      BY <2>3, <2>4
  <2> QED BY <1>3, <1>5, <2>5 DEF n, LoadSnapshots
<1>6. CASE repo # None
  <2> DEFINE l == Load(a, "list", repo)
             m == Load(b, "list", repo)
  <2>1. /\ b.calls = a.calls /\ b.store = a.store /\ b.version = a.version
        /\ b = [x \in WorldFields |-> b[x]] /\ b.ui = [x \in UiFields |-> b.ui[x]]
        /\ \A x \in UiFields \ {"list", "side"} : b.ui[x] = a.ui[x]
        /\ b.ui.list = [a.ui.list EXCEPT !.failed = FALSE]
        /\ b.ui.side = [a.ui.side EXCEPT !.failed = FALSE]
      BY <1>4 DEF IsWorld, IsUi, WorldFields, UiFields
  <2>2. b.ui.side = a.ui.side
    <3>1. a.ui.side.failed = FALSE
        BY <1>2 DEF AwaitMakes, Asking
    <3> QED BY <1>4, <2>1, <3>1 DEF IsPanel, PanelFields
  <2> HIDE DEF b
  <2>3. b.ui.started = a.ui.started /\ a.ui.started \in Nat
      BY <1>4, <2>1 DEF UiFields, IsWorld, IsUi
  <2>4. m = l
    <3> DEFINE k == [NewCall EXCEPT !.panel = "list", !.of = repo, !.flag = "none", !.then = "none"]
               i == a.ui.started + 1
               e == [k EXCEPT !.id = i, !.at = IF k.kind = "read" THEN Snapshot(a, k.of) ELSE None]
               s == [a EXCEPT !.calls = @ \cup {e}, !.ui.started = @ + 1]
               t == [b EXCEPT !.calls = @ \cup {e}, !.ui.started = @ + 1]
    <3>1. Send(a, k) = s
        BY DEF Send
    <3>2. Send(b, k) = t
      <4>1. Snapshot(b, k.of) = Snapshot(a, k.of)
          BY <2>1 DEF Snapshot
      <4> QED BY <2>3, <4>1 DEF Send
    <3>3. /\ l = [s EXCEPT !.ui["list"].of = repo, !.ui["list"].loading = TRUE,
                           !.ui["list"].failed = FALSE, !.ui["list"].latest = i]
          /\ m = [t EXCEPT !.ui["list"].of = repo, !.ui["list"].loading = TRUE,
                           !.ui["list"].failed = FALSE, !.ui["list"].latest = i]
        BY <2>3, <3>1, <3>2 DEF Load, Await
    <3> HIDE DEF k, e, i
    <3>4. /\ s.ui.list = a.ui.list /\ t.ui.list = b.ui.list
          /\ t.ui = [x \in UiFields |-> t.ui[x]] /\ s.ui = [x \in UiFields |-> s.ui[x]]
          /\ t = [x \in WorldFields |-> t[x]] /\ s = [x \in WorldFields |-> s[x]]
          /\ \A x \in UiFields \ {"list"} : t.ui[x] = s.ui[x]
          /\ \A x \in WorldFields \ {"ui"} : t[x] = s[x]
        BY <1>4, <2>1, <2>2, <2>3 DEF IsWorld, IsUi, WorldFields, UiFields
    <3> HIDE DEF s, t
    <3>52. ListIs(s, l, Awaited(a.ui.list, repo, i)) /\ ListIs(t, m, Awaited(b.ui.list, repo, i))
      <4>1. ListIs(s, [s EXCEPT !.ui["list"].of = repo, !.ui["list"].loading = TRUE,
                                !.ui["list"].failed = FALSE, !.ui["list"].latest = i],
                   Awaited(s.ui.list, repo, i))
          BY <3>4, ListAwaited
      <4>2. ListIs(t, [t EXCEPT !.ui["list"].of = repo, !.ui["list"].loading = TRUE,
                                !.ui["list"].failed = FALSE, !.ui["list"].latest = i],
                   Awaited(t.ui.list, repo, i))
          BY <3>4, ListAwaited
      <4> QED BY <3>3, <3>4, <4>1, <4>2, Zenon
    <3> HIDE DEF l, m
    <3>5. /\ l.ui = [x \in UiFields |-> l.ui[x]] /\ m.ui = [x \in UiFields |-> m.ui[x]]
          /\ l = [x \in WorldFields |-> l[x]] /\ m = [x \in WorldFields |-> m[x]]
          /\ \A x \in UiFields \ {"list"} : m.ui[x] = l.ui[x]
          /\ \A x \in WorldFields \ {"ui"} : m[x] = l[x]
        BY <3>4, <3>52 DEF ListIs
    <3>6. m.ui.list = l.ui.list
      <4>1. \A q : IsPanel(q) => Awaited([q EXCEPT !.failed = FALSE], repo, i) = Awaited(q, repo, i)
          BY DEF IsPanel, PanelFields, Awaited
      <4> QED BY <1>4, <2>1, <3>52, <4>1 DEF ListIs
    <3>7. m.ui = l.ui
        BY <3>5, <3>6 DEF UiFields
    <3> QED BY <3>5, <3>7 DEF WorldFields
  <2>5. Safe(l, f)
      BY <1>1, BackupPanels, Loading
  <2>6. PICK d : AwaitMakes(a, l, d, "list", repo, "none", "none")
    <3>1. \E d : AwaitMakes(a, Await(a, "list", repo, "none", "none"), d, "list", repo, "none", "none")
        BY <1>1, AwaitShape DEF Panels
    <3> QED BY <3>1, Zenon DEF Load
  <2> HIDE DEF l
  <2>7. Waits(l.ui, l.calls, "list")
      BY <2>6 DEF AwaitMakes, Asking, Waits, Last, Loads
  <2>8. Safe([l EXCEPT !.ui.list.failed = FALSE, !.ui.side.failed = FALSE], f)
      BY <2>5, <2>7, DroppingErrors
  <2>9. LoadSnapshots(b, repo) = [m EXCEPT !.ui.list.failed = FALSE, !.ui.side.failed = FALSE]
      BY <1>6 DEF LoadSnapshots, LoadBackup
  <2> HIDE DEF m
  <2> QED BY <1>3, <2>4, <2>8, <2>9
<1> QED BY <1>5, <1>6

\* A repository is selected.
LEMMA SelectingRepository ==
    ASSUME NEW w, NEW f, Safe(w, f), page = "BackupRecovery", NEW repo, NEW view, NEW held
    PROVE  /\ Safe(SelectRepository(w, repo), f)
           /\ Safe(LoadSnapshots(LoadBackup([w EXCEPT !.ui.view = view, !.ui.held = held], "side",
                                            "repositories"), repo), f)
<1>1. ASSUME NEW x, NEW y
      PROVE  Safe(LoadSnapshots(LoadBackup([w EXCEPT !.ui.view = x, !.ui.held = y], "side",
                                           "repositories"), repo), f)
  <2>1. Safe([w EXCEPT !.ui.view = x, !.ui.held = y], f)
      BY SetViewHeld DEF Holdable
  <2> QED BY <2>1, LoadingBackup
<1> QED BY <1>1, Zenon DEF SelectRepository

\* The writes of BackupRecovery.
LEMMA BackupWrites ==
    ASSUME page = "BackupRecovery", NEW rows
    PROVE  /\ Fits("create", rows, "create", "none", None) /\ Fits("restore", rows, "restore", "none", None)
           /\ Fits("cancel", rows, "none", "none", None) /\ Fits("delete", rows, "none", "none", None)
BY DEF Fits, Flags, IsWrite, CallOK, MayHold, ReadPages, ChannelPages, QueryPages

\* What BackupRecovery does when it is opened.
LEMMA BackupRecoveryMounted ==
    ASSUME NEW w, Safe(w, "none"), page = "BackupRecovery", NEW repo
    PROVE  Safe(BackupRecoveryMount(w, repo), "none")
BY SelectingRepository DEF BackupRecoveryMount

\* What the user and the timers do on BackupRecovery.
LEMMA BackupRecoveryKept ==
    ASSUME ViewsInv, BackupRecoveryNext
    PROVE  ViewsInv'
<1>0. page = "BackupRecovery"
    BY DEF BackupRecoveryNext, ReloadSnapshots, CloseSnapshot, CreateSnapshot, RestoreSnapshot,
           ChooseRepository, OpenSnapshot, CancelSnapshot, DeleteSnapshot, SnapshotTable, OnBackup
<1>1. CASE ReloadSnapshots
  <2>1. Safe(LoadSnapshots(World, ui.view), "none")
      BY <1>0, WorldSafe, LoadingSnapshots
  <2> QED BY <1>1, <2>1, Becoming DEF ReloadSnapshots
<1>2. CASE CloseSnapshot
    BY <1>2, WorldSafe, Closing, Becoming DEF CloseSnapshot
<1>3. CASE CreateSnapshot
  <2>1. "create" \notin World.ui.busy
      BY <1>3 DEF CreateSnapshot, World
  <2>2. Safe(Write(World, "create", {}, "create", "none"), "none")
      BY <1>0, <2>1, WorldSafe, BackupWrites, FlagWrite
  <2> QED BY <1>3, <2>2, Becoming DEF CreateSnapshot
<1>4. CASE RestoreSnapshot
  <2>1. "restore" \notin World.ui.busy
      BY <1>4 DEF RestoreSnapshot, World
  <2>2. Safe(Write(World, "restore", {ui.dialog.row}, "restore", "none"), "none")
      BY <1>0, <2>1, WorldSafe, BackupWrites, FlagWrite
  <2> QED BY <1>4, <2>2, Becoming DEF RestoreSnapshot
<1>5. ASSUME NEW v, ChooseRepository(v)
      PROVE  ViewsInv'
  <2>1. Safe(SelectRepository(World, v), "none")
      BY <1>0, WorldSafe, SelectingRepository
  <2> QED BY <1>5, <2>1, Becoming DEF ChooseRepository
<1>6. ASSUME NEW r, NEW kind, OpenSnapshot(kind, r)
      PROVE  ViewsInv'
  <2>1. Safe(Open(World, kind, r), "none")
      BY <1>0, WorldSafe, Opening DEF FormPages
  <2> QED BY <1>6, <2>1, Becoming DEF OpenSnapshot
<1>7. ASSUME NEW r \in Row, CancelSnapshot(r)
      PROVE  ViewsInv'
  <2>1. Safe(Write(World, "cancel", {r}, "none", "none"), "none")
      BY <1>0, WorldSafe, BackupWrites, PlainWrite
  <2>2. Safe([Write(World, "cancel", {r}, "none", "none") EXCEPT !.ui.flight = r], "none")
      BY <2>1, SetFields
  <2> QED BY <1>7, <2>2, Becoming DEF CancelSnapshot
<1>8. ASSUME NEW r \in Row, DeleteSnapshot(r)
      PROVE  ViewsInv'
  <2>1. Marks("delete")
      BY <1>0 DEF Marks
  <2>2. Safe(Mark(Write(World, "delete", {r}, "none", "none"), r), "none")
      BY <1>0, <2>1, WorldSafe, BackupWrites, MarkingRow
  <2> QED BY <1>8, <2>2, Becoming DEF DeleteSnapshot
<1> QED BY <1>1, <1>2, <1>3, <1>4, <1>5, <1>6, <1>7, <1>8 DEF BackupRecoveryNext

\* What follows the calls of BackupRecovery.
LEMMA BackupRecoveryAnswers ==
    ASSUME ViewsInv, page = "BackupRecovery", NEW w, NEW k, NEW c, Results(w, k, c), InTurn(c)
    PROVE  Safe(BackupRecoveryAnswer(k, w), "none")
<1>1. /\ k.kind = c.kind /\ k.flag = c.flag /\ k.panel = c.panel /\ c.then # "reread"
      /\ c.kind \in {"read", "create", "restore", "cancel", "delete"}
      /\ c.kind \notin {"create", "restore"} => c.flag = "none"
  <2>1. Reply(w, k, c)
      BY ReplyShape
  <2> QED BY <2>1 DEF Reply, CallOK, MayHold, ChannelPages
<1>2. CASE c.kind = "read"
  <2>1. Reading(c) /\ c.flag = "none"
      BY <1>1, <1>2 DEF Reading
  <2>2. Safe(AnsweredKeeping(k, w), "none")
      BY <2>1, SimpleRead DEF LatestPages
  <2>3. \A repo : Safe(SelectRepository(AnsweredKeeping(k, w), repo), "none")
      BY <2>2, SelectingRepository
  <2>4. Safe(RepositoriesAnswered(k, w), "none")
      BY <2>2, <2>3, Zenon DEF RepositoriesAnswered
  <2> QED BY <1>1, <1>2, <2>2, <2>4 DEF BackupRecoveryAnswer
<1>3. CASE c.kind \in {"create", "restore"}
  <2>1. Safe(w, k.flag)
      BY <1>1, <1>3, Passing DEF Marks, ChannelPages
  <2>2. Safe(Idle(w, k.flag), "none")
      BY <2>1, Idling
  <2>3. Safe(Close(Idle(w, k.flag)), "none")
      BY <2>2, Closing
  <2>4. Safe(SnapshotRestored(k, w), "none")
      BY <2>2, <2>3 DEF SnapshotRestored
  <2>5. Safe(CloseForm(w), k.flag)
      BY <2>1, Closing
  <2>6. Safe(Idle(CloseForm(w), k.flag), "none")
      BY <2>5, Idling
  <2>7. Safe(Idle(IF k.ok THEN CloseForm(w) ELSE w, k.flag), "none")
      BY <2>2, <2>6
  <2>8. Safe(LoadSnapshots(Idle(IF k.ok THEN CloseForm(w) ELSE w, k.flag), k.of), "none")
      BY <2>7, LoadingSnapshots
  <2>9. k.kind = "create" => Safe(SnapshotChanged(k, w), "none")
      BY <2>7, <2>8 DEF SnapshotChanged
  <2> QED BY <1>1, <1>3, <2>4, <2>9 DEF BackupRecoveryAnswer
<1>4. CASE c.kind = "cancel"
  <2>1. Safe(w, "none")
      BY <1>1, <1>4, Passing DEF Marks, ChannelPages
  <2>2. Safe([w EXCEPT !.ui.flight = None], "none")
      BY <2>1, SetFields
  <2>3. Safe(LoadSnapshots([w EXCEPT !.ui.flight = None], k.of), "none")
      BY <2>2, LoadingSnapshots
  <2>4. Safe(SnapshotChanged(k, w), "none")
      BY <1>1, <1>4, <2>2, <2>3 DEF SnapshotChanged
  <2> QED BY <1>1, <1>4, <2>4 DEF BackupRecoveryAnswer
<1>5. CASE c.kind = "delete"
  <2>1. Marks(c.kind)
      BY <1>5 DEF Marks
  <2>2. Safe(Unmark(w), "none")
      BY <1>5, <2>1, PassingMarked
  <2>3. Safe(LoadSnapshots(Unmark(w), k.of), "none")
      BY <2>2, LoadingSnapshots
  <2>4. Safe(SnapshotChanged(k, w), "none")
      BY <1>1, <1>5, <2>2, <2>3 DEF SnapshotChanged
  <2> QED BY <1>1, <1>5, <2>4 DEF BackupRecoveryAnswer
<1> QED BY <1>1, <1>2, <1>3, <1>4, <1>5

----------------------------------------------------------------------------
(* DownloadRecords.                                                         *)
\* What DownloadRecords loads.
LEMMA JobLoads ==
    ASSUME NEW w, NEW f, Safe(w, f), page = "DownloadRecords", NEW view
    PROVE  Safe(LoadJobs(w, view), f)
<1>1. "list" \in Panels /\ Free
    BY DEF Panels, Free, OnePages, QueryPages
<1> QED BY <1>1, LoadingFree DEF LoadJobs

\* The writes of DownloadRecords.
LEMMA JobWrites ==
    ASSUME page = "DownloadRecords", NEW rows
    PROVE  Fits("create", rows, "create", "none", None) /\ Fits("download", rows, "none", "none", None)
BY DEF Fits, Flags, IsWrite, CallOK, MayHold, ReadPages, ChannelPages, QueryPages

\* What the user and the timers do on DownloadRecords.
LEMMA DownloadRecordsKept ==
    ASSUME ViewsInv, DownloadRecordsNext
    PROVE  ViewsInv'
<1>0. page = "DownloadRecords"
    BY DEF DownloadRecordsNext, ReloadJobs, PollJobs, OpenCreateJob, CloseCreateJob, CreateJob,
           ChangeJobPage, DownloadJob, OnDownloads
<1>1. Safe(LoadJobs(World, ui.view), "none")
    BY <1>0, WorldSafe, JobLoads
<1>2. CASE ReloadJobs
    BY <1>1, <1>2, Becoming DEF ReloadJobs
<1>3. CASE PollJobs
    BY <1>1, <1>3, Becoming DEF PollJobs
<1>4. CASE OpenCreateJob
  <2>1. Safe(Open(World, "create", None), "none")
      BY <1>0, WorldSafe, Opening DEF FormPages
  <2> QED BY <1>4, <2>1, Becoming DEF OpenCreateJob
<1>5. CASE CloseCreateJob
    BY <1>5, WorldSafe, Closing, Becoming DEF CloseCreateJob
<1>6. CASE CreateJob
  <2>1. "create" \notin World.ui.busy
      BY <1>6 DEF CreateJob, World
  <2>2. Safe(Write(World, "create", {}, "create", "none"), "none")
      BY <1>0, <2>1, WorldSafe, JobWrites, FlagWrite
  <2> QED BY <1>6, <2>2, Becoming DEF CreateJob
<1>7. ASSUME NEW v, ChangeJobPage(v)
      PROVE  ViewsInv'
  <2>1. Safe([World EXCEPT !.ui.view = v], "none")
      BY WorldSafe, SetFields
  <2>2. Safe(LoadJobs([World EXCEPT !.ui.view = v], v), "none")
      BY <1>0, <2>1, JobLoads
  <2> QED BY <1>7, <2>2, Becoming DEF ChangeJobPage
<1>8. ASSUME NEW r \in Row, DownloadJob(r)
      PROVE  ViewsInv'
  <2>1. Marks("download")
      BY <1>0 DEF Marks
  <2>2. Safe(Mark(Write(World, "download", {r}, "none", "none"), r), "none")
      BY <1>0, <2>1, WorldSafe, JobWrites, MarkingRow
  <2> QED BY <1>8, <2>2, Becoming DEF DownloadJob
<1> QED BY <1>2, <1>3, <1>4, <1>5, <1>6, <1>7, <1>8 DEF DownloadRecordsNext

\* What follows the calls of DownloadRecords.
LEMMA DownloadRecordsAnswers ==
    ASSUME ViewsInv, page = "DownloadRecords", NEW w, NEW k, NEW c, Results(w, k, c), InTurn(c)
    PROVE  Safe(DownloadRecordsAnswer(k, w), "none")
<1>1. /\ k.kind = c.kind /\ k.flag = c.flag /\ c.then # "reread"
      /\ c.kind \in {"read", "create", "download"}
      /\ c.kind # "create" => c.flag = "none"
  <2>1. Reply(w, k, c)
      BY ReplyShape
  <2> QED BY <2>1 DEF Reply, CallOK, MayHold, ChannelPages
<1>2. CASE c.kind = "read"
  <2>1. Reading(c) /\ c.flag = "none"
      BY <1>1, <1>2 DEF Reading
  <2>2. Safe(AnsweredKeeping(k, w), "none")
      BY <2>1, SimpleRead DEF LatestPages
  <2> QED BY <1>1, <1>2, <2>2 DEF DownloadRecordsAnswer
<1>3. CASE c.kind = "create"
  <2>1. Safe(w, k.flag)
      BY <1>1, <1>3, Passing DEF Marks, ChannelPages
  <2>2. Safe(Idle(w, k.flag), "none")
      BY <2>1, Idling
  <2>3. Safe(Close(Idle(w, k.flag)), "none")
      BY <2>2, Closing
  <2>4. Safe(LoadJobs(Close(Idle(w, k.flag)), k.of), "none")
      BY <2>3, JobLoads
  <2>5. Safe(JobCreated(k, w), "none")
      BY <2>2, <2>4 DEF JobCreated
  <2> QED BY <1>1, <1>3, <2>5 DEF DownloadRecordsAnswer
<1>4. CASE c.kind = "download"
  <2>1. Marks(c.kind)
      BY <1>4 DEF Marks
  <2>2. Safe(Unmark(w), "none")
      BY <1>4, <2>1, PassingMarked
  <2> QED BY <1>1, <1>4, <2>2 DEF DownloadRecordsAnswer
<1> QED BY <1>1, <1>2, <1>3, <1>4

----------------------------------------------------------------------------
(***************************************************************************)
(* All pages.                                                              *)
(***************************************************************************)
\* What the first renders of the pages make of their effects is safe.
LEMMA MountsSafe ==
    ASSUME page \in Page, NEW s, NEW w \in Mounts(page, Opened(s))
    PROVE  Safe(w, "none")
<1> DEFINE o == Opened(s)
<1>0. page \in PageNames
    BY PageNamesAssumption
<1>1. page # "LoginPolicy" => Safe(o, "none")
    BY Starting

<1>2. CASE page = "AlertList"
  <2>1. Safe(AlertListMount(o), "none")
      BY <1>1, <1>2, AlertLoadsPlain DEF AlertListMount
  <2> QED BY <1>2, <2>1 DEF Mounts
<1>3. CASE page = "AlertRules"
  <2>1. Safe(AlertRulesMount(o, None), "none") /\ Safe(AlertRulesMount(o, "draft"), "none")
      BY <1>1, <1>3, AlertRulesMounted
  <2> QED BY <1>3, <2>1 DEF Mounts
<1>4. CASE page = "SilencePolicy"
  <2>1. Safe(SilencePolicyMount(o), "none")
      BY <1>1, <1>4, SilenceLoads DEF SilencePolicyMount
  <2> QED BY <1>4, <2>1 DEF Mounts
<1>5. CASE page = "NotificationConfig"
  <2>1. Safe(NotificationConfigMount(o), "none")
      BY <1>1, <1>5, NotificationConfigMounted
  <2> QED BY <1>5, <2>1 DEF Mounts
<1>6. CASE page = "IncidentList"
  <2>1. Safe(IncidentListMount(o), "none")
      BY <1>1, <1>6, IncidentLoads DEF IncidentListMount
  <2> QED BY <1>6, <2>1 DEF Mounts
<1>7. CASE page = "IncidentDetail"
  <2>1. Safe(IncidentDetailMount(o), "none")
      BY <1>1, <1>7, DetailLoads DEF IncidentDetailMount
  <2> QED BY <1>7, <2>1 DEF Mounts
<1>8. CASE page = "IncidentTimeline"
  <2>1. Safe(IncidentTimelineMount(o), "none")
      BY <1>1, <1>8, IncidentTimelineMounted
  <2> QED BY <1>8, <2>1 DEF Mounts
<1>9. CASE page = "IncidentArchiveReport"
  <2>1. Safe(LoadArchiveReport([o EXCEPT !.ui.held = "autoPrint"]), "none")
      BY <1>1, <1>9, ArchiveReportMounted
  <2> QED BY <1>9, <2>1 DEF Mounts
<1>10. CASE page = "SearchHistory"
  <2>1. Safe(SearchHistoryMount(o), "none")
      BY <1>1, <1>10, SearchHistoryMounted
  <2> QED BY <1>10, <2>1 DEF Mounts
<1>11. CASE page = "SavedQueries"
  <2>1. Safe(SavedQueriesMount(o), "none")
      BY <1>1, <1>11, SavedQueriesMounted
  <2> QED BY <1>11, <2>1 DEF Mounts
<1>12. CASE page = "UserManagement"
  <2>1. Safe(UserManagementMount(o), "none")
      BY <1>1, <1>12, UserManagementMounted
  <2> QED BY <1>12, <2>1 DEF Mounts
<1>13. CASE page = "RolePermissions"
  <2>1. Safe(RolePermissionsMount(o), "none")
      BY <1>1, <1>13, RolePermissionsMounted
  <2> QED BY <1>13, <2>1 DEF Mounts
<1>14. CASE page = "AuditLogs"
  <2>1. Safe(AuditLogsMount(o), "none")
      BY <1>1, <1>14, AuditLogsMounted
  <2> QED BY <1>14, <2>1 DEF Mounts
<1>15. CASE page = "LoginPolicy"
  <2>1. Safe(LoadPolicy(o), "none")
      BY <1>15, LoginPolicyMounted
  <2> QED BY <1>15, <2>1 DEF Mounts
<1>16. CASE page = "Dashboard"
  <2>1. Safe(DashboardMount(o, None), "none") /\ Safe(DashboardMount(o, "interval"), "none")
      BY <1>1, <1>16, DashboardMounted
  <2> QED BY <1>16, <2>1 DEF Mounts
<1>17. CASE page = "BackupRecovery"
  <2>1. \A repo : Safe(BackupRecoveryMount(o, repo), "none")
      BY <1>1, <1>17, BackupRecoveryMounted
  <2> QED BY <1>17, <2>1 DEF Mounts
<1>18. CASE page \in StoragePages
  <2>1. Safe(LoadStorage(o), "none")
      BY <1>1, <1>18, StorageLoads DEF StoragePages
  <2> QED BY <1>18, <2>1 DEF Mounts, StoragePages
<1>19. CASE page = "DownloadRecords"
  <2>1. Safe(LoadJobs(o, FirstView), "none")
      BY <1>1, <1>19, JobLoads
  <2> QED BY <1>19, <2>1 DEF Mounts
<1>20. CASE page = "ReportManagement"
  <2>1. Safe(LoadReports(o, "none"), "none")
      BY <1>1, <1>20, ReportManagementMounted
  <2> QED BY <1>20, <2>1 DEF Mounts
<1>21. CASE page = "HealthCheck"
  <2>1. Safe(HealthCheckMount(o), "none")
      BY <1>1, <1>21, HealthCheckMounted
  <2> QED BY <1>21, <2>1 DEF Mounts
<1>22. CASE page = "PerformanceMonitoring"
  <2>1. Safe(PerformanceMount(o), "none")
      BY <1>1, <1>22, PerformanceMounted
  <2> QED BY <1>22, <2>1 DEF Mounts
<1>23. CASE page = "WebhookManagement"
  <2>1. Safe(WebhookManagementMount(o), "none")
      BY <1>1, <1>23, HookLoads DEF WebhookManagementMount
  <2> QED BY <1>23, <2>1 DEF Mounts
<1>24. CASE page = "SourceManagement"
  <2>1. Safe(SourceManagementMount(o), "none")
      BY <1>1, <1>24, SourceManagementMounted
  <2> QED BY <1>24, <2>1 DEF Mounts
<1>25. CASE page = "SourceStatus"
  <2>1. Safe(SourceStatusMount(o), "none")
      BY <1>1, <1>25, SourceStatusMounted
  <2> QED BY <1>25, <2>1 DEF Mounts
<1>26. CASE page = "AgentManagement"
  <2>1. Safe(AgentManagementMount(o), "none")
      BY <1>1, <1>26, AgentManagementMounted
  <2> QED BY <1>26, <2>1 DEF Mounts
<1>27. CASE page = "AccessWizard"
  <2>1. Safe(AccessWizardMount(o), "none")
      BY <1>1, <1>27, AccessWizardMounted
  <2> QED BY <1>27, <2>1 DEF Mounts
<1>28. CASE page = "DeadLetters"
  <2>1. Safe(LoadDeadLetters(o, FirstView), "none")
      BY <1>1, <1>28, DrawerLoads DEF DrawerPages
  <2> QED BY <1>28, <2>1 DEF Mounts
<1>29. CASE page = "Receipts"
  <2>1. Safe(LoadReceipts(o, FirstView), "none")
      BY <1>1, <1>29, DrawerLoads DEF DrawerPages
  <2> QED BY <1>29, <2>1 DEF Mounts
<1>30. CASE page \in {"TaskDetail", "PackageDetail"}
  <2>1. Safe(LoadRecord(o, page), "none")
      BY <1>1, <1>30, DrawerLoads DEF DrawerPages
  <2> QED BY <1>30, <2>1 DEF Mounts
<1>31. CASE page \in ReportPages
  <2>1. Safe(LoadReport(o), "none")
      BY <1>1, <1>31, ReportLoads DEF ReportPages
  <2> QED BY <1>31, <2>1 DEF Mounts, ReportPages
<1> QED
    BY <1>0, <1>2, <1>3, <1>4, <1>5, <1>6, <1>7, <1>8, <1>9, <1>10, <1>11, <1>12, <1>13, <1>14,
       <1>15, <1>16, <1>17, <1>18, <1>19, <1>20, <1>21, <1>22, <1>23, <1>24, <1>25, <1>26,
       <1>27, <1>28, <1>29, <1>30, <1>31 DEF PageNames, StoragePages, ReportPages

\* Whatever call is answered, the handler that waited for it does what is safe.
LEMMA AnswersSafe ==
    ASSUME ViewsInv, NEW w, NEW k, NEW c, Results(w, k, c), InTurn(c)
    PROVE  Safe(PageAnswer(k, w), "none")
<1>0. page \in PageNames
    BY PageNamesAssumption DEF ViewsInv
<1>1. CASE page = "AlertList"
  <2>1. Safe(AlertListAnswer(k, w), "none")
      BY <1>1, AlertListAnswers
  <2> QED BY <1>1, <2>1 DEF PageAnswer
<1>2. CASE page = "AlertRules"
  <2>1. Safe(AlertRulesAnswer(k, w), "none")
      BY <1>2, AlertRulesAnswers
  <2> QED BY <1>2, <2>1 DEF PageAnswer
<1>3. CASE page = "SilencePolicy"
  <2>1. Safe(SilencePolicyAnswer(k, w), "none")
      BY <1>3, SilencePolicyAnswers
  <2> QED BY <1>3, <2>1 DEF PageAnswer
<1>4. CASE page = "NotificationConfig"
  <2>1. Safe(NotificationConfigAnswer(k, w), "none")
      BY <1>4, NotificationConfigAnswers
  <2> QED BY <1>4, <2>1 DEF PageAnswer
<1>5. CASE page = "IncidentList"
  <2>1. Safe(IncidentListAnswer(k, w), "none")
      BY <1>5, IncidentListAnswers
  <2> QED BY <1>5, <2>1 DEF PageAnswer
<1>6. CASE page = "IncidentDetail"
  <2>1. Safe(IncidentDetailAnswer(k, w), "none")
      BY <1>6, IncidentDetailAnswers
  <2> QED BY <1>6, <2>1 DEF PageAnswer
<1>7. CASE page = "IncidentTimeline"
  <2>1. Safe(IncidentTimelineAnswer(k, w), "none")
      BY <1>7, IncidentTimelineAnswers
  <2> QED BY <1>7, <2>1 DEF PageAnswer
<1>8. CASE page = "SearchHistory"
  <2>1. Safe(SearchHistoryAnswer(k, w), "none")
      BY <1>8, SearchHistoryAnswers
  <2> QED BY <1>8, <2>1 DEF PageAnswer
<1>9. CASE page = "SavedQueries"
  <2>1. Safe(SavedQueriesAnswer(k, w), "none")
      BY <1>9, SavedQueriesAnswers
  <2> QED BY <1>9, <2>1 DEF PageAnswer
<1>10. CASE page = "UserManagement"
  <2>1. Safe(UserManagementAnswer(k, w), "none")
      BY <1>10, UserManagementAnswers
  <2> QED BY <1>10, <2>1 DEF PageAnswer
<1>11. CASE page = "RolePermissions"
  <2>1. Safe(RolePermissionsAnswer(k, w), "none")
      BY <1>11, RolePermissionsAnswers
  <2> QED BY <1>11, <2>1 DEF PageAnswer
<1>12. CASE page = "AuditLogs"
  <2>1. Safe(AuditLogsAnswer(k, w), "none")
      BY <1>12, AuditLogsAnswers
  <2> QED BY <1>12, <2>1 DEF PageAnswer
<1>13. CASE page = "Dashboard"
  <2>1. Safe(DashboardAnswer(k, w), "none")
      BY <1>13, DashboardAnswers
  <2> QED BY <1>13, <2>1 DEF PageAnswer
<1>14. CASE page = "BackupRecovery"
  <2>1. Safe(BackupRecoveryAnswer(k, w), "none")
      BY <1>14, BackupRecoveryAnswers
  <2> QED BY <1>14, <2>1 DEF PageAnswer
<1>15. CASE page = "DownloadRecords"
  <2>1. Safe(DownloadRecordsAnswer(k, w), "none")
      BY <1>15, DownloadRecordsAnswers
  <2> QED BY <1>15, <2>1 DEF PageAnswer
<1>16. CASE page = "ReportManagement"
  <2>1. Safe(ReportManagementAnswer(k, w), "none")
      BY <1>16, ReportManagementAnswers
  <2> QED BY <1>16, <2>1 DEF PageAnswer
<1>17. CASE page = "HealthCheck"
  <2>1. Safe(HealthCheckAnswer(k, w), "none")
      BY <1>17, HealthCheckAnswers
  <2> QED BY <1>17, <2>1 DEF PageAnswer
<1>18. CASE page = "WebhookManagement"
  <2>1. Safe(WebhookManagementAnswer(k, w), "none")
      BY <1>18, WebhookManagementAnswers
  <2> QED BY <1>18, <2>1 DEF PageAnswer
<1>19. CASE page = "SourceManagement"
  <2>1. Safe(SourceManagementAnswer(k, w), "none")
      BY <1>19, SourceManagementAnswers
  <2> QED BY <1>19, <2>1 DEF PageAnswer
<1>20. CASE page = "SourceStatus"
  <2>1. Safe(SourceStatusAnswer(k, w), "none")
      BY <1>20, SourceStatusAnswers
  <2> QED BY <1>20, <2>1 DEF PageAnswer
<1>21. CASE page = "AgentManagement"
  <2>1. Safe(AgentManagementAnswer(k, w), "none")
      BY <1>21, AgentManagementAnswers
  <2> QED BY <1>21, <2>1 DEF PageAnswer
<1>22. CASE page = "AccessWizard"
  <2>1. Safe(AccessWizardAnswer(k, w), "none")
      BY <1>22, AccessWizardAnswers
  <2> QED BY <1>22, <2>1 DEF PageAnswer
<1>23. CASE page = "IncidentArchiveReport"
  <2>1. Safe(ArchiveReportAnswer(k, w), "none")
      BY <1>23, ArchiveReportAnswers
  <2> QED BY <1>23, <2>1 DEF PageAnswer
<1>24. CASE page = "LoginPolicy"
  <2>1. Safe(PolicyAnswer(k, w), "none")
      BY <1>24, LoginPolicyAnswers
  <2> QED BY <1>24, <2>1 DEF PageAnswer
<1>25. CASE page \in StoragePages
  <2>1. Safe(AnsweredKeeping(k, w), "none")
      BY <1>25, StorageAnswers
  <2> QED BY <1>25, <2>1 DEF PageAnswer, StoragePages
<1>26. CASE page = "PerformanceMonitoring"
  <2>1. Safe(PerformanceAnswer(k, w), "none")
      BY <1>26, PerformanceAnswers
  <2> QED BY <1>26, <2>1 DEF PageAnswer
<1>27. CASE page = "DeadLetters"
  <2>1. Safe(DeadLetterAnswer(k, w), "none")
      BY <1>27, DeadLetterAnswers
  <2> QED BY <1>27, <2>1 DEF PageAnswer
<1>28. CASE page \in {"Receipts", "TaskDetail", "PackageDetail"}
  <2>1. Safe(Answered(k, w), "none")
      BY <1>28, DrawerAnswers
  <2> QED BY <1>28, <2>1 DEF PageAnswer
<1>29. CASE page \in ReportPages
  <2>1. Safe(IncidentReportAnswer(k, w), "none")
      BY <1>29, IncidentReportAnswers
  <2> QED BY <1>29, <2>1 DEF PageAnswer, ReportPages
<1> QED
    BY <1>0, <1>1, <1>2, <1>3, <1>4, <1>5, <1>6, <1>7, <1>8, <1>9, <1>10, <1>11, <1>12, <1>13,
       <1>14, <1>15, <1>16, <1>17, <1>18, <1>19, <1>20, <1>21, <1>22, <1>23, <1>24, <1>25,
       <1>26, <1>27, <1>28, <1>29 DEF PageNames, StoragePages, ReportPages

\* The invariant holds when a page is opened.
LEMMA ViewsStart ==
    ASSUME Init
    PROVE  ViewsInv
<1>1. PICK w \in Mounts(page, Opened(store)) : ui = w.ui /\ calls = w.calls
    BY DEF Init
<1>2. Safe(w, "none") /\ page \in Page
    BY <1>1, MountsSafe DEF Init
<1>3. World.ui = w.ui /\ World.calls = w.calls /\ World = [x \in WorldFields |-> World[x]]
    BY <1>1 DEF World, WorldFields
<1>4. Safe(World, "none")
  <2>1. IsUi(World.ui) /\ (\A c \in World.calls : IsCall(c)) /\ Sound(World.ui, World.calls, "none")
      BY <1>2, <1>3 DEF Safe, IsWorld
  <2> HIDE DEF World
  <2> QED BY <1>3, <2>1 DEF Safe, IsWorld
<1> QED BY <1>2, <1>4 DEF ViewsInv

\* An answer keeps it, whatever the server did.
LEMMA AnswerKept ==
    ASSUME ViewsInv, NEW c \in calls, Answer(c)
    PROVE  ViewsInv'
<1>1. PICK o \in Outcomes(c) : Become({PageAnswer(o.call, o.world)})
    BY DEF Answer, Become
<1>2. InTurn(c)
    BY DEF Answer, InTurn, World
<1>3. Results(o.world, o.call, c)
    BY Resulting
<1>4. Safe(PageAnswer(o.call, o.world), "none")
    BY <1>2, <1>3, AnswersSafe
<1> QED BY <1>1, <1>4, Becoming

\* Other users change nothing of the component.
LEMMA OutsideKept ==
    ASSUME ViewsInv, Outside
    PROVE  ViewsInv'
<1>1. Safe(World, "none") /\ World.ui = ui' /\ World.calls = calls' /\ page' = page /\ page \in Page
    BY DEF ViewsInv, Outside, World
<1> QED BY <1>1, Stepping

\* A step of a page, of an answer, or of somebody else.
LEMMA NextKept ==
    ASSUME ViewsInv, Next
    PROVE  ViewsInv'
<1>1. CASE \E c \in calls : Answer(c)
    BY <1>1, AnswerKept
<1>2. CASE Outside
    BY <1>2, OutsideKept
<1>3. CASE AlertListNext \/ AlertRulesNext \/ SilencePolicyNext \/ NotificationConfigNext
    BY <1>3, AlertListKept, AlertRulesKept, SilencePolicyKept, NotificationConfigKept
<1>4. CASE IncidentListNext \/ IncidentDetailNext \/ IncidentTimelineNext \/ IncidentReportsNext
    BY <1>4, IncidentListKept, IncidentDetailKept, IncidentTimelineKept, IncidentReportsKept
<1>5. CASE SearchHistoryNext \/ SavedQueriesNext
    BY <1>5, SearchHistoryKept, SavedQueriesKept
<1>6. CASE UserManagementNext \/ RolePermissionsNext \/ AuditLogsNext \/ LoginPolicyNext
    BY <1>6, UserManagementKept, RolePermissionsKept, AuditLogsKept, LoginPolicyKept
<1>7. CASE SourceManagementNext \/ SourceStatusNext \/ AgentManagementNext \/ AccessWizardNext \/ DrawersNext
    BY <1>7, SourceManagementKept, SourceStatusKept, AgentManagementKept, AccessWizardKept,
       DrawersKept
<1>8. CASE DashboardNext \/ BackupRecoveryNext \/ StorageNext \/ DownloadRecordsNext
    BY <1>8, DashboardKept, BackupRecoveryKept, StorageKept, DownloadRecordsKept
<1>9. CASE ReportManagementNext \/ HealthCheckNext \/ PerformanceNext \/ WebhookManagementNext
    BY <1>9, ReportManagementKept, HealthCheckKept, PerformanceKept, WebhookManagementKept
<1> QED BY <1>1, <1>2, <1>3, <1>4, <1>5, <1>6, <1>7, <1>8, <1>9 DEF Next

\* A step in which nothing changes.
LEMMA StutterKept ==
    ASSUME ViewsInv, UNCHANGED vars
    PROVE  ViewsInv'
<1>1. Safe(World, "none") /\ World.ui = ui' /\ World.calls = calls' /\ page' = page /\ page \in Page
    BY DEF ViewsInv, vars, World
<1> QED BY <1>1, Stepping

----------------------------------------------------------------------------
(***************************************************************************)
(* What the console promises.                                              *)
(***************************************************************************)
\* The invariant of the components and their calls: spinners and buttons have
\* a call that ends them, calls have numbers of their own, and what is on the
\* screen is what was asked for last or will be.
THEOREM ViewsSound == Spec => []ViewsInv
<1>1. Init => ViewsInv
    BY ViewsStart
<1>2. ViewsInv /\ [Next]_vars => ViewsInv'
    BY NextKept, StutterKept
<1> QED BY <1>1, <1>2, PTL DEF Spec

\* A spinner that turns and a button that is disabled have a call in flight that
\* ends it, whatever handlers of a page overlap, fail, join or replace each
\* other's loads.
THEOREM EverySpinnerEnds == Spec => []SpinnersEnd
<1>1. ViewsInv => SpinnersEnd
  <2> SUFFICES ASSUME ViewsInv PROVE SpinnersEnd
      OBVIOUS
  <2>1. Spinning(ui, calls) /\ Busy(ui, calls, "none")
      BY DEF ViewsInv, Safe, Sound, World
  <2>2. \A p \in Panels : ui[p].loading => \E c \in calls : c.kind = "read" /\ c.panel = p
      BY <2>1 DEF Spinning, Waits, Last, Loads
  <2>3. \A b \in ui.busy : \E c \in calls : b = c.flag \/ b \in c.rows
      BY <2>1 DEF Busy, Holds
  <2> QED BY <2>2, <2>3 DEF SpinnersEnd
<1> QED BY <1>1, ViewsSound, PTL

\* A batch acts on rows the user sees: reloads, filters and deletions take the
\* rows that left the list from the selection.
THEOREM SelectionIsShown == Spec => []SelectionShown
<1>1. ViewsInv => SelectionShown
  <2> SUFFICES ASSUME ViewsInv PROVE SelectionShown
      OBVIOUS
  <2>1. Selected(ui)
      BY DEF ViewsInv, Safe, Sound, World
  <2> QED BY <2>1 DEF Selected, Selectable, SelectionShown, Shown
<1> QED BY <1>1, ViewsSound, PTL

\* No handler runs twice at a time: one call at most is in flight for a button.
THEOREM OneCallPerButton == Spec => []OncePerButton
<1>1. ViewsInv => OncePerButton
  <2> SUFFICES ASSUME ViewsInv PROVE OncePerButton
      OBVIOUS
  <2>1. Once(ui, calls, "none")
      BY DEF ViewsInv, Safe, Sound, World
  <2> QED BY <2>1 DEF Once, Loose, OncePerButton
<1> QED BY <1>1, ViewsSound, PTL

\* What a panel shows in the end is what was asked for last, on pages that drop
\* the answers of older loads, that load one thing only, or whose reads are
\* answered in order.
THEOREM LastAskedStays ==
    ASSUME Page \subseteq InOrder \cup LatestPages \cup OnePages
    PROVE  Spec => []LastAskedIsShown
<1>1. ViewsInv => LastAskedIsShown
  <2> SUFFICES ASSUME ViewsInv, NEW p \in Panels,
                      ui[p].shown # None, ~ui[p].failed, ui[p].of # None,
                      \A c \in calls : c.kind # "read" \/ c.panel # p
               PROVE  ui[p].shown.of = ui[p].of
      BY DEF LastAskedIsShown
  <2>1. Asked(ui, calls)
      BY DEF ViewsInv, Safe, Sound, World
  <2>2. ~Waits(ui, calls, p)
      BY DEF Waits, Last, Loads
  <2>3. CASE Ordered
      BY <2>1, <2>2, <2>3 DEF Asked, Settled
  <2>4. CASE page \in OnePages
    <3>1. Fixed(p, FirstView)
        BY <2>4 DEF Fixed
    <3> QED BY <2>1, <3>1 DEF Asked
  <2> QED BY <2>3, <2>4 DEF ViewsInv, Ordered
<1> QED BY <1>1, ViewsSound, PTL
=============================================================================
