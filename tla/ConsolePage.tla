----------------------------- MODULE ConsolePage -----------------------------
(***************************************************************************)
(* What the list pages of the web console are built from: panels that load *)
(* rows, a selection, one open dialog, flags that disable buttons while a  *)
(* handler runs, and the HTTP calls behind them.  The modules of the pages *)
(* define their handlers with these operators; ConsoleViews composes them. *)
(*                                                                         *)
(* A row is one alert, incident, user...; what is known of it is a status. *)
(* A view stands for a filter with a page number and a page size.          *)
(***************************************************************************)
EXTENDS Naturals, FiniteSets

CONSTANTS
    Page,        \* the pages that are opened
    Row,
    View,
    FirstView,   \* the view a page starts with
    Listed,      \* the rows that belong to a view, while they exist
    MaxCalls,    \* bound: calls one visit of a page makes
    MaxOutside,  \* bound: changes made by other users
    None

\* The buttons that handlers disable.
Flags == {"batch", "submit", "act", "delete", "retry", "cleanup", "save", "create", "restore",
          "replay", "export"}

ASSUME PageAssumption ==
    /\ FirstView \in View /\ None \notin View \cup Row
    /\ Row \cap (Flags \cup {"none"}) = {}
    /\ Listed \in [View -> SUBSET Row]
    /\ MaxCalls \in [Page -> Nat] /\ MaxOutside \in [Page -> Nat]

VARIABLES
    page,     \* the page that is open
    grants,   \* the capabilities of the authorization context
    ui,       \* the state of its component
    calls,    \* the calls without an answer
    store,    \* the server's row statuses
    version,  \* how often the store has changed
    outside   \* how often other users changed it

vars == <<page, grants, ui, calls, store, version, outside>>

----------------------------------------------------------------------------
(* One component.  A handler transforms the world.                          *)

Panels == {"list", "side"}
EmptyPanel == [of |-> None, shown |-> None, loading |-> FALSE, failed |-> FALSE, latest |-> 0]

Blank == [view |-> FirstView, list |-> EmptyPanel, side |-> EmptyPanel,
          sel |-> {}, dialog |-> None, busy |-> {}, flight |-> None, held |-> None,
          hidden |-> FALSE, known |-> [r \in Row |-> 0], started |-> 0]

World == [ui |-> ui, calls |-> calls, store |-> store, version |-> version]

Become(worlds) ==
    \E w \in worlds :
        /\ w.ui.started <= MaxCalls[page]
        /\ ui' = w.ui /\ calls' = w.calls
        /\ store' = w.store /\ version' = w.version
        /\ UNCHANGED <<page, grants, outside>>

\* The rows a panel shows, and their statuses as it knows them.
RowsOf(panel) ==
    IF panel.shown = None \/ panel.shown.of \notin View THEN {}
    ELSE {r \in Listed[panel.shown.of] : panel.shown.status[r] # "gone"}
Shown == RowsOf(ui.list)
StatusOf(r) == ui.list.shown.status[r]

----------------------------------------------------------------------------
(* Calls.  flag names the button that is disabled until the handler ends,   *)
(* then what the handler does after the reload it awaits, since what the    *)
(* page knew when it read the rows again on behalf of a change.             *)

NewCall == [id |-> 0, kind |-> "read", panel |-> "list", of |-> None, rows |-> {},
            flag |-> "none", then |-> "none", ok |-> FALSE, done |-> {}, missing |-> {},
            at |-> None, since |-> None]

Snapshot(w, of) == [of |-> of, status |-> w.store, version |-> w.version]

Send(w, c) ==
    [w EXCEPT !.calls = @ \cup {[c EXCEPT !.id = w.ui.started + 1,
                                          !.at = IF c.kind = "read" THEN Snapshot(w, c.of) ELSE None]},
              !.ui.started = @ + 1]

\* A load function up to its await: it shows a spinner and drops the error.
\* A handler that awaits it keeps its button disabled.
Await(w, panel, of, flag, then) ==
    [Send(w, [NewCall EXCEPT !.panel = panel, !.of = of, !.flag = flag, !.then = then]) EXCEPT
        !.ui[panel].of = of, !.ui[panel].loading = TRUE, !.ui[panel].failed = FALSE,
        !.ui[panel].latest = w.ui.started + 1]
Load(w, panel, of) == Await(w, panel, of, "none", "none")

\* A handler that changes rows: what it was called with is kept for later.
Write(w, kind, rows, flag, then) ==
    [Send(w, [NewCall EXCEPT !.kind = kind, !.of = w.ui.view, !.rows = rows,
                             !.flag = flag, !.then = then]) EXCEPT
        !.ui.busy = IF flag = "none" THEN @ ELSE @ \cup {flag}]

Idle(w, flag) == [w EXCEPT !.ui.busy = @ \ {flag}]
Open(w, kind, r) == [w EXCEPT !.ui.dialog = [kind |-> kind, row |-> r]]
Close(w) == [w EXCEPT !.ui.dialog = None]
Dialog(kind) == ui.dialog # None /\ ui.dialog.kind = kind
Form == Dialog("create") \/ Dialog("edit")

\* A page keeps one current row for its form and its delete question, so the
\* answer of a deletion also takes the row from a form opened since.
CloseForm(w) == IF w.ui.dialog # None /\ w.ui.dialog.kind # "delete" THEN Close(w) ELSE w
CloseDelete(w) ==
    IF w.ui.dialog = None \/ w.ui.dialog.kind = "delete" THEN Close(w)
    ELSE [w EXCEPT !.ui.dialog.row = None]

\* What a form can be opened for: nothing, or a row that is shown.
Openable(kind, r) == IF kind = "create" THEN r = None ELSE r \in Shown

\* The request of a form: none when an edited row was taken from it.
FormSends == Dialog("create") \/ ui.dialog.row # None
Submit(w, flag) ==
    IF w.ui.dialog.kind = "create" THEN Write(w, "create", {}, flag, "none")
    ELSE Write(w, "update", {w.ui.dialog.row}, flag, "none")

\* The user goes to another page: answers to the old one change nothing.
Leave(w) == [w EXCEPT !.ui = [Blank EXCEPT !.hidden = TRUE, !.started = w.ui.started], !.calls = {}]

\* The first render of a page, before its effects run.
Opened(s) == [ui |-> Blank, calls |-> {}, store |-> s, version |-> 0]

\* The answer of a load replaces what the panel shows; a failure empties it.
Answered(c, w) ==
    [w EXCEPT !.ui[c.panel].loading = FALSE,
              !.ui[c.panel].failed = ~c.ok,
              !.ui[c.panel].shown = IF c.ok THEN c.at ELSE None]

\* Mutant: the failure returns before the spinner is cleared.
AnsweredSpinning(c, w) == IF c.ok THEN Answered(c, w) ELSE w

\* A failure that leaves the rows as they are.
AnsweredKeeping(c, w) ==
    IF c.ok THEN Answered(c, w)
    ELSE [w EXCEPT !.ui[c.panel].loading = FALSE, !.ui[c.panel].failed = TRUE]

\* Mutant: no sequence number is compared.
AnsweredInTurn(c, w) == Answered(c, w)

\* A load function with a sequence number drops all but the last answer.
AnsweredLatest(c, w) == IF w.ui[c.panel].latest = c.id THEN Answered(c, w) ELSE w

\* Mutant: the selection outlives its rows.
Unpruned(w) == w

\* The selection keeps the rows that are shown.
Prune(w) == [w EXCEPT !.ui.sel = @ \cap RowsOf(w.ui.list)]

----------------------------------------------------------------------------
(* The server, external to the console.  A read sees the store as it was    *)
(* when it was sent or as it is when it is answered; a write is applied, or *)
(* applied with its answer lost, or refused.  An outcome is the world after *)
(* the server's step and the call with its answer.                          *)

Outcome(w, c) == [world |-> [w EXCEPT !.calls = @ \ {c}], call |-> c]

ReadOutcomes(w, c) ==
    {Outcome(w, c)} \cup
    {[Outcome(w, c) EXCEPT !.call.ok = TRUE, !.call.at = at] : at \in {c.at, Snapshot(w, c.of)}}

\* applied are the rows the server accepts the write for, acked those whose
\* answer reaches the console, which thereby knows of the change.
Apply(w, c, applied, acked, new) ==
    LET changed == {r \in applied : new[r] # "same"}
        v == IF changed = {} THEN w.version ELSE w.version + 1
        next == [w EXCEPT !.store = [r \in Row |-> IF r \in changed THEN new[r] ELSE @[r]],
                          !.version = v,
                          !.ui.known = [r \in Row |-> IF r \in acked \cap changed THEN v ELSE @[r]]]
    IN  [Outcome(next, c) EXCEPT !.call.done = acked,
             !.call.missing = {r \in c.rows : w.store[r] = "gone"},
             !.call.ok = acked # {} /\ c.rows \subseteq acked]

Applications(w, c, applied, new) == {Apply(w, c, applied, acked, new) : acked \in {applied, {}}}

\* A batch is a call for each of its rows.  new gives the status a row gets:
\* "same" if nothing changes, "refused" where the server answers a conflict.
WriteOutcomes(w, c, new) ==
    UNION {Applications(w, c, applied, new) :
        applied \in SUBSET {r \in c.rows : w.store[r] # "gone" /\ new[r] # "refused"}}

\* One request for all of its rows.
RequestOutcomes(w, c, new) == {Outcome(w, c)} \cup Applications(w, c, c.rows, new)

\* A creation makes a row of a view, if the bound on rows leaves one.
CreateOutcomes(w, c, status, view) ==
    {Outcome(w, c)} \cup
    UNION {Applications(w, c, {r}, [w.store EXCEPT ![r] = status]) :
        r \in {r \in Listed[view] : w.store[r] = "gone"}}
=============================================================================
