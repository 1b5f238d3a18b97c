--------------------------- MODULE RealtimeSearch ---------------------------
(***************************************************************************)
(* The realtime search page (pages/search/RealtimeSearch.tsx): one table   *)
(* and one histogram that are refreshed by the user's searches, filters,   *)
(* time windows and page changes, and by a 5 s poll.  Every request gets a *)
(* number; an answer counts only while its number is the latest one.       *)
(*                                                                         *)
(* A query stands for the search text with the level, source and extra     *)
(* filters; the answers' rows are abstracted to what was asked for.  A     *)
(* successful answer has rows, and histogram data.                         *)
(***************************************************************************)
EXTENDS Naturals, FiniteSets

CONSTANTS
    Query,       \* what can be asked: text and filters
    EmptyQuery,  \* the query of a page opened without a preset
    Relative,    \* the sliding windows (5m, 15m, 30m, 1h)
    Size,        \* the page sizes
    StoredSize,  \* the page size of the preferences store
    MaxPage,     \* bound: pages
    MaxDirect,   \* resolveMaxPaginationPage: pages reached without a cursor
    MaxRequests, \* bound: how many queries are started
    None         \* no rows, cursor, place or histogram

ASSUME ConstantsAssumption ==
    /\ EmptyQuery \in Query
    /\ StoredSize \in Size
    /\ Relative # {} /\ Relative \cap {"all", "custom"} = {}
    /\ MaxPage \in Nat /\ MaxDirect \in 1 .. MaxPage
    /\ MaxRequests \in Nat

Window == Relative \cup {"all", "custom"}
Page == 1 .. MaxPage
RequestId == 1 .. MaxRequests
NoId == 0

VARIABLES
    query,       \* activeQuery with levelFilter, sourceFilter, extraFilters
    window,      \* liveWindow; "custom" while customTimeRange is set
    page,        \* currentPage
    size,        \* pageSize
    live,        \* isLive and isLiveRef
    hidden,      \* document.hidden
    mounted,     \* ~isUnmountedRef
    startup,     \* the start-up query that has not been started, or "done"
    timer,       \* liveTimerRef is armed
    suppress,    \* suppressNextLiveTickRef
    latest,      \* latestQueryRequestRef
    inflight,    \* inFlightRequestIDRef
    requests,    \* executeQuery and retry calls that wait for an answer
    cursors,     \* pageCursorMapRef: the cursors with a search-after
    shown,       \* what the rows of the table answer, or None
    outcome,     \* tableUsingStaleData and tableErrorText
    refreshing,  \* tableRefreshing
    hist,        \* the query the histogram shows, or None
    histStale    \* histogramUsingStaleData

asked == <<query, window, page, size>>
polling == <<live, hidden, mounted, startup, timer, suppress>>
net == <<latest, inflight, requests, cursors>>
view == <<shown, outcome, refreshing, hist, histStale>>
searchVars == <<asked, polling, net, view>>

----------------------------------------------------------------------------
(* Requests.                                                                *)

\* livePollingDisabled and histogramDisabled.
PollingDisabled(w) == w \in {"all", "custom"}

Cursor == [page : Page, query : Query, size : Size]
Place == [page : Page, size : Size]

\* Stages: "cursor" looks for the cursor of a deep page, "table" and "hist"
\* are the two halves of executeQuery, "retry" is handleRetryHistogram.
SearchRequest == [id : RequestId, stage : {"cursor", "table", "hist", "retry"},
            query : Query, range : Window, page : Page, size : Size,
            wantsHist : BOOLEAN, tableOk : BOOLEAN,
            cursor : Cursor \cup {None}, back : Place \cup {None}]

\* What the rows of the table answer; deep says that there are more of them
\* than the search window holds.
Rows == [id : RequestId, query : Query, range : Window, page : Page, size : Size,
         deep : BOOLEAN]

ASSUME NoneAssumption == None \notin Rows /\ None \notin Place

CursorsFor(p, map) == {c \in map : c.page = p}
CursorFor(p, map) ==
    IF CursorsFor(p, map) = {} THEN None ELSE CHOOSE c \in CursorsFor(p, map) : TRUE

\* Mutant: the key of the last histogram is not compared.
RefreshIgnoringKey(q, range, mode) ==
    IF PollingDisabled(range) THEN {FALSE}
    ELSE IF hist = None \/ mode = "force" THEN {TRUE}
    ELSE IF mode = "skip" THEN {FALSE}
    ELSE BOOLEAN

\* shouldRefreshRealtimeHistogram, for a sliding window: without data or
\* with another key always; otherwise on demand, and a poll after 15 s.
RefreshChoices(q, range, mode) ==
    IF PollingDisabled(range) THEN {FALSE}
    ELSE IF hist = None \/ hist # q \/ mode = "force" THEN {TRUE}
    ELSE IF mode = "skip" THEN {FALSE}
    ELSE BOOLEAN

\* executeQuery up to its first await.
ExecuteQuery(q, range, p, s, reset, mode, back) ==
    LET map == IF reset THEN {} ELSE cursors
    IN  /\ latest < MaxRequests
        /\ latest' = latest + 1
        /\ inflight' = latest + 1
        /\ cursors' = map
        /\ \E wantsHist \in RefreshChoices(q, range, mode) :
               requests' = requests \cup
                   {[id |-> latest + 1,
                     stage |-> IF p > MaxDirect /\ CursorsFor(p, map) = {} THEN "cursor" ELSE "table",
                     query |-> q, range |-> range, page |-> p, size |-> s,
                     wantsHist |-> wantsHist, tableOk |-> FALSE,
                     cursor |-> CursorFor(p, map), back |-> back]}
        /\ outcome' = IF outcome = "error" THEN "ok" ELSE outcome
        /\ refreshing' = TRUE
        /\ IF PollingDisabled(range)
           THEN hist' = None /\ histStale' = FALSE
           ELSE UNCHANGED <<hist, histStale>>
        /\ UNCHANGED shown

\* The query of a tick, a retry or a return to the tab: what is on screen.
Refresh(mode) == ExecuteQuery(query, window, page, size, page = 1, mode, None)

----------------------------------------------------------------------------
(* What the user does, after the 200 ms of the start-up delay.              *)

UserActs == mounted /\ ~hidden /\ startup = "done"

\* shouldSuppressNextLiveTickAfterInteractiveRefresh, armSuppressedNextLiveTick.
Suppressed(w) == suppress \/ (live /\ ~PollingDisabled(w))

\* runSearch; a preset query may carry a time range of its own.
RunSearch(q, withRange) ==
    /\ UserActs
    /\ query' = q
    /\ window' = IF withRange THEN "custom" ELSE window
    /\ page' = 1
    /\ live' = (live /\ ~withRange)
    /\ suppress' = IF withRange THEN suppress ELSE Suppressed(window)
    /\ timer' = FALSE
    /\ ExecuteQuery(q, window', 1, size, TRUE, "force", None)
    /\ UNCHANGED <<size, hidden, mounted, startup>>

\* A filter changes and the effect on it runs.
ChangeFilter(q) ==
    /\ UserActs
    /\ q # query
    /\ query' = q
    /\ page' = 1
    /\ suppress' = Suppressed(window)
    /\ timer' = FALSE
    /\ ExecuteQuery(q, window, 1, size, TRUE, "force", None)
    /\ UNCHANGED <<window, size, live, hidden, mounted, startup>>

\* handleLiveWindowChange.  Leaving the custom range passes no range, and
\* executeQuery falls back to the customTimeRange of the old render.
ChangeWindow(w) ==
    /\ UserActs
    /\ IF w = "custom" THEN window = "custom" ELSE w # window
    /\ window' = w
    /\ page' = 1
    /\ live' = (live /\ ~PollingDisabled(w))
    /\ suppress' = IF PollingDisabled(w) THEN suppress ELSE Suppressed(w)
    /\ timer' = FALSE
    /\ ExecuteQuery(query, IF window = "custom" THEN "custom" ELSE w,
                    1, size, TRUE, "force", None)
    /\ UNCHANGED <<query, size, hidden, mounted, startup>>

\* Mutant: the effect schedules over a query in flight.
ToggleLiveOverQuery ==
    /\ UserActs
    /\ ~PollingDisabled(window)
    /\ live' = ~live
    /\ timer' = ~live
    /\ UNCHANGED <<asked, hidden, mounted, startup, suppress, net, view>>

\* handleToggleLive, with the effect on isLive.
ToggleLive ==
    /\ UserActs
    /\ ~PollingDisabled(window)
    /\ live' = ~live
    /\ page' = IF live THEN page ELSE 1
    /\ IF live \/ page = 1
       THEN /\ timer' = (~live /\ inflight = NoId)
            /\ UNCHANGED <<net, view>>
       ELSE /\ timer' = FALSE
            /\ ExecuteQuery(query, window, 1, size, TRUE, "skip", None)
    /\ UNCHANGED <<query, window, size, hidden, mounted, startup, suppress>>

\* The pager offers the pages of the result.
Offered == IF shown # None /\ shown.deep THEN Page ELSE 1 .. MaxDirect

\* handleResultsPaginationChange, another page.
ChangePage(p) ==
    /\ UserActs
    /\ p \in Offered /\ p # page
    /\ live' = (live /\ p = 1)
    /\ UNCHANGED <<query, window, size, hidden, mounted, startup, suppress>>
    /\ IF p > MaxDirect /\ CursorsFor(p, cursors) = {}
       THEN timer' = (timer /\ live') /\ UNCHANGED <<page, net, view>>
       ELSE /\ page' = p
            /\ timer' = FALSE
            /\ ExecuteQuery(query, window, p, size, FALSE, "skip",
                            [page |-> page, size |-> size])

\* Mutant: the cursors of the old page size are kept.
ChangeSizeKeepsCursors(s) ==
    /\ UserActs
    /\ s # size
    /\ page' = 1
    /\ size' = s
    /\ suppress' = Suppressed(window)
    /\ timer' = FALSE
    /\ ExecuteQuery(query, window, 1, s, FALSE, "skip", [page |-> page, size |-> size])
    /\ UNCHANGED <<query, window, live, hidden, mounted, startup>>

\* handleResultsPaginationChange, another page size.
ChangeSize(s) ==
    /\ UserActs
    /\ s # size
    /\ page' = 1
    /\ size' = s
    /\ suppress' = Suppressed(window)
    /\ timer' = FALSE
    /\ ExecuteQuery(query, window, 1, s, TRUE, "skip", [page |-> page, size |-> size])
    /\ UNCHANGED <<query, window, live, hidden, mounted, startup>>

\* handleRetryCurrentQuery, behind the error or the stale-data alert.
RetryQuery ==
    /\ UserActs
    /\ outcome # "ok"
    /\ timer' = FALSE
    /\ Refresh("force")
    /\ UNCHANGED <<asked, live, hidden, mounted, startup, suppress>>

\* handleRetryHistogram, behind the histogram's alert.  Its own number grows
\* with every query, and its button waits for its answer.
RetryHistogram ==
    /\ UserActs
    /\ histStale /\ inflight = NoId /\ latest # NoId
    /\ ~PollingDisabled(window)
    /\ ~\E r \in requests : r.stage = "retry" /\ r.id = latest
    /\ requests' = requests \cup
           {[id |-> latest, stage |-> "retry", query |-> query, range |-> window,
             page |-> page, size |-> size, wantsHist |-> TRUE, tableOk |-> TRUE,
             cursor |-> None, back |-> None]}
    /\ UNCHANGED <<asked, polling, latest, inflight, cursors, view>>

----------------------------------------------------------------------------
(* Timers and the browser.                                                  *)

\* The timer of the start-up query, plain or from a preset.
StartupQuery(q, withRange) ==
    /\ mounted /\ startup # "done"
    /\ startup = "plain" => q = EmptyQuery /\ ~withRange
    /\ startup' = "done"
    /\ query' = q
    /\ window' = IF withRange THEN "custom" ELSE window
    /\ live' = (live /\ ~withRange)
    /\ timer' = FALSE
    /\ ExecuteQuery(q, window', 1, size, TRUE,
                    IF startup = "plain" THEN "auto" ELSE "force", None)
    /\ UNCHANGED <<page, size, hidden, mounted, suppress>>

\* The poll: not over a query in flight, and not right after one.
LiveTick ==
    /\ timer
    /\ IF inflight # NoId \/ suppress
       THEN /\ suppress' = (suppress /\ inflight # NoId)
            /\ UNCHANGED <<timer, net, view>>
       ELSE /\ timer' = FALSE
            /\ Refresh("auto")
            /\ UNCHANGED suppress
    /\ UNCHANGED <<asked, live, hidden, mounted, startup>>

Hide ==
    /\ mounted /\ ~hidden
    /\ hidden' = TRUE
    /\ timer' = FALSE
    /\ UNCHANGED <<asked, live, mounted, startup, suppress, net, view>>

\* Back on the tab: an immediate refresh unless a query is in flight.
Show ==
    /\ mounted /\ hidden
    /\ hidden' = FALSE
    /\ UNCHANGED <<asked, live, mounted, startup, timer, suppress>>
    /\ IF live /\ ~PollingDisabled(window) /\ inflight = NoId
       THEN Refresh("auto") ELSE UNCHANGED <<net, view>>

UnmountSearch ==
    /\ mounted
    /\ mounted' = FALSE
    /\ timer' = FALSE
    /\ startup' = "done"
    /\ UNCHANGED <<asked, live, hidden, suppress, net, view>>

----------------------------------------------------------------------------
(* Answers.  Aborting a request is advisory: the answer may be there first. *)

\* An answer to a request that is not the latest one is dropped.
DropStale(r) ==
    /\ r.id # latest
    /\ requests' = requests \ {r}
    /\ UNCHANGED <<asked, polling, latest, inflight, cursors, view>>

\* Mutant: the poll goes on only after a success.
FinishArmsOnSuccess(r, ok) ==
    /\ requests' = requests \ {r}
    /\ inflight' = NoId
    /\ timer' = (ok /\ live /\ mounted /\ ~hidden /\ ~PollingDisabled(window))
    /\ UNCHANGED <<latest, asked, live, hidden, mounted, startup, suppress>>

\* The finally block, and then() of a page change: the poll is armed again,
\* and a failed page change goes back to the page it left.
Finish(r, ok) ==
    /\ requests' = requests \ {r}
    /\ inflight' = NoId
    /\ timer' = (live /\ mounted /\ ~hidden /\ ~PollingDisabled(window))
    /\ IF ~ok /\ r.back # None
       THEN page' = r.back.page /\ size' = r.back.size
       ELSE UNCHANGED <<page, size>>
    /\ UNCHANGED <<latest, query, window, live, hidden, mounted, startup, suppress>>

\* The table's half ends: the histogram's half follows if it was wanted.
AfterTable(r, ok) ==
    IF r.wantsHist
    THEN /\ requests' = (requests \ {r}) \cup {[r EXCEPT !.stage = "hist", !.tableOk = ok]}
         /\ UNCHANGED <<query, window, size, polling, latest, inflight>>
         /\ page' = IF ok THEN r.page ELSE page
    ELSE Finish(r, ok)

\* ensureRealtimePageCursor walked to the page, from the bridge page on.
CursorFound(r) ==
    /\ r.stage = "cursor" /\ r.id = latest
    /\ LET at(p) == [page |-> p, query |-> r.query, size |-> r.size]
       IN  /\ cursors' = {c \in cursors : c.page <= MaxDirect}
                             \cup {at(p) : p \in MaxDirect + 1 .. r.page}
           /\ requests' = (requests \ {r}) \cup
                              {[r EXCEPT !.stage = "table", !.cursor = at(r.page)]}
    /\ UNCHANGED <<asked, polling, latest, inflight, view>>

\* The result ends before the page: a warning, and nothing is marked stale.
CursorMissing(r) ==
    /\ r.stage = "cursor" /\ r.id = latest
    /\ refreshing' = FALSE
    /\ Finish(r, FALSE)
    /\ UNCHANGED <<cursors, shown, outcome, hist, histStale>>

\* Mutant: the number of the answer is not compared with the latest one.
TableAnswerUnguarded(r, deep, more) ==
    /\ r.stage = "table"
    /\ shown' = [id |-> r.id, query |-> r.query, range |-> r.range, page |-> r.page,
                 size |-> r.size, deep |-> deep]
    /\ outcome' = "ok"
    /\ refreshing' = FALSE
    /\ AfterTable(r, TRUE)
    /\ UNCHANGED <<cursors, hist, histStale>>

\* The rows, with the cursor of the next page if there is one.
TableAnswer(r, deep, more) ==
    /\ r.stage = "table" /\ r.id = latest
    /\ shown' = [id |-> r.id, query |-> r.query, range |-> r.range, page |-> r.page,
                 size |-> r.size, deep |-> deep]
    /\ cursors' = {c \in cursors : c.page # r.page + 1} \cup
           (IF more /\ r.page < MaxPage
            THEN {[page |-> r.page + 1, query |-> r.query, size |-> r.size]} ELSE {})
    /\ outcome' = "ok"
    /\ refreshing' = FALSE
    /\ AfterTable(r, TRUE)
    /\ UNCHANGED <<hist, histStale>>

\* Mutant: a silent refresh fails without a mark.
TableFailureUnmarked(r) ==
    /\ r.stage \in {"cursor", "table"} /\ r.id = latest
    /\ refreshing' = FALSE
    /\ AfterTable(r, FALSE)
    /\ UNCHANGED <<cursors, shown, outcome, hist, histStale>>

\* The old rows stay and are marked stale, or there is an error.
TableFailure(r) ==
    /\ r.stage \in {"cursor", "table"} /\ r.id = latest
    /\ outcome' = IF shown # None THEN "stale" ELSE "error"
    /\ refreshing' = FALSE
    /\ AfterTable(r, FALSE)
    /\ UNCHANGED <<cursors, shown, hist, histStale>>

\* Both aggregate queries of the histogram, after the table's half.
HistogramAnswer(r, ok) ==
    /\ r.stage = "hist" /\ r.id = latest
    /\ hist' = IF ok THEN r.query ELSE hist
    /\ histStale' = (~ok /\ hist # None)
    /\ Finish(r, r.tableOk)
    /\ UNCHANGED <<cursors, shown, outcome, refreshing>>

RetryAnswer(r, ok) ==
    /\ r.stage = "retry" /\ r.id = latest
    /\ requests' = requests \ {r}
    /\ hist' = IF ok THEN r.query ELSE hist
    /\ histStale' = (~ok /\ hist # None)
    /\ UNCHANGED <<asked, polling, latest, inflight, cursors, shown, outcome, refreshing>>

----------------------------------------------------------------------------
SearchInit ==
    /\ query = EmptyQuery /\ window \in Relative /\ page = 1 /\ size = StoredSize
    /\ live = TRUE /\ hidden = FALSE /\ mounted = TRUE
    /\ startup \in {"plain", "preset"}
    /\ timer = TRUE /\ suppress = FALSE
    /\ latest = NoId /\ inflight = NoId /\ requests = {} /\ cursors = {}
    /\ shown = None /\ outcome = "ok" /\ refreshing = FALSE
    /\ hist = None /\ histStale = FALSE

UserAction ==
    \/ \E q \in Query : ChangeFilter(q) \/ \E withRange \in BOOLEAN : RunSearch(q, withRange)
    \/ \E w \in Window : ChangeWindow(w)
    \/ ToggleLive
    \/ \E p \in Page : ChangePage(p)
    \/ \E s \in Size : ChangeSize(s)
    \/ RetryQuery
    \/ RetryHistogram

BrowserAction ==
    \/ \E q \in Query, withRange \in BOOLEAN : StartupQuery(q, withRange)
    \/ LiveTick
    \/ Hide
    \/ Show
    \/ UnmountSearch

AnswerSearch(r) ==
    \/ DropStale(r)
    \/ CursorFound(r)
    \/ CursorMissing(r)
    \/ \E deep, more \in BOOLEAN : TableAnswer(r, deep, more)
    \/ TableFailure(r)
    \/ \E ok \in BOOLEAN : HistogramAnswer(r, ok) \/ RetryAnswer(r, ok)

SearchNext == UserAction \/ BrowserAction \/ \E r \in requests : AnswerSearch(r)

SearchSpec == SearchInit /\ [][SearchNext]_searchVars

----------------------------------------------------------------------------
(* Properties.                                                              *)

\* Every variable has its type.
SearchTypeOK ==
    /\ query \in Query /\ window \in Window /\ page \in Page /\ size \in Size
    /\ live \in BOOLEAN /\ hidden \in BOOLEAN /\ mounted \in BOOLEAN
    /\ startup \in {"plain", "preset", "done"}
    /\ timer \in BOOLEAN /\ suppress \in BOOLEAN
    /\ latest \in 0 .. MaxRequests /\ inflight \in 0 .. MaxRequests
    /\ requests \subseteq SearchRequest
    /\ cursors \subseteq Cursor
    /\ shown \in Rows \cup {None} /\ outcome \in {"ok", "stale", "error"}
    /\ refreshing \in BOOLEAN
    /\ hist \in Query \cup {None} /\ histStale \in BOOLEAN

\* While the poll is on, the page always has its next refresh coming: the
\* timer is armed or a query whose answer arms it is in flight
\* (scheduleNextLiveTick and the finally block of executeQuery).
LiveKeepsPolling ==
    live /\ mounted /\ ~hidden => timer \/ inflight # NoId

\* The timer never runs beside a query, in a hidden tab, after the page is
\* left, or over a range that does not move.
TimerOnlyWhileIdle ==
    timer => live /\ mounted /\ ~hidden /\ ~PollingDisabled(window) /\ inflight = NoId

\* Once nothing is in flight and no alert says otherwise, the rows are those
\* of the query, page and page size that the controls show.
RowsOfTheQuery ==
    inflight = NoId /\ outcome = "ok" /\ shown # None
        => shown.query = query /\ shown.page = page /\ shown.size = size

\* ... and the histogram beside them is the histogram of the same query,
\* also when the query that should have drawn it was superseded.
HistogramOfTheQuery ==
    inflight = NoId /\ outcome = "ok" /\ ~histStale /\ hist # None => hist = query

\* A page beyond the search window is only asked for with a cursor of the
\* same query and page size (pageCursorMapRef).
DeepPageHasItsCursor ==
    \A r \in requests :
        r.id = latest /\ r.stage = "table" /\ r.page > MaxDirect
            => r.cursor = [page |-> r.page, query |-> r.query, size |-> r.size]

\* The rows are never replaced by those of an older request.
RowsNeverGoBack ==
    [][shown' # shown => shown = None \/ shown'.id > shown.id]_searchVars

=============================================================================
