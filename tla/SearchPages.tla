----------------------------- MODULE SearchPages -----------------------------
(***************************************************************************)
(* pages/search/SearchHistory.tsx and SavedQueries.tsx, with the client    *)
(* of the query API.  A session without a server (emergency token, or      *)
(* offline without a token) keeps both lists in localStorage: the same     *)
(* behaviour with calls that never fail.                                   *)
(***************************************************************************)
EXTENDS ConsolePage

----------------------------------------------------------------------------
(* The client and what both pages share.                                    *)

\* requestQueryApi: a GET joins one that is in flight for the same address.
\* The load that is joined is dropped for its sequence number, so its call
\* goes on under the number of the later load.
QueryGet(w, view, flag) ==
    LET same == {c \in w.calls : c.kind = "read" /\ c.of = view}
        next == Await(w, "list", view, flag, "none")
        merge(c) == [c EXCEPT !.id = next.ui.started, !.flag = IF flag = "none" THEN @ ELSE flag]
    IN  IF same = {} THEN next
        ELSE [next EXCEPT !.calls = (w.calls \ same) \cup {merge(c) : c \in same}]

\* fetchQueryHistory, fetchSavedQueries.
FetchQueryHistory(w, view, flag) == QueryGet(w, view, flag)
FetchSavedQueries(w, view, flag) == QueryGet(w, view, flag)

\* The pagination goes to another view and remembers the one it came from.
Turn(w, v) == [w EXCEPT !.ui.held = [to |-> v, from |-> w.ui.view], !.ui.view = v, !.ui.sel = {}]

\* setCurrentPage: the effect on the load function runs if the view changes.
GoTo(w, v) == IF w.ui.view = v THEN w ELSE QueryGet([w EXCEPT !.ui.view = v], v, "none")

\* The answer of a load.  The failed load of a page that was turned to is given
\* up for the page before it, which is only loaded when the view has not gone
\* there in the meantime; another failure keeps the rows.
PagedAnswer(c, w) ==
    LET turned == w.ui.held # None /\ w.ui.held.to = c.of
        back == [w EXCEPT !.ui.held = None, !.ui.list.loading = FALSE,
                          !.ui.list.of = IF w.ui.list.shown = None THEN None ELSE w.ui.list.shown.of]
    IN  IF w.ui.list.latest # c.id THEN Idle(w, c.flag)
        ELSE CASE c.ok -> Idle(Answered(c, [w EXCEPT !.ui.held = None]), c.flag)
               [] ~c.ok /\ turned -> Idle(GoTo(back, w.ui.held.from), c.flag)
               [] OTHER -> Idle(AnsweredKeeping(c, w), c.flag)

----------------------------------------------------------------------------
(* SearchHistory.                                                           *)

HistoryEffect(kind, s) == IF kind = "delete" THEN "gone" ELSE "same"

LoadHistory(w, view) == FetchQueryHistory(w, view, "none")

\* refreshAfterDelete with what its closure knew: the first page when the total
\* less the deleted rows fits on it, otherwise the view of the click again.
RefreshAfterDelete(c, w, affected) ==
    IF affected # {} /\ c.of # FirstView /\ c.since - Cardinality(affected) <= Cardinality(Listed[FirstView])
    THEN GoTo([w EXCEPT !.ui.sel = {}], FirstView)
    ELSE LoadHistory([w EXCEPT !.ui.sel = {}], c.of)

\* handleDelete, and handleBatchDelete, whose button is free before the reload.
HistoryDeleted(c, w) ==
    LET affected == c.done \cup c.missing
    IN  IF c.then = "batch" THEN Idle(RefreshAfterDelete(c, w, affected), c.flag)
        ELSE IF affected # {} THEN RefreshAfterDelete(c, w, affected)
        ELSE w

SearchHistoryAnswer(c, w) ==
    CASE c.kind = "read" -> PagedAnswer(c, w)
      [] c.kind = "delete" -> HistoryDeleted(c, w)
      [] OTHER -> w

SearchHistoryMount(w) == LoadHistory(w, FirstView)

OnSearchHistory == page = "SearchHistory" /\ ~ui.hidden

TurnHistory(v) ==
    /\ OnSearchHistory /\ v # ui.view
    /\ Become({LoadHistory(Turn(World, v), v)})

\* handleSearch, the date range and the reset: the first page of a filter.
SearchInHistory ==
    /\ OnSearchHistory /\ ui.view # FirstView
    /\ Become({LoadHistory([World EXCEPT !.ui.view = FirstView, !.ui.sel = {}], FirstView)})

RetryHistory ==
    /\ OnSearchHistory /\ ui.list.failed /\ "retry" \notin ui.busy
    /\ Become({FetchQueryHistory([World EXCEPT !.ui.busy = @ \cup {"retry"}], ui.view, "retry")})

\* handleVisibleRowsSelectionChange, handleRowSelectionChange.
SelectHistory(rows) ==
    /\ OnSearchHistory /\ "batch" \notin ui.busy
    /\ rows \subseteq Shown \cup ui.sel /\ rows # ui.sel
    /\ Become({[World EXCEPT !.ui.sel = rows]})

Total == Cardinality({r \in Row : StatusOf(r) # "gone"})

\* deleteQueryHistory, for one row or for each of the selection.
DeleteHistory(w, rows, flag, then) ==
    [Write(w, "delete", rows, flag, then) EXCEPT
        !.calls = {IF c.id = w.ui.started + 1 THEN [c EXCEPT !.since = Total] ELSE c : c \in @}]

DeleteHistoryRow(r) ==
    /\ OnSearchHistory /\ r \in Shown
    /\ Become({DeleteHistory(World, {r}, "none", "single")})

DeleteSelectedHistory ==
    /\ OnSearchHistory /\ ui.sel # {} /\ "batch" \notin ui.busy
    /\ Become({DeleteHistory(World, ui.sel, "batch", "batch")})

\* handleReplay leaves for the realtime search.
ReplayHistory(r) == OnSearchHistory /\ r \in Shown /\ Become({Leave(World)})

\* handleBookmark, which may ask before it saves the query without its range.
BookmarkHistory(r) ==
    /\ OnSearchHistory /\ r \in Shown
    /\ Become({Write(World, "bookmark", {r}, "none", "none")})

SearchHistoryNext ==
    \/ SearchInHistory \/ RetryHistory \/ DeleteSelectedHistory
    \/ \E v \in View : TurnHistory(v)
    \/ \E r \in Row : DeleteHistoryRow(r) \/ ReplayHistory(r) \/ BookmarkHistory(r)
    \/ \E rows \in SUBSET Row : SelectHistory(rows)

----------------------------------------------------------------------------
(* SavedQueries.  The status of a query is whether it still has the time    *)
(* range of an old format.                                                  *)

SavedEffect(kind, s) == IF kind = "delete" THEN "gone" ELSE "clean"

LoadSavedQueries(w, view) == FetchSavedQueries(w, view, "none")

\* handleSave: a new query is shown on the first page.
QuerySaved(c, w) ==
    IF ~c.ok THEN w
    ELSE IF c.kind = "create" /\ c.of # FirstView THEN GoTo(CloseForm(w), FirstView)
    ELSE LoadSavedQueries(CloseForm(w), c.of)

\* handleDelete: the last row of a later page.
SavedDeleted(c, w) ==
    IF c.done \cup c.missing = {} THEN w
    ELSE IF c.then = "lastOfPage" THEN GoTo(w, FirstView)
    ELSE LoadSavedQueries(w, c.of)

\* performCleanupDirtyQueries.
QueriesCleaned(c, w) ==
    Idle(IF c.done # {} THEN LoadSavedQueries(w, c.of) ELSE w, c.flag)

SavedQueriesAnswer(c, w) ==
    CASE c.kind = "read" -> PagedAnswer(c, w)
      [] c.kind = "delete" -> SavedDeleted(c, w)
      [] c.kind = "update" /\ c.then = "cleanup" -> QueriesCleaned(c, w)
      [] OTHER -> QuerySaved(c, w)

SavedQueriesMount(w) == LoadSavedQueries(w, FirstView)

OnSavedQueries == page = "SavedQueries" /\ ~ui.hidden /\ ui.dialog = None

TurnSaved(v) ==
    /\ OnSavedQueries /\ v # ui.view
    /\ Become({LoadSavedQueries(Turn(World, v), v)})

\* The search field and the tags.
SearchInSaved ==
    /\ OnSavedQueries /\ ui.view # FirstView
    /\ Become({LoadSavedQueries([World EXCEPT !.ui.view = FirstView], FirstView)})

RetrySaved ==
    /\ OnSavedQueries /\ ui.list.failed /\ "retry" \notin ui.busy
    /\ Become({FetchSavedQueries([World EXCEPT !.ui.busy = @ \cup {"retry"}], ui.view, "retry")})

\* openCreateModal, openEditModal.
OpenSaved(kind, r) ==
    /\ OnSavedQueries
    /\ Openable(kind, r)
    /\ Become({Open(World, kind, r)})

\* handleCleanupDirtyQueries: the question keeps the queries it names.
OpenCleanup ==
    /\ OnSavedQueries /\ "cleanup" \notin ui.busy
    /\ LET dirty == {r \in Shown : StatusOf(r) = "dirty"}
       IN  dirty # {} /\ Become({Open(World, "cleanup", dirty)})

CloseSaved == page = "SavedQueries" /\ ui.dialog # None /\ Become({Close(World)})

\* The form's button is not disabled while its request runs.
SaveQuery == page = "SavedQueries" /\ Form /\ Become({Submit(World, "none")})

ConfirmCleanup ==
    /\ page = "SavedQueries" /\ Dialog("cleanup")
    /\ Become({Write(Close(World), "update", ui.dialog.row, "cleanup", "cleanup")})

DeleteSaved(r) ==
    /\ OnSavedQueries /\ r \in Shown
    /\ LET last == Shown = {r} /\ ui.view # FirstView
       IN  Become({Write(World, "delete", {r}, "none", IF last THEN "lastOfPage" ELSE "none")})

\* handleExecute leaves for the realtime search.
ExecuteSaved(r) == OnSavedQueries /\ r \in Shown /\ Become({Leave(World)})

SavedQueriesNext ==
    \/ SearchInSaved \/ RetrySaved \/ OpenCleanup \/ CloseSaved \/ SaveQuery \/ ConfirmCleanup
    \/ \E v \in View : TurnSaved(v)
    \/ \E r \in Row \cup {None} : \E kind \in {"create", "edit"} : OpenSaved(kind, r)
    \/ \E r \in Row : DeleteSaved(r) \/ ExecuteSaved(r)
=============================================================================
