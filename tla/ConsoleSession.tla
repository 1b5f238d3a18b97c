--------------------------- MODULE ConsoleSession ---------------------------
(***************************************************************************)
(* The session of the web console: several browser tabs, each with its own *)
(* in-memory store (stores/authStore.ts) and route guard                    *)
(* (components/auth/ProtectedRoute.tsx), that share localStorage and talk   *)
(* to the session table of the api service.                                *)
(*                                                                         *)
(* A token stands for the triple access token, refresh token and expiry,   *)
(* which the code always writes and removes together.  Which of the tokens *)
(* that are still free the server issues is immaterial; 0 is "no token".   *)
(***************************************************************************)
EXTENDS Naturals, FiniteSets

CONSTANTS
    Tab,        \* the browser tabs
    MaxToken,   \* bound: how many tokens the server issues
    MaxActs     \* bound: how often users sign in, sign out or reload

ASSUME BoundsAssumption == MaxToken \in Nat \ {0} /\ MaxActs \in Nat

Token == 1 .. MaxToken
NoToken == 0
AnyToken == Token \cup {NoToken}

VARIABLES
    local,      \* localStorage, shared by the tabs
    session,    \* sessionStorage, one per tab
    tab,        \* what each tab keeps in memory
    recent,     \* tokens a tab has synchronised within the 3 s window
    calls,      \* HTTP calls that have not been answered
    status,     \* the server's user_sessions rows
    family,     \* the rotation chain a row belongs to
    expired,    \* tokens whose access token is past its expiry
    acts        \* what users did so far, for the bound

vars == <<local, session, tab, recent, calls, status, family, expired, acts>>

----------------------------------------------------------------------------
(* Web storage: utils/authStorage.ts.                                      *)

\* The keys of one storage: the token triple, the scope marker and the
\* zustand snapshot of isAuthenticated.
EmptyStorage == [token |-> NoToken, marked |-> FALSE, snapshot |-> "none"]
Storage == [token : AnyToken, marked : BOOLEAN, snapshot : {"none", "in", "out"}]

\* Both storages as tab t sees them.
Seen(t) == [local |-> local, session |-> session[t]]
Other(scope) == IF scope = "local" THEN "session" ELSE "local"
InUse(store) == store.token # NoToken \/ store.snapshot # "none"

\* The scope the code works in: local unless only session is marked or used.
ResolveScope(s) ==
    IF /\ ~s.local.marked
       /\ \/ s.session.marked
          \/ ~InUse(s.local) /\ InUse(s.session)
    THEN "session" ELSE "local"

\* The token a read finds: the resolved scope first, then the other one.
StoredToken(s) ==
    LET scope == ResolveScope(s)
    IN  IF s[scope].token # NoToken THEN s[scope].token ELSE s[Other(scope)].token

WriteTokens(s, scope, n) ==
    [s EXCEPT ![scope].token = n, ![scope].marked = TRUE,
              ![Other(scope)].token = NoToken, ![Other(scope)].marked = FALSE]

ClearStorage == [local |-> EmptyStorage, session |-> EmptyStorage]

\* persistAuthSession: everything is cleared, then one scope is written.
PersistSession(n, remember) ==
    WriteTokens(ClearStorage, IF remember THEN "local" ELSE "session", n)

\* Every set() of the store rewrites the snapshot in the resolved scope.
WriteSnapshot(s, isAuthenticated) ==
    LET scope == ResolveScope(s)
    IN  [s EXCEPT ![scope].snapshot = IF isAuthenticated THEN "in" ELSE "out",
                  ![Other(scope)].snapshot = "none"]

\* What a reloaded tab takes isAuthenticated from: local first.
Rehydrated(s) ==
    "in" = IF s.local.snapshot # "none" THEN s.local.snapshot ELSE s.session.snapshot

TokenIsValid(s) == StoredToken(s) # NoToken /\ StoredToken(s) \notin expired

----------------------------------------------------------------------------
(* One tab.  Its memory:                                                    *)
(*   auth     isAuthenticated                                               *)
(*   authz    authzSourceToken; the context is ready unless it is NoToken   *)
(*   valid    the memoised validation of the last tick                      *)
(*   attempt  the refresh token of refreshAttemptKeyRef                     *)
(*   needs    needsAuthorizationSync of the last render                     *)
(*   awaits   the sync whose failure the effect of that render handles      *)
(*   shown    what the last render put on the screen                        *)
(* A step of a tab transforms a view of the world: its two storages, its    *)
(* memory, its recent set and the calls.                                    *)

Blank == [auth |-> FALSE, authz |-> NoToken, valid |-> FALSE, attempt |-> NoToken,
          needs |-> FALSE, awaits |-> NoToken, shown |-> "login"]

World(t) == [st |-> Seen(t), mem |-> tab[t], recent |-> recent[t], calls |-> calls]

Become(t, after) ==
    \E w \in {after} :
        /\ local' = w.st.local
        /\ session' = [session EXCEPT ![t] = w.st.session]
        /\ tab' = [tab EXCEPT ![t] = w.mem]
        /\ recent' = [recent EXCEPT ![t] = w.recent]
        /\ calls' = w.calls

Call(kind, t, n, remember) ==
    [kind |-> kind, tab |-> t, token |-> n, remember |-> remember, page |-> "mounted",
     stage |-> "sent", issued |-> NoToken]

\* The route guard is unmounted: answers to its refresh are ignored.
Unmount(t, w) ==
    [w EXCEPT !.mem.attempt = NoToken, !.mem.needs = FALSE, !.mem.awaits = NoToken,
              !.mem.shown = "login",
              !.calls = {IF c.kind = "refresh" /\ c.tab = t /\ c.page = "mounted"
                         THEN [c EXCEPT !.page = "unmounted"] ELSE c : c \in w.calls}]

\* The finally block of logout, and clearAuthStorage before it.
SignOut(t, w) ==
    Unmount(t, [w EXCEPT !.st = WriteSnapshot(ClearStorage, FALSE), !.recent = {},
                         !.mem.auth = FALSE, !.mem.authz = NoToken])

\* syncAuthorizationContext: nothing within the window, a shared promise, or a call.
Synchronise(t, w) ==
    LET n == StoredToken(w.st)
    IN  IF n \in w.recent THEN w
        ELSE [w EXCEPT !.calls = @ \cup {Call("sync", t, n, FALSE)}, !.mem.awaits = n]

\* The effect that refreshes: one attempt per refresh token.
RefreshEffect(t, w) ==
    LET n == StoredToken(w.st)
        should == ~w.mem.valid /\ n # NoToken
    IN  IF ~should THEN [w EXCEPT !.mem.attempt = NoToken]
        ELSE IF w.mem.attempt = n THEN w
        ELSE [w EXCEPT !.mem.attempt = n, !.calls = @ \cup {Call("refresh", t, n, FALSE)}]

\* The effect that synchronises the authorization context: it runs when the
\* need for it changes.
AuthorizationEffect(t, w) ==
    LET n == StoredToken(w.st)
        needs == w.mem.valid /\ n # NoToken /\ w.mem.authz # n
        seen == [w EXCEPT !.mem.needs = needs]
    IN  IF needs = w.mem.needs THEN seen
        ELSE IF needs THEN Synchronise(t, [seen EXCEPT !.mem.awaits = NoToken])
        ELSE [seen EXCEPT !.mem.awaits = NoToken]

Screen(mem) ==
    IF ~mem.valid \/ mem.needs \/ mem.authz = NoToken THEN "loading" ELSE "page"

\* ProtectedRoute renders and its effects run; a tab that is not signed in
\* shows the login page.  An invalid session that cannot be refreshed is
\* cleaned up and signed out locally.
Render(t, before) ==
    \E w \in {before} :
        IF ~w.mem.auth THEN Become(t, Unmount(t, w))
        ELSE IF ~w.mem.valid /\ StoredToken(w.st) = NoToken THEN Become(t, SignOut(t, w))
        ELSE \E r \in {RefreshEffect(t, w)} : \E a \in {AuthorizationEffect(t, r)} :
                 Become(t, [a EXCEPT !.mem.shown = Screen(a.mem)])

\* A render with a fresh nowMs: the validation is computed anew.
Revalidate(t, before) ==
    \E w \in {before} : Render(t, [w EXCEPT !.mem.valid = TokenIsValid(w.st)])

\* set() of the store: the snapshot is persisted and the tab renders.
Store(t, before) ==
    \E w \in {before} : Render(t, [w EXCEPT !.st = WriteSnapshot(@, w.mem.auth)])

----------------------------------------------------------------------------
\* Either nobody is signed in, or the tabs have just been opened with a
\* remembered session in localStorage and synchronise its context.
Remembered == [token |-> 1, marked |-> TRUE, snapshot |-> "in"]
Opened == [Blank EXCEPT !.auth = TRUE, !.valid = TRUE, !.needs = TRUE, !.awaits = 1,
                        !.shown = "loading"]

Init ==
    /\ session = [t \in Tab |-> EmptyStorage]
    /\ recent = [t \in Tab |-> {}]
    /\ family = [n \in Token |-> n]
    /\ expired = {}
    /\ acts = 0
    /\ \/ /\ local = EmptyStorage
          /\ tab = [t \in Tab |-> Blank]
          /\ calls = {}
          /\ status = [n \in Token |-> "free"]
       \/ /\ local = Remembered
          /\ tab = [t \in Tab |-> Opened]
          /\ calls = {Call("sync", t, 1, FALSE) : t \in Tab}
          /\ status = [n \in Token |-> IF n = 1 THEN "active" ELSE "free"]

\* The users have done at most MaxActs things.
Act == acts < MaxActs /\ acts' = acts + 1

Done(c) == c.stage \in {"ok", "failed"}
FreeTokens == {n \in Token : status[n] = "free"}
NextToken == CHOOSE n \in FreeTokens : TRUE

\* The 5 s interval of the route guard.
Tick(t) ==
    /\ tab[t].auth
    /\ Revalidate(t, World(t))
    /\ UNCHANGED <<status, family, expired, acts>>

\* LoginForm: isLoading keeps a second submission away.
SubmitLogin(t, remember) ==
    /\ Act
    /\ tab[t].shown = "login"
    /\ ~tab[t].auth
    /\ ~\E c \in calls : c.kind = "login" /\ c.tab = t /\ c.page # "gone"
    /\ Store(t, [World(t) EXCEPT !.calls = @ \cup {Call("login", t, NoToken, remember)}])
    /\ UNCHANGED <<status, family, expired>>

\* AppHeader: the user signs out; the server is told first.
SubmitLogout(t) ==
    /\ Act
    /\ tab[t].shown = "page"
    /\ LET n == StoredToken(Seen(t))
       IN  IF n = NoToken THEN Become(t, SignOut(t, World(t)))
           ELSE /\ calls' = calls \cup {Call("logout", t, n, FALSE)}
                /\ UNCHANGED <<local, session, tab, recent>>
    /\ UNCHANGED <<status, family, expired>>

\* The tab is reloaded: memory goes, storage stays, and the answers to the
\* calls of the old page reach nobody (the server may still handle them).
Reload(t) ==
    /\ Act
    /\ LET orphaned == {IF c.tab = t THEN [c EXCEPT !.page = "gone"] ELSE c :
                         c \in {d \in calls : d.tab # t \/ (d.kind # "sync" /\ ~Done(d))}}
           w == [World(t) EXCEPT !.mem = [Blank EXCEPT !.auth = Rehydrated(Seen(t))],
                                 !.recent = {}, !.calls = orphaned]
       IN  Revalidate(t, w)
    /\ UNCHANGED <<status, family, expired>>

----------------------------------------------------------------------------
(* The server.  Each call is handled once; the answer travels separately.   *)

Reply(c, stage, n) == calls' = (calls \ {c}) \cup {[c EXCEPT !.stage = stage, !.issued = n]}

HandleLogin(c) ==
    /\ c.kind = "login" /\ c.stage = "sent"
    /\ \/ /\ FreeTokens # {}
          /\ status' = [status EXCEPT ![NextToken] = "active"]
          /\ Reply(c, "ok", NextToken)
       \/ status' = status /\ Reply(c, "failed", NoToken)
    /\ UNCHANGED <<local, session, tab, recent, family, expired, acts>>

\* Refresh looks the active session up before it opens the transaction.
HandleRefreshLookup(c) ==
    /\ c.kind = "refresh" /\ c.stage = "sent"
    /\ Reply(c, IF status[c.token] = "active" THEN "found" ELSE "failed", NoToken)
    /\ UNCHANGED <<local, session, tab, recent, status, family, expired, acts>>

\* Mutant: the row that is rotated out stays usable.
RotateKeepingOld(c) ==
    /\ c.kind = "refresh" /\ c.stage = "found"
    /\ \/ /\ status[c.token] = "active"
          /\ FreeTokens # {}
          /\ status' = [status EXCEPT ![NextToken] = "active"]
          /\ family' = [family EXCEPT ![NextToken] = family[c.token]]
          /\ Reply(c, "ok", NextToken)
       \/ Reply(c, "failed", NoToken) /\ UNCHANGED <<status, family>>
    /\ UNCHANGED <<local, session, tab, recent, expired, acts>>

\* The transaction locks the row and checks its status again; a row that was
\* replaced meanwhile takes its whole family with it.
HandleRotate(c) ==
    /\ c.kind = "refresh" /\ c.stage = "found"
    /\ \/ /\ status[c.token] = "active"
          /\ FreeTokens # {}
          /\ status' = [status EXCEPT ![c.token] = "replaced", ![NextToken] = "active"]
          /\ family' = [family EXCEPT ![NextToken] = family[c.token]]
          /\ Reply(c, "ok", NextToken)
       \/ Reply(c, "failed", NoToken) /\ UNCHANGED <<status, family>>
       \/ /\ status[c.token] # "active"
          /\ status' = [n \in Token |->
                          IF /\ status[c.token] = "replaced"
                             /\ family[n] = family[c.token]
                             /\ status[n] = "active"
                          THEN "revoked" ELSE status[n]]
          /\ Reply(c, "failed", NoToken)
          /\ UNCHANGED family
    /\ UNCHANGED <<local, session, tab, recent, expired, acts>>

HandleLogout(c) ==
    /\ c.kind = "logout" /\ c.stage = "sent"
    /\ status' = [status EXCEPT ![c.token] = IF @ = "active" THEN "revoked" ELSE @]
    /\ Reply(c, "ok", NoToken)
    /\ UNCHANGED <<local, session, tab, recent, family, expired, acts>>

\* The request or its answer is lost: fetch rejects.
Lose(c) ==
    /\ c.kind # "sync" /\ c.page # "gone"
    /\ c.stage = "sent" \/ (c.stage = "ok" /\ c.kind # "logout")
    /\ Reply(c, "failed", NoToken)
    /\ UNCHANGED <<local, session, tab, recent, status, family, expired, acts>>

----------------------------------------------------------------------------
(* Answers.                                                                 *)

Without(w, c) == [w EXCEPT !.calls = @ \ {c}]

\* handleFinish: tokens are persisted, the store signs in and synchronises.
LoginAnswer(c) ==
    /\ c.kind = "login" /\ Done(c) /\ c.page # "gone"
    /\ LET w == Without(World(c.tab), c)
           in == [w EXCEPT !.st = WriteSnapshot(PersistSession(c.issued, c.remember), TRUE),
                           !.mem = [Blank EXCEPT !.auth = TRUE]]
       IN  IF c.stage = "ok" THEN Revalidate(c.tab, in) ELSE Store(c.tab, w)
    /\ UNCHANGED <<status, family, expired, acts>>

\* Mutant: a lost answer does not sign out, and the attempt stays taken.
RefreshAnswerIgnoringFailure(c) ==
    /\ c.kind = "refresh" /\ Done(c) /\ c.page # "gone"
    /\ LET t == c.tab
           w == Without(World(t), c)
           kept == IF c.stage = "ok"
                   THEN [w EXCEPT !.st = WriteTokens(@, ResolveScope(@), c.issued)] ELSE w
       IN  IF c.stage = "ok" /\ c.page = "mounted" /\ w.mem.attempt = c.token
           THEN Revalidate(t, [kept EXCEPT !.mem.attempt = NoToken]) ELSE Become(t, kept)
    /\ UNCHANGED <<status, family, expired, acts>>

\* refreshAccessToken persists what it got before anyone asks whether the
\* answer is still wanted; a refusal that is still wanted signs out.
RefreshAnswer(c) ==
    /\ c.kind = "refresh" /\ Done(c) /\ c.page # "gone"
    /\ LET t == c.tab
           w == Without(World(t), c)
           wanted == c.page = "mounted" /\ w.mem.attempt = c.token
           kept == IF c.stage = "ok"
                   THEN [w EXCEPT !.st = WriteTokens(@, ResolveScope(@), c.issued)] ELSE w
       IN  IF ~wanted THEN Become(t, kept)
           ELSE IF c.stage = "ok" THEN Revalidate(t, [kept EXCEPT !.mem.attempt = NoToken])
           ELSE Become(t, SignOut(t, w))
    /\ UNCHANGED <<status, family, expired, acts>>

\* GET /users/me depends on nothing but the access token: the call and its
\* answer are one step.  The context is set whoever is signed in by now; a
\* failure empties it, and signs out when the effect that asked is still
\* current.
SyncAnswer(c) ==
    /\ c.kind = "sync"
    /\ LET t == c.tab
           w == Without(World(t), c)
           wanted == w.mem.awaits = c.token
           over == IF wanted THEN [w EXCEPT !.mem.awaits = NoToken] ELSE w
       IN  \/ /\ c.token \notin expired
              /\ Store(t, [over EXCEPT !.recent = @ \cup {c.token}, !.mem.authz = c.token])
           \/ /\ wanted
              /\ Become(t, SignOut(t, over))
           \/ /\ ~wanted
              /\ Store(t, [over EXCEPT !.recent = @ \ {c.token}, !.mem.authz = NoToken])
    /\ UNCHANGED <<status, family, expired, acts>>

\* Whatever the server says, the local session ends.
LogoutAnswer(c) ==
    /\ c.kind = "logout" /\ Done(c) /\ c.page # "gone"
    /\ Become(c.tab, SignOut(c.tab, Without(World(c.tab), c)))
    /\ UNCHANGED <<status, family, expired, acts>>

\* An answer for a page that is gone.
OrphanAnswer(c) ==
    /\ Done(c) /\ c.page = "gone"
    /\ calls' = calls \ {c}
    /\ UNCHANGED <<local, session, tab, recent, status, family, expired, acts>>

----------------------------------------------------------------------------
(* Time.                                                                    *)

Expire(n) ==
    /\ status[n] # "free" /\ n \notin expired
    /\ expired' = expired \cup {n}
    /\ UNCHANGED <<local, session, tab, recent, calls, status, family, acts>>

\* Three seconds have passed since tab t synchronised token n.
WindowEnds(t, n) ==
    /\ n \in recent[t]
    /\ recent' = [recent EXCEPT ![t] = @ \ {n}]
    /\ UNCHANGED <<local, session, tab, calls, status, family, expired, acts>>

Handle(c) == HandleLogin(c) \/ HandleRefreshLookup(c) \/ HandleRotate(c)
             \/ HandleLogout(c)
Answer(c) == LoginAnswer(c) \/ RefreshAnswer(c) \/ SyncAnswer(c) \/ LogoutAnswer(c)
             \/ OrphanAnswer(c)

Next ==
    \/ \E t \in Tab : \/ Tick(t)
                      \/ \E remember \in BOOLEAN : SubmitLogin(t, remember)
                      \/ SubmitLogout(t)
                      \/ Reload(t)
                      \/ \E n \in Token : WindowEnds(t, n)
    \/ \E c \in calls : Handle(c) \/ Answer(c) \/ Lose(c)
    \/ \E n \in Token : Expire(n)

\* The interval fires, the server answers what it received and the browser
\* delivers every answer or a rejection.
Fairness ==
    \A t \in Tab :
        /\ WF_vars(Tick(t))
        /\ \A k \in {"login", "refresh", "sync", "logout"} :
               WF_vars(\E c \in calls : c.tab = t /\ c.kind = k /\ (Handle(c) \/ Answer(c)))

Spec == Init /\ [][Next]_vars
FairSpec == Spec /\ Fairness

----------------------------------------------------------------------------
(* Properties.                                                              *)

MemoryType == [auth : BOOLEAN, authz : AnyToken, valid : BOOLEAN, attempt : AnyToken,
               needs : BOOLEAN, awaits : AnyToken, shown : {"login", "loading", "page"}]

\* Every variable has its type.
TypeOK ==
    /\ local \in Storage
    /\ session \in [Tab -> Storage]
    /\ tab \in [Tab -> MemoryType]
    /\ recent \in [Tab -> SUBSET Token]
    /\ status \in [Token -> {"free", "active", "replaced", "revoked"}]
    /\ family \in [Token -> Token]
    /\ expired \subseteq Token

\* However refreshes, replays and sign-outs of several tabs interleave, a
\* rotation chain has at most one usable refresh token, and none once any
\* of its tokens has been revoked (RotateSessionByRefreshToken).
OneLiveTokenPerFamily ==
    \A m, n \in Token :
        family[m] = family[n] /\ status[m] = "active"
            => status[n] # "revoked" /\ (status[n] = "active" => m = n)

\* The loading screen waits for something: over an expired session a refresh
\* is in flight whose answer this guard still wants, and the effect that asked
\* for a context has its synchronisation in flight, however answers to other
\* attempts, other tabs and other mounts come in between.
LoadingAwaitsACall ==
    \A t \in Tab :
        LET sent(kind, n) == \E c \in calls : c.kind = kind /\ c.tab = t /\ c.token = n /\ c.page = "mounted"
        IN  /\ tab[t].shown = "loading" /\ ~tab[t].valid => sent("refresh", tab[t].attempt)
            /\ tab[t].awaits # NoToken => sent("sync", tab[t].awaits)

\* A signed-in tab always gets to a page or back to the login page: the
\* session goes on across refreshes and does not hang on the loading screen.
LoadingEnds ==
    \A t \in Tab : []<>(tab[t].shown # "loading")

=============================================================================
