------------------------ MODULE SessionAndSearchProofs ------------------------
(***************************************************************************)
(* Proofs about ConsoleSession and about RealtimeSearch, in two sections:  *)
(* neither module uses the other.                                          *)
(***************************************************************************)
EXTENDS ConsoleSession, RealtimeSearch, TLAPS

(***************************************************************************)
(* Proofs about ConsoleSession for any number of tabs, tokens and acts.    *)
(*                                                                         *)
(* The rotation of refresh tokens is correct whatever the tabs send, but   *)
(* the argument needs that they send tokens at all.  So the first part     *)
(* follows a token through the storages: every operator of a tab maps a    *)
(* well-formed world to a well-formed one.                                 *)
(***************************************************************************)

Scope == {"local", "session"}
Storages == [local : Storage, session : Storage]

\* The calls: all but a sign-in carry a token.
CallType == [kind : {"login", "refresh", "sync", "logout"}, tab : Tab, token : AnyToken,
             remember : BOOLEAN, page : {"mounted", "unmounted", "gone"},
             stage : {"sent", "found", "ok", "failed"}, issued : AnyToken]
Request == {c \in CallType : c.kind # "login" => c.token \in Token}

WorldType == [st : Storages, mem : MemoryType, recent : SUBSET Token, calls : SUBSET Request]

\* The part of the type invariant that the tabs write.
TabType ==
    /\ local \in Storage
    /\ session \in [Tab -> Storage]
    /\ tab \in [Tab -> MemoryType]
    /\ recent \in [Tab -> SUBSET Token]
    /\ calls \subseteq Request

----------------------------------------------------------------------------
(* Web storage.                                                             *)

LEMMA EmptyIsStorage == EmptyStorage \in Storage /\ ClearStorage \in Storages
  BY DEF EmptyStorage, ClearStorage, Storages, Storage, AnyToken

LEMMA ScopeIsScope == ASSUME NEW s PROVE ResolveScope(s) \in Scope
  BY DEF ResolveScope, Scope

LEMMA StoredTokenIsToken == ASSUME NEW s \in Storages PROVE StoredToken(s) \in AnyToken
<1>1. s.local.token \in AnyToken /\ s.session.token \in AnyToken
  BY DEF Storages, Storage
<1>2. CASE ResolveScope(s) = "local"
  BY <1>1, <1>2 DEF StoredToken, Other
<1>3. CASE ResolveScope(s) = "session"
  BY <1>1, <1>3 DEF StoredToken, Other
<1> QED BY <1>2, <1>3, ScopeIsScope DEF Scope

LEMMA WritesTokens ==
    ASSUME NEW s \in Storages, NEW scope \in Scope, NEW n \in AnyToken
    PROVE  WriteTokens(s, scope, n) \in Storages
<1>1. NoToken \in AnyToken
  BY DEF AnyToken
<1>2. CASE scope = "local"
  BY <1>1, <1>2 DEF WriteTokens, Other, Storages, Storage
<1>3. CASE scope = "session"
  BY <1>1, <1>3 DEF WriteTokens, Other, Storages, Storage
<1> QED BY <1>2, <1>3 DEF Scope

LEMMA PersistsSession ==
    ASSUME NEW n \in AnyToken, NEW remember \in BOOLEAN PROVE PersistSession(n, remember) \in Storages
  BY EmptyIsStorage, WritesTokens DEF PersistSession, Scope

LEMMA WritesSnapshot ==
    ASSUME NEW s \in Storages, NEW isAuthenticated \in BOOLEAN
    PROVE  WriteSnapshot(s, isAuthenticated) \in Storages
<1>1. CASE ResolveScope(s) = "local"
  BY <1>1 DEF WriteSnapshot, Other, Storages, Storage
<1>2. CASE ResolveScope(s) = "session"
  BY <1>2 DEF WriteSnapshot, Other, Storages, Storage
<1> QED BY <1>1, <1>2, ScopeIsScope DEF Scope

----------------------------------------------------------------------------
(* One tab.                                                                 *)

LEMMA TokenIsAnyToken == NoToken \in AnyToken /\ Token \subseteq AnyToken
  BY DEF AnyToken

LEMMA BlankIsMemory == Blank \in MemoryType
  BY TokenIsAnyToken DEF Blank, MemoryType

LEMMA CallIsRequest ==
    ASSUME NEW kind \in {"login", "refresh", "sync", "logout"}, NEW t \in Tab, NEW n \in AnyToken,
           kind # "login" => n # NoToken, NEW remember \in BOOLEAN
    PROVE  Call(kind, t, n, remember) \in Request
  BY TokenIsAnyToken DEF Call, Request, CallType, AnyToken

LEMMA WorldIsWorld == ASSUME TabType, NEW t \in Tab PROVE World(t) \in WorldType
  BY DEF World, WorldType, TabType, Seen, Storages

LEMMA UnmountKeepsType ==
    ASSUME NEW t \in Tab, NEW w \in WorldType PROVE Unmount(t, w) \in WorldType
<1> DEFINE closed(c) == IF c.kind = "refresh" /\ c.tab = t /\ c.page = "mounted"
                        THEN [c EXCEPT !.page = "unmounted"] ELSE c
<1>1. ASSUME NEW c \in w.calls PROVE closed(c) \in Request
  BY <1>1 DEF WorldType, Request, CallType
<1>2. {closed(c) : c \in w.calls} \in SUBSET Request
  BY <1>1
<1> HIDE DEF closed
<1>3. w.mem \in MemoryType
  BY DEF WorldType
<1>4. [w.mem EXCEPT !.attempt = NoToken, !.needs = FALSE, !.awaits = NoToken, !.shown = "login"] \in MemoryType
  BY <1>3, TokenIsAnyToken DEF MemoryType
<1>5. Unmount(t, w) = [w EXCEPT !.mem = [w.mem EXCEPT !.attempt = NoToken, !.needs = FALSE, !.awaits = NoToken, !.shown = "login"],
                                !.calls = {closed(c) : c \in w.calls}]
  BY DEF Unmount, closed, WorldType, MemoryType
<1> QED BY <1>2, <1>4, <1>5 DEF WorldType

LEMMA SignOutKeepsType ==
    ASSUME NEW t \in Tab, NEW w \in WorldType PROVE SignOut(t, w) \in WorldType
<1> DEFINE st == WriteSnapshot(ClearStorage, FALSE)
           mem == [w.mem EXCEPT !.auth = FALSE, !.authz = NoToken]
           out == [w EXCEPT !.st = st, !.recent = {}, !.mem = mem]
<1>1. st \in Storages
  BY EmptyIsStorage, WritesSnapshot
<1>2. mem \in MemoryType
  BY TokenIsAnyToken DEF WorldType, MemoryType
<1>3. [w EXCEPT !.st = st, !.recent = {}, !.mem.auth = FALSE, !.mem.authz = NoToken] = out
  BY DEF WorldType, MemoryType
<1>4. out \in WorldType
  <2> HIDE DEF st, mem
  <2> QED BY <1>1, <1>2 DEF WorldType
<1>5. SignOut(t, w) = Unmount(t, out)
  BY <1>3 DEF SignOut
<1> QED BY <1>4, <1>5, UnmountKeepsType

\* A world with other storages, memory, recent tokens or calls.
LEMMA WorldWith ==
    ASSUME NEW w \in WorldType, NEW st \in Storages, NEW mem \in MemoryType,
           NEW now \in SUBSET Token, NEW sent \in SUBSET Request
    PROVE  [w EXCEPT !.st = st, !.mem = mem, !.recent = now, !.calls = sent] \in WorldType
  BY DEF WorldType

LEMMA SynchroniseKeepsType ==
    ASSUME NEW t \in Tab, NEW w \in WorldType, StoredToken(w.st) # NoToken
    PROVE  Synchronise(t, w) \in WorldType
<1> DEFINE n == StoredToken(w.st)
           mem == [w.mem EXCEPT !.awaits = n]
           sent == w.calls \cup {Call("sync", t, n, FALSE)}
<1>1. n \in AnyToken /\ n # NoToken
  BY StoredTokenIsToken DEF WorldType
<1>2. sent \in SUBSET Request
  BY <1>1, CallIsRequest DEF WorldType
<1>3. mem \in MemoryType
  BY <1>1 DEF WorldType, MemoryType
<1>4. [w EXCEPT !.calls = @ \cup {Call("sync", t, n, FALSE)}, !.mem.awaits = n]
          = [w EXCEPT !.calls = sent, !.mem = mem]
  BY DEF WorldType, MemoryType
<1>5. [w EXCEPT !.calls = sent, !.mem = mem] \in WorldType
  <2> HIDE DEF sent, mem
  <2> QED BY <1>2, <1>3 DEF WorldType
<1> QED BY <1>4, <1>5 DEF Synchronise

LEMMA RefreshEffectKeepsType ==
    ASSUME NEW t \in Tab, NEW w \in WorldType PROVE RefreshEffect(t, w) \in WorldType
<1> DEFINE n == StoredToken(w.st)
           attempting(m) == [w.mem EXCEPT !.attempt = m]
           sent == w.calls \cup {Call("refresh", t, n, FALSE)}
<1>1. n \in AnyToken
  BY StoredTokenIsToken DEF WorldType
<1>2. \A m \in AnyToken : attempting(m) \in MemoryType
  BY DEF WorldType, MemoryType
<1>3. n # NoToken => sent \in SUBSET Request
  BY <1>1, CallIsRequest DEF WorldType
<1>4. \A m \in AnyToken : [w EXCEPT !.mem.attempt = m] = [w EXCEPT !.mem = attempting(m)]
  BY DEF WorldType, MemoryType
<1>5. [w EXCEPT !.mem.attempt = n, !.calls = @ \cup {Call("refresh", t, n, FALSE)}]
          = [w EXCEPT !.mem = attempting(n), !.calls = sent]
  BY DEF WorldType, MemoryType
<1>6. [w EXCEPT !.mem = attempting(NoToken)] \in WorldType
  <2> HIDE DEF attempting
  <2> QED BY <1>2, TokenIsAnyToken DEF WorldType
<1>7. n # NoToken => [w EXCEPT !.mem = attempting(n), !.calls = sent] \in WorldType
  <2> HIDE DEF attempting, sent, n
  <2> QED BY <1>1, <1>2, <1>3 DEF WorldType
<1> QED BY <1>4, <1>5, <1>6, <1>7, TokenIsAnyToken DEF RefreshEffect

LEMMA AuthorizationEffectKeepsType ==
    ASSUME NEW t \in Tab, NEW w \in WorldType PROVE AuthorizationEffect(t, w) \in WorldType
<1> DEFINE n == StoredToken(w.st)
           needs == w.mem.valid /\ n # NoToken /\ w.mem.authz # n
           seen == [w EXCEPT !.mem.needs = needs]
           over == [seen EXCEPT !.mem.awaits = NoToken]
           mem == [w.mem EXCEPT !.needs = needs]
           idle == [mem EXCEPT !.awaits = NoToken]
<1>1. needs \in BOOLEAN
  BY DEF WorldType, MemoryType
<1>2. mem \in MemoryType /\ idle \in MemoryType
  <2> HIDE DEF needs
  <2> QED BY <1>1, TokenIsAnyToken DEF WorldType, MemoryType
<1>3. seen = [w EXCEPT !.mem = mem] /\ over = [w EXCEPT !.mem = idle]
  <2> HIDE DEF needs
  <2> QED BY <1>1 DEF WorldType, MemoryType
<1>4. seen \in WorldType /\ over \in WorldType /\ over.st = w.st
  <2> HIDE DEF mem, idle, seen, over, needs
  <2> QED BY <1>2, <1>3 DEF WorldType
<1>5. needs => Synchronise(t, over) \in WorldType
  <2> HIDE DEF over, seen
  <2> QED BY <1>4, SynchroniseKeepsType
<1>6. AuthorizationEffect(t, w) = IF needs = w.mem.needs THEN seen
                                  ELSE IF needs THEN Synchronise(t, over) ELSE over
  BY DEF AuthorizationEffect
<1> QED
  <2> HIDE DEF over, seen, needs
  <2> QED BY <1>4, <1>5, <1>6

----------------------------------------------------------------------------
(* The view of a tab goes back into the variables.                          *)

LEMMA BecomeKeepsType ==
    ASSUME TabType, NEW t \in Tab, NEW w \in WorldType, Become(t, w) PROVE TabType'
<1>1. /\ w.st.local \in Storage /\ w.st.session \in Storage
      /\ w.mem \in MemoryType /\ w.recent \in SUBSET Token /\ w.calls \in SUBSET Request
  BY DEF WorldType, Storages
<1>2. /\ local' = w.st.local
      /\ session' = [session EXCEPT ![t] = w.st.session]
      /\ tab' = [tab EXCEPT ![t] = w.mem]
      /\ recent' = [recent EXCEPT ![t] = w.recent]
      /\ calls' = w.calls
  BY DEF Become
<1> QED BY <1>1, <1>2 DEF TabType

LEMMA RenderKeepsType ==
    ASSUME TabType, NEW t \in Tab, NEW w \in WorldType, Render(t, w) PROVE TabType'
<1>1. CASE Become(t, Unmount(t, w))
  BY <1>1, UnmountKeepsType, BecomeKeepsType
<1>2. CASE Become(t, SignOut(t, w))
  BY <1>2, SignOutKeepsType, BecomeKeepsType
<1>3. ASSUME NEW a \in {AuthorizationEffect(t, RefreshEffect(t, w))},
             Become(t, [a EXCEPT !.mem.shown = Screen(a.mem)])
      PROVE  TabType'
  <2>1. a \in WorldType
    BY RefreshEffectKeepsType, AuthorizationEffectKeepsType
  <2> DEFINE mem == [a.mem EXCEPT !.shown = Screen(a.mem)]
  <2>2. Screen(a.mem) \in {"login", "loading", "page"}
    BY DEF Screen
  <2>3. mem \in MemoryType
    <3>1. a.mem \in MemoryType
      BY <2>1 DEF WorldType
    <3> QED BY <2>2, <3>1 DEF MemoryType
  <2>4. [a EXCEPT !.mem.shown = Screen(a.mem)] = [a EXCEPT !.mem = mem]
    BY <2>1 DEF WorldType, MemoryType
  <2>5. [a EXCEPT !.mem = mem] \in WorldType
    <3> HIDE DEF mem
    <3> QED BY <2>1, <2>3 DEF WorldType
  <2> QED BY <1>3, <2>4, <2>5, BecomeKeepsType
<1> QED BY <1>1, <1>2, <1>3 DEF Render

LEMMA RevalidateKeepsType ==
    ASSUME TabType, NEW t \in Tab, NEW w \in WorldType, Revalidate(t, w) PROVE TabType'
<1> DEFINE valid == TokenIsValid(w.st)
           mem == [w.mem EXCEPT !.valid = valid]
<1>1. valid \in BOOLEAN
  BY DEF TokenIsValid
<1>2. mem \in MemoryType
  <2> HIDE DEF valid
  <2> QED BY <1>1 DEF WorldType, MemoryType
<1>3. [w EXCEPT !.mem.valid = valid] = [w EXCEPT !.mem = mem]
  BY DEF WorldType, MemoryType
<1>4. [w EXCEPT !.mem = mem] \in WorldType
  <2> HIDE DEF mem
  <2> QED BY <1>2 DEF WorldType
<1>5. Render(t, [w EXCEPT !.mem.valid = valid])
  BY DEF Revalidate
<1> QED BY <1>3, <1>4, <1>5, RenderKeepsType

LEMMA StoreKeepsType ==
    ASSUME TabType, NEW t \in Tab, NEW w \in WorldType, Store(t, w) PROVE TabType'
<1> DEFINE st == WriteSnapshot(w.st, w.mem.auth)
<1>1. st \in Storages
  BY WritesSnapshot DEF WorldType, MemoryType
<1>2. [w EXCEPT !.st = st] \in WorldType
  <2> HIDE DEF st
  <2> QED BY <1>1 DEF WorldType
<1>3. Render(t, [w EXCEPT !.st = st])
  BY DEF Store
<1> QED BY <1>2, <1>3, RenderKeepsType

----------------------------------------------------------------------------
(* The type invariant, an action at a time.                                 *)

ServerType ==
    /\ status \in [Token -> {"free", "active", "replaced", "revoked"}]
    /\ family \in [Token -> Token]
    /\ expired \subseteq Token

TypeInv == TabType /\ ServerType

\* Every state has the types.
LEMMA InitHasType == Init => TypeInv
<1> SUFFICES ASSUME Init PROVE TypeInv
  OBVIOUS
<1>1. ServerType
  BY DEF Init, ServerType
<1>2. session \in [Tab -> Storage] /\ recent \in [Tab -> SUBSET Token]
  BY EmptyIsStorage DEF Init
<1>3. 1 \in Token
  BY BoundsAssumption DEF Token
<1>4. Remembered \in Storage /\ Opened \in MemoryType
  BY <1>3, TokenIsAnyToken, BlankIsMemory DEF Remembered, Storage, Opened, Blank, MemoryType
<1>5. \A t \in Tab : Call("sync", t, 1, FALSE) \in Request
  BY <1>3, TokenIsAnyToken DEF Call, Request, CallType
<1>6. local \in Storage /\ tab \in [Tab -> MemoryType] /\ calls \subseteq Request
  BY <1>4, <1>5, EmptyIsStorage, BlankIsMemory DEF Init
<1> QED BY <1>1, <1>2, <1>6 DEF TypeInv, TabType

LEMMA ReplyKeepsType ==
    ASSUME TabType, NEW c \in calls, NEW stage \in {"sent", "found", "ok", "failed"},
           NEW n \in AnyToken, Reply(c, stage, n), UNCHANGED <<local, session, tab, recent>>
    PROVE  TabType'
<1>1. c \in Request
  BY DEF TabType
<1>2. [c EXCEPT !.stage = stage, !.issued = n] \in Request
  BY <1>1 DEF Request, CallType
<1> QED BY <1>2 DEF Reply, TabType

LEMMA WithoutKeepsType ==
    ASSUME TabType, NEW c \in calls
    PROVE  /\ c \in Request /\ c.tab \in Tab
           /\ Without(World(c.tab), c) \in WorldType
<1>1. c \in Request /\ c.tab \in Tab
  BY DEF TabType, Request, CallType
<1>2. World(c.tab) \in WorldType
  BY <1>1, WorldIsWorld
<1> QED BY <1>1, <1>2 DEF Without, WorldType

LEMMA NextTokenIsFree == FreeTokens # {} => NextToken \in Token /\ status[NextToken] = "free"
  BY DEF FreeTokens, NextToken

\* What a user does keeps the types.
LEMMA UserStepKeepsType ==
    ASSUME TabType, NEW t \in Tab,
           \/ Tick(t) \/ (\E remember \in BOOLEAN : SubmitLogin(t, remember))
           \/ SubmitLogout(t) \/ Reload(t)
    PROVE  TabType'
<1> DEFINE w == World(t)
<1>0. w \in WorldType
  BY WorldIsWorld
<1> HIDE DEF w
<1>1. CASE Tick(t)
  BY <1>0, <1>1, RevalidateKeepsType DEF Tick, w
<1>2. ASSUME NEW remember \in BOOLEAN, SubmitLogin(t, remember) PROVE TabType'
  <2> DEFINE sent == w.calls \cup {Call("login", t, NoToken, remember)}
  <2>1. Call("login", t, NoToken, remember) \in Request
    BY TokenIsAnyToken DEF Call, Request, CallType
  <2>2. [w EXCEPT !.calls = sent] \in WorldType
    BY <1>0, <2>1 DEF WorldType
  <2>3. Store(t, [w EXCEPT !.calls = sent])
    BY <1>2 DEF SubmitLogin, w
  <2> QED BY <2>2, <2>3, StoreKeepsType
<1>3. CASE SubmitLogout(t)
  <2> DEFINE n == StoredToken(Seen(t))
  <2>1. CASE n = NoToken
    BY <1>0, <1>3, <2>1, SignOutKeepsType, BecomeKeepsType DEF SubmitLogout, w
  <2>2. CASE n # NoToken
    <3>1. n \in AnyToken
      <4>1. Seen(t) \in Storages
        BY DEF TabType, Seen, Storages
      <4> QED BY <4>1, StoredTokenIsToken
    <3>2. Call("logout", t, n, FALSE) \in Request
      BY <2>2, <3>1 DEF Call, Request, CallType, AnyToken
    <3>3. calls' = calls \cup {Call("logout", t, n, FALSE)} /\ UNCHANGED <<local, session, tab, recent>>
      BY <1>3, <2>2 DEF SubmitLogout
    <3> QED BY <3>2, <3>3 DEF TabType
  <2> QED BY <2>1, <2>2
<1>4. CASE Reload(t)
  <2> DEFINE alive == {d \in calls : d.tab # t \/ (d.kind # "sync" /\ ~Done(d))}
             orphan(c) == IF c.tab = t THEN [c EXCEPT !.page = "gone"] ELSE c
             orphaned == {orphan(c) : c \in alive}
             mem == [Blank EXCEPT !.auth = Rehydrated(Seen(t))]
  <2>1. ASSUME NEW c \in alive PROVE orphan(c) \in Request
    BY <2>1 DEF TabType, Request, CallType
  <2>2. orphaned \in SUBSET Request
    <3> HIDE DEF orphan, alive
    <3> QED BY <2>1
  <2>3. mem \in MemoryType
    BY BlankIsMemory DEF Rehydrated, MemoryType
  <2>4. Revalidate(t, [w EXCEPT !.mem = mem, !.recent = {}, !.calls = orphaned])
    BY <1>4 DEF Reload, w
  <2>5. [w EXCEPT !.mem = mem, !.recent = {}, !.calls = orphaned] \in WorldType
    <3> HIDE DEF mem, orphaned
    <3> QED BY <1>0, <2>2, <2>3 DEF WorldType
  <2> QED BY <2>4, <2>5, RevalidateKeepsType
<1> QED BY <1>1, <1>2, <1>3, <1>4

\* What the server and the network do keeps the types.
LEMMA ServerStepKeepsType ==
    ASSUME TypeInv, NEW c \in calls, Handle(c) \/ Lose(c) PROVE TypeInv'
<1> USE DEF TypeInv, ServerType
<1>0. c \in Request /\ NoToken \in AnyToken /\ Token \subseteq AnyToken
  BY TokenIsAnyToken DEF TabType
<1>1. CASE HandleLogin(c)
  BY <1>0, <1>1, ReplyKeepsType, NextTokenIsFree DEF HandleLogin
<1>2. CASE HandleRefreshLookup(c)
  BY <1>0, <1>2, ReplyKeepsType DEF HandleRefreshLookup
<1>3. CASE HandleRotate(c)
  <2>0. c.token \in Token
    BY <1>0, <1>3 DEF HandleRotate, Request
  <2>1. TabType'
    BY <1>0, <1>3, ReplyKeepsType, NextTokenIsFree DEF HandleRotate
  <2>2. ServerType'
    BY <1>3, <2>0, NextTokenIsFree DEF HandleRotate
  <2> QED BY <2>1, <2>2
<1>4. CASE HandleLogout(c)
  BY <1>0, <1>4, ReplyKeepsType DEF HandleLogout
<1>5. CASE Lose(c)
  BY <1>0, <1>5, ReplyKeepsType DEF Lose
<1> QED BY <1>1, <1>2, <1>3, <1>4, <1>5 DEF Handle

\* The answers keep the types.
LEMMA AnswerKeepsType ==
    ASSUME TabType, NEW c \in calls, Answer(c) PROVE TabType'
<1> DEFINE t == c.tab
           w == Without(World(t), c)
<1>0. c \in Request /\ t \in Tab /\ w \in WorldType
  BY WithoutKeepsType
<1>00. w.st \in Storages /\ w.mem \in MemoryType /\ w.recent \in SUBSET Token
  BY <1>0 DEF WorldType
<1>000. c.token \in AnyToken /\ c.issued \in AnyToken /\ c.remember \in BOOLEAN
  BY <1>0 DEF Request, CallType
<1> HIDE DEF w
<1>1. CASE LoginAnswer(c)
  <2> DEFINE st == WriteSnapshot(PersistSession(c.issued, c.remember), TRUE)
             mem == [Blank EXCEPT !.auth = TRUE]
  <2>1. st \in Storages
    BY <1>000, PersistsSession, WritesSnapshot
  <2>2. mem \in MemoryType
    BY BlankIsMemory DEF MemoryType
  <2>3. [w EXCEPT !.st = st, !.mem = mem] \in WorldType
    <3> HIDE DEF st, mem
    <3> QED BY <1>0, <2>1, <2>2 DEF WorldType
  <2>4. Revalidate(t, [w EXCEPT !.st = st, !.mem = mem]) \/ Store(t, w)
    BY <1>1 DEF LoginAnswer, w
  <2> QED BY <1>0, <2>3, <2>4, RevalidateKeepsType, StoreKeepsType
<1>2. CASE RefreshAnswer(c)
  <2> DEFINE st == WriteTokens(w.st, ResolveScope(w.st), c.issued)
             stored == [w EXCEPT !.st = st]
             kept == IF c.stage = "ok" THEN stored ELSE w
             mem == [kept.mem EXCEPT !.attempt = NoToken]
  <2>1. st \in Storages
    BY <1>00, <1>000, ScopeIsScope, WritesTokens
  <2>2. stored \in WorldType
    <3> HIDE DEF st
    <3> QED BY <1>0, <2>1 DEF WorldType
  <2>3. kept \in WorldType
    <3> HIDE DEF stored
    <3> QED BY <1>0, <2>2
  <2>4. /\ [kept EXCEPT !.mem.attempt = NoToken] = [kept EXCEPT !.mem = mem]
        /\ mem \in MemoryType
    <3> HIDE DEF kept
    <3> QED BY <2>3, TokenIsAnyToken DEF WorldType, MemoryType
  <2>5. [kept EXCEPT !.mem = mem] \in WorldType
    <3> HIDE DEF kept, mem
    <3> QED BY <2>3, <2>4 DEF WorldType
  <2>6. \/ Become(t, kept)
        \/ Revalidate(t, [kept EXCEPT !.mem.attempt = NoToken])
        \/ Become(t, SignOut(t, w))
    BY <1>2 DEF RefreshAnswer, w
  <2> HIDE DEF kept, mem
  <2> QED BY <1>0, <2>3, <2>4, <2>5, <2>6, BecomeKeepsType, RevalidateKeepsType, SignOutKeepsType
<1>3. CASE SyncAnswer(c)
  <2> DEFINE wanted == w.mem.awaits = c.token
             idle == [w.mem EXCEPT !.awaits = NoToken]
             rested == [w EXCEPT !.mem = idle]
             over == IF wanted THEN rested ELSE w
             with(n) == [over.mem EXCEPT !.authz = n]
  <2>0. c.token \in Token
    BY <1>0, <1>3 DEF SyncAnswer, Request
  <2>1. idle \in MemoryType /\ [w EXCEPT !.mem.awaits = NoToken] = rested
    BY <1>0, TokenIsAnyToken DEF WorldType, MemoryType
  <2>2. over \in WorldType
    <3> HIDE DEF idle
    <3> QED BY <1>0, <2>1 DEF WorldType
  <2>3. \/ Store(t, [over EXCEPT !.recent = @ \cup {c.token}, !.mem.authz = c.token])
        \/ Become(t, SignOut(t, over))
        \/ Store(t, [over EXCEPT !.recent = @ \ {c.token}, !.mem.authz = NoToken])
    <3> HIDE DEF rested
    <3> QED BY <1>3, <2>1 DEF SyncAnswer, w
  <2>4. \A n \in AnyToken : with(n) \in MemoryType
    <3> HIDE DEF over
    <3> QED BY <2>2 DEF WorldType, MemoryType
  <2>5. \A n \in AnyToken, now \in SUBSET Token :
           [over EXCEPT !.recent = now, !.mem.authz = n] \in WorldType
    <3> SUFFICES ASSUME NEW n \in AnyToken, NEW now \in SUBSET Token
                 PROVE  [over EXCEPT !.recent = now, !.mem.authz = n] \in WorldType
      OBVIOUS
    <3>1. [over EXCEPT !.recent = now, !.mem.authz = n] = [over EXCEPT !.recent = now, !.mem = with(n)]
      <4> HIDE DEF over
      <4> QED BY <2>2 DEF WorldType, MemoryType
    <3>2. with(n) \in MemoryType
      BY <2>4
    <3>3. [over EXCEPT !.recent = now, !.mem = with(n)] \in WorldType
      <4> HIDE DEF over, with
      <4> QED BY <2>2, <3>2 DEF WorldType
    <3> QED BY <3>1, <3>3
  <2>6. over.recent \cup {c.token} \in SUBSET Token /\ over.recent \ {c.token} \in SUBSET Token
    <3> HIDE DEF over
    <3> QED BY <2>0, <2>2 DEF WorldType
  <2> HIDE DEF over, with
  <2> QED BY <1>0, <2>0, <2>2, <2>3, <2>5, <2>6, TokenIsAnyToken,
             StoreKeepsType, SignOutKeepsType, BecomeKeepsType
<1>4. CASE LogoutAnswer(c)
  BY <1>0, <1>4, SignOutKeepsType, BecomeKeepsType DEF LogoutAnswer, w
<1>5. CASE OrphanAnswer(c)
  BY <1>5 DEF OrphanAnswer, TabType
<1> QED BY <1>1, <1>2, <1>3, <1>4, <1>5 DEF Answer

LEMMA StepKeepsType == TypeInv /\ [Next]_vars => TypeInv'
<1> SUFFICES ASSUME TypeInv, [Next]_vars PROVE TypeInv'
  OBVIOUS
<1> USE DEF TypeInv
<1>1. ASSUME NEW t \in Tab,
             \/ Tick(t) \/ (\E remember \in BOOLEAN : SubmitLogin(t, remember))
             \/ SubmitLogout(t) \/ Reload(t)
      PROVE  TypeInv'
  <2>1. UNCHANGED <<status, family, expired>>
    BY <1>1 DEF Tick, SubmitLogin, SubmitLogout, Reload
  <2> QED BY <1>1, <2>1, UserStepKeepsType DEF ServerType
<1>2. ASSUME NEW t \in Tab, NEW n \in Token, WindowEnds(t, n) PROVE TypeInv'
  BY <1>2 DEF WindowEnds, TabType, ServerType
<1>3. ASSUME NEW c \in calls, Handle(c) \/ Lose(c) PROVE TypeInv'
  BY <1>3, ServerStepKeepsType
<1>4. ASSUME NEW c \in calls, Answer(c) PROVE TypeInv'
  <2>1. UNCHANGED <<status, family, expired>>
    BY <1>4 DEF Answer, LoginAnswer, RefreshAnswer, SyncAnswer, LogoutAnswer, OrphanAnswer
  <2> QED BY <1>4, <2>1, AnswerKeepsType DEF ServerType
<1>5. ASSUME NEW n \in Token, Expire(n) PROVE TypeInv'
  BY <1>5 DEF Expire, TabType, ServerType
<1>6. CASE UNCHANGED vars
  BY <1>6 DEF vars, TabType, ServerType
<1> QED BY <1>1, <1>2, <1>3, <1>4, <1>5, <1>6 DEF Next

----------------------------------------------------------------------------
(* The rotation chains.                                                     *)

\* A token that was never issued is alone in its family.
FreeIsAlone == \A m, n \in Token : status[n] = "free" /\ family[m] = family[n] => m = n

Chains == FreeIsAlone /\ OneLiveTokenPerFamily

LEMMA InitHasChains == Init => Chains
  BY DEF Init, Chains, FreeIsAlone, OneLiveTokenPerFamily

\* The server's own steps; everything else leaves the rows alone.
LEMMA ServerStepKeepsChains ==
    ASSUME TypeInv, Chains, NEW c \in calls, Handle(c) PROVE Chains'
<1> USE DEF Chains, FreeIsAlone, OneLiveTokenPerFamily
<1>0. /\ status \in [Token -> {"free", "active", "replaced", "revoked"}]
      /\ family \in [Token -> Token]
      /\ c \in Request
  BY DEF TypeInv, TabType, ServerType
<1>1. CASE HandleLogin(c)
  BY <1>0, <1>1, NextTokenIsFree DEF HandleLogin
<1>2. CASE HandleRefreshLookup(c)
  BY <1>2 DEF HandleRefreshLookup
<1>3. CASE HandleRotate(c)
  <2>0. c.token \in Token
    BY <1>0, <1>3 DEF HandleRotate, Request
  <2>1. ASSUME status[c.token] = "active", FreeTokens # {},
               status' = [status EXCEPT ![c.token] = "replaced", ![NextToken] = "active"],
               family' = [family EXCEPT ![NextToken] = family[c.token]]
        PROVE  Chains'
    BY <1>0, <2>0, <2>1, NextTokenIsFree
  <2>2. ASSUME status' = [n \in Token |->
                            IF /\ status[c.token] = "replaced"
                               /\ family[n] = family[c.token]
                               /\ status[n] = "active"
                            THEN "revoked" ELSE status[n]],
               family' = family
        PROVE  Chains'
    BY <1>0, <2>0, <2>2
  <2> QED BY <1>3, <2>1, <2>2 DEF HandleRotate
<1>4. CASE HandleLogout(c)
  <2>0. c.token \in Token
    BY <1>0, <1>4 DEF HandleLogout, Request
  <2> QED BY <1>0, <1>4, <2>0 DEF HandleLogout
<1> QED BY <1>1, <1>2, <1>3, <1>4 DEF Handle

LEMMA StepKeepsChains == TypeInv /\ Chains /\ [Next]_vars => Chains'
<1> SUFFICES ASSUME TypeInv, Chains, [Next]_vars PROVE Chains'
  OBVIOUS
<1>1. UNCHANGED <<status, family>> => Chains'
  BY DEF Chains, FreeIsAlone, OneLiveTokenPerFamily
<1>2. ASSUME NEW c \in calls, Handle(c) PROVE Chains'
  BY <1>2, ServerStepKeepsChains
<1>3. ASSUME NEW c \in calls, Answer(c) \/ Lose(c) PROVE UNCHANGED <<status, family>>
  BY <1>3 DEF Answer, LoginAnswer, RefreshAnswer, SyncAnswer, LogoutAnswer, OrphanAnswer, Lose
<1>4. ASSUME NEW t \in Tab,
             \/ Tick(t) \/ (\E remember \in BOOLEAN : SubmitLogin(t, remember))
             \/ SubmitLogout(t) \/ Reload(t) \/ (\E n \in Token : WindowEnds(t, n))
      PROVE  UNCHANGED <<status, family>>
  BY <1>4 DEF Tick, SubmitLogin, SubmitLogout, Reload, WindowEnds
<1>5. (\E n \in Token : Expire(n)) \/ UNCHANGED vars => UNCHANGED <<status, family>>
  BY DEF Expire, vars
<1> QED BY <1>1, <1>2, <1>3, <1>4, <1>5 DEF Next

\* Every variable has its type, in every tab and on the server.
THEOREM SessionTypeCorrect == Spec => []TypeOK
<1>1. TypeInv => TypeOK
  BY DEF TypeInv, TabType, ServerType, TypeOK
<1> QED BY <1>1, InitHasType, StepKeepsType, PTL DEF Spec

\* Whatever any number of tabs send, lose and replay, a rotation chain never
\* has two usable refresh tokens, nor one beside a revoked token
\* (RotateSessionByRefreshToken, RevokeSessionByRefreshToken).
THEOREM OneLiveToken == Spec => []OneLiveTokenPerFamily
<1>1. Chains => OneLiveTokenPerFamily
  BY DEF Chains
<1> QED BY <1>1, InitHasType, StepKeepsType, InitHasChains, StepKeepsChains, PTL DEF Spec

----------------------------------------------------------------------------
(* What the loading screen waits for.  The guard forgets an attempt or a    *)
(* synchronisation exactly when its answer is taken, so as long as it       *)
(* remembers one the call is under way.                                     *)

Mounted(sent, kind, t, n) ==
    \E c \in sent : c.kind = kind /\ c.tab = t /\ c.token = n /\ c.page = "mounted"

\* Of tab t with memory mem: what it remembers asking for is being answered.
Attended(t, mem, sent) ==
    /\ mem.attempt # NoToken => Mounted(sent, "refresh", t, mem.attempt)
    /\ mem.awaits # NoToken => Mounted(sent, "sync", t, mem.awaits)

Waits(t, mem, sent) ==
    /\ Attended(t, mem, sent)
    /\ mem.shown = "loading" /\ ~mem.valid => mem.attempt # NoToken

Waiting == \A t \in Tab : Waits(t, tab[t], calls)

\* A step of tab t leaves the calls of the other tabs alone.
OthersKept(t, w) == \A c \in calls : c.tab # t => c \in w.calls

LEMMA BecomeKeepsWaiting ==
    ASSUME TabType, Waiting, NEW t \in Tab, NEW w \in WorldType, OthersKept(t, w),
           Waits(t, w.mem, w.calls), Become(t, w)
    PROVE  Waiting'
<1>1. tab' = [tab EXCEPT ![t] = w.mem] /\ calls' = w.calls /\ tab \in [Tab -> MemoryType]
  BY DEF Become, TabType
<1>2. ASSUME NEW u \in Tab, u # t PROVE Waits(u, tab'[u], calls')
  <2>1. Waits(u, tab[u], calls) /\ tab'[u] = tab[u]
    BY <1>1, <1>2 DEF Waiting
  <2> QED BY <1>1, <1>2, <2>1 DEF Waits, Attended, Mounted, OthersKept
<1>3. Waits(t, tab'[t], calls')
  BY <1>1
<1> QED BY <1>2, <1>3 DEF Waiting

LEMMA UnmountWaits ==
    ASSUME NEW t \in Tab, NEW w \in WorldType, OthersKept(t, w)
    PROVE  OthersKept(t, Unmount(t, w)) /\ Waits(t, Unmount(t, w).mem, Unmount(t, w).calls)
<1>1. LET u == Unmount(t, w)
      IN  u.mem.attempt = NoToken /\ u.mem.awaits = NoToken /\ u.mem.shown = "login"
  BY DEF Unmount, WorldType, MemoryType
<1>2. Unmount(t, w).calls = {IF c.kind = "refresh" /\ c.tab = t /\ c.page = "mounted"
                             THEN [c EXCEPT !.page = "unmounted"] ELSE c : c \in w.calls}
  BY DEF Unmount, WorldType
<1> QED BY <1>1, <1>2 DEF Waits, Attended, OthersKept

LEMMA SignOutWaits ==
    ASSUME NEW t \in Tab, NEW w \in WorldType, OthersKept(t, w)
    PROVE  OthersKept(t, SignOut(t, w)) /\ Waits(t, SignOut(t, w).mem, SignOut(t, w).calls)
<1> DEFINE st == WriteSnapshot(ClearStorage, FALSE)
           mem == [w.mem EXCEPT !.auth = FALSE, !.authz = NoToken]
           out == [w EXCEPT !.st = st, !.recent = {}, !.mem = mem]
<1>1. st \in Storages
  BY EmptyIsStorage, WritesSnapshot
<1>2. mem \in MemoryType
  BY TokenIsAnyToken DEF WorldType, MemoryType
<1>3. [w EXCEPT !.st = st, !.recent = {}, !.mem.auth = FALSE, !.mem.authz = NoToken] = out
  BY DEF WorldType, MemoryType
<1>4. out \in WorldType /\ out.calls = w.calls
  <2> HIDE DEF st, mem
  <2> QED BY <1>1, <1>2 DEF WorldType
<1>5. SignOut(t, w) = Unmount(t, out)
  BY <1>3 DEF SignOut
<1> HIDE DEF out
<1> QED BY <1>4, <1>5, UnmountWaits DEF OthersKept

LEMMA RefreshEffectAttends ==
    ASSUME NEW t \in Tab, NEW w \in WorldType, Attended(t, w.mem, w.calls), NEW r, r = RefreshEffect(t, w)
    PROVE  /\ Attended(t, r.mem, r.calls) /\ w.calls \subseteq r.calls
           /\ r.st = w.st /\ r.mem.valid = w.mem.valid
           /\ ~w.mem.valid /\ StoredToken(w.st) # NoToken => r.mem.attempt # NoToken
<1> DEFINE n == StoredToken(w.st)
           should == ~w.mem.valid /\ n # NoToken
           call == Call("refresh", t, n, FALSE)
           idle == [w EXCEPT !.mem.attempt = NoToken]
           asks == [w EXCEPT !.mem.attempt = n, !.calls = w.calls \cup {call}]
<1>1. /\ idle.mem.attempt = NoToken /\ idle.mem.awaits = w.mem.awaits
      /\ idle.mem.valid = w.mem.valid /\ idle.calls = w.calls /\ idle.st = w.st
  BY DEF WorldType, MemoryType
<1>2. /\ asks.mem.attempt = n /\ asks.mem.awaits = w.mem.awaits
      /\ asks.mem.valid = w.mem.valid /\ asks.calls = w.calls \cup {call} /\ asks.st = w.st
  BY DEF WorldType, MemoryType
<1>3. call.kind = "refresh" /\ call.tab = t /\ call.token = n /\ call.page = "mounted"
  BY DEF Call
<1>4. r = IF ~should THEN idle ELSE IF w.mem.attempt = n THEN w ELSE asks
  BY DEF RefreshEffect, WorldType
<1> HIDE DEF n, call, idle, asks
<1>5. CASE ~should
  BY <1>1, <1>4, <1>5 DEF Attended, n
<1>6. CASE should /\ w.mem.attempt = n
  BY <1>4, <1>6 DEF n
<1>7. CASE should /\ w.mem.attempt # n
  <2>1. r = asks
    BY <1>4, <1>7
  <2> QED BY <1>2, <1>3, <1>7, <2>1 DEF Attended, Mounted, n
<1> QED BY <1>5, <1>6, <1>7

LEMMA AuthorizationEffectAttends ==
    ASSUME NEW t \in Tab, NEW w \in WorldType, Attended(t, w.mem, w.calls), NEW a, a = AuthorizationEffect(t, w)
    PROVE  /\ Attended(t, a.mem, a.calls) /\ w.calls \subseteq a.calls
           /\ a.mem.valid = w.mem.valid /\ a.mem.attempt = w.mem.attempt
<1> DEFINE n == StoredToken(w.st)
           needs == w.mem.valid /\ n # NoToken /\ w.mem.authz # n
           seen == [w EXCEPT !.mem.needs = needs]
           over == [seen EXCEPT !.mem.awaits = NoToken]
           call == Call("sync", t, n, FALSE)
           asks == [over EXCEPT !.calls = over.calls \cup {call}, !.mem.awaits = n]
<1> HIDE DEF n, needs, call
<1>1. /\ seen.mem.attempt = w.mem.attempt /\ seen.mem.awaits = w.mem.awaits
      /\ seen.mem.valid = w.mem.valid /\ seen.calls = w.calls
  BY DEF WorldType, MemoryType
<1>2. /\ over.mem.attempt = w.mem.attempt /\ over.mem.awaits = NoToken
      /\ over.mem.valid = w.mem.valid /\ over.calls = w.calls /\ over.st = w.st
  BY DEF WorldType, MemoryType
<1>3. /\ asks.mem.attempt = w.mem.attempt /\ asks.mem.awaits = n
      /\ asks.mem.valid = w.mem.valid /\ asks.calls = w.calls \cup {call}
  BY DEF WorldType, MemoryType
<1>4. call.kind = "sync" /\ call.tab = t /\ call.token = n /\ call.page = "mounted"
  BY DEF Call, call
<1>5. a = seen \/ a = over \/ a = Synchronise(t, over)
  BY DEF AuthorizationEffect, seen, over, needs, n
<1>6. Synchronise(t, over) = over \/ Synchronise(t, over) = asks
  BY <1>2 DEF Synchronise, n, call
<1> HIDE DEF seen, over, asks
<1>7. CASE a = seen
  BY <1>1, <1>7 DEF Attended
<1>8. CASE a = over
  BY <1>2, <1>8 DEF Attended
<1>9. CASE a = asks
  BY <1>3, <1>4, <1>9 DEF Attended, Mounted
<1> QED BY <1>5, <1>6, <1>7, <1>8, <1>9

LEMMA RenderKeepsWaiting ==
    ASSUME TabType, Waiting, NEW t \in Tab, NEW w \in WorldType, OthersKept(t, w),
           Attended(t, w.mem, w.calls), Render(t, w)
    PROVE  Waiting'
<1>1. CASE Become(t, Unmount(t, w))
  BY <1>1, UnmountWaits, UnmountKeepsType, BecomeKeepsWaiting
<1>2. CASE Become(t, SignOut(t, w))
  BY <1>2, SignOutWaits, SignOutKeepsType, BecomeKeepsWaiting
<1>3. ASSUME w.mem.valid \/ StoredToken(w.st) # NoToken,
             NEW r, r = RefreshEffect(t, w), NEW a, a = AuthorizationEffect(t, r),
             Become(t, [a EXCEPT !.mem.shown = Screen(a.mem)])
      PROVE  Waiting'
  <2>1. r \in WorldType /\ a \in WorldType
    BY <1>3, RefreshEffectKeepsType, AuthorizationEffectKeepsType
  <2>2. /\ Attended(t, r.mem, r.calls) /\ w.calls \subseteq r.calls
        /\ r.mem.valid = w.mem.valid /\ (~w.mem.valid => r.mem.attempt # NoToken)
    BY <1>3, RefreshEffectAttends
  <2>3. /\ Attended(t, a.mem, a.calls) /\ r.calls \subseteq a.calls
        /\ a.mem.valid = r.mem.valid /\ a.mem.attempt = r.mem.attempt
    BY <1>3, <2>1, <2>2, AuthorizationEffectAttends
  <2> DEFINE mem == [a.mem EXCEPT !.shown = Screen(a.mem)]
             drawn == [a EXCEPT !.mem = mem]
  <2>4. /\ mem \in MemoryType /\ mem.valid = a.mem.valid
        /\ mem.attempt = a.mem.attempt /\ mem.awaits = a.mem.awaits
    <3>1. a.mem \in MemoryType
      BY <2>1 DEF WorldType
    <3>2. Screen(a.mem) \in {"login", "loading", "page"}
      BY DEF Screen
    <3> QED BY <3>1, <3>2 DEF MemoryType
  <2>5. [a EXCEPT !.mem.shown = Screen(a.mem)] = drawn
    BY <2>1 DEF WorldType, MemoryType
  <2>6. drawn \in WorldType /\ drawn.mem = mem /\ drawn.calls = a.calls
    <3> HIDE DEF mem
    <3> QED BY <2>1, <2>4 DEF WorldType
  <2> HIDE DEF drawn, mem
  <2>7. OthersKept(t, drawn)
    BY <2>2, <2>3, <2>6 DEF OthersKept
  <2>8. Waits(t, drawn.mem, drawn.calls)
    BY <2>2, <2>3, <2>4, <2>6 DEF Waits, Attended
  <2> QED BY <1>3, <2>5, <2>6, <2>7, <2>8, BecomeKeepsWaiting
<1>4. \/ Become(t, Unmount(t, w))
      \/ Become(t, SignOut(t, w))
      \/ /\ w.mem.valid \/ StoredToken(w.st) # NoToken
         /\ \E r \in {RefreshEffect(t, w)} : \E a \in {AuthorizationEffect(t, r)} :
                Become(t, [a EXCEPT !.mem.shown = Screen(a.mem)])
  BY DEF Render, WorldType, MemoryType
<1> QED BY <1>1, <1>2, <1>3, <1>4

LEMMA RevalidateKeepsWaiting ==
    ASSUME TabType, Waiting, NEW t \in Tab, NEW w \in WorldType, OthersKept(t, w),
           Attended(t, w.mem, w.calls), Revalidate(t, w)
    PROVE  Waiting'
<1> DEFINE valid == TokenIsValid(w.st)
           mem == [w.mem EXCEPT !.valid = valid]
           fresh == [w EXCEPT !.mem = mem]
<1>1. valid \in BOOLEAN
  BY DEF TokenIsValid
<1>2. mem \in MemoryType /\ mem.attempt = w.mem.attempt /\ mem.awaits = w.mem.awaits
  <2> HIDE DEF valid
  <2> QED BY <1>1 DEF WorldType, MemoryType
<1>3. [w EXCEPT !.mem.valid = valid] = fresh
  BY DEF WorldType, MemoryType
<1>4. fresh \in WorldType /\ fresh.mem = mem /\ fresh.calls = w.calls
  <2> HIDE DEF mem
  <2> QED BY <1>2 DEF WorldType
<1>5. Render(t, fresh)
  BY <1>3 DEF Revalidate
<1> HIDE DEF fresh, mem
<1>6. Attended(t, fresh.mem, fresh.calls) /\ OthersKept(t, fresh)
  BY <1>2, <1>4 DEF Attended, OthersKept
<1> QED BY <1>4, <1>5, <1>6, RenderKeepsWaiting

LEMMA StoreKeepsWaiting ==
    ASSUME TabType, Waiting, NEW t \in Tab, NEW w \in WorldType, OthersKept(t, w),
           Attended(t, w.mem, w.calls), Store(t, w)
    PROVE  Waiting'
<1> DEFINE st == WriteSnapshot(w.st, w.mem.auth)
           stored == [w EXCEPT !.st = st]
<1>1. st \in Storages
  BY WritesSnapshot DEF WorldType, MemoryType
<1>2. stored \in WorldType /\ stored.mem = w.mem /\ stored.calls = w.calls
  <2> HIDE DEF st
  <2> QED BY <1>1 DEF WorldType
<1>3. Render(t, stored)
  BY DEF Store
<1> HIDE DEF stored
<1>4. Attended(t, stored.mem, stored.calls) /\ OthersKept(t, stored)
  BY <1>2 DEF OthersKept
<1> QED BY <1>2, <1>3, <1>4, RenderKeepsWaiting

\* A call that is answered by the server keeps its tab, token and page.
LEMMA ReplyKeepsWaiting ==
    ASSUME TabType, Waiting, NEW c \in calls, NEW stage, NEW n, Reply(c, stage, n), UNCHANGED tab
    PROVE  Waiting'
<1> DEFINE answered == [c EXCEPT !.stage = stage, !.issued = n]
<1>1. /\ answered.kind = c.kind /\ answered.tab = c.tab
      /\ answered.token = c.token /\ answered.page = c.page
  BY DEF TabType, Request, CallType
<1>2. calls' = (calls \ {c}) \cup {answered}
  BY DEF Reply
<1> HIDE DEF answered
<1>3. \A kind, t, m : Mounted(calls, kind, t, m) => Mounted(calls', kind, t, m)
  BY <1>1, <1>2 DEF Mounted
<1> QED BY <1>3 DEF Waiting, Waits, Attended

LEMMA UserStepKeepsWaiting ==
    ASSUME TabType, Waiting, NEW t \in Tab,
           \/ Tick(t) \/ (\E remember \in BOOLEAN : SubmitLogin(t, remember))
           \/ SubmitLogout(t) \/ Reload(t)
    PROVE  Waiting'
<1> DEFINE w == World(t)
<1>0. w \in WorldType /\ w.calls = calls /\ w.mem = tab[t]
  BY WorldIsWorld DEF World
<1> HIDE DEF w
<1>00. Attended(t, w.mem, w.calls) /\ OthersKept(t, w)
  BY <1>0 DEF Waiting, Waits, OthersKept
<1>1. CASE Tick(t)
  BY <1>0, <1>00, <1>1, RevalidateKeepsWaiting DEF Tick, w
<1>2. ASSUME NEW remember \in BOOLEAN, SubmitLogin(t, remember) PROVE Waiting'
  <2> DEFINE sent == w.calls \cup {Call("login", t, NoToken, remember)}
             asks == [w EXCEPT !.calls = sent]
  <2>1. Call("login", t, NoToken, remember) \in Request
    BY TokenIsAnyToken DEF Call, Request, CallType
  <2>2. asks \in WorldType /\ asks.mem = w.mem /\ asks.calls = sent
    BY <1>0, <2>1 DEF WorldType
  <2>3. Store(t, asks)
    BY <1>2 DEF SubmitLogin, w
  <2> HIDE DEF asks
  <2>4. Attended(t, asks.mem, asks.calls) /\ OthersKept(t, asks)
    BY <1>00, <2>2 DEF Attended, Mounted, OthersKept
  <2> QED BY <2>2, <2>3, <2>4, StoreKeepsWaiting
<1>3. CASE SubmitLogout(t)
  <2>1. CASE Become(t, SignOut(t, w))
    BY <1>0, <1>00, <2>1, SignOutWaits, SignOutKeepsType, BecomeKeepsWaiting
  <2>2. CASE calls \subseteq calls' /\ UNCHANGED tab
    BY <2>2 DEF Waiting, Waits, Attended, Mounted
  <2> QED BY <1>3, <2>1, <2>2 DEF SubmitLogout, w
<1>4. CASE Reload(t)
  <2> DEFINE orphaned == {IF c.tab = t THEN [c EXCEPT !.page = "gone"] ELSE c :
                           c \in {d \in calls : d.tab # t \/ (d.kind # "sync" /\ ~Done(d))}}
             mem == [Blank EXCEPT !.auth = Rehydrated(Seen(t))]
             reloaded == [w EXCEPT !.mem = mem, !.recent = {}, !.calls = orphaned]
  <2>1. orphaned \in SUBSET Request
    BY DEF TabType, Request, CallType
  <2>2. mem \in MemoryType /\ mem.attempt = NoToken /\ mem.awaits = NoToken
    BY BlankIsMemory DEF Rehydrated, MemoryType, Blank
  <2>3. \A c \in calls : c.tab # t => c \in orphaned
    OBVIOUS
  <2>4. Revalidate(t, reloaded)
    BY <1>4 DEF Reload, w
  <2>5. reloaded \in WorldType /\ reloaded.mem = mem /\ reloaded.calls = orphaned
    <3> HIDE DEF mem, orphaned
    <3> QED BY <1>0, <2>1, <2>2 DEF WorldType
  <2> HIDE DEF reloaded, mem, orphaned
  <2>6. Attended(t, reloaded.mem, reloaded.calls) /\ OthersKept(t, reloaded)
    BY <2>2, <2>3, <2>5 DEF Attended, OthersKept
  <2> QED BY <2>4, <2>5, <2>6, RevalidateKeepsWaiting
<1> QED BY <1>1, <1>2, <1>3, <1>4

\* Taking an answer away leaves what tab c.tab remembers attended, but for
\* that answer itself.
LEMMA AnswerKeepsWaiting ==
    ASSUME TabType, Waiting, NEW c \in calls, Answer(c) PROVE Waiting'
<1> DEFINE t == c.tab
           w == Without(World(t), c)
<1>0. c \in Request /\ t \in Tab /\ w \in WorldType
  BY WithoutKeepsType
<1>m. w.calls = calls \ {c} /\ w.mem = tab[t]
  BY <1>0, WorldIsWorld DEF Without, World
<1>k. OthersKept(t, w)
  BY <1>m DEF OthersKept
<1>a. Attended(t, w.mem, calls)
  BY <1>0, <1>m DEF Waiting, Waits
<1>t. /\ w.st \in Storages /\ w.mem \in MemoryType /\ w.recent \in SUBSET Token
      /\ c.token \in AnyToken /\ c.issued \in AnyToken /\ c.remember \in BOOLEAN
  BY <1>0 DEF WorldType, Request, CallType
<1> HIDE DEF w
<1>1. CASE LoginAnswer(c)
  <2> DEFINE st == WriteSnapshot(PersistSession(c.issued, c.remember), TRUE)
             mem == [Blank EXCEPT !.auth = TRUE]
             in == [w EXCEPT !.st = st, !.mem = mem]
  <2>1. st \in Storages
    BY <1>t, PersistsSession, WritesSnapshot
  <2>2. mem \in MemoryType /\ mem.attempt = NoToken /\ mem.awaits = NoToken
    BY BlankIsMemory DEF MemoryType, Blank
  <2>3. in \in WorldType /\ in.mem = mem /\ in.calls = w.calls
    <3> HIDE DEF st, mem
    <3> QED BY <1>0, <2>1, <2>2 DEF WorldType
  <2>4. Revalidate(t, in) \/ Store(t, w)
    BY <1>1 DEF LoginAnswer, w
  <2> HIDE DEF in, mem
  <2>5. Attended(t, in.mem, in.calls) /\ OthersKept(t, in)
    BY <1>k, <2>2, <2>3 DEF Attended, OthersKept
  <2>6. Attended(t, w.mem, w.calls)
    BY <1>1, <1>a, <1>m DEF Attended, Mounted, LoginAnswer
  <2> QED BY <1>0, <1>k, <2>3, <2>4, <2>5, <2>6, RevalidateKeepsWaiting, StoreKeepsWaiting
<1>2. CASE RefreshAnswer(c)
  <2> DEFINE wanted == c.page = "mounted" /\ w.mem.attempt = c.token
             st == WriteTokens(w.st, ResolveScope(w.st), c.issued)
             stored == [w EXCEPT !.st = st]
             kept == IF c.stage = "ok" THEN stored ELSE w
             mem == [kept.mem EXCEPT !.attempt = NoToken]
             over == [kept EXCEPT !.mem = mem]
  <2>1. st \in Storages
    BY <1>t, ScopeIsScope, WritesTokens
  <2>2. stored \in WorldType /\ stored.mem = w.mem /\ stored.calls = w.calls
    <3> HIDE DEF st
    <3> QED BY <1>0, <2>1 DEF WorldType
  <2>3. kept \in WorldType /\ kept.mem = w.mem /\ kept.calls = w.calls
    <3> HIDE DEF stored
    <3> QED BY <1>0, <2>2
  <2>4. /\ [kept EXCEPT !.mem.attempt = NoToken] = over /\ mem \in MemoryType
        /\ mem.attempt = NoToken /\ mem.awaits = w.mem.awaits
    <3> HIDE DEF kept
    <3> QED BY <2>3, TokenIsAnyToken DEF WorldType, MemoryType
  <2>5. over \in WorldType /\ over.mem = mem /\ over.calls = w.calls
    <3> HIDE DEF kept, mem
    <3> QED BY <2>3, <2>4 DEF WorldType
  <2>6. \/ ~wanted /\ Become(t, kept)
        \/ Revalidate(t, over)
        \/ Become(t, SignOut(t, w))
    <3>1. \/ ~wanted /\ Become(t, kept)
          \/ Revalidate(t, [kept EXCEPT !.mem.attempt = NoToken])
          \/ Become(t, SignOut(t, w))
      BY <1>2 DEF RefreshAnswer, w
    <3> QED BY <2>4, <3>1
  <2> HIDE DEF kept, mem, over
  <2>7. Attended(t, over.mem, over.calls) /\ OthersKept(t, over)
    BY <1>2, <1>a, <1>k, <1>m, <2>4, <2>5 DEF Attended, Mounted, OthersKept, RefreshAnswer
  <2>8. ~wanted => Waits(t, kept.mem, kept.calls) /\ OthersKept(t, kept)
    <3>1. Waits(t, w.mem, calls)
      BY <1>0, <1>m DEF Waiting
    <3> QED BY <1>2, <1>k, <1>m, <2>3, <3>1 DEF Waits, Attended, Mounted, OthersKept, RefreshAnswer
  <2> QED BY <1>0, <1>k, <2>3, <2>5, <2>6, <2>7, <2>8,
             BecomeKeepsWaiting, RevalidateKeepsWaiting, SignOutKeepsType, SignOutWaits
<1>3. CASE SyncAnswer(c)
  <2> DEFINE wanted == w.mem.awaits = c.token
             idle == [w.mem EXCEPT !.awaits = NoToken]
             rested == [w EXCEPT !.mem = idle]
             over == IF wanted THEN rested ELSE w
             with(n) == [over.mem EXCEPT !.authz = n]
             after(now, n) == [over EXCEPT !.recent = now, !.mem = with(n)]
  <2>0. c.token \in Token
    BY <1>0, <1>3 DEF SyncAnswer, Request
  <2>1. /\ idle \in MemoryType /\ [w EXCEPT !.mem.awaits = NoToken] = rested
        /\ idle.attempt = w.mem.attempt /\ idle.awaits = NoToken
    BY <1>0, TokenIsAnyToken DEF WorldType, MemoryType
  <2>2. /\ over \in WorldType /\ over.calls = w.calls
        /\ over.mem.attempt = w.mem.attempt
        /\ over.mem.awaits = IF wanted THEN NoToken ELSE w.mem.awaits
    <3> HIDE DEF idle
    <3> QED BY <1>0, <2>1 DEF WorldType
  <2>3. Attended(t, over.mem, over.calls) /\ OthersKept(t, over)
    <3> HIDE DEF over
    <3> QED BY <1>3, <1>a, <1>k, <1>m, <2>2 DEF Attended, Mounted, OthersKept, SyncAnswer
  <2>4. \A n \in AnyToken : /\ with(n) \in MemoryType
                            /\ with(n).attempt = over.mem.attempt
                            /\ with(n).awaits = over.mem.awaits
    <3> HIDE DEF over
    <3> QED BY <2>2 DEF WorldType, MemoryType
  <2>5. \A n \in AnyToken, now \in SUBSET Token :
           [over EXCEPT !.recent = now, !.mem.authz = n] = after(now, n)
    <3> HIDE DEF over
    <3> QED BY <2>2 DEF WorldType, MemoryType
  <2>6. \A n \in AnyToken, now \in SUBSET Token :
           /\ after(now, n) \in WorldType /\ after(now, n).mem = with(n)
           /\ after(now, n).calls = over.calls
    <3> HIDE DEF over, with
    <3> QED BY <2>2, <2>4 DEF WorldType
  <2>7. over.recent \cup {c.token} \in SUBSET Token /\ over.recent \ {c.token} \in SUBSET Token
    <3> HIDE DEF over
    <3> QED BY <2>0, <2>2 DEF WorldType
  <2>8. \/ Store(t, [over EXCEPT !.recent = @ \cup {c.token}, !.mem.authz = c.token])
        \/ Become(t, SignOut(t, over))
        \/ Store(t, [over EXCEPT !.recent = @ \ {c.token}, !.mem.authz = NoToken])
    <3> HIDE DEF rested
    <3> QED BY <1>3, <2>1 DEF SyncAnswer, w
  <2>9. \/ Store(t, after(over.recent \cup {c.token}, c.token))
        \/ Become(t, SignOut(t, over))
        \/ Store(t, after(over.recent \ {c.token}, NoToken))
    <3> HIDE DEF over, after
    <3> QED BY <2>0, <2>5, <2>7, <2>8, TokenIsAnyToken
  <2> HIDE DEF over, with, after
  <2>10. \A n \in AnyToken, now \in SUBSET Token :
            /\ Attended(t, after(now, n).mem, after(now, n).calls)
            /\ OthersKept(t, after(now, n))
    BY <2>3, <2>4, <2>6 DEF Attended, OthersKept
  <2> QED BY <1>0, <2>0, <2>2, <2>3, <2>6, <2>7, <2>9, <2>10, TokenIsAnyToken,
             StoreKeepsWaiting, SignOutKeepsType, SignOutWaits, BecomeKeepsWaiting
<1>4. CASE LogoutAnswer(c)
  BY <1>0, <1>k, <1>4, SignOutKeepsType, SignOutWaits, BecomeKeepsWaiting DEF LogoutAnswer, w
<1>5. CASE OrphanAnswer(c)
  BY <1>5 DEF OrphanAnswer, Waiting, Waits, Attended, Mounted
<1> QED BY <1>1, <1>2, <1>3, <1>4, <1>5 DEF Answer

LEMMA InitWaits == Init => Waiting
<1> SUFFICES ASSUME Init, NEW t \in Tab PROVE Waits(t, tab[t], calls)
  BY DEF Waiting
<1>1. CASE tab = [u \in Tab |-> Blank]
  BY <1>1 DEF Waits, Attended, Blank
<1>2. CASE tab = [u \in Tab |-> Opened] /\ calls = {Call("sync", u, 1, FALSE) : u \in Tab}
  <2>1. /\ tab[t].attempt = NoToken /\ tab[t].awaits = 1 /\ tab[t].valid
    BY <1>2 DEF Opened, Blank
  <2>2. Call("sync", t, 1, FALSE) \in calls
    BY <1>2
  <2>3. Mounted(calls, "sync", t, 1)
    BY <2>2 DEF Call, Mounted
  <2> QED BY <2>1, <2>3 DEF Waits, Attended
<1> QED BY <1>1, <1>2 DEF Init

LEMMA StepKeepsWaiting == TypeInv /\ Waiting /\ [Next]_vars => Waiting'
<1> SUFFICES ASSUME TabType, Waiting, [Next]_vars PROVE Waiting'
  BY DEF TypeInv
<1>1. ASSUME NEW t \in Tab,
             \/ Tick(t) \/ (\E remember \in BOOLEAN : SubmitLogin(t, remember))
             \/ SubmitLogout(t) \/ Reload(t)
      PROVE  Waiting'
  BY <1>1, UserStepKeepsWaiting
<1>2. ASSUME NEW c \in calls, Handle(c) \/ Lose(c) PROVE Waiting'
  <2>1. UNCHANGED tab /\ \E stage, n : Reply(c, stage, n)
    BY <1>2 DEF Handle, HandleLogin, HandleRefreshLookup, HandleRotate, HandleLogout, Lose
  <2> QED BY <2>1, ReplyKeepsWaiting
<1>3. ASSUME NEW c \in calls, Answer(c) PROVE Waiting'
  BY <1>3, AnswerKeepsWaiting
<1>4. CASE UNCHANGED <<tab, calls>>
  BY <1>4 DEF Waiting
<1> QED BY <1>1, <1>2, <1>3, <1>4 DEF Next, WindowEnds, Expire, vars

\* The loading screen of every tab waits for a call that is under way, however
\* many tabs, tokens and calls there are (ProtectedRoute's two effects).
THEOREM LoadingWaits == Spec => []LoadingAwaitsACall
<1>1. Waiting => LoadingAwaitsACall
  BY DEF Waiting, Waits, Attended, Mounted, LoadingAwaitsACall
<1> QED BY <1>1, InitHasType, StepKeepsType, InitWaits, StepKeepsWaiting, PTL DEF Spec

-----------------------------------------------------------------------------
(***************************************************************************)
(* Proofs about RealtimeSearch for any queries, windows, pages and page    *)
(* sizes and any number of requests.                                       *)
(*                                                                         *)
(* The argument: at most one request carries the latest number, it is the  *)
(* one in flight, and until the next request it asks for what the controls *)
(* show.  So the state is settled either by its answer, which draws what   *)
(* the controls show, or by its failure, which leaves a mark.  Only a      *)
(* failed search for a cursor leaves none, and that is started only while  *)
(* the mark of an earlier failure is still there.                          *)
(***************************************************************************)

Current(r) == r.id = latest /\ r.stage # "retry"
BeforeRows(r) == r.stage \in {"cursor", "table"}

NetType ==
    /\ latest \in 0 .. MaxRequests /\ inflight \in 0 .. MaxRequests
    /\ requests \subseteq SearchRequest
    /\ cursors \subseteq Cursor

ViewType ==
    /\ shown \in Rows \cup {None} /\ outcome \in {"ok", "stale", "error"}
    /\ refreshing \in BOOLEAN
    /\ hist \in Query \cup {None} /\ histStale \in BOOLEAN

AskedType == query \in Query /\ window \in Window /\ page \in Page /\ size \in Size

PollType ==
    /\ live \in BOOLEAN /\ hidden \in BOOLEAN /\ mounted \in BOOLEAN
    /\ startup \in {"plain", "preset", "done"}
    /\ timer \in BOOLEAN /\ suppress \in BOOLEAN

\* The request in flight is the only one with the latest number.
Numbers ==
    /\ inflight \in {NoId, latest}
    /\ \A r \in requests : r.id <= latest
    /\ \A r \in requests : Current(r) => inflight = latest
    /\ \A r, s \in requests : Current(r) /\ Current(s) => r = s
    /\ shown # None => shown.id <= latest
    /\ \A r \in requests : Current(r) /\ BeforeRows(r) /\ shown # None => shown.id < latest

\* The poll.
Polling ==
    /\ LiveKeepsPolling
    /\ TimerOnlyWhileIdle
    /\ live => ~PollingDisabled(window)

\* What the latest request asks for.
AskedFor ==
    /\ \A r \in requests : Current(r) => r.page = page /\ r.size = size
    /\ \A r \in requests : r.id = latest => r.query = query
    /\ outcome = "error" => shown = None
    /\ page > MaxDirect => shown # None
    /\ \A r \in requests : Current(r) /\ r.back # None /\ r.back.page > MaxDirect
                               => shown # None

\* Deep pages, their cursors and the mark of a failure.
Deep ==
    /\ \A r \in requests : Current(r) /\ r.stage = "table" /\ r.page > MaxDirect
                               => CursorsFor(r.page, cursors) # {}
    /\ \A r \in requests : Current(r) /\ r.stage = "cursor"
                               => outcome # "ok" /\ r.page > MaxDirect
    /\ \A r \in requests : Current(r) /\ r.stage = "hist" /\ ~r.tableOk => outcome # "ok"

\* Without a request that may still draw rows, the rows are what is asked for.
Settled ==
    outcome = "ok" /\ shown # None /\ (\A r \in requests : Current(r) => ~BeforeRows(r))
        => /\ shown.query = query /\ shown.page = page /\ shown.size = size
           /\ page > MaxDirect => CursorsFor(page, cursors) # {}

\* A request that does not draw the histogram finds the right one, or none.
Drawn ==
    /\ \A r \in requests : Current(r) /\ BeforeRows(r) /\ ~r.wantsHist => hist \in {None, query}
    /\ HistogramOfTheQuery

\* Before the start-up query the page is the first one.
Started == startup # "done" => page = 1 /\ \A r \in requests : r.back = None

IInv == SearchTypeOK /\ Started /\ Numbers /\ Polling /\ AskedFor /\ Deep /\ Settled /\ Drawn

----------------------------------------------------------------------------
(* Starting a query.                                                        *)

\* What a request asks for when it is made.
Asks(r, q, p, s, back) ==
    /\ r.id = latest + 1 /\ BeforeRows(r)
    /\ r.query = q /\ r.page = p /\ r.size = s /\ r.back = back
    /\ r.stage = "cursor" => p > MaxDirect
    /\ p > MaxDirect => (r.stage = "cursor" <=> CursorsFor(p, cursors') = {})
    /\ ~r.wantsHist => hist' \in {None, q}

(* executeQuery adds one request with a new number. *)
LEMMA QueryAddsRequest ==
    ASSUME SearchTypeOK, NEW q \in Query, NEW range \in Window, NEW p \in Page, NEW s \in Size,
           NEW reset \in BOOLEAN, NEW mode, NEW back \in Place \cup {None},
           ExecuteQuery(q, range, p, s, reset, mode, back)
    PROVE  /\ NetType' /\ ViewType'
           /\ latest' = latest + 1 /\ inflight' = latest + 1 /\ shown' = shown
           /\ cursors' = IF reset THEN {} ELSE cursors
           /\ outcome' = IF outcome = "error" THEN "ok" ELSE outcome
           /\ \E r \in SearchRequest : requests' = requests \cup {r} /\ Asks(r, q, p, s, back)
<1> DEFINE map == IF reset THEN {} ELSE cursors
<1>1. PICK wantsHist \in RefreshChoices(q, range, mode) :
         requests' = requests \cup
                   {[id |-> latest + 1,
                     stage |-> IF p > MaxDirect /\ CursorsFor(p, map) = {} THEN "cursor" ELSE "table",
                     query |-> q, range |-> range, page |-> p, size |-> s,
                     wantsHist |-> wantsHist, tableOk |-> FALSE,
                     cursor |-> CursorFor(p, map), back |-> back]}
  BY DEF ExecuteQuery
<1> DEFINE r == [id |-> latest + 1,
                 stage |-> IF p > MaxDirect /\ CursorsFor(p, map) = {} THEN "cursor" ELSE "table",
                 query |-> q, range |-> range, page |-> p, size |-> s,
                 wantsHist |-> wantsHist, tableOk |-> FALSE,
                 cursor |-> CursorFor(p, map), back |-> back]
<1>2. /\ latest < MaxRequests /\ latest' = latest + 1 /\ inflight' = latest + 1
      /\ cursors' = map /\ shown' = shown /\ refreshing' = TRUE
      /\ outcome' = IF outcome = "error" THEN "ok" ELSE outcome
      /\ hist' = IF PollingDisabled(range) THEN None ELSE hist
      /\ histStale' = IF PollingDisabled(range) THEN FALSE ELSE histStale
  BY DEF ExecuteQuery
<1>3. latest \in Nat /\ map \subseteq Cursor /\ latest + 1 \in RequestId
  BY <1>2, ConstantsAssumption DEF SearchTypeOK, RequestId
<1>4. CursorFor(p, map) \in Cursor \cup {None}
  BY <1>3 DEF CursorFor, CursorsFor
<1>5. wantsHist \in BOOLEAN
  BY DEF RefreshChoices
<1>6. r \in SearchRequest
  BY <1>3, <1>4, <1>5 DEF SearchRequest
<1>7. ~wantsHist => hist' \in {None, q}
  BY <1>2 DEF RefreshChoices
<1>8. Asks(r, q, p, s, back)
  BY <1>2, <1>7 DEF Asks, BeforeRows
<1>9. requests' = requests \cup {r}
  BY <1>1
<1>10. NetType'
  <2> HIDE DEF r, map
  <2>1. requests' \subseteq SearchRequest
    BY <1>6, <1>9 DEF SearchTypeOK
  <2> QED BY <1>2, <1>3, <2>1, ConstantsAssumption DEF NetType, RequestId
<1>11. ViewType'
  BY <1>2 DEF SearchTypeOK, ViewType
<1> HIDE DEF r, map
<1> QED BY <1>2, <1>6, <1>8, <1>9, <1>10, <1>11 DEF map

(* A query for what the controls will show keeps the invariant; without a *)
(* cursor for a deep page it needs the mark of an earlier failure.        *)
LEMMA QueryKeepsInv ==
    ASSUME IInv, NEW q \in Query, NEW range \in Window, NEW p \in Page, NEW s \in Size,
           NEW reset \in BOOLEAN, NEW mode, NEW back \in Place \cup {None},
           ExecuteQuery(q, range, p, s, reset, mode, back),
           query' = q, page' = p, size' = s, timer' = FALSE,
           live' => ~PollingDisabled(window'),
           p > MaxDirect => shown # None,
           back # None /\ back.page > MaxDirect => shown # None,
           p > MaxDirect /\ (reset \/ CursorsFor(p, cursors) = {}) => outcome = "stale",
           startup' # "done" => startup # "done" /\ p = 1 /\ back = None
    PROVE  NetType' /\ ViewType' /\ Started' /\ Numbers' /\ Polling' /\ AskedFor' /\ Deep' /\ Settled' /\ Drawn'
<1> USE DEF IInv
<1>1. /\ NetType' /\ ViewType'
      /\ latest' = latest + 1 /\ inflight' = latest + 1 /\ shown' = shown
      /\ cursors' = IF reset THEN {} ELSE cursors
      /\ outcome' = IF outcome = "error" THEN "ok" ELSE outcome
  BY QueryAddsRequest
<1>2. PICK r \in SearchRequest : requests' = requests \cup {r} /\ Asks(r, q, p, s, back)
  BY QueryAddsRequest
<1>3. latest \in Nat /\ inflight' # NoId /\ \A x \in requests : x.id <= latest /\ x.id \in Nat
  BY <1>1 DEF Numbers, SearchTypeOK, NoId, SearchRequest, RequestId
<1>4. \A x \in requests' : x.id = latest' => x = r
  BY <1>1, <1>2, <1>3
<1>5. r \in requests' /\ Current(r)' /\ BeforeRows(r) /\ r.id = latest'
  BY <1>1, <1>2 DEF Asks, Current, BeforeRows
<1>6. shown # None => shown.id <= latest /\ shown.id \in Nat
  BY DEF Numbers, SearchTypeOK, Rows, RequestId
<1>7. Numbers'
  <2>1. \A x \in requests' : x.id <= latest'
    BY <1>1, <1>2, <1>3 DEF Asks
  <2> QED BY <1>1, <1>3, <1>4, <1>5, <1>6, <2>1 DEF Numbers, Current
<1>8. Polling'
  BY <1>3 DEF Polling, LiveKeepsPolling, TimerOnlyWhileIdle
<1>9. AskedFor'
  BY <1>1, <1>2, <1>4 DEF AskedFor, Asks, Current
<1>10. Deep'
  <2>1. r.stage = "cursor" => outcome' # "ok" /\ r.page > MaxDirect
    BY <1>1, <1>2 DEF Asks, CursorsFor
  <2>2. r.stage = "table" /\ r.page > MaxDirect => CursorsFor(r.page, cursors') # {}
    BY <1>2 DEF Asks, BeforeRows
  <2> QED BY <1>4, <1>5, <2>1, <2>2 DEF Deep, Current, BeforeRows, CursorsFor
<1>11. Settled'
  BY <1>5 DEF Settled
<1>12. Drawn'
  BY <1>2, <1>3, <1>4 DEF Drawn, Asks, Current, HistogramOfTheQuery
<1>13. Started'
  BY <1>2 DEF Started, Asks
<1> QED BY <1>1, <1>7, <1>8, <1>9, <1>10, <1>11, <1>12, <1>13

----------------------------------------------------------------------------
(* The steps.                                                               *)

LEMMA TypeParts == SearchTypeOK <=> NetType /\ ViewType /\ AskedType /\ PollType
  BY DEF SearchTypeOK, NetType, ViewType, AskedType, PollType

\* Everything but the types of what the user and the poll change.
Kept ==
    /\ NetType' /\ ViewType' /\ Started' /\ Numbers'
    /\ Polling' /\ AskedFor' /\ Deep' /\ Settled' /\ Drawn'

(* Without a query in flight, a deep page without mark has its cursor. *)
LEMMA IdleDeepPage ==
    ASSUME IInv, inflight = NoId \/ outcome # "ok", page > MaxDirect, CursorsFor(page, cursors) = {}
    PROVE  outcome = "stale"
<1>1. shown # None /\ outcome # "error" /\ outcome \in {"ok", "stale", "error"}
  BY DEF IInv, SearchTypeOK, AskedFor
<1>2. ASSUME inflight = NoId, outcome = "ok" PROVE FALSE
  <2>1. \A r \in requests : ~Current(r)
    BY <1>2 DEF IInv, Numbers, Current, SearchTypeOK, SearchRequest, RequestId, NoId
  <2> QED BY <1>1, <1>2, <2>1 DEF IInv, Settled
<1> QED BY <1>1, <1>2

LEMMA RefreshKeepsInv ==
    ASSUME IInv, NEW mode, Refresh(mode), inflight = NoId \/ outcome # "ok",
           UNCHANGED <<asked, live, startup>>, timer' = FALSE
    PROVE  Kept
<1>1. 1 \in Page /\ query \in Query /\ window \in Window /\ page \in Page /\ size \in Size
  BY ConstantsAssumption DEF IInv, SearchTypeOK, Page
<1>2. page > MaxDirect => shown # None
  BY DEF IInv, AskedFor
<1>3. page > MaxDirect /\ (page = 1 \/ CursorsFor(page, cursors) = {}) => outcome = "stale"
  BY IdleDeepPage, ConstantsAssumption, <1>1 DEF Page
<1>4. live' => ~PollingDisabled(window')
  BY DEF IInv, Polling, asked
<1>5. startup' # "done" => startup # "done" /\ page = 1
  BY DEF IInv, Started
<1> QED BY <1>1, <1>2, <1>3, <1>4, <1>5, QueryKeepsInv DEF Refresh, Kept, asked

(* A query from the first page, with the cursors forgotten. *)
LEMMA FirstPageKeepsInv ==
    ASSUME IInv, NEW q \in Query, NEW range \in Window, NEW s \in Size, NEW mode,
           NEW back \in Place \cup {None}, back # None => back.page = page,
           ExecuteQuery(q, range, 1, s, TRUE, mode, back),
           query' = q, page' = 1, size' = s, timer' = FALSE,
           live' => ~PollingDisabled(window'), startup' = "done"
    PROVE  Kept
<1>1. 1 \in Page /\ ~(1 > MaxDirect)
  BY ConstantsAssumption DEF Page
<1>2. back # None /\ back.page > MaxDirect => shown # None
  BY DEF IInv, AskedFor
<1> QED BY <1>1, <1>2, QueryKeepsInv DEF Kept

LEMMA UserKeepsInv == ASSUME IInv, UserAction PROVE IInv'
<1> USE DEF IInv
<1>0. AskedType /\ PollType /\ 1 \in Page /\ NoId \notin RequestId
  BY TypeParts, ConstantsAssumption DEF Page, RequestId, NoId
<1>00. live => ~PollingDisabled(window)
  BY DEF Polling
<1>a. ASSUME Kept, AskedType', PollType' PROVE IInv'
  <2>1. SearchTypeOK'
    BY <1>a DEF Kept, SearchTypeOK, NetType, ViewType, AskedType, PollType
  <2> QED BY <1>a, <2>1 DEF Kept
<1>b. [page |-> page, size |-> size] \in Place
  BY <1>0 DEF AskedType, Place
<1>1. ASSUME NEW q \in Query, ChangeFilter(q) PROVE IInv'
  <2>1. Kept
    BY <1>1, <1>0, <1>00, FirstPageKeepsInv DEF ChangeFilter, AskedType, UserActs
  <2> QED BY <1>1, <1>0, <1>a, <2>1 DEF ChangeFilter, AskedType, PollType, Suppressed
<1>2. ASSUME NEW q \in Query, NEW withRange \in BOOLEAN, RunSearch(q, withRange) PROVE IInv'
  <2>1. window' \in Window /\ (live' => ~PollingDisabled(window'))
    BY <1>2, <1>0, <1>00 DEF RunSearch, AskedType, Window
  <2>2. Kept
    BY <1>2, <1>0, <2>1, FirstPageKeepsInv DEF RunSearch, AskedType, UserActs
  <2> QED BY <1>2, <1>0, <1>a, <2>1, <2>2 DEF RunSearch, AskedType, PollType, Suppressed
<1>3. ASSUME NEW w \in Window, ChangeWindow(w) PROVE IInv'
  <2>1. (live' => ~PollingDisabled(window')) /\ (IF window = "custom" THEN "custom" ELSE w) \in Window
    BY <1>3 DEF ChangeWindow, Window
  <2>2. Kept
    BY <1>3, <1>0, <2>1, FirstPageKeepsInv DEF ChangeWindow, AskedType, UserActs
  <2> QED BY <1>3, <1>0, <1>a, <2>1, <2>2 DEF ChangeWindow, AskedType, PollType, Suppressed
<1>4. ASSUME NEW s \in Size, ChangeSize(s) PROVE IInv'
  <2>1. Kept
    BY <1>4, <1>0, <1>00, <1>b, FirstPageKeepsInv DEF ChangeSize, AskedType, UserActs
  <2> QED BY <1>4, <1>0, <1>a, <2>1 DEF ChangeSize, AskedType, PollType, Suppressed
<1>5. CASE RetryQuery
  <2>1. Kept
    BY <1>5, RefreshKeepsInv DEF RetryQuery
  <2> QED BY <1>5, <1>0, <1>a, <2>1 DEF RetryQuery, AskedType, PollType, asked
<1>6. CASE ToggleLive
  <2>1. AskedType' /\ PollType' /\ (live' => ~PollingDisabled(window')) /\ page' \in {1, page}
        /\ startup' = "done"
    BY <1>6, <1>0 DEF ToggleLive, AskedType, PollType, UserActs
  <2>2. CASE live \/ page = 1
    <3>1. UNCHANGED <<net, view, asked>> /\ timer' = (~live /\ inflight = NoId) /\ live' = ~live
          /\ UserActs /\ UNCHANGED <<hidden, mounted>>
      BY <1>6, <2>2 DEF ToggleLive, asked
    <3>2. Numbers' /\ AskedFor' /\ Deep' /\ Settled' /\ Drawn' /\ NetType' /\ ViewType'
      BY <3>1, TypeParts DEF net, view, asked, Numbers, AskedFor, Deep, Settled, Drawn, Current,
         BeforeRows, HistogramOfTheQuery, NetType, ViewType, CursorsFor
    <3>3. Polling'
      BY <2>1, <3>1 DEF net, Polling, LiveKeepsPolling, TimerOnlyWhileIdle, UserActs
    <3> QED BY <2>1, <3>2, <3>3, <1>a DEF Kept, Started
  <2>3. CASE ~(live \/ page = 1)
    <3>1. ExecuteQuery(query, window, 1, size, TRUE, "skip", None) /\ timer' = FALSE /\ page' = 1
          /\ query' = query /\ size' = size
      BY <1>6, <2>3 DEF ToggleLive
    <3>2. Kept
      BY <1>0, <2>1, <3>1, FirstPageKeepsInv DEF AskedType
    <3> QED BY <2>1, <3>2, <1>a
  <2> QED BY <2>2, <2>3
<1>7. ASSUME NEW p \in Page, ChangePage(p) PROVE IInv'
  <2>1. AskedType' /\ PollType' /\ (live' => ~PollingDisabled(window')) /\ live' = (live /\ p = 1)
        /\ UNCHANGED <<query, window, size, hidden, mounted>> /\ startup' = "done"
    BY <1>7, <1>0, <1>00 DEF ChangePage, AskedType, PollType, UserActs
  <2>2. CASE p > MaxDirect /\ CursorsFor(p, cursors) = {}
    <3>0. p # 1
      BY <2>2, ConstantsAssumption DEF Page
    <3>1. UNCHANGED <<net, view, asked>> /\ timer' = (timer /\ live') /\ ~live'
      BY <1>7, <2>1, <2>2, <3>0 DEF ChangePage, asked
    <3>2. Numbers' /\ AskedFor' /\ Deep' /\ Settled' /\ Drawn' /\ NetType' /\ ViewType'
      BY <3>1, TypeParts DEF net, view, asked, Numbers, AskedFor, Deep, Settled, Drawn, Current,
         BeforeRows, HistogramOfTheQuery, NetType, ViewType, CursorsFor
    <3>3. Polling'
      BY <2>1, <3>1 DEF net, Polling, LiveKeepsPolling, TimerOnlyWhileIdle
    <3> QED BY <2>1, <3>2, <3>3, <1>a DEF Kept, Started
  <2>3. CASE ~(p > MaxDirect /\ CursorsFor(p, cursors) = {})
    <3>1. ExecuteQuery(query, window, p, size, FALSE, "skip", [page |-> page, size |-> size])
          /\ timer' = FALSE /\ page' = p
      BY <1>7, <2>3 DEF ChangePage
    <3>2. p > MaxDirect => shown # None
      BY <1>7, ConstantsAssumption DEF ChangePage, Offered, Page
    <3>3. page > MaxDirect => shown # None
      BY DEF AskedFor
    <3>4. Kept
      BY <1>0, <1>b, <2>1, <2>3, <3>1, <3>2, <3>3, QueryKeepsInv DEF AskedType, Kept
    <3> QED BY <2>1, <3>4, <1>a
  <2> QED BY <2>2, <2>3
<1>8. CASE RetryHistogram
  <2> DEFINE x == [id |-> latest, stage |-> "retry", query |-> query, range |-> window,
             page |-> page, size |-> size, wantsHist |-> TRUE, tableOk |-> TRUE,
             cursor |-> None, back |-> None]
  <2>1. requests' = requests \cup {x} /\ UNCHANGED <<asked, polling, latest, inflight, cursors, view>>
        /\ latest # NoId
    BY <1>8 DEF RetryHistogram
  <2>2. ~Current(x)
    BY DEF Current
  <2>3. x \in SearchRequest
    BY <2>1, <1>0, ConstantsAssumption DEF SearchTypeOK, SearchRequest, RequestId, NoId, AskedType
  <2>4. NetType' /\ ViewType' /\ AskedType' /\ PollType'
    <3>1. requests' \subseteq SearchRequest
      BY <2>1, <2>3 DEF SearchTypeOK
    <3> QED BY <2>1, <3>1, <1>0, TypeParts DEF asked, polling, view, NetType, ViewType, AskedType, PollType
  <2> HIDE DEF x
  <2>5. \A r \in requests' : Current(r)' => r \in requests /\ Current(r)
    BY <2>1, <2>2 DEF Current
  <2>6. Numbers'
    <3>1. x.id = latest /\ latest \in Nat
      BY DEF x, SearchTypeOK
    <3> QED BY <2>1, <2>5, <3>1 DEF Numbers, view, Current
  <2>7. Polling'
    BY <2>1 DEF Polling, LiveKeepsPolling, TimerOnlyWhileIdle, asked, polling
  <2>8. AskedFor'
    <3>1. x.query = query
      BY DEF x
    <3> QED BY <2>1, <2>5, <3>1 DEF AskedFor, asked, view, Current
  <2>9. Deep'
    BY <2>1, <2>5 DEF Deep, view, Current, CursorsFor
  <2>10. Settled' /\ Drawn'
    BY <1>8, <2>1, <2>5 DEF Settled, Drawn, asked, view, Current, BeforeRows, HistogramOfTheQuery,
       CursorsFor
  <2>11. Started'
    BY <1>8 DEF RetryHistogram, Started, UserActs, polling
  <2> QED BY <2>4, <2>6, <2>7, <2>8, <2>9, <2>10, <2>11, <1>a DEF Kept
<1> QED BY <1>1, <1>2, <1>3, <1>4, <1>5, <1>6, <1>7, <1>8 DEF UserAction

LEMMA BrowserKeepsInv == ASSUME IInv, BrowserAction PROVE IInv'
<1> USE DEF IInv
<1>0. AskedType /\ PollType /\ 1 \in Page
  BY TypeParts, ConstantsAssumption DEF Page
<1>a. ASSUME Kept, AskedType', PollType' PROVE IInv'
  BY <1>a, TypeParts DEF Kept, SearchTypeOK, NetType, ViewType, AskedType, PollType
<1>b. ASSUME UNCHANGED <<asked, net, view>>, startup' \in {startup, "done"}
      PROVE  Started' /\ Numbers' /\ AskedFor' /\ Deep' /\ Settled' /\ Drawn' /\ NetType' /\ ViewType' /\ AskedType'
  BY <1>b, TypeParts DEF net, view, asked, Started, Numbers, AskedFor, Deep, Settled, Drawn, Current,
     BeforeRows, HistogramOfTheQuery, NetType, ViewType, AskedType, CursorsFor
<1>1. ASSUME NEW q \in Query, NEW withRange \in BOOLEAN, StartupQuery(q, withRange) PROVE IInv'
  <2>1. window' \in Window /\ (live' => ~PollingDisabled(window'))
    BY <1>1, <1>0 DEF StartupQuery, AskedType, Window, Polling
  <2>2. page = 1
    BY <1>1 DEF StartupQuery, Started
  <2>3. Kept
    BY <1>1, <1>0, <2>1, <2>2, FirstPageKeepsInv DEF StartupQuery, AskedType
  <2> QED BY <1>1, <1>0, <1>a, <2>1, <2>3 DEF StartupQuery, AskedType, PollType
<1>2. CASE LiveTick
  <2>1. CASE inflight # NoId \/ suppress
    <3>1. UNCHANGED <<asked, net, view, timer, live, hidden, mounted, startup>>
          /\ suppress' \in BOOLEAN
      BY <1>2, <2>1, <1>0 DEF LiveTick, PollType
    <3>2. Polling' /\ PollType'
      BY <3>1, <1>0 DEF Polling, LiveKeepsPolling, TimerOnlyWhileIdle, PollType, asked, net
    <3> QED BY <3>1, <3>2, <1>a, <1>b DEF Kept
  <2>2. CASE ~(inflight # NoId \/ suppress)
    <3>1. Refresh("auto") /\ timer' = FALSE /\ UNCHANGED <<asked, live, hidden, mounted, startup, suppress>>
      BY <1>2, <2>2 DEF LiveTick
    <3>2. Kept
      BY <2>2, <3>1, RefreshKeepsInv
    <3> QED BY <3>1, <3>2, <1>0, <1>a DEF AskedType, PollType, asked
  <2> QED BY <2>1, <2>2
<1>3. CASE Hide
  <2>1. UNCHANGED <<asked, net, view>> /\ Polling' /\ PollType' /\ startup' \in {startup, "done"}
    BY <1>3, <1>0 DEF Hide, Polling, LiveKeepsPolling, TimerOnlyWhileIdle, PollType, asked
  <2> QED BY <2>1, <1>a, <1>b DEF Kept
<1>4. CASE Show
  <2>1. PollType' /\ UNCHANGED <<asked, live, timer, mounted, startup>> /\ mounted /\ hidden /\ ~timer
    BY <1>4, <1>0 DEF Show, PollType, Polling, TimerOnlyWhileIdle
  <2>2. CASE live /\ ~PollingDisabled(window) /\ inflight = NoId
    <3>1. Refresh("auto") /\ timer' = FALSE
      BY <1>4, <2>1, <2>2, <1>0 DEF Show, PollType
    <3>2. Kept
      BY <2>1, <2>2, <3>1, RefreshKeepsInv
    <3> QED BY <2>1, <3>2, <1>0, <1>a DEF AskedType, asked
  <2>3. CASE ~(live /\ ~PollingDisabled(window) /\ inflight = NoId)
    <3>1. UNCHANGED <<asked, net, view>>
      BY <1>4, <2>3 DEF Show
    <3>2. Polling'
      BY <2>1, <2>3, <3>1 DEF Polling, LiveKeepsPolling, TimerOnlyWhileIdle, asked, net
    <3> QED BY <2>1, <3>1, <3>2, <1>a, <1>b DEF Kept
  <2> QED BY <2>2, <2>3
<1>5. CASE UnmountSearch
  <2>1. UNCHANGED <<asked, net, view>> /\ Polling' /\ PollType' /\ startup' \in {startup, "done"}
    BY <1>5, <1>0 DEF UnmountSearch, Polling, LiveKeepsPolling, TimerOnlyWhileIdle, PollType, asked
  <2> QED BY <2>1, <1>a, <1>b DEF Kept
<1> QED BY <1>1, <1>2, <1>3, <1>4, <1>5 DEF BrowserAction

----------------------------------------------------------------------------
(* Answers.                                                                 *)

(* The end of the latest request: nothing is in flight and the poll is on. *)
LEMMA FinishSettles ==
    ASSUME IInv, NEW r \in requests, Current(r), NEW ok \in BOOLEAN, Finish(r, ok)
    PROVE  /\ inflight' = NoId /\ latest' = latest /\ requests' = requests \ {r} /\ query' = query
           /\ \A x \in requests' : x.id = latest => ~Current(x)'
           /\ IF ~ok /\ r.back # None THEN page' = r.back.page /\ size' = r.back.size
              ELSE UNCHANGED <<page, size>>
           /\ PollType' /\ AskedType' /\ Polling' /\ Started'
<1> USE DEF IInv
<1>1. /\ requests' = requests \ {r} /\ inflight' = NoId /\ latest' = latest
      /\ timer' = (live /\ mounted /\ ~hidden /\ ~PollingDisabled(window))
      /\ IF ~ok /\ r.back # None THEN page' = r.back.page /\ size' = r.back.size
         ELSE UNCHANGED <<page, size>>
      /\ UNCHANGED <<query, window, live, hidden, mounted, startup, suppress>>
  BY DEF Finish
<1>2. \A x \in requests' : ~Current(x)'
  BY <1>1 DEF Numbers, Current
<1>3. r.back # None => r.back.page \in Page /\ r.back.size \in Size
  BY DEF SearchTypeOK, SearchRequest, Place
<1>4. PollType' /\ AskedType'
  BY <1>1, <1>3, TypeParts DEF PollType, AskedType
<1>5. Polling'
  BY <1>1 DEF Polling, LiveKeepsPolling, TimerOnlyWhileIdle
<1>6. Started'
  BY <1>1 DEF Started
<1> QED BY <1>1, <1>2, <1>4, <1>5, <1>6

(* The end of the table's half, with or without the histogram's half. *)
LEMMA AfterTableKeeps ==
    ASSUME IInv, NEW r \in requests, Current(r), BeforeRows(r), NEW ok \in BOOLEAN, AfterTable(r, ok)
    PROVE  /\ latest' = latest /\ query' = query /\ requests' \subseteq SearchRequest
           /\ inflight' \in {NoId, inflight}
           /\ \A x \in requests' : Current(x)' => inflight' = latest
           /\ \A x, y \in requests' : Current(x)' /\ Current(y)' => x = y
           /\ \A x \in requests' :
                 \/ x \in requests /\ x # r /\ ~Current(x)'
                 \/ /\ r.wantsHist /\ x.stage = "hist" /\ x.tableOk = ok
                    /\ x.id = r.id /\ x.query = r.query /\ x.page = r.page /\ x.size = r.size
                    /\ x.back = r.back /\ page' = page /\ size' = size
           /\ \/ ~r.wantsHist /\ inflight' = NoId
              \/ inflight' = inflight /\ page' = page /\ size' = size
           /\ ok => page' = page /\ size' = size
           /\ page' = page \/ (r.back # None /\ page' = r.back.page)
           /\ PollType' /\ AskedType' /\ Polling' /\ Started'
<1> USE DEF IInv
<1>0. r.page = page /\ r.id = latest /\ inflight = latest /\ r \in SearchRequest
      /\ \A x \in requests : x # r => ~Current(x)
  BY DEF AskedFor, Current, Numbers, SearchTypeOK
<1>1. CASE ~r.wantsHist
  <2>1. Finish(r, ok)
    BY <1>1 DEF AfterTable
  <2>2. /\ inflight' = NoId /\ latest' = latest /\ requests' = requests \ {r} /\ query' = query
        /\ \A x \in requests' : x.id = latest => ~Current(x)'
        /\ IF ~ok /\ r.back # None THEN page' = r.back.page /\ size' = r.back.size
           ELSE UNCHANGED <<page, size>>
        /\ PollType' /\ AskedType' /\ Polling' /\ Started'
    BY <2>1, FinishSettles
  <2>3. \A x \in requests' : x \in requests /\ x # r /\ ~Current(x)'
    BY <2>2 DEF Current
  <2>4. requests' \subseteq SearchRequest
    BY <2>2 DEF SearchTypeOK
  <2> QED BY <1>1, <2>2, <2>3, <2>4
<1>2. CASE r.wantsHist
  <2> DEFINE h == [r EXCEPT !.stage = "hist", !.tableOk = ok]
  <2>1. /\ requests' = (requests \ {r}) \cup {h} /\ latest' = latest /\ inflight' = inflight
        /\ page' = page /\ size' = size /\ query' = query /\ window' = window
        /\ UNCHANGED polling
    BY <1>0, <1>2 DEF AfterTable
  <2>2. h \in SearchRequest /\ h.stage = "hist" /\ h.tableOk = ok /\ h.id = r.id /\ h.query = r.query
        /\ h.page = r.page /\ h.size = r.size /\ h.back = r.back
    BY <1>0 DEF SearchRequest
  <2> HIDE DEF h
  <2>3. \A x \in requests' : x = h \/ (x \in requests /\ x # r /\ ~Current(x)')
    BY <1>0, <2>1 DEF Current
  <2>4. requests' \subseteq SearchRequest
    BY <2>1, <2>2 DEF SearchTypeOK
  <2>5. PollType' /\ AskedType' /\ Polling'
    BY <2>1, TypeParts DEF polling, PollType, AskedType, Polling, LiveKeepsPolling, TimerOnlyWhileIdle
  <2>6. Started'
    BY <2>1, <2>2, <2>3 DEF Started, polling
  <2> QED BY <1>0, <1>2, <2>1, <2>2, <2>3, <2>4, <2>5, <2>6
<1> QED BY <1>1, <1>2

LEMMA TableAnswerKeepsInv ==
    ASSUME IInv, NEW r \in requests, NEW deep \in BOOLEAN, NEW more \in BOOLEAN,
           TableAnswer(r, deep, more)
    PROVE  IInv'
<1> USE DEF IInv
<1>1. /\ r \in SearchRequest /\ Current(r) /\ BeforeRows(r) /\ r.stage = "table" /\ AfterTable(r, TRUE)
      /\ r.query = query /\ r.page = page /\ r.size = size /\ r.id = latest
      /\ latest # NoId /\ inflight = latest /\ latest \in Nat
  <2>1. r \in SearchRequest /\ r.stage = "table" /\ r.id = latest /\ AfterTable(r, TRUE)
    BY DEF TableAnswer, SearchTypeOK
  <2>2. latest \in Nat /\ latest # NoId
    BY <2>1, ConstantsAssumption DEF SearchRequest, RequestId, NoId
  <2> QED BY <2>1, <2>2 DEF Current, BeforeRows, AskedFor, Numbers
<1>2. /\ shown' = [id |-> r.id, query |-> r.query, range |-> r.range, page |-> r.page,
                    size |-> r.size, deep |-> deep]
      /\ outcome' = "ok" /\ refreshing' = FALSE /\ hist' = hist /\ histStale' = histStale
      /\ cursors' = {c \in cursors : c.page # r.page + 1} \cup
           (IF more /\ r.page < MaxPage
            THEN {[page |-> r.page + 1, query |-> r.query, size |-> r.size]} ELSE {})
  BY DEF TableAnswer
<1>3. shown' \in Rows /\ shown' # None /\ shown'.id = latest
  BY <1>1, <1>2, NoneAssumption DEF Rows, SearchRequest
<1>4. cursors' \subseteq Cursor
  <2>1. r.page < MaxPage => r.page + 1 \in Page
    BY <1>1, ConstantsAssumption DEF SearchRequest, Page
  <2> QED BY <1>1, <1>2, <2>1 DEF SearchTypeOK, Cursor, SearchRequest
<1>5. r.page > MaxDirect => CursorsFor(r.page, cursors') # {}
  <2>1. r.page \in Nat
    BY <1>1, ConstantsAssumption DEF SearchRequest, Page
  <2>2. \A c \in cursors : c.page = r.page => c \in cursors'
    BY <1>2, <2>1
  <2> QED BY <1>1, <2>2 DEF Deep, CursorsFor
<1>6. /\ latest' = latest /\ query' = query /\ requests' \subseteq SearchRequest
      /\ inflight' \in {NoId, inflight}
      /\ \A x \in requests' : Current(x)' => inflight' = latest
      /\ \A x, y \in requests' : Current(x)' /\ Current(y)' => x = y
      /\ \A x \in requests' :
            \/ x \in requests /\ x # r /\ ~Current(x)'
            \/ /\ r.wantsHist /\ x.stage = "hist" /\ x.tableOk = TRUE
               /\ x.id = r.id /\ x.query = r.query /\ x.page = r.page /\ x.size = r.size
               /\ x.back = r.back
      /\ ~r.wantsHist \/ inflight' = inflight
      /\ page' = page /\ size' = size
      /\ PollType' /\ AskedType' /\ Polling' /\ Started'
  BY <1>1, AfterTableKeeps
<1>7. NetType' /\ ViewType'
  <2>1. inflight' \in 0 .. MaxRequests /\ latest' \in 0 .. MaxRequests
    BY <1>4, <1>6, ConstantsAssumption DEF SearchTypeOK, NoId
  <2>2. requests' \subseteq SearchRequest /\ cursors' \subseteq Cursor
    BY <1>4, <1>6 DEF SearchTypeOK
  <2>3. ViewType'
    BY <1>2, <1>3 DEF ViewType, SearchTypeOK
  <2> QED BY <2>1, <2>2, <2>3 DEF NetType
<1>8. \A x \in requests' : Current(x)' => ~BeforeRows(x)
  BY <1>6 DEF BeforeRows
<1>9. Numbers'
  BY <1>1, <1>3, <1>6, <1>8 DEF Numbers, BeforeRows
<1>10. AskedFor'
  BY <1>1, <1>2, <1>3, <1>6 DEF AskedFor, Current
<1>11. Deep'
  BY <1>6, <1>8 DEF Deep, BeforeRows
<1>12. Settled'
  BY <1>1, <1>2, <1>5, <1>6 DEF Settled, CursorsFor
<1>13. Drawn'
  <2>1. ~r.wantsHist => hist \in {None, query}
    BY <1>1 DEF Drawn
  <2> QED BY <1>1, <1>2, <1>6, <1>8, <2>1 DEF Drawn, HistogramOfTheQuery
<1> QED BY <1>6, <1>7, <1>9, <1>10, <1>11, <1>12, <1>13, TypeParts DEF SearchTypeOK, NetType, ViewType, AskedType, PollType

LEMMA TableFailureKeepsInv ==
    ASSUME IInv, NEW r \in requests, TableFailure(r) PROVE IInv'
<1> USE DEF IInv
<1>1. /\ r \in SearchRequest /\ Current(r) /\ BeforeRows(r) /\ AfterTable(r, FALSE)
      /\ r.query = query /\ r.page = page /\ r.size = size /\ r.id = latest
      /\ inflight = latest
  BY DEF TableFailure, Current, BeforeRows, SearchTypeOK, AskedFor, Numbers
<1>2. /\ outcome' = IF shown # None THEN "stale" ELSE "error"
      /\ refreshing' = FALSE
      /\ UNCHANGED <<cursors, shown, hist, histStale>>
  BY DEF TableFailure
<1>3. /\ latest' = latest /\ query' = query /\ requests' \subseteq SearchRequest
      /\ inflight' \in {NoId, inflight}
      /\ \A x \in requests' : Current(x)' => inflight' = latest
      /\ \A x, y \in requests' : Current(x)' /\ Current(y)' => x = y
      /\ \A x \in requests' :
            \/ x \in requests /\ x # r /\ ~Current(x)'
            \/ /\ x.stage = "hist" /\ x.tableOk = FALSE
               /\ x.id = r.id /\ x.query = r.query /\ x.page = r.page /\ x.size = r.size
               /\ x.back = r.back /\ page' = page /\ size' = size
      /\ page' = page \/ (r.back # None /\ page' = r.back.page)
      /\ PollType' /\ AskedType' /\ Polling' /\ Started'
  BY <1>1, AfterTableKeeps
<1>4. NetType' /\ ViewType'
  <2>1. inflight' \in 0 .. MaxRequests /\ latest' \in 0 .. MaxRequests
    BY <1>2, <1>3, ConstantsAssumption DEF SearchTypeOK, NoId
  <2>2. requests' \subseteq SearchRequest /\ cursors' \subseteq Cursor
    BY <1>2, <1>3 DEF SearchTypeOK
  <2>3. ViewType'
    BY <1>2 DEF ViewType, SearchTypeOK
  <2> QED BY <2>1, <2>2, <2>3 DEF NetType
<1>5. \A x \in requests' : Current(x)' => ~BeforeRows(x)
  BY <1>3 DEF BeforeRows
<1>6. Numbers'
  BY <1>1, <1>2, <1>3, <1>5 DEF Numbers, BeforeRows
<1>7. AskedFor'
  <2>1. page' > MaxDirect => shown # None
    BY <1>1, <1>3 DEF AskedFor
  <2> QED BY <1>1, <1>2, <1>3, <2>1 DEF AskedFor, Current
<1>8. Deep'
  BY <1>2, <1>3, <1>5 DEF Deep, BeforeRows
<1>9. Settled' /\ Drawn'
  BY <1>2, <1>5 DEF Settled, Drawn, HistogramOfTheQuery
<1> QED BY <1>3, <1>4, <1>6, <1>7, <1>8, <1>9, TypeParts DEF SearchTypeOK, NetType, ViewType, AskedType, PollType

LEMMA CursorKeepsInv ==
    ASSUME IInv, NEW r \in requests, CursorFound(r) \/ CursorMissing(r) PROVE IInv'
<1> USE DEF IInv
<1>1. /\ r \in SearchRequest /\ Current(r) /\ r.stage = "cursor" /\ r.id = latest /\ inflight = latest
      /\ outcome # "ok" /\ r.page > MaxDirect
  BY DEF CursorFound, CursorMissing, Current, SearchTypeOK, Numbers, Deep
<1>2. CASE CursorFound(r)
  <2> DEFINE at(p) == [page |-> p, query |-> r.query, size |-> r.size]
             t == [r EXCEPT !.stage = "table", !.cursor = at(r.page)]
             map == {c \in cursors : c.page <= MaxDirect} \cup {at(p) : p \in MaxDirect + 1 .. r.page}
  <2>1. /\ cursors' = map /\ requests' = (requests \ {r}) \cup {t}
        /\ UNCHANGED <<asked, polling, latest, inflight, view>>
    BY <1>2 DEF CursorFound
  <2>2. r.page \in MaxDirect + 1 .. r.page /\ \A p \in MaxDirect + 1 .. r.page : at(p) \in Cursor
    BY <1>1, ConstantsAssumption DEF SearchRequest, Page, Cursor
  <2>3. map \subseteq Cursor
    BY <2>2 DEF SearchTypeOK
  <2>4. CursorsFor(r.page, map) # {}
    <3>1. at(r.page) \in map
      BY <2>2
    <3>2. at(r.page).page = r.page
      OBVIOUS
    <3> QED BY <3>1, <3>2 DEF CursorsFor
  <2>5. /\ t \in SearchRequest /\ t.stage = "table" /\ t.id = r.id /\ t.query = r.query /\ t.page = r.page
        /\ t.size = r.size /\ t.back = r.back /\ t.wantsHist = r.wantsHist
    BY <1>1, <2>2 DEF SearchRequest
  <2> HIDE DEF at, t, map
  <2>6. requests' \subseteq SearchRequest
    BY <2>1, <2>5 DEF SearchTypeOK
  <2>7. NetType' /\ ViewType' /\ AskedType' /\ PollType'
    BY <2>1, <2>3, <2>6, TypeParts DEF NetType, ViewType, AskedType, PollType, view, asked, polling
  <2>8. /\ \A x \in requests' : x = t \/ (x \in requests /\ x # r)
        /\ \A x \in requests : x # r => ~Current(x)
        /\ \A x \in requests' : Current(x)' => x = t
        /\ Current(t)' /\ t \in requests' /\ BeforeRows(t)
    BY <1>1, <2>1, <2>5 DEF Numbers, Current, BeforeRows
  <2>9. Numbers'
    BY <1>1, <2>1, <2>5, <2>8 DEF Numbers, view, BeforeRows
  <2>10. Polling' /\ Started'
    BY <2>1, <2>5, <2>8 DEF Polling, LiveKeepsPolling, TimerOnlyWhileIdle, Started, asked, polling
  <2>11. AskedFor'
    BY <1>1, <2>1, <2>5, <2>8 DEF AskedFor, asked, view, Current
  <2>12. Deep'
    BY <2>1, <2>4, <2>5, <2>8 DEF Deep
  <2>13. Settled'
    BY <2>8 DEF Settled
  <2>14. Drawn'
    BY <1>1, <2>1, <2>5, <2>8 DEF Drawn, HistogramOfTheQuery, asked, view, BeforeRows
  <2> QED BY <2>7, <2>9, <2>10, <2>11, <2>12, <2>13, <2>14, TypeParts
          DEF SearchTypeOK, NetType, ViewType, AskedType, PollType
<1>3. CASE CursorMissing(r)
  <2>1. Finish(r, FALSE) /\ refreshing' = FALSE
        /\ UNCHANGED <<cursors, shown, outcome, hist, histStale>>
    BY <1>3 DEF CursorMissing
  <2>2. /\ inflight' = NoId /\ latest' = latest /\ requests' = requests \ {r} /\ query' = query
        /\ \A x \in requests' : x.id = latest => ~Current(x)'
        /\ page' = page \/ (r.back # None /\ page' = r.back.page)
        /\ PollType' /\ AskedType' /\ Polling' /\ Started'
    BY <1>1, <2>1, FinishSettles
  <2>3. NetType' /\ ViewType'
    <3>1. inflight' \in 0 .. MaxRequests /\ latest' \in 0 .. MaxRequests
      BY <2>1, <2>2, ConstantsAssumption DEF SearchTypeOK, NoId
    <3>2. requests' \subseteq SearchRequest /\ cursors' \subseteq Cursor
      BY <2>1, <2>2 DEF SearchTypeOK
    <3>3. ViewType'
      BY <2>1 DEF ViewType, SearchTypeOK
    <3> QED BY <3>1, <3>2, <3>3 DEF NetType
  <2>4. \A x \in requests' : x \in requests /\ ~Current(x)'
    BY <2>2 DEF Current
  <2>5. Numbers' /\ Deep'
    BY <2>1, <2>2, <2>4 DEF Numbers, Deep
  <2>6. AskedFor'
    BY <1>1, <2>1, <2>2, <2>4 DEF AskedFor
  <2>7. Settled' /\ Drawn'
    BY <1>1, <2>1, <2>4 DEF Settled, Drawn, HistogramOfTheQuery
  <2> QED BY <2>2, <2>3, <2>5, <2>6, <2>7, TypeParts DEF SearchTypeOK, NetType, ViewType, AskedType, PollType
<1> QED BY <1>2, <1>3

LEMMA HistogramKeepsInv ==
    ASSUME IInv, NEW r \in requests, NEW ok \in BOOLEAN,
           HistogramAnswer(r, ok) \/ RetryAnswer(r, ok) PROVE IInv'
<1> USE DEF IInv
<1>1. /\ r \in SearchRequest /\ r.id = latest /\ r.query = query /\ r.tableOk \in BOOLEAN
      /\ hist' = IF ok THEN query ELSE hist
      /\ histStale' = (~ok /\ hist # None)
      /\ UNCHANGED <<cursors, shown, outcome, refreshing>>
  BY DEF HistogramAnswer, RetryAnswer, SearchTypeOK, SearchRequest, AskedFor
<1>2. query \in Query /\ histStale' \in BOOLEAN /\ ViewType'
  BY <1>1 DEF SearchTypeOK, ViewType
<1>3. CASE HistogramAnswer(r, ok)
  <2>1. Current(r) /\ r.stage = "hist" /\ Finish(r, r.tableOk) /\ inflight = latest
    BY <1>3 DEF HistogramAnswer, Current, Numbers
  <2>2. /\ inflight' = NoId /\ latest' = latest /\ requests' = requests \ {r} /\ query' = query
        /\ \A x \in requests' : x.id = latest => ~Current(x)'
        /\ IF ~r.tableOk /\ r.back # None THEN page' = r.back.page /\ size' = r.back.size
           ELSE UNCHANGED <<page, size>>
        /\ PollType' /\ AskedType' /\ Polling' /\ Started'
    BY <1>1, <2>1, FinishSettles
  <2>3. \A x \in requests' : x \in requests /\ ~Current(x)'
    BY <2>2 DEF Current
  <2>4. NetType'
    <3>1. inflight' \in 0 .. MaxRequests /\ latest' \in 0 .. MaxRequests
      BY <1>1, <2>2, ConstantsAssumption DEF SearchTypeOK, NoId
    <3>2. requests' \subseteq SearchRequest /\ cursors' \subseteq Cursor
      BY <1>1, <2>2 DEF SearchTypeOK
    <3> QED BY <3>1, <3>2 DEF NetType
  <2>5. Numbers' /\ Deep'
    BY <1>1, <2>2, <2>3 DEF Numbers, Deep
  <2>6. AskedFor'
    BY <1>1, <2>1, <2>2, <2>3 DEF AskedFor
  <2>7. Settled'
    <3>1. \A x \in requests : Current(x) => ~BeforeRows(x)
      BY <2>1 DEF Numbers, BeforeRows
    <3>2. outcome = "ok" => r.tableOk
      BY <2>1 DEF Deep
    <3> QED BY <1>1, <2>2, <3>1, <3>2 DEF Settled, CursorsFor
  <2>8. Drawn'
    BY <1>1, <2>2, <2>3 DEF Drawn, HistogramOfTheQuery
  <2> QED BY <1>2, <2>2, <2>4, <2>5, <2>6, <2>7, <2>8, TypeParts
          DEF SearchTypeOK, NetType, ViewType, AskedType, PollType
<1>4. CASE RetryAnswer(r, ok)
  <2>1. requests' = requests \ {r} /\ UNCHANGED <<asked, polling, latest, inflight>> /\ ~Current(r)
    BY <1>4 DEF RetryAnswer, Current
  <2>2. \A x \in requests' : x \in requests /\ (Current(x)' <=> Current(x))
    BY <2>1 DEF Current
  <2>3. NetType' /\ AskedType' /\ PollType'
    BY <1>1, <2>1, TypeParts DEF NetType, SearchTypeOK, AskedType, PollType, asked, polling
  <2>4. Numbers' /\ Deep' /\ AskedFor'
    BY <1>1, <2>1, <2>2 DEF Numbers, Deep, AskedFor, asked, CursorsFor
  <2>5. Polling' /\ Started'
    BY <2>1 DEF Polling, LiveKeepsPolling, TimerOnlyWhileIdle, Started, asked, polling
  <2>6. \A x \in requests : Current(x) => x \in requests'
    BY <2>1
  <2>7. Settled'
    BY <1>1, <2>1, <2>2, <2>6 DEF Settled, asked, CursorsFor
  <2>8. Drawn'
    BY <1>1, <2>1, <2>2 DEF Drawn, HistogramOfTheQuery, asked
  <2> QED BY <1>2, <2>3, <2>4, <2>5, <2>7, <2>8, TypeParts
          DEF SearchTypeOK, NetType, ViewType, AskedType, PollType
<1> QED BY <1>3, <1>4

LEMMA DropKeepsInv == ASSUME IInv, NEW r \in requests, DropStale(r) PROVE IInv'
<1> USE DEF IInv
<1>1. requests' = requests \ {r} /\ UNCHANGED <<asked, polling, latest, inflight, cursors, view>>
      /\ ~Current(r)
  BY DEF DropStale, Current
<1>2. /\ \A x \in requests' : x \in requests /\ (Current(x)' <=> Current(x))
      /\ \A x \in requests : Current(x) => x \in requests'
  BY <1>1 DEF Current
<1>3. SearchTypeOK'
  BY <1>1 DEF SearchTypeOK, asked, polling, view
<1>4. Numbers' /\ Deep' /\ AskedFor'
  BY <1>1, <1>2 DEF Numbers, Deep, AskedFor, asked, view, CursorsFor
<1>5. Polling' /\ Started'
  BY <1>1 DEF Polling, LiveKeepsPolling, TimerOnlyWhileIdle, Started, asked, polling
<1>6. Settled' /\ Drawn'
  BY <1>1, <1>2 DEF Settled, Drawn, HistogramOfTheQuery, asked, view, CursorsFor
<1> QED BY <1>3, <1>4, <1>5, <1>6

LEMMA InitIInv == SearchInit => IInv
<1> SUFFICES ASSUME SearchInit PROVE IInv
  OBVIOUS
<1>1. 1 \in Page /\ ~(1 > MaxDirect) /\ 0 \in 0 .. MaxRequests
  BY ConstantsAssumption DEF Page
<1>2. SearchTypeOK
  BY <1>1, ConstantsAssumption DEF SearchInit, SearchTypeOK, Window, NoId
<1>3. Numbers /\ AskedFor /\ Deep /\ Settled /\ Drawn /\ Started
  BY <1>1 DEF SearchInit, Numbers, AskedFor, Deep, Settled, Drawn, HistogramOfTheQuery, Started
<1>4. Polling
  BY ConstantsAssumption DEF SearchInit, Polling, LiveKeepsPolling, TimerOnlyWhileIdle, PollingDisabled
<1> QED BY <1>2, <1>3, <1>4 DEF IInv

LEMMA NextIInv == IInv /\ [SearchNext]_searchVars => IInv'
<1> SUFFICES ASSUME IInv, [SearchNext]_searchVars PROVE IInv'
  OBVIOUS
<1>1. ASSUME NEW r \in requests, AnswerSearch(r) PROVE IInv'
  BY <1>1, DropKeepsInv, CursorKeepsInv, TableAnswerKeepsInv, TableFailureKeepsInv, HistogramKeepsInv
     DEF AnswerSearch
<1>2. CASE UNCHANGED searchVars
  BY <1>2 DEF searchVars, asked, polling, net, view, IInv, SearchTypeOK, Numbers, Polling, LiveKeepsPolling,
     TimerOnlyWhileIdle, AskedFor, Deep, Settled, Drawn, HistogramOfTheQuery, Started, Current,
     BeforeRows, CursorsFor
<1> QED BY <1>1, <1>2, UserKeepsInv, BrowserKeepsInv DEF SearchNext

----------------------------------------------------------------------------
(* The cursors, beside the invariant above.                                 *)

\* All cursors are of the query and the page size on screen, and a failure
\* goes back to another page size only when there are none left.
CursorsOfQuery ==
    /\ DeepPageHasItsCursor
    /\ \A c \in cursors : c.query = query /\ c.size = size
    /\ \A r \in requests :
          /\ Current(r) /\ r.back # None /\ (BeforeRows(r) \/ ~r.tableOk)
                => cursors = {} \/ r.back.size = size
          /\ Current(r) /\ r.back # None /\ r.stage = "cursor" => r.back.size = size

(* A new query takes the cursor of its page, or starts without cursors on *)
(* the first page.                                                        *)
LEMMA QueryKeepsCursors ==
    ASSUME IInv, CursorsOfQuery,
           NEW q \in Query, NEW range \in Window, NEW p \in Page, NEW s \in Size,
           NEW reset \in BOOLEAN, NEW mode, NEW back \in Place \cup {None},
           ExecuteQuery(q, range, p, s, reset, mode, back), query' = q, size' = s,
           reset => p = 1, ~reset => q = query /\ s = size,
           back # None => reset \/ back.size = size
    PROVE  CursorsOfQuery'
<1> DEFINE map == IF reset THEN {} ELSE cursors
<1>1. PICK wantsHist \in RefreshChoices(q, range, mode) :
         requests' = requests \cup
                   {[id |-> latest + 1,
                     stage |-> IF p > MaxDirect /\ CursorsFor(p, map) = {} THEN "cursor" ELSE "table",
                     query |-> q, range |-> range, page |-> p, size |-> s,
                     wantsHist |-> wantsHist, tableOk |-> FALSE,
                     cursor |-> CursorFor(p, map), back |-> back]}
  BY DEF ExecuteQuery
<1> DEFINE n == [id |-> latest + 1,
                 stage |-> IF p > MaxDirect /\ CursorsFor(p, map) = {} THEN "cursor" ELSE "table",
                 query |-> q, range |-> range, page |-> p, size |-> s,
                 wantsHist |-> wantsHist, tableOk |-> FALSE,
                 cursor |-> CursorFor(p, map), back |-> back]
<1>2. latest' = latest + 1 /\ cursors' = map /\ requests' = requests \cup {n}
  BY <1>1 DEF ExecuteQuery
<1>3. \A c \in map : c \in Cursor /\ c.query = q /\ c.size = s
  BY DEF CursorsOfQuery, IInv, SearchTypeOK
<1>4. p > MaxDirect => ~reset
  BY ConstantsAssumption
<1>5. \A r \in requests' : r.id = latest' => r = n
  BY <1>2, ConstantsAssumption DEF IInv, SearchTypeOK, Numbers, SearchRequest, RequestId
<1>6. n.stage = "table" /\ p > MaxDirect => n.cursor = [page |-> p, query |-> q, size |-> s]
  <2> SUFFICES ASSUME CursorsFor(p, map) # {}
               PROVE  CursorFor(p, map) = [page |-> p, query |-> q, size |-> s]
    OBVIOUS
  <2>1. CursorFor(p, map) \in map /\ CursorFor(p, map).page = p
    BY DEF CursorFor, CursorsFor
  <2> QED BY <1>3, <2>1 DEF Cursor
<1>7. n.back # None => cursors' = {} \/ n.back.size = size'
  BY <1>2
<1>8. n.stage = "cursor" /\ n.back # None => n.back.size = size'
  BY <1>4
<1>9. n.page = p /\ n.query = q /\ n.size = s
  OBVIOUS
<1> HIDE DEF n, map
<1> QED BY <1>2, <1>3, <1>5, <1>6, <1>7, <1>8, <1>9 DEF CursorsOfQuery, DeepPageHasItsCursor, Current

(* A step that starts no query and adds no cursor. *)
LEMMA NoQueryKeepsCursors ==
    ASSUME CursorsOfQuery, UNCHANGED <<query, size, latest, cursors>>,
           \A r \in requests' : r \in requests \/ r.stage = "retry"
    PROVE  CursorsOfQuery'
  BY DEF CursorsOfQuery, DeepPageHasItsCursor, Current

(* A query from the first page, and a refresh of what is on screen. *)
LEMMA FirstPageKeepsCursors ==
    ASSUME IInv, CursorsOfQuery, NEW q \in Query, NEW range \in Window, NEW s \in Size, NEW mode,
           NEW back \in Place \cup {None}, ExecuteQuery(q, range, 1, s, TRUE, mode, back),
           query' = q, size' = s
    PROVE  CursorsOfQuery'
<1>1. 1 \in Page /\ TRUE \in BOOLEAN
  BY ConstantsAssumption DEF Page
<1> QED BY <1>1, QueryKeepsCursors

LEMMA RefreshKeepsCursors ==
    ASSUME IInv, CursorsOfQuery, NEW mode, Refresh(mode), UNCHANGED asked
    PROVE  CursorsOfQuery'
<1>1. query \in Query /\ window \in Window /\ page \in Page /\ size \in Size
      /\ query' = query /\ size' = size /\ (page = 1) \in BOOLEAN
  BY DEF IInv, SearchTypeOK, asked
<1> QED BY <1>1, QueryKeepsCursors DEF Refresh

(* The first request of a page change keeps the page size it may go back to. *)
LEMMA UserKeepsCursors ==
    ASSUME IInv, CursorsOfQuery, UserAction
    PROVE  CursorsOfQuery'
<1>0. query \in Query /\ window \in Window /\ page \in Page /\ size \in Size
  BY DEF IInv, SearchTypeOK
<1>1. [page |-> page, size |-> size] \in Place
  BY <1>0 DEF Place
<1>2. ASSUME NEW q \in Query, ChangeFilter(q) PROVE CursorsOfQuery'
  BY <1>0, <1>2, FirstPageKeepsCursors DEF ChangeFilter
<1>3. ASSUME NEW q \in Query, NEW withRange \in BOOLEAN, RunSearch(q, withRange) PROVE CursorsOfQuery'
  <2>1. window' \in Window
    BY <1>0, <1>3 DEF RunSearch, Window
  <2> QED BY <1>0, <1>3, <2>1, FirstPageKeepsCursors DEF RunSearch
<1>4. ASSUME NEW w \in Window, ChangeWindow(w) PROVE CursorsOfQuery'
  <2>1. (IF window = "custom" THEN "custom" ELSE w) \in Window
    BY DEF Window
  <2> QED BY <1>0, <1>4, <2>1, FirstPageKeepsCursors DEF ChangeWindow
<1>5. CASE ToggleLive
  <2>1. CASE live \/ page = 1
    BY <1>5, <2>1, NoQueryKeepsCursors DEF ToggleLive, net
  <2>2. CASE ~(live \/ page = 1)
    BY <1>0, <1>5, <2>2, FirstPageKeepsCursors DEF ToggleLive
  <2> QED BY <2>1, <2>2
<1>6. ASSUME NEW p \in Page, ChangePage(p) PROVE CursorsOfQuery'
  <2>1. CASE p > MaxDirect /\ CursorsFor(p, cursors) = {}
    BY <1>6, <2>1, NoQueryKeepsCursors DEF ChangePage, net
  <2>2. CASE ~(p > MaxDirect /\ CursorsFor(p, cursors) = {})
    <3>1. ExecuteQuery(query, window, p, size, FALSE, "skip", [page |-> page, size |-> size])
          /\ query' = query /\ size' = size
      BY <1>6, <2>2 DEF ChangePage
    <3> QED BY <1>0, <1>1, <3>1, QueryKeepsCursors
  <2> QED BY <2>1, <2>2
<1>7. ASSUME NEW s \in Size, ChangeSize(s) PROVE CursorsOfQuery'
  BY <1>0, <1>1, <1>7, FirstPageKeepsCursors DEF ChangeSize
<1>8. CASE RetryQuery
  BY <1>8, RefreshKeepsCursors DEF RetryQuery
<1>9. CASE RetryHistogram
  BY <1>9, NoQueryKeepsCursors DEF RetryHistogram, asked
<1> QED BY <1>2, <1>3, <1>4, <1>5, <1>6, <1>7, <1>8, <1>9 DEF UserAction

LEMMA BrowserKeepsCursors ==
    ASSUME IInv, CursorsOfQuery, BrowserAction
    PROVE  CursorsOfQuery'
<1>0. window \in Window /\ size \in Size
  BY DEF IInv, SearchTypeOK
<1>1. ASSUME NEW q \in Query, NEW withRange \in BOOLEAN, StartupQuery(q, withRange) PROVE CursorsOfQuery'
  <2>1. window' \in Window
    BY <1>0, <1>1 DEF StartupQuery, Window
  <2> QED BY <1>0, <1>1, <2>1, FirstPageKeepsCursors DEF StartupQuery
<1>2. CASE LiveTick
  BY <1>2, NoQueryKeepsCursors, RefreshKeepsCursors DEF LiveTick, asked, net
<1>3. CASE Show
  BY <1>3, NoQueryKeepsCursors, RefreshKeepsCursors DEF Show, asked, net
<1>4. CASE Hide \/ UnmountSearch
  BY <1>4, NoQueryKeepsCursors DEF Hide, UnmountSearch, asked, net
<1> QED BY <1>1, <1>2, <1>3, <1>4 DEF BrowserAction

(* The end of the latest request, over cursors of the query on screen. *)
LEMMA EndKeepsCursors ==
    ASSUME IInv, NEW r \in requests, Current(r), NEW ok \in BOOLEAN, Finish(r, ok),
           \A c \in cursors' : c.query = query /\ c.size = size,
           ~ok /\ r.back # None => cursors' = {} \/ r.back.size = size
    PROVE  CursorsOfQuery'
<1>1. /\ latest' = latest /\ requests' = requests \ {r} /\ query' = query
      /\ \A x \in requests' : x.id = latest => ~Current(x)'
      /\ IF ~ok /\ r.back # None THEN page' = r.back.page /\ size' = r.back.size
         ELSE UNCHANGED <<page, size>>
  BY FinishSettles
<1>2. \A x \in requests' : x.id = latest' => x.stage = "retry"
  BY <1>1 DEF Current
<1>3. \A c \in cursors' : c.query = query' /\ c.size = size'
  BY <1>1
<1> QED BY <1>2, <1>3 DEF CursorsOfQuery, DeepPageHasItsCursor, Current

(* The end of the table's half: the request may go on with the histogram. *)
LEMMA TableKeepsCursors ==
    ASSUME IInv, NEW r \in requests, Current(r), BeforeRows(r), NEW ok \in BOOLEAN, AfterTable(r, ok),
           \A c \in cursors' : c.query = query /\ c.size = size,
           ~ok /\ r.back # None => cursors' = {} \/ r.back.size = size
    PROVE  CursorsOfQuery'
<1>1. CASE ~r.wantsHist
  <2>1. Finish(r, ok)
    BY <1>1 DEF AfterTable
  <2> QED BY <2>1, EndKeepsCursors
<1>2. CASE r.wantsHist
  <2> DEFINE h == [r EXCEPT !.stage = "hist", !.tableOk = ok]
  <2>1. /\ requests' = (requests \ {r}) \cup {h} /\ latest' = latest /\ query' = query /\ size' = size
    BY <1>2 DEF AfterTable
  <2>2. h.stage = "hist" /\ h.tableOk = ok /\ h.back = r.back
    BY DEF IInv, SearchTypeOK, SearchRequest
  <2> HIDE DEF h
  <2>3. \A x \in requests' : x = h \/ ~Current(x)'
    BY <2>1 DEF IInv, Numbers, Current
  <2>4. \A x \in requests' : x.id = latest' => x.stage # "table"
    BY <2>2, <2>3 DEF Current
  <2> QED BY <2>1, <2>2, <2>3, <2>4 DEF CursorsOfQuery, DeepPageHasItsCursor, BeforeRows
<1> QED BY <1>1, <1>2

(* Answers: the cursors they bring are those of the request, which asks for *)
(* what is on screen.                                                       *)
LEMMA AnswerKeepsCursors ==
    ASSUME IInv, CursorsOfQuery, NEW r \in requests, AnswerSearch(r)
    PROVE  CursorsOfQuery'
<1>0. /\ Current(r) => r.query = query /\ r.size = size
      /\ \A c \in cursors : c.query = query /\ c.size = size
      /\ TRUE \in BOOLEAN /\ FALSE \in BOOLEAN
  BY DEF IInv, AskedFor, Current, CursorsOfQuery
<1>1. ASSUME DropStale(r) PROVE CursorsOfQuery'
  BY <1>1, NoQueryKeepsCursors DEF DropStale, asked
<1>2. ASSUME CursorFound(r) PROVE CursorsOfQuery'
  <2> DEFINE at(p) == [page |-> p, query |-> r.query, size |-> r.size]
             t == [r EXCEPT !.stage = "table", !.cursor = at(r.page)]
  <2>1. /\ cursors' = {c \in cursors : c.page <= MaxDirect} \cup {at(p) : p \in MaxDirect + 1 .. r.page}
        /\ requests' = (requests \ {r}) \cup {t}
        /\ r.stage = "cursor" /\ Current(r)
        /\ UNCHANGED <<query, size, latest>>
    BY <1>2 DEF CursorFound, asked, Current
  <2>2. \A c \in cursors' : c.query = query /\ c.size = size
    BY <1>0, <2>1
  <2>3. /\ t.stage = "table" /\ t.cursor = [page |-> t.page, query |-> t.query, size |-> t.size]
        /\ t.back = r.back
    BY DEF IInv, SearchTypeOK, SearchRequest
  <2>4. r.back # None => r.back.size = size
    BY <2>1 DEF CursorsOfQuery
  <2> HIDE DEF t
  <2>5. \A x \in requests' : x = t \/ ~Current(x)'
    BY <2>1 DEF IInv, Numbers, Current
  <2> QED BY <2>1, <2>2, <2>3, <2>4, <2>5 DEF CursorsOfQuery, DeepPageHasItsCursor, Current
<1>3. ASSUME CursorMissing(r) PROVE CursorsOfQuery'
  <2>1. Current(r) /\ r.stage = "cursor" /\ Finish(r, FALSE) /\ cursors' = cursors
    BY <1>3 DEF CursorMissing, Current
  <2>2. r.back # None => r.back.size = size
    BY <2>1 DEF CursorsOfQuery
  <2> QED BY <1>0, <2>1, <2>2, EndKeepsCursors
<1>4. ASSUME NEW deep \in BOOLEAN, NEW more \in BOOLEAN, TableAnswer(r, deep, more) PROVE CursorsOfQuery'
  <2>1. Current(r) /\ BeforeRows(r) /\ AfterTable(r, TRUE)
    BY <1>4 DEF TableAnswer, Current, BeforeRows
  <2>2. \A c \in cursors' : c.query = query /\ c.size = size
    BY <1>0, <1>4, <2>1 DEF TableAnswer
  <2> QED BY <1>0, <2>1, <2>2, TableKeepsCursors
<1>5. ASSUME TableFailure(r) PROVE CursorsOfQuery'
  <2>1. Current(r) /\ BeforeRows(r) /\ AfterTable(r, FALSE) /\ cursors' = cursors
    BY <1>5 DEF TableFailure, Current, BeforeRows
  <2>2. r.back # None => cursors = {} \/ r.back.size = size
    BY <2>1 DEF CursorsOfQuery
  <2> QED BY <1>0, <2>1, <2>2, TableKeepsCursors
<1>6. ASSUME NEW ok \in BOOLEAN, HistogramAnswer(r, ok) PROVE CursorsOfQuery'
  <2>1. Current(r) /\ Finish(r, r.tableOk) /\ cursors' = cursors
    BY <1>6 DEF HistogramAnswer, Current
  <2>2. r.tableOk \in BOOLEAN
    BY DEF IInv, SearchTypeOK, SearchRequest
  <2>3. ~r.tableOk /\ r.back # None => cursors = {} \/ r.back.size = size
    BY <2>1 DEF CursorsOfQuery
  <2> QED BY <1>0, <2>1, <2>2, <2>3, EndKeepsCursors
<1>7. ASSUME NEW ok \in BOOLEAN, RetryAnswer(r, ok) PROVE CursorsOfQuery'
  BY <1>7, NoQueryKeepsCursors DEF RetryAnswer, asked
<1> QED BY <1>1, <1>2, <1>3, <1>4, <1>5, <1>6, <1>7 DEF AnswerSearch

LEMMA NextCursors == IInv /\ CursorsOfQuery /\ [SearchNext]_searchVars => CursorsOfQuery'
<1>1. UNCHANGED searchVars /\ CursorsOfQuery => CursorsOfQuery'
  BY NoQueryKeepsCursors DEF searchVars, asked, net
<1> QED BY <1>1, UserKeepsCursors, BrowserKeepsCursors, AnswerKeepsCursors DEF SearchNext

----------------------------------------------------------------------------
(* Theorems.                                                                *)

THEOREM InvariantHolds == SearchSpec => []IInv
  BY InitIInv, NextIInv, PTL DEF SearchSpec

(* The state of the page stays well-formed, for any number of requests. *)
THEOREM TypeCorrect == SearchSpec => []SearchTypeOK
<1>1. IInv => SearchTypeOK
  BY DEF IInv
<1> QED BY <1>1, InvariantHolds, PTL

(* However answers, user actions and tab switches interleave, a live page *)
(* always has its next refresh coming.                                    *)
THEOREM LivePageIsRefreshed == SearchSpec => []LiveKeepsPolling
<1>1. IInv => LiveKeepsPolling
  BY DEF IInv, Polling
<1> QED BY <1>1, InvariantHolds, PTL

(* The poll never runs beside a query, in a hidden tab or after the page. *)
THEOREM OneRefreshAtATime == SearchSpec => []TimerOnlyWhileIdle
<1>1. IInv => TimerOnlyWhileIdle
  BY DEF IInv, Polling
<1> QED BY <1>1, InvariantHolds, PTL

(* A settled table without alert shows the query, page and page size of   *)
(* the controls, for any number of superseded and failed requests.        *)
THEOREM SettledRowsAreAskedFor == SearchSpec => []RowsOfTheQuery
<1>1. IInv => RowsOfTheQuery
  <2>1. IInv /\ inflight = NoId => \A r \in requests : ~Current(r)
    BY DEF IInv, Numbers, SearchTypeOK, SearchRequest, RequestId, Current, NoId
  <2> QED BY <2>1 DEF IInv, Settled, RowsOfTheQuery
<1> QED BY <1>1, InvariantHolds, PTL

(* ... and the histogram beside it is drawn for the same query.           *)
THEOREM SettledHistogramIsAskedFor == SearchSpec => []HistogramOfTheQuery
<1>1. IInv => HistogramOfTheQuery
  BY DEF IInv, Drawn
<1> QED BY <1>1, InvariantHolds, PTL

(* A deep page is asked for with the cursor of its page, query and page   *)
(* size, also after failed page changes and superseded requests.          *)
THEOREM DeepPagesHaveTheirCursor == SearchSpec => []DeepPageHasItsCursor
<1>1. SearchInit => CursorsOfQuery
  BY DEF SearchInit, CursorsOfQuery, DeepPageHasItsCursor
<1>2. CursorsOfQuery => DeepPageHasItsCursor
  BY DEF CursorsOfQuery
<1> QED BY <1>1, <1>2, NextCursors, InvariantHolds, PTL DEF SearchSpec

(* No answer puts rows of an older request over those of a newer one.     *)
THEOREM RowsOnlyMoveForward == SearchSpec => RowsNeverGoBack
<1>1. IInv /\ [SearchNext]_searchVars => [shown' # shown => shown = None \/ shown'.id > shown.id]_searchVars
  <2> SUFFICES ASSUME IInv, [SearchNext]_searchVars, shown' # shown, shown # None PROVE shown'.id > shown.id
    OBVIOUS
  <2>1. ASSUME NEW r \in requests, NEW deep, NEW more, TableAnswer(r, deep, more)
        PROVE  shown'.id > shown.id
    <3>1. Current(r) /\ BeforeRows(r) /\ shown'.id = latest
      BY <2>1 DEF TableAnswer, Current, BeforeRows
    <3>2. shown.id < latest /\ latest \in Nat /\ shown.id \in Nat
      BY <3>1, ConstantsAssumption DEF IInv, Numbers, SearchTypeOK, Rows, RequestId
    <3> QED BY <3>1, <3>2
  <2>2. ASSUME NEW r \in requests, AnswerSearch(r) PROVE shown'.id > shown.id
    BY <2>1, <2>2 DEF AnswerSearch, DropStale, CursorFound, CursorMissing, TableFailure, HistogramAnswer,
       RetryAnswer, view
  <2>3. ASSUME UserAction PROVE FALSE
    BY <2>3 DEF UserAction, ChangeFilter, RunSearch, ChangeWindow, ToggleLive, ChangePage, ChangeSize,
       RetryQuery, RetryHistogram, Refresh, ExecuteQuery, view
  <2>4. ASSUME BrowserAction PROVE FALSE
    BY <2>4 DEF BrowserAction, StartupQuery, LiveTick, Hide, Show, UnmountSearch, Refresh, ExecuteQuery, view
  <2> QED BY <2>2, <2>3, <2>4 DEF SearchNext, searchVars, view
<1> QED BY <1>1, InvariantHolds, PTL DEF SearchSpec, RowsNeverGoBack
=============================================================================
