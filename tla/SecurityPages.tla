---------------------------- MODULE SecurityPages ----------------------------
(***************************************************************************)
(* pages/security/: UserManagement.tsx, RolePermissions.tsx, AuditLogs.tsx *)
(* and LoginPolicy.tsx.                                                    *)
(*                                                                         *)
(* The roles a form offers, the page of the signed-in user's own account   *)
(* and the reads that complete each row of the user list are left out.     *)
(***************************************************************************)
EXTENDS ConsolePage, Sequences

CloseOnly(w, kind) == IF w.ui.dialog # None /\ w.ui.dialog.kind = kind THEN Close(w) ELSE w

----------------------------------------------------------------------------
(* UserManagement.  The status of a user is whether the account is active   *)
(* and whether it has a role; "reserved" accounts cannot be changed.        *)

UserRights == {"create", "profile", "status", "grant", "revoke"}

Active(s) == s \in {"active", "activeBare"}
Bare(s) == s \in {"activeBare", "disabledBare"}

\* The server's answers to updateUser, disableUser, the batch, removeRole and
\* assignRole.
UserEffect(kind, s) ==
    IF s = "reserved" THEN "refused"
    ELSE CASE kind = "enable" -> IF Bare(s) THEN "activeBare" ELSE "active"
           [] kind = "disable" -> IF Bare(s) THEN "disabledBare" ELSE "disabled"
           [] kind = "revoke" -> IF Active(s) THEN "activeBare" ELSE "disabledBare"
           [] kind = "grant" -> IF Active(s) THEN "active" ELSE "disabled"
           [] OTHER -> s

LoadUsers(w, view, flag) == Await(w, "list", view, flag, "none")

\* handleCreateUser: the page change and the handler both read the list.
UserCreated(c, w) ==
    LET next == [CloseOnly(w, "create") EXCEPT !.ui.view = FirstView, !.ui.sel = {}]
        effect == IF w.ui.view = FirstView THEN next ELSE LoadUsers(next, FirstView, "none")
    IN  IF c.ok THEN LoadUsers(effect, FirstView, c.flag) ELSE Idle(w, c.flag)

\* handleEditUser: one request after the other; only the whole change counts
\* as made.
StartEdit(w, r, plan) ==
    LET next == Write(w, Head(plan), {r}, "act", "none")
    IN  [next EXCEPT !.calls = {IF c.id = next.ui.started THEN [c EXCEPT !.since = plan] ELSE c : c \in @}]

UserEdited(c, w) ==
    CASE ~c.ok -> Idle(w, c.flag)
      [] c.ok /\ Len(c.since) > 1 -> LET next == [w EXCEPT !.ui.known = ui.known]
                                     IN  StartEdit(next, CHOOSE r \in c.rows : TRUE, Tail(c.since))
      [] OTHER -> LoadUsers(CloseOnly(w, "edit"), c.of, c.flag)

\* updateSingleUserStatus: the drawer shows the new status at once.
StatusUpdated(c, w) ==
    LET r == CHOOSE r \in c.rows : TRUE
        drawer == w.ui.side.shown # None /\ w.ui.side.shown.of = r
        next == IF drawer
                THEN [w EXCEPT !.ui.side.shown.status[r] = IF c.kind = "enable" THEN "active" ELSE "disabled"]
                ELSE w
    IN  IF c.ok THEN LoadUsers(next, c.of, c.flag) ELSE Idle(w, c.flag)

\* handleBatchStatusChange.
BatchUpdated(c, w) ==
    IF c.done = {} THEN Idle(w, c.flag) ELSE LoadUsers([w EXCEPT !.ui.sel = {}], c.of, c.flag)

\* The answer of openDetailDrawer also replaces the row of the list.
DetailShown(c, w) ==
    LET r == c.of
        ok == c.ok /\ c.at.status[r] # "gone"
        next == AnsweredKeeping([c EXCEPT !.ok = ok], w)
    IN  IF ok /\ r \in RowsOf(w.ui.list) THEN [next EXCEPT !.ui.list.shown.status[r] = c.at.status[r]] ELSE next

UserManagementAnswer(c, w) ==
    CASE c.kind = "read" -> IF c.panel = "list" THEN Idle(Answered(c, w), c.flag) ELSE DetailShown(c, w)
      [] c.kind = "create" -> UserCreated(c, w)
      [] OTHER -> IF c.since # None THEN UserEdited(c, w)
                  ELSE IF c.flag = "batch" THEN BatchUpdated(c, w) ELSE StatusUpdated(c, w)

UserManagementMount(w) == LoadUsers(w, FirstView, "none")

OnUserManagement == page = "UserManagement" /\ ui.dialog = None
UserTable == OnUserManagement /\ ~ui.list.failed

\* The filters, their reset and the pagination.
ChangeUserView(v) ==
    /\ UserTable /\ v # ui.view
    /\ Become({LoadUsers([World EXCEPT !.ui.view = v, !.ui.sel = {}], v, "none")})

RefreshUsers ==
    /\ OnUserManagement
    /\ Become({LoadUsers([World EXCEPT !.ui.sel = {}], ui.view, "none")})

OpenCreateUser ==
    /\ UserTable /\ "create" \in grants
    /\ Become({Open(World, "create", None)})

CreateUser ==
    /\ page = "UserManagement" /\ Dialog("create") /\ "act" \notin ui.busy
    /\ Become({Write(World, "create", {}, "act", "none")})

\* openEditModal, from a row or from the drawer: the form keeps the record.
OpenEditUser(r) ==
    /\ page = "UserManagement" /\ grants \cap {"profile", "grant", "revoke"} # {}
    /\ LET record == IF Dialog("detail") THEN ui.side.shown ELSE ui.list.shown
       IN  /\ \/ UserTable /\ "act" \notin ui.busy /\ r \in Shown
              \/ Dialog("detail") /\ ~ui.side.loading /\ ~ui.side.failed /\ ui.side.shown.of = r
           /\ record.status[r] # "reserved"
           /\ Become({[Open(World, "edit", r) EXCEPT !.ui.held = record.status[r]]})

\* The requests an edit may need: canApplyPrimaryRoleChange.
EditPlans ==
    LET profile == IF "profile" \in grants THEN {<<>>, <<"update">>} ELSE {<<>>}
        role == {<<>>}
            \cup (IF Bare(ui.held) /\ "grant" \in grants THEN {<<"grant">>} ELSE {})
            \cup (IF ~Bare(ui.held) /\ "revoke" \in grants THEN {<<"revoke">>} ELSE {})
            \cup (IF ~Bare(ui.held) /\ {"grant", "revoke"} \subseteq grants THEN {<<"revoke", "grant">>} ELSE {})
    IN  {p \o q : p \in profile, q \in role} \ {<<>>}

EditUser ==
    /\ page = "UserManagement" /\ Dialog("edit") /\ "act" \notin ui.busy
    /\ \E plan \in EditPlans : Become({StartEdit(World, ui.dialog.row, plan)})

CloseUserDialog == page = "UserManagement" /\ ui.dialog # None /\ Become({Close(World)})

OpenDetail(r) ==
    /\ UserTable /\ r \in Shown
    /\ LET next == Load(Open(World, "detail", r), "side", r)
       IN  Become({[next EXCEPT !.ui.side.shown = [ui.list.shown EXCEPT !.of = r]]})

ToggleUser(r) ==
    /\ page = "UserManagement" /\ "status" \in grants
    /\ LET record == IF Dialog("detail") THEN ui.side.shown ELSE ui.list.shown
       IN  /\ \/ UserTable /\ "act" \notin ui.busy /\ r \in Shown
              \/ Dialog("detail") /\ ~ui.side.loading /\ ~ui.side.failed /\ ui.side.shown.of = r
           /\ record.status[r] # "reserved"
           /\ Become({Write(World, IF Active(record.status[r]) THEN "disable" ELSE "enable", {r}, "act", "none")})

\* rowSelection: the records are kept as they were when they were selected.
SelectUsers(rows) ==
    /\ UserTable /\ "status" \in grants /\ rows \subseteq Shown /\ rows # ui.sel
    /\ \A r \in rows : StatusOf(r) # "reserved"
    /\ Become({[World EXCEPT !.ui.sel = rows, !.ui.flight = [r \in rows |-> StatusOf(r)]]})

BatchUsers(kind) ==
    /\ page = "UserManagement" /\ ui.dialog = None /\ "status" \in grants /\ "batch" \notin ui.busy
    /\ LET rows == {r \in ui.sel : Active(ui.flight[r]) = (kind = "disable")}
       IN  rows # {} /\ Become({Write(World, kind, rows, "batch", "none")})

UserManagementNext ==
    \/ RefreshUsers \/ OpenCreateUser \/ CreateUser \/ EditUser \/ CloseUserDialog
    \/ \E v \in View : ChangeUserView(v)
    \/ \E r \in Row : OpenEditUser(r) \/ OpenDetail(r) \/ ToggleUser(r)
    \/ \E rows \in SUBSET Row : SelectUsers(rows)
    \/ \E kind \in {"enable", "disable"} : BatchUsers(kind)

----------------------------------------------------------------------------
(* RolePermissions: one list; a drawer shows what the list already has.     *)

LoadRoles(w) == Load(w, "list", FirstView)
RolePermissionsAnswer(c, w) == Answered(c, w)
RolePermissionsMount(w) == LoadRoles(w)

ReloadRoles ==
    /\ page = "RolePermissions" /\ (ui.list.failed \/ ~ui.list.loading) /\ ui.dialog = None
    /\ Become({LoadRoles(World)})

OpenRoleDrawer(r) ==
    /\ page = "RolePermissions" /\ r \in Shown /\ ui.dialog = None
    /\ Become({Open(World, "role", r)})

CloseRoleDrawer == page = "RolePermissions" /\ ui.dialog # None /\ Become({Close(World)})

RolePermissionsNext == ReloadRoles \/ CloseRoleDrawer \/ \E r \in Row : OpenRoleDrawer(r)

----------------------------------------------------------------------------
(* AuditLogs.  A view is the applied query with its page.                   *)

AuditRights == {"reserved", "export"}

\* loadData: joins the load that is in flight for the same parameters.  Only
\* the pagination has the same ones; a search ends at the time of the click.
LoadAudit(w, view, mode) ==
    IF mode = "paginate" /\ w.ui.flight # None /\ w.ui.flight.view = view THEN w
    ELSE LET next == Load(w, "list", view)
         IN  [next EXCEPT !.ui.flight = [view |-> view, id |-> next.ui.started]]

\* The branch of loadData for a reserved name the user may not search: it does
\* not take over from a load in flight.
DenyAudit(w) == [w EXCEPT !.ui.list.failed = TRUE, !.ui.list.shown = None]

\* The page is set with the rows; the error of a denial stays.
AuditAnswered(c, w) ==
    LET own == w.ui.flight # None /\ w.ui.flight.view = c.of
        next == AnsweredLatest(c, IF own THEN [w EXCEPT !.ui.flight = None] ELSE w)
        latest == w.ui.list.latest = c.id
    IN  [next EXCEPT !.ui.list.failed = @ \/ w.ui.list.failed,
                     !.ui.view = IF latest /\ c.ok THEN c.of ELSE @]

AuditLogsAnswer(c, w) == IF c.kind = "read" THEN AuditAnswered(c, w) ELSE Idle(w, c.flag)

AuditLogsMount(w) == LoadAudit(w, FirstView, "replace")

\* handleSearch, handleReset and applyGovernanceQuickFilter.
SearchAudit(v) ==
    /\ page = "AuditLogs" /\ (v = FirstView \/ ~ui.list.loading)
    /\ Become({LoadAudit(World, v, "replace")})

SearchReserved ==
    /\ page = "AuditLogs" /\ "reserved" \notin grants /\ ~ui.list.loading
    /\ Become({DenyAudit(World)})

TurnAudit(v) ==
    /\ page = "AuditLogs" /\ v # ui.view
    /\ Become({LoadAudit(World, v, "paginate")})

\* handleExportAuditLogs.
ExportAudit ==
    /\ page = "AuditLogs" /\ "export" \in grants /\ "export" \notin ui.busy
    /\ Become({Write(World, "export", {}, "export", "none")})

AuditLogsNext == SearchReserved \/ ExportAudit \/ \E v \in View : SearchAudit(v) \/ TurnAudit(v)

----------------------------------------------------------------------------
(* LoginPolicy.  held is the form: the settings it was last set to, and     *)
(* whether the user has changed them since.  The tenant's policy is Policy. *)

PolicyRights == {"read", "update"}

Policy == CHOOSE r \in Listed[FirstView] : TRUE

FormOf(settings) == [from |-> settings, edited |-> FALSE]
Defaults == FormOf("default")

\* updateLoginPolicy: what a saved form contains.
PolicyEffect(kind, s) == kind

\* The effect that loads the policy; the form has the defaults before that.
LoadPolicy(w) ==
    LET next == [w EXCEPT !.ui.held = Defaults]
    IN  IF "read" \in grants THEN Load(next, "list", FirstView) ELSE next

\* The answer of the load, or of a save, replaces the form.
PolicyAnswer(c, w) ==
    IF c.kind = "read"
    THEN LET next == AnsweredKeeping(c, w)
         IN  IF c.ok THEN [next EXCEPT !.ui.held = FormOf("tenant")] ELSE next
    ELSE LET saved == Snapshot(w, FirstView)
         IN  IF c.ok THEN [Idle(w, c.flag) EXCEPT !.ui.held = FormOf("tenant"), !.ui.list.shown = saved]
             ELSE Idle(w, c.flag)

EditPolicy ==
    /\ page = "LoginPolicy" /\ ~ui.held.edited
    /\ Become({[World EXCEPT !.ui.held.edited = TRUE]})

\* handleReset: the user asks for the defaults.
ResetPolicy ==
    /\ page = "LoginPolicy"
    /\ Become({[World EXCEPT !.ui.held = [from |-> "reset", edited |-> TRUE]]})

SavePolicy ==
    /\ page = "LoginPolicy" /\ "update" \in grants /\ ui.held.edited
    /\ "save" \notin ui.busy
    /\ Become({Write(World, ui.held.from, {Policy}, "save", "none")})

LoginPolicyNext == EditPolicy \/ ResetPolicy \/ SavePolicy
=============================================================================
