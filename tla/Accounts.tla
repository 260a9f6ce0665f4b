------------------------------ MODULE Accounts ------------------------------
(***************************************************************************)
(* The accounts of a tenant's users and the roles they hold (UsersService, *)
(* RolesService, and the trash for users). A caller who holds user.update  *)
(* may manage anybody; another may manage the staff of the department it   *)
(* leads, with the roles that are marked delegable. Sessions and passwords *)
(* are in AuthSessions; profile fields are left out.                       *)
(***************************************************************************)
EXTENDS Handlers

CONSTANTS
  Accounts,     \* ids of users
  Roles,        \* ids of roles
  SystemRoles,  \* the ones the seed creates; the code refuses to change them
  Departments   \* ids of department records

VARIABLES
  account,  \* id -> its row; leads is departmentRole = "leader"
  role,     \* id -> its row, which is deleted for good
  grants    \* user -> the roles of its userRoles rows

accounts == <<account, role, grants>>

AccountsInit ==
  /\ account = [u \in Accounts |->
       [state |-> "absent", active |-> FALSE, locked |-> FALSE, dept |-> None, leads |-> FALSE]]
  /\ role = [r \in Roles |->
       [state |-> IF r \in SystemRoles THEN "live" ELSE "absent", delegable |-> FALSE]]
  /\ grants = [u \in Accounts |-> {}]

Present(u) == account[u].state = "live"

(* What the foreign keys of userRoles demand. *)
Grantable(rs) == \A r \in rs : role[r].state = "live"

SetAccount(u, row) == account' = [account EXCEPT ![u] = row] /\ UNCHANGED <<role, grants>>
SetGrants(u, rs) == grants' = [grants EXCEPT ![u] = rs] /\ UNCHANGED <<account, role>>

(* JwtStrategy.validate: who may call at all. *)
MayCall(u) == Present(u) /\ account[u].active /\ ~account[u].locked

-----------------------------------------------------------------------------
(* Callers. None is one who holds user.update or is a platform admin.      *)

(* findOne of the target; what depends on it goes to the next call. *)
Resolve(p, u, caller, next, asked) ==
  /\ Present(u)
  /\ caller # None => MayCall(caller)
  /\ Enter(p, IF caller = None THEN next ELSE "delegate.check",
           [id |-> u, caller |-> caller, dept |-> account[u].dept, uses |-> {u},
            next |-> next, asked |-> asked])
  /\ UNCHANGED accounts

(* Mutant: any department will do. *)
CheckDelegate_AnyDepartment(p) ==
  /\ At(p, "delegate.check")
  /\ LET fr == frame[p] IN
     /\ account[fr.caller].leads /\ account[fr.caller].dept # None
     /\ Proceed(p, IF fr.next = "roles.delete" THEN "roles.check" ELSE fr.next,
                [fr EXCEPT !.uses = @ \cup {fr.caller}])
  /\ UNCHANGED accounts

(* assertDepartmentDelegation: the caller's row is read after the target's. *)
CheckDelegate(p) ==
  /\ At(p, "delegate.check")
  /\ LET fr == frame[p] IN
     /\ account[fr.caller].leads /\ account[fr.caller].dept # None
     /\ fr.dept = account[fr.caller].dept
     /\ Proceed(p, IF fr.next = "roles.delete" THEN "roles.check" ELSE fr.next,
                [fr EXCEPT !.uses = @ \cup {fr.caller}])
  /\ UNCHANGED accounts

-----------------------------------------------------------------------------
(* assignRoles: [check the roles,] delete all of the user's, insert the new. *)

AssignRoles(p, u, rs, caller) ==
  Resolve(p, u, caller, "roles.delete", [roles |-> rs])

CheckDelegable(p) ==
  /\ At(p, "roles.check")
  /\ \A r \in frame[p].asked.roles : role[r].state = "live" /\ role[r].delegable
  /\ Proceed(p, "roles.delete", [frame[p] EXCEPT !.uses = @ \cup frame[p].asked.roles])
  /\ UNCHANGED accounts

(* Mutant: the roles of the user are left. *)
DeleteGrants_None(p) ==
  /\ At(p, "roles.delete")
  /\ Goto(p, "roles.insert")
  /\ UNCHANGED accounts

DeleteGrants(p) ==
  /\ At(p, "roles.delete")
  /\ SetGrants(frame[p].id, {})
  /\ Goto(p, "roles.insert")

(* One statement: all rows, or none when a role is gone or held already. *)
InsertGrants(p) ==
  /\ At(p, "roles.insert")
  /\ LET fr == frame[p] IN
     /\ Grantable(fr.asked.roles) /\ grants[fr.id] \cap fr.asked.roles = {}
     /\ SetGrants(fr.id, grants[fr.id] \cup fr.asked.roles)
  /\ Finish(p)

-----------------------------------------------------------------------------
(* The other operations on an account: find, [check,] write by id. *)

ActivateAccount(p, u, caller)   == Resolve(p, u, caller, "account.activate", None)
DeactivateAccount(p, u, caller) == Resolve(p, u, caller, "account.deactivate", None)
LockAccount(p, u, caller)       == Resolve(p, u, caller, "account.lock", None)
UnlockAccount(p, u, caller)     == Resolve(p, u, caller, "account.unlock", None)
DeleteAccount(p, u)             == Resolve(p, u, None, "account.delete", None)

MoveDepartment(p, u, d, caller) ==
  Resolve(p, u, caller, "account.move", [to |-> d])

(* Mutant: a deleted account stays active. *)
Written_ActiveDeleted(row, fr, label) ==
  CASE label = "account.activate"   -> [row EXCEPT !.active = TRUE]
    [] label = "account.deactivate" -> [row EXCEPT !.active = FALSE]
    [] label = "account.lock"       -> [row EXCEPT !.locked = TRUE]
    [] label = "account.unlock"     -> [row EXCEPT !.locked = FALSE]
    [] label = "account.delete"     -> [row EXCEPT !.state = "deleted"]
    [] label = "account.move"       -> [row EXCEPT !.dept = fr.asked.to, !.leads = FALSE]

Written(row, fr, label) ==
  CASE label = "account.activate"   -> [row EXCEPT !.active = TRUE]
    [] label = "account.deactivate" -> [row EXCEPT !.active = FALSE]
    [] label = "account.lock"       -> [row EXCEPT !.locked = TRUE]
    [] label = "account.unlock"     -> [row EXCEPT !.locked = FALSE]
    [] label = "account.delete"     -> [row EXCEPT !.state = "deleted", !.active = FALSE]
    [] label = "account.move"       -> [row EXCEPT !.dept = fr.asked.to, !.leads = FALSE]

AccountLabels ==
  {"account.activate", "account.deactivate", "account.lock", "account.unlock",
   "account.delete", "account.move"}

WriteAccount(p) ==
  /\ pc[p] \in AccountLabels
  /\ SetAccount(frame[p].id, Written(account[frame[p].id], frame[p], pc[p]))
  /\ Finish(p)

(* update may set the department, and replaces the roles in the same       *)
(* transaction.                                                            *)
Update(p, u, d, leads, rs) ==
  Resolve(p, u, None, "account.update", [to |-> d, leads |-> leads, roles |-> rs])

WriteUpdate(p) ==
  /\ At(p, "account.update")
  /\ LET u == frame[p].id  asked == frame[p].asked IN
     /\ asked.roles # Same => Grantable(asked.roles)
     /\ account' = [account EXCEPT ![u].dept = Or(asked.to, @), ![u].leads = Or(asked.leads, @)]
     /\ grants' = [grants EXCEPT ![u] = Or(asked.roles, @)]
  /\ Finish(p)
  /\ UNCHANGED role

(* The unique key on the address has the last word in the code, an unused  *)
(* id here; the row and its roles are one statement. Whether a caller may  *)
(* register users into a branch only refuses, and is left out.             *)
CreateAccount(p, u, d, leads, rs) ==
  /\ AtOnce(p)
  /\ account[u].state = "absent" /\ Grantable(rs)
  /\ account' = [account EXCEPT ![u] =
       [state |-> "live", active |-> TRUE, locked |-> FALSE, dept |-> d, leads |-> leads]]
  /\ grants' = [grants EXCEPT ![u] = rs]
  /\ UNCHANGED role

RestoreAccount(p, u) ==
  /\ AtOnce(p)
  /\ account[u].state = "deleted"
  /\ SetAccount(u, [account[u] EXCEPT !.state = "live", !.active = TRUE])

-----------------------------------------------------------------------------
(* Roles. isSystem never changes: reading it first makes no difference.    *)

CreateRole(p, r, delegable) ==
  /\ AtOnce(p)
  /\ role[r].state = "absent"
  /\ role' = [role EXCEPT ![r] = [state |-> "live", delegable |-> delegable]]
  /\ UNCHANGED <<account, grants>>

UpdateRole(p, r) ==
  /\ AtOnce(p)
  /\ role[r].state = "live" /\ r \notin SystemRoles
  /\ role' = [role EXCEPT ![r].delegable = ~@]
  /\ UNCHANGED <<account, grants>>

(* The userRoles rows go with it (onDelete: Cascade). *)
RemoveRole(p, r) ==
  /\ AtOnce(p)
  /\ role[r].state = "live" /\ r \notin SystemRoles
  /\ role' = [role EXCEPT ![r].state = "deleted"]
  /\ grants' = [u \in Accounts |-> grants[u] \ {r}]
  /\ UNCHANGED account

-----------------------------------------------------------------------------
Assignable == (SUBSET Roles) \ {{}}   \* @ArrayNotEmpty
Places == Departments \cup {None}

RoleRoutes(p) ==
  \E r \in Roles : (\E d \in BOOLEAN : CreateRole(p, r, d)) \/ UpdateRole(p, r) \/ RemoveRole(p, r)

(* Callers who may manage anybody give and take roles. *)
GrantRoutes(p, u) ==
  \/ \E rs \in SUBSET Roles : CreateAccount(p, u, None, FALSE, rs) \/ Update(p, u, Same, Same, rs)
  \/ \E rs \in Assignable : AssignRoles(p, u, rs, None)

Hire(p) ==
  \E u \in Accounts, d \in Places, leads \in BOOLEAN :
    (leads => d # None) /\ CreateAccount(p, u, d, leads, {})

(* A leader gives roles, which come and go. *)
DelegationRoutes(p, caller) ==
  \/ Hire(p)
  \/ \E r \in Roles, d \in BOOLEAN : CreateRole(p, r, d) \/ UpdateRole(p, r)
  \/ \E u \in Accounts, rs \in Assignable : AssignRoles(p, u, rs, caller)

(* A leader manages staff, and both change departments. *)
StaffRoutes(p, caller) ==
  \/ Hire(p)
  \/ \E u \in Accounts :
       \/ \E leads \in BOOLEAN : Update(p, u, Same, leads, Same)
       \/ \E d \in Places, c \in {caller, None} : MoveDepartment(p, u, d, c)

LifecycleRoutes(p, u, caller) ==
  \/ CreateAccount(p, u, None, FALSE, {}) \/ DeleteAccount(p, u) \/ RestoreAccount(p, u)
  \/ ActivateAccount(p, u, caller) \/ DeactivateAccount(p, u, caller)
  \/ LockAccount(p, u, caller) \/ UnlockAccount(p, u, caller)

AccountRoutes(p) ==
  \/ RoleRoutes(p) \/ Hire(p)
  \/ \E u \in Accounts :
       \/ GrantRoutes(p, u) \/ DelegationRoutes(p, u) \/ StaffRoutes(p, u)
       \/ \E d \in Places, leads \in BOOLEAN, rs \in (SUBSET Roles) \cup {Same} : Update(p, u, d, leads, rs)
       \/ \E c \in Accounts \cup {None} : LifecycleRoutes(p, u, c)

ContinueAccounts(p) ==
  \/ CheckDelegate(p) \/ CheckDelegable(p) \/ DeleteGrants(p) \/ InsertGrants(p)
  \/ WriteAccount(p) \/ WriteUpdate(p)
  \/ (Fail(p) /\ UNCHANGED accounts)

AccountsChanged ==
  ChangedIn(account, account') \cup ChangedIn(role, role') \cup ChangedIn(grants, grants')

AccountsNext ==
  /\ \E p \in Procs : AccountRoutes(p) \/ ContinueAccounts(p)
  /\ Watch(AccountsChanged)

AccountsSpec == HandlersInit /\ AccountsInit /\ [][AccountsNext]_<<pc, frame, stale, accounts>>

-----------------------------------------------------------------------------
(* Properties *)

(* A deleted account is not active, unless it was deleted under a handler  *)
(* that went on to write it: AuthService.refresh asks for isActive and     *)
(* never for deletedAt, so this is what ends the sessions of the deleted.  *)
DeletedIsInactive ==
  \A u \in Accounts : account[u].state = "deleted" => ~account[u].active \/ u \in stale

(* Roles are deleted and inserted in two calls; still a user who is given  *)
(* roles then holds those of the one request that gave them, and no other, *)
(* unless the user changed under that request.                             *)
RolesOfOneRequest ==
  [][\A u \in Accounts : ~(grants'[u] \subseteq grants[u]) =>
       \/ account[u].state = "absent" \/ u \in stale'
       \/ \E p \in Procs : /\ pc[p] # "idle" /\ pc'[p] = "idle"
                           /\ frame[p].id = u /\ grants'[u] = frame[p].asked.roles]_grants

DelegableLabels == AccountLabels \cup {"delegate.check", "roles.check", "roles.delete", "roles.insert"}

(* What a department leader does to an account happens to staff of the     *)
(* department it then leads, and gives no role that is not then delegable, *)
(* unless one of the rows changed after the handler had read it.           *)
DelegatesStayWithin ==
  [][\A p \in Procs : pc[p] \in DelegableLabels /\ frame[p].caller # None =>
       \/ UNCHANGED <<account, grants>> \/ pc'[p] = pc[p]
       \/ ~Fresh(frame[p].uses)
       \/ LET u == frame[p].id  c == frame[p].caller IN
          /\ account[c].leads /\ account[u].dept = account[c].dept
          /\ \A r \in grants'[u] \ grants[u] : role[r].delegable]_<<account, grants, pc>>
=============================================================================
