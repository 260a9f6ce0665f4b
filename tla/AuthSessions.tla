--------------------------- MODULE AuthSessions ---------------------------
(***************************************************************************)
(* The device sessions of one user: refresh tokens issued at login and at  *)
(* a switch of tenant, rotated by refresh, and revoked by logout, by a     *)
(* password reset, by an administrator's lock and by the limit on          *)
(* concurrent sessions. (AuthService, and the account operations of        *)
(* UsersService.)                                                          *)
(*                                                                         *)
(* A handler is one action per database call that reads or writes the      *)
(* account, a refresh token or a reset token; no transaction spans two of  *)
(* them. Calls that only stamp lastLoginAt or write the audit log are left *)
(* out, as nothing here reads them, and so are passwords and MFA codes: a  *)
(* wrong one ends the handler before it changes anything.                  *)
(***************************************************************************)
EXTENDS Naturals, FiniteSets

CONSTANTS
  MaxTokens,     \* bound on the refresh tokens ever issued
  MaxAged,       \* bound on the tokens that go idle or expire
  MaxSessions,   \* maxConcurrentSessions, 0 when the tenant sets no limit
  ResetTokens,   \* password reset tokens
  Procs,         \* concurrent handlers
  NoRow          \* "the row does not exist"

ASSUME LimitAssumption == MaxTokens \in Nat /\ MaxAged \in Nat /\ MaxSessions \in Nat

Tokens == 1..MaxTokens   \* in the order of their createdAt

(* idle: unused for longer than inactivityLogoutMinutes. parent is history: *)
(* the token a refresh presented to get this one, 0 for a fresh login.     *)
Row == [parent : 0..MaxTokens, replacedBy : 0..MaxTokens, revoked : BOOLEAN,
        age : {"fresh", "idle", "expired"}]

ASSUME RowAssumption == NoRow \notin Row /\ NoRow \notin ResetTokens

VARIABLES
  account,  \* isActive, lockedAt and deletedAt of the user
  token,    \* refresh token -> its row, or NoRow
  minted,   \* how many refresh tokens were issued
  reset,    \* reset token -> "absent", "unused" or "used"
  applied,  \* history: the reset tokens whose new password was written
  pc,       \* handler -> the database call it makes next
  frame     \* handler -> its locals

vars == <<account, token, minted, reset, applied, pc, frame>>

IssueLabels == {"issue.active", "issue.revoke", "issue.create"}
Labels == IssueLabels \cup
  {"idle", "refresh.idle", "refresh.user", "refresh.revoke",
   "reset.password", "reset.used", "revoke.all", "activate.update"}

(* old is the token presented to refresh, new the one that replaces it. *)
Frame == [old : 0..MaxTokens, new : 0..MaxTokens, evict : SUBSET Tokens,
          key : ResetTokens \cup {NoRow}]
Blank == [old |-> 0, new |-> 0, evict |-> {}, key |-> NoRow]

(* Rows are well formed, tokens are issued in order, and a handler that is *)
(* about to revoke a token holds one.                                      *)
TypeOK ==
  /\ account \in [active : BOOLEAN, locked : BOOLEAN, deleted : BOOLEAN]
  /\ minted \in 0..MaxTokens
  /\ token \in [Tokens -> Row \cup {NoRow}]
  /\ \A t \in Tokens : token[t] # NoRow <=> t <= minted
  /\ reset \in [ResetTokens -> {"absent", "unused", "used"}]
  /\ applied \subseteq ResetTokens
  /\ pc \in [Procs -> Labels]
  /\ frame \in [Procs -> Frame]
  /\ \A p \in Procs :
       /\ frame[p].old <= minted /\ frame[p].new <= minted
       /\ \A t \in frame[p].evict : t <= minted
       /\ pc[p] \in {"refresh.idle", "refresh.user", "refresh.revoke"} => frame[p].old # 0
       /\ pc[p] = "refresh.revoke" => frame[p].new # 0
       /\ pc[p] \in {"reset.password", "reset.used"} => frame[p].key # NoRow

Init ==
  /\ account = [active |-> TRUE, locked |-> FALSE, deleted |-> FALSE]
  /\ token = [t \in Tokens |-> NoRow]
  /\ minted = 0
  /\ reset = [k \in ResetTokens |-> "absent"]
  /\ applied = {}
  /\ pc = [p \in Procs |-> "idle"]
  /\ frame = [p \in Procs |-> Blank]

Goto(p, label)     == pc' = [pc EXCEPT ![p] = label]
Enter(p, label, f) == pc[p] = "idle" /\ Goto(p, label) /\ frame' = [frame EXCEPT ![p] = f]
Finish(p)          == Goto(p, "idle") /\ frame' = [frame EXCEPT ![p] = Blank]

Unrevoked(t) == token[t] # NoRow /\ ~token[t].revoked
Live         == {t \in Tokens : Unrevoked(t) /\ token[t].age # "expired"}
RevokeThe(T) == token' = [t \in Tokens |-> IF t \in T THEN [token[t] EXCEPT !.revoked = TRUE]
                                                     ELSE token[t]]

-----------------------------------------------------------------------------
(* login and switchTenant, and the session they issue *)

SignIn(p) ==
  /\ account.active /\ ~account.locked /\ ~account.deleted
  /\ Enter(p, "issue.active", Blank)
  /\ UNCHANGED <<account, token, minted, reset, applied>>

Oldest(T, n) == {t \in T : Cardinality({u \in T : u < t}) < n}

(* Room for one more: all but MaxSessions - 1 of the live sessions go. *)
Overflow == IF MaxSessions = 0 \/ Cardinality(Live) < MaxSessions
              THEN {} ELSE Oldest(Live, Cardinality(Live) - (MaxSessions - 1))

IssueActive(p) ==
  /\ pc[p] = "issue.active"
  /\ frame' = [frame EXCEPT ![p].evict = Overflow]
  /\ Goto(p, IF Overflow = {} THEN "issue.create" ELSE "issue.revoke")
  /\ UNCHANGED <<account, token, minted, reset, applied>>

IssueRevoke(p) ==
  /\ pc[p] = "issue.revoke"
  /\ RevokeThe(frame[p].evict)
  /\ Goto(p, "issue.create")
  /\ frame' = [frame EXCEPT ![p].evict = {}]
  /\ UNCHANGED <<account, minted, reset, applied>>

(* The end of a login; a refresh goes on to revoke the token it replaces. *)
IssueCreate(p) ==
  /\ pc[p] = "issue.create"
  /\ minted < MaxTokens
  /\ minted' = minted + 1
  /\ token' = [token EXCEPT ![minted + 1] =
                 [parent |-> frame[p].old, replacedBy |-> 0, revoked |-> FALSE, age |-> "fresh"]]
  /\ IF frame[p].old = 0
       THEN Finish(p)
       ELSE Goto(p, "refresh.revoke") /\ frame' = [frame EXCEPT ![p].new = minted + 1]
  /\ UNCHANGED <<account, reset, applied>>

-----------------------------------------------------------------------------
(* refresh: find the presented token, check the user, issue, revoke. *)

Refresh(p, t) ==
  /\ t \in Live
  /\ Enter(p, IF token[t].age = "idle" THEN "refresh.idle" ELSE "refresh.user",
           [Blank EXCEPT !.old = t])
  /\ UNCHANGED <<account, token, minted, reset, applied>>

RefreshIdle(p) ==
  /\ pc[p] = "refresh.idle"
  /\ RevokeThe({frame[p].old})
  /\ Finish(p)
  /\ UNCHANGED <<account, minted, reset, applied>>

(* Mutant: a lock is not looked at. *)
RefreshUser_LockUnchecked(p) ==
  /\ pc[p] = "refresh.user"
  /\ IF account.active THEN Goto(p, "issue.create") /\ UNCHANGED frame ELSE Finish(p)
  /\ UNCHANGED <<account, token, minted, reset, applied>>

(* Mutant: enforceMaxConcurrent is left at its default. *)
RefreshUser_Counted(p) ==
  /\ pc[p] = "refresh.user"
  /\ IF account.active /\ ~account.locked
       THEN Goto(p, "issue.active") /\ UNCHANGED frame
       ELSE Finish(p)
  /\ UNCHANGED <<account, token, minted, reset, applied>>

(* Unlike login, deletedAt is not looked at; and the limit is not enforced. *)
RefreshUser(p) ==
  /\ pc[p] = "refresh.user"
  /\ IF account.active /\ ~account.locked
       THEN Goto(p, "issue.create") /\ UNCHANGED frame
       ELSE Finish(p)
  /\ UNCHANGED <<account, token, minted, reset, applied>>

(* Mutant: the replacement is looked up as the user's newest token. *)
RefreshRevoke_Newest(p) ==
  /\ pc[p] = "refresh.revoke"
  /\ token' = [token EXCEPT ![frame[p].old].revoked = TRUE, ![frame[p].old].replacedBy = minted]
  /\ Finish(p)
  /\ UNCHANGED <<account, minted, reset, applied>>

(* By id: another refresh may have revoked and replaced the token already. *)
RefreshRevoke(p) ==
  /\ pc[p] = "refresh.revoke"
  /\ token' = [token EXCEPT ![frame[p].old].revoked = TRUE,
                            ![frame[p].old].replacedBy = frame[p].new]
  /\ Finish(p)
  /\ UNCHANGED <<account, minted, reset, applied>>

-----------------------------------------------------------------------------
(* logout and revokeSession, logoutAll, and the passing of time *)

Logout(t) ==
  /\ Unrevoked(t)
  /\ RevokeThe({t})
  /\ UNCHANGED <<account, minted, reset, applied, pc, frame>>

LogoutAll ==
  /\ RevokeThe({t \in Tokens : Unrevoked(t)})
  /\ UNCHANGED <<account, minted, reset, applied, pc, frame>>

(* The age of a revoked token makes no difference any more. *)
Age(t) ==
  /\ Unrevoked(t)
  /\ Cardinality({u \in 1..minted : token[u].age # "fresh"} \cup {t}) <= MaxAged
  /\ \E a \in {"idle", "expired"} :
       /\ token[t].age = "fresh" \/ a = "expired"
       /\ token' = [token EXCEPT ![t].age = a]
  /\ UNCHANGED <<account, minted, reset, applied, pc, frame>>

-----------------------------------------------------------------------------
(* forgotPassword, and resetPassword: find the token, write the password,  *)
(* mark the token used, revoke the sessions. An expired reset token is one *)
(* that nobody presents any more.                                          *)

ForgotPassword(k) ==
  /\ reset[k] = "absent"
  /\ account.active /\ ~account.deleted
  /\ reset' = [reset EXCEPT ![k] = "unused"]
  /\ UNCHANGED <<account, token, minted, applied, pc, frame>>

(* Mutant: the token is marked used as soon as it is found. *)
ResetPassword_Claim(p, k) ==
  /\ reset[k] = "unused"
  /\ reset' = [reset EXCEPT ![k] = "used"]
  /\ Enter(p, "reset.password", [Blank EXCEPT !.key = k])
  /\ UNCHANGED <<account, token, minted, applied>>

ResetPassword(p, k) ==
  /\ reset[k] = "unused"
  /\ Enter(p, "reset.password", [Blank EXCEPT !.key = k])
  /\ UNCHANGED <<account, token, minted, reset, applied>>

ResetWrite(p) ==
  /\ pc[p] = "reset.password"
  /\ applied' = applied \cup {frame[p].key}
  /\ Goto(p, "reset.used")
  /\ UNCHANGED <<account, token, minted, reset, frame>>

ResetUsed(p) ==
  /\ pc[p] = "reset.used"
  /\ reset' = [reset EXCEPT ![frame[p].key] = "used"]
  /\ Goto(p, "revoke.all") /\ frame' = [frame EXCEPT ![p] = Blank]
  /\ UNCHANGED <<account, token, minted, applied>>

(* The last call of resetPassword, lock and forcePasswordReset. *)
RevokeAll(p) ==
  /\ pc[p] = "revoke.all"
  /\ RevokeThe({t \in Tokens : Unrevoked(t)})
  /\ Finish(p)
  /\ UNCHANGED <<account, minted, reset, applied>>

-----------------------------------------------------------------------------
(* The account. The operations that read it first refuse a deleted user;   *)
(* only for activate does it matter that the user may be deleted between   *)
(* the read and the write.                                                 *)

SetAccount(a) == account' = a /\ UNCHANGED <<token, minted, reset, applied>>

Lock(p) ==
  /\ ~account.deleted
  /\ Enter(p, "revoke.all", Blank)
  /\ SetAccount([account EXCEPT !.locked = TRUE])

(* The password is written first. *)
ForcePasswordReset(p) ==
  /\ ~account.deleted
  /\ Enter(p, "revoke.all", Blank)
  /\ SetAccount(account)

Unlock ==
  /\ account.locked /\ ~account.deleted
  /\ SetAccount([account EXCEPT !.locked = FALSE])
  /\ UNCHANGED <<pc, frame>>

Deactivate ==
  /\ account.active /\ ~account.deleted
  /\ SetAccount([account EXCEPT !.active = FALSE])
  /\ UNCHANGED <<pc, frame>>

Activate(p) ==
  /\ ~account.active /\ ~account.deleted
  /\ Enter(p, "activate.update", Blank)
  /\ SetAccount(account)

ActivateUpdate(p) ==
  /\ pc[p] = "activate.update"
  /\ Finish(p)
  /\ SetAccount([account EXCEPT !.active = TRUE])

SoftDelete ==
  /\ ~account.deleted
  /\ SetAccount([account EXCEPT !.deleted = TRUE, !.active = FALSE])
  /\ UNCHANGED <<pc, frame>>

(* TrashService.restore *)
Restore ==
  /\ account.deleted
  /\ SetAccount([account EXCEPT !.deleted = FALSE, !.active = TRUE])
  /\ UNCHANGED <<pc, frame>>

-----------------------------------------------------------------------------
(* A handler dies between two database calls. *)
Fail(p) ==
  /\ pc[p] # "idle"
  /\ Finish(p)
  /\ UNCHANGED <<account, token, minted, reset, applied>>

Begin(p) ==
  \/ SignIn(p) \/ \E t \in Tokens : Refresh(p, t)
  \/ \E k \in ResetTokens : ResetPassword(p, k)
  \/ Lock(p) \/ ForcePasswordReset(p) \/ Activate(p)

Continue(p) ==
  \/ IssueActive(p) \/ IssueRevoke(p) \/ IssueCreate(p)
  \/ RefreshIdle(p) \/ RefreshUser(p) \/ RefreshRevoke(p)
  \/ ResetWrite(p) \/ ResetUsed(p) \/ RevokeAll(p) \/ ActivateUpdate(p)

Next ==
  \/ \E p \in Procs : Begin(p) \/ Continue(p) \/ Fail(p)
  \/ \E t \in Tokens : Logout(t) \/ Age(t)
  \/ \E k \in ResetTokens : ForgotPassword(k)
  \/ LogoutAll \/ Unlock \/ Deactivate \/ SoftDelete \/ Restore

Spec == Init /\ [][Next]_vars

-----------------------------------------------------------------------------
(* Properties *)

(* Past the check of the user, on the way to a new session. *)
Minting(p) == pc[p] \in IssueLabels

ShutOut == (account.locked \/ ~account.active) /\ ~(\E p \in Procs : Minting(p))

(* Once an account is locked or deactivated, and no handler that had       *)
(* checked it earlier is still running, no way in issues another session   *)
(* until it is unlocked or activated (the comment of UsersService.lock).   *)
LockHolds ==
  [][ShutOut /\ (account.locked \/ ~account.active)' => ShutOut' /\ minted' = minted]_vars

(* A refresh revokes the session it was presented and no other: it is      *)
(* never counted against the limit on concurrent sessions.                 *)
RotationSparesOthers ==
  [][\A p \in Procs : frame[p].old # 0 /\ pc'[p] # pc[p] =>
       \A t \in Tokens : Unrevoked(t) /\ t # frame[p].old => Unrevoked(t)']_vars

(* A reset link is never used up without its password having been written, *)
(* wherever resetPassword dies.                                            *)
UsedResetTookEffect == \A k \in ResetTokens : reset[k] = "used" => k \in applied

(* FR-2.13: replacedBy names the token that continues the session, and a   *)
(* replaced token is revoked, however many refreshes overlap.              *)
ReplacementContinues ==
  \A t \in Tokens : token[t] # NoRow /\ token[t].replacedBy # 0 =>
    token[t].revoked /\ token[token[t].replacedBy].parent = t

(* REFRESH_INVALID, "already used": a refresh token is good for one        *)
(* refresh, so no two tokens were issued for the same one.                 *)
RotatedOnce ==
  \A t, u \in Tokens : token[t] # NoRow /\ token[u] # NoRow /\ token[t].parent # 0 =>
    (token[t].parent = token[u].parent => t = u)
=============================================================================
