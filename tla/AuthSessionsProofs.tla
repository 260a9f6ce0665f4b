------------------------- MODULE AuthSessionsProofs -------------------------
(***************************************************************************)
(* The sessions of a user, for any number of tokens, handlers and reset    *)
(* links and any limit on concurrent sessions.                             *)
(***************************************************************************)
EXTENDS AuthSessions, TLAPS

RowsOK ==
  /\ account \in [active : BOOLEAN, locked : BOOLEAN, deleted : BOOLEAN]
  /\ minted \in 0..MaxTokens
  /\ token \in [Tokens -> Row \cup {NoRow}]
  /\ \A t \in Tokens : token[t] # NoRow <=> t <= minted
  /\ reset \in [ResetTokens -> {"absent", "unused", "used"}]
  /\ applied \subseteq ResetTokens

(* What a handler at label l with locals f knows of the M tokens T and of  *)
(* the passwords A that were written: the tokens it holds were issued, the *)
(* one it is about to name as a replacement was issued for the one it      *)
(* replaces, the password of the reset link it is about to mark as used    *)
(* was written. Only refresh has a presented token.                        *)
Knows(M, T, A, l, f) ==
  /\ f.old <= M /\ f.new <= M
  /\ \A t \in f.evict : t <= M
  /\ l \in {"refresh.idle", "refresh.user", "refresh.revoke"} => f.old # 0
  /\ l = "refresh.revoke" => f.new # 0 /\ T[f.new].parent = f.old
  /\ l \in {"reset.password", "reset.used"} => f.key # NoRow
  /\ l = "reset.used" => f.key \in A
  /\ f.old # 0 => l \in {"refresh.idle", "refresh.user", "issue.create", "refresh.revoke"}

HandlersOK ==
  /\ pc \in [Procs -> Labels]
  /\ frame \in [Procs -> Frame]
  /\ \A p \in Procs : Knows(minted, token, applied, pc[p], frame[p])

ReplacementsExist == \A t \in Tokens : token[t] # NoRow => token[t].replacedBy <= minted

IInv == RowsOK /\ HandlersOK /\ UsedResetTookEffect /\ ReplacementContinues /\ ReplacementsExist

LEMMA Typed == IInv => TypeOK
BY DEF IInv, RowsOK, HandlersOK, Knows, TypeOK

-----------------------------------------------------------------------------
(* Steps that lose nothing *)

(* Nothing that a handler may know is lost. *)
Grows ==
  /\ minted' \in Nat /\ minted <= minted' /\ applied \subseteq applied'
  /\ \A t \in Tokens : t <= minted => token'[t].parent = token[t].parent

LEMMA StillKnows ==
  ASSUME RowsOK, Grows, NEW l, NEW f \in Frame, Knows(minted, token, applied, l, f)
  PROVE  Knows(minted', token', applied', l, f)
<1>1. /\ f.old \in 0..MaxTokens /\ f.new \in 0..MaxTokens /\ f.evict \in SUBSET Tokens
      /\ minted \in Nat /\ minted' \in Nat /\ minted <= minted'
  BY LimitAssumption DEF RowsOK, Grows, Frame
<1>2. f.new # 0 => token'[f.new].parent = token[f.new].parent
  BY <1>1, LimitAssumption DEF Grows, Knows, Tokens
<1>3. \A t \in f.evict : t \in Nat
  BY <1>1 DEF Tokens
<1> QED
  BY <1>1, <1>2, <1>3, LimitAssumption DEF Knows, Grows

LEMMA Move ==
  ASSUME IInv, Grows, NEW p \in Procs, NEW l \in Labels, NEW g \in Frame,
         Knows(minted', token', applied', l, g),
         pc' = [pc EXCEPT ![p] = l], frame' = [frame EXCEPT ![p] = g]
  PROVE  HandlersOK'
<1>1. pc' \in [Procs -> Labels] /\ frame' \in [Procs -> Frame]
  BY DEF IInv, HandlersOK
<1>2. ASSUME NEW q \in Procs
      PROVE  Knows(minted', token', applied', pc'[q], frame'[q])
  <2>1. CASE q = p
    BY <2>1 DEF IInv, HandlersOK
  <2>2. CASE q # p
    <3>1. pc'[q] = pc[q] /\ frame'[q] = frame[q] /\ frame[q] \in Frame
      BY <2>2 DEF IInv, HandlersOK
    <3> QED
      BY <3>1, StillKnows DEF IInv, HandlersOK
  <2> QED
    BY <2>1, <2>2
<1> QED
  BY <1>1, <1>2 DEF HandlersOK

LEMMA Stay ==
  ASSUME IInv, Grows, UNCHANGED <<pc, frame>>
  PROVE  HandlersOK'
BY StillKnows DEF IInv, HandlersOK

LEMMA BlankFrame ==
  /\ Blank \in Frame /\ Blank.old = 0 /\ Blank.new = 0 /\ Blank.evict = {} /\ Blank.key = NoRow
  /\ \A t \in 0..MaxTokens :
       LET f == [Blank EXCEPT !.old = t] IN
       f \in Frame /\ f.old = t /\ f.new = 0 /\ f.evict = {} /\ f.key = NoRow
  /\ \A k \in ResetTokens :
       LET f == [Blank EXCEPT !.key = k] IN
       f \in Frame /\ f.old = 0 /\ f.new = 0 /\ f.evict = {} /\ f.key = k
BY LimitAssumption DEF Blank, Frame

LEMMA Ends ==
  ASSUME IInv, Grows, NEW p \in Procs, Finish(p)
  PROVE  HandlersOK'
<1>1. Blank \in Frame /\ "idle" \in Labels /\ Knows(minted', token', applied', "idle", Blank)
  BY BlankFrame DEF Labels, Knows, Grows
<1> QED
  BY <1>1, Move DEF Finish, Goto

(* A step that changes no token a handler or another token may refer to. *)
Keeps ==
  /\ token' \in [Tokens -> Row \cup {NoRow}]
  /\ \A t \in Tokens :
       /\ token'[t] # NoRow <=> token[t] # NoRow
       /\ token[t] # NoRow =>
            /\ token'[t].parent = token[t].parent
            /\ token'[t].replacedBy = token[t].replacedBy
            /\ token[t].revoked => token'[t].revoked

LEMMA RevokeKeeps ==
  ASSUME RowsOK, NEW T \in SUBSET Tokens, \A t \in T : token[t] # NoRow, RevokeThe(T)
  PROVE  Keeps
<1>1. ASSUME NEW t \in Tokens, token[t] # NoRow
      PROVE  /\ token[t] \in Row
             /\ [token[t] EXCEPT !.revoked = TRUE] \in Row
             /\ [token[t] EXCEPT !.revoked = TRUE].parent = token[t].parent
             /\ [token[t] EXCEPT !.revoked = TRUE].replacedBy = token[t].replacedBy
             /\ [token[t] EXCEPT !.revoked = TRUE].revoked
  BY <1>1 DEF RowsOK, Row
<1>2. \A t \in Tokens :
        token'[t] = IF t \in T THEN [token[t] EXCEPT !.revoked = TRUE] ELSE token[t]
  BY DEF RevokeThe
<1>3. token' \in [Tokens -> Row \cup {NoRow}]
  BY <1>1 DEF RevokeThe, RowsOK
<1> QED
  BY <1>1, <1>2, <1>3, RowAssumption DEF Keeps

LEMMA KeepsGrows ==
  ASSUME RowsOK, Keeps, minted' = minted, applied \subseteq applied'
  PROVE  Grows
BY LimitAssumption DEF RowsOK, Keeps, Grows

(* The rows after such a step. *)
LEMMA KeepsRows ==
  ASSUME IInv, Keeps, UNCHANGED minted
  PROVE  /\ \A t \in Tokens : token'[t] # NoRow <=> t <= minted'
         /\ ReplacementContinues'
         /\ ReplacementsExist'
<1>1. \A t \in Tokens : token'[t] # NoRow <=> t <= minted'
  BY DEF IInv, RowsOK, Keeps
<1>2. ReplacementsExist'
  BY DEF IInv, ReplacementsExist, Keeps
<1>3. ASSUME NEW t \in Tokens, token'[t] # NoRow, token'[t].replacedBy # 0
      PROVE  token'[t].revoked /\ token'[token'[t].replacedBy].parent = t
  <2>1. token[t] # NoRow /\ token[t] \in Row /\ token'[t].replacedBy = token[t].replacedBy
    BY <1>3 DEF IInv, RowsOK, Keeps
  <2>2. token[t].replacedBy \in Tokens /\ token[t].replacedBy <= minted
    BY <1>3, <2>1, LimitAssumption DEF Row, Tokens, IInv, ReplacementsExist
  <2>3. token[token[t].replacedBy] # NoRow
    BY <2>2 DEF IInv, RowsOK
  <2> QED
    BY <1>3, <2>1, <2>2, <2>3 DEF IInv, Keeps, ReplacementContinues
<1> QED
  BY <1>1, <1>2, <1>3 DEF ReplacementContinues

-----------------------------------------------------------------------------
(* The invariant *)

LEMMA InitIInv == Init => IInv
<1> SUFFICES ASSUME Init PROVE IInv
  OBVIOUS
<1>1. RowsOK
  BY LimitAssumption DEF Init, RowsOK, Tokens
<1>2. HandlersOK
  BY BlankFrame, LimitAssumption DEF Init, HandlersOK, Knows, Labels
<1>3. UsedResetTookEffect /\ ReplacementContinues /\ ReplacementsExist
  BY DEF Init, UsedResetTookEffect, ReplacementContinues, ReplacementsExist
<1> QED
  BY <1>1, <1>2, <1>3 DEF IInv

(* Steps that write neither a token nor a reset token. *)
LEMMA NoRowStep ==
  ASSUME IInv, UNCHANGED <<token, minted, reset, applied>>,
         account' \in [active : BOOLEAN, locked : BOOLEAN, deleted : BOOLEAN]
  PROVE  /\ Grows
         /\ HandlersOK' => IInv'
<1>1. Keeps /\ Grows
  BY LimitAssumption DEF IInv, RowsOK, Keeps, Grows
<1>2. RowsOK' /\ UsedResetTookEffect'
  BY DEF IInv, RowsOK, UsedResetTookEffect
<1> QED
  BY <1>1, <1>2, KeepsRows DEF IInv

(* Steps that revoke tokens, or let them age. *)
LEMMA KeepsStep ==
  ASSUME IInv, Keeps, UNCHANGED <<account, minted, reset, applied>>
  PROVE  /\ Grows
         /\ HandlersOK' => IInv'
<1>1. RowsOK'
  BY KeepsRows DEF IInv, RowsOK, Keeps
<1>2. UsedResetTookEffect'
  BY DEF IInv, UsedResetTookEffect
<1> QED
  BY <1>1, <1>2, KeepsRows, KeepsGrows DEF IInv

LEMMA AccountStep ==
  ASSUME IInv, Unlock \/ Deactivate \/ SoftDelete \/ Restore
  PROVE  IInv'
<1>1. /\ UNCHANGED <<token, minted, reset, applied, pc, frame>>
      /\ account' \in [active : BOOLEAN, locked : BOOLEAN, deleted : BOOLEAN]
  BY DEF IInv, RowsOK, Unlock, Deactivate, SoftDelete, Restore, SetAccount
<1> QED
  BY <1>1, NoRowStep, Stay

LEMMA BeginStep ==
  ASSUME IInv, NEW p \in Procs, Begin(p)
  PROVE  IInv'
<1>1. /\ UNCHANGED <<token, minted, reset, applied>>
      /\ account' \in [active : BOOLEAN, locked : BOOLEAN, deleted : BOOLEAN]
  BY DEF IInv, RowsOK, Begin, SignIn, Refresh, ResetPassword, Lock, ForcePasswordReset, Activate,
         SetAccount
<1>2. Grows
  BY <1>1, NoRowStep
<1>3. CASE SignIn(p) \/ Lock(p) \/ ForcePasswordReset(p) \/ Activate(p)
  <2>1. PICK l \in {"issue.active", "revoke.all", "activate.update"} : Enter(p, l, Blank)
    BY <1>3 DEF SignIn, Lock, ForcePasswordReset, Activate
  <2>2. l \in Labels /\ Knows(minted', token', applied', l, Blank)
    BY <1>1, BlankFrame, LimitAssumption DEF Knows, Labels, IssueLabels, IInv, RowsOK
  <2>3. HandlersOK'
    BY <1>2, <2>1, <2>2, BlankFrame, Move DEF Enter, Goto
  <2> QED
    BY <1>1, <2>3, NoRowStep
<1>4. ASSUME NEW t \in Tokens, Refresh(p, t)
      PROVE  IInv'
  <2>1. PICK l \in {"refresh.idle", "refresh.user"} : Enter(p, l, [Blank EXCEPT !.old = t])
    BY <1>4 DEF Refresh
  <2>2. t \in 0..MaxTokens /\ t # 0 /\ t <= minted /\ minted \in Nat
    BY <1>4, LimitAssumption DEF Refresh, Live, Unrevoked, IInv, RowsOK, Tokens
  <2>3. l \in Labels /\ Knows(minted', token', applied', l, [Blank EXCEPT !.old = t])
    BY <1>1, <2>1, <2>2, BlankFrame DEF Knows, Labels
  <2>4. HandlersOK'
    BY <1>2, <2>1, <2>2, <2>3, BlankFrame, Move DEF Enter, Goto
  <2> QED
    BY <1>1, <2>4, NoRowStep
<1>5. ASSUME NEW k \in ResetTokens, ResetPassword(p, k)
      PROVE  IInv'
  <2>1. "reset.password" \in Labels
    BY DEF Labels
  <2>2. Knows(minted', token', applied', "reset.password", [Blank EXCEPT !.key = k])
    BY <1>1, BlankFrame, RowAssumption, LimitAssumption DEF Knows, IInv, RowsOK
  <2>3. HandlersOK'
    BY <1>2, <1>5, <2>1, <2>2, BlankFrame, Move DEF ResetPassword, Enter, Goto
  <2> QED
    BY <1>1, <2>3, NoRowStep
<1> QED
  BY <1>3, <1>4, <1>5 DEF Begin

LEMMA EndStep ==
  ASSUME IInv, NEW p \in Procs,
         Fail(p) \/ ActivateUpdate(p) \/ RefreshIdle(p) \/ RevokeAll(p)
  PROVE  IInv'
<1>1. CASE Fail(p) \/ ActivateUpdate(p)
  <2>1. /\ UNCHANGED <<token, minted, reset, applied>> /\ Finish(p)
        /\ account' \in [active : BOOLEAN, locked : BOOLEAN, deleted : BOOLEAN]
    BY <1>1 DEF IInv, RowsOK, Fail, ActivateUpdate, SetAccount
  <2> QED
    BY <2>1, NoRowStep, Ends
<1>2. CASE RefreshIdle(p)
  <2>1. /\ frame[p].old \in Tokens /\ token[frame[p].old] # NoRow
        /\ UNCHANGED <<account, minted, reset, applied>> /\ Finish(p) /\ RowsOK
    <3>1. frame[p].old \in 0..MaxTokens /\ frame[p].old # 0 /\ frame[p].old <= minted
      BY <1>2 DEF RefreshIdle, IInv, HandlersOK, Knows, Frame
    <3> QED
      BY <1>2, <3>1, LimitAssumption DEF RefreshIdle, IInv, RowsOK, Tokens
  <2>2. Keeps
    BY <1>2, <2>1, RevokeKeeps DEF RefreshIdle
  <2> QED
    BY <2>1, <2>2, KeepsStep, Ends
<1>3. CASE RevokeAll(p)
  <2>1. UNCHANGED <<account, minted, reset, applied>> /\ Finish(p)
    BY <1>3 DEF RevokeAll
  <2>2. Keeps
    BY <1>3, RevokeKeeps DEF RevokeAll, Unrevoked, IInv
  <2> QED
    BY <2>1, <2>2, KeepsStep, Ends
<1> QED
  BY <1>1, <1>2, <1>3

LEMMA OverflowIssued == IInv => Overflow \subseteq {t \in Tokens : t <= minted}
BY DEF IInv, RowsOK, Overflow, Oldest, Live, Unrevoked

LEMMA IssueStep ==
  ASSUME IInv, NEW p \in Procs, IssueActive(p) \/ IssueRevoke(p)
  PROVE  IInv'
<1>1. /\ frame[p] \in Frame /\ frame[p].old = 0 /\ frame[p].new <= minted
      /\ frame[p].evict \in SUBSET Tokens /\ \A t \in frame[p].evict : t <= minted
  BY DEF IssueActive, IssueRevoke, IInv, HandlersOK, Knows, Frame
<1>2. CASE IssueActive(p)
  <2> DEFINE g == [frame[p] EXCEPT !.evict = Overflow]
  <2>1. /\ UNCHANGED <<token, minted, reset, applied>>
        /\ account' \in [active : BOOLEAN, locked : BOOLEAN, deleted : BOOLEAN]
    BY <1>2 DEF IssueActive, IInv, RowsOK
  <2>2. g \in Frame /\ g.old = 0 /\ g.new = frame[p].new /\ g.evict = Overflow
    BY <1>1, OverflowIssued DEF Frame
  <2>3. PICK l \in {"issue.create", "issue.revoke"} :
          pc' = [pc EXCEPT ![p] = l] /\ frame' = [frame EXCEPT ![p] = g]
    BY <1>2, <1>1 DEF IssueActive, Goto, IInv, HandlersOK
  <2>4. l \in Labels /\ Knows(minted', token', applied', l, g)
    BY <1>1, <2>1, <2>2, OverflowIssued, LimitAssumption DEF Knows, Labels, IssueLabels, IInv, RowsOK
  <2> QED
    BY <2>1, <2>2, <2>3, <2>4, NoRowStep, Move
<1>3. CASE IssueRevoke(p)
  <2> DEFINE g == [frame[p] EXCEPT !.evict = {}]
  <2>1. UNCHANGED <<account, minted, reset, applied>>
    BY <1>3 DEF IssueRevoke
  <2>2. \A t \in frame[p].evict : token[t] # NoRow
    BY <1>1 DEF IInv, RowsOK
  <2>3. Keeps
    BY <1>1, <1>3, <2>2, RevokeKeeps DEF IssueRevoke, IInv
  <2>4. g \in Frame /\ g.old = 0 /\ g.new = frame[p].new /\ g.evict = {}
    BY <1>1 DEF Frame
  <2>5. "issue.create" \in Labels /\ Knows(minted', token', applied', "issue.create", g)
    BY <1>1, <2>1, <2>4, LimitAssumption DEF Knows, Labels, IssueLabels, IInv, RowsOK
  <2>6. pc' = [pc EXCEPT ![p] = "issue.create"] /\ frame' = [frame EXCEPT ![p] = g]
    BY <1>3 DEF IssueRevoke, Goto, IInv, HandlersOK
  <2> QED
    BY <1>1, <2>1, <2>3, <2>4, <2>5, <2>6, KeepsStep, Move
<1> QED
  BY <1>2, <1>3

LEMMA CreateStep ==
  ASSUME IInv, NEW p \in Procs, IssueCreate(p)
  PROVE  IInv'
<1> DEFINE n   == minted + 1
           row == [parent |-> frame[p].old, replacedBy |-> 0, revoked |-> FALSE, age |-> "fresh"]
<1>1. /\ minted \in Nat /\ n \in Tokens /\ n \in 0..MaxTokens /\ n # 0 /\ minted' = n
      /\ token[n] = NoRow
  BY LimitAssumption DEF IssueCreate, IInv, RowsOK, Tokens
<1>2. /\ frame[p] \in Frame /\ frame[p].old \in 0..MaxTokens /\ frame[p].old <= minted
      /\ frame[p].evict \in SUBSET Tokens /\ \A t \in frame[p].evict : t <= minted
  BY DEF IInv, HandlersOK, Knows, Frame
<1>3. row \in Row /\ row # NoRow
  <2>1. row \in Row
    BY <1>2, LimitAssumption DEF Row
  <2> QED
    BY <2>1, RowAssumption
<1>4. /\ token' = [token EXCEPT ![n] = row]
      /\ token' \in [Tokens -> Row \cup {NoRow}]
      /\ token'[n] = row
      /\ \A t \in Tokens \ {n} : token'[t] = token[t]
  BY <1>1, <1>3 DEF IssueCreate, IInv, RowsOK
<1>5. Grows
  BY <1>1, <1>4 DEF Grows, IssueCreate, Tokens
<1>6. RowsOK'
  BY <1>1, <1>3, <1>4 DEF IssueCreate, IInv, RowsOK, Tokens
<1>7. UsedResetTookEffect'
  BY DEF IssueCreate, IInv, UsedResetTookEffect
<1>8. ReplacementsExist'
  BY <1>1, <1>4 DEF IInv, RowsOK, ReplacementsExist, Row
<1>9. ReplacementContinues'
  <2>1. ASSUME NEW t \in Tokens, token'[t] # NoRow, token'[t].replacedBy # 0
        PROVE  token'[t].revoked /\ token'[token'[t].replacedBy].parent = t
    <3>1. t # n /\ token'[t] = token[t] /\ token[t] \in Row
      BY <1>1, <1>4, <2>1 DEF IInv, RowsOK
    <3>2. token[t].replacedBy \in Tokens /\ token[t].replacedBy <= minted
      BY <2>1, <3>1, LimitAssumption DEF IInv, ReplacementsExist, Row, Tokens
    <3>3. token'[token[t].replacedBy] = token[token[t].replacedBy]
      BY <1>1, <1>4, <3>2
    <3> QED
      BY <2>1, <3>1, <3>3 DEF IInv, ReplacementContinues
  <2> QED
    BY <2>1 DEF ReplacementContinues
<1>10. HandlersOK'
  <2>1. CASE frame[p].old = 0
    BY <1>5, <2>1, Ends DEF IssueCreate
  <2>2. CASE frame[p].old # 0
    <3> DEFINE g == [frame[p] EXCEPT !.new = n]
    <3>1. g \in Frame /\ g.old = frame[p].old /\ g.new = n /\ g.evict = frame[p].evict
      BY <1>1, <1>2 DEF Frame
    <3>2. /\ pc' = [pc EXCEPT ![p] = "refresh.revoke"] /\ "refresh.revoke" \in Labels
          /\ frame' = [frame EXCEPT ![p] = g]
      BY <1>2, <2>2 DEF IssueCreate, Goto, Labels, IInv, HandlersOK
    <3>3. \A t \in g.evict : t \in Nat /\ t <= minted
      BY <1>2, <3>1 DEF Tokens
    <3>4. token'[n].parent = frame[p].old
      BY <1>4
    <3>5. Knows(minted', token', applied', "refresh.revoke", g)
      BY <1>1, <1>2, <2>2, <3>1, <3>3, <3>4 DEF Knows
    <3> QED
      BY <1>5, <3>1, <3>2, <3>5, Move
  <2> QED
    BY <2>1, <2>2
<1> QED
  BY <1>6, <1>7, <1>8, <1>9, <1>10 DEF IInv

LEMMA ReplaceStep ==
  ASSUME IInv, NEW p \in Procs, RefreshRevoke(p)
  PROVE  IInv'
<1> DEFINE o == frame[p].old
           n == frame[p].new
           r == [token[o] EXCEPT !.revoked = TRUE, !.replacedBy = n]
<1>1. /\ o \in Tokens /\ n \in Tokens /\ o <= minted /\ n <= minted /\ minted \in Nat
      /\ token[n].parent = o
  BY LimitAssumption DEF RefreshRevoke, IInv, RowsOK, HandlersOK, Knows, Frame, Tokens
<1>2. token[o] # NoRow /\ token[o] \in Row /\ token[n] # NoRow
  BY <1>1 DEF IInv, RowsOK
<1>3. r \in Row /\ r.revoked /\ r.replacedBy = n /\ r.parent = token[o].parent
  <2> DEFINE x == [token[o] EXCEPT !.revoked = TRUE]
  <2>1. n \in 0..MaxTokens
    BY <1>1 DEF Tokens
  <2>2. x \in Row /\ x.parent = token[o].parent /\ x.revoked
    BY <1>2 DEF Row
  <2>3. r = [x EXCEPT !.replacedBy = n]
    OBVIOUS
  <2> HIDE DEF x, r
  <2> QED
    BY <2>1, <2>2, <2>3 DEF Row
<1>4. r # NoRow
  BY <1>3, RowAssumption
<1>5. token' = [token EXCEPT ![o] = r]
  BY <1>1, <1>2 DEF RefreshRevoke, IInv, RowsOK, Row
<1>6. /\ token' \in [Tokens -> Row \cup {NoRow}]
      /\ token'[o] = r /\ \A t \in Tokens \ {o} : token'[t] = token[t]
  BY <1>1, <1>3, <1>5 DEF IInv, RowsOK
<1>7. \A t \in Tokens : token'[t].parent = token[t].parent
  BY <1>3, <1>6
<1>8. UNCHANGED <<account, minted, reset, applied>>
  BY DEF RefreshRevoke
<1>9. RowsOK' /\ Grows /\ UsedResetTookEffect'
  BY <1>1, <1>2, <1>4, <1>6, <1>7, <1>8 DEF IInv, RowsOK, Grows, UsedResetTookEffect
<1>10. ReplacementsExist'
  BY <1>1, <1>3, <1>6, <1>8 DEF IInv, ReplacementsExist
<1>11. ASSUME NEW t \in Tokens, token'[t] # NoRow, token'[t].replacedBy # 0
       PROVE  token'[t].revoked /\ token'[token'[t].replacedBy].parent = t
  <2>1. CASE t = o
    BY <1>1, <1>3, <1>6, <1>7, <2>1
  <2>2. CASE t # o
    <3>1. token'[t] = token[t] /\ token[t] \in Row
      BY <1>6, <1>11, <2>2 DEF IInv, RowsOK
    <3>2. token[t].replacedBy \in Tokens
      BY <1>11, <3>1, LimitAssumption DEF Row, Tokens
    <3> QED
      BY <1>7, <1>11, <3>1, <3>2 DEF IInv, ReplacementContinues
  <2> QED
    BY <2>1, <2>2
<1>12. HandlersOK'
  BY <1>9, Ends DEF RefreshRevoke
<1> QED
  BY <1>9, <1>10, <1>11, <1>12 DEF IInv, ReplacementContinues

LEMMA UserStep ==
  ASSUME IInv, NEW p \in Procs, RefreshUser(p)
  PROVE  IInv'
<1>1. /\ UNCHANGED <<token, minted, reset, applied>>
      /\ account' \in [active : BOOLEAN, locked : BOOLEAN, deleted : BOOLEAN]
  BY DEF RefreshUser, IInv, RowsOK
<1>2. CASE Finish(p)
  BY <1>1, <1>2, NoRowStep, Ends
<1>3. CASE Goto(p, "issue.create") /\ UNCHANGED frame
  <2>1. frame[p] \in Frame /\ frame' = [frame EXCEPT ![p] = frame[p]]
    BY <1>3 DEF IInv, HandlersOK
  <2>2. "issue.create" \in Labels /\ Knows(minted', token', applied', "issue.create", frame[p])
    BY <1>1 DEF Knows, Labels, IssueLabels, IInv, HandlersOK
  <2> QED
    BY <1>1, <1>3, <2>1, <2>2, NoRowStep, Move DEF Goto
<1> QED
  BY <1>2, <1>3 DEF RefreshUser

LEMMA ResetStep ==
  ASSUME IInv, NEW p \in Procs, ResetWrite(p) \/ ResetUsed(p)
  PROVE  IInv'
<1> DEFINE k == frame[p].key
<1>1. frame[p] \in Frame /\ k \in ResetTokens
  BY DEF ResetWrite, ResetUsed, IInv, HandlersOK, Knows, Frame
<1>2. UNCHANGED <<account, token, minted>> /\ applied \subseteq applied'
  BY DEF ResetWrite, ResetUsed
<1>3. Keeps /\ Grows
  BY <1>2, LimitAssumption DEF IInv, RowsOK, Keeps, Grows
<1>4. RowsOK'
  BY <1>1, <1>2 DEF ResetWrite, ResetUsed, IInv, RowsOK
<1>5. CASE ResetWrite(p)
  <2>1. k \in applied' /\ UsedResetTookEffect'
    BY <1>1, <1>5 DEF ResetWrite, IInv, UsedResetTookEffect
  <2>2. "reset.used" \in Labels /\ Knows(minted', token', applied', "reset.used", frame[p])
    BY <1>2, <1>5, <2>1 DEF ResetWrite, Knows, Labels, IInv, HandlersOK
  <2>3. frame' = [frame EXCEPT ![p] = frame[p]]
    BY <1>5 DEF ResetWrite, IInv, HandlersOK
  <2>4. HandlersOK'
    BY <1>1, <1>3, <1>5, <2>2, <2>3, Move DEF ResetWrite, Goto
  <2> QED
    BY <1>2, <1>3, <1>4, <2>1, <2>4, KeepsRows DEF IInv
<1>6. CASE ResetUsed(p)
  <2>1. k \in applied /\ UsedResetTookEffect'
    BY <1>1, <1>6 DEF ResetUsed, IInv, HandlersOK, Knows, UsedResetTookEffect, RowsOK
  <2>2. "revoke.all" \in Labels /\ Knows(minted', token', applied', "revoke.all", Blank)
    BY <1>2, <1>6, BlankFrame, LimitAssumption DEF ResetUsed, Knows, Labels, IInv, RowsOK
  <2>3. HandlersOK'
    BY <1>1, <1>3, <1>6, <2>2, BlankFrame, Move DEF ResetUsed, Goto
  <2> QED
    BY <1>2, <1>3, <1>4, <2>1, <2>3, KeepsRows DEF IInv
<1> QED
  BY <1>5, <1>6

(* Logout, logoutAll, aging, and a new reset link. *)
LEMMA OtherStep ==
  ASSUME IInv,
         \/ \E t \in Tokens : Logout(t) \/ Age(t)
         \/ LogoutAll
         \/ \E k \in ResetTokens : ForgotPassword(k)
  PROVE  IInv'
<1>1. CASE (\E t \in Tokens : Logout(t)) \/ LogoutAll
  <2>1. Keeps
    BY <1>1, RevokeKeeps DEF Logout, LogoutAll, Unrevoked, IInv
  <2> QED
    BY <1>1, <2>1, KeepsStep, Stay DEF Logout, LogoutAll
<1>2. ASSUME NEW t \in Tokens, Age(t)
      PROVE  IInv'
  <2>1. token[t] \in Row
    BY <1>2 DEF Age, Unrevoked, IInv, RowsOK
  <2>2. PICK a \in {"idle", "expired"} : token' = [token EXCEPT ![t].age = a]
    BY <1>2 DEF Age
  <2>3. /\ [token[t] EXCEPT !.age = a] \in Row
        /\ [token[t] EXCEPT !.age = a].parent = token[t].parent
        /\ [token[t] EXCEPT !.age = a].replacedBy = token[t].replacedBy
        /\ [token[t] EXCEPT !.age = a].revoked = token[t].revoked
    BY <2>1 DEF Row
  <2>4. /\ token' \in [Tokens -> Row \cup {NoRow}]
        /\ token'[t] = [token[t] EXCEPT !.age = a]
        /\ \A u \in Tokens \ {t} : token'[u] = token[u]
    BY <2>2, <2>3 DEF IInv, RowsOK
  <2>5. Keeps
    BY <1>2, <2>3, <2>4, RowAssumption DEF Keeps, Age, Unrevoked
  <2> QED
    BY <1>2, <2>5, KeepsStep, Stay DEF Age
<1>3. ASSUME NEW k \in ResetTokens, ForgotPassword(k)
      PROVE  IInv'
  <2>1. UNCHANGED <<account, token, minted, applied, pc, frame>>
    BY <1>3 DEF ForgotPassword
  <2>2. RowsOK' /\ UsedResetTookEffect'
    BY <1>3 DEF ForgotPassword, IInv, RowsOK, UsedResetTookEffect
  <2>3. Keeps /\ Grows
    BY <2>1, LimitAssumption DEF IInv, RowsOK, Keeps, Grows
  <2> QED
    BY <2>1, <2>2, <2>3, KeepsRows, Stay DEF IInv
<1> QED
  BY <1>1, <1>2, <1>3

LEMMA NextIInv == IInv /\ [Next]_vars => IInv'
<1> SUFFICES ASSUME IInv, [Next]_vars PROVE IInv'
  OBVIOUS
<1>1. CASE UNCHANGED vars
  BY <1>1, NoRowStep, Stay DEF vars, IInv, RowsOK
<1>2. ASSUME NEW p \in Procs, Begin(p) \/ Continue(p) \/ Fail(p)
      PROVE  IInv'
  BY <1>2, BeginStep, EndStep, IssueStep, CreateStep, ReplaceStep, UserStep, ResetStep
     DEF Continue
<1> QED
  BY <1>1, <1>2, AccountStep, OtherStep DEF Next

LEMMA Invariance == Spec => []IInv
BY InitIInv, NextIInv, PTL DEF Spec

-----------------------------------------------------------------------------
(* The theorems *)

(* Rows and handlers are well formed. *)
THEOREM TypeCorrect == Spec => []TypeOK
BY Invariance, Typed, PTL

(* A reset link is never used up without its password having been written. *)
THEOREM ResetsTakeEffect == Spec => []UsedResetTookEffect
<1>1. IInv => UsedResetTookEffect
  BY DEF IInv
<1> QED
  BY Invariance, <1>1, PTL

(* replacedBy names the token that continues the session, and a replaced   *)
(* token is revoked, however many refreshes overlap.                       *)
THEOREM RotationsLinked == Spec => []ReplacementContinues
<1>1. IInv => ReplacementContinues
  BY DEF IInv
<1> QED
  BY Invariance, <1>1, PTL

(* A lock or deactivation, once no handler is past the check, keeps every  *)
(* way in shut.                                                            *)
THEOREM LocksHold == Spec => LockHolds
<1>1. ASSUME IInv, [Next]_vars, ShutOut, (account.locked \/ ~account.active)'
      PROVE  ShutOut' /\ minted' = minted
  <2>1. \A p \in Procs : pc[p] \notin IssueLabels
    BY <1>1 DEF ShutOut, Minting
  <2>2. pc \in [Procs -> Labels]
    BY <1>1 DEF IInv, HandlersOK
  <2>3. CASE UNCHANGED vars
    BY <2>1, <2>3, <1>1 DEF vars, ShutOut, Minting
  <2>4. ASSUME NEW p \in Procs, Begin(p) \/ Continue(p) \/ Fail(p)
        PROVE  minted' = minted /\ \A q \in Procs : pc'[q] \notin IssueLabels
    <3>1. /\ ~SignIn(p) /\ ~IssueActive(p) /\ ~IssueRevoke(p) /\ ~IssueCreate(p)
          /\ RefreshUser(p) => Finish(p)
      BY <1>1, <2>1 DEF ShutOut, SignIn, IssueActive, IssueRevoke, IssueCreate, RefreshUser,
                        IssueLabels
    <3>2. minted' = minted
      BY <2>4, <3>1 DEF Begin, Continue, Fail, Refresh, ResetPassword, Lock, ForcePasswordReset,
                        Activate, SetAccount, RefreshIdle, RefreshUser, RefreshRevoke, ResetWrite,
                        ResetUsed, RevokeAll, ActivateUpdate
    <3>3. \E l \in Labels \ IssueLabels : pc' = [pc EXCEPT ![p] = l]
      BY <2>4, <3>1 DEF Begin, Continue, Fail, Refresh, ResetPassword, Lock, ForcePasswordReset,
                        Activate, RefreshIdle, RefreshUser, RefreshRevoke, ResetWrite, ResetUsed,
                        RevokeAll, ActivateUpdate, Enter, Goto, Finish, Labels, IssueLabels
    <3> QED
      BY <2>1, <2>2, <3>2, <3>3
  <2>5. CASE \/ \E t \in Tokens : Logout(t) \/ Age(t)
             \/ \E k \in ResetTokens : ForgotPassword(k)
             \/ LogoutAll \/ Unlock \/ Deactivate \/ SoftDelete \/ Restore
    <3>1. UNCHANGED <<minted, pc>>
      BY <2>5 DEF Logout, Age, ForgotPassword, LogoutAll, Unlock, Deactivate, SoftDelete, Restore,
                  SetAccount
    <3> QED
      BY <1>1, <2>1, <3>1 DEF ShutOut, Minting
  <2>6. CASE \E p \in Procs : Begin(p) \/ Continue(p) \/ Fail(p)
    BY <1>1, <2>4, <2>6 DEF ShutOut, Minting
  <2> QED
    BY <1>1, <2>3, <2>5, <2>6 DEF Next
<1>2. IInv /\ [Next]_vars =>
        [ShutOut /\ (account.locked \/ ~account.active)' => ShutOut' /\ minted' = minted]_vars
  BY <1>1
<1> QED
  BY Invariance, <1>2, PTL DEF Spec, LockHolds

(* A refresh revokes the session it was presented and no other. *)
THEOREM RotationsSpareOthers == Spec => RotationSparesOthers
<1>1. ASSUME IInv, Next, NEW p \in Procs, frame[p].old # 0, pc'[p] # pc[p],
             NEW t \in Tokens, Unrevoked(t), t # frame[p].old
      PROVE  Unrevoked(t)'
  <2>1. /\ pc[p] \in {"refresh.idle", "refresh.user", "issue.create", "refresh.revoke"}
        /\ pc \in [Procs -> Labels] /\ frame[p].old \in Tokens
    BY <1>1, LimitAssumption DEF IInv, HandlersOK, Knows, Frame, Tokens
  <2>2. PICK q \in Procs : Begin(q) \/ Continue(q) \/ Fail(q)
    BY <1>1 DEF Next, Logout, Age, ForgotPassword, LogoutAll, Unlock, Deactivate, SoftDelete,
                Restore, SetAccount
  <2>3. \E l : pc' = [pc EXCEPT ![q] = l]
    BY <2>2 DEF Begin, Continue, Fail, SignIn, Refresh, ResetPassword, Lock, ForcePasswordReset,
                Activate, IssueActive, IssueRevoke, IssueCreate, RefreshIdle, RefreshUser,
                RefreshRevoke, ResetWrite, ResetUsed, RevokeAll, ActivateUpdate, Enter, Goto, Finish
  <2>4. q = p
    BY <1>1, <2>1, <2>3
  <2>5. RefreshIdle(p) \/ RefreshUser(p) \/ IssueCreate(p) \/ RefreshRevoke(p) \/ Fail(p)
    BY <2>1, <2>2, <2>4 DEF Begin, Continue, SignIn, Refresh, ResetPassword, Lock,
                            ForcePasswordReset, Activate, IssueActive, IssueRevoke, ResetWrite,
                            ResetUsed, RevokeAll, ActivateUpdate, Enter
  <2>6. token'[t] = token[t]
    <3>1. CASE RefreshIdle(p) \/ RefreshUser(p) \/ Fail(p)
      BY <1>1, <3>1 DEF RefreshIdle, RefreshUser, Fail, RevokeThe
    <3>2. CASE RefreshRevoke(p)
      BY <1>1, <2>1, <3>2 DEF RefreshRevoke, IInv, RowsOK
    <3>3. CASE IssueCreate(p)
      BY <1>1, <3>3, LimitAssumption DEF IssueCreate, IInv, RowsOK, Unrevoked, Tokens
    <3> QED
      BY <2>5, <3>1, <3>2, <3>3
  <2> QED
    BY <1>1, <2>6 DEF Unrevoked
<1>2. IInv /\ [Next]_vars =>
        [\A p \in Procs : frame[p].old # 0 /\ pc'[p] # pc[p] =>
           \A t \in Tokens : Unrevoked(t) /\ t # frame[p].old => Unrevoked(t)']_vars
  BY <1>1
<1> QED
  BY Invariance, <1>2, PTL DEF Spec, RotationSparesOthers
=============================================================================
