--------------------------- MODULE BranchesProofs ---------------------------
(***************************************************************************)
(* The tree of branches, for any number of branches and of handlers.       *)
(***************************************************************************)
EXTENDS Branches, WalksProofs

Frames == {NoRow} \cup [parent : Parents] \cup [id : Branches] \cup WalkFrame
            \cup [id : Branches, target : Parents] \cup [ids : SUBSET Branches]

(* r, if it names a row of B at all, names one that is there. *)
Exists(B, r) == r # NoRow => B[r].state # "absent"

(* What a handler at label l with locals f knows of the rows B. *)
Knows(B, l, f) ==
  /\ FrameFits(l, f)
  /\ l \in CreateLabels => Exists(B, f.parent)
  /\ l \in MoveLabels => Exists(B, f.target)
  /\ l = "move.walk" => Exists(B, f.cur)

RowsOK ==
  /\ branch \in [Branches -> Row]
  /\ restored \subseteq Branches
  /\ \A b \in Branches : Exists(branch, branch[b].parent)

HandlersOK ==
  /\ pc \in [Procs -> Labels]
  /\ frame \in [Procs -> Frames]
  /\ \A p \in Procs : Knows(branch, pc[p], frame[p])

IInv == RowsOK /\ HandlersOK

LEMMA Typed == IInv => TypeOK
  BY DEF IInv, RowsOK, HandlersOK, Knows, Exists, TypeOK

-----------------------------------------------------------------------------
(* Steps of the rows *)

(* No row disappears. *)
Grows == \A b \in Branches : branch[b].state # "absent" => branch'[b].state # "absent"

(* A step that moves no branch and removes none keeps the rows well formed. *)
LEMMA RowsKept ==
  ASSUME RowsOK, branch' \in [Branches -> Row], restored' \subseteq Branches, Grows,
         \A b \in Branches : branch'[b].parent = branch[b].parent
  PROVE  RowsOK'
<1>1. ASSUME NEW b \in Branches
      PROVE  Exists(branch', branch'[b].parent)
  <2>1. Exists(branch, branch[b].parent) /\ branch[b].parent \in Parents
    BY DEF RowsOK, Row
  <2> QED
    BY <2>1 DEF Exists, Grows, Parents
<1> QED
  BY <1>1 DEF RowsOK

(* Clearing the flag touches nothing else. *)
LEMMA Cleared ==
  ASSUME RowsOK, NEW e, ClearHeadquarters(e), UNCHANGED restored
  PROVE  RowsOK' /\ Grows
<1>1. \A b \in Branches : branch[b] \in Row
  BY DEF RowsOK
<1>2. ASSUME NEW b \in Branches
      PROVE  /\ branch'[b] \in Row
             /\ branch'[b].parent = branch[b].parent /\ branch'[b].state = branch[b].state
  BY <1>1 DEF ClearHeadquarters, Row
<1>3. branch' \in [Branches -> Row]
  BY <1>2 DEF ClearHeadquarters
<1>4. Grows
  BY <1>2 DEF Grows
<1>5. restored' \subseteq Branches
  BY DEF RowsOK
<1> QED
  BY <1>2, <1>3, <1>4, <1>5, RowsKept

LEMMA StillKnows ==
  ASSUME IInv, Grows, NEW p \in Procs
  PROVE  Knows(branch', pc[p], frame[p])
<1>1. Knows(branch, pc[p], frame[p])
  BY DEF IInv, HandlersOK
<1>2. ASSUME NEW r \in Parents, Exists(branch, r)
      PROVE  Exists(branch', r)
  BY <1>2 DEF Grows, Exists, Parents
<1>3. pc[p] \in CreateLabels => frame[p].parent \in Parents
  BY <1>1 DEF Knows, FrameFits
<1>4. pc[p] \in MoveLabels => frame[p].target \in Parents
  BY <1>1 DEF Knows, FrameFits, MoveLabels, WalkFrame, Parents
<1>5. pc[p] = "move.walk" => frame[p].cur \in Parents
  BY <1>1 DEF Knows, FrameFits, WalkFrame, Parents
<1> QED
  BY <1>1, <1>2, <1>3, <1>4, <1>5 DEF Knows

(* One handler moves to a label where it knows what it must. *)
LEMMA Moved ==
  ASSUME IInv, Grows, NEW p \in Procs, NEW l \in Labels, NEW f \in Frames,
         Enter(p, l, f), Knows(branch', l, f)
  PROVE  HandlersOK'
<1>1. /\ pc' = [pc EXCEPT ![p] = l]
      /\ frame' = [frame EXCEPT ![p] = f]
      /\ pc \in [Procs -> Labels] /\ frame \in [Procs -> Frames]
  BY DEF Enter, Goto, IInv, HandlersOK
<1>2. ASSUME NEW q \in Procs
      PROVE  Knows(branch', pc'[q], frame'[q])
  <2>1. CASE q = p
    BY <1>1, <2>1
  <2>2. CASE q # p
    BY <1>1, <2>2, StillKnows
  <2> QED
    BY <2>1, <2>2
<1> QED
  BY <1>1, <1>2 DEF HandlersOK

LEMMA Ended ==
  ASSUME IInv, Grows, NEW p \in Procs, Finish(p)
  PROVE  HandlersOK'
<1>1. Enter(p, "idle", NoRow)
  BY DEF Finish, Enter
<1>2. Knows(branch', "idle", NoRow) /\ "idle" \in Labels /\ NoRow \in Frames
  BY DEF Knows, FrameFits, CreateLabels, MoveLabels, CascadeLabels, Labels, Frames
<1> QED
  BY <1>1, <1>2, Moved

LEMMA Stayed ==
  ASSUME IInv, Grows, UNCHANGED <<pc, frame>>
  PROVE  HandlersOK'
<1>1. \A p \in Procs : Knows(branch', pc[p], frame[p])
  BY StillKnows
<1> QED
  BY <1>1 DEF IInv, HandlersOK

(* The next row of a walk is there, and so is its target. *)
LEMMA WalkGoesOn ==
  ASSUME IInv, NEW p \in Procs, UNCHANGED branch,
         NEW f, f.id \in Branches, f.target \in Parents, f.cur \in Parents,
         Exists(branch, f.target), Exists(branch, f.cur),
         f.cur = NoRow \/ f \in WalkFrame, WalkOn(p, f)
  PROVE  HandlersOK'
<1>1. Grows
  BY DEF Grows
<1>2. CASE f.cur = NoRow \/ f.cur \in f.visited
  <2> DEFINE g == [id |-> f.id, target |-> f.target]
  <2>1. Enter(p, "move.write", g)
    BY <1>2 DEF WalkOn, Enter
  <2>2. g \in [id : Branches, target : Parents] /\ g.target = f.target
    OBVIOUS
  <2>3. g \in Frames /\ "move.write" \in Labels
    BY <2>2 DEF Frames, Labels, MoveLabels
  <2> HIDE DEF g
  <2>4. Knows(branch', "move.write", g)
    BY <2>2 DEF Knows, FrameFits, CreateLabels, CascadeLabels
  <2> QED
    BY <1>1, <2>1, <2>3, <2>4, Moved
<1>3. CASE ~(f.cur = NoRow \/ f.cur \in f.visited)
  <2>1. Enter(p, "move.walk", f) /\ f \in WalkFrame
    BY <1>3 DEF WalkOn, Enter
  <2>2. f \in Frames /\ "move.walk" \in Labels
    BY <2>1 DEF Frames, Labels, MoveLabels
  <2>3. Knows(branch', "move.walk", f)
    BY <2>1 DEF Knows, FrameFits, CreateLabels, CascadeLabels
  <2> QED
    BY <1>1, <2>1, <2>2, <2>3, Moved
<1> QED
  BY <1>2, <1>3

-----------------------------------------------------------------------------
(* Type correctness *)

LEMMA InitTyped == Init => IInv
<1> SUFFICES ASSUME Init PROVE IInv
  OBVIOUS
<1>1. RowsOK
  BY DEF Init, RowsOK, Row, Parents, Exists
<1>2. HandlersOK
  BY DEF Init, HandlersOK, Labels, Frames, Knows, FrameFits, CreateLabels, MoveLabels, CascadeLabels
<1> QED
  BY <1>1, <1>2 DEF IInv

LEMMA BeginTyped ==
  ASSUME IInv, NEW p \in Procs, Begin(p)
  PROVE  IInv'
<1> USE DEF IInv
<1>1. ASSUME NEW t \in Parents, Create(p, t)
      PROVE  IInv'
  <2> DEFINE f == [parent |-> t]
  <2>1. PICK l \in CreateLabels : Enter(p, l, f)
    BY <1>1 DEF Create, CreateLabels
  <2>2. RowsOK' /\ Grows
    <3>1. CASE UNCHANGED branch
      BY <1>1, <3>1 DEF Create, RowsOK, Grows
    <3>2. CASE ClearHeadquarters(NoRow)
      BY <1>1, <3>2, Cleared DEF Create
    <3> QED
      BY <1>1, <3>1, <3>2 DEF Create
  <2>3. f \in [parent : Parents] /\ f.parent = t /\ Exists(branch, t)
    BY <1>1 DEF Create, Exists, Live
  <2>4. f \in Frames /\ l \in Labels
    BY <2>1, <2>3 DEF Frames, Labels
  <2> HIDE DEF f
  <2>5. Exists(branch', t)
    BY <2>2, <2>3 DEF Grows, Exists, Parents
  <2>6. Knows(branch', l, f)
    BY <2>1, <2>3, <2>5 DEF Knows, FrameFits, CreateLabels, MoveLabels, CascadeLabels
  <2> QED
    BY <2>1, <2>2, <2>4, <2>6, Moved
<1>2. ASSUME NEW b \in Live, Update(p, b)
      PROVE  IInv'
  <2> DEFINE f == [id |-> b]
  <2>1. Enter(p, "update.write", f)
    BY <1>2 DEF Update
  <2>2. RowsOK' /\ Grows
    BY <1>2, Cleared DEF Update
  <2>3. f \in [id : Branches]
    BY DEF Live
  <2>4. f \in Frames /\ "update.write" \in Labels
    BY <2>3 DEF Frames, Labels
  <2> HIDE DEF f
  <2>5. Knows(branch', "update.write", f)
    BY <2>3 DEF Knows, FrameFits, CreateLabels, MoveLabels, CascadeLabels
  <2> QED
    BY <2>1, <2>2, <2>4, <2>5, Moved
<1>3. ASSUME NEW b \in Live, Cascade(p, b)
      PROVE  IInv'
  <2> DEFINE f == [ids |-> FindDescendants(b) \cup {b}]
  <2>1. PICK l \in CascadeLabels : Enter(p, l, f)
    BY <1>3 DEF Cascade
  <2>2. RowsOK' /\ Grows
    BY <1>3 DEF Cascade, RowsOK, Grows
  <2>3. f \in [ids : SUBSET Branches]
    BY DEF Live, FindDescendants
  <2>4. f \in Frames /\ l \in Labels
    BY <2>1, <2>3 DEF Frames, Labels
  <2> HIDE DEF f
  <2>5. Knows(branch', l, f)
    BY <2>1, <2>3 DEF Knows, FrameFits, CreateLabels, MoveLabels, CascadeLabels
  <2> QED
    BY <2>1, <2>2, <2>4, <2>5, Moved
<1>4. ASSUME NEW b \in Live, NEW t \in Parents, Move(p, b, t)
      PROVE  IInv'
  <2> DEFINE c == IF t = NoRow THEN NoRow ELSE branch[t].parent
             f == [id |-> b, target |-> t, visited |-> {t}, cur |-> c]
  <2>1. RowsOK' /\ UNCHANGED branch /\ WalkOn(p, f)
    BY <1>4 DEF Move, RowsOK
  <2>2. b \in Branches /\ Exists(branch, t) /\ c \in Parents /\ Exists(branch, c)
    BY <1>4 DEF Move, RowsOK, Row, Exists, Live, Parents
  <2>3. c = NoRow \/ (t \in Branches /\ c \in Branches)
    BY <2>2 DEF Parents
  <2>4. f.id = b /\ f.target = t /\ f.cur = c /\ (c = NoRow \/ f \in WalkFrame)
    BY <2>2, <2>3 DEF WalkFrame
  <2> HIDE DEF c, f
  <2> QED
    BY <2>1, <2>2, <2>4, WalkGoesOn
<1> QED
  BY <1>1, <1>2, <1>3, <1>4 DEF Begin

LEMMA ContinueTyped ==
  ASSUME IInv, NEW p \in Procs, Continue(p)
  PROVE  IInv'
<1> USE DEF IInv
<1>0. Knows(branch, pc[p], frame[p])
  BY DEF HandlersOK
<1>1. CASE CreateInsert(p)
  <2>1. frame[p].parent \in Parents /\ Exists(branch, frame[p].parent)
    BY <1>0, <1>1 DEF CreateInsert, Knows, FrameFits
  <2> DEFINE par == frame[p].parent
             flag == pc[p] = "create.flagged"
  <2>2. PICK b \in Branches :
          /\ branch[b].state = "absent"
          /\ branch' = [branch EXCEPT ![b] =
                         [state |-> "live", parent |-> par, hq |-> flag, active |-> TRUE]]
    BY <1>1 DEF CreateInsert
  <2>3. flag \in BOOLEAN
    OBVIOUS
  <2>4. par \in Parents /\ Exists(branch, par)
    BY <2>1
  <2> HIDE DEF par, flag
  <2>5. RowsOK' /\ Grows
    BY <1>1, <2>2, <2>3, <2>4 DEF CreateInsert, RowsOK, Row, Exists, Parents, Grows
  <2> QED
    BY <1>1, <2>5, Ended DEF CreateInsert
<1>2. CASE UpdateWrite(p)
  <2>1. ASSUME NEW b \in Branches
        PROVE  /\ branch'[b] \in Row
               /\ branch'[b].parent = branch[b].parent /\ branch'[b].state = branch[b].state
    BY <1>2 DEF UpdateWrite, RowsOK, Row
  <2>2. branch' \in [Branches -> Row] /\ Grows /\ restored' \subseteq Branches
    BY <1>2, <2>1 DEF UpdateWrite, RowsOK, Grows
  <2>3. RowsOK'
    BY <2>1, <2>2, RowsKept
  <2> QED
    BY <1>2, <2>2, <2>3, Ended DEF UpdateWrite
<1>3. CASE MoveWalk(p)
  <2> DEFINE f == frame[p]
  <2>1. f \in WalkFrame /\ Exists(branch, f.target) /\ Exists(branch, f.cur)
    BY <1>0, <1>3 DEF MoveWalk, Knows, FrameFits, MoveLabels
  <2>2. UNCHANGED branch /\ RowsOK' /\ Grows
    BY <1>3 DEF MoveWalk, RowsOK, Grows
  <2>3. CASE f.cur \in Live /\ f.cur = f.id
    BY <1>3, <2>2, <2>3, Ended DEF MoveWalk
  <2>4. CASE ~(f.cur \in Live /\ f.cur = f.id)
    <3> DEFINE c == IF f.cur \in Live THEN branch[f.cur].parent ELSE NoRow
               g == [f EXCEPT !.visited = @ \cup {f.cur}, !.cur = c]
    <3>1. WalkOn(p, g)
      BY <1>3, <2>4 DEF MoveWalk
    <3>2. c \in Parents /\ Exists(branch, c)
      BY <2>1 DEF RowsOK, Row, Exists, Live, Parents
    <3>3. /\ g.id \in Branches /\ g.target = f.target /\ g.target \in Parents /\ g.cur = c
          /\ c = NoRow \/ g \in WalkFrame
      BY <2>1, <3>2 DEF WalkFrame, Parents
    <3> HIDE DEF c, g
    <3> QED
      BY <2>1, <2>2, <3>1, <3>2, <3>3, WalkGoesOn
  <2> QED
    BY <2>3, <2>4
<1>4. CASE MoveWrite(p)
  <2>1. frame[p].target \in Parents /\ Exists(branch, frame[p].target)
    BY <1>0, <1>4 DEF MoveWrite, Knows, FrameFits, MoveLabels
  <2>2. RowsOK' /\ Grows
    BY <1>4, <2>1 DEF MoveWrite, RowsOK, Row, Exists, Parents, Grows
  <2> QED
    BY <1>4, <2>2, Ended DEF MoveWrite
<1>5. CASE CascadeWrite(p)
  <2>1. ASSUME NEW b \in Branches
        PROVE  /\ branch'[b] \in Row /\ branch'[b].parent = branch[b].parent
               /\ branch[b].state # "absent" => branch'[b].state # "absent"
    BY <1>5 DEF CascadeWrite, RowsOK, Row
  <2>2. branch' \in [Branches -> Row] /\ Grows /\ restored' \subseteq Branches
    BY <1>5, <2>1 DEF CascadeWrite, RowsOK, Grows
  <2>3. RowsOK'
    BY <2>1, <2>2, RowsKept
  <2> QED
    BY <1>5, <2>2, <2>3, Ended DEF CascadeWrite
<1> QED
  BY <1>1, <1>2, <1>3, <1>4, <1>5 DEF Continue

LEMMA StepTyped == IInv /\ [Next]_vars => IInv'
<1> SUFFICES ASSUME IInv, [Next]_vars PROVE IInv'
  OBVIOUS
<1> USE DEF IInv
<1>1. ASSUME NEW b \in Branches, UpdateUnflag(b) \/ Reactivate(b) \/ Restore(b)
      PROVE  IInv'
  <2>1. branch' \in [Branches -> Row]
    <3>1. CASE UpdateUnflag(b)
      BY <3>1 DEF UpdateUnflag, RowsOK, Row
    <3>2. CASE Reactivate(b)
      BY <3>2 DEF Reactivate, RowsOK, Row
    <3>3. CASE Restore(b)
      <4> DEFINE r == [branch[b] EXCEPT !.state = "live", !.active = TRUE]
      <4>1. branch' = [branch EXCEPT ![b] = r]
        BY <3>3 DEF Restore, RowsOK
      <4>2. r \in Row
        BY DEF RowsOK, Row
      <4> HIDE DEF r
      <4> QED
        BY <4>1, <4>2 DEF RowsOK
    <3> QED
      BY <1>1, <3>1, <3>2, <3>3
  <2>2. /\ \A x \in Branches : branch'[x].parent = branch[x].parent
        /\ Grows /\ restored' \subseteq Branches
    BY <1>1 DEF UpdateUnflag, Reactivate, Restore, RowsOK, Row, Grows
  <2>3. UNCHANGED <<pc, frame>>
    BY <1>1 DEF UpdateUnflag, Reactivate, Restore
  <2> QED
    BY <2>1, <2>2, <2>3, RowsKept, Stayed
<1>2. ASSUME NEW p \in Procs, Fail(p)
      PROVE  IInv'
  <2>1. RowsOK' /\ Grows
    BY <1>2 DEF Fail, RowsOK, Grows
  <2> QED
    BY <1>2, <2>1, Ended DEF Fail
<1>3. CASE UNCHANGED vars
  <2>1. RowsOK' /\ Grows /\ UNCHANGED <<pc, frame>>
    BY <1>3 DEF vars, RowsOK, Grows
  <2> QED
    BY <2>1, Stayed
<1> QED
  BY <1>1, <1>2, <1>3, BeginTyped, ContinueTyped DEF Next

(* However handlers overlap and wherever they die, rows and handlers stay  *)
(* well formed, and no branch ever has a parent that does not exist.       *)
THEOREM TypeCorrect == Spec => []TypeOK
<1>1. Init => IInv
  BY InitTyped
<1>2. IInv /\ [Next]_vars => IInv'
  BY StepTyped
<1>3. IInv => TypeOK
  BY Typed
<1> QED
  BY <1>1, <1>2, <1>3, PTL DEF Spec

-----------------------------------------------------------------------------
(* One headquarters *)

(* The handler about to set the flag has cleared the others, and nobody    *)
(* has set one since.                                                      *)
FlagCleared(B, l, f) ==
  /\ l = "create.flagged" => \A b \in Branches : ~B[b].hq
  /\ l = "update.write" => \A b \in Branches : B[b].hq => b = f.id

HqInv == OneHeadquarters /\ \A p \in Procs : FlagCleared(branch, pc[p], frame[p])

ApartInv == IInv /\ Apart

LEMMA ApartTyped ==
  /\ Init => ApartInv
  /\ ApartInv /\ [Next /\ Apart']_vars => ApartInv'
<1>1. ASSUME Init
      PROVE  ApartInv
  BY <1>1, InitTyped DEF ApartInv, Init, Apart, Moving, Flagging, MoveLabels
<1>2. ASSUME ApartInv, [Next /\ Apart']_vars
      PROVE  ApartInv'
  <2>1. IInv'
    BY <1>2, StepTyped DEF ApartInv
  <2>2. Apart'
    BY <1>2 DEF ApartInv, vars, Apart, Moving, Flagging
  <2> QED
    BY <2>1, <2>2 DEF ApartInv
<1> QED
  BY <1>1, <1>2

(* No flag is set. *)
Unflags == \A b \in Branches : branch'[b].hq => branch[b].hq

LEMMA StillCleared ==
  ASSUME HqInv, Unflags
  PROVE  OneHeadquarters' /\ \A p \in Procs : FlagCleared(branch', pc[p], frame[p])
BY DEF HqInv, OneHeadquarters, FlagCleared, Unflags

(* A handler that is not about to set the flag needs to know nothing. *)
LEMMA HqMoved ==
  ASSUME ApartInv, HqInv, Unflags, NEW p \in Procs,
         \A q \in Procs : q # p => pc'[q] = pc[q] /\ frame'[q] = frame[q],
         FlagCleared(branch', pc'[p], frame'[p])
  PROVE  HqInv'
<1>1. ASSUME NEW q \in Procs
      PROVE  FlagCleared(branch', pc'[q], frame'[q])
  <2>1. CASE q = p
    BY <2>1
  <2>2. CASE q # p
    BY <2>2, StillCleared
  <2> QED
    BY <2>1, <2>2
<1> QED
  BY <1>1, StillCleared DEF HqInv

LEMMA Others ==
  ASSUME IInv, NEW p \in Procs, NEW l, NEW f, Enter(p, l, f)
  PROVE  /\ pc'[p] = l /\ frame'[p] = f
         /\ \A q \in Procs : q # p => pc'[q] = pc[q] /\ frame'[q] = frame[q]
BY DEF Enter, Goto, IInv, HandlersOK

LEMMA FinishEnters ==
  ASSUME NEW p, Finish(p)
  PROVE  Enter(p, "idle", NoRow)
BY DEF Finish, Enter

(* What becomes of the walk of a move. *)
LEMMA WalkEnters ==
  ASSUME NEW p, NEW f, WalkOn(p, f)
  PROVE  \/ /\ f.cur = NoRow \/ f.cur \in f.visited
            /\ Enter(p, "move.write", [id |-> f.id, target |-> f.target])
         \/ f.cur # NoRow /\ Enter(p, "move.walk", f)
BY DEF WalkOn, Enter

LEMMA HqStep == ApartInv /\ HqInv /\ [Next /\ Apart']_vars => HqInv'
<1> SUFFICES ASSUME ApartInv, HqInv, [Next /\ Apart']_vars PROVE HqInv'
  OBVIOUS
<1> USE DEF ApartInv
<1>0. Apart'
  BY ApartTyped
<1>1. ASSUME NEW b \in Branches, UpdateUnflag(b) \/ Reactivate(b) \/ Restore(b)
      PROVE  HqInv'
  <2>1. Unflags
    BY <1>1 DEF UpdateUnflag, Reactivate, Restore, Unflags, IInv, RowsOK, Row
  <2>2. UNCHANGED <<pc, frame>>
    BY <1>1 DEF UpdateUnflag, Reactivate, Restore
  <2> QED
    BY <2>1, <2>2, StillCleared DEF HqInv
<1>2. ASSUME NEW p \in Procs, Begin(p)
      PROVE  HqInv'
  <2>1. ASSUME NEW t \in Parents, Create(p, t)
        PROVE  HqInv'
    <3>1. CASE Enter(p, "create.insert", [parent |-> t]) /\ UNCHANGED branch
      <4>1. Unflags /\ FlagCleared(branch', pc'[p], frame'[p])
        BY <3>1, Others DEF Unflags, FlagCleared
      <4> QED
        BY <3>1, <4>1, Others, HqMoved
    <3>2. CASE Enter(p, "create.flagged", [parent |-> t]) /\ ClearHeadquarters(NoRow)
      <4>1. \A b \in Branches : ~branch'[b].hq
        BY <3>2, RootAssumption DEF ClearHeadquarters, IInv, RowsOK, Row
      <4>2. Unflags /\ FlagCleared(branch', pc'[p], frame'[p])
        BY <3>2, <4>1, Others DEF Unflags, FlagCleared
      <4> QED
        BY <3>2, <4>2, Others, HqMoved
    <3> QED
      BY <2>1, <3>1, <3>2 DEF Create
  <2>2. ASSUME NEW b \in Live, Update(p, b)
        PROVE  HqInv'
    <3> DEFINE f == [id |-> b]
    <3>1. Enter(p, "update.write", f) /\ ClearHeadquarters(b)
      BY <2>2 DEF Update
    <3>2. \A x \in Branches : branch'[x].hq => x = b /\ branch[x].hq
      BY <3>1 DEF ClearHeadquarters, IInv, RowsOK, Row
    <3>3. Unflags /\ FlagCleared(branch', pc'[p], frame'[p])
      BY <3>1, <3>2, Others DEF Unflags, FlagCleared
    <3> QED
      BY <3>1, <3>3, Others, HqMoved
  <2>3. ASSUME NEW b \in Live, Cascade(p, b)
        PROVE  HqInv'
    <3>1. PICK l \in CascadeLabels : Enter(p, l, [ids |-> FindDescendants(b) \cup {b}])
      BY <2>3 DEF Cascade
    <3>2. Unflags /\ FlagCleared(branch', pc'[p], frame'[p])
      BY <2>3, <3>1, Others DEF Cascade, Unflags, FlagCleared, CascadeLabels
    <3> QED
      BY <3>1, <3>2, Others, HqMoved
  <2>4. ASSUME NEW b \in Live, NEW t \in Parents, Move(p, b, t)
        PROVE  HqInv'
    <3>1. \E l \in MoveLabels : \E f : Enter(p, l, f)
      BY <2>4, WalkEnters DEF Move, MoveLabels
    <3>2. Unflags /\ FlagCleared(branch', pc'[p], frame'[p])
      BY <2>4, <3>1, Others DEF Move, Unflags, FlagCleared, MoveLabels
    <3> QED
      BY <3>1, <3>2, Others, HqMoved
  <2> QED
    BY <1>2, <2>1, <2>2, <2>3, <2>4 DEF Begin
<1>3. ASSUME NEW p \in Procs, Continue(p)
      PROVE  HqInv'
  <2>1. ASSUME NEW q \in Procs, q # p, Flagging(p)
        PROVE  ~Flagging(q)
    BY <2>1 DEF Apart
  <2>2. CASE CreateInsert(p)
    <3>1. PICK b \in Branches :
            branch' = [branch EXCEPT ![b] =
                         [state |-> "live", parent |-> frame[p].parent,
                          hq |-> pc[p] = "create.flagged", active |-> TRUE]]
      BY <2>2 DEF CreateInsert
    <3>2. \A x \in Branches :
            branch'[x].hq => IF x = b THEN pc[p] = "create.flagged" ELSE branch[x].hq
      BY <3>1 DEF IInv, RowsOK
    <3>3. Enter(p, "idle", NoRow)
      BY <2>2, FinishEnters DEF CreateInsert
    <3>4. CASE pc[p] = "create.flagged"
      <4>1. \A x \in Branches : branch'[x].hq => x = b
        BY <3>2, <3>4 DEF HqInv, FlagCleared
      <4>2. ASSUME NEW q \in Procs
            PROVE  FlagCleared(branch', pc'[q], frame'[q])
        <5>1. CASE q = p
          BY <3>3, <5>1, Others DEF FlagCleared
        <5>2. CASE q # p
          BY <2>1, <3>3, <3>4, <5>2, Others DEF FlagCleared, Flagging
        <5> QED
          BY <5>1, <5>2
      <4> QED
        BY <4>1, <4>2 DEF HqInv, OneHeadquarters
    <3>5. CASE pc[p] # "create.flagged"
      <4>1. Unflags
        BY <3>2, <3>5 DEF Unflags
      <4>2. FlagCleared(branch', pc'[p], frame'[p])
        BY <3>3, Others DEF FlagCleared
      <4> QED
        BY <3>3, <4>1, <4>2, Others, HqMoved
    <3> QED
      BY <3>4, <3>5
  <2>3. CASE UpdateWrite(p)
    <3>1. pc[p] = "update.write" /\ branch' = [branch EXCEPT ![frame[p].id].hq = TRUE]
      BY <2>3 DEF UpdateWrite
    <3>2. \A x \in Branches : branch'[x].hq => x = frame[p].id
      BY <3>1 DEF HqInv, FlagCleared, IInv, RowsOK
    <3>3. Enter(p, "idle", NoRow)
      BY <2>3, FinishEnters DEF UpdateWrite
    <3>4. ASSUME NEW q \in Procs
          PROVE  FlagCleared(branch', pc'[q], frame'[q])
      <4>1. CASE q = p
        BY <3>3, <4>1, Others DEF FlagCleared
      <4>2. CASE q # p
        BY <2>1, <3>1, <3>3, <4>2, Others DEF FlagCleared, Flagging
      <4> QED
        BY <4>1, <4>2
    <3> QED
      BY <3>2, <3>4 DEF HqInv, OneHeadquarters
  <2>4. CASE MoveWalk(p)
    <3>1. \E l \in MoveLabels \cup {"idle"} : \E f : Enter(p, l, f)
      BY <2>4, WalkEnters, FinishEnters DEF MoveWalk, MoveLabels
    <3>2. Unflags /\ FlagCleared(branch', pc'[p], frame'[p])
      BY <2>4, <3>1, Others DEF MoveWalk, Unflags, FlagCleared, MoveLabels
    <3> QED
      BY <3>1, <3>2, Others, HqMoved
  <2>5. CASE MoveWrite(p) \/ CascadeWrite(p)
    <3>1. Enter(p, "idle", NoRow)
      BY <2>5, FinishEnters DEF MoveWrite, CascadeWrite
    <3>2. FlagCleared(branch', pc'[p], frame'[p])
      BY <3>1, Others DEF FlagCleared
    <3>3. ASSUME NEW b \in Branches
          PROVE  branch'[b].hq = branch[b].hq
      <4>1. branch[b] \in Row /\ branch \in [Branches -> Row]
        BY DEF IInv, RowsOK
      <4>2. CASE MoveWrite(p)
        BY <4>1, <4>2 DEF MoveWrite, Row
      <4>3. CASE CascadeWrite(p)
        BY <4>1, <4>3 DEF CascadeWrite, Row
      <4> QED
        BY <2>5, <4>2, <4>3
    <3> QED
      BY <3>1, <3>2, <3>3, Others, HqMoved DEF Unflags
  <2> QED
    BY <1>3, <2>2, <2>3, <2>4, <2>5 DEF Continue
<1>4. ASSUME NEW p \in Procs, Fail(p)
      PROVE  HqInv'
  <2>1. Enter(p, "idle", NoRow)
    BY <1>4, FinishEnters DEF Fail
  <2>2. Unflags /\ FlagCleared(branch', pc'[p], frame'[p])
    BY <1>4, <2>1, Others DEF Fail, Unflags, FlagCleared
  <2> QED
    BY <2>1, <2>2, Others, HqMoved
<1>5. CASE UNCHANGED vars
  BY <1>5 DEF vars, HqInv, OneHeadquarters, FlagCleared
<1> QED
  BY <1>1, <1>2, <1>3, <1>4, <1>5 DEF Next

(* While no two handlers that set the flag overlap, there is never a       *)
(* second headquarters, not even in the trash, whatever dies in between.   *)
THEOREM SingleHeadquarters == ApartSpec => []OneHeadquarters
<1>1. Init => ApartInv /\ HqInv
  <2>1. Init => HqInv
    BY DEF Init, HqInv, OneHeadquarters, FlagCleared
  <2> QED
    BY <2>1, ApartTyped
<1>2. ApartInv /\ HqInv /\ [Next /\ Apart']_vars => (ApartInv /\ HqInv)'
  BY ApartTyped, HqStep
<1>3. HqInv => OneHeadquarters
  BY DEF HqInv
<1> QED
  BY <1>1, <1>2, <1>3, PTL DEF ApartSpec
-----------------------------------------------------------------------------
(* Cycles *)

(* x was in the trash once. *)
Gone(B, R, x) == B[x].state = "deleted" \/ x \in R

(* A move of id below target has climbed the rows V and looks at cur next: *)
(* the only ways out of V are cur and rows that have been in the trash.    *)
Climbed(B, R, id, target, V, cur) ==
  /\ target \in V
  /\ \A x \in V : /\ B[x].state # "absent"
                  /\ Gone(B, R, x) \/ (x # id /\ B[x].parent \in V \cup {cur})

(* What a move knows of the rows above its target. *)
Climbs(B, R, l, f) ==
  /\ l = "move.walk" => Climbed(B, R, f.id, f.target, f.visited, f.cur)
  /\ l = "move.write" /\ f.target # NoRow =>
       \E V \in SUBSET Branches : Climbed(B, R, f.id, f.target, V, NoRow)

CycleInv ==
  /\ CyclesGoThroughTrash
  /\ \A p \in Procs : Climbs(branch, restored, pc[p], frame[p])

(* No branch moves, and those that have been in the trash still have. *)
Keeps ==
  /\ Grows
  /\ \A b \in Branches :
       /\ branch[b].state # "absent" => branch'[b].parent = branch[b].parent
       /\ Gone(branch, restored, b) => Gone(branch', restored', b)

LEMMA ClimbedKept ==
  ASSUME Keeps, NEW id, NEW target, NEW cur, NEW V \in SUBSET Branches,
         Climbed(branch, restored, id, target, V, cur)
  PROVE  Climbed(branch', restored', id, target, V, cur)
BY DEF Keeps, Grows, Climbed

LEMMA ClimbsKept ==
  ASSUME IInv, CycleInv, Keeps, NEW p \in Procs
  PROVE  Climbs(branch', restored', pc[p], frame[p])
<1>1. Climbs(branch, restored, pc[p], frame[p])
  BY DEF CycleInv
<1>2. pc[p] = "move.walk" => frame[p].visited \in SUBSET Branches
  BY DEF IInv, HandlersOK, Knows, FrameFits, WalkFrame
<1> QED
  BY <1>1, <1>2, ClimbedKept DEF Climbs

(* Only a handler that is moving a branch knows anything. *)
LEMMA ClimbMoved ==
  ASSUME IInv, CycleInv, Keeps, CyclesGoThroughTrash', NEW p \in Procs,
         \A q \in Procs : q # p => pc'[q] = pc[q] /\ frame'[q] = frame[q],
         Climbs(branch', restored', pc'[p], frame'[p])
  PROVE  CycleInv'
<1>1. ASSUME NEW q \in Procs
      PROVE  Climbs(branch', restored', pc'[q], frame'[q])
  <2>1. CASE q = p
    BY <2>1
  <2>2. CASE q # p
    BY <2>2, ClimbsKept
  <2> QED
    BY <2>1, <2>2
<1> QED
  BY <1>1 DEF CycleInv

(* Where no branch moves and none becomes live, no cycle appears. *)
LEMMA CyclesKept ==
  ASSUME CyclesGoThroughTrash,
         \A b \in Branches : branch'[b].parent = branch[b].parent,
         (Live \ restored)' \subseteq Live \ restored
  PROVE  CyclesGoThroughTrash'
<1> SUFFICES ASSUME NEW S \in SUBSET (Live \ restored)', Closed(S)'
             PROVE  FALSE
  BY DEF CyclesGoThroughTrash
<1>1. S \in SUBSET (Live \ restored)
  OBVIOUS
<1>2. Closed(S)
  BY <1>1 DEF Closed, Live
<1> QED
  BY <1>1, <1>2 DEF CyclesGoThroughTrash

(* A new branch has no branch below it. *)
LEMMA InsertMakesNoCycle ==
  ASSUME IInv, CyclesGoThroughTrash, NEW b \in Branches, NEW row \in Row,
         branch[b].state = "absent", Exists(branch, row.parent),
         branch' = [branch EXCEPT ![b] = row], UNCHANGED restored
  PROVE  CyclesGoThroughTrash'
<1> SUFFICES ASSUME NEW S \in SUBSET (Live \ restored)', Closed(S)'
             PROVE  FALSE
  BY DEF CyclesGoThroughTrash
<1> DEFINE T == S \ {b}
<1>0. /\ branch \in [Branches -> Row] /\ S \subseteq Branches
      /\ \A x \in Branches : branch[x].parent # b
  BY RootAssumption DEF IInv, RowsOK, Exists, Live
<1>1. ASSUME NEW x \in T
      PROVE  x \in Live \ restored /\ branch[x].parent \in T
  <2>1. branch'[x] = branch[x] /\ x \in Branches
    BY <1>0
  <2> QED
    BY <1>0, <2>1 DEF Closed, Live
<1>2. T # {}
  <2>1. PICK x \in S : branch'[x].parent \in S
    BY DEF Closed
  <2>2. CASE x = b
    <3>1. row.parent \in S /\ row.parent # NoRow
      BY <1>0, <2>1, <2>2, RootAssumption
    <3> QED
      BY <3>1 DEF Exists
  <2> QED
    BY <2>2
<1> HIDE DEF T
<1> QED
  BY <1>1, <1>2 DEF CyclesGoThroughTrash, Closed

(* What a move has climbed does not lead back to the branch it moves. *)
LEMMA WriteMakesNoCycle ==
  ASSUME IInv, CycleInv, NEW p \in Procs, MoveWrite(p)
  PROVE  CyclesGoThroughTrash'
<1> SUFFICES ASSUME NEW S \in SUBSET (Live \ restored)', Closed(S)'
             PROVE  FALSE
  BY DEF CyclesGoThroughTrash
<1> DEFINE id == frame[p].id
           t == frame[p].target
<1>1. /\ branch' = [branch EXCEPT ![id].parent = t] /\ restored' = restored
      /\ branch \in [Branches -> Row] /\ t \in Parents /\ id \in Branches
      /\ t # NoRow => \E V \in SUBSET Branches : Climbed(branch, restored, id, t, V, NoRow)
  BY DEF MoveWrite, CycleInv, Climbs, IInv, RowsOK, HandlersOK, Knows, FrameFits
<1> HIDE DEF id, t
<1>2. ASSUME NEW x \in Branches
      PROVE  /\ branch'[x].state = branch[x].state
             /\ branch'[x].parent = IF x = id THEN t ELSE branch[x].parent
  BY <1>1 DEF Row
<1>3. S \subseteq Live \ restored /\ S \subseteq Branches
  BY <1>1, <1>2 DEF Live
<1>4. CASE id \notin S
  <2>1. Closed(S)
    BY <1>2, <1>3, <1>4 DEF Closed
  <2> QED
    BY <1>3, <2>1 DEF CycleInv, CyclesGoThroughTrash
<1>5. CASE id \in S
  <2>1. t \in S /\ t # NoRow
    BY <1>2, <1>3, <1>5, RootAssumption DEF Closed
  <2>2. PICK V \in SUBSET Branches : Climbed(branch, restored, id, t, V, NoRow)
    BY <1>1, <2>1
  <2>3. ASSUME NEW x \in S \cap V
        PROVE  branch[x].parent \in S \cap V
    <3>1. x \in Branches /\ ~Gone(branch, restored, x)
      BY <1>3 DEF Gone, Live
    <3>2. x # id /\ branch[x].parent \in V \cup {NoRow}
      BY <2>2, <3>1 DEF Climbed
    <3>3. branch[x].parent \in S
      BY <1>2, <3>1, <3>2 DEF Closed
    <3> QED
      BY <1>3, <3>2, <3>3, RootAssumption
  <2>4. Closed(S \cap V) /\ S \cap V \in SUBSET (Live \ restored)
    BY <1>3, <2>1, <2>2, <2>3 DEF Closed, Climbed
  <2> QED
    BY <2>4 DEF CycleInv, CyclesGoThroughTrash
<1> QED
  BY <1>4, <1>5

(* Whatever the walk of a move looks at next, it has climbed what it saw. *)
LEMMA WalkClimbs ==
  ASSUME IInv, NEW p \in Procs, NEW f, WalkOn(p, f),
         f.target = NoRow \/ f.visited \in SUBSET Branches,
         f.target # NoRow => Climbed(branch', restored', f.id, f.target, f.visited, f.cur),
         f.target = NoRow => f.cur = NoRow
  PROVE  Climbs(branch', restored', pc'[p], frame'[p])
<1>1. CASE f.cur # NoRow /\ Enter(p, "move.walk", f)
  BY <1>1, Others DEF Climbs
<1>2. CASE /\ f.cur = NoRow \/ f.cur \in f.visited
           /\ Enter(p, "move.write", [id |-> f.id, target |-> f.target])
  <2>1. /\ pc'[p] = "move.write"
        /\ frame'[p] = [id |-> f.id, target |-> f.target]
    BY <1>2, Others
  <2>2. frame'[p].id = f.id /\ frame'[p].target = f.target
    BY <2>1
  <2>3. ASSUME f.target # NoRow
        PROVE  Climbed(branch', restored', f.id, f.target, f.visited, NoRow)
    BY <1>2, <2>3 DEF Climbed
  <2> QED
    BY <2>1, <2>2, <2>3 DEF Climbs
<1> QED
  BY <1>1, <1>2, WalkEnters

LEMMA CycleBegin ==
  ASSUME IInv, CycleInv, NEW p \in Procs, Begin(p)
  PROVE  CycleInv'
<1>1. ASSUME NEW t \in Parents, Create(p, t)
      PROVE  CycleInv'
  <2>1. PICK l \in CreateLabels : Enter(p, l, [parent |-> t])
    BY <1>1 DEF Create, CreateLabels
  <2>2. Climbs(branch', restored', pc'[p], frame'[p])
    BY <2>1, Others DEF Climbs, CreateLabels
  <2>3. ASSUME NEW b \in Branches
        PROVE  branch'[b].state = branch[b].state /\ branch'[b].parent = branch[b].parent
    <3>1. branch[b] \in Row
      BY DEF IInv, RowsOK
    <3> QED
      BY <1>1, <3>1 DEF Create, ClearHeadquarters, Row
  <2>4. restored' = restored
    BY <1>1 DEF Create
  <2>5. Keeps /\ (Live \ restored)' \subseteq Live \ restored
    BY <2>3, <2>4 DEF Keeps, Grows, Gone, Live
  <2>6. CyclesGoThroughTrash'
    BY <2>3, <2>5, CyclesKept DEF CycleInv
  <2> QED
    BY <2>1, <2>2, <2>5, <2>6, Others, ClimbMoved
<1>2. ASSUME NEW b \in Live, Update(p, b)
      PROVE  CycleInv'
  <2>1. Enter(p, "update.write", [id |-> b])
    BY <1>2 DEF Update
  <2>2. Climbs(branch', restored', pc'[p], frame'[p])
    BY <2>1, Others DEF Climbs
  <2>3. ASSUME NEW x \in Branches
        PROVE  branch'[x].state = branch[x].state /\ branch'[x].parent = branch[x].parent
    <3>1. branch[x] \in Row
      BY DEF IInv, RowsOK
    <3> QED
      BY <1>2, <3>1 DEF Update, ClearHeadquarters, Row
  <2>4. restored' = restored
    BY <1>2 DEF Update
  <2>5. Keeps /\ (Live \ restored)' \subseteq Live \ restored
    BY <2>3, <2>4 DEF Keeps, Grows, Gone, Live
  <2>6. CyclesGoThroughTrash'
    BY <2>3, <2>5, CyclesKept DEF CycleInv
  <2> QED
    BY <2>1, <2>2, <2>5, <2>6, Others, ClimbMoved
<1>3. ASSUME NEW b \in Live, Cascade(p, b)
      PROVE  CycleInv'
  <2>1. PICK l \in CascadeLabels : Enter(p, l, [ids |-> FindDescendants(b) \cup {b}])
    BY <1>3 DEF Cascade
  <2>2. Climbs(branch', restored', pc'[p], frame'[p])
    BY <2>1, Others DEF Climbs, CascadeLabels
  <2>3. Keeps /\ CyclesGoThroughTrash'
    BY <1>3 DEF Cascade, Keeps, Grows, Gone, CycleInv, CyclesGoThroughTrash, Closed, Live
  <2> QED
    BY <2>1, <2>2, <2>3, Others, ClimbMoved
<1>4. ASSUME NEW b \in Live, NEW t \in Parents, Move(p, b, t)
      PROVE  CycleInv'
  <2> DEFINE c == IF t = NoRow THEN NoRow ELSE branch[t].parent
             f == [id |-> b, target |-> t, visited |-> {t}, cur |-> c]
  <2>1. UNCHANGED <<branch, restored>> /\ WalkOn(p, f)
    BY <1>4 DEF Move
  <2>2. f.id = b /\ f.target = t /\ f.visited = {t} /\ f.cur = c
    OBVIOUS
  <2>3. t # NoRow => Climbed(branch', restored', b, t, {t}, c) /\ {t} \in SUBSET Branches
    BY <1>4, <2>1 DEF Move, Climbed, Live
  <2>4. t = NoRow => c = NoRow
    OBVIOUS
  <2>5. \E l, g : Enter(p, l, g)
    BY <2>1, WalkEnters
  <2> HIDE DEF c, f
  <2>6. Climbs(branch', restored', pc'[p], frame'[p])
    BY <2>1, <2>2, <2>3, <2>4, WalkClimbs
  <2>7. Keeps /\ CyclesGoThroughTrash'
    BY <2>1 DEF Keeps, Grows, Gone, CycleInv, CyclesGoThroughTrash, Closed, Live
  <2> QED
    BY <2>5, <2>6, <2>7, Others, ClimbMoved
<1> QED
  BY <1>1, <1>2, <1>3, <1>4 DEF Begin

LEMMA CycleContinue ==
  ASSUME ApartInv, CycleInv, NEW p \in Procs, Continue(p)
  PROVE  CycleInv'
<1> USE DEF ApartInv
<1>1. CASE CreateInsert(p)
  <2>1. PICK b \in Branches :
          /\ branch[b].state = "absent"
          /\ branch' = [branch EXCEPT ![b] =
                         [state |-> "live", parent |-> frame[p].parent,
                          hq |-> pc[p] = "create.flagged", active |-> TRUE]]
    BY <1>1 DEF CreateInsert
  <2> DEFINE row == [state |-> "live", parent |-> frame[p].parent,
                     hq |-> pc[p] = "create.flagged", active |-> TRUE]
  <2>2. row.parent \in Parents /\ Exists(branch, row.parent)
    BY <1>1 DEF CreateInsert, IInv, HandlersOK, Knows, FrameFits
  <2>3. row \in Row /\ row.state = "live"
    BY <2>2 DEF Row
  <2>4. Enter(p, "idle", NoRow) /\ restored' = restored
    BY <1>1, FinishEnters DEF CreateInsert
  <2>5. branch' = [branch EXCEPT ![b] = row] /\ branch \in [Branches -> Row]
    BY <2>1 DEF IInv, RowsOK
  <2> HIDE DEF row
  <2>6. CyclesGoThroughTrash'
    BY <2>1, <2>2, <2>3, <2>4, <2>5, InsertMakesNoCycle DEF CycleInv
  <2>7. Keeps
    BY <2>1, <2>3, <2>4, <2>5 DEF Keeps, Grows, Gone
  <2>8. Climbs(branch', restored', pc'[p], frame'[p])
    BY <2>4, Others DEF Climbs
  <2> QED
    BY <2>4, <2>6, <2>7, <2>8, Others, ClimbMoved
<1>2. CASE UpdateWrite(p)
  <2>1. ASSUME NEW b \in Branches
        PROVE  branch'[b].state = branch[b].state /\ branch'[b].parent = branch[b].parent
    BY <1>2 DEF UpdateWrite, IInv, RowsOK, Row
  <2>2. Enter(p, "idle", NoRow) /\ restored' = restored
    BY <1>2, FinishEnters DEF UpdateWrite
  <2>3. Keeps /\ (Live \ restored)' \subseteq Live \ restored
    BY <2>1, <2>2 DEF Keeps, Grows, Gone, Live
  <2>4. CyclesGoThroughTrash'
    BY <2>1, <2>3, CyclesKept DEF CycleInv
  <2>5. Climbs(branch', restored', pc'[p], frame'[p])
    BY <2>2, Others DEF Climbs
  <2> QED
    BY <2>2, <2>3, <2>4, <2>5, Others, ClimbMoved
<1>3. CASE MoveWalk(p)
  <2> DEFINE f == frame[p]
  <2>1. /\ f \in WalkFrame /\ Exists(branch, f.cur)
        /\ Climbed(branch, restored, f.id, f.target, f.visited, f.cur)
    BY <1>3 DEF MoveWalk, CycleInv, Climbs, IInv, HandlersOK, Knows, FrameFits
  <2>2. UNCHANGED <<branch, restored>>
    BY <1>3 DEF MoveWalk
  <2>3. Keeps /\ CyclesGoThroughTrash'
    BY <2>2 DEF Keeps, Grows, Gone, CycleInv, CyclesGoThroughTrash, Closed, Live
  <2>4. CASE f.cur \in Live /\ f.cur = f.id
    <3>1. Enter(p, "idle", NoRow)
      BY <1>3, <2>4, FinishEnters DEF MoveWalk
    <3>2. Climbs(branch', restored', pc'[p], frame'[p])
      BY <3>1, Others DEF Climbs
    <3> QED
      BY <2>3, <3>1, <3>2, Others, ClimbMoved
  <2>5. CASE ~(f.cur \in Live /\ f.cur = f.id)
    <3> DEFINE V == f.visited \cup {f.cur}
               c == IF f.cur \in Live THEN branch[f.cur].parent ELSE NoRow
               g == [f EXCEPT !.visited = @ \cup {f.cur}, !.cur = c]
    <3>1. WalkOn(p, g)
      BY <1>3, <2>5 DEF MoveWalk
    <3>2. /\ g.id = f.id /\ g.target = f.target /\ g.visited = V /\ g.cur = c
          /\ V \in SUBSET Branches /\ f.target # NoRow
      BY <2>1, RootAssumption DEF WalkFrame
    <3>3. Climbed(branch, restored, f.id, f.target, V, c)
      <4>1. f.cur \in Branches /\ branch[f.cur] \in Row /\ branch[f.cur].state # "absent"
        BY <2>1, RootAssumption DEF WalkFrame, Exists, IInv, RowsOK
      <4>2. CASE f.cur \in Live
        BY <2>1, <2>5, <4>1, <4>2 DEF Climbed
      <4>3. CASE f.cur \notin Live
        <5>1. Gone(branch, restored, f.cur)
          BY <4>1, <4>3 DEF Live, Gone, Row
        <5> QED
          BY <2>1, <4>1, <5>1 DEF Climbed
      <4> QED
        BY <4>2, <4>3
    <3>4. \E l, h : Enter(p, l, h)
      BY <3>1, WalkEnters
    <3> HIDE DEF V, c, g
    <3>5. Climbs(branch', restored', pc'[p], frame'[p])
      BY <2>2, <3>1, <3>2, <3>3, WalkClimbs
    <3> QED
      BY <2>3, <3>4, <3>5, Others, ClimbMoved
  <2> QED
    BY <2>4, <2>5
<1>4. CASE MoveWrite(p)
  <2>1. CyclesGoThroughTrash'
    BY <1>4, WriteMakesNoCycle
  <2>2. Enter(p, "idle", NoRow) /\ Moving(p)
    BY <1>4, FinishEnters DEF MoveWrite, Moving, MoveLabels
  <2>3. ASSUME NEW q \in Procs
        PROVE  Climbs(branch', restored', pc'[q], frame'[q])
    <3>1. CASE q = p
      BY <2>2, <3>1, Others DEF Climbs
    <3>2. CASE q # p
      BY <2>2, <3>2, Others DEF Climbs, Apart, Moving, MoveLabels
    <3> QED
      BY <3>1, <3>2
  <2> QED
    BY <2>1, <2>3 DEF CycleInv
<1>5. CASE CascadeWrite(p)
  <2>1. ASSUME NEW b \in Branches
        PROVE  /\ branch'[b].parent = branch[b].parent
               /\ branch'[b].state \in {branch[b].state, "deleted"}
    <3>1. branch[b] \in Row
      BY DEF IInv, RowsOK
    <3> QED
      BY <1>5, <3>1 DEF CascadeWrite, Row
  <2>2. Enter(p, "idle", NoRow) /\ restored' = restored
    BY <1>5, FinishEnters DEF CascadeWrite
  <2>3. Keeps /\ (Live \ restored)' \subseteq Live \ restored
    BY <2>1, <2>2 DEF Keeps, Grows, Gone, Live
  <2>4. CyclesGoThroughTrash'
    BY <2>1, <2>3, CyclesKept DEF CycleInv
  <2>5. Climbs(branch', restored', pc'[p], frame'[p])
    BY <2>2, Others DEF Climbs
  <2> QED
    BY <2>2, <2>3, <2>4, <2>5, Others, ClimbMoved
<1> QED
  BY <1>1, <1>2, <1>3, <1>4, <1>5 DEF Continue

LEMMA CycleStep == ApartInv /\ CycleInv /\ [Next /\ Apart']_vars => CycleInv'
<1> SUFFICES ASSUME ApartInv, CycleInv, [Next /\ Apart']_vars PROVE CycleInv'
  OBVIOUS
<1> USE DEF ApartInv
<1>1. ASSUME NEW b \in Branches, UpdateUnflag(b) \/ Reactivate(b) \/ Restore(b)
      PROVE  CycleInv'
  <2>1. UNCHANGED <<pc, frame>>
    BY <1>1 DEF UpdateUnflag, Reactivate, Restore
  <2>2. ASSUME NEW x \in Branches
        PROVE  /\ branch'[x].parent = branch[x].parent
               /\ \/ branch'[x].state = branch[x].state
                  \/ branch[x].state = "deleted" /\ x \in restored'
    <3>1. branch[x] \in Row /\ branch \in [Branches -> Row]
      BY DEF IInv, RowsOK
    <3> QED
      BY <1>1, <3>1 DEF UpdateUnflag, Reactivate, Restore, Row
  <2>3. /\ restored \subseteq restored'
        /\ \A x \in Branches : branch[x].state # "absent" => branch'[x].state # "absent"
    BY <1>1 DEF UpdateUnflag, Reactivate, Restore, IInv, RowsOK, Row
  <2>4. Keeps /\ (Live \ restored)' \subseteq Live \ restored
    BY <2>2, <2>3 DEF Keeps, Grows, Gone, Live
  <2>5. CyclesGoThroughTrash'
    BY <2>2, <2>4, CyclesKept DEF CycleInv
  <2> QED
    BY <2>1, <2>4, <2>5, ClimbsKept DEF CycleInv
<1>2. ASSUME NEW p \in Procs, Fail(p)
      PROVE  CycleInv'
  <2>1. Enter(p, "idle", NoRow) /\ UNCHANGED <<branch, restored>>
    BY <1>2, FinishEnters DEF Fail
  <2>2. Keeps /\ CyclesGoThroughTrash'
    BY <2>1 DEF Keeps, Grows, Gone, CycleInv, CyclesGoThroughTrash, Closed, Live
  <2>3. Climbs(branch', restored', pc'[p], frame'[p])
    BY <2>1, Others DEF Climbs
  <2> QED
    BY <2>1, <2>2, <2>3, Others, ClimbMoved
<1>3. CASE UNCHANGED vars
  BY <1>3 DEF vars, CycleInv, Climbs, Climbed, Gone, CyclesGoThroughTrash, Closed, Live
<1> QED
  BY <1>1, <1>2, <1>3, CycleBegin, CycleContinue DEF Next

(* While no two moves overlap, the check of a move is enough but for the   *)
(* trash: every cycle goes through a branch that was deleted once and came *)
(* back, however creations, deletions and restorations fall between the    *)
(* rows that the walk of the move reads.                                   *)
THEOREM TreeButForTrash == ApartSpec => []CyclesGoThroughTrash
<1>1. Init => ApartInv /\ CycleInv
  <2>1. Init => CycleInv
    BY DEF Init, CycleInv, Climbs, CyclesGoThroughTrash, Closed, Live
  <2> QED
    BY <2>1, ApartTyped
<1>2. ApartInv /\ CycleInv /\ [Next /\ Apart']_vars => (ApartInv /\ CycleInv)'
  BY ApartTyped, CycleStep
<1>3. CycleInv => CyclesGoThroughTrash
  BY DEF CycleInv
<1> QED
  BY <1>1, <1>2, <1>3, PTL DEF ApartSpec

-----------------------------------------------------------------------------
(* The traversals, whatever the rows are *)

LEMMA WalksUp ==
  ASSUME NEW b \in Branches
  PROVE  /\ UpFrom(b) \subseteq Branches /\ b \in UpFrom(b)
         /\ \A x \in UpFrom(b) : ParentRow(x) \subseteq UpFrom(b)
         /\ \A X \in SUBSET Branches :
              b \in X /\ (\A x \in X : ParentRow(x) \subseteq X) => UpFrom(b) \subseteq X
<1> DEFINE next == [x \in Branches |-> ParentRow(x)]
<1>1. \A x \in Branches : next[x] = ParentRow(x) /\ ParentRow(x) \subseteq Branches
  BY DEF ParentRow, Live
<1>2. UpFrom(b) = Reach(Branches, {b}, next)
  BY DEF UpFrom
<1> HIDE DEF next
<1>3. Closes(next, Branches)
  BY <1>1 DEF Closes
<1>4. LeastFrom(Branches, {b}, next, UpFrom(b))
  BY <1>2, <1>3, Reached, RootAssumption
<1> QED
  BY <1>1, <1>4 DEF LeastFrom, Closes

(* R is the least set of branches that has start and, with a branch, the  *)
(* rows of a list that hang from it.                                       *)
HangFrom(start, list, R) ==
  /\ R \subseteq Branches /\ start \subseteq R
  /\ \A y \in list : branch[y].parent \in R => y \in R
  /\ \A X \in SUBSET Branches :
       start \subseteq X /\ (\A y \in list : branch[y].parent \in X => y \in X) => R \subseteq X

LEMMA WalksDown ==
  ASSUME NEW start \in SUBSET Branches, NEW list \in SUBSET Branches, NEW R,
         R = Reach(Branches, start, [x \in Branches |-> Below(list, x)])
  PROVE  HangFrom(start, list, R)
<1> DEFINE next == [x \in Branches |-> Below(list, x)]
<1>1. \A x \in Branches : next[x] = Below(list, x) /\ Below(list, x) \subseteq Branches
  BY DEF Below
<1>0. Closes(next, Branches) /\ R = Reach(Branches, start, next)
  BY <1>1 DEF Closes
<1> HIDE DEF next
<1>2. LeastFrom(Branches, start, next, R)
  BY <1>0, Reached, RootAssumption
<1>3. ASSUME NEW y \in list, branch[y].parent \in R
      PROVE  y \in R
  BY <1>1, <1>2, <1>3 DEF Below, LeastFrom, Closes
<1>4. ASSUME NEW X \in SUBSET Branches, start \subseteq X,
             \A y \in list : branch[y].parent \in X => y \in X
      PROVE  R \subseteq X
  <2>1. Closes(next, X)
    BY <1>1, <1>4 DEF Below, Closes
  <2> QED
    BY <1>2, <1>4, <2>1 DEF LeastFrom
<1> QED
  BY <1>2, <1>3, <1>4 DEF LeastFrom, HangFrom

LEMMA GoesDown ==
  ASSUME NEW a \in Branches
  PROVE  /\ DownFrom(a) \subseteq Branches /\ a \in DownFrom(a)
         /\ \A y \in Live : branch[y].parent \in DownFrom(a) => y \in DownFrom(a)
         /\ \A X \in SUBSET Branches :
              a \in X /\ (\A y \in Live : branch[y].parent \in X => y \in X) => DownFrom(a) \subseteq X
<1>1. {a} \in SUBSET Branches /\ Live \in SUBSET Branches
  BY DEF Live
<1>2. HangFrom({a}, Live, DownFrom(a))
  BY <1>1, WalksDown DEF DownFrom
<1> QED
  BY <1>2 DEF HangFrom

(* Between live branches the two walks find the same pairs: who goes down  *)
(* from a comes upon b just when who goes up from b comes upon a.          *)
LEMMA UpMeetsDown ==
  ASSUME NEW a \in Live, NEW b \in Live
  PROVE  b \in DownFrom(a) <=> a \in UpFrom(b)
<1>0. a \in Branches /\ b \in Branches /\ Live \subseteq Branches
  BY DEF Live
<1>1. ASSUME b \in DownFrom(a)
      PROVE  a \in UpFrom(b)
  <2> DEFINE X == {x \in Live : a \in UpFrom(x)}
  <2>1. a \in X /\ X \in SUBSET Branches
    BY <1>0, WalksUp
  <2>2. ASSUME NEW y \in Live, branch[y].parent \in X
        PROVE  y \in X
    <3> DEFINE x == branch[y].parent
    <3>1. x \in Live /\ a \in UpFrom(x) /\ x \in Branches /\ y \in Branches
      BY <2>2, <1>0
    <3>2. x \in UpFrom(y)
      BY <3>1, WalksUp DEF ParentRow
    <3>3. UpFrom(x) \subseteq UpFrom(y)
      BY <3>1, <3>2, WalksUp
    <3> QED
      BY <3>1, <3>3
  <2> HIDE DEF X
  <2>3. DownFrom(a) \subseteq X
    BY <1>0, <2>1, <2>2, GoesDown
  <2> QED
    BY <2>3, <1>1 DEF X
<1>2. ASSUME a \in UpFrom(b)
      PROVE  b \in DownFrom(a)
  <2> DEFINE X == {x \in Live : b \in DownFrom(x)}
  <2>1. b \in X /\ X \in SUBSET Branches
    BY <1>0, GoesDown
  <2>2. ASSUME NEW x \in X, NEW y \in ParentRow(x)
        PROVE  y \in X
    <3>1. /\ y = branch[x].parent /\ y \in Live /\ x \in Live /\ b \in DownFrom(x)
          /\ x \in Branches /\ y \in Branches
      BY <2>2, <1>0 DEF ParentRow
    <3>2. x \in DownFrom(y)
      BY <3>1, GoesDown
    <3>3. DownFrom(x) \subseteq DownFrom(y)
      BY <3>1, <3>2, GoesDown
    <3> QED
      BY <3>1, <3>3
  <2> HIDE DEF X
  <2>3. UpFrom(b) \subseteq X
    BY <1>0, <2>1, <2>2, WalksUp
  <2> QED
    BY <2>3, <1>2 DEF X
<1> QED
  BY <1>1, <1>2

LEMMA SameResolved == ResolversAgree
<1> SUFFICES ASSUME NEW a \in Live, NEW b \in Branches
             PROVE  b \in ReachedBy(a) <=> a \in ScopesOf(b)
  <2>1. \A a \in Live : ReachedBy(a) \subseteq Branches
    BY DEF ReachedBy, FindDescendants, Live
  <2> QED
    BY <2>1 DEF ResolversAgree
<1>1. b \in ReachedBy(a) <=> b = a \/ (b \in Live /\ b \in DownFrom(a))
  BY DEF ReachedBy, FindDescendants
<1>2. a \in ScopesOf(b) <=> a = b \/ (b \in Live /\ a \in UpFrom(b))
  BY DEF ScopesOf, FindAncestors
<1> QED
  BY <1>1, <1>2, UpMeetsDown

(* Who is told of a form assigned to a live branch is who finds it in the  *)
(* list, although one is computed downwards and one upwards, in any tree   *)
(* of branches and also in one that has a cycle.                           *)
THEOREM ResolversMeet == Spec \/ ApartSpec => []ResolversAgree
<1>1. ResolversAgree
  BY SameResolved
<1> QED
  BY <1>1, PTL

(* A listed branch that is not shown hangs from listed branches that are   *)
(* not shown either, and from nothing else.                                *)
LEMMA HiddenHangsFromCycle ==
  ASSUME CyclesGoThroughTrash, NEW b \in Listed \ Shown
  PROVE  UpFrom(b) \cap restored # {}
<1> SUFFICES ASSUME UpFrom(b) \cap restored = {}
             PROVE  FALSE
  OBVIOUS
<1> DEFINE S == UpFrom(b) \cap (Listed \ Shown)
<1>1. b \in Branches /\ Listed \subseteq Live /\ Live \subseteq Branches
  BY DEF Listed, Live
<1>2. Roots \in SUBSET Branches /\ Listed \in SUBSET Branches /\ Roots \subseteq Listed
  BY <1>1 DEF Roots
<1>3. Roots \subseteq Shown /\ \A y \in Listed : branch[y].parent \in Shown => y \in Shown
  <2>1. HangFrom(Roots, Listed, Shown)
    BY <1>2, WalksDown DEF Shown
  <2> QED
    BY <2>1 DEF HangFrom
<1>4. b \in UpFrom(b) /\ \A x \in UpFrom(b) : ParentRow(x) \subseteq UpFrom(b)
  BY <1>1, WalksUp
<1>5. ASSUME NEW x \in S
      PROVE  branch[x].parent \in S
  <2>1. branch[x].parent \in Listed
    BY <1>3 DEF Roots
  <2>2. branch[x].parent \in UpFrom(b)
    BY <2>1, <1>1, <1>4 DEF ParentRow
  <2> QED
    BY <2>1, <2>2, <1>3
<1>6. S # {} /\ S \in SUBSET (Live \ restored)
  BY <1>1, <1>4
<1> HIDE DEF S
<1> QED
  BY <1>5, <1>6 DEF CyclesGoThroughTrash, Closed

(* An active branch is in the tree unless a branch above it came back from *)
(* the trash, from where alone a cycle comes that hides it.                *)
THEOREM ActiveAreShown == ApartSpec => []TreeShowsActive
<1>1. CyclesGoThroughTrash => TreeShowsActive
  BY HiddenHangsFromCycle DEF TreeShowsActive
<1> QED
  BY <1>1, TreeButForTrash, PTL
=============================================================================
