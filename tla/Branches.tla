------------------------------ MODULE Branches ------------------------------
(***************************************************************************)
(* BranchesService: the tree of branches, its headquarters flag, and the   *)
(* traversals that authorization and eligibility are built on. A handler   *)
(* is one action per database call, as in ApprovalWorkflows; pc says which *)
(* call it makes next and frame holds its locals. A call whose outcome     *)
(* does not depend on what may come before it is made together with the    *)
(* call it follows, as noted there.                                        *)
(***************************************************************************)
EXTENDS Walks

CONSTANTS
  Branches,  \* ids of branches
  Procs,     \* concurrent handlers
  NoRow      \* "no branch": the parent of a root

ASSUME RootAssumption == NoRow \notin Branches /\ IsFiniteSet(Branches)

VARIABLES
  branch,    \* id -> its row
  restored,  \* history: the branches taken out of the trash
  pc,        \* handler -> the database call it makes next
  frame      \* handler -> its locals

vars == <<branch, restored, pc, frame>>

Parents == Branches \cup {NoRow}
Row     == [state : {"absent", "live", "deleted"}, parent : Parents, hq : BOOLEAN, active : BOOLEAN]

CreateLabels == {"create.insert", "create.flagged"}
MoveLabels   == {"move.walk", "move.write"}
CascadeLabels == {"deactivate.write", "delete.write"}
Labels == {"idle", "update.write"} \cup CreateLabels \cup MoveLabels \cup CascadeLabels

WalkFrame == [id : Branches, target : Branches, cur : Branches, visited : SUBSET Branches]

Live == {b \in Branches : branch[b].state = "live"}

FrameFits(l, f) ==
  /\ l = "idle" => f = NoRow
  /\ l \in CreateLabels => f \in [parent : Parents]
  /\ l = "update.write" => f \in [id : Branches]
  /\ l = "move.walk" => f \in WalkFrame
  /\ l = "move.write" => f \in [id : Branches, target : Parents]
  /\ l \in CascadeLabels => f \in [ids : SUBSET Branches]

(* Rows and handlers are well formed, and a parent is never missing. *)
TypeOK ==
  /\ branch \in [Branches -> Row]
  /\ \A b \in Branches : branch[b].parent # NoRow => branch[branch[b].parent].state # "absent"
  /\ restored \subseteq Branches
  /\ pc \in [Procs -> Labels]
  /\ \A p \in Procs : FrameFits(pc[p], frame[p])

Init ==
  /\ branch = [b \in Branches |->
                [state |-> "absent", parent |-> NoRow, hq |-> FALSE, active |-> FALSE]]
  /\ restored = {}
  /\ pc = [p \in Procs |-> "idle"]
  /\ frame = [p \in Procs |-> NoRow]

Goto(p, label) == pc' = [pc EXCEPT ![p] = label]
Enter(p, label, f) == Goto(p, label) /\ frame' = [frame EXCEPT ![p] = f]
Finish(p) == Goto(p, "idle") /\ frame' = [frame EXCEPT ![p] = NoRow]

-----------------------------------------------------------------------------
(* Traversals *)

(* Mutant: the walk reads deleted rows too. *)
ParentRow_Any(b) == {branch[b].parent} \ {NoRow}

(* The row above b that a walk up finds, if any. *)
ParentRow(b) == {branch[b].parent} \cap Live

(* Everything that is reached from b by going up, b included: the visited  *)
(* set of the walk ends it.                                                *)
UpFrom(b) == Reach(Branches, {b}, [x \in Branches |-> ParentRow(x)])

FindAncestors(b) == UpFrom(b) \ {b}

(* The rows of a list that hang from x. *)
Below(list, x) == {y \in list : branch[y].parent = x}

DownFrom(b) == Reach(Branches, {b}, [x \in Branches |-> Below(Live, x)])

FindDescendants(b) == (DownFrom(b) \cap Live) \ {b}

(* findDescendants keeps no visited set: when b is below itself its queue  *)
(* never empties.                                                          *)
NeverEnds(b) == branch[b].parent \in DownFrom(b)

Listed == {b \in Live : branch[b].active}

(* Mutant: a node whose parent is not in the list is nobody's child and no *)
(* root either.                                                            *)
Roots_NoParent == {b \in Listed : branch[b].parent = NoRow}

Roots == {b \in Listed : branch[b].parent \notin Listed}

(* findTree: what hangs from a root. *)
Shown == Reach(Branches, Roots, [x \in Branches |-> Below(Listed, x)])

-----------------------------------------------------------------------------
(* create: find the parent, clear the flag of the others, insert. Clearing *)
(* depends on nothing read before. What the caller's own branch and the    *)
(* types of the two branches must satisfy only refuses, and is left out.   *)

(* Mutant: the flag of a deleted branch is left alone. *)
ClearHeadquarters_Live(except) ==
  branch' = [b \in Branches |->
              [branch[b] EXCEPT !.hq = @ /\ (b = except \/ branch[b].state # "live")]]

ClearHeadquarters(except) ==
  branch' = [b \in Branches |-> [branch[b] EXCEPT !.hq = @ /\ b = except]]

Create(p, parent) ==
  /\ parent # NoRow => parent \in Live
  /\ \/ Enter(p, "create.insert", [parent |-> parent]) /\ UNCHANGED branch
     \/ Enter(p, "create.flagged", [parent |-> parent]) /\ ClearHeadquarters(NoRow)
  /\ UNCHANGED restored

CreateInsert(p) ==
  /\ pc[p] \in CreateLabels
  /\ \E b \in Branches :
       /\ branch[b].state = "absent"
       /\ branch' = [branch EXCEPT ![b] =
                       [state |-> "live", parent |-> frame[p].parent,
                        hq |-> pc[p] = "create.flagged", active |-> TRUE]]
  /\ Finish(p)
  /\ UNCHANGED restored

(* update: clear the flag of the others, then write by id. Without the     *)
(* flag it changes nothing modelled; taking the flag away is one write.    *)
Update(p, b) ==
  /\ Enter(p, "update.write", [id |-> b])
  /\ ClearHeadquarters(b)
  /\ UNCHANGED restored

UpdateWrite(p) ==
  /\ pc[p] = "update.write"
  /\ branch' = [branch EXCEPT ![frame[p].id].hq = TRUE]
  /\ Finish(p)
  /\ UNCHANGED restored

UpdateUnflag(b) ==
  /\ b \in Live /\ branch[b].hq
  /\ branch' = [branch EXCEPT ![b].hq = FALSE]
  /\ UNCHANGED <<restored, pc, frame>>

-----------------------------------------------------------------------------
(* move: find both branches, walk up from the new parent one row at a      *)
(* time, write by id.                                                      *)

(* The next row to look at is cur, unless there is none or it was seen. *)
WalkOn(p, f) ==
  IF f.cur = NoRow \/ f.cur \in f.visited
    THEN Goto(p, "move.write") /\ frame' = [frame EXCEPT ![p] = [id |-> f.id, target |-> f.target]]
    ELSE Goto(p, "move.walk") /\ frame' = [frame EXCEPT ![p] = f]

Move(p, b, t) ==
  /\ b # t /\ (t # NoRow => t \in Live)
  /\ WalkOn(p, [id |-> b, target |-> t, visited |-> {t},
                cur |-> IF t = NoRow THEN NoRow ELSE branch[t].parent])
  /\ UNCHANGED <<branch, restored>>

(* Mutant: the walk is over when the immediate parent has been looked at. *)
MoveWalk_OneLevel(p) ==
  /\ pc[p] = "move.walk"
  /\ LET f == frame[p] IN
     IF f.cur \in Live /\ f.cur = f.id THEN Finish(p) ELSE WalkOn(p, [f EXCEPT !.cur = NoRow])
  /\ UNCHANGED <<branch, restored>>

MoveWalk(p) ==
  /\ pc[p] = "move.walk"
  /\ LET f == frame[p] IN
     IF f.cur \in Live /\ f.cur = f.id
       THEN Finish(p)
       ELSE WalkOn(p, [f EXCEPT !.visited = @ \cup {f.cur},
                         !.cur = IF f.cur \in Live THEN branch[f.cur].parent ELSE NoRow])
  /\ UNCHANGED <<branch, restored>>

MoveWrite(p) ==
  /\ pc[p] = "move.write"
  /\ branch' = [branch EXCEPT ![frame[p].id].parent = frame[p].target]
  /\ Finish(p)
  /\ UNCHANGED restored

-----------------------------------------------------------------------------
(* deactivate and softDelete: find the descendants, write them all. *)

Cascade(p, b) ==
  /\ ~NeverEnds(b)
  /\ \E l \in CascadeLabels : Enter(p, l, [ids |-> FindDescendants(b) \cup {b}])
  /\ UNCHANGED <<branch, restored>>

CascadeWrite(p) ==
  /\ pc[p] \in CascadeLabels
  /\ branch' = [b \in Branches |->
                 IF b \in frame[p].ids
                   THEN [branch[b] EXCEPT !.active = FALSE,
                           !.state = IF pc[p] = "delete.write" THEN "deleted" ELSE @]
                   ELSE branch[b]]
  /\ Finish(p)
  /\ UNCHANGED restored

(* Read and write are one step: a deletion in between is not told apart,   *)
(* as restoring the branch makes it active in any case.                    *)
Reactivate(b) ==
  /\ b \in Live /\ ~branch[b].active
  /\ branch' = [branch EXCEPT ![b].active = TRUE]
  /\ UNCHANGED <<restored, pc, frame>>

(* TrashService.restore: this branch only, where it was. *)
Restore(b) ==
  /\ branch[b].state = "deleted"
  /\ branch' = [branch EXCEPT ![b].state = "live", ![b].active = TRUE]
  /\ restored' = restored \cup {b}
  /\ UNCHANGED <<pc, frame>>

(* The handler dies between two database calls. *)
Fail(p) ==
  /\ pc[p] # "idle"
  /\ Finish(p)
  /\ UNCHANGED <<branch, restored>>

Begin(p) ==
  /\ pc[p] = "idle"
  /\ \/ \E t \in Parents : Create(p, t)
     \/ \E b \in Live : Update(p, b) \/ Cascade(p, b) \/ \E t \in Parents : Move(p, b, t)

Continue(p) == CreateInsert(p) \/ UpdateWrite(p) \/ MoveWalk(p) \/ MoveWrite(p) \/ CascadeWrite(p)

Next ==
  \/ \E b \in Branches : UpdateUnflag(b) \/ Reactivate(b) \/ Restore(b)
  \/ \E p \in Procs : Begin(p) \/ Continue(p) \/ Fail(p)

Spec == Init /\ [][Next]_vars

(* The same system while no two moves, and no two handlers that set the    *)
(* headquarters flag, overlap. Everything else may.                        *)
Moving(p)   == pc[p] \in MoveLabels
Flagging(p) == pc[p] \in {"create.flagged", "update.write"}

Apart ==
  \A p, q \in Procs :
    p # q => ~(Moving(p) /\ Moving(q)) /\ ~(Flagging(p) /\ Flagging(q))

ApartSpec == Init /\ [][Next /\ Apart']_vars

-----------------------------------------------------------------------------
(* Properties *)

(* At most one branch is the headquarters, the branches in the trash       *)
(* included, from where a second one would come back; clearing the flag    *)
(* and setting it are separate calls (FR-CH-1.3).                          *)
OneHeadquarters == \A a, b \in Branches : branch[a].hq /\ branch[b].hq => a = b

(* A set of branches without a way out of it, as a cycle is. *)
Closed(S) == S # {} /\ \A b \in S : branch[b].parent \in S

(* The check of a move stops at a deleted branch, and rows come and go     *)
(* while it walks; still every cycle goes through a branch that came back  *)
(* from the trash (FR-CH-3.2).                                             *)
CyclesGoThroughTrash == \A S \in SUBSET (Live \ restored) : ~Closed(S)

(* "move prevents cycles" (findAncestors). *)
MovePreventsCycles == \A S \in SUBSET Live : ~Closed(S)

(* An active branch is in the tree, also when its parent is inactive or    *)
(* deleted, unless it hangs from a cycle.                                  *)
TreeShowsActive ==
  \A b \in Listed \ Shown : UpFrom(b) \cap restored # {}

(* EligibilityResolverService: the branches whose assignments reach a user *)
(* of branch b, and the branches whose users an assignment to b reaches.   *)
ScopesOf(b)  == {b} \cup IF b \in Live THEN FindAncestors(b) ELSE {}
ReachedBy(b) == {b} \cup FindDescendants(b)

(* Who is told of a form assigned to a branch is who finds it in the list  *)
(* of forms, although one is computed downwards and one upwards.           *)
ResolversAgree ==
  LET scopes == [b \in Branches |-> ScopesOf(b)] IN
  \A a \in Live : ~NeverEnds(a) => ReachedBy(a) = {b \in Branches : a \in scopes[b]}
=============================================================================
