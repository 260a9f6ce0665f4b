----------------------------- MODULE RecordTree -----------------------------
(***************************************************************************)
(* The hierarchy of the records of one dynamic module, of which the        *)
(* departments are one: parentRecordId, guarded against cycles by a check  *)
(* of the live descendants in one call and a write in another.             *)
(***************************************************************************)
EXTENDS Handlers, Walks

CONSTANT Nodes  \* ids of the records of one module

ASSUME NodesAssumption == None \notin Nodes /\ IsFiniteSet(Nodes)

VARIABLE node  \* id -> its row

TreeInit == node = [n \in Nodes |-> [state |-> "absent", parent |-> None]]

SetNode(n, row) == node' = [node EXCEPT ![n] = row]

IsLive(n) == node[n].state = "live"

Children(rows, ns) == {n \in Nodes : rows[n].state = "live" /\ rows[n].parent \in ns}

(* Breadth-first over the live rows. The code keeps no visited set: on a   *)
(* cycle its queue never empties.                                          *)
Descendants(rows, n) ==
  Reach(Nodes, Children(rows, {n}), [x \in Nodes |-> Children(rows, {x})])

OnCycle(rows) == {n \in Nodes : rows[n].state = "live" /\ n \in Descendants(rows, n)}

WalkEnds(n) == (Descendants(node, n) \cup {n}) \cap OnCycle(node) = {}

(* Mutant: only the children are looked at. *)
MayMoveUnder_ChildrenOnly(n, parent) == parent # n /\ parent \notin Children(node, {n})

MayMoveUnder(n, parent) == parent # n /\ parent \notin Descendants(node, n)

CreateNode(p, n, parent) ==
  /\ AtOnce(p)
  /\ node[n].state = "absent"
  /\ parent # None => IsLive(parent)
  /\ SetNode(n, [state |-> "live", parent |-> parent])

(* update: the parent is read, then all live rows at once, then the record *)
(* is written; null detaches it and is not checked.                        *)
MoveNode(p, n, parent) ==
  /\ IsLive(n)
  /\ parent # None => IsLive(parent) /\ MayMoveUnder(n, parent) /\ WalkEnds(n)
  /\ Enter(p, "node.write", [id |-> n, parent |-> parent, uses |-> Nodes])
  /\ UNCHANGED node

WriteParent(p) ==
  /\ At(p, "node.write")
  /\ SetNode(frame[p].id, [node[frame[p].id] EXCEPT !.parent = frame[p].parent])
  /\ Finish(p)

(* The children of a deleted record keep pointing at it. *)
DeleteNode(p, n) == AtOnce(p) /\ IsLive(n) /\ SetNode(n, [node[n] EXCEPT !.state = "deleted"])

(* restore: the record comes back under the parent it had. *)
RestoreNode(p, n) ==
  AtOnce(p) /\ node[n].state = "deleted" /\ SetNode(n, [node[n] EXCEPT !.state = "live"])

TreeRoutes(p) ==
  \E n \in Nodes :
    \/ DeleteNode(p, n) \/ RestoreNode(p, n)
    \/ \E parent \in Nodes \cup {None} : CreateNode(p, n, parent) \/ MoveNode(p, n, parent)

ContinueTree(p) == WriteParent(p) \/ (Fail(p) /\ UNCHANGED node)

TreeChanged == ChangedIn(node, node')

TreeNext ==
  /\ \E p \in Procs : TreeRoutes(p) \/ ContinueTree(p)
  /\ Watch(TreeChanged)

TreeSpec == HandlersInit /\ TreeInit /\ [][TreeNext]_<<pc, frame, stale, node>>

-----------------------------------------------------------------------------
(* Properties *)

(* A move closes no cycle among the live records, on which the descendants *)
(* of a record would be walked for ever, unless one of the records changed *)
(* between the check and the write. (A restore may: the check does not see *)
(* deleted records.)                                                       *)
MovesCloseNoCycle ==
  [][OnCycle(node') # {} => OnCycle(node) # {}
       \/ (\E n \in Nodes : node[n].state = "deleted" /\ node'[n].state = "live")
       \/ OnCycle(node') \cap stale' # {}]_node
=============================================================================
