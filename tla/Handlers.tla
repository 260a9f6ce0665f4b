------------------------------ MODULE Handlers ------------------------------
(***************************************************************************)
(* The concurrent handlers of the CRUD services. A handler is a sequence   *)
(* of awaited database calls, none of them in a transaction, so it is      *)
(* modelled as one action per call: pc says which call a handler makes     *)
(* next and frame holds what it has read and been asked for. The services' *)
(* modules extend this one and add the rows they keep.                     *)
(***************************************************************************)
EXTENDS Naturals, FiniteSets

CONSTANTS
  Procs,  \* requests handled at the same time
  None,   \* null
  Same    \* a field the request leaves out

RowStates == {"absent", "live", "deleted"}

VARIABLES
  pc,     \* handler -> the call it makes next
  frame,  \* handler -> its locals; uses: the rows its writes rely on
  stale   \* history: the rows that changed under a handler that uses them

HandlersInit ==
  /\ pc = [p \in Procs |-> "idle"]
  /\ frame = [p \in Procs |-> None]
  /\ stale = {}

(* The value of a field after a write that may leave it out. *)
Or(given, present) == IF given = Same THEN present ELSE given

At(p, label) == pc[p] = label

Enter(p, label, f) ==
  /\ pc[p] = "idle"
  /\ pc' = [pc EXCEPT ![p] = label]
  /\ frame' = [frame EXCEPT ![p] = f]

Proceed(p, label, f) ==
  /\ pc' = [pc EXCEPT ![p] = label]
  /\ frame' = [frame EXCEPT ![p] = f]

Goto(p, label) == Proceed(p, label, frame[p])

(* The handler answers, or throws. *)
Finish(p) == Proceed(p, "idle", None)

(* A handler whose only write is its last call and whose reads nothing can *)
(* tell from reads made right before it: one step, entered and left.       *)
AtOnce(p) == pc[p] = "idle" /\ UNCHANGED <<pc, frame>>

(* The process restarts, a call fails, or a check throws. A check is the   *)
(* guard of its step: where it does not hold only Fail is left.            *)
Fail(p) == pc[p] # "idle" /\ Finish(p)

(* Every step of every service: which rows it changed under a handler      *)
(* other than the one that took it.                                        *)
Watch(changed) ==
  stale' = stale \cup {r \in changed :
             \E p \in Procs : pc[p] # "idle" /\ pc'[p] = pc[p] /\ r \in frame[p].uses}

Fresh(rows) == rows \cap stale = {}

ChangedIn(rows, new) == {r \in DOMAIN rows : new[r] # rows[r]}
=============================================================================
