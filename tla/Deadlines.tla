----------------------------- MODULE Deadlines -----------------------------
(***************************************************************************)
(* DeadlinesService: at most one deadline per entity. The stored status is *)
(* "open" or "closed"; "locked" is derived from the due date whenever the  *)
(* row is read. As in ApprovalWorkflows, a handler is one action per       *)
(* database call and pc/frame hold the handlers in progress. The audit     *)
(* call that ends each handler is a step of its own, at which the handler  *)
(* may die; its row is not kept, as nothing reads it back.                 *)
(***************************************************************************)
EXTENDS Naturals

CONSTANTS
  Entities,  \* (entityType, entityId) pairs a deadline can be about
  MaxTime,   \* bound on the clock and on the due dates
  Procs,     \* concurrent handlers
  NoRow      \* "the row does not exist"

Times    == 0..MaxTime
Deadline == [due : Times, status : {"open", "closed"}]

VARIABLES
  deadline,  \* entity -> its deadlines row, or NoRow
  now,       \* the clock
  pc,        \* handler -> the database call it makes next
  frame      \* handler -> its locals

vars == <<deadline, now, pc, frame>>

Labels == {"idle", "extend.update", "close.update", "reopen.update", "deadline.audit"}
Frame  == [entity : Entities, due : Times]

(* Rows and handlers are well formed. *)
TypeOK ==
  /\ deadline \in [Entities -> Deadline \cup {NoRow}]
  /\ now \in Times
  /\ pc \in [Procs -> Labels]
  /\ frame \in [Procs -> Frame \cup {NoRow}]
  /\ \A p \in Procs : pc[p] # "idle" => frame[p] \in Frame /\ deadline[frame[p].entity] # NoRow

Init ==
  /\ deadline = [e \in Entities |-> NoRow]
  /\ now = 0
  /\ pc = [p \in Procs |-> "idle"]
  /\ frame = [p \in Procs |-> NoRow]

Goto(p, label) == pc' = [pc EXCEPT ![p] = label]
Finish(p)      == Goto(p, "idle") /\ frame' = [frame EXCEPT ![p] = NoRow]

Enter(p, label, f) ==
  /\ Goto(p, label)
  /\ frame' = [frame EXCEPT ![p] = f]
  /\ UNCHANGED <<deadline, now>>

(* The unique key refuses a second deadline for the entity; any due date   *)
(* is accepted, a past one too.                                            *)
Create(e, t) ==
  /\ deadline[e] = NoRow
  /\ deadline' = [deadline EXCEPT ![e] = [due |-> t, status |-> "open"]]
  /\ UNCHANGED <<now, pc, frame>>

(* Mutant: the due date alone is looked at. *)
EffectiveStatus_DueOnly(d, t) == IF d.due < t THEN "locked" ELSE "open"

EffectiveStatus(d, t) ==
  IF d.status = "closed" THEN "closed" ELSE IF d.due < t THEN "locked" ELSE "open"

(* assertOpen: nothing to enforce when no deadline was set. *)
IsOpen(e) == deadline[e] # NoRow => EffectiveStatus(deadline[e], now) = "open"

Extend(p, e, t) ==
  /\ deadline[e] # NoRow /\ EffectiveStatus(deadline[e], now) = "locked"
  /\ Enter(p, "extend.update", [entity |-> e, due |-> t])

Close(p, e) ==
  /\ deadline[e] # NoRow /\ deadline[e].status # "closed"
  /\ Enter(p, "close.update", [entity |-> e, due |-> deadline[e].due])

Reopen(p, e) ==
  /\ deadline[e] # NoRow /\ deadline[e].status = "closed"
  /\ Enter(p, "reopen.update", [entity |-> e, due |-> deadline[e].due])

(* Mutant: extending writes the status too, to make the deadline open. *)
ExtendUpdate_Opens(p) ==
  /\ pc[p] = "extend.update"
  /\ deadline' = [deadline EXCEPT ![frame[p].entity] = [due |-> frame[p].due, status |-> "open"]]
  /\ Goto(p, "deadline.audit")
  /\ UNCHANGED <<now, frame>>

ExtendUpdate(p) ==
  /\ pc[p] = "extend.update"
  /\ deadline' = [deadline EXCEPT ![frame[p].entity].due = frame[p].due]
  /\ Goto(p, "deadline.audit")
  /\ UNCHANGED <<now, frame>>

CloseUpdate(p) ==
  /\ pc[p] = "close.update"
  /\ deadline' = [deadline EXCEPT ![frame[p].entity].status = "closed"]
  /\ Goto(p, "deadline.audit")
  /\ UNCHANGED <<now, frame>>

ReopenUpdate(p) ==
  /\ pc[p] = "reopen.update"
  /\ deadline' = [deadline EXCEPT ![frame[p].entity].status = "open"]
  /\ Goto(p, "deadline.audit")
  /\ UNCHANGED <<now, frame>>

RecordAudit(p) ==
  /\ pc[p] = "deadline.audit"
  /\ Finish(p)
  /\ UNCHANGED <<deadline, now>>

(* The handler dies between two database calls. *)
Fail(p) ==
  /\ pc[p] \in Labels \ {"idle"}
  /\ Finish(p)
  /\ UNCHANGED <<deadline, now>>

Tick ==
  /\ now < MaxTime
  /\ now' = now + 1
  /\ UNCHANGED <<deadline, pc, frame>>

Begin(p) ==
  /\ pc[p] = "idle"
  /\ \E e \in Entities : (\E t \in Times : Extend(p, e, t)) \/ Close(p, e) \/ Reopen(p, e)

Continue(p) == ExtendUpdate(p) \/ CloseUpdate(p) \/ ReopenUpdate(p) \/ RecordAudit(p)

Next ==
  \/ Tick
  \/ \E e \in Entities, t \in Times : Create(e, t)
  \/ \E p \in Procs : Begin(p) \/ Continue(p) \/ Fail(p)

Spec == Init /\ [][Next]_vars

-----------------------------------------------------------------------------
(* Properties *)

(* Closed is immutable except through reopen, which has a permission of    *)
(* its own: a stale extend or close never opens a closed deadline.         *)
ClosedStaysClosed ==
  [][\A e \in Entities :
       deadline[e] # NoRow /\ deadline[e].status = "closed" /\ deadline'[e].status # "closed"
         => \E p \in Procs : pc[p] = "reopen.update" /\ frame[p].entity = e]_vars
=============================================================================
