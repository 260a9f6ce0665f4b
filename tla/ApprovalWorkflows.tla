------------------------- MODULE ApprovalWorkflows -------------------------
(***************************************************************************)
(* ApprovalWorkflowsService: tenant-defined approval chains, and the one   *)
(* running request per entity that walks such a chain.                     *)
(*                                                                         *)
(* A handler of the service is a sequence of awaited database calls and    *)
(* none of them runs in a transaction, so a handler is modelled as one     *)
(* action per database call: whatever it read may be stale when it writes. *)
(* Procs are the HTTP requests being handled at the same time; pc says     *)
(* which database call a handler makes next and frame holds its locals.    *)
(* The operators that begin a call take the label to return to, so that    *)
(* the services that call this one can be composed with it.                *)
(***************************************************************************)
EXTENDS Naturals, FiniteSets

CONSTANTS
  Entities,       \* (entityType, entityId) pairs a request can be about
  Workflows,      \* ids of approval workflows
  Users,          \* authenticated callers
  PlatformAdmins, \* the callers that are platform administrators
  Gates,          \* role names and permission codes that gate steps
  OpenGate,       \* the gate of a step that names neither role nor permission
  StepCount,      \* StepCount[w]: number of steps of workflow w
  Gate,           \* Gate[w][s]: the gate of step s of workflow w
  Holds,          \* Holds[u]: the roles and permissions of user u
  Procs,          \* concurrent handlers
  NoRow           \* "the row does not exist"

Statuses  == {"pending", "approved", "rejected"}
Decisions == {"approved", "rejected"}

Request   == [wf : Workflows, step : Nat, status : Statuses]
Decision  == [entity : Entities, step : Nat, user : Users, decision : Decisions]

ASSUME ChainAssumption ==
  /\ StepCount \in [Workflows -> Nat \ {0}]
  /\ NoRow \notin Request

ASSUME GateAssumption ==
  /\ PlatformAdmins \subseteq Users
  /\ OpenGate \notin Gates
  /\ \A w \in Workflows : Gate[w] \in [1..StepCount[w] -> Gates \cup {OpenGate}]
  /\ Holds \in [Users -> SUBSET Gates]

VARIABLES
  workflow,   \* id -> "absent", "live" or "deleted" (soft-deleted)
  request,    \* entity -> its approval_requests row, or NoRow
  audit,      \* the approval.* rows of the audit log
  decided,    \* history: the decisions whose update of the request committed
  pc,         \* handler -> the database call it makes next
  frame       \* handler -> its locals

vars  == <<workflow, request, audit, decided, pc, frame>>

Labels == {"idle", "start.workflow", "start.insert", "decide.update", "decide.audit"}

(* Locals of startRequest and of decide; ret is where the call returns to. *)
StartFrame  == [entity : Entities, wf : Workflows, ret : Labels]
DecideFrame == [entity : Entities, wf : Workflows, step : Nat, user : Users,
                decision : Decisions, ret : Labels]

RowsOK ==
  /\ workflow \in [Workflows -> {"absent", "live", "deleted"}]
  /\ request \in [Entities -> Request \cup {NoRow}]
  /\ audit \subseteq Decision
  /\ decided \subseteq Decision

FrameFits(label, f) ==
  /\ label \in {"start.workflow", "start.insert"} => f \in StartFrame
  /\ label \in {"decide.update", "decide.audit"} => f \in DecideFrame
  /\ label # "idle" => f.ret = "idle"

HandlersOK ==
  /\ pc \in [Procs -> Labels]
  /\ frame \in [Procs -> StartFrame \cup DecideFrame \cup {NoRow}]
  /\ \A p \in Procs : FrameFits(pc[p], frame[p])

(* Rows and handlers are well formed. *)
TypeOK == RowsOK /\ HandlersOK

Init ==
  /\ workflow = [w \in Workflows |-> "absent"]
  /\ request = [e \in Entities |-> NoRow]
  /\ audit = {}
  /\ decided = {}
  /\ pc = [p \in Procs |-> "idle"]
  /\ frame = [p \in Procs |-> NoRow]

Goto(p, label) == pc' = [pc EXCEPT ![p] = label]

(* The end of a call, which returns to its caller, or of the handler when  *)
(* the call throws.                                                        *)
Return(p, label) == Goto(p, label) /\ frame' = [frame EXCEPT ![p] = NoRow]
Throw(p) == Return(p, "idle")

-----------------------------------------------------------------------------
(* Administration of the workflows themselves. *)

Create(w) ==
  /\ workflow[w] = "absent"
  /\ workflow' = [workflow EXCEPT ![w] = "live"]
  /\ UNCHANGED <<request, audit, decided, pc, frame>>

(* Soft deletion, whether or not requests exist. *)
Remove(w) ==
  /\ workflow[w] = "live"
  /\ workflow' = [workflow EXCEPT ![w] = "deleted"]
  /\ UNCHANGED <<request, audit, decided, pc, frame>>

(* TrashService.restore *)
Restore(w) ==
  /\ workflow[w] = "deleted"
  /\ workflow' = [workflow EXCEPT ![w] = "live"]
  /\ UNCHANGED <<request, audit, decided, pc, frame>>

-----------------------------------------------------------------------------
(* startRequest: look the request up, check the workflow, insert. *)

StartFind(p, e, w, ret) ==
  /\ IF request[e] # NoRow
       THEN Return(p, ret)
       ELSE /\ frame' = [frame EXCEPT ![p] = [entity |-> e, wf |-> w, ret |-> ret]]
            /\ Goto(p, "start.workflow")
  /\ UNCHANGED <<workflow, request, audit, decided>>

StartWorkflow(p) ==
  /\ pc[p] = "start.workflow"
  /\ IF workflow[frame[p].wf] = "live"
       THEN Goto(p, "start.insert") /\ UNCHANGED frame
       ELSE Throw(p)
  /\ UNCHANGED <<workflow, request, audit, decided>>

(* Mutant: an upsert, which a second start would use to take the row over. *)
StartInsert_Upsert(p) ==
  /\ pc[p] = "start.insert"
  /\ request' = [request EXCEPT ![frame[p].entity] =
                    [wf |-> frame[p].wf, step |-> 1, status |-> "pending"]]
  /\ Return(p, frame[p].ret)
  /\ UNCHANGED <<workflow, audit, decided>>

(* The unique key on (tenant, entityType, entityId) refuses a second row. *)
StartInsert(p) ==
  /\ pc[p] = "start.insert"
  /\ LET f == frame[p] IN
     IF request[f.entity] = NoRow
       THEN /\ request' = [request EXCEPT ![f.entity] =
                              [wf |-> f.wf, step |-> 1, status |-> "pending"]]
            /\ Return(p, f.ret)
       ELSE Throw(p) /\ UNCHANGED request
  /\ UNCHANGED <<workflow, audit, decided>>

-----------------------------------------------------------------------------
(* decide: read and check the request, update it by id, write the audit row. *)

CanActOnStep(u, w, s) ==
  \/ u \in PlatformAdmins
  \/ Gate[w][s] = OpenGate
  \/ Gate[w][s] \in Holds[u]

(* Mutant: the route's permission is taken to be enough. *)
MayDecide_Ungated(u, w, s) == u \in Users

(* The gate is only checked when the workflow has a step of that order. *)
MayDecide(u, w, s) == s \in 1..StepCount[w] => CanActOnStep(u, w, s)

(* Mutant: a comparison off by one, which finds a step after the last one. *)
IsLastStep_Inclusive(w, s) == ~ \E t \in 1..StepCount[w] : t >= s

IsLastStep(w, s) == ~ \E t \in 1..StepCount[w] : t > s

NextStatus(w, s, d) ==
  IF d = "rejected" THEN "rejected" ELSE IF IsLastStep(w, s) THEN "approved" ELSE "pending"

NextStep(w, s, d) == IF d = "approved" /\ ~IsLastStep(w, s) THEN s + 1 ELSE s

DecisionOf(f) == [entity |-> f.entity, step |-> f.step, user |-> f.user, decision |-> f.decision]

FrameOf(e, u, d, ret) ==
  [entity |-> e, wf |-> request[e].wf, step |-> request[e].step,
   user |-> u, decision |-> d, ret |-> ret]

(* Mutant: the status of the request is not checked. *)
DecideRead_AnyStatus(p, e, u, d, ret) ==
  /\ IF request[e] # NoRow /\ MayDecide(u, request[e].wf, request[e].step)
       THEN /\ frame' = [frame EXCEPT ![p] = FrameOf(e, u, d, ret)]
            /\ Goto(p, "decide.update")
       ELSE Throw(p)
  /\ UNCHANGED <<workflow, request, audit, decided>>

(* Mutant: the audit row is written ahead of the decision. *)
DecideRead_AuditFirst(p, e, u, d, ret) ==
  /\ request[e] # NoRow /\ request[e].status = "pending"
  /\ MayDecide(u, request[e].wf, request[e].step)
  /\ frame' = [frame EXCEPT ![p] = FrameOf(e, u, d, ret)]
  /\ Goto(p, "decide.update")
  /\ audit' = audit \cup {DecisionOf(FrameOf(e, u, d, ret))}
  /\ UNCHANGED <<workflow, request, decided>>

DecideRead(p, e, u, d, ret) ==
  /\ IF /\ request[e] # NoRow
        /\ request[e].status = "pending"
        /\ MayDecide(u, request[e].wf, request[e].step)
       THEN /\ frame' = [frame EXCEPT ![p] = FrameOf(e, u, d, ret)]
            /\ Goto(p, "decide.update")
       ELSE Throw(p)
  /\ UNCHANGED <<workflow, request, audit, decided>>

(* The update names only the id of the row: nothing checks that the row is *)
(* still in the state the handler read.                                    *)
DecideUpdate(p) ==
  /\ pc[p] = "decide.update"
  /\ LET f == frame[p] IN
     /\ request' = [request EXCEPT ![f.entity] =
                      [wf |-> @.wf,
                       step |-> NextStep(f.wf, f.step, f.decision),
                       status |-> NextStatus(f.wf, f.step, f.decision)]]
     /\ decided' = decided \cup {DecisionOf(f)}
  /\ Goto(p, "decide.audit")
  /\ UNCHANGED <<workflow, audit, frame>>

DecideAudit(p) ==
  /\ pc[p] = "decide.audit"
  /\ audit' = audit \cup {DecisionOf(frame[p])}
  /\ Return(p, frame[p].ret)
  /\ UNCHANGED <<workflow, request, decided>>

(* A handler dies between two database calls: the process is restarted or  *)
(* the next call fails.                                                    *)
Fail(p) ==
  /\ pc[p] # "idle"
  /\ Throw(p)
  /\ UNCHANGED <<workflow, request, audit, decided>>

-----------------------------------------------------------------------------
(* The engine on its own: every route, and a caller that starts requests. *)

Admin == \E w \in Workflows : Create(w) \/ Remove(w) \/ Restore(w)

Start(p) ==
  /\ pc[p] = "idle"
  /\ \E e \in Entities, w \in Workflows :
       workflow[w] # "absent" /\ StartFind(p, e, w, "idle")

Decide(p) ==
  /\ pc[p] = "idle"
  /\ \E e \in Entities, u \in Users, d \in Decisions : DecideRead(p, e, u, d, "idle")

Continue(p) == StartWorkflow(p) \/ StartInsert(p) \/ DecideUpdate(p) \/ DecideAudit(p)

Next == Admin \/ \E p \in Procs : Start(p) \/ Decide(p) \/ Continue(p) \/ Fail(p)

Spec == Init /\ [][Next]_vars

(* The same system while nobody overlaps: at most one decision per entity  *)
(* is between its read and its update.                                     *)
Serial ==
  \A p, q \in Procs :
    pc[p] = "decide.update" /\ pc[q] = "decide.update" /\ p # q
      => frame[p].entity # frame[q].entity

SerialSpec == Init /\ [][Next /\ Serial']_vars

-----------------------------------------------------------------------------
(* Properties *)

(* Among the decisions D somebody who holds the gate of step s approved it. *)
Vouched(D, e, w, s) ==
  \E u \in Users :
    /\ [entity |-> e, step |-> s, user |-> u, decision |-> "approved"] \in D
    /\ CanActOnStep(u, w, s)

(* Whatever the interleaving of stale decisions, a request stands on a     *)
(* step of its workflow, so the check of the gate in decide, which is      *)
(* skipped when no such step is found, is never skipped.                   *)
CurrentStepExists ==
  \A e \in Entities : request[e] # NoRow => request[e].step \in 1..StepCount[request[e].wf]

(* No step is skipped: every step before the one a request stands on was   *)
(* approved by somebody who holds its gate, and an approved request had    *)
(* all of its steps approved (FR-GOV-3.6 and FR-GOV-3.7).                  *)
StepsVouched ==
  \A e \in Entities : request[e] # NoRow =>
    \A s \in 1..StepCount[request[e].wf] :
      s < request[e].step \/ request[e].status = "approved" => Vouched(decided, e, request[e].wf, s)

(* The audit log claims no decision that did not happen, although the row  *)
(* is written by a separate call after the decision (FR-GOV-3.8).          *)
AuditIsTrue == audit \subseteq decided

(* startRequest is idempotent: once an entity has a request, no later or   *)
(* concurrent start replaces it or moves it to another workflow.           *)
RequestPinned ==
  [][\A e \in Entities : request[e] # NoRow =>
       request'[e] # NoRow /\ request'[e].wf = request[e].wf]_vars

(* FR-GOV-3.6: "there is no way to un-reject". *)
NoUnReject ==
  [][\A e \in Entities : request[e] # NoRow /\ request[e].status = "rejected"
       => request'[e].status = "rejected"]_vars

(* What the engine promises, and keeps while decisions on an entity do not *)
(* overlap.                                                                *)
Approvers == [w \in Workflows |->
               [s \in 1..StepCount[w] |-> {u \in Users : CanActOnStep(u, w, s)}]]
Chain == INSTANCE ApprovalChain
ChainSpec == Chain!Spec
=============================================================================
