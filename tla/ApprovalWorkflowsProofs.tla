---------------------- MODULE ApprovalWorkflowsProofs ----------------------
(***************************************************************************)
(* Theorems about the approval engine, for any number of entities, chains, *)
(* users and concurrent handlers.                                          *)
(***************************************************************************)
EXTENDS ApprovalWorkflows, TLAPS

Step(p) == Start(p) \/ Decide(p) \/ Continue(p) \/ Fail(p)

(* What a handler knows when it is about to write its decision. The        *)
(* decision may be stale, but the step it read exists, its user holds the  *)
(* gate of that step, and every step before it is vouched for.             *)
Grounded(R, D, f) ==
  /\ R[f.entity] # NoRow
  /\ R[f.entity].wf = f.wf
  /\ f.step \in 1..StepCount[f.wf]
  /\ CanActOnStep(f.user, f.wf, f.step)
  /\ \A s \in 1..StepCount[f.wf] : s < f.step => Vouched(D, f.entity, f.wf, s)

(* And when it is about to audit its decision, it has written it. *)
FramesGrounded ==
  \A p \in Procs :
    /\ pc[p] = "decide.update" => Grounded(request, decided, frame[p])
    /\ pc[p] = "decide.audit" => DecisionOf(frame[p]) \in decided

(* The invariants are not inductive alone: what decide writes is only right *)
(* because of what its handler knows since it read the request.             *)
IInv == TypeOK /\ CurrentStepExists /\ StepsVouched /\ AuditIsTrue /\ FramesGrounded

-----------------------------------------------------------------------------
(* Type correctness *)

LEMMA InitTypeOK == Init => TypeOK
BY DEF Init, TypeOK, RowsOK, HandlersOK, FrameFits, Labels

(* Moving one handler to a label with a frame that fits it. *)
LEMMA MoveHandler ==
  ASSUME HandlersOK, NEW p \in Procs, NEW l \in Labels,
         NEW g \in StartFrame \cup DecideFrame \cup {NoRow}, FrameFits(l, g),
         pc' = [pc EXCEPT ![p] = l], frame' = [frame EXCEPT ![p] = g]
  PROVE  HandlersOK'
<1>1. pc' \in [Procs -> Labels] BY DEF HandlersOK
<1>2. frame' \in [Procs -> StartFrame \cup DecideFrame \cup {NoRow}] BY DEF HandlersOK
<1>3. ASSUME NEW q \in Procs PROVE FrameFits(pc'[q], frame'[q])
  <2>1. CASE q = p BY <2>1 DEF HandlersOK
  <2>2. CASE q # p BY <2>2 DEF HandlersOK
  <2> QED BY <2>1, <2>2
<1> QED BY <1>1, <1>2, <1>3 DEF HandlersOK, FrameFits

LEMMA ThrowOK ==
  ASSUME HandlersOK, NEW p \in Procs, Return(p, "idle")
  PROVE  HandlersOK'
<1>1. "idle" \in Labels /\ FrameFits("idle", NoRow) BY DEF Labels, FrameFits
<1> QED BY <1>1, MoveHandler DEF Return, Goto

LEMMA NextTypeOK == TypeOK /\ FramesGrounded /\ [Next]_vars => TypeOK'
<1> SUFFICES ASSUME TypeOK, FramesGrounded, [Next]_vars PROVE TypeOK'
  OBVIOUS
<1>1. CASE Admin
  BY <1>1 DEF TypeOK, RowsOK, HandlersOK, FrameFits, Admin, Create, Remove, Restore
<1>2. ASSUME NEW p \in Procs, Start(p) PROVE TypeOK'
  <2>1. PICK e \in Entities, w \in Workflows : StartFind(p, e, w, "idle")
    BY <1>2 DEF Start
  <2>2. RowsOK' BY <2>1 DEF StartFind, TypeOK, RowsOK
  <2>3. CASE request[e] # NoRow
    BY <2>1, <2>2, <2>3, ThrowOK DEF StartFind, TypeOK
  <2>4. CASE request[e] = NoRow
    <3> DEFINE g == [entity |-> e, wf |-> w, ret |-> "idle"]
    <3>1. g \in StartFrame /\ FrameFits("start.workflow", g) /\ "start.workflow" \in Labels
      BY DEF StartFrame, FrameFits, Labels
    <3> QED BY <2>1, <2>2, <2>4, <3>1, MoveHandler DEF StartFind, TypeOK, Goto
  <2> QED BY <2>3, <2>4
<1>3. ASSUME NEW p \in Procs, Decide(p) PROVE TypeOK'
  <2>1. PICK e \in Entities, u \in Users, d \in Decisions : DecideRead(p, e, u, d, "idle")
    BY <1>3 DEF Decide
  <2>2. RowsOK' BY <2>1 DEF DecideRead, TypeOK, RowsOK
  <2>3. CASE Throw(p)
    BY <2>2, <2>3, ThrowOK DEF Throw, TypeOK
  <2>4. CASE ~Throw(p)
    <3> DEFINE g == [entity |-> e, wf |-> request[e].wf, step |-> request[e].step,
                     user |-> u, decision |-> d, ret |-> "idle"]
    <3>1. request[e] # NoRow /\ frame' = [frame EXCEPT ![p] = g] /\ Goto(p, "decide.update")
      BY <2>1, <2>4 DEF DecideRead, FrameOf
    <3>2. request[e] \in Request BY <3>1 DEF TypeOK, RowsOK
    <3>3. g \in DecideFrame /\ FrameFits("decide.update", g) /\ "decide.update" \in Labels
      BY <3>2 DEF DecideFrame, Request, FrameFits, Labels
    <3> QED BY <2>2, <3>1, <3>3, MoveHandler DEF TypeOK, Goto
  <2> QED BY <2>3, <2>4
<1>4. ASSUME NEW p \in Procs, StartWorkflow(p) PROVE TypeOK'
  <2>1. RowsOK' BY <1>4 DEF StartWorkflow, TypeOK, RowsOK
  <2>2. CASE Throw(p)
    BY <2>1, <2>2, ThrowOK DEF Throw, TypeOK
  <2>3. CASE Goto(p, "start.insert") /\ UNCHANGED frame
    <3>1. frame[p] \in StartFrame /\ frame[p].ret = "idle" /\ pc[p] = "start.workflow"
      BY <1>4 DEF StartWorkflow, TypeOK, HandlersOK, FrameFits
    <3>2. FrameFits("start.insert", frame[p]) /\ "start.insert" \in Labels
      BY <3>1 DEF FrameFits, Labels
    <3>3. frame' = [frame EXCEPT ![p] = frame[p]] BY <2>3 DEF TypeOK, HandlersOK
    <3> QED BY <2>1, <2>3, <3>1, <3>2, <3>3, MoveHandler DEF TypeOK, Goto
  <2> QED BY <1>4, <2>2, <2>3 DEF StartWorkflow
<1>5. ASSUME NEW p \in Procs, StartInsert(p) PROVE TypeOK'
  <2>1. frame[p] \in StartFrame /\ frame[p].ret = "idle"
    BY <1>5 DEF StartInsert, TypeOK, HandlersOK, FrameFits
  <2>2. RowsOK'
    BY <1>5, <2>1 DEF StartInsert, TypeOK, RowsOK, StartFrame, Request, Statuses
  <2>3. Return(p, "idle") BY <1>5, <2>1 DEF StartInsert, Throw
  <2> QED BY <2>2, <2>3, ThrowOK DEF TypeOK
<1>6. ASSUME NEW p \in Procs, DecideUpdate(p) PROVE TypeOK'
  <2> DEFINE f == frame[p]
             r == [wf |-> request[f.entity].wf, step |-> NextStep(f.wf, f.step, f.decision),
                   status |-> NextStatus(f.wf, f.step, f.decision)]
  <2>1. f \in DecideFrame /\ f.ret = "idle"
    BY <1>6 DEF DecideUpdate, TypeOK, HandlersOK, FrameFits
  <2>2. DecisionOf(f) \in Decision
    BY <2>1 DEF DecisionOf, Decision, DecideFrame
  <2>3. NextStep(f.wf, f.step, f.decision) \in Nat
    BY <2>1 DEF NextStep, DecideFrame
  <2>4. NextStatus(f.wf, f.step, f.decision) \in Statuses
    BY DEF NextStatus, Statuses
  <2>5. request[f.entity] \in Request
    BY <1>6, <2>1 DEF DecideUpdate, FramesGrounded, Grounded, TypeOK, RowsOK, DecideFrame
  <2>6. r \in Request BY <2>3, <2>4, <2>5 DEF Request
  <2>7. RowsOK'
    BY <1>6, <2>2, <2>6 DEF DecideUpdate, TypeOK, RowsOK
  <2>8. FrameFits("decide.audit", f) /\ "decide.audit" \in Labels
    BY <2>1 DEF FrameFits, Labels
  <2>9. frame' = [frame EXCEPT ![p] = f] /\ Goto(p, "decide.audit")
    BY <1>6 DEF DecideUpdate, TypeOK, HandlersOK
  <2> QED BY <2>1, <2>7, <2>8, <2>9, MoveHandler DEF TypeOK, Goto
<1>7. ASSUME NEW p \in Procs, DecideAudit(p) PROVE TypeOK'
  <2>1. frame[p] \in DecideFrame /\ frame[p].ret = "idle"
    BY <1>7 DEF DecideAudit, TypeOK, HandlersOK, FrameFits
  <2>2. DecisionOf(frame[p]) \in Decision
    BY <2>1 DEF DecisionOf, Decision, DecideFrame
  <2>3. RowsOK' BY <1>7, <2>2 DEF DecideAudit, TypeOK, RowsOK
  <2> QED BY <1>7, <2>1, <2>3, ThrowOK DEF DecideAudit, TypeOK
<1>8. ASSUME NEW p \in Procs, Fail(p) PROVE TypeOK'
  BY <1>8, ThrowOK DEF Fail, Throw, TypeOK, RowsOK
<1>9. CASE UNCHANGED vars
  BY <1>9 DEF TypeOK, RowsOK, HandlersOK, FrameFits, vars
<1> QED
  BY <1>1, <1>2, <1>3, <1>4, <1>5, <1>6, <1>7, <1>8, <1>9 DEF Next, Continue

-----------------------------------------------------------------------------
(* What no step ever takes back *)

(* Requests keep their workflow and decisions are only added. *)
Monotone ==
  /\ \A e \in Entities : request[e] # NoRow =>
       request'[e] # NoRow /\ request'[e].wf = request[e].wf
  /\ decided \subseteq decided'

LEMMA StepMonotone == IInv /\ [Next]_vars => Monotone
<1> SUFFICES ASSUME IInv, [Next]_vars PROVE Monotone
  OBVIOUS
<1>1. CASE Admin
  BY <1>1 DEF Admin, Create, Remove, Restore, Monotone
<1>2. ASSUME NEW p \in Procs, Start(p) \/ Decide(p) \/ StartWorkflow(p) \/ DecideAudit(p) \/ Fail(p)
      PROVE  Monotone
  BY <1>2 DEF Start, StartFind, Decide, DecideRead, StartWorkflow, DecideAudit, Fail, Monotone
<1>3. ASSUME NEW p \in Procs, StartInsert(p) PROVE Monotone
  BY <1>3 DEF StartInsert, Monotone, IInv, TypeOK, RowsOK
<1>4. ASSUME NEW p \in Procs, DecideUpdate(p) PROVE Monotone
  <2>1. frame[p].entity \in Entities
    BY <1>4 DEF DecideUpdate, IInv, TypeOK, HandlersOK, FrameFits, DecideFrame
  <2>2. \A e \in Entities : e # frame[p].entity => request'[e] = request[e]
    BY <1>4 DEF DecideUpdate, IInv, TypeOK, RowsOK
  <2>3. request'[frame[p].entity] =
          [wf |-> request[frame[p].entity].wf,
           step |-> NextStep(frame[p].wf, frame[p].step, frame[p].decision),
           status |-> NextStatus(frame[p].wf, frame[p].step, frame[p].decision)]
    BY <1>4, <2>1 DEF DecideUpdate, IInv, TypeOK, RowsOK
  <2>4. TypeOK' BY NextTypeOK DEF IInv
  <2>5. request'[frame[p].entity] # NoRow
    <3>1. request'[frame[p].entity].wf \in Workflows
      BY <1>4, <2>1, <2>3 DEF DecideUpdate, IInv, FramesGrounded, Grounded, TypeOK, RowsOK, Request
    <3>2. NextStep(frame[p].wf, frame[p].step, frame[p].decision) \in Nat
      BY <1>4 DEF DecideUpdate, NextStep, IInv, TypeOK, HandlersOK, FrameFits, DecideFrame
    <3>3. request'[frame[p].entity] \in Request
      BY <2>3, <3>1, <3>2 DEF NextStatus, Request, Statuses
    <3> QED BY <3>3, ChainAssumption
  <2> QED BY <1>4, <2>2, <2>3, <2>5 DEF DecideUpdate, Monotone
<1>5. CASE UNCHANGED vars
  BY <1>5 DEF vars, Monotone
<1> QED
  BY <1>1, <1>2, <1>3, <1>4, <1>5 DEF Next, Continue

-----------------------------------------------------------------------------
(* The inductive invariant *)

LEMMA InitIInv == Init => IInv
<1> SUFFICES ASSUME Init PROVE IInv
  OBVIOUS
<1>1. TypeOK BY InitTypeOK
<1>2. \A e \in Entities : request[e] = NoRow BY DEF Init
<1>3. \A p \in Procs : pc[p] = "idle" BY DEF Init
<1>4. CurrentStepExists /\ StepsVouched BY <1>2 DEF CurrentStepExists, StepsVouched
<1>5. AuditIsTrue BY DEF Init, AuditIsTrue
<1>6. FramesGrounded BY <1>3 DEF FramesGrounded
<1> QED BY <1>1, <1>4, <1>5, <1>6 DEF IInv

(* Decisions are only ever added, so whatever is vouched for stays so. *)
LEMMA VouchedStays ==
  ASSUME NEW D, NEW E, D \subseteq E, NEW e, NEW w, NEW s, Vouched(D, e, w, s)
  PROVE  Vouched(E, e, w, s)
BY DEF Vouched

(* The frame that is read off a pending request is grounded. *)
LEMMA ReadGrounded ==
  ASSUME IInv, NEW e \in Entities, NEW u \in Users, request[e] # NoRow,
         MayDecide(u, request[e].wf, request[e].step),
         NEW f, f.entity = e, f.wf = request[e].wf, f.step = request[e].step, f.user = u
  PROVE  Grounded(request, decided, f)
<1>1. f.step \in 1..StepCount[f.wf] BY DEF IInv, CurrentStepExists
<1>2. CanActOnStep(f.user, f.wf, f.step) BY <1>1 DEF MayDecide
<1>3. \A s \in 1..StepCount[f.wf] : s < f.step => Vouched(decided, f.entity, f.wf, s)
  BY DEF IInv, StepsVouched
<1> QED BY <1>1, <1>2, <1>3 DEF Grounded

LEMMA NextFramesGrounded == IInv /\ [Next]_vars => FramesGrounded'
<1> SUFFICES ASSUME IInv, [Next]_vars, NEW q \in Procs
             PROVE  /\ pc'[q] = "decide.update" => Grounded(request', decided', frame'[q])
                    /\ pc'[q] = "decide.audit" => DecisionOf(frame'[q]) \in decided'
  BY DEF FramesGrounded, DecisionOf
<1>m. Monotone BY StepMonotone
<1>1. CASE pc'[q] = pc[q] /\ frame'[q] = frame[q]
  <2>1. CASE pc[q] = "decide.update"
    <3> DEFINE f == frame[q]
    <3>1. Grounded(request, decided, f) /\ f.entity \in Entities
      BY <2>1 DEF IInv, FramesGrounded, TypeOK, HandlersOK, FrameFits, DecideFrame
    <3>2. request'[f.entity] # NoRow /\ request'[f.entity].wf = f.wf
      BY <3>1, <1>m DEF Grounded, Monotone
    <3>3. \A s \in 1..StepCount[f.wf] : s < f.step => Vouched(decided', f.entity, f.wf, s)
      BY <3>1, <1>m, VouchedStays DEF Grounded, Monotone
    <3> QED BY <1>1, <2>1, <3>1, <3>2, <3>3 DEF Grounded
  <2>2. CASE pc[q] = "decide.audit"
    BY <1>1, <2>2, <1>m DEF IInv, FramesGrounded, Monotone
  <2> QED BY <1>1, <2>1, <2>2
<1>2. CASE DecideUpdate(q)
  BY <1>2 DEF DecideUpdate, Goto, DecisionOf, IInv, TypeOK, HandlersOK
<1>3. CASE Decide(q)
  <2>1. PICK e \in Entities, u \in Users, d \in Decisions : DecideRead(q, e, u, d, "idle")
    BY <1>3 DEF Decide
  <2>2. CASE Throw(q)
    BY <2>2 DEF Throw, Return, Goto, IInv, TypeOK, HandlersOK
  <2>3. CASE ~Throw(q)
    <3> DEFINE f == [entity |-> e, wf |-> request[e].wf, step |-> request[e].step,
                     user |-> u, decision |-> d, ret |-> "idle"]
    <3>1. /\ request[e] # NoRow /\ MayDecide(u, request[e].wf, request[e].step)
          /\ frame' = [frame EXCEPT ![q] = f] /\ Goto(q, "decide.update")
          /\ UNCHANGED <<request, decided>>
      BY <2>1, <2>3 DEF DecideRead, FrameOf
    <3>2. frame'[q] = f /\ pc'[q] = "decide.update"
      BY <3>1 DEF Goto, IInv, TypeOK, HandlersOK
    <3>3. Grounded(request, decided, f)
      BY <3>1, ReadGrounded
    <3> QED BY <3>1, <3>2, <3>3
  <2> QED BY <2>2, <2>3
<1>4. CASE Start(q) \/ StartWorkflow(q) \/ StartInsert(q) \/ DecideAudit(q) \/ Fail(q)
  BY <1>4 DEF Start, StartFind, StartWorkflow, StartInsert, DecideAudit, Fail, Throw,
              Return, Goto, IInv, TypeOK, HandlersOK, FrameFits
<1>5. ASSUME NEW p \in Procs, p # q, Step(p) PROVE pc'[q] = pc[q] /\ frame'[q] = frame[q]
  BY <1>5 DEF Step, Start, StartFind, Decide, DecideRead, Continue, StartWorkflow,
              StartInsert, DecideUpdate, DecideAudit, Fail, Throw, Return, Goto,
              IInv, TypeOK, HandlersOK
<1>6. CASE Admin \/ UNCHANGED vars
  BY <1>1, <1>6 DEF Admin, Create, Remove, Restore, vars
<1> QED BY <1>1, <1>2, <1>3, <1>4, <1>5, <1>6 DEF Next, Step, Continue

(* What DecideUpdate makes of the request its frame is about. *)
LEMMA UpdatedRequest ==
  ASSUME IInv, NEW p \in Procs, DecideUpdate(p)
  PROVE  LET f == frame[p] IN
         /\ f \in DecideFrame /\ Grounded(request, decided, f)
         /\ request'[f.entity] =
              [wf |-> f.wf, step |-> NextStep(f.wf, f.step, f.decision),
               status |-> NextStatus(f.wf, f.step, f.decision)]
         /\ \A e \in Entities : e # f.entity => request'[e] = request[e]
         /\ decided' = decided \cup {DecisionOf(f)}
<1>1. frame[p] \in DecideFrame /\ frame[p].entity \in Entities
  BY DEF DecideUpdate, IInv, TypeOK, HandlersOK, FrameFits, DecideFrame
<1>2. Grounded(request, decided, frame[p]) BY DEF DecideUpdate, IInv, FramesGrounded
<1>3. request[frame[p].entity].wf = frame[p].wf BY <1>2 DEF Grounded
<1> QED BY <1>1, <1>2, <1>3 DEF DecideUpdate, IInv, TypeOK, RowsOK

(* The next step of a step of the chain is a step of the chain, and the    *)
(* last one is the only one whose approval is final.                       *)
LEMMA NextStepInChain ==
  ASSUME NEW w \in Workflows, NEW s \in 1..StepCount[w], NEW d \in Decisions
  PROVE  /\ NextStep(w, s, d) \in 1..StepCount[w]
         /\ IsLastStep(w, s) <=> s = StepCount[w]
         /\ NextStep(w, s, d) # s => d = "approved" /\ NextStep(w, s, d) = s + 1
         /\ NextStatus(w, s, d) = "approved"
              => d = "approved" /\ s = StepCount[w] /\ NextStep(w, s, d) = s
<1>1. StepCount[w] \in Nat \ {0} BY ChainAssumption
<1>2. IsLastStep(w, s) <=> s = StepCount[w]
  <2>1. s # StepCount[w] => StepCount[w] \in 1..StepCount[w] /\ StepCount[w] > s BY <1>1
  <2>2. s = StepCount[w] => ~ \E t \in 1..StepCount[w] : t > s BY <1>1
  <2> QED BY <2>1, <2>2 DEF IsLastStep
<1> QED BY <1>1, <1>2 DEF NextStep, NextStatus, Decisions

LEMMA NextStepsInv == IInv /\ [Next]_vars => (CurrentStepExists /\ StepsVouched)'
<1> SUFFICES ASSUME IInv, [Next]_vars PROVE (CurrentStepExists /\ StepsVouched)'
  OBVIOUS
<1>m. Monotone BY StepMonotone
<1>1. SUFFICES ASSUME NEW e \in Entities, request'[e] # NoRow
               PROVE  /\ request'[e].step \in 1..StepCount[request'[e].wf]
                      /\ \A s \in 1..StepCount[request'[e].wf] :
                           s < request'[e].step \/ request'[e].status = "approved"
                             => Vouched(decided', e, request'[e].wf, s)
  BY DEF CurrentStepExists, StepsVouched
<1>2. CASE request'[e] = request[e]
  <2>1. request[e].step \in 1..StepCount[request[e].wf] BY <1>1, <1>2 DEF IInv, CurrentStepExists
  <2>2. ASSUME NEW s \in 1..StepCount[request[e].wf],
               s < request[e].step \/ request[e].status = "approved"
        PROVE  Vouched(decided', e, request[e].wf, s)
    <3>1. Vouched(decided, e, request[e].wf, s) BY <1>1, <1>2, <2>2 DEF IInv, StepsVouched
    <3> QED BY <3>1, <1>m, VouchedStays DEF Monotone
  <2> QED BY <1>2, <2>1, <2>2
<1>3. ASSUME NEW p \in Procs, StartInsert(p), request'[e] # request[e]
      PROVE  /\ request'[e].step = 1 /\ request'[e].status = "pending"
             /\ request'[e].wf \in Workflows
  <2>1. frame[p].wf \in Workflows
    BY <1>3 DEF StartInsert, IInv, TypeOK, HandlersOK, FrameFits, StartFrame
  <2> QED BY <1>3, <2>1 DEF StartInsert, IInv, TypeOK, RowsOK
<1>4. ASSUME NEW p \in Procs, StartInsert(p), request'[e] # request[e]
      PROVE  /\ request'[e].step \in 1..StepCount[request'[e].wf]
             /\ \A s \in 1..StepCount[request'[e].wf] :
                  s < request'[e].step \/ request'[e].status = "approved"
                    => Vouched(decided', e, request'[e].wf, s)
  BY <1>3, <1>4, ChainAssumption
<1>5. ASSUME NEW p \in Procs, DecideUpdate(p), request'[e] # request[e]
      PROVE  /\ request'[e].step \in 1..StepCount[request'[e].wf]
             /\ \A s \in 1..StepCount[request'[e].wf] :
                  s < request'[e].step \/ request'[e].status = "approved"
                    => Vouched(decided', e, request'[e].wf, s)
  <2> DEFINE f == frame[p]
             n == NextStep(f.wf, f.step, f.decision)
  <2>1. /\ f \in DecideFrame /\ Grounded(request, decided, f) /\ e = f.entity
        /\ request'[e] = [wf |-> f.wf, step |-> n, status |-> NextStatus(f.wf, f.step, f.decision)]
        /\ decided' = decided \cup {DecisionOf(f)}
    BY <1>5, UpdatedRequest
  <2>2. f.wf \in Workflows /\ f.user \in Users /\ f.decision \in Decisions
        /\ f.step \in 1..StepCount[f.wf]
    BY <2>1 DEF DecideFrame, Grounded
  <2>3. n \in 1..StepCount[f.wf] BY <2>2, NextStepInChain
  <2>4. f.decision = "approved" => Vouched(decided', e, f.wf, f.step)
    BY <2>1, <2>2 DEF Vouched, DecisionOf, Grounded
  <2>5. ASSUME NEW s \in 1..StepCount[f.wf], s < f.step PROVE Vouched(decided', e, f.wf, s)
    BY <2>1, <2>5, VouchedStays DEF Grounded
  <2>6. ASSUME NEW s \in 1..StepCount[f.wf],
               s < n \/ NextStatus(f.wf, f.step, f.decision) = "approved"
        PROVE  s < f.step \/ (s = f.step /\ f.decision = "approved")
    BY <2>2, <2>6, NextStepInChain, ChainAssumption
  <2> QED BY <2>1, <2>3, <2>4, <2>5, <2>6
<1>6. ASSUME NEW p \in Procs, Start(p) \/ Decide(p) \/ StartWorkflow(p) \/ DecideAudit(p) \/ Fail(p)
      PROVE  request' = request
  BY <1>6 DEF Start, StartFind, Decide, DecideRead, StartWorkflow, DecideAudit, Fail
<1>7. CASE Admin \/ UNCHANGED vars
  BY <1>2, <1>7 DEF Admin, Create, Remove, Restore, vars
<1> QED BY <1>2, <1>4, <1>5, <1>6, <1>7 DEF Next, Continue

LEMMA NextAuditIsTrue == IInv /\ [Next]_vars => AuditIsTrue'
<1> SUFFICES ASSUME IInv, [Next]_vars PROVE AuditIsTrue'
  OBVIOUS
<1>1. decided \subseteq decided' BY StepMonotone DEF Monotone
<1>2. CASE audit' = audit BY <1>1, <1>2 DEF IInv, AuditIsTrue
<1>3. ASSUME NEW p \in Procs, DecideAudit(p) PROVE AuditIsTrue'
  BY <1>3 DEF DecideAudit, IInv, FramesGrounded, AuditIsTrue
<1>4. CASE Admin \/ UNCHANGED vars
  BY <1>2, <1>4 DEF Admin, Create, Remove, Restore, vars
<1>5. ASSUME NEW p \in Procs, Step(p), ~DecideAudit(p) PROVE audit' = audit
  BY <1>5 DEF Step, Start, StartFind, Decide, DecideRead, Continue, StartWorkflow,
              StartInsert, DecideUpdate, Fail
<1> QED BY <1>2, <1>3, <1>4, <1>5 DEF Next, Step

LEMMA NextIInv == IInv /\ [Next]_vars => IInv'
BY NextTypeOK, NextFramesGrounded, NextStepsInv, NextAuditIsTrue DEF IInv

-----------------------------------------------------------------------------
(* The theorems *)

LEMMA Inductive == Spec => []IInv
<1>1. Init => IInv BY InitIInv
<1>2. IInv /\ [Next]_vars => IInv' BY NextIInv
<1> QED BY <1>1, <1>2, PTL DEF Spec

(* Rows and handlers stay well formed. *)
THEOREM TypeCorrect == Spec => []TypeOK
<1>1. IInv => TypeOK BY DEF IInv
<1> QED BY <1>1, Inductive, PTL

(* The gate of a step is never skipped for want of a step. *)
THEOREM GateNeverSkipped == Spec => []CurrentStepExists
<1>1. IInv => CurrentStepExists BY DEF IInv
<1> QED BY <1>1, Inductive, PTL

(* However stale the decisions, no step of a chain is skipped, and none is *)
(* passed without an approval by a holder of its gate.                     *)
THEOREM NoStepSkipped == Spec => []StepsVouched
<1>1. IInv => StepsVouched BY DEF IInv
<1> QED BY <1>1, Inductive, PTL

(* The audit log claims no decision that was not written. *)
THEOREM AuditTrue == Spec => []AuditIsTrue
<1>1. IInv => AuditIsTrue BY DEF IInv
<1> QED BY <1>1, Inductive, PTL

(* startRequest is idempotent under any interleaving. *)
THEOREM StartIsIdempotent == Spec => RequestPinned
<1>1. IInv /\ [Next]_vars =>
        [\A e \in Entities : request[e] # NoRow =>
           request'[e] # NoRow /\ request'[e].wf = request[e].wf]_vars
  BY StepMonotone DEF Monotone
<1> QED BY <1>1, Inductive, PTL DEF Spec, RequestPinned

-----------------------------------------------------------------------------
(* The engine implements the linear chain while decisions do not overlap.  *)

(* Without overlap a decision is never stale: the request still is where   *)
(* the handler that is about to write found it.                            *)
Fresh ==
  \A p \in Procs : pc[p] = "decide.update" =>
    /\ request[frame[p].entity].status = "pending"
    /\ request[frame[p].entity].step = frame[p].step

SInv == IInv /\ Serial /\ Fresh

LEMMA NextFresh == SInv /\ [Next /\ Serial']_vars => Fresh'
<1> SUFFICES ASSUME SInv, [Next /\ Serial']_vars, NEW q \in Procs, pc'[q] = "decide.update"
             PROVE  /\ request'[frame'[q].entity].status = "pending"
                    /\ request'[frame'[q].entity].step = frame'[q].step
  BY DEF Fresh
<1> USE DEF SInv
<1>1. IInv' BY NextIInv
<1>2. CASE Decide(q)
  <2>1. PICK e \in Entities, u \in Users, d \in Decisions : DecideRead(q, e, u, d, "idle")
    BY <1>2 DEF Decide
  <2>2. ~Throw(q) BY DEF Throw, Return, Goto, IInv, TypeOK, HandlersOK
  <2> QED BY <2>1, <2>2 DEF DecideRead, FrameOf, Goto, IInv, TypeOK, HandlersOK
<1>3. CASE Start(q) \/ StartWorkflow(q) \/ StartInsert(q) \/ DecideAudit(q) \/ Fail(q) \/ DecideUpdate(q)
  BY <1>3 DEF Start, StartFind, StartWorkflow, StartInsert, DecideAudit, Fail, DecideUpdate,
              Throw, Return, Goto, IInv, TypeOK, HandlersOK, FrameFits
<1>4. ASSUME pc[q] = "decide.update", frame'[q] = frame[q],
             request'[frame[q].entity] = request[frame[q].entity]
      PROVE  /\ request'[frame'[q].entity].status = "pending"
             /\ request'[frame'[q].entity].step = frame'[q].step
  BY <1>4 DEF Fresh
<1>5. ASSUME NEW p \in Procs, p # q, Step(p)
      PROVE  pc[q] = "decide.update" /\ frame'[q] = frame[q]
  BY <1>5 DEF Step, Start, StartFind, Decide, DecideRead, Continue, StartWorkflow,
              StartInsert, DecideUpdate, DecideAudit, Fail, Throw, Return, Goto,
              IInv, TypeOK, HandlersOK
<1>6. ASSUME NEW p \in Procs, p # q, DecideUpdate(p)
      PROVE  request'[frame[q].entity] = request[frame[q].entity]
  <2>1. pc[p] = "decide.update" BY <1>6 DEF DecideUpdate
  <2>2. pc[q] = "decide.update" BY <1>5, <1>6 DEF Step, Continue
  <2>3. frame[p].entity # frame[q].entity BY <1>6, <2>1, <2>2 DEF Serial
  <2>4. frame[q].entity \in Entities
    BY <2>2 DEF IInv, TypeOK, HandlersOK, FrameFits, DecideFrame
  <2> QED BY <1>6, <2>3, <2>4, UpdatedRequest
<1>7. ASSUME NEW p \in Procs, p # q, StartInsert(p)
      PROVE  request'[frame[q].entity] = request[frame[q].entity]
  <2>1. pc[q] = "decide.update" BY <1>5, <1>7 DEF Step, Continue
  <2>2. request[frame[q].entity] # NoRow BY <2>1 DEF IInv, FramesGrounded, Grounded
  <2>3. frame[q].entity \in Entities
    BY <2>1 DEF IInv, TypeOK, HandlersOK, FrameFits, DecideFrame
  <2> QED BY <1>7, <2>2, <2>3 DEF StartInsert, IInv, TypeOK, RowsOK
<1>8. ASSUME NEW p \in Procs, Start(p) \/ Decide(p) \/ StartWorkflow(p) \/ DecideAudit(p) \/ Fail(p)
      PROVE  request' = request
  BY <1>8 DEF Start, StartFind, Decide, DecideRead, StartWorkflow, DecideAudit, Fail
<1>9. CASE Admin \/ UNCHANGED vars
  BY <1>4, <1>9 DEF Admin, Create, Remove, Restore, vars
<1> QED BY <1>2, <1>3, <1>4, <1>5, <1>6, <1>7, <1>8, <1>9 DEF Next, Step, Continue

LEMMA SerialInductive == SerialSpec => []SInv
<1>1. Init => SInv
  BY InitIInv DEF Init, SInv, Serial, Fresh
<1>2. SInv /\ [Next /\ Serial']_vars => SInv'
  <2> SUFFICES ASSUME SInv, [Next /\ Serial']_vars PROVE SInv'
    OBVIOUS
  <2>1. IInv' BY NextIInv DEF SInv
  <2>2. Fresh' BY NextFresh
  <2>3. Serial' BY DEF SInv, Serial, vars
  <2> QED BY <2>1, <2>2, <2>3 DEF SInv
<1> QED BY <1>1, <1>2, PTL DEF SerialSpec

(* A decision that is not stale is one decision of the chain. *)
LEMMA UpdateIsChainStep ==
  ASSUME SInv, NEW p \in Procs, DecideUpdate(p)
  PROVE  Chain!Next
<1> DEFINE f == frame[p]
           e == f.entity
           r == request[e]
<1>1. /\ f \in DecideFrame /\ Grounded(request, decided, f)
      /\ request'[e] = [wf |-> f.wf, step |-> NextStep(f.wf, f.step, f.decision),
                        status |-> NextStatus(f.wf, f.step, f.decision)]
      /\ \A x \in Entities : x # e => request'[x] = request[x]
      /\ decided' = decided \cup {DecisionOf(f)}
  BY UpdatedRequest DEF SInv
<1>2. /\ e \in Entities /\ f.wf \in Workflows /\ f.user \in Users /\ f.decision \in Decisions
      /\ f.step \in 1..StepCount[f.wf]
  BY <1>1 DEF DecideFrame, Grounded
<1>3. r # NoRow /\ r.status = "pending" /\ r.step = f.step /\ r.wf = f.wf
  BY <1>1 DEF SInv, Fresh, DecideUpdate, Grounded
<1>4. f.user \in Approvers[r.wf][r.step]
  BY <1>1, <1>2, <1>3 DEF Approvers, Grounded
<1>5. Chain!DecidedBy(e, f.user, f.decision)
  BY <1>1, <1>3, <1>4 DEF Chain!DecidedBy, DecisionOf
<1>6. request' = [request EXCEPT ![e] =
                    [wf |-> f.wf, step |-> NextStep(f.wf, f.step, f.decision),
                     status |-> NextStatus(f.wf, f.step, f.decision)]]
  BY <1>3 DEF DecideUpdate
<1>7. CASE f.decision = "approved"
  <2>a. IsLastStep(f.wf, f.step) <=> ~ f.step < StepCount[f.wf]
    BY <1>2, NextStepInChain, ChainAssumption
  <2>b. request' = [request EXCEPT ![e] =
                      IF f.step < StepCount[f.wf]
                        THEN [wf |-> f.wf, step |-> f.step + 1, status |-> "pending"]
                        ELSE [wf |-> f.wf, step |-> f.step, status |-> "approved"]]
    BY <1>6, <1>7, <2>a DEF NextStep, NextStatus
  <2>1. Chain!Approve(e, f.user)
    BY <1>3, <1>5, <1>7, <2>b DEF Chain!Approve
  <2> QED BY <1>2, <2>1 DEF Chain!Next
<1>8. CASE f.decision = "rejected"
  <2>1. Chain!Reject(e, f.user)
    BY <1>3, <1>5, <1>6, <1>8 DEF Chain!Reject, NextStep, NextStatus
  <2> QED BY <1>2, <2>1 DEF Chain!Next
<1> QED BY <1>2, <1>7, <1>8 DEF Decisions

(* While decisions on an entity do not overlap, the service implements the *)
(* linear chain of the governance requirements: one step at a time, every  *)
(* step decided by a holder of its gate, and a closed request stays closed *)
(* (FR-GOV-3.6, FR-GOV-3.7), whatever starts, deletions and failures       *)
(* happen in between.                                                      *)
THEOREM SerialImplementsChain == SerialSpec => ChainSpec
<1>1. Init => Chain!Init
  BY DEF Init, Chain!Init
<1>2. SInv /\ [Next /\ Serial']_vars => [Chain!Next]_(Chain!vars)
  <2> SUFFICES ASSUME SInv, [Next]_vars PROVE [Chain!Next]_(Chain!vars)
    OBVIOUS
  <2>1. CASE Admin \/ UNCHANGED vars
    BY <2>1 DEF Admin, Create, Remove, Restore, vars, Chain!vars
  <2>2. ASSUME NEW p \in Procs, Start(p) \/ Decide(p) \/ StartWorkflow(p) \/ DecideAudit(p) \/ Fail(p)
        PROVE  UNCHANGED Chain!vars
    BY <2>2 DEF Start, StartFind, Decide, DecideRead, StartWorkflow, DecideAudit, Fail, Chain!vars
  <2>3. ASSUME NEW p \in Procs, StartInsert(p) PROVE [Chain!Next]_(Chain!vars)
    <3>1. frame[p].entity \in Entities /\ frame[p].wf \in Workflows
      BY <2>3 DEF StartInsert, SInv, IInv, TypeOK, HandlersOK, FrameFits, StartFrame
    <3> QED BY <2>3, <3>1 DEF StartInsert, Chain!Next, Chain!Open, Chain!vars
  <2>4. ASSUME NEW p \in Procs, DecideUpdate(p) PROVE Chain!Next
    BY <2>4, UpdateIsChainStep
  <2> QED BY <2>1, <2>2, <2>3, <2>4 DEF Next, Continue
<1> QED BY <1>1, <1>2, SerialInductive, PTL DEF SerialSpec, ChainSpec, Chain!Spec
=============================================================================
