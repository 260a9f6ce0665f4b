-------------------- MODULE HierarchyRequirementsProofs --------------------
(***************************************************************************)
(* Submissions, their approval requests and their deadlines, for any       *)
(* number of each and of concurrent handlers, and chains of any length.    *)
(***************************************************************************)
EXTENDS HierarchyRequirements, TLAPS

DecideFrame == [entity : Submissions, wf : Workflows, step : Nat, user : Users,
                decision : Verdicts, ret : {"idle", "verdict.mirror"}]
Frames == AW!StartFrame \cup DecideFrame \cup DL!Frame \cup {NoRow}
Calls  == OpenCall \cup SubmitCall \cup VerdictCall \cup {NoRow}

OwnLabels == {"idle"} \cup OpenLabels \cup SubmitLabels \cup VerdictLabels

RowsOK ==
  /\ AW!RowsOK
  /\ requirement \in [Requirements -> [state : {"absent", "live", "deleted"},
                                       wf : Workflows \cup {NoRow}]]
  /\ submission \in [Submissions -> Statuses]
  /\ recorded \subseteq [sub : Submissions, verdict : Verdicts]
  /\ deadline \in [Submissions -> DL!Deadline \cup {NoRow}]
  /\ now \in DL!Times

Decided(S, s) == S[s] \notin {"absent", "pending"}

(* What a handler that is about to write a decision has read. *)
GateHeld(f) == f.step \in 1..StepCount[f.wf] /\ AW!CanActOnStep(f.user, f.wf, f.step)

(* What a handler at label l with locals f and c knows of the submissions  *)
(* S, the requests Q, the decisions D, the recorded decisions R and the    *)
(* deadlines L, stale as its reading of them may be.                       *)
Knows(S, Q, D, R, L, l, f, c) ==
  /\ l \in OwnLabels => f = NoRow
  /\ l \in DL!Labels => c = NoRow
  /\ l \in OpenLabels => c \in OpenCall
  /\ l = "open.request" => c.wf # NoRow /\ S[c.sub] # "absent"
  /\ l \in SubmitLabels => c \in SubmitCall
  /\ l \in VerdictLabels => c \in VerdictCall /\ Decided(S, c.sub)
  /\ l = "verdict.mirror" => Grounded(R, D, c.sub, c.verdict)
  /\ l \in DL!Labels \ {"idle"} => f \in DL!Frame /\ L[f.entity] # NoRow
  /\ l \in {"start.workflow", "start.insert"} =>
       f \in AW!StartFrame /\ f.ret = "idle" /\ S[f.entity] # "absent"
  /\ l \in {"decide.update", "decide.audit"} =>
       /\ f \in DecideFrame /\ GateHeld(f)
       /\ f.ret = "verdict.mirror" =>
            c \in VerdictCall /\ c.sub = f.entity /\ c.verdict = f.decision /\ Decided(S, c.sub)
  /\ l = "decide.update" => Q[f.entity] # NoRow /\ Q[f.entity].wf = f.wf
  /\ l = "decide.audit" => AW!DecisionOf(f) \in D

HandlersOK ==
  /\ pc \in [Procs -> Labels]
  /\ frame \in [Procs -> Frames]
  /\ call \in [Procs -> Calls]
  /\ \A p \in Procs :
       Knows(submission, request, decided, recorded, deadline, pc[p], frame[p], call[p])

IInv == RowsOK /\ HandlersOK /\ AW!CurrentStepExists /\ RequestHasSubmission /\ VerdictIsGrounded

LEMMA Typed == IInv => TypeOK
<1> SUFFICES ASSUME IInv PROVE TypeOK
  OBVIOUS
<1>1. ASSUME NEW p \in Procs
      PROVE  /\ pc[p] = "idle" => call[p] = NoRow /\ frame[p] = NoRow
             /\ pc[p] \in OpenLabels => call[p] \in OpenCall
             /\ pc[p] = "open.request" => call[p].wf # NoRow
             /\ pc[p] \in SubmitLabels => call[p] \in SubmitCall
             /\ pc[p] \in VerdictLabels => call[p] \in VerdictCall
             /\ pc[p] \in DL!Labels \ {"idle"} => frame[p] \in DL!Frame
             /\ pc[p] \in {"start.workflow", "start.insert"} => frame[p] \in AW!StartFrame
             /\ pc[p] \in {"decide.update", "decide.audit"} =>
                  frame[p] \in DecideFrame /\ (frame[p].ret = "verdict.mirror" => call[p] \in VerdictCall)
  BY DEF IInv, HandlersOK, Knows, OwnLabels, DL!Labels
<1> QED
  BY <1>1 DEF IInv, RowsOK, HandlersOK, TypeOK, DecideFrame

-----------------------------------------------------------------------------
(* Steps that lose nothing a handler may know *)

Grows ==
  /\ decided \subseteq decided' /\ recorded \subseteq recorded'
  /\ \A s \in Submissions :
       /\ submission[s] # "absent" => submission'[s] # "absent"
       /\ Decided(submission, s) => Decided(submission', s)
       /\ request[s] # NoRow => request'[s] # NoRow /\ request'[s].wf = request[s].wf
       /\ deadline[s] # NoRow => deadline'[s] # NoRow

LEMMA GroundedGrows ==
  ASSUME NEW R1, NEW R2, NEW D1, NEW D2, R1 \subseteq R2, D1 \subseteq D2, NEW s, NEW v,
         Grounded(R1, D1, s, v)
  PROVE  Grounded(R2, D2, s, v)
BY DEF Grounded

LEMMA StillKnows ==
  ASSUME Grows, NEW l, NEW f, NEW c,
         Knows(submission, request, decided, recorded, deadline, l, f, c)
  PROVE  Knows(submission', request', decided', recorded', deadline', l, f, c)
<1>1. l = "open.request" => c.wf # NoRow /\ submission'[c.sub] # "absent"
  BY DEF Knows, Grows, OpenCall, OpenLabels
<1>2. l \in VerdictLabels => c \in VerdictCall /\ Decided(submission', c.sub)
  BY DEF Knows, Grows, VerdictCall
<1>3. l = "verdict.mirror" => Grounded(recorded', decided', c.sub, c.verdict)
  BY GroundedGrows DEF Knows, Grows
<1>4. l \in DL!Labels \ {"idle"} => f \in DL!Frame /\ deadline'[f.entity] # NoRow
  BY DEF Knows, Grows, DL!Frame
<1>5. l \in {"start.workflow", "start.insert"} =>
        f \in AW!StartFrame /\ f.ret = "idle" /\ submission'[f.entity] # "absent"
  BY DEF Knows, Grows, AW!StartFrame
<1>6. l \in {"decide.update", "decide.audit"} =>
       /\ f \in DecideFrame /\ GateHeld(f)
       /\ f.ret = "verdict.mirror" =>
            c \in VerdictCall /\ c.sub = f.entity /\ c.verdict = f.decision /\ Decided(submission', c.sub)
  BY DEF Knows, Grows, VerdictCall
<1>7. l = "decide.update" => request'[f.entity] # NoRow /\ request'[f.entity].wf = f.wf
  BY DEF Knows, Grows, DecideFrame
<1>8. l = "decide.audit" => AW!DecisionOf(f) \in decided'
  BY DEF Knows, Grows
<1> QED
  BY <1>1, <1>2, <1>3, <1>4, <1>5, <1>6, <1>7, <1>8 DEF Knows

LEMMA Move ==
  ASSUME IInv, Grows, NEW p \in Procs, NEW l \in Labels, NEW f \in Frames, NEW c \in Calls,
         Knows(submission', request', decided', recorded', deadline', l, f, c),
         pc' = [pc EXCEPT ![p] = l], frame' = [frame EXCEPT ![p] = f],
         call' = [call EXCEPT ![p] = c]
  PROVE  HandlersOK'
<1>1. pc' \in [Procs -> Labels] /\ frame' \in [Procs -> Frames] /\ call' \in [Procs -> Calls]
  BY DEF IInv, HandlersOK
<1>2. ASSUME NEW q \in Procs
      PROVE  Knows(submission', request', decided', recorded', deadline', pc'[q], frame'[q], call'[q])
  <2>1. CASE q = p
    <3>1. pc'[q] = l /\ frame'[q] = f /\ call'[q] = c
      BY <2>1 DEF IInv, HandlersOK
    <3> QED
      BY <3>1
  <2>2. CASE q # p
    <3>1. pc'[q] = pc[q] /\ frame'[q] = frame[q] /\ call'[q] = call[q]
      BY <2>2 DEF IInv, HandlersOK
    <3>2. Knows(submission, request, decided, recorded, deadline, pc[q], frame[q], call[q])
      BY DEF IInv, HandlersOK
    <3> QED
      BY <3>1, <3>2, StillKnows
  <2> QED
    BY <2>1, <2>2
<1> QED
  BY <1>1, <1>2 DEF HandlersOK

LEMMA Stay ==
  ASSUME IInv, Grows, UNCHANGED <<pc, frame, call>>
  PROVE  HandlersOK'
<1>1. \A q \in Procs :
        Knows(submission', request', decided', recorded', deadline', pc[q], frame[q], call[q])
  BY StillKnows DEF IInv, HandlersOK
<1> QED
  BY <1>1 DEF IInv, HandlersOK

(* A handler that ends, however it ends. *)
LEMMA Ends ==
  ASSUME IInv, Grows, NEW p \in Procs, pc' = [pc EXCEPT ![p] = "idle"],
         frame' = [frame EXCEPT ![p] = NoRow], call' = [call EXCEPT ![p] = NoRow]
  PROVE  HandlersOK'
<1>1. /\ "idle" \in Labels /\ NoRow \in Frames /\ NoRow \in Calls
      /\ Knows(submission', request', decided', recorded', deadline', "idle", NoRow, NoRow)
  BY DEF Labels, AW!Labels, Frames, Calls, Knows, OpenLabels, SubmitLabels, VerdictLabels
<1> QED
  BY <1>1, Move

(* Steps that write no row. *)
Still == UNCHANGED <<own, approval, timing>>

LEMMA StillStep ==
  ASSUME IInv, Still
  PROVE  Grows /\ (HandlersOK' => IInv')
<1>1. Grows
  BY DEF Still, own, approval, timing, Grows, Decided
<1>2. RowsOK' /\ AW!CurrentStepExists' /\ RequestHasSubmission' /\ VerdictIsGrounded'
  BY DEF Still, own, approval, timing, IInv, RowsOK, AW!RowsOK, AW!CurrentStepExists,
         RequestHasSubmission, VerdictIsGrounded
<1> QED
  BY <1>1, <1>2 DEF IInv

(* ... and take a handler elsewhere. *)
LEMMA StillMoves ==
  ASSUME IInv, Still, NEW p \in Procs, NEW l \in Labels, NEW f \in Frames, NEW c \in Calls,
         Knows(submission, request, decided, recorded, deadline, l, f, c),
         pc' = [pc EXCEPT ![p] = l], frame' = [frame EXCEPT ![p] = f],
         call' = [call EXCEPT ![p] = c]
  PROVE  IInv'
<1>1. Grows
  BY StillStep
<1>2. Knows(submission', request', decided', recorded', deadline', l, f, c)
  BY <1>1, StillKnows
<1>3. HandlersOK'
  BY <1>1, <1>2, Move
<1> QED
  BY <1>3, StillStep

LEMMA StillEnds ==
  ASSUME IInv, Still, NEW p \in Procs, pc' = [pc EXCEPT ![p] = "idle"],
         frame' = [frame EXCEPT ![p] = NoRow], call' = [call EXCEPT ![p] = NoRow]
  PROVE  IInv'
BY StillStep, Ends

(* The locals that a step leaves alone, put as an assignment. *)
LEMMA Unchanged ==
  ASSUME IInv, NEW p \in Procs
  PROVE  /\ pc[p] \in Labels /\ frame[p] \in Frames /\ call[p] \in Calls
         /\ frame = [frame EXCEPT ![p] = frame[p]] /\ call = [call EXCEPT ![p] = call[p]]
         /\ Knows(submission, request, decided, recorded, deadline, pc[p], frame[p], call[p])
BY DEF IInv, HandlersOK

LEMMA CallKept ==
  ASSUME IInv, NEW p \in Procs, NEW l, pc' = [pc EXCEPT ![p] = l], KeepCall(p)
  PROVE  call' = [call EXCEPT ![p] = IF l = "idle" THEN NoRow ELSE call[p]]
BY DEF KeepCall, IInv, HandlersOK

USE DEF OwnLabels, OpenLabels, SubmitLabels, VerdictLabels, Labels, AW!Labels, DL!Labels

LEMMA InitIInv == Init => IInv
<1> SUFFICES ASSUME Init PROVE IInv
  OBVIOUS
<1>1. RowsOK
  BY ServiceAssumption DEF Init, RowsOK, AW!Init, AW!RowsOK, DL!Init, DL!Times, Statuses
<1>2. HandlersOK
  BY DEF Init, HandlersOK, AW!Init, DL!Init, Frames, Calls, Knows
<1>3. AW!CurrentStepExists /\ RequestHasSubmission /\ VerdictIsGrounded
  BY DEF Init, AW!Init, AW!CurrentStepExists, RequestHasSubmission, VerdictIsGrounded, Verdicts,
         AW!Decisions
<1> QED
  BY <1>1, <1>2, <1>3 DEF IInv

-----------------------------------------------------------------------------
(* The actions that write no row. *)

LEMMA CreateSubmissionStep ==
  ASSUME IInv, NEW p \in Procs, NEW s \in Submissions, CreateSubmission(p, s)
  PROVE  IInv'
<1> DEFINE c == [sub |-> s, wf |-> requirement[RequirementOf[s]].wf]
<1>1. c \in OpenCall /\ c \in Calls
  BY SubmissionAssumption DEF IInv, RowsOK, OpenCall, Calls
<1>2. /\ pc[p] = "idle" /\ pc' = [pc EXCEPT ![p] = "open.insert"]
      /\ call' = [call EXCEPT ![p] = c] /\ frame' = frame /\ Still
  BY DEF CreateSubmission, Enter, At, Goto, Still
<1>3. frame[p] = NoRow /\ frame[p] \in Frames /\ frame = [frame EXCEPT ![p] = frame[p]]
  BY <1>2, Unchanged DEF Knows
<1>4. Knows(submission, request, decided, recorded, deadline, "open.insert", frame[p], c)
  BY <1>1, <1>3 DEF Knows
<1> HIDE DEF c
<1> QED
  BY <1>1, <1>2, <1>3, <1>4, StillMoves

LEMMA SubmitStep ==
  ASSUME IInv, NEW p \in Procs, NEW s \in Submissions, Submit(p, s)
  PROVE  IInv'
<1> DEFINE c == [sub |-> s]
<1>1. c \in SubmitCall /\ c \in Calls
  BY DEF SubmitCall, Calls
<1>2. /\ pc[p] = "idle" /\ pc' = [pc EXCEPT ![p] = "submit.deadline"]
      /\ call' = [call EXCEPT ![p] = c] /\ frame' = frame /\ Still
  BY DEF Submit, Enter, At, Goto, Still
<1>3. frame[p] = NoRow /\ frame[p] \in Frames /\ frame = [frame EXCEPT ![p] = frame[p]]
  BY <1>2, Unchanged DEF Knows
<1>4. Knows(submission, request, decided, recorded, deadline, "submit.deadline", frame[p], c)
  BY <1>1, <1>3 DEF Knows
<1> HIDE DEF c
<1> QED
  BY <1>1, <1>2, <1>3, <1>4, StillMoves

LEMMA SubmitDeadlineStep ==
  ASSUME IInv, NEW p \in Procs, SubmitDeadline(p)
  PROVE  IInv'
<1>1. pc[p] = "submit.deadline" /\ frame' = frame /\ Still
  BY DEF SubmitDeadline, At, Still
<1>2. /\ frame[p] = NoRow /\ frame[p] \in Frames /\ frame = [frame EXCEPT ![p] = frame[p]]
      /\ call[p] \in SubmitCall /\ call[p] \in Calls /\ call = [call EXCEPT ![p] = call[p]]
  BY <1>1, Unchanged DEF Knows
<1>3. CASE DL!IsOpen(call[p].sub)
  <2>1. pc' = [pc EXCEPT ![p] = "submit.update"] /\ call' = call
    BY <1>3 DEF SubmitDeadline, Goto
  <2>2. Knows(submission, request, decided, recorded, deadline, "submit.update", frame[p], call[p])
    BY <1>2 DEF Knows
  <2> QED
    BY <1>1, <1>2, <2>1, <2>2, StillMoves
<1>4. CASE ~DL!IsOpen(call[p].sub)
  BY <1>1, <1>2, <1>4, StillEnds DEF SubmitDeadline, Finish, Goto
<1> QED
  BY <1>3, <1>4

LEMMA VerdictStep ==
  ASSUME IInv, NEW p \in Procs, NEW s \in Submissions, NEW u \in Users, NEW v \in Verdicts,
         Decide(p, s, u, v)
  PROVE  IInv'
<1> DEFINE c == [sub |-> s, user |-> u, verdict |-> v]
<1>1. c \in VerdictCall /\ c \in Calls /\ Decided(submission, c.sub)
  BY DEF VerdictCall, Calls, Decided, Decide
<1>2. /\ pc[p] = "idle" /\ pc' = [pc EXCEPT ![p] = "verdict.requirement"]
      /\ call' = [call EXCEPT ![p] = c] /\ frame' = frame /\ Still
  BY DEF Decide, Enter, At, Goto, Still
<1>3. frame[p] = NoRow /\ frame[p] \in Frames /\ frame = [frame EXCEPT ![p] = frame[p]]
  BY <1>2, Unchanged DEF Knows
<1> HIDE DEF c
<1>4. Knows(submission, request, decided, recorded, deadline, "verdict.requirement", frame[p], c)
  BY <1>1, <1>3 DEF Knows
<1> QED
  BY <1>1, <1>2, <1>3, <1>4, StillMoves

LEMMA DecideRequirementStep ==
  ASSUME IInv, NEW p \in Procs, DecideRequirement(p)
  PROVE  IInv'
<1> DEFINE r == requirement[RequirementOf[call[p].sub]]
           l == IF r.wf = NoRow THEN "verdict.record" ELSE "verdict.engine"
<1>1. pc[p] = "verdict.requirement" /\ frame' = frame /\ Still
  BY DEF DecideRequirement, At, Still
<1>2. /\ frame[p] = NoRow /\ frame[p] \in Frames /\ frame = [frame EXCEPT ![p] = frame[p]]
      /\ call[p] \in VerdictCall /\ Decided(submission, call[p].sub)
      /\ call[p] \in Calls /\ call = [call EXCEPT ![p] = call[p]]
  BY <1>1, Unchanged DEF Knows
<1>3. CASE r.state = "live"
  <2>1. pc' = [pc EXCEPT ![p] = l] /\ call' = call
    BY <1>3 DEF DecideRequirement, Goto
  <2>2. Knows(submission, request, decided, recorded, deadline, l, frame[p], call[p])
    BY <1>2 DEF Knows
  <2>3. l \in Labels
    OBVIOUS
  <2> HIDE DEF l
  <2> QED
    BY <1>1, <1>2, <2>1, <2>2, <2>3, StillMoves
<1>4. CASE r.state # "live"
  BY <1>1, <1>2, <1>4, StillEnds DEF DecideRequirement, Finish, Goto
<1> QED
  BY <1>3, <1>4

LEMMA FailStep ==
  ASSUME IInv, NEW p \in Procs, Fail(p)
  PROVE  IInv'
BY StillEnds DEF Fail, Finish, Goto, Still

(* A request is read, and the gate of the step it stands on is held. *)
LEMMA DecideReadStep ==
  ASSUME IInv, NEW p \in Procs, NEW e \in Submissions, NEW u \in Users, NEW v \in Verdicts,
         NEW ret \in {"idle", "verdict.mirror"}, AW!DecideRead(p, e, u, v, ret),
         KeepCall(p), UNCHANGED <<own, timing>>,
         ret = "verdict.mirror" =>
           call[p] \in VerdictCall /\ call[p].sub = e /\ call[p].verdict = v
           /\ Decided(submission, e)
  PROVE  IInv'
<1> DEFINE f == AW!FrameOf(e, u, v, ret)
<1>1. Still
  BY DEF AW!DecideRead, Still, approval
<1>2. CASE request[e] # NoRow /\ request[e].status = "pending"
           /\ AW!MayDecide(u, request[e].wf, request[e].step)
  <2>1. pc' = [pc EXCEPT ![p] = "decide.update"] /\ frame' = [frame EXCEPT ![p] = f]
    BY <1>2 DEF AW!DecideRead, AW!Goto
  <2>2. call' = [call EXCEPT ![p] = call[p]] /\ call[p] \in Calls
    BY <2>1, CallKept, Unchanged
  <2>3. request[e] \in AW!Request /\ request[e].step \in 1..StepCount[request[e].wf]
    BY <1>2 DEF IInv, RowsOK, AW!RowsOK, AW!CurrentStepExists
  <2>4. f \in DecideFrame /\ f \in Frames
    BY <2>3 DEF AW!FrameOf, DecideFrame, Frames, AW!Request
  <2>5. GateHeld(f) /\ f.entity = e /\ f.decision = v /\ f.ret = ret /\ f.wf = request[e].wf
    BY <1>2, <2>3 DEF GateHeld, AW!FrameOf, AW!MayDecide
  <2> HIDE DEF f
  <2>6. Knows(submission, request, decided, recorded, deadline, "decide.update", f, call[p])
    BY <1>2, <2>4, <2>5 DEF Knows
  <2> QED
    BY <1>1, <2>1, <2>2, <2>4, <2>6, StillMoves
<1>3. CASE ~(request[e] # NoRow /\ request[e].status = "pending"
             /\ AW!MayDecide(u, request[e].wf, request[e].step))
  <2>1. pc' = [pc EXCEPT ![p] = "idle"] /\ frame' = [frame EXCEPT ![p] = NoRow]
    BY <1>3 DEF AW!DecideRead, AW!Throw, AW!Return, AW!Goto
  <2>2. call' = [call EXCEPT ![p] = NoRow]
    BY <2>1, CallKept
  <2> QED
    BY <1>1, <2>1, <2>2, StillEnds
<1> QED
  BY <1>2, <1>3

LEMMA DecideEngineStep ==
  ASSUME IInv, NEW p \in Procs, DecideEngine(p)
  PROVE  IInv'
<1>1. pc[p] = "verdict.engine" /\ KeepCall(p) /\ UNCHANGED <<own, timing>>
      /\ AW!DecideRead(p, call[p].sub, call[p].user, call[p].verdict, "verdict.mirror")
  BY DEF DecideEngine, At
<1>2. call[p] \in VerdictCall /\ Decided(submission, call[p].sub)
  BY <1>1, Unchanged DEF Knows
<1>3. call[p].sub \in Submissions /\ call[p].user \in Users /\ call[p].verdict \in Verdicts
  BY <1>2 DEF VerdictCall
<1> QED
  BY <1>1, <1>2, <1>3, DecideReadStep

LEMMA EngineDecideStep ==
  ASSUME IInv, NEW p \in Procs, AW!Decide(p), KeepCall(p), UNCHANGED <<own, timing>>
  PROVE  IInv'
<1>1. PICK e \in Submissions, u \in Users, v \in Verdicts : AW!DecideRead(p, e, u, v, "idle")
  BY DEF AW!Decide, Verdicts
<1> QED
  BY <1>1, DecideReadStep

LEMMA OpenRequestStep ==
  ASSUME IInv, NEW p \in Procs, OpenRequest(p)
  PROVE  IInv'
<1> DEFINE s == call[p].sub
           f == [entity |-> s, wf |-> call[p].wf, ret |-> "idle"]
<1>1. /\ pc[p] = "open.request" /\ AW!StartFind(p, s, call[p].wf, "idle")
      /\ call' = [call EXCEPT ![p] = NoRow] /\ NoRow \in Calls /\ Still
  BY DEF OpenRequest, At, Still, AW!StartFind, approval, Calls
<1>2. call[p] \in OpenCall /\ call[p].wf # NoRow /\ submission[s] # "absent"
  BY <1>1, Unchanged DEF Knows
<1>3. CASE request[s] # NoRow
  BY <1>1, <1>3, StillEnds DEF AW!StartFind, AW!Return, AW!Goto
<1>4. CASE request[s] = NoRow
  <2>1. pc' = [pc EXCEPT ![p] = "start.workflow"] /\ frame' = [frame EXCEPT ![p] = f]
    BY <1>1, <1>4 DEF AW!StartFind, AW!Goto
  <2>2. f \in AW!StartFrame /\ f \in Frames /\ f.ret = "idle" /\ f.entity = s
    BY <1>2 DEF OpenCall, AW!StartFrame, Frames
  <2> HIDE DEF f
  <2>3. Knows(submission, request, decided, recorded, deadline, "start.workflow", f, NoRow)
    BY <1>2, <2>2 DEF Knows
  <2> QED
    BY <1>1, <2>1, <2>2, <2>3, StillMoves
<1> QED
  BY <1>3, <1>4

LEMMA StartWorkflowStep ==
  ASSUME IInv, NEW p \in Procs, AW!StartWorkflow(p), KeepCall(p), UNCHANGED <<own, timing>>
  PROVE  IInv'
<1>1. pc[p] = "start.workflow" /\ Still
  BY DEF AW!StartWorkflow, Still, approval
<1>2. /\ frame[p] \in AW!StartFrame /\ frame[p].ret = "idle"
      /\ submission[frame[p].entity] # "absent" /\ frame[p] \in Frames /\ call[p] \in Calls
      /\ frame = [frame EXCEPT ![p] = frame[p]]
  BY <1>1, Unchanged DEF Knows
<1>3. CASE workflow[frame[p].wf] = "live"
  <2>1. pc' = [pc EXCEPT ![p] = "start.insert"] /\ frame' = frame
    BY <1>3 DEF AW!StartWorkflow, AW!Goto
  <2>2. call' = [call EXCEPT ![p] = call[p]]
    BY <2>1, Unchanged, CallKept
  <2>3. Knows(submission, request, decided, recorded, deadline, "start.insert", frame[p], call[p])
    BY <1>2 DEF Knows
  <2> QED
    BY <1>1, <1>2, <2>1, <2>2, <2>3, StillMoves
<1>4. CASE workflow[frame[p].wf] # "live"
  <2>1. pc' = [pc EXCEPT ![p] = "idle"] /\ frame' = [frame EXCEPT ![p] = NoRow]
    BY <1>4 DEF AW!StartWorkflow, AW!Throw, AW!Return, AW!Goto
  <2>2. call' = [call EXCEPT ![p] = NoRow]
    BY <2>1, CallKept
  <2> QED
    BY <1>1, <2>1, <2>2, StillEnds
<1> QED
  BY <1>3, <1>4

(* The routes of the deadlines. *)
LEMMA DeadlineRead ==
  ASSUME IInv, NEW p \in Procs, pc[p] = "idle", NEW e \in Submissions, NEW t \in DL!Times,
         deadline[e] # NoRow, NEW l \in {"extend.update", "close.update", "reopen.update"},
         DL!Enter(p, l, [entity |-> e, due |-> t]), UNCHANGED <<own, approval, call>>
  PROVE  IInv'
<1> DEFINE f == [entity |-> e, due |-> t]
<1>1. /\ pc' = [pc EXCEPT ![p] = l] /\ frame' = [frame EXCEPT ![p] = f] /\ call' = call
      /\ f \in DL!Frame /\ f \in Frames /\ deadline[f.entity] # NoRow /\ Still
  BY DEF DL!Enter, DL!Goto, DL!Frame, Frames, Still, timing
<1>2. call[p] = NoRow /\ call[p] \in Calls /\ call = [call EXCEPT ![p] = call[p]]
  BY Unchanged DEF Knows
<1> HIDE DEF f
<1>3. Knows(submission, request, decided, recorded, deadline, l, f, call[p])
  BY <1>1, <1>2 DEF Knows
<1> QED
  BY <1>1, <1>2, <1>3, StillMoves

LEMMA DeadlineBeginStep ==
  ASSUME IInv, NEW p \in Procs, DL!Begin(p), UNCHANGED <<own, approval, call>>
  PROVE  IInv'
<1>1. PICK e \in Submissions :
        (\E t \in DL!Times : DL!Extend(p, e, t)) \/ DL!Close(p, e) \/ DL!Reopen(p, e)
  BY DEF DL!Begin
<1>2. pc[p] = "idle"
  BY DEF DL!Begin
<1>3. deadline[e] # NoRow => deadline[e].due \in DL!Times
  BY DEF IInv, RowsOK, DL!Deadline
<1> QED
  BY <1>1, <1>2, <1>3, DeadlineRead DEF DL!Extend, DL!Close, DL!Reopen

LEMMA RecordAuditStep ==
  ASSUME IInv, NEW p \in Procs, DL!RecordAudit(p), UNCHANGED <<own, approval, call>>
  PROVE  IInv'
<1>1. /\ pc[p] = "deadline.audit" /\ pc' = [pc EXCEPT ![p] = "idle"]
      /\ frame' = [frame EXCEPT ![p] = NoRow] /\ Still
  BY DEF DL!RecordAudit, DL!Finish, DL!Goto, Still, timing
<1>2. call' = [call EXCEPT ![p] = NoRow]
  BY <1>1, Unchanged DEF Knows
<1> QED
  BY <1>1, <1>2, StillEnds

-----------------------------------------------------------------------------
(* The actions that write rows. *)

LEMMA RequirementStep ==
  ASSUME IInv, RequirementRoutes
  PROVE  IInv'
<1>1. PICK r \in Requirements,
           row \in [state : {"absent", "live", "deleted"}, wf : Workflows \cup {NoRow}] : Set(r, row)
  BY DEF RequirementRoutes, Create, Update, SoftDelete, Restore, Set, IInv, RowsOK
<1>2. /\ UNCHANGED <<submission, recorded, approval, timing, call, pc, frame>>
      /\ requirement' = [requirement EXCEPT ![r] = row]
  BY <1>1 DEF Set
<1>3. Grows
  BY <1>2 DEF Grows, Decided, approval, timing
<1>4. RowsOK'
  BY <1>1, <1>2 DEF IInv, RowsOK, AW!RowsOK, approval, timing
<1>5. AW!CurrentStepExists' /\ RequestHasSubmission' /\ VerdictIsGrounded'
  BY <1>2 DEF IInv, AW!CurrentStepExists, RequestHasSubmission, VerdictIsGrounded, approval
<1> QED
  BY <1>2, <1>3, <1>4, <1>5, Stay DEF IInv

LEMMA AdminStep ==
  ASSUME IInv, AW!Admin, UNCHANGED <<own, timing, call>>
  PROVE  IInv'
<1>1. UNCHANGED <<request, audit, decided, pc, frame>>
  BY DEF AW!Admin, AW!Create, AW!Remove, AW!Restore
<1>2. workflow' \in [Workflows -> {"absent", "live", "deleted"}]
  BY DEF AW!Admin, AW!Create, AW!Remove, AW!Restore, IInv, RowsOK, AW!RowsOK
<1>3. Grows
  BY <1>1 DEF Grows, Decided, own, timing
<1>4. RowsOK'
  BY <1>1, <1>2 DEF IInv, RowsOK, AW!RowsOK, own, timing
<1>5. AW!CurrentStepExists' /\ RequestHasSubmission' /\ VerdictIsGrounded'
  BY <1>1 DEF IInv, AW!CurrentStepExists, RequestHasSubmission, VerdictIsGrounded, own
<1> QED
  BY <1>1, <1>3, <1>4, <1>5, Stay DEF IInv

(* Steps that write no row but the deadlines and the clock. *)
LEMMA TimingStep ==
  ASSUME IInv, UNCHANGED <<own, approval>>, HandlersOK',
         deadline' \in [Submissions -> DL!Deadline \cup {NoRow}], now' \in DL!Times
  PROVE  IInv'
<1>1. RowsOK'
  BY DEF IInv, RowsOK, AW!RowsOK, own, approval
<1>2. AW!CurrentStepExists' /\ RequestHasSubmission' /\ VerdictIsGrounded'
  BY DEF IInv, AW!CurrentStepExists, RequestHasSubmission, VerdictIsGrounded, own, approval
<1> QED
  BY <1>1, <1>2 DEF IInv

LEMMA TickStep ==
  ASSUME IInv, DL!Tick, UNCHANGED <<own, approval, call>>
  PROVE  IInv'
<1>1. deadline' = deadline /\ UNCHANGED <<pc, frame, call>> /\ now' \in DL!Times
  BY ServiceAssumption DEF DL!Tick, IInv, RowsOK, DL!Times
<1>2. Grows
  BY <1>1 DEF Grows, Decided, own, approval
<1> QED
  BY <1>1, <1>2, Stay, TimingStep DEF IInv, RowsOK

LEMMA DeadlineCreateStep ==
  ASSUME IInv, NEW e \in Submissions, NEW t \in DL!Times, DL!Create(e, t),
         UNCHANGED <<own, approval, call>>
  PROVE  IInv'
<1> DEFINE d == [due |-> t, status |-> "open"]
<1>1. d \in DL!Deadline /\ d # NoRow
  BY ServiceAssumption DEF DL!Deadline
<1>2. deadline[e] = NoRow /\ deadline' = [deadline EXCEPT ![e] = d] /\ UNCHANGED <<now, pc, frame>>
  BY DEF DL!Create
<1> HIDE DEF d
<1>3. Grows
  BY <1>1, <1>2 DEF Grows, Decided, own, approval, IInv, RowsOK
<1>4. deadline' \in [Submissions -> DL!Deadline \cup {NoRow}] /\ now' \in DL!Times
  BY <1>1, <1>2 DEF IInv, RowsOK
<1> QED
  BY <1>2, <1>3, <1>4, Stay, TimingStep

(* What extend, close and reopen write, each of them over a row that is    *)
(* there and into a field of its own.                                      *)
LEMMA DeadlineUpdated ==
  ASSUME IInv, NEW p \in Procs, DL!ExtendUpdate(p) \/ DL!CloseUpdate(p) \/ DL!ReopenUpdate(p)
  PROVE  /\ pc[p] \in {"extend.update", "close.update", "reopen.update"}
         /\ pc' = [pc EXCEPT ![p] = "deadline.audit"] /\ UNCHANGED <<now, frame>>
         /\ frame[p] \in DL!Frame /\ deadline[frame[p].entity] \in DL!Deadline
         /\ \E d \in DL!Deadline :
              /\ deadline' = [deadline EXCEPT ![frame[p].entity] = d]
              /\ pc[p] # "reopen.update" /\ deadline[frame[p].entity].status = "closed" => d.status = "closed"
<1>1. /\ pc[p] \in {"extend.update", "close.update", "reopen.update"}
      /\ pc' = [pc EXCEPT ![p] = "deadline.audit"] /\ UNCHANGED <<now, frame>>
  BY DEF DL!ExtendUpdate, DL!CloseUpdate, DL!ReopenUpdate, DL!Goto
<1>2. frame[p] \in DL!Frame /\ deadline[frame[p].entity] # NoRow
  BY <1>1, Unchanged DEF Knows
<1> DEFINE e == frame[p].entity
           row == deadline[e]
           x == [row EXCEPT !.due = frame[p].due]
           y == [row EXCEPT !.status = "closed"]
           z == [row EXCEPT !.status = "open"]
<1>3. row \in DL!Deadline /\ frame[p].due \in DL!Times
  BY <1>2 DEF IInv, RowsOK, DL!Frame
<1>4. x \in DL!Deadline /\ y \in DL!Deadline /\ z \in DL!Deadline
      /\ x.status = row.status /\ y.status = "closed"
  BY <1>3 DEF DL!Deadline
<1>5. CASE DL!ExtendUpdate(p)
  <2>1. deadline' = [deadline EXCEPT ![e] = x]
    BY <1>5 DEF DL!ExtendUpdate
  <2> QED
    BY <1>1, <1>2, <1>3, <1>4, <2>1
<1>6. CASE DL!CloseUpdate(p)
  <2>1. deadline' = [deadline EXCEPT ![e] = y]
    BY <1>6 DEF DL!CloseUpdate
  <2> QED
    BY <1>1, <1>2, <1>3, <1>4, <2>1
<1>7. CASE DL!ReopenUpdate(p)
  <2>1. deadline' = [deadline EXCEPT ![e] = z] /\ pc[p] = "reopen.update"
    BY <1>7 DEF DL!ReopenUpdate
  <2> QED
    BY <1>1, <1>2, <1>3, <1>4, <2>1
<1> QED
  BY <1>5, <1>6, <1>7

LEMMA DeadlineUpdateStep ==
  ASSUME IInv, NEW p \in Procs, DL!ExtendUpdate(p) \/ DL!CloseUpdate(p) \/ DL!ReopenUpdate(p),
         UNCHANGED <<own, approval, call>>
  PROVE  IInv'
<1>1. PICK d \in DL!Deadline : deadline' = [deadline EXCEPT ![frame[p].entity] = d]
  BY DeadlineUpdated
<1>2. /\ pc[p] \in {"extend.update", "close.update", "reopen.update"}
      /\ pc' = [pc EXCEPT ![p] = "deadline.audit"] /\ UNCHANGED <<now, frame>>
      /\ frame[p] \in DL!Frame /\ d # NoRow
  BY DeadlineUpdated, ServiceAssumption
<1>3. Grows
  BY <1>1, <1>2 DEF Grows, Decided, own, approval, IInv, RowsOK, DL!Frame
<1>4. deadline' \in [Submissions -> DL!Deadline \cup {NoRow}] /\ now' \in DL!Times
  BY <1>1, <1>2 DEF IInv, RowsOK
<1>5. /\ call[p] = NoRow /\ call[p] \in Calls /\ call = [call EXCEPT ![p] = call[p]]
      /\ frame[p] \in Frames /\ frame = [frame EXCEPT ![p] = frame[p]]
  BY <1>2, Unchanged DEF Knows
<1>6. deadline'[frame[p].entity] = d
  BY <1>1, <1>2 DEF IInv, RowsOK, DL!Frame
<1>7. Knows(submission', request', decided', recorded', deadline', "deadline.audit", frame[p], call[p])
  BY <1>2, <1>5, <1>6 DEF Knows
<1>8. HandlersOK'
  BY <1>2, <1>3, <1>5, <1>7, Move
<1> QED
  BY <1>4, <1>8, TimingStep

(* A submission is written: the row of s becomes v, for which a reason is  *)
(* at hand when it is a verdict.                                           *)
LEMMA SubmissionWritten ==
  ASSUME IInv, NEW s \in Submissions, NEW v \in Statuses \ {"absent"},
         submission' = [submission EXCEPT ![s] = v],
         v = "pending" => submission[s] \in {"absent", "pending"},
         v \in Verdicts => Grounded(recorded, decided, s, v),
         UNCHANGED <<requirement, recorded, approval, timing>>
  PROVE  Grows /\ (HandlersOK' => IInv')
<1>1. \A x \in Submissions : submission'[x] = IF x = s THEN v ELSE submission[x]
  BY DEF IInv, RowsOK
<1>2. Grows
  BY <1>1 DEF Grows, Decided, approval, timing
<1>3. RowsOK'
  BY DEF IInv, RowsOK, AW!RowsOK, approval, timing
<1>4. AW!CurrentStepExists' /\ RequestHasSubmission'
  BY <1>1 DEF IInv, AW!CurrentStepExists, RequestHasSubmission, approval
<1>5. VerdictIsGrounded'
  <2>1. UNCHANGED <<recorded, decided>>
    BY DEF approval
  <2>2. ASSUME NEW x \in Submissions, submission'[x] \in Verdicts
        PROVE  Grounded(recorded, decided, x, submission'[x])
    BY <1>1, <2>2 DEF IInv, VerdictIsGrounded
  <2> QED
    BY <2>1, <2>2 DEF VerdictIsGrounded
<1> QED
  BY <1>2, <1>3, <1>4, <1>5 DEF IInv

LEMMA OpenInsertStep ==
  ASSUME IInv, NEW p \in Procs, OpenInsert(p)
  PROVE  IInv'
<1> DEFINE s == call[p].sub
           v == IF submission[s] = "absent" THEN "pending" ELSE submission[s]
<1>1. /\ pc[p] = "open.insert" /\ UNCHANGED <<requirement, recorded, approval, timing, frame>>
      /\ submission' = [submission EXCEPT ![s] = v]
  BY DEF OpenInsert, At
<1>2. /\ call[p] \in OpenCall /\ call[p] \in Calls /\ call = [call EXCEPT ![p] = call[p]]
      /\ frame[p] = NoRow /\ frame[p] \in Frames /\ frame = [frame EXCEPT ![p] = frame[p]]
  BY <1>1, Unchanged DEF Knows
<1>3. s \in Submissions /\ submission[s] \in Statuses
  BY <1>2 DEF OpenCall, IInv, RowsOK
<1>4. /\ v \in Statuses \ {"absent"}
      /\ v = "pending" => submission[s] \in {"absent", "pending"}
      /\ v \in Verdicts => Grounded(recorded, decided, s, v)
  BY <1>3 DEF Statuses, Verdicts, AW!Decisions, IInv, VerdictIsGrounded
<1> HIDE DEF v
<1>5. Grows /\ (HandlersOK' => IInv')
  BY <1>1, <1>3, <1>4, SubmissionWritten
<1>6. CASE submission[s] = "absent" /\ call[p].wf # NoRow
  <2>1. pc' = [pc EXCEPT ![p] = "open.request"] /\ call' = call
    BY <1>6 DEF OpenInsert, Goto
  <2>2. submission'[s] # "absent"
    BY <1>1, <1>3, <1>4 DEF IInv, RowsOK
  <2>3. Knows(submission', request', decided', recorded', deadline', "open.request", frame[p], call[p])
    BY <1>2, <1>6, <2>2 DEF Knows
  <2> QED
    BY <1>1, <1>2, <1>5, <2>1, <2>3, Move
<1>7. CASE ~(submission[s] = "absent" /\ call[p].wf # NoRow)
  BY <1>1, <1>2, <1>5, <1>7, Ends DEF OpenInsert, Finish, Goto
<1> QED
  BY <1>6, <1>7

LEMMA SubmitUpdateStep ==
  ASSUME IInv, NEW p \in Procs, SubmitUpdate(p)
  PROVE  IInv'
<1>1. /\ pc[p] = "submit.update" /\ UNCHANGED <<requirement, recorded, approval, timing, frame>>
      /\ submission' = [submission EXCEPT ![call[p].sub] = "submitted"]
      /\ pc' = [pc EXCEPT ![p] = "idle"] /\ call' = [call EXCEPT ![p] = NoRow]
  BY DEF SubmitUpdate, At, Finish, Goto
<1>2. /\ call[p] \in SubmitCall /\ frame[p] = NoRow /\ frame = [frame EXCEPT ![p] = frame[p]]
  BY <1>1, Unchanged DEF Knows
<1>3. call[p].sub \in Submissions /\ "submitted" \in Statuses /\ "submitted" \notin Verdicts
  BY <1>2 DEF SubmitCall, Statuses, Verdicts, AW!Decisions
<1>4. Grows /\ (HandlersOK' => IInv')
  BY <1>1, <1>3, SubmissionWritten
<1> QED
  BY <1>1, <1>2, <1>4, Ends

LEMMA DecideMirrorStep ==
  ASSUME IInv, NEW p \in Procs, DecideMirror(p)
  PROVE  IInv'
<1>1. /\ pc[p] = "verdict.mirror" /\ UNCHANGED <<requirement, recorded, approval, timing, frame>>
      /\ submission' = [submission EXCEPT ![call[p].sub] = call[p].verdict]
      /\ pc' = [pc EXCEPT ![p] = "idle"] /\ call' = [call EXCEPT ![p] = NoRow]
  BY DEF DecideMirror, At, Finish, Goto
<1>2. /\ call[p] \in VerdictCall /\ Grounded(recorded, decided, call[p].sub, call[p].verdict)
      /\ frame[p] = NoRow /\ frame = [frame EXCEPT ![p] = frame[p]]
  BY <1>1, Unchanged DEF Knows
<1>3. /\ call[p].sub \in Submissions /\ call[p].verdict \in Verdicts
      /\ call[p].verdict \in Statuses \ {"absent"} /\ call[p].verdict # "pending"
  BY <1>2 DEF VerdictCall, Statuses, Verdicts, AW!Decisions
<1>4. Grows /\ (HandlersOK' => IInv')
  BY <1>1, <1>2, <1>3, SubmissionWritten
<1> QED
  BY <1>1, <1>2, <1>4, Ends

LEMMA DecideRecordStep ==
  ASSUME IInv, NEW p \in Procs, DecideRecord(p)
  PROVE  IInv'
<1> DEFINE x == [sub |-> call[p].sub, verdict |-> call[p].verdict]
<1>1. /\ pc[p] = "verdict.record" /\ pc' = [pc EXCEPT ![p] = "verdict.mirror"]
      /\ recorded' = recorded \cup {x}
      /\ UNCHANGED <<requirement, submission, approval, timing, call, frame>>
  BY DEF DecideRecord, At, Goto
<1>2. /\ call[p] \in VerdictCall /\ Decided(submission, call[p].sub)
      /\ call[p] \in Calls /\ call = [call EXCEPT ![p] = call[p]]
      /\ frame[p] = NoRow /\ frame[p] \in Frames /\ frame = [frame EXCEPT ![p] = frame[p]]
  BY <1>1, Unchanged DEF Knows
<1>3. Grows
  BY <1>1 DEF Grows, Decided, approval, timing
<1>4. Grounded(recorded', decided', call[p].sub, call[p].verdict)
  BY <1>1 DEF Grounded
<1>5. Decided(submission', call[p].sub)
  BY <1>1, <1>2 DEF Decided
<1>6. Knows(submission', request', decided', recorded', deadline', "verdict.mirror", frame[p], call[p])
  BY <1>2, <1>4, <1>5 DEF Knows
<1>7. HandlersOK'
  BY <1>1, <1>2, <1>3, <1>6, Move
<1>8. RowsOK'
  BY <1>1, <1>2 DEF IInv, RowsOK, AW!RowsOK, approval, timing, VerdictCall
<1>9. AW!CurrentStepExists' /\ RequestHasSubmission'
  BY <1>1 DEF IInv, AW!CurrentStepExists, RequestHasSubmission, approval
<1>10. VerdictIsGrounded'
  <2>1. ASSUME NEW s \in Submissions, submission[s] \in Verdicts
        PROVE  Grounded(recorded', decided', s, submission[s])
    BY <1>3, <2>1, GroundedGrows DEF IInv, VerdictIsGrounded, Grows
  <2> QED
    BY <1>1, <2>1 DEF VerdictIsGrounded
<1> QED
  BY <1>7, <1>8, <1>9, <1>10 DEF IInv

LEMMA StartInsertStep ==
  ASSUME IInv, NEW p \in Procs, AW!StartInsert(p), KeepCall(p), UNCHANGED <<own, timing>>
  PROVE  IInv'
<1> DEFINE e == frame[p].entity
           row == [wf |-> frame[p].wf, step |-> 1, status |-> "pending"]
<1>1. pc[p] = "start.insert" /\ UNCHANGED <<workflow, audit, decided>>
  BY DEF AW!StartInsert
<1>2. frame[p] \in AW!StartFrame /\ frame[p].ret = "idle" /\ submission[e] # "absent"
  BY <1>1, Unchanged DEF Knows
<1>3. e \in Submissions /\ frame[p].wf \in Workflows
  BY <1>2 DEF AW!StartFrame
<1>4. pc' = [pc EXCEPT ![p] = "idle"] /\ frame' = [frame EXCEPT ![p] = NoRow]
  BY <1>2 DEF AW!StartInsert, AW!Throw, AW!Return, AW!Goto
<1>5. call' = [call EXCEPT ![p] = NoRow]
  BY <1>4, CallKept
<1>6. CASE request[e] # NoRow
  <2>1. Still
    BY <1>1, <1>6 DEF AW!StartInsert, Still, approval
  <2> QED
    BY <1>4, <1>5, <2>1, StillEnds
<1>7. CASE request[e] = NoRow
  <2>1. request' = [request EXCEPT ![e] = row]
    BY <1>7 DEF AW!StartInsert
  <2>2. row \in AW!Request /\ row # NoRow /\ row.wf = frame[p].wf /\ row.step = 1
    BY <1>3, ServiceAssumption DEF AW!Request, AW!Statuses
  <2>3. 1 \in 1..StepCount[row.wf]
    BY <1>3, <2>2, ServiceAssumption
  <2> HIDE DEF row
  <2>4. \A x \in Submissions : request'[x] = IF x = e THEN row ELSE request[x]
    BY <2>1 DEF IInv, RowsOK, AW!RowsOK
  <2>5. Grows
    BY <1>1, <1>7, <2>4 DEF Grows, Decided, own, timing
  <2>6. RowsOK'
    BY <1>1, <2>1, <2>2 DEF IInv, RowsOK, AW!RowsOK, own, timing
  <2>7. AW!CurrentStepExists'
    BY <2>2, <2>3, <2>4 DEF IInv, AW!CurrentStepExists
  <2>8. RequestHasSubmission'
    BY <1>2, <2>4 DEF IInv, RequestHasSubmission, own
  <2>9. VerdictIsGrounded'
    BY <1>1 DEF IInv, VerdictIsGrounded, own
  <2>10. HandlersOK'
    BY <1>4, <1>5, <2>5, Ends
  <2> QED
    BY <2>6, <2>7, <2>8, <2>9, <2>10 DEF IInv
<1> QED
  BY <1>6, <1>7

(* The step after a step of the chain is one of the chain. *)
LEMMA StepBounds ==
  ASSUME NEW w \in Workflows, NEW n \in 1..StepCount[w], NEW d
  PROVE  AW!NextStep(w, n, d) \in 1..StepCount[w]
BY ServiceAssumption DEF AW!NextStep, AW!IsLastStep

LEMMA DecideUpdateStep ==
  ASSUME IInv, NEW p \in Procs, AW!DecideUpdate(p), KeepCall(p), UNCHANGED <<own, timing>>
  PROVE  IInv'
<1> DEFINE f == frame[p]
           e == f.entity
           row == [wf |-> request[e].wf, step |-> AW!NextStep(f.wf, f.step, f.decision),
                   status |-> AW!NextStatus(f.wf, f.step, f.decision)]
<1>1. /\ pc[p] = "decide.update" /\ pc' = [pc EXCEPT ![p] = "decide.audit"]
      /\ UNCHANGED <<workflow, audit, frame>>
      /\ decided' = decided \cup {AW!DecisionOf(f)}
      /\ request' = [request EXCEPT ![e] = row]
  BY DEF AW!DecideUpdate, AW!Goto
<1>2. /\ f \in DecideFrame /\ GateHeld(f) /\ request[e] # NoRow /\ request[e].wf = f.wf
      /\ f.ret = "verdict.mirror" =>
           call[p] \in VerdictCall /\ call[p].sub = e /\ call[p].verdict = f.decision
           /\ Decided(submission, call[p].sub)
      /\ f \in Frames /\ call[p] \in Calls /\ frame = [frame EXCEPT ![p] = f]
  BY <1>1, Unchanged DEF Knows
<1>3. /\ e \in Submissions /\ f.wf \in Workflows /\ f.user \in Users /\ f.decision \in Verdicts
      /\ f.step \in Nat /\ f.step \in 1..StepCount[f.wf]
  BY <1>2 DEF DecideFrame, GateHeld
<1>4. row.wf = f.wf /\ row.step \in 1..StepCount[f.wf]
  BY <1>2, <1>3, StepBounds
<1>5. row \in AW!Request
  BY <1>3, <1>4, ServiceAssumption DEF AW!Request, AW!Statuses, AW!NextStatus
<1>6. row # NoRow
  BY <1>5, ServiceAssumption
<1>7. AW!DecisionOf(f) \in AW!Decision
  BY <1>3 DEF AW!DecisionOf, AW!Decision, Verdicts
<1> HIDE DEF row
<1>8. \A x \in Submissions : request'[x] = IF x = e THEN row ELSE request[x]
  BY <1>1 DEF IInv, RowsOK, AW!RowsOK
<1>9. Grows
  BY <1>1, <1>2, <1>4, <1>6, <1>8 DEF Grows, Decided, own, timing
<1>10. RowsOK'
  BY <1>1, <1>3, <1>5, <1>7 DEF IInv, RowsOK, AW!RowsOK, own, timing
<1>11. AW!CurrentStepExists'
  BY <1>4, <1>8 DEF IInv, AW!CurrentStepExists
<1>12. RequestHasSubmission'
  BY <1>2, <1>8 DEF IInv, RequestHasSubmission, own
<1>13. VerdictIsGrounded'
  <2>1. ASSUME NEW s \in Submissions, submission[s] \in Verdicts
        PROVE  Grounded(recorded', decided', s, submission[s])
    BY <1>9, <2>1, GroundedGrows DEF IInv, VerdictIsGrounded, Grows
  <2> QED
    BY <2>1 DEF VerdictIsGrounded, own
<1>14. HandlersOK'
  <2>1. call' = [call EXCEPT ![p] = call[p]]
    BY <1>1, CallKept
  <2>2. Decided(submission, call[p].sub) => Decided(submission', call[p].sub)
    BY DEF own
  <2>3. AW!DecisionOf(f) \in decided'
    BY <1>1
  <2> HIDE DEF f
  <2>4. Knows(submission', request', decided', recorded', deadline', "decide.audit", f, call[p])
    BY <1>2, <2>2, <2>3 DEF Knows
  <2>5. frame' = [frame EXCEPT ![p] = f]
    BY <1>1, <1>2
  <2> QED
    BY <1>1, <1>2, <1>9, <2>1, <2>4, <2>5, Move
<1> QED
  BY <1>10, <1>11, <1>12, <1>13, <1>14 DEF IInv

LEMMA DecideAuditStep ==
  ASSUME IInv, NEW p \in Procs, AW!DecideAudit(p), KeepCall(p), UNCHANGED <<own, timing>>
  PROVE  IInv'
<1> DEFINE f == frame[p]
<1>1. /\ pc[p] = "decide.audit" /\ pc' = [pc EXCEPT ![p] = f.ret]
      /\ frame' = [frame EXCEPT ![p] = NoRow] /\ UNCHANGED <<workflow, request, decided>>
      /\ audit' = audit \cup {AW!DecisionOf(f)}
  BY DEF AW!DecideAudit, AW!Return, AW!Goto
<1>2. /\ f \in DecideFrame /\ GateHeld(f) /\ AW!DecisionOf(f) \in decided
      /\ f.ret = "verdict.mirror" =>
           call[p] \in VerdictCall /\ call[p].sub = f.entity /\ call[p].verdict = f.decision
           /\ Decided(submission, call[p].sub)
      /\ call[p] \in Calls
  BY <1>1, Unchanged DEF Knows
<1>3. Grows
  BY <1>1 DEF Grows, Decided, own, timing
<1>4. RowsOK'
  BY <1>1, <1>2 DEF IInv, RowsOK, AW!RowsOK, own, timing
<1>5. AW!CurrentStepExists' /\ RequestHasSubmission' /\ VerdictIsGrounded'
  BY <1>1 DEF IInv, AW!CurrentStepExists, RequestHasSubmission, VerdictIsGrounded, own
<1>6. call' = [call EXCEPT ![p] = IF f.ret = "idle" THEN NoRow ELSE call[p]]
  BY <1>1, CallKept
<1>7. CASE f.ret = "idle"
  BY <1>1, <1>3, <1>4, <1>5, <1>6, <1>7, Ends DEF IInv
<1>8. CASE f.ret = "verdict.mirror"
  <2>1. Grounded(recorded, decided, f.entity, f.decision)
    BY <1>2 DEF Grounded, GateHeld, AW!DecisionOf, DecideFrame
  <2>2. Knows(submission, request, decided, recorded, deadline, "verdict.mirror", NoRow, call[p])
    BY <1>2, <1>8, <2>1 DEF Knows
  <2>3. Knows(submission', request', decided', recorded', deadline', "verdict.mirror", NoRow, call[p])
    BY <1>3, <2>2, StillKnows
  <2>4. "verdict.mirror" \in Labels /\ NoRow \in Frames
    BY DEF Frames
  <2>5. pc' = [pc EXCEPT ![p] = "verdict.mirror"] /\ call' = [call EXCEPT ![p] = call[p]]
    BY <1>1, <1>6, <1>8
  <2> HIDE DEF f
  <2>6. HandlersOK'
    BY <1>1, <1>2, <1>3, <2>3, <2>4, <2>5, Move
  <2> QED
    BY <1>4, <1>5, <2>6 DEF IInv
<1> QED
  BY <1>2, <1>7, <1>8 DEF DecideFrame

-----------------------------------------------------------------------------
(* The invariant *)

LEMMA NextIInv == IInv /\ [Next]_vars => IInv'
<1> SUFFICES ASSUME IInv, [Next]_vars PROVE IInv'
  OBVIOUS
<1>1. CASE RequirementRoutes
  BY <1>1, RequirementStep
<1>2. CASE Engine
  <2>1. CASE AW!Admin /\ UNCHANGED call
    BY <1>2, <2>1, AdminStep DEF Engine
  <2>2. ASSUME NEW p \in Procs, AW!Decide(p) \/ AW!Continue(p), KeepCall(p)
        PROVE  IInv'
    <3>1. UNCHANGED <<own, timing>>
      BY <1>2 DEF Engine
    <3> QED
      BY <2>2, <3>1, EngineDecideStep, StartWorkflowStep, StartInsertStep, DecideUpdateStep,
         DecideAuditStep DEF AW!Continue
  <2> QED
    BY <1>2, <2>1, <2>2 DEF Engine
<1>3. CASE Timing
  <2>1. UNCHANGED <<own, approval, call>>
    BY <1>3 DEF Timing
  <2>2. CASE DL!Tick
    BY <2>1, <2>2, TickStep
  <2>3. ASSUME NEW e \in Submissions, NEW t \in DL!Times, DL!Create(e, t)
        PROVE  IInv'
    BY <2>1, <2>3, DeadlineCreateStep
  <2>4. ASSUME NEW p \in Procs, DL!Begin(p) \/ DL!Continue(p)
        PROVE  IInv'
    BY <2>1, <2>4, DeadlineBeginStep, DeadlineUpdateStep, RecordAuditStep DEF DL!Continue
  <2> QED
    BY <1>3, <2>2, <2>3, <2>4 DEF Timing
<1>4. ASSUME NEW p \in Procs, SubmissionRoutes(p)
      PROVE  IInv'
  BY <1>4, CreateSubmissionStep, SubmitStep, VerdictStep DEF SubmissionRoutes
<1>5. ASSUME NEW p \in Procs, Continue(p)
      PROVE  IInv'
  BY <1>5, OpenInsertStep, OpenRequestStep, SubmitDeadlineStep, SubmitUpdateStep,
     DecideRequirementStep, DecideEngineStep, DecideRecordStep, DecideMirrorStep DEF Continue
<1>6. ASSUME NEW p \in Procs, Fail(p)
      PROVE  IInv'
  BY <1>6, FailStep
<1>7. CASE UNCHANGED vars
  <2>1. Still /\ UNCHANGED <<pc, frame, call>>
    BY <1>7 DEF vars, Still
  <2> QED
    BY <2>1, StillStep, Stay
<1> QED
  BY <1>1, <1>2, <1>3, <1>4, <1>5, <1>6, <1>7 DEF Next

LEMMA Invariance == Spec => []IInv
BY InitIInv, NextIInv, PTL DEF Spec

(* The rows and the locals of every handler of the three services stay     *)
(* well formed.                                                            *)
THEOREM TypeCorrect == Spec => []TypeOK
BY Invariance, Typed, PTL

(* No approval request is without its submission, however many handlers    *)
(* that open one overlap or die half way.                                  *)
THEOREM RowComesFirst == Spec => []RequestHasSubmission
<1>1. IInv => RequestHasSubmission
  BY DEF IInv
<1> QED
  BY <1>1, Invariance, PTL

(* A verdict that a submission shows was given by somebody entitled to it, *)
(* with any number of stale handlers that are about to copy one.           *)
THEOREM VerdictsGrounded == Spec => []VerdictIsGrounded
<1>1. IInv => VerdictIsGrounded
  BY DEF IInv
<1> QED
  BY <1>1, Invariance, PTL

-----------------------------------------------------------------------------
(* Steps *)

LEMMA PendingFate ==
  ASSUME IInv, [Next]_vars, NEW s \in Submissions, submission[s] = "pending"
  PROVE  \/ submission'[s] = "pending"
         \/ submission'[s] = "submitted" /\ \E p \in Procs : CheckPassed(p, s)
<1>1. ASSUME NEW p \in Procs, OpenInsert(p)
      PROVE  submission'[s] = "pending"
  BY <1>1 DEF OpenInsert, IInv, RowsOK
<1>2. ASSUME NEW p \in Procs, SubmitUpdate(p)
      PROVE  submission'[s] = "pending" \/ (submission'[s] = "submitted" /\ CheckPassed(p, s))
  BY <1>2 DEF SubmitUpdate, CheckPassed, IInv, RowsOK
<1>3. ASSUME NEW p \in Procs, DecideMirror(p)
      PROVE  submission'[s] = "pending"
  <2>1. pc[p] = "verdict.mirror" /\ submission' = [submission EXCEPT ![call[p].sub] = call[p].verdict]
    BY <1>3 DEF DecideMirror, At
  <2>2. Decided(submission, call[p].sub)
    BY <2>1, Unchanged DEF Knows
  <2>3. call[p].sub # s
    BY <2>2 DEF Decided
  <2> QED
    BY <2>1, <2>3 DEF IInv, RowsOK
<1>4. CASE RequirementRoutes \/ Engine \/ Timing \/ UNCHANGED vars
  BY <1>4 DEF RequirementRoutes, Create, Update, SoftDelete, Restore, Set, Engine, Timing, vars, own
<1>5. ASSUME NEW p \in Procs, SubmissionRoutes(p) \/ Fail(p)
      PROVE  submission' = submission
  BY <1>5 DEF SubmissionRoutes, CreateSubmission, Submit, Decide, Fail, own
<1>6. ASSUME NEW p \in Procs, Continue(p), ~OpenInsert(p), ~SubmitUpdate(p), ~DecideMirror(p)
      PROVE  submission' = submission
  BY <1>6 DEF Continue, OpenRequest, SubmitDeadline, DecideRequirement, DecideEngine, DecideRecord, own
<1> QED
  BY <1>1, <1>2, <1>3, <1>4, <1>5, <1>6 DEF Next

(* Who gets past the check of the deadline finds it open. *)
LEMMA Passing ==
  ASSUME IInv, [Next]_vars, NEW p \in Procs, NEW s, CheckPassed(p, s)'
  PROVE  \/ CheckPassed(p, s)
         \/ DL!IsOpen(s) /\ UNCHANGED submission
<1> DEFINE Elsewhere(q) ==
      /\ \E l : l # "submit.update" /\ pc' = [pc EXCEPT ![q] = l]
      /\ \A x \in Procs \ {q} : call'[x] = call[x]
<1>1. ASSUME NEW q \in Procs, Elsewhere(q)
      PROVE  CheckPassed(p, s)
  BY <1>1 DEF CheckPassed, At, IInv, HandlersOK
<1>2. CASE UNCHANGED <<pc, call>>
  BY <1>2 DEF CheckPassed, At
<1>3. ASSUME NEW q \in Procs, SubmitDeadline(q), DL!IsOpen(call[q].sub)
      PROVE  CheckPassed(p, s) \/ (DL!IsOpen(s) /\ UNCHANGED submission)
  <2>1. pc' = [pc EXCEPT ![q] = "submit.update"] /\ call' = call /\ submission' = submission
    BY <1>3 DEF SubmitDeadline, Goto, own
  <2> QED
    BY <1>3, <2>1 DEF CheckPassed, At, IInv, HandlersOK
<1>4. ASSUME NEW q \in Procs, SubmissionRoutes(q)
      PROVE  Elsewhere(q)
  BY <1>4 DEF SubmissionRoutes, CreateSubmission, Submit, Decide, Enter, Goto, IInv, HandlersOK
<1>5. ASSUME NEW q \in Procs, OpenInsert(q) \/ SubmitUpdate(q) \/ DecideMirror(q) \/ Fail(q)
      PROVE  Elsewhere(q)
  BY <1>5 DEF OpenInsert, SubmitUpdate, DecideMirror, Fail, Finish, Goto, IInv, HandlersOK
<1>6. ASSUME NEW q \in Procs, DecideRequirement(q) \/ DecideRecord(q) \/ (SubmitDeadline(q) /\ ~DL!IsOpen(call[q].sub))
      PROVE  Elsewhere(q)
  BY <1>6 DEF DecideRequirement, DecideRecord, SubmitDeadline, Finish, Goto, IInv, HandlersOK
<1>7. ASSUME NEW q \in Procs, OpenRequest(q)
      PROVE  Elsewhere(q)
  BY <1>7 DEF OpenRequest, AW!StartFind, AW!Return, AW!Goto, IInv, HandlersOK
<1>8. ASSUME NEW q \in Procs, KeepCall(q)
      PROVE  \A x \in Procs \ {q} : call'[x] = call[x]
  BY <1>8 DEF KeepCall, IInv, HandlersOK
<1>9. ASSUME NEW q \in Procs, DecideEngine(q) \/ (AW!Decide(q) /\ KeepCall(q))
      PROVE  Elsewhere(q)
  BY <1>8, <1>9 DEF DecideEngine, AW!Decide, AW!DecideRead, AW!Throw, AW!Return, AW!Goto
<1>10. ASSUME NEW q \in Procs, AW!Continue(q), KeepCall(q)
       PROVE  Elsewhere(q)
  <2>1. AW!StartInsert(q) => frame[q].ret = "idle"
    BY Unchanged DEF AW!StartInsert, Knows
  <2>2. AW!DecideAudit(q) => frame[q].ret \in {"idle", "verdict.mirror"}
    BY Unchanged DEF AW!DecideAudit, Knows, DecideFrame
  <2>3. \E l : l # "submit.update" /\ pc' = [pc EXCEPT ![q] = l]
    BY <1>10, <2>1, <2>2 DEF AW!Continue, AW!StartWorkflow, AW!StartInsert, AW!DecideUpdate,
                             AW!DecideAudit, AW!Throw, AW!Return, AW!Goto
  <2> QED
    BY <1>8, <1>10, <2>3
<1>11. CASE Engine
  BY <1>1, <1>2, <1>9, <1>10, <1>11 DEF Engine, AW!Admin, AW!Create, AW!Remove, AW!Restore
<1>12. CASE Timing
  <2>1. ASSUME NEW q \in Procs, DL!Begin(q) \/ DL!Continue(q)
        PROVE  Elsewhere(q)
    BY <1>12, <2>1 DEF Timing, DL!Begin, DL!Extend, DL!Close, DL!Reopen, DL!Enter, DL!Continue,
         DL!ExtendUpdate, DL!CloseUpdate, DL!ReopenUpdate, DL!RecordAudit, DL!Finish, DL!Goto
  <2> QED
    BY <1>1, <1>2, <1>12, <2>1 DEF Timing, DL!Tick, DL!Create
<1>13. CASE RequirementRoutes \/ UNCHANGED vars
  BY <1>2, <1>13 DEF RequirementRoutes, Create, Update, SoftDelete, Restore, Set, vars
<1>14. ASSUME NEW q \in Procs, Continue(q)
       PROVE  CheckPassed(p, s) \/ (DL!IsOpen(s) /\ UNCHANGED submission)
  BY <1>1, <1>3, <1>5, <1>6, <1>7, <1>9, <1>14 DEF Continue
<1> QED
  BY <1>1, <1>4, <1>5, <1>11, <1>12, <1>13, <1>14 DEF Next

(* A submission is submitted before it is decided, for any number of       *)
(* handlers that read it long ago.                                         *)
THEOREM SubmittedFirst == Spec => PendingIsSubmittedFirst
<1>1. IInv /\ [Next]_vars =>
        [\A s \in Submissions :
           submission[s] = "pending" => submission'[s] \in {"pending", "submitted"}]_vars
  BY PendingFate
<1> QED
  BY <1>1, Invariance, PTL DEF Spec, PendingIsSubmittedFirst

(* What is not open when it is looked at freezes its submissions: a check  *)
(* made while the deadline was open is the only way past it.               *)
THEOREM ClosedFreezes == Spec => ClosedIsFrozen
<1>1. ASSUME IInv, [Next]_vars, NEW s \in Submissions, Frozen(s), Shut(s)'
      PROVE  Frozen(s)'
  <2>1. submission'[s] = "pending"
    BY <1>1, PendingFate DEF Frozen
  <2>2. ~DL!IsOpen(s)
    BY <1>1 DEF Frozen, Shut, DL!IsOpen, DL!EffectiveStatus
  <2>3. ASSUME NEW p \in Procs
        PROVE  ~CheckPassed(p, s)'
    BY <1>1, <2>2, Passing DEF Frozen
  <2> QED
    BY <1>1, <2>1, <2>3 DEF Frozen
<1>2. IInv /\ [Next]_vars => [\A s \in Submissions : Frozen(s) /\ Shut(s)' => Frozen(s)']_vars
  BY <1>1
<1> QED
  BY <1>2, Invariance, PTL DEF Spec, ClosedIsFrozen

(* No extend, close or creation, however stale, opens a closed deadline. *)
THEOREM ClosedStays == Spec => ClosedStaysClosed
<1> DEFINE Reopened(e) ==
      deadline[e] # NoRow /\ deadline[e].status = "closed" /\ deadline'[e].status # "closed"
        => \E p \in Procs : pc[p] = "reopen.update" /\ frame[p].entity = e
<1>1. ASSUME IInv, [Next]_vars, NEW e \in Submissions
      PROVE  Reopened(e)
  <2>1. CASE UNCHANGED deadline
    BY <2>1
  <2>2. ASSUME NEW x \in Submissions, NEW t \in DL!Times, DL!Create(x, t)
        PROVE  Reopened(e)
    BY <1>1, <2>2 DEF DL!Create, IInv, RowsOK
  <2>3. ASSUME NEW p \in Procs, DL!ExtendUpdate(p) \/ DL!CloseUpdate(p) \/ DL!ReopenUpdate(p)
        PROVE  Reopened(e)
    <3>1. PICK d \in DL!Deadline :
            /\ deadline' = [deadline EXCEPT ![frame[p].entity] = d]
            /\ pc[p] # "reopen.update" /\ deadline[frame[p].entity].status = "closed" => d.status = "closed"
      BY <1>1, <2>3, DeadlineUpdated
    <3> QED
      BY <1>1, <3>1 DEF IInv, RowsOK
  <2>4. CASE Timing
    BY <2>1, <2>2, <2>3, <2>4 DEF Timing, DL!Tick, DL!Begin, DL!Extend, DL!Close, DL!Reopen,
                                  DL!Enter, DL!Continue, DL!RecordAudit
  <2>5. CASE UNCHANGED timing
    BY <2>1, <2>5 DEF timing
  <2>6. Timing \/ UNCHANGED timing
    BY <1>1 DEF Next, vars, RequirementRoutes, Create, Update, SoftDelete, Restore, Set, Engine,
         SubmissionRoutes, CreateSubmission, Submit, Decide, Continue, OpenInsert, OpenRequest,
         SubmitDeadline, SubmitUpdate, DecideRequirement, DecideEngine, DecideRecord, DecideMirror, Fail
  <2> QED
    BY <2>4, <2>5, <2>6
<1>2. IInv /\ [Next]_vars => [\A e \in Submissions : Reopened(e)]_<<deadline, now, pc, frame>>
  BY <1>1
<1> QED
  BY <1>2, Invariance, PTL DEF Spec, ClosedStaysClosed, DL!ClosedStaysClosed, DL!vars

-----------------------------------------------------------------------------
(* The engine under the routes of submissions *)

InEngine(l) == l \in AW!Labels \ {"idle"}

(* What the engine on its own sees of the handlers: those that are within  *)
(* one of its calls, each of which returns to an idle handler.             *)
OwnCall(f) == [f EXCEPT !.ret = "idle"]
EngineAt == [p \in Procs |-> IF InEngine(pc[p]) THEN pc[p] ELSE "idle"]
EngineFrame ==
  [p \in Procs |-> IF InEngine(pc[p]) THEN OwnCall(frame[p]) ELSE NoRow]

AsEngine == INSTANCE ApprovalWorkflows WITH
              Entities <- Submissions, pc <- EngineAt, frame <- EngineFrame

(* The workflow of a requirement exists, if only in the trash, and so does *)
(* the one a handler is about to start a request with.                     *)
Exists(w) == w # NoRow => workflow[w] # "absent"
WorkflowsExist ==
  /\ \A r \in Requirements : Exists(requirement[r].wf)
  /\ \A p \in Procs : pc[p] \in OpenLabels => Exists(call[p].wf)

LEMMA WorkflowsStay ==
  ASSUME IInv, [Next]_vars, NEW w \in Workflows, workflow[w] # "absent"
  PROVE  workflow'[w] # "absent"
<1>1. CASE AW!Admin
  BY <1>1 DEF AW!Admin, AW!Create, AW!Remove, AW!Restore, IInv, RowsOK, AW!RowsOK
<1>2. CASE workflow' = workflow
  BY <1>2
<1>3. AW!Admin \/ workflow' = workflow
  BY DEF Next, vars, RequirementRoutes, Create, Update, SoftDelete, Restore, Set, Engine, Timing,
     AW!Decide, AW!DecideRead, AW!Continue, AW!StartWorkflow, AW!StartInsert, AW!DecideUpdate,
     AW!DecideAudit, AW!StartFind, approval,
     SubmissionRoutes, CreateSubmission, Submit, Decide, Continue, OpenInsert, OpenRequest,
     SubmitDeadline, SubmitUpdate, DecideRequirement, DecideEngine, DecideRecord, DecideMirror, Fail
<1> QED
  BY <1>1, <1>2, <1>3

LEMMA RequirementWorkflows ==
  ASSUME IInv, WorkflowsExist, [Next]_vars, NEW r \in Requirements
  PROVE  Exists(requirement[r].wf)'
<1>1. CASE RequirementRoutes
  <2>1. workflow' = workflow
    BY <1>1 DEF RequirementRoutes, Create, Update, SoftDelete, Restore, Set, approval
  <2>2. PICK x \in Requirements,
             row \in [state : {"absent", "live", "deleted"}, wf : Workflows \cup {NoRow}] :
               requirement' = [requirement EXCEPT ![x] = row] /\ Exists(row.wf)
    BY <1>1 DEF RequirementRoutes, Create, Update, SoftDelete, Restore, Set, IInv, RowsOK,
                WorkflowFound, WorkflowsExist, Exists
  <2> QED
    BY <2>1, <2>2 DEF IInv, RowsOK, WorkflowsExist, Exists
<1>2. CASE requirement' = requirement
  <2>1. requirement[r].wf \in Workflows \cup {NoRow}
    BY DEF IInv, RowsOK
  <2> QED
    BY <1>2, <2>1, WorkflowsStay DEF WorkflowsExist, Exists
<1>3. RequirementRoutes \/ requirement' = requirement
  BY DEF Next, vars, own, Engine, Timing, SubmissionRoutes, CreateSubmission, Submit, Decide,
     Continue, OpenInsert, OpenRequest, SubmitDeadline, SubmitUpdate, DecideRequirement,
     DecideEngine, DecideRecord, DecideMirror, Fail
<1> QED
  BY <1>1, <1>2, <1>3

(* Who opens a request read its workflow off the requirement. *)
LEMMA OpenWorkflows ==
  ASSUME IInv, WorkflowsExist, [Next]_vars, NEW p \in Procs, pc'[p] \in OpenLabels
  PROVE  Exists(call[p].wf)'
<1> DEFINE
      Kept == call'[p] = call[p] /\ pc[p] \in OpenLabels
      Read == \E r \in Requirements : call'[p].wf = requirement[r].wf /\ requirement' = requirement
      Moves(q) == /\ \E l : l \notin OpenLabels /\ pc' = [pc EXCEPT ![q] = l]
                  /\ \A x \in Procs \ {q} : call'[x] = call[x]
<1>1. CASE Kept
  <2>1. call[p] \in OpenCall
    BY <1>1, Unchanged DEF Knows
  <2> QED
    BY <1>1, <2>1, WorkflowsStay DEF WorkflowsExist, Exists, OpenCall
<1>2. CASE Read
  BY <1>2, RequirementWorkflows DEF Exists
<1>3. ASSUME NEW q \in Procs, Moves(q)
      PROVE  Kept
  BY <1>3 DEF IInv, HandlersOK
<1>4. ASSUME UNCHANGED <<pc, call>>
      PROVE  Kept
  BY <1>4
<1>5. ASSUME NEW q \in Procs, NEW s \in Submissions, CreateSubmission(q, s)
      PROVE  Kept \/ Read
  <2>1. /\ pc' = [pc EXCEPT ![q] = "open.insert"] /\ requirement' = requirement
        /\ call' = [call EXCEPT ![q] = [sub |-> s, wf |-> requirement[RequirementOf[s]].wf]]
    BY <1>5 DEF CreateSubmission, Enter, Goto, own
  <2>2. RequirementOf[s] \in Requirements
    BY SubmissionAssumption
  <2> QED
    BY <2>1, <2>2 DEF IInv, HandlersOK
<1>6. ASSUME NEW q \in Procs, OpenInsert(q)
      PROVE  Kept
  BY <1>6 DEF OpenInsert, At, Finish, Goto, IInv, HandlersOK
<1>7. ASSUME NEW q \in Procs, NEW s \in Submissions,
             Submit(q, s) \/ \E u \in Users, v \in Verdicts : Decide(q, s, u, v)
      PROVE  Moves(q)
  BY <1>7 DEF Submit, Decide, Enter, Goto, IInv, HandlersOK
<1>8. ASSUME NEW q \in Procs, SubmitDeadline(q) \/ SubmitUpdate(q) \/ DecideRequirement(q)
                               \/ DecideRecord(q) \/ DecideMirror(q) \/ Fail(q)
      PROVE  Moves(q)
  BY <1>8 DEF SubmitDeadline, SubmitUpdate, DecideRequirement, DecideRecord, DecideMirror, Fail,
              Finish, Goto, IInv, HandlersOK
<1>9. ASSUME NEW q \in Procs, OpenRequest(q)
      PROVE  Moves(q)
  BY <1>9 DEF OpenRequest, AW!StartFind, AW!Return, AW!Goto, IInv, HandlersOK
<1>10. ASSUME NEW q \in Procs, KeepCall(q)
       PROVE  \A x \in Procs \ {q} : call'[x] = call[x]
  BY <1>10 DEF KeepCall, IInv, HandlersOK
<1>11. ASSUME NEW q \in Procs, DecideEngine(q) \/ (AW!Decide(q) /\ KeepCall(q))
       PROVE  Moves(q)
  BY <1>10, <1>11 DEF DecideEngine, AW!Decide, AW!DecideRead, AW!Throw, AW!Return, AW!Goto
<1>12. ASSUME NEW q \in Procs, AW!Continue(q), KeepCall(q)
       PROVE  Moves(q)
  <2>1. AW!StartInsert(q) => frame[q].ret = "idle"
    BY Unchanged DEF AW!StartInsert, Knows
  <2>2. AW!DecideAudit(q) => frame[q].ret \in {"idle", "verdict.mirror"}
    BY Unchanged DEF AW!DecideAudit, Knows, DecideFrame
  <2>3. \E l : l \notin OpenLabels /\ pc' = [pc EXCEPT ![q] = l]
    BY <1>12, <2>1, <2>2 DEF AW!Continue, AW!StartWorkflow, AW!StartInsert, AW!DecideUpdate,
                             AW!DecideAudit, AW!Throw, AW!Return, AW!Goto
  <2> QED
    BY <1>10, <1>12, <2>3
<1>13. ASSUME NEW q \in Procs, DL!Begin(q) \/ DL!Continue(q), call' = call
       PROVE  Moves(q)
  BY <1>13 DEF DL!Begin, DL!Extend, DL!Close, DL!Reopen, DL!Enter, DL!Continue,
       DL!ExtendUpdate, DL!CloseUpdate, DL!ReopenUpdate, DL!RecordAudit, DL!Finish, DL!Goto
<1>14. ASSUME RequirementRoutes \/ UNCHANGED vars
       PROVE  Kept
  BY <1>4, <1>14 DEF RequirementRoutes, Create, Update, SoftDelete, Restore, Set, vars
<1>15. ASSUME Engine
       PROVE  Kept
  BY <1>3, <1>4, <1>11, <1>12, <1>15 DEF Engine, AW!Admin, AW!Create, AW!Remove, AW!Restore
<1>16. ASSUME Timing
       PROVE  Kept
  BY <1>3, <1>4, <1>13, <1>16 DEF Timing, DL!Tick, DL!Create
<1>17. ASSUME NEW q \in Procs, SubmissionRoutes(q)
       PROVE  Kept \/ Read
  BY <1>3, <1>5, <1>7, <1>17 DEF SubmissionRoutes
<1>18. ASSUME NEW q \in Procs, Continue(q) \/ Fail(q)
       PROVE  Kept
  BY <1>3, <1>6, <1>8, <1>9, <1>11, <1>18 DEF Continue
<1>19. Kept \/ Read
  BY <1>4, <1>14, <1>15, <1>16, <1>17, <1>18 DEF Next
<1> QED
  BY <1>1, <1>2, <1>19

LEMMA WorkflowsExistAlways == Spec => []WorkflowsExist
<1>1. Init => WorkflowsExist
  BY DEF Init, AW!Init, WorkflowsExist, Exists
<1>2. IInv /\ WorkflowsExist /\ [Next]_vars => WorkflowsExist'
  BY RequirementWorkflows, OpenWorkflows DEF WorkflowsExist
<1> QED
  BY <1>1, <1>2, Invariance, PTL DEF Spec

(* What the engine sees of a handler that moves to l with locals f. *)
LEMMA Seen ==
  ASSUME IInv, NEW p \in Procs, NEW l, NEW f,
         pc' = [pc EXCEPT ![p] = l], frame' = [frame EXCEPT ![p] = f]
  PROVE  /\ EngineAt' = [EngineAt EXCEPT ![p] = IF InEngine(l) THEN l ELSE "idle"]
         /\ EngineFrame' = [EngineFrame EXCEPT ![p] =
                              IF InEngine(l) THEN OwnCall(f) ELSE NoRow]
<1>1. /\ \A q \in Procs : pc'[q] = (IF q = p THEN l ELSE pc[q])
      /\ \A q \in Procs : frame'[q] = (IF q = p THEN f ELSE frame[q])
  BY DEF IInv, HandlersOK
<1> DEFINE at == IF InEngine(l) THEN l ELSE "idle"
           locals == IF InEngine(l) THEN OwnCall(f) ELSE NoRow
<1>2. \A q \in Procs : EngineAt'[q] = (IF q = p THEN at ELSE EngineAt[q])
  BY <1>1 DEF EngineAt
<1>3. \A q \in Procs : EngineFrame'[q] = (IF q = p THEN locals ELSE EngineFrame[q])
  <2>1. EngineFrame'[p] = locals
    BY <1>1 DEF EngineFrame
  <2>2. ASSUME NEW q \in Procs, q # p
        PROVE  EngineFrame'[q] = EngineFrame[q]
    BY <1>1, <2>2 DEF EngineFrame
  <2> HIDE DEF locals
  <2> QED
    BY <2>1, <2>2
<1>4. /\ EngineAt = [q \in Procs |-> EngineAt[q]] /\ EngineAt' = [q \in Procs |-> EngineAt'[q]]
      /\ EngineFrame = [q \in Procs |-> EngineFrame[q]]
      /\ EngineFrame' = [q \in Procs |-> EngineFrame'[q]]
      /\ DOMAIN EngineAt = Procs /\ DOMAIN EngineFrame = Procs
  BY DEF EngineAt, EngineFrame
<1> HIDE DEF at, locals
<1>5. EngineAt' = [EngineAt EXCEPT ![p] = at]
  BY <1>2, <1>4
<1>6. EngineFrame' = [EngineFrame EXCEPT ![p] = locals]
  BY <1>3, <1>4
<1> QED
  BY <1>5, <1>6 DEF at, locals

(* A handler that is not in the engine, before a step and after it. *)
Outside(p) ==
  /\ ~InEngine(pc[p]) /\ UNCHANGED approval
  /\ \E l : ~InEngine(l) /\ pc' = [pc EXCEPT ![p] = l]
  /\ \A q \in Procs \ {p} : frame'[q] = frame[q]

LEMMA OutsideUnseen ==
  ASSUME IInv, NEW p \in Procs, Outside(p)
  PROVE  UNCHANGED AsEngine!vars
<1>1. PICK l : ~InEngine(l) /\ pc' = [pc EXCEPT ![p] = l]
  BY DEF Outside
<1>2. \A q \in Procs : /\ InEngine(pc'[q]) <=> InEngine(pc[q])
                       /\ InEngine(pc[q]) => pc'[q] = pc[q] /\ frame'[q] = frame[q]
  BY <1>1 DEF Outside, IInv, HandlersOK
<1>3. EngineAt' = EngineAt
  BY <1>2 DEF EngineAt
<1>4. EngineFrame' = EngineFrame
  BY <1>2 DEF EngineFrame
<1> QED
  BY <1>3, <1>4 DEF AsEngine!vars, Outside, approval

LEMMA AdminSeen ==
  ASSUME AW!Admin
  PROVE  AsEngine!Admin
<1>1. EngineAt' = EngineAt /\ EngineFrame' = EngineFrame
  BY DEF AW!Admin, AW!Create, AW!Remove, AW!Restore, EngineAt, EngineFrame
<1> QED
  BY <1>1 DEF AW!Admin, AW!Create, AW!Remove, AW!Restore,
              AsEngine!Admin, AsEngine!Create, AsEngine!Remove, AsEngine!Restore

LEMMA SeenInside ==
  ASSUME IInv, NEW p \in Procs, NEW l, NEW f, InEngine(l),
         pc' = [pc EXCEPT ![p] = l], frame' = [frame EXCEPT ![p] = f]
  PROVE  /\ EngineAt' = [EngineAt EXCEPT ![p] = l]
         /\ EngineFrame' = [EngineFrame EXCEPT ![p] = OwnCall(f)]
BY Seen

LEMMA SeenOutside ==
  ASSUME IInv, NEW p \in Procs, NEW l, NEW f, ~InEngine(l),
         pc' = [pc EXCEPT ![p] = l], frame' = [frame EXCEPT ![p] = f]
  PROVE  EngineAt' = [EngineAt EXCEPT ![p] = "idle"] /\ EngineFrame' = [EngineFrame EXCEPT ![p] = NoRow]
BY Seen

USE DEF InEngine

(* Calls of the engine, from its own routes or from here. *)
LEMMA StartSeen ==
  ASSUME IInv, WorkflowsExist, NEW p \in Procs, OpenRequest(p)
  PROVE  AsEngine!Start(p)
<1> DEFINE s == call[p].sub
           w == call[p].wf
           f == [entity |-> s, wf |-> w, ret |-> "idle"]
<1>1. pc[p] = "open.request" /\ AW!StartFind(p, s, w, "idle")
  BY DEF OpenRequest, At
<1>2. s \in Submissions /\ w \in Workflows /\ workflow[w] # "absent"
  BY <1>1, Unchanged DEF Knows, OpenCall, WorkflowsExist, Exists
<1>3. EngineAt[p] = "idle"
  BY <1>1 DEF EngineAt
<1>4. CASE request[s] # NoRow
  <2>1. /\ pc' = [pc EXCEPT ![p] = "idle"] /\ frame' = [frame EXCEPT ![p] = NoRow]
        /\ UNCHANGED approval
    BY <1>1, <1>4 DEF AW!StartFind, AW!Return, AW!Goto, approval
  <2>2. /\ EngineAt' = [EngineAt EXCEPT ![p] = "idle"]
        /\ EngineFrame' = [EngineFrame EXCEPT ![p] = NoRow]
    BY <2>1, SeenOutside
  <2>3. AsEngine!StartFind(p, s, w, "idle")
    BY <1>1, <1>4, <2>2 DEF AW!StartFind, AsEngine!StartFind, AsEngine!Return, AsEngine!Goto
  <2> QED
    BY <1>2, <1>3, <2>3 DEF AsEngine!Start
<1>5. CASE request[s] = NoRow
  <2>1. pc' = [pc EXCEPT ![p] = "start.workflow"] /\ frame' = [frame EXCEPT ![p] = f]
    BY <1>1, <1>5 DEF AW!StartFind, AW!Goto
  <2>2. OwnCall(f) = f
    BY DEF OwnCall
  <2> HIDE DEF f
  <2>3. /\ EngineAt' = [EngineAt EXCEPT ![p] = "start.workflow"]
        /\ EngineFrame' = [EngineFrame EXCEPT ![p] = f]
    <3>1. /\ EngineAt' = [EngineAt EXCEPT ![p] = "start.workflow"]
          /\ EngineFrame' = [EngineFrame EXCEPT ![p] = OwnCall(f)]
      BY <2>1, SeenInside
    <3> QED
      BY <2>2, <3>1
  <2>4. AsEngine!StartFind(p, s, w, "idle")
    BY <1>1, <1>5, <2>3 DEF AW!StartFind, AsEngine!StartFind, AsEngine!Goto, f
  <2> QED
    BY <1>2, <1>3, <2>4 DEF AsEngine!Start
<1> QED
  BY <1>4, <1>5

LEMMA DecideSeen ==
  ASSUME IInv, NEW p \in Procs, ~InEngine(pc[p]), NEW e \in Submissions, NEW u \in Users,
         NEW v \in Verdicts, NEW ret, AW!DecideRead(p, e, u, v, ret)
  PROVE  AsEngine!Decide(p)
<1> DEFINE Accepted == /\ request[e] # NoRow /\ request[e].status = "pending"
                       /\ AW!MayDecide(u, request[e].wf, request[e].step)
           f == AW!FrameOf(e, u, v, ret)
           g == AsEngine!FrameOf(e, u, v, "idle")
<1>1. EngineAt[p] = "idle" /\ v \in AsEngine!Decisions
  BY DEF EngineAt, Verdicts, AW!Decisions, AsEngine!Decisions
<1>2. Accepted <=> /\ request[e] # NoRow /\ request[e].status = "pending"
                   /\ AsEngine!MayDecide(u, request[e].wf, request[e].step)
  BY DEF AW!MayDecide, AsEngine!MayDecide, AW!CanActOnStep, AsEngine!CanActOnStep
<1>3. CASE Accepted
  <2>1. pc' = [pc EXCEPT ![p] = "decide.update"] /\ frame' = [frame EXCEPT ![p] = f]
    BY <1>3 DEF AW!DecideRead, AW!Goto
  <2>2. OwnCall(f) = g
    BY DEF AW!FrameOf, AsEngine!FrameOf, OwnCall
  <2> HIDE DEF f, g
  <2>3. /\ EngineAt' = [EngineAt EXCEPT ![p] = "decide.update"]
        /\ EngineFrame' = [EngineFrame EXCEPT ![p] = g]
    BY <2>1, <2>2, SeenInside
  <2>4. AsEngine!DecideRead(p, e, u, v, "idle")
    BY <1>2, <1>3, <2>3 DEF AW!DecideRead, AsEngine!DecideRead, AsEngine!Goto, g
  <2> QED
    BY <1>1, <2>4 DEF AsEngine!Decide
<1>4. CASE ~Accepted
  <2>1. pc' = [pc EXCEPT ![p] = "idle"] /\ frame' = [frame EXCEPT ![p] = NoRow]
    BY <1>4 DEF AW!DecideRead, AW!Throw, AW!Return, AW!Goto
  <2>2. /\ EngineAt' = [EngineAt EXCEPT ![p] = "idle"]
        /\ EngineFrame' = [EngineFrame EXCEPT ![p] = NoRow]
    BY <2>1, SeenOutside
  <2>3. AsEngine!DecideRead(p, e, u, v, "idle")
    BY <1>2, <1>4, <2>2 DEF AW!DecideRead, AsEngine!DecideRead, AsEngine!Throw, AsEngine!Return,
                            AsEngine!Goto
  <2> QED
    BY <1>1, <2>3 DEF AsEngine!Decide
<1> QED
  BY <1>3, <1>4

LEMMA ContinueSeen ==
  ASSUME IInv, NEW p \in Procs, AW!Continue(p)
  PROVE  AsEngine!Continue(p)
<1> DEFINE f == frame[p]
           g == EngineFrame[p]
<1>1. CASE AW!StartWorkflow(p)
  <2>1. pc[p] = "start.workflow" /\ EngineAt[p] = "start.workflow" /\ f \in AW!StartFrame /\ f \in Frames
    BY <1>1, Unchanged DEF AW!StartWorkflow, EngineAt, Knows
  <2>2. g = OwnCall(f) /\ g.wf = f.wf
    BY <2>1 DEF EngineFrame, OwnCall, AW!StartFrame
  <2>3. CASE workflow[f.wf] = "live"
    <3>1. pc' = [pc EXCEPT ![p] = "start.insert"] /\ frame' = [frame EXCEPT ![p] = f]
      BY <1>1, <2>3, Unchanged DEF AW!StartWorkflow, AW!Goto
    <3>2. EngineAt' = [EngineAt EXCEPT ![p] = "start.insert"]
      BY <3>1, SeenInside
    <3>3. EngineFrame' = EngineFrame
      BY <2>1, <3>1 DEF EngineFrame, IInv, HandlersOK
    <3> QED
      BY <1>1, <2>1, <2>2, <2>3, <3>2, <3>3
         DEF AW!StartWorkflow, AsEngine!StartWorkflow, AsEngine!Goto, AsEngine!Continue
  <2>4. CASE workflow[f.wf] # "live"
    <3>1. pc' = [pc EXCEPT ![p] = "idle"] /\ frame' = [frame EXCEPT ![p] = NoRow]
      BY <1>1, <2>4 DEF AW!StartWorkflow, AW!Throw, AW!Return, AW!Goto
    <3>2. /\ EngineAt' = [EngineAt EXCEPT ![p] = "idle"]
          /\ EngineFrame' = [EngineFrame EXCEPT ![p] = NoRow]
      BY <3>1, SeenOutside
    <3> QED
      BY <1>1, <2>1, <2>2, <2>4, <3>2
         DEF AW!StartWorkflow, AsEngine!StartWorkflow, AsEngine!Throw, AsEngine!Return,
             AsEngine!Goto, AsEngine!Continue
  <2> QED
    BY <2>3, <2>4
<1>2. CASE AW!StartInsert(p)
  <2>1. /\ pc[p] = "start.insert" /\ EngineAt[p] = "start.insert"
        /\ f \in AW!StartFrame /\ f.ret = "idle"
    BY <1>2, Unchanged DEF AW!StartInsert, EngineAt, Knows
  <2>2. g.wf = f.wf /\ g.entity = f.entity /\ g.ret = "idle"
    BY <2>1 DEF EngineFrame, OwnCall, AW!StartFrame
  <2>3. pc' = [pc EXCEPT ![p] = "idle"] /\ frame' = [frame EXCEPT ![p] = NoRow]
    BY <1>2, <2>1 DEF AW!StartInsert, AW!Throw, AW!Return, AW!Goto
  <2>4. /\ EngineAt' = [EngineAt EXCEPT ![p] = "idle"]
        /\ EngineFrame' = [EngineFrame EXCEPT ![p] = NoRow]
    BY <2>3, SeenOutside
  <2>5. AsEngine!Return(p, g.ret) /\ AsEngine!Throw(p)
    BY <2>2, <2>4 DEF AsEngine!Throw, AsEngine!Return, AsEngine!Goto
  <2> HIDE DEF g
  <2>6. AsEngine!StartInsert(p)
    BY <1>2, <2>1, <2>2, <2>5 DEF AW!StartInsert, AsEngine!StartInsert, g
  <2> QED
    BY <2>6 DEF AsEngine!Continue
<1>3. CASE AW!DecideUpdate(p)
  <2>1. /\ pc[p] = "decide.update" /\ EngineAt[p] = "decide.update"
        /\ f \in DecideFrame /\ f \in Frames
    BY <1>3, Unchanged DEF AW!DecideUpdate, EngineAt, Knows
  <2>2. /\ g.entity = f.entity /\ g.wf = f.wf /\ g.step = f.step /\ g.user = f.user
        /\ g.decision = f.decision
    BY <2>1 DEF EngineFrame, OwnCall, DecideFrame
  <2>3. pc' = [pc EXCEPT ![p] = "decide.audit"] /\ frame' = [frame EXCEPT ![p] = f]
    BY <1>3, Unchanged DEF AW!DecideUpdate, AW!Goto
  <2>4. EngineAt' = [EngineAt EXCEPT ![p] = "decide.audit"]
    BY <2>3, SeenInside
  <2>5. EngineFrame' = EngineFrame
    BY <2>1, <2>3 DEF EngineFrame, IInv, HandlersOK
  <2>6. /\ AW!NextStep(f.wf, f.step, f.decision) = AsEngine!NextStep(g.wf, g.step, g.decision)
        /\ AW!NextStatus(f.wf, f.step, f.decision) = AsEngine!NextStatus(g.wf, g.step, g.decision)
        /\ AW!DecisionOf(f) = AsEngine!DecisionOf(g)
    BY <2>2 DEF AW!NextStep, AsEngine!NextStep, AW!NextStatus, AsEngine!NextStatus,
                AW!IsLastStep, AsEngine!IsLastStep, AW!DecisionOf, AsEngine!DecisionOf
  <2> HIDE DEF g
  <2>7. AsEngine!DecideUpdate(p)
    BY <1>3, <2>1, <2>2, <2>4, <2>5, <2>6
       DEF AW!DecideUpdate, AsEngine!DecideUpdate, AsEngine!Goto, g
  <2> QED
    BY <2>7 DEF AsEngine!Continue
<1>4. CASE AW!DecideAudit(p)
  <2>1. pc[p] = "decide.audit" /\ EngineAt[p] = "decide.audit" /\ f \in DecideFrame
    BY <1>4, Unchanged DEF AW!DecideAudit, EngineAt, Knows
  <2>2. /\ g.entity = f.entity /\ g.step = f.step /\ g.user = f.user /\ g.decision = f.decision
        /\ g.ret = "idle"
    BY <2>1 DEF EngineFrame, OwnCall, DecideFrame
  <2>3. /\ pc' = [pc EXCEPT ![p] = f.ret] /\ frame' = [frame EXCEPT ![p] = NoRow]
        /\ ~InEngine(f.ret)
    BY <1>4, <2>1 DEF AW!DecideAudit, AW!Return, AW!Goto, DecideFrame
  <2>4. /\ EngineAt' = [EngineAt EXCEPT ![p] = "idle"]
        /\ EngineFrame' = [EngineFrame EXCEPT ![p] = NoRow]
    <3> HIDE DEF InEngine, f
    <3> QED
      BY <2>3, SeenOutside
  <2>5. AW!DecisionOf(f) = AsEngine!DecisionOf(g)
    BY <2>2 DEF AW!DecisionOf, AsEngine!DecisionOf
  <2> HIDE DEF g
  <2>6. AsEngine!DecideAudit(p)
    BY <1>4, <2>1, <2>2, <2>4, <2>5
       DEF AW!DecideAudit, AsEngine!DecideAudit, AsEngine!Return, AsEngine!Goto, g
  <2> QED
    BY <2>6 DEF AsEngine!Continue
<1> QED
  BY <1>1, <1>2, <1>3, <1>4 DEF AW!Continue

LEMMA FailSeen ==
  ASSUME IInv, NEW p \in Procs, Fail(p), InEngine(pc[p])
  PROVE  AsEngine!Fail(p)
<1>1. pc' = [pc EXCEPT ![p] = "idle"] /\ frame' = [frame EXCEPT ![p] = NoRow] /\ UNCHANGED approval
  BY DEF Fail, Finish, Goto
<1>2. /\ EngineAt' = [EngineAt EXCEPT ![p] = "idle"]
      /\ EngineFrame' = [EngineFrame EXCEPT ![p] = NoRow]
  BY <1>1, SeenOutside
<1> QED
  BY <1>1, <1>2 DEF AsEngine!Fail, AsEngine!Throw, AsEngine!Return, AsEngine!Goto, EngineAt, approval

(* Every other step is one of handlers outside of the engine. *)
LEMMA RouteUnseen ==
  ASSUME IInv, NEW p \in Procs, At(p, "idle"), SubmissionRoutes(p)
  PROVE  UNCHANGED AsEngine!vars
<1>1. Outside(p)
  BY DEF SubmissionRoutes, CreateSubmission, Submit, Decide, Enter, At, Goto, Outside
<1> QED
  BY <1>1, OutsideUnseen

LEMMA WorkUnseen ==
  ASSUME IInv, NEW p \in Procs,
         \/ OpenInsert(p) \/ SubmitDeadline(p) \/ SubmitUpdate(p)
         \/ DecideRequirement(p) \/ DecideRecord(p) \/ DecideMirror(p)
  PROVE  UNCHANGED AsEngine!vars
<1>1. Outside(p)
  BY DEF OpenInsert, SubmitDeadline, SubmitUpdate, DecideRequirement, DecideRecord, DecideMirror,
     Finish, At, Goto, Outside, approval
<1> QED
  BY <1>1, OutsideUnseen

LEMMA TimingUnseen ==
  ASSUME IInv, Timing
  PROVE  UNCHANGED AsEngine!vars
<1>1. ASSUME NEW p \in Procs, DL!Begin(p) \/ DL!Continue(p)
      PROVE  Outside(p)
  BY <1>1 DEF Timing, DL!Begin, DL!Extend, DL!Close, DL!Reopen, DL!Enter, DL!Continue,
     DL!ExtendUpdate, DL!CloseUpdate, DL!ReopenUpdate, DL!RecordAudit, DL!Finish, DL!Goto,
     Outside, IInv, HandlersOK
<1>2. CASE UNCHANGED <<approval, pc, frame>>
  BY <1>2 DEF AsEngine!vars, EngineAt, EngineFrame, approval
<1> QED
  BY <1>1, <1>2, OutsideUnseen DEF Timing, DL!Tick, DL!Create

LEMMA EngineStep ==
  ASSUME IInv, WorkflowsExist, [Next]_vars
  PROVE  [AsEngine!Next]_AsEngine!vars
<1>1. CASE RequirementRoutes \/ UNCHANGED vars
  <2>1. UNCHANGED <<approval, pc, frame>>
    BY <1>1 DEF RequirementRoutes, Create, Update, SoftDelete, Restore, Set, vars
  <2> QED
    BY <2>1 DEF AsEngine!vars, EngineAt, EngineFrame, approval
<1>2. ASSUME NEW p \in Procs, AW!Decide(p)
      PROVE  AsEngine!Decide(p)
  <2>1. PICK e \in Submissions, u \in Users, v \in Verdicts : AW!DecideRead(p, e, u, v, "idle")
    BY <1>2 DEF AW!Decide, Verdicts
  <2> QED
    BY <1>2, <2>1, DecideSeen DEF AW!Decide
<1>3. CASE Engine
  BY <1>2, <1>3, AdminSeen, ContinueSeen DEF Engine, AsEngine!Next
<1>4. ASSUME NEW p \in Procs, DecideEngine(p)
      PROVE  AsEngine!Decide(p)
  <2>1. pc[p] = "verdict.engine" /\ call[p] \in VerdictCall
        /\ AW!DecideRead(p, call[p].sub, call[p].user, call[p].verdict, "verdict.mirror")
    BY <1>4, Unchanged DEF DecideEngine, At, Knows
  <2>2. call[p].sub \in Submissions /\ call[p].user \in Users /\ call[p].verdict \in Verdicts
    BY <2>1 DEF VerdictCall
  <2> QED
    BY <2>1, <2>2, DecideSeen
<1>5. ASSUME NEW p \in Procs, Continue(p)
      PROVE  [AsEngine!Next]_AsEngine!vars
  BY <1>4, <1>5, StartSeen, WorkUnseen DEF Continue, AsEngine!Next
<1>6. ASSUME NEW p \in Procs, Fail(p)
      PROVE  [AsEngine!Next]_AsEngine!vars
  <2>1. CASE InEngine(pc[p])
    BY <1>6, <2>1, FailSeen DEF AsEngine!Next
  <2>2. CASE ~InEngine(pc[p])
    <3>1. Outside(p)
      BY <1>6, <2>2 DEF Fail, Finish, Goto, Outside, IInv, HandlersOK
    <3> QED
      BY <3>1, OutsideUnseen
  <2> QED
    BY <2>1, <2>2
<1> QED
  BY <1>1, <1>3, <1>5, <1>6, RouteUnseen, TimingUnseen DEF Next

(* The routes of requirements and submissions use the engine as its own    *)
(* specification says it is used: whatever is shown of the engine on its   *)
(* own, for any number of handlers, is true of its requests here too.      *)
THEOREM EngineImplemented == Spec => AsEngine!Spec
<1>1. Init => AsEngine!Init
  BY DEF Init, AW!Init, DL!Init, AsEngine!Init, EngineAt, EngineFrame
<1>2. IInv /\ WorkflowsExist /\ [Next]_vars => [AsEngine!Next]_AsEngine!vars
  BY EngineStep
<1> QED
  BY <1>1, <1>2, Invariance, WorkflowsExistAlways, PTL DEF Spec, AsEngine!Spec

-----------------------------------------------------------------------------
(* The deadlines under the routes of submissions *)

InDeadlines(l) == l \in DL!Labels \ {"idle"}

(* What the deadlines on their own see of the handlers. *)
DeadlineAt == [p \in Procs |-> IF InDeadlines(pc[p]) THEN pc[p] ELSE "idle"]
DeadlineFrame == [p \in Procs |-> IF InDeadlines(pc[p]) THEN frame[p] ELSE NoRow]

AsDeadlines == INSTANCE Deadlines WITH
                 Entities <- Submissions, pc <- DeadlineAt, frame <- DeadlineFrame

LEMMA DeadlinesSee ==
  ASSUME IInv, NEW p \in Procs, NEW l, NEW f,
         pc' = [pc EXCEPT ![p] = l], frame' = [frame EXCEPT ![p] = f]
  PROVE  /\ DeadlineAt' = [DeadlineAt EXCEPT ![p] = IF InDeadlines(l) THEN l ELSE "idle"]
         /\ DeadlineFrame' = [DeadlineFrame EXCEPT ![p] = IF InDeadlines(l) THEN f ELSE NoRow]
<1> DEFINE at == IF InDeadlines(l) THEN l ELSE "idle"
           locals == IF InDeadlines(l) THEN f ELSE NoRow
<1>1. /\ \A q \in Procs : pc'[q] = (IF q = p THEN l ELSE pc[q])
      /\ \A q \in Procs : frame'[q] = (IF q = p THEN f ELSE frame[q])
  BY DEF IInv, HandlersOK
<1> HIDE DEF InDeadlines
<1>2. /\ \A q \in Procs : DeadlineAt'[q] = (IF q = p THEN at ELSE DeadlineAt[q])
      /\ \A q \in Procs : DeadlineFrame'[q] = (IF q = p THEN locals ELSE DeadlineFrame[q])
  BY <1>1 DEF DeadlineAt, DeadlineFrame
<1>3. /\ DeadlineAt = [q \in Procs |-> DeadlineAt[q]] /\ DeadlineAt' = [q \in Procs |-> DeadlineAt'[q]]
      /\ DeadlineFrame = [q \in Procs |-> DeadlineFrame[q]]
      /\ DeadlineFrame' = [q \in Procs |-> DeadlineFrame'[q]]
      /\ DOMAIN DeadlineAt = Procs /\ DOMAIN DeadlineFrame = Procs
  BY DEF DeadlineAt, DeadlineFrame
<1> HIDE DEF at, locals
<1>4. DeadlineAt' = [DeadlineAt EXCEPT ![p] = at]
  BY <1>2, <1>3
<1>5. DeadlineFrame' = [DeadlineFrame EXCEPT ![p] = locals]
  BY <1>2, <1>3
<1> QED
  BY <1>4, <1>5 DEF at, locals

LEMMA DeadlinesSeeInside ==
  ASSUME IInv, NEW p \in Procs, NEW l, NEW f, InDeadlines(l),
         pc' = [pc EXCEPT ![p] = l], frame' = [frame EXCEPT ![p] = f]
  PROVE  DeadlineAt' = [DeadlineAt EXCEPT ![p] = l] /\ DeadlineFrame' = [DeadlineFrame EXCEPT ![p] = f]
BY DeadlinesSee

LEMMA DeadlinesSeeOutside ==
  ASSUME IInv, NEW p \in Procs, NEW l, NEW f, ~InDeadlines(l),
         pc' = [pc EXCEPT ![p] = l], frame' = [frame EXCEPT ![p] = f]
  PROVE  /\ DeadlineAt' = [DeadlineAt EXCEPT ![p] = "idle"]
         /\ DeadlineFrame' = [DeadlineFrame EXCEPT ![p] = NoRow]
BY DeadlinesSee

USE DEF InDeadlines

LEMMA DeadlineBeginSeen ==
  ASSUME IInv, NEW p \in Procs, DL!Begin(p)
  PROVE  AsDeadlines!Begin(p)
<1>1. DeadlineAt[p] = "idle"
  BY DEF DL!Begin, DeadlineAt
<1>2. ASSUME NEW l \in {"extend.update", "close.update", "reopen.update"}, NEW f, DL!Enter(p, l, f)
      PROVE  AsDeadlines!Enter(p, l, f)
  <2>1. DeadlineAt' = [DeadlineAt EXCEPT ![p] = l] /\ DeadlineFrame' = [DeadlineFrame EXCEPT ![p] = f]
    BY <1>2, DeadlinesSeeInside DEF DL!Enter, DL!Goto
  <2> QED
    BY <1>2, <2>1 DEF DL!Enter, AsDeadlines!Enter, AsDeadlines!Goto
<1>3. ASSUME NEW e \in Submissions, NEW t \in DL!Times, DL!Extend(p, e, t)
      PROVE  t \in AsDeadlines!Times /\ AsDeadlines!Extend(p, e, t)
  BY <1>2, <1>3 DEF DL!Times, AsDeadlines!Times, DL!Extend, AsDeadlines!Extend, DL!EffectiveStatus,
                    AsDeadlines!EffectiveStatus
<1>4. ASSUME NEW e \in Submissions, DL!Close(p, e)
      PROVE  AsDeadlines!Close(p, e)
  BY <1>2, <1>4 DEF DL!Close, AsDeadlines!Close
<1>5. ASSUME NEW e \in Submissions, DL!Reopen(p, e)
      PROVE  AsDeadlines!Reopen(p, e)
  BY <1>2, <1>5 DEF DL!Reopen, AsDeadlines!Reopen
<1> QED
  BY <1>1, <1>3, <1>4, <1>5 DEF DL!Begin, AsDeadlines!Begin

LEMMA DeadlineContinueSeen ==
  ASSUME IInv, NEW p \in Procs, DL!Continue(p)
  PROVE  AsDeadlines!Continue(p)
<1>1. CASE DL!ExtendUpdate(p) \/ DL!CloseUpdate(p) \/ DL!ReopenUpdate(p)
  <2>1. /\ pc[p] \in {"extend.update", "close.update", "reopen.update"}
        /\ pc' = [pc EXCEPT ![p] = "deadline.audit"] /\ frame' = [frame EXCEPT ![p] = frame[p]]
        /\ UNCHANGED frame
    BY <1>1, Unchanged DEF DL!ExtendUpdate, DL!CloseUpdate, DL!ReopenUpdate, DL!Goto
  <2>2. DeadlineAt[p] = pc[p] /\ DeadlineFrame[p] = frame[p]
    BY <2>1 DEF DeadlineAt, DeadlineFrame
  <2>3. AsDeadlines!Goto(p, "deadline.audit")
    <3> DEFINE locals == frame[p]
    <3>1. pc' = [pc EXCEPT ![p] = "deadline.audit"] /\ frame' = [frame EXCEPT ![p] = locals]
      BY <2>1
    <3>2. InDeadlines("deadline.audit")
      OBVIOUS
    <3> HIDE DEF locals, InDeadlines
    <3> QED
      BY <3>1, <3>2, DeadlinesSeeInside DEF AsDeadlines!Goto
  <2>4. DeadlineFrame' = DeadlineFrame
    BY <2>1 DEF DeadlineFrame, IInv, HandlersOK
  <2> QED
    BY <1>1, <2>2, <2>3, <2>4 DEF DL!ExtendUpdate, DL!CloseUpdate, DL!ReopenUpdate,
       AsDeadlines!ExtendUpdate, AsDeadlines!CloseUpdate, AsDeadlines!ReopenUpdate, AsDeadlines!Continue
<1>2. CASE DL!RecordAudit(p)
  <2>1. pc' = [pc EXCEPT ![p] = "idle"] /\ frame' = [frame EXCEPT ![p] = NoRow]
    BY <1>2 DEF DL!RecordAudit, DL!Finish, DL!Goto
  <2>2. AsDeadlines!Finish(p)
    BY <2>1, DeadlinesSeeOutside DEF AsDeadlines!Finish, AsDeadlines!Goto
  <2> QED
    BY <1>2, <2>2 DEF DL!RecordAudit, AsDeadlines!RecordAudit, AsDeadlines!Continue, DeadlineAt
<1> QED
  BY <1>1, <1>2 DEF DL!Continue

(* A handler that is not with the deadlines, before a step and after it. *)
Elsewhere(p) ==
  /\ ~InDeadlines(pc[p]) /\ UNCHANGED timing
  /\ \E l : ~InDeadlines(l) /\ pc' = [pc EXCEPT ![p] = l]
  /\ \A q \in Procs \ {p} : frame'[q] = frame[q]

LEMMA ElsewhereUnseen ==
  ASSUME IInv, NEW p \in Procs, Elsewhere(p)
  PROVE  UNCHANGED AsDeadlines!vars
<1>1. PICK l : ~InDeadlines(l) /\ pc' = [pc EXCEPT ![p] = l]
  BY DEF Elsewhere
<1>2. \A q \in Procs : /\ InDeadlines(pc'[q]) <=> InDeadlines(pc[q])
                       /\ InDeadlines(pc[q]) => pc'[q] = pc[q] /\ frame'[q] = frame[q]
  BY <1>1 DEF Elsewhere, IInv, HandlersOK
<1> HIDE DEF InDeadlines
<1>3. DeadlineAt' = DeadlineAt
  BY <1>2 DEF DeadlineAt
<1>4. DeadlineFrame' = DeadlineFrame
  BY <1>2 DEF DeadlineFrame
<1> QED
  BY <1>3, <1>4 DEF AsDeadlines!vars, Elsewhere, timing

LEMMA EngineElsewhere ==
  ASSUME IInv, NEW p \in Procs, UNCHANGED timing,
         \/ AW!Decide(p) \/ AW!Continue(p) \/ DecideEngine(p) \/ OpenRequest(p)
  PROVE  Elsewhere(p)
<1>1. CASE AW!Decide(p) \/ DecideEngine(p)
  BY <1>1 DEF AW!Decide, DecideEngine, At, AW!DecideRead, AW!Throw, AW!Return, AW!Goto, Elsewhere,
     IInv, HandlersOK
<1>2. CASE OpenRequest(p)
  BY <1>2 DEF OpenRequest, At, AW!StartFind, AW!Return, AW!Goto, Elsewhere, IInv, HandlersOK
<1>3. CASE AW!Continue(p)
  <2>1. AW!StartInsert(p) => frame[p].ret = "idle"
    BY Unchanged DEF AW!StartInsert, Knows
  <2>2. AW!DecideAudit(p) => frame[p].ret \in {"idle", "verdict.mirror"}
    BY Unchanged DEF AW!DecideAudit, Knows, DecideFrame
  <2> QED
    BY <1>3, <2>1, <2>2 DEF AW!Continue, AW!StartWorkflow, AW!StartInsert, AW!DecideUpdate,
       AW!DecideAudit, AW!Throw, AW!Return, AW!Goto, Elsewhere, IInv, HandlersOK
<1> QED
  BY <1>1, <1>2, <1>3

LEMMA DeadlineStep ==
  ASSUME IInv, [Next]_vars
  PROVE  [AsDeadlines!Next]_AsDeadlines!vars
<1>1. CASE UNCHANGED <<timing, pc, frame>>
  BY <1>1 DEF AsDeadlines!vars, DeadlineAt, DeadlineFrame, timing
<1>2. CASE RequirementRoutes \/ UNCHANGED vars
  BY <1>1, <1>2 DEF RequirementRoutes, Create, Update, SoftDelete, Restore, Set, vars
<1>3. CASE Engine
  BY <1>1, <1>3, EngineElsewhere, ElsewhereUnseen
     DEF Engine, AW!Admin, AW!Create, AW!Remove, AW!Restore
<1>4. CASE DL!Tick \/ \E e \in Submissions, t \in DL!Times : DL!Create(e, t)
  <2>1. DeadlineAt' = DeadlineAt /\ DeadlineFrame' = DeadlineFrame
    BY <1>4 DEF DL!Tick, DL!Create, DeadlineAt, DeadlineFrame
  <2> QED
    BY <1>4, <2>1 DEF DL!Tick, DL!Create, AsDeadlines!Tick, AsDeadlines!Create, AsDeadlines!Next,
                      DL!Times, AsDeadlines!Times
<1>5. CASE Timing
  BY <1>4, <1>5, DeadlineBeginSeen, DeadlineContinueSeen DEF Timing, AsDeadlines!Next
<1>6. ASSUME NEW p \in Procs, At(p, "idle"), SubmissionRoutes(p)
      PROVE  Elsewhere(p)
  BY <1>6 DEF SubmissionRoutes, CreateSubmission, Submit, Decide, Enter, At, Goto, Elsewhere
<1>7. ASSUME NEW p \in Procs, Continue(p)
      PROVE  Elsewhere(p)
  <2>1. CASE DecideEngine(p) \/ OpenRequest(p)
    BY <2>1, EngineElsewhere DEF DecideEngine, OpenRequest
  <2>2. CASE \/ OpenInsert(p) \/ SubmitDeadline(p) \/ SubmitUpdate(p)
             \/ DecideRequirement(p) \/ DecideRecord(p) \/ DecideMirror(p)
    BY <2>2 DEF OpenInsert, SubmitDeadline, SubmitUpdate, DecideRequirement, DecideRecord,
       DecideMirror, Finish, At, Goto, Elsewhere
  <2> QED
    BY <1>7, <2>1, <2>2 DEF Continue
<1>8. ASSUME NEW p \in Procs, Fail(p)
      PROVE  [AsDeadlines!Next]_AsDeadlines!vars
  <2>1. /\ pc' = [pc EXCEPT ![p] = "idle"] /\ frame' = [frame EXCEPT ![p] = NoRow]
        /\ UNCHANGED timing
    BY <1>8 DEF Fail, Finish, Goto
  <2>2. CASE InDeadlines(pc[p])
    <3>1. AsDeadlines!Finish(p)
      BY <2>1, DeadlinesSeeOutside DEF AsDeadlines!Finish, AsDeadlines!Goto
    <3>2. DeadlineAt[p] \in AsDeadlines!Labels \ {"idle"}
      BY <2>2 DEF DeadlineAt, AsDeadlines!Labels
    <3> QED
      BY <2>1, <3>1, <3>2 DEF AsDeadlines!Fail, AsDeadlines!Next, timing
  <2>3. CASE ~InDeadlines(pc[p])
    <3>1. Elsewhere(p)
      BY <2>1, <2>3 DEF Elsewhere, IInv, HandlersOK
    <3> QED
      BY <3>1, ElsewhereUnseen
  <2> QED
    BY <2>2, <2>3
<1> QED
  BY <1>2, <1>3, <1>5, <1>6, <1>7, <1>8, ElsewhereUnseen DEF Next

(* Whatever the routes of submissions do, the deadlines keep their own     *)
(* specification.                                                          *)
THEOREM DeadlinesImplemented == Spec => AsDeadlines!Spec
<1>1. Init => AsDeadlines!Init
  BY DEF Init, AW!Init, DL!Init, AsDeadlines!Init, DeadlineAt, DeadlineFrame
<1>2. IInv /\ [Next]_vars => [AsDeadlines!Next]_AsDeadlines!vars
  BY DeadlineStep
<1> QED
  BY <1>1, <1>2, Invariance, PTL DEF Spec, AsDeadlines!Spec
=============================================================================
