----------------------- MODULE HierarchyRequirements -----------------------
(***************************************************************************)
(* HierarchyRequirementsService: a parent level's requirements of its      *)
(* child branches and the branches' submissions, composed with the two     *)
(* services it calls. A submission finds its approval request and its      *)
(* deadline by its own id: the three rows have no foreign keys between     *)
(* them and no transaction spans them. The generic routes of the two       *)
(* services reach the same rows. Handlers share pc and frame with the      *)
(* services they call, and keep their own locals in call.                  *)
(***************************************************************************)
EXTENDS Naturals, FiniteSets

CONSTANTS
  Requirements,   \* ids of requirements
  Submissions,    \* (requirement, branch, period) triples, each a submission's key
  RequirementOf,  \* the requirement of a submission
  Workflows, Users, PlatformAdmins, Gates, OpenGate, StepCount, Gate, Holds,
  MaxTime, Procs, NoRow

ASSUME SubmissionAssumption ==
  /\ RequirementOf \in [Submissions -> Requirements]
  /\ NoRow \notin Workflows

VARIABLES
  requirement,  \* id -> its row: "absent", "live" or "deleted", and its workflow
  submission,   \* key -> the status of its row, or "absent"
  recorded,     \* the hierarchy_requirement_submission.* rows of the audit log
  call,         \* handler -> the locals of this service
  workflow, request, audit, decided,   \* of ApprovalWorkflows
  deadline, now,                       \* of Deadlines
  pc, frame                            \* of both

own      == <<requirement, submission, recorded>>
approval == <<workflow, request, audit, decided>>
timing   == <<deadline, now>>
vars     == <<own, approval, timing, call, pc, frame>>

AW == INSTANCE ApprovalWorkflows WITH Entities <- Submissions
DL == INSTANCE Deadlines WITH Entities <- Submissions

(* As the two services assume. *)
ASSUME ServiceAssumption ==
  /\ StepCount \in [Workflows -> Nat \ {0}] /\ NoRow \notin AW!Request
  /\ MaxTime \in Nat /\ NoRow \notin DL!Deadline

Verdicts == AW!Decisions
Statuses == {"absent", "pending", "submitted"} \cup Verdicts

OpenLabels    == {"open.insert", "open.request"}
SubmitLabels  == {"submit.deadline", "submit.update"}
VerdictLabels == {"verdict.requirement", "verdict.engine", "verdict.record", "verdict.mirror"}
Labels == AW!Labels \cup DL!Labels \cup OpenLabels \cup SubmitLabels \cup VerdictLabels

OpenCall    == [sub : Submissions, wf : Workflows \cup {NoRow}]
SubmitCall  == [sub : Submissions]
VerdictCall == [sub : Submissions, user : Users, verdict : Verdicts]

(* Rows are well formed, and so are the locals of each handler. *)
TypeOK ==
  /\ AW!RowsOK
  /\ requirement \in [Requirements -> [state : {"absent", "live", "deleted"},
                                       wf : Workflows \cup {NoRow}]]
  /\ submission \in [Submissions -> Statuses]
  /\ recorded \subseteq [sub : Submissions, verdict : Verdicts]
  /\ deadline \in [Submissions -> DL!Deadline \cup {NoRow}]
  /\ now \in DL!Times
  /\ pc \in [Procs -> Labels]
  /\ \A p \in Procs :
       /\ pc[p] = "idle" => call[p] = NoRow /\ frame[p] = NoRow
       /\ pc[p] \in OpenLabels => call[p] \in OpenCall
       /\ pc[p] = "open.request" => call[p].wf # NoRow
       /\ pc[p] \in SubmitLabels => call[p] \in SubmitCall
       /\ pc[p] \in VerdictLabels => call[p] \in VerdictCall
       /\ pc[p] \in DL!Labels \ {"idle"} => frame[p] \in DL!Frame
       /\ pc[p] \in {"start.workflow", "start.insert"} => frame[p] \in AW!StartFrame
       /\ pc[p] \in {"decide.update", "decide.audit"} =>
            /\ frame[p] \in [entity : Submissions, wf : Workflows, step : Nat, user : Users,
                             decision : Verdicts, ret : {"idle", "verdict.mirror"}]
            /\ frame[p].ret = "verdict.mirror" => call[p] \in VerdictCall

Init ==
  /\ AW!Init
  /\ DL!Init
  /\ requirement = [r \in Requirements |-> [state |-> "absent", wf |-> NoRow]]
  /\ submission = [s \in Submissions |-> "absent"]
  /\ recorded = {}
  /\ call = [p \in Procs |-> NoRow]

At(p, label)  == pc[p] = label
Goto(p, label) == pc' = [pc EXCEPT ![p] = label]
Enter(p, label, c) == At(p, "idle") /\ Goto(p, label) /\ call' = [call EXCEPT ![p] = c]
Finish(p) == Goto(p, "idle") /\ call' = [call EXCEPT ![p] = NoRow]

(* The locals of this service die with the handler, wherever it ends. *)
KeepCall(p) == call' = [call EXCEPT ![p] = IF pc'[p] = "idle" THEN NoRow ELSE @]

-----------------------------------------------------------------------------
(* Requirements *)

WorkflowFound(w) == w # NoRow => workflow[w] = "live"

Set(r, row) ==
  /\ requirement' = [requirement EXCEPT ![r] = row]
  /\ UNCHANGED <<submission, recorded, approval, timing, call, pc, frame>>

(* create, update and softDelete check and write in consecutive calls; what *)
(* can come between them (the workflow or the requirement is deleted) can  *)
(* also come right after, so the two calls are one step.                   *)
Create(r, w) ==
  /\ requirement[r].state = "absent" /\ WorkflowFound(w)
  /\ Set(r, [state |-> "live", wf |-> w])

(* Any workflow may replace the present one, or none, while submissions    *)
(* are under way.                                                          *)
Update(r, w) ==
  /\ requirement[r].state = "live" /\ WorkflowFound(w) /\ w # requirement[r].wf
  /\ Set(r, [state |-> "live", wf |-> w])

SoftDelete(r) ==
  /\ requirement[r].state = "live"
  /\ Set(r, [requirement[r] EXCEPT !.state = "deleted"])

(* TrashService.restore *)
Restore(r) ==
  /\ requirement[r].state = "deleted"
  /\ Set(r, [requirement[r] EXCEPT !.state = "live"])

-----------------------------------------------------------------------------
(* createSubmission: read the requirement, insert, start the request. *)

CreateSubmission(p, s) ==
  /\ requirement[RequirementOf[s]].state = "live"
  /\ submission[s] = "absent"
  /\ Enter(p, "open.insert", [sub |-> s, wf |-> requirement[RequirementOf[s]].wf])
  /\ UNCHANGED <<own, approval, timing, frame>>

(* The unique key refuses a second row. *)
OpenInsert(p) ==
  /\ At(p, "open.insert")
  /\ LET s == call[p].sub IN
     /\ submission' = [submission EXCEPT ![s] = IF @ = "absent" THEN "pending" ELSE @]
     /\ IF submission[s] = "absent" /\ call[p].wf # NoRow
          THEN Goto(p, "open.request") /\ UNCHANGED call
          ELSE Finish(p)
  /\ UNCHANGED <<requirement, recorded, approval, timing, frame>>

OpenRequest(p) ==
  /\ At(p, "open.request")
  /\ AW!StartFind(p, call[p].sub, call[p].wf, "idle")
  /\ call' = [call EXCEPT ![p] = NoRow]
  /\ UNCHANGED <<own, timing>>

-----------------------------------------------------------------------------
(* submit: read the submission, check the deadline, update by id. *)

Submit(p, s) ==
  /\ submission[s] = "pending"
  /\ Enter(p, "submit.deadline", [sub |-> s])
  /\ UNCHANGED <<own, approval, timing, frame>>

SubmitDeadline(p) ==
  /\ At(p, "submit.deadline")
  /\ IF DL!IsOpen(call[p].sub)
       THEN Goto(p, "submit.update") /\ UNCHANGED call
       ELSE Finish(p)
  /\ UNCHANGED <<own, approval, timing, frame>>

SubmitUpdate(p) ==
  /\ At(p, "submit.update")
  /\ submission' = [submission EXCEPT ![call[p].sub] = "submitted"]
  /\ Finish(p)
  /\ UNCHANGED <<requirement, recorded, approval, timing, frame>>

-----------------------------------------------------------------------------
(* decide: read the submission and its requirement, let the engine decide  *)
(* or record the decision, copy it onto the submission.                    *)

(* Mutant: a submission may be decided before it is submitted. *)
Decide_Unsubmitted(p, s, u, v) ==
  /\ submission[s] \in {"pending", "submitted"}
  /\ Enter(p, "verdict.requirement", [sub |-> s, user |-> u, verdict |-> v])
  /\ UNCHANGED <<own, approval, timing, frame>>

Decide(p, s, u, v) ==
  /\ submission[s] = "submitted"
  /\ Enter(p, "verdict.requirement", [sub |-> s, user |-> u, verdict |-> v])
  /\ UNCHANGED <<own, approval, timing, frame>>

DecideRequirement(p) ==
  /\ At(p, "verdict.requirement")
  /\ LET r == requirement[RequirementOf[call[p].sub]] IN
     IF r.state = "live"
       THEN Goto(p, IF r.wf = NoRow THEN "verdict.record" ELSE "verdict.engine") /\ UNCHANGED call
       ELSE Finish(p)
  /\ UNCHANGED <<own, approval, timing, frame>>

(* Mutant: the engine's answer is not awaited, so its refusal is not seen. *)
DecideEngine_NotAwaited(p) ==
  /\ At(p, "verdict.engine")
  /\ Goto(p, "verdict.mirror")
  /\ UNCHANGED <<own, approval, timing, call, frame>>

DecideEngine(p) ==
  /\ At(p, "verdict.engine")
  /\ AW!DecideRead(p, call[p].sub, call[p].user, call[p].verdict, "verdict.mirror")
  /\ KeepCall(p)
  /\ UNCHANGED <<own, timing>>

DecideRecord(p) ==
  /\ At(p, "verdict.record")
  /\ recorded' = recorded \cup {[sub |-> call[p].sub, verdict |-> call[p].verdict]}
  /\ Goto(p, "verdict.mirror")
  /\ UNCHANGED <<requirement, submission, approval, timing, call, frame>>

DecideMirror(p) ==
  /\ At(p, "verdict.mirror")
  /\ submission' = [submission EXCEPT ![call[p].sub] = call[p].verdict]
  /\ Finish(p)
  /\ UNCHANGED <<requirement, recorded, approval, timing, frame>>

-----------------------------------------------------------------------------
(* The composition *)

RequirementRoutes ==
  \E r \in Requirements :
    \/ \E w \in Workflows \cup {NoRow} : Create(r, w) \/ Update(r, w)
    \/ SoftDelete(r)
    \/ Restore(r)

SubmissionRoutes(p) ==
  \E s \in Submissions :
    \/ CreateSubmission(p, s)
    \/ Submit(p, s)
    \/ \E u \in Users, v \in Verdicts : Decide(p, s, u, v)

Continue(p) ==
  \/ OpenInsert(p) \/ OpenRequest(p)
  \/ SubmitDeadline(p) \/ SubmitUpdate(p)
  \/ DecideRequirement(p) \/ DecideEngine(p) \/ DecideRecord(p) \/ DecideMirror(p)

(* The engine, called from here or through its own decide routes. *)
Engine ==
  /\ \/ AW!Admin /\ UNCHANGED call
     \/ \E p \in Procs : (AW!Decide(p) \/ AW!Continue(p)) /\ KeepCall(p)
  /\ UNCHANGED <<own, timing>>

(* The deadlines, which have routes of their own only. *)
Timing ==
  /\ \/ DL!Tick
     \/ \E s \in Submissions, t \in DL!Times : DL!Create(s, t)
     \/ \E p \in Procs : DL!Begin(p) \/ DL!Continue(p)
  /\ UNCHANGED <<own, approval, call>>

Fail(p) ==
  /\ pc[p] # "idle"
  /\ Finish(p)
  /\ frame' = [frame EXCEPT ![p] = NoRow]
  /\ UNCHANGED <<own, approval, timing>>

Next ==
  \/ RequirementRoutes \/ Engine \/ Timing
  \/ \E p \in Procs : (At(p, "idle") /\ SubmissionRoutes(p)) \/ Continue(p) \/ Fail(p)

Spec == Init /\ [][Next]_vars

-----------------------------------------------------------------------------
(* Properties *)

(* Somebody gave this verdict: it was recorded here, or the engine took it *)
(* from a user who holds the gate of the step it was given at.             *)
Grounded(R, D, s, v) ==
  \/ [sub |-> s, verdict |-> v] \in R
  \/ \E w \in Workflows : \E n \in 1..StepCount[w] : \E u \in Users :
       /\ [entity |-> s, step |-> n, user |-> u, decision |-> v] \in D
       /\ AW!CanActOnStep(u, w, n)

(* A submission shows no verdict that nobody entitled to it gave, although *)
(* the verdict is copied by a separate call that checks nothing (FR-HR-4.2 *)
(* and FR-HR-4.3).                                                         *)
VerdictIsGrounded ==
  \A s \in Submissions :
    submission[s] \in Verdicts => Grounded(recorded, decided, s, submission[s])

(* An approval request is never left behind without its submission, which  *)
(* no foreign key would prevent: whatever fails, the row comes first.      *)
RequestHasSubmission ==
  \A s \in Submissions : request[s] # NoRow => submission[s] # "absent"

(* A submission is submitted before it is decided, also when handlers that *)
(* read it long ago write it now (FR-HR-3.4 and FR-HR-4.1).                *)
PendingIsSubmittedFirst ==
  [][\A s \in Submissions :
       submission[s] = "pending" => submission'[s] \in {"pending", "submitted"}]_vars

Shut(s) == deadline[s] # NoRow /\ (deadline[s].status = "closed" \/ deadline[s].due < now)

CheckPassed(p, s) == At(p, "submit.update") /\ call[p].sub = s

Frozen(s) == submission[s] = "pending" /\ Shut(s) /\ ~(\E p \in Procs : CheckPassed(p, s))

(* While its deadline is not open a pending submission stays pending, and  *)
(* no handler gets past the check, unless one had while it was open        *)
(* (FR-GOV-4.6).                                                           *)
ClosedIsFrozen ==
  [][\A s \in Submissions : Frozen(s) /\ Shut(s)' => Frozen(s)']_vars

(* Closed is immutable except through the reopen route. *)
ClosedStaysClosed == DL!ClosedStaysClosed

(* business-analysis.md: the decision is mirrored onto the submission, so  *)
(* that no read needs the request.                                         *)
MirrorAgrees ==
  \A s \in Submissions :
    submission[s] = "approved" /\ request[s] # NoRow => request[s].status # "rejected"
=============================================================================
