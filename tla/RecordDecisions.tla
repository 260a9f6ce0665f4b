--------------------------- MODULE RecordDecisions ---------------------------
(***************************************************************************)
(* Two services that let the approval engine decide and copy its answer:   *)
(* DynamicModuleRecordsService.changeStatus, which keeps a history of the  *)
(* statuses, and MembersService.decideRegistration. Both set the status at *)
(* the first step's verdict. The handlers keep the locals of the engine's  *)
(* calls in engine and their own in frame.                                 *)
(***************************************************************************)
EXTENDS Handlers

CONSTANTS
  Records,     \* ids of dynamic-module records of one module
  Applicants,  \* ids of members that register themselves
  MaxHistory,  \* bound on the history rows of a record
  Workflows, Users, PlatformAdmins, Gates, OpenGate, StepCount, Gate, Holds

VARIABLES
  record,     \* id -> its status, or "absent"
  history,    \* id -> its status_history rows
  applicant,  \* id -> its membershipStatus, or "absent"
  gate,       \* the module's approvalWorkflowId, or None
  recorded,   \* the audit rows of verdicts given without the engine
  workflow, request, audit, decided, engine  \* of ApprovalWorkflows

AW == INSTANCE ApprovalWorkflows WITH
        Entities <- Records \cup Applicants, NoRow <- None, frame <- engine

owned == <<record, history, applicant, gate, recorded>>
approval == <<workflow, request, audit, decided, engine>>
decisions == <<owned, approval>>

ASSUME RecordAssumption ==
  /\ StepCount \in [Workflows -> Nat \ {0}]
  /\ None \notin Workflows \cup AW!Request

DecisionsInit ==
  /\ AW!Init
  /\ record = [r \in Records |-> "absent"]
  /\ history = [r \in Records |-> {}]
  /\ applicant = [a \in Applicants |-> "absent"]
  /\ gate = None
  /\ recorded = {}

(* This service's locals die with the handler, wherever the engine ends it. *)
KeepFrame(p) == frame' = [frame EXCEPT ![p] = IF pc'[p] = "idle" THEN None ELSE @]

-----------------------------------------------------------------------------
(* Dynamic-module records *)

(* The definition's workflow can change while decisions are under way. *)
SetGate(p, w) ==
  /\ AtOnce(p)
  /\ w # None => workflow[w] = "live"
  /\ gate' = w
  /\ UNCHANGED <<record, history, applicant, recorded, approval>>

(* create and createPublic: the row, then its first history row. *)
CreateRecord(p, r) ==
  /\ record[r] = "absent"
  /\ record' = [record EXCEPT ![r] = "open"]
  /\ Enter(p, "record.first", [id |-> r, uses |-> {}])
  /\ UNCHANGED <<history, applicant, gate, recorded, approval>>

FirstHistory(p) ==
  /\ At(p, "record.first")
  /\ history' = [history EXCEPT ![frame[p].id] = @ \cup {[from |-> None, to |-> "open"]}]
  /\ Finish(p)
  /\ UNCHANGED <<record, applicant, gate, recorded, approval>>

(* changeStatus reads the definition and the record. *)
ChangeStatus(p, r, s, u) ==
  /\ record[r] \notin {"absent", s}
  /\ Cardinality(history[r]) < MaxHistory
  /\ LET decides == gate # None /\ s \in AW!Decisions IN
     Enter(p, IF decides THEN "decision.start" ELSE "decision.record",
           [id |-> r, wf |-> gate, user |-> u, verdict |-> s, from |-> record[r],
            next |-> "record.history", uses |-> {r}])
  /\ UNCHANGED decisions

(* Mutant: the two statuses of the history row are swapped. *)
RecordHistory_Swapped(p) ==
  /\ At(p, "record.history")
  /\ history' = [history EXCEPT ![frame[p].id] =
                   @ \cup {[from |-> frame[p].verdict, to |-> frame[p].from]}]
  /\ Goto(p, "record.status")
  /\ UNCHANGED <<record, applicant, gate, recorded, approval>>

RecordHistory(p) ==
  /\ At(p, "record.history")
  /\ history' = [history EXCEPT ![frame[p].id] =
                   @ \cup {[from |-> frame[p].from, to |-> frame[p].verdict]}]
  /\ Goto(p, "record.status")
  /\ UNCHANGED <<record, applicant, gate, recorded, approval>>

WriteStatus(p) ==
  /\ At(p, "record.status")
  /\ record' = [record EXCEPT ![frame[p].id] = frame[p].verdict]
  /\ Finish(p)
  /\ UNCHANGED <<history, applicant, gate, recorded, approval>>

-----------------------------------------------------------------------------
(* Member registrations *)

Register(p, a) ==
  /\ AtOnce(p)
  /\ applicant[a] = "absent"
  /\ applicant' = [applicant EXCEPT ![a] = "pending"]
  /\ UNCHANGED <<record, history, gate, recorded, approval>>

(* members.update writes any status at any time. *)
EditStatus(p, a, s) ==
  /\ AtOnce(p)
  /\ applicant[a] \notin {"absent", s}
  /\ applicant' = [applicant EXCEPT ![a] = s]
  /\ UNCHANGED <<record, history, gate, recorded, approval>>

(* decideRegistration reads the member ... *)
DecideRegistration(p, a, v, u) ==
  /\ applicant[a] = "pending"
  /\ Enter(p, "registration.find",
           [id |-> a, wf |-> None, user |-> u, verdict |-> v, from |-> "pending",
            next |-> "registration.write", uses |-> {a}])
  /\ UNCHANGED decisions

(* ... and then an active workflow for registrations, if there is one. *)
FindWorkflow(p) ==
  /\ At(p, "registration.find")
  /\ IF \E w \in Workflows : workflow[w] = "live"
       THEN \E w \in Workflows : workflow[w] = "live" /\
              Proceed(p, "decision.start", [frame[p] EXCEPT !.wf = w])
       ELSE Goto(p, "decision.record")
  /\ UNCHANGED decisions

WriteRegistration(p) ==
  /\ At(p, "registration.write")
  /\ applicant' = [applicant EXCEPT ![frame[p].id] =
                     IF frame[p].verdict = "approved" THEN "active" ELSE "rejected"]
  /\ Finish(p)
  /\ UNCHANGED <<record, history, gate, recorded, approval>>

-----------------------------------------------------------------------------
(* The decision: startRequest and decide of the engine, or an audit row. *)

StartDecision(p) ==
  /\ At(p, "decision.start")
  /\ AW!StartFind(p, frame[p].id, frame[p].wf, "decision.decide")
  /\ KeepFrame(p)
  /\ UNCHANGED owned

(* Mutant: a refusal of the engine is swallowed. *)
EngineDecision_Swallowed(p) ==
  /\ At(p, "decision.decide")
  /\ \/ AW!DecideRead(p, frame[p].id, frame[p].user, frame[p].verdict, frame[p].next) /\ KeepFrame(p)
     \/ Goto(p, frame[p].next) /\ UNCHANGED approval
  /\ UNCHANGED owned

EngineDecision(p) ==
  /\ At(p, "decision.decide")
  /\ AW!DecideRead(p, frame[p].id, frame[p].user, frame[p].verdict, frame[p].next)
  /\ KeepFrame(p)
  /\ UNCHANGED owned

RecordDecision(p) ==
  /\ At(p, "decision.record")
  /\ recorded' = recorded \cup {[id |-> frame[p].id, verdict |-> v] :
                                  v \in {frame[p].verdict} \cap AW!Decisions}
  /\ Goto(p, frame[p].next)
  /\ UNCHANGED <<record, history, applicant, gate, approval>>

(* The engine's steps within these handlers, and its own routes. *)
Engine(p) == (AW!Decide(p) \/ AW!Continue(p)) /\ KeepFrame(p) /\ UNCHANGED owned

Administer(p) == AtOnce(p) /\ AW!Admin /\ UNCHANGED owned

RecordRoutes(p) ==
  \/ \E w \in Workflows \cup {None} : SetGate(p, w)
  \/ \E r \in Records :
       CreateRecord(p, r)
         \/ \E s \in {"open"} \cup AW!Decisions, u \in Users : ChangeStatus(p, r, s, u)

RegistrationRoutes(p) ==
  \E a \in Applicants :
    \/ Register(p, a)
    \/ \E s \in {"pending", "active"} : EditStatus(p, a, s)
    \/ \E v \in AW!Decisions, u \in Users : DecideRegistration(p, a, v, u)

ContinueDecisions(p) ==
  \/ FirstHistory(p) \/ RecordHistory(p) \/ WriteStatus(p)
  \/ FindWorkflow(p) \/ WriteRegistration(p)
  \/ StartDecision(p) \/ EngineDecision(p) \/ RecordDecision(p)
  \/ (Fail(p) /\ engine' = [engine EXCEPT ![p] = None]
        /\ UNCHANGED <<owned, workflow, request, audit, decided>>)

DecisionsChanged == {}

DecisionsNext ==
  /\ \E p \in Procs : \/ RecordRoutes(p) \/ RegistrationRoutes(p) \/ Administer(p)
                      \/ ContinueDecisions(p) \/ Engine(p)
  /\ Watch(DecisionsChanged)

DecisionsSpec ==
  HandlersInit /\ DecisionsInit /\ [][DecisionsNext]_<<pc, frame, stale, decisions>>

-----------------------------------------------------------------------------
(* Properties *)

(* The decision was written to the audit log, or the engine took it from a *)
(* user who holds the gate of the step it was given at.                    *)
Backed(e, v) ==
  \/ [id |-> e, verdict |-> v] \in recorded
  \/ \E w \in Workflows : \E n \in 1..StepCount[w] : \E u \in Users :
       /\ [entity |-> e, step |-> n, user |-> u, decision |-> v] \in decided
       /\ AW!CanActOnStep(u, w, n)

(* A record shows no verdict, and a registration is given none, that       *)
(* nobody entitled to it gave, although the status is written calls later  *)
(* and checks nothing.                                                     *)
VerdictIsBacked ==
  /\ \A r \in Records : record[r] \in AW!Decisions => Backed(r, record[r])
  /\ \A p \in Procs : At(p, "registration.write") => Backed(frame[p].id, frame[p].verdict)

(* The history explains the status of a record, whatever handlers overlap  *)
(* or die half-way: it was created with it or has a row that leads to it.  *)
StatusIsInHistory ==
  \A r \in Records :
    record[r] \in {"absent", "open"} \/ \E h \in history[r] : h.to = record[r]
=============================================================================
