--------------------------- MODULE ApprovalChain ---------------------------
(***************************************************************************)
(* What the approval engine promises its callers, as the governance        *)
(* requirements state it: an approval request walks a linear chain of      *)
(* steps one at a time, each approval is given by somebody who holds the   *)
(* gate of the step the request is on, the approval of the last step       *)
(* approves the request, a rejection closes it, and a closed request       *)
(* never changes again.                                                    *)
(***************************************************************************)
EXTENDS Naturals

CONSTANTS
  Entities,     \* the (entityType, entityId) pairs a request can be about
  Workflows,    \* the approval workflows of the tenant
  Users,        \* the callers
  StepCount,    \* StepCount[w]: number of steps of workflow w
  Approvers,    \* Approvers[w][s]: the users who hold the gate of step s of w
  NoRow         \* "no request exists"

VARIABLES
  request,      \* entity -> its request row, or NoRow
  decided       \* the decisions taken so far, each with who took it

vars == <<request, decided>>

Init ==
  /\ request = [e \in Entities |-> NoRow]
  /\ decided = {}

(* A request is opened on the first step of a workflow. *)
Open(e, w) ==
  /\ request[e] = NoRow
  /\ request' = [request EXCEPT ![e] = [wf |-> w, step |-> 1, status |-> "pending"]]
  /\ UNCHANGED decided

(* User u, who holds the gate of the current step, takes decision d. *)
DecidedBy(e, u, d) ==
  /\ request[e] # NoRow
  /\ request[e].status = "pending"
  /\ u \in Approvers[request[e].wf][request[e].step]
  /\ decided' = decided \cup
       {[entity |-> e, step |-> request[e].step, user |-> u, decision |-> d]}

(* The request passes one step; past the last step it is approved. *)
Approve(e, u) ==
  /\ DecidedBy(e, u, "approved")
  /\ LET r == request[e] IN
     request' = [request EXCEPT ![e] =
        IF r.step < StepCount[r.wf]
          THEN [wf |-> r.wf, step |-> r.step + 1, status |-> "pending"]
          ELSE [wf |-> r.wf, step |-> r.step, status |-> "approved"]]

(* The request is closed where it stands. *)
Reject(e, u) ==
  /\ DecidedBy(e, u, "rejected")
  /\ request' = [request EXCEPT ![e] =
        [wf |-> request[e].wf, step |-> request[e].step, status |-> "rejected"]]

Next ==
  \E e \in Entities :
    \/ \E w \in Workflows : Open(e, w)
    \/ \E u \in Users : Approve(e, u) \/ Reject(e, u)

Spec == Init /\ [][Next]_vars
=============================================================================
