------------------------ MODULE MCApprovalWorkflows ------------------------
(* A two-step chain gated by a role and then by a permission, a one-step   *)
(* chain open to anybody, a caller for each gate and one for neither.      *)
EXTENDS ApprovalWorkflows

CONSTANTS w1, w2, alice, bob, role, perm

MCStepCount == [w \in Workflows |-> IF w = w1 THEN 2 ELSE 1]
MCGate == [w \in Workflows |-> IF w = w1 THEN <<role, perm>> ELSE <<OpenGate>>]
MCHolds == [u \in Users |-> CASE u = alice -> {role} [] u = bob -> {perm} [] OTHER -> {}]
=============================================================================
