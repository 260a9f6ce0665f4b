--------------------- MODULE MCHierarchyRequirements ---------------------
(* One submission of one requirement, whose workflow, when it has one, has *)
(* one or two steps: the first gated by a role, the second by a permission. *)
EXTENDS HierarchyRequirements, TLC

CONSTANTS r1, alice, bob, role, perm

MCRequirementOf == [s \in Submissions |-> r1]
MCOneStep  == [w \in Workflows |-> 1]
MCTwoSteps == [w \in Workflows |-> 2]
MCGate == [w \in Workflows |-> [n \in 1..StepCount[w] |-> IF n = 1 THEN role ELSE perm]]
MCHolds == [u \in Users |-> IF u = alice THEN {role} ELSE {perm}]

(* Handlers are interchangeable. *)
MCSymmetry == Permutations(Procs)
=============================================================================
