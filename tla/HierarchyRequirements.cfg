SPECIFICATION Spec
CONSTANTS
  r1 = r1
  alice = alice
  bob = bob
  role = role
  perm = perm
  Requirements = {r1}
  Submissions = {s1}
  RequirementOf <- MCRequirementOf
  Workflows = {w1}
  Users = {alice, bob}
  PlatformAdmins = {}
  Gates = {role, perm}
  OpenGate = none
  StepCount <- MCOneStep
  Gate <- MCGate
  Holds <- MCHolds
  MaxTime = 1
  Procs = {p1, p2}
  NoRow = norow
SYMMETRY MCSymmetry
INVARIANT VerdictIsGrounded
PROPERTIES PendingIsSubmittedFirst ClosedIsFrozen ClosedStaysClosed
