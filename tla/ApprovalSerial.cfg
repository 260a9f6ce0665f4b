SPECIFICATION SerialSpec
CONSTANTS
  w1 = w1
  w2 = w2
  alice = alice
  bob = bob
  role = role
  perm = perm
  Entities = {e1}
  Workflows = {w1, w2}
  Users = {alice, bob, admin}
  PlatformAdmins = {admin}
  Gates = {role, perm}
  OpenGate = none
  StepCount <- MCStepCount
  Gate <- MCGate
  Holds <- MCHolds
  Procs = {p1, p2}
  NoRow = norow
PROPERTY ChainSpec
