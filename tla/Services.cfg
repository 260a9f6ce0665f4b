SPECIFICATION Spec
CONSTANTS
  w1 = w1
  alice = alice
  a1 = a1
  elder = elder
  perm = perm
  reader = reader
  second = second
  top = top
  mid = mid
  low = low
  kin = kin
  division = division
  team = team
  Procs = {p1, p2}
  None = none
  Same = same
  Members = {m1, m2}
  Families = {f1, f2}
  Visitors = {v1, v2}
  MaxNumber = 2
  Events = {"e1"}
  Groups = {"g1"}
  Ministries = {"n1"}
  Entities = {"d1"}
  Guests = {u1}
  MaxCapacity = 1
  Payments = {y1}
  Contributions = {c1}
  Reasons = {why, because}
  MaxAmount = 2
  Docs = {doc1, doc2}
  Owners = {o1}
  Files = {k1, k2, k3}
  MaxBatch = 2
  Nodes = {t1, t2, t3}
  Records = {r1}
  Applicants = {a1}
  Workflows = {w1}
  Users = {alice}
  PlatformAdmins = {}
  Gates = {elder, perm}
  OpenGate = open
  StepCount <- MCStepCount
  Gate <- MCGate
  Holds <- MCHolds
  MaxHistory = 2
  Churches = {h1}
  Filled = {"RefreshToken", "User", "Branch", "Member", "EntityMembership", "Contribution", "Staff",
            "PayrollPayment", "ConfigItem", "DynamicModuleRecord", "DynamicModuleRecordStatusHistory",
            "ApprovalWorkflow", "ApprovalRequest", "LeadershipAppointment"}
  MaxTables = 2
  Accounts = {a1, a2}
  Roles = {r2, r3}
  SystemRoles = {r2}
  Departments = {d2}
  CheckIns = {x1, x2}
  Attendees = {m3}
  Slots = {s1}
  MaxCount = 2
  Readers = {reader, second}
  Sites = {top, mid, low}
  Units = {division, team}
  Persons = {kin}
  Contacts = {v3}
  Categories = {t4}
  MaxAssigned = 1
  Holders = {o2}
  Secrets = {x3, x4, x5}
SYMMETRY MCSymmetry
INVARIANTS HeadIsMember NumbersAreUnique NetIsDifference FilesAreKept VerdictIsBacked StatusIsInHistory PurgeOnlyUndercut
INVARIANTS DeletedIsInactive NamedCountsOnce ToldIsListed EnforcedIsConfirmed
PROPERTIES LinkPinned AdmittedWithinCapacity DeletedWithNobodyActive SettledIsFixed MovesCloseNoCycle
PROPERTIES RolesOfOneRequest DelegatesStayWithin
CHECK_DEADLOCK FALSE
