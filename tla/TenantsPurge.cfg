SPECIFICATION TenantsSpec
CONSTANTS
  Procs = {p1}
  None = none
  Same = same
  Churches = {h1}
  Filled = {"TenantSecuritySettings", "LeadershipAppointment", "Member", "Staff"}
  MaxTables = 1
INVARIANT PurgeNeverRejected
CHECK_DEADLOCK FALSE
