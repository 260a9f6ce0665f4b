------------------------------ MODULE Tenants ------------------------------
(***************************************************************************)
(* TenantsService: a church is created with a few rows, one call at a      *)
(* time, suspended, put in the trash, and purged with all it owns. The     *)
(* purge is the one transaction modelled here. It deletes table by table   *)
(* and has no isolation level, so READ COMMITTED: what others insert under *)
(* it is there for the statements still to come, and nothing locks a table *)
(* that was emptied.                                                       *)
(***************************************************************************)
EXTENDS Handlers, Sequences

CONSTANTS
  Churches,  \* ids (a slug is free again once its church was purged)
  Filled,    \* the tables that other services fill
  MaxTables  \* bound on how many of them they fill

VARIABLES
  church,  \* id -> its row
  rows,    \* id -> the tables in which the church has committed rows
  doomed,  \* id -> those of them whose rows a purge under way has deleted
  late     \* history: id -> those filled after a purge under way emptied them

tenants == <<church, rows, doomed, late>>

(* The rows the onboarding inserts, in its order. (ConfigItem stands for   *)
(* the level definitions too, which follow it.)                            *)
Bootstrap == <<"Role", "DynamicModuleDefinition", "User", "ConfigItem", "Branch">>

Seeded == {Bootstrap[i] : i \in DOMAIN Bootstrap}

(* The deletes of hardDelete, in its order. The deletes of a Promise.all   *)
(* go over the one connection of the transaction as they are listed.       *)
PurgeOrder ==
  <<"DynamicModuleRecordStatusHistory", "ResourceAssignment", "EntityMembership",
    "MinistryMembership", "SmallGroupMembership", "AttendanceRecord", "Contribution",
    "MemberActivity", "VisitorActivity", "EventRegistration", "PayrollPayment",
    "DocumentVersion", "HierarchyRequirementSubmission", "ApprovalRequest", "Deadline",
    "MenuItem", "CustomFieldValue", "CustomFieldDefinition", "RefreshToken",
    "PasswordResetToken", "EmailVerificationToken", "AuditLog", "Notification",
    "NumberingSequence", "NotificationTemplate", "FeatureToggle", "ConfigItem",
    "HierarchyLevelDefinition",
    "Staff", "Visitor",
    "Member", "VisitorGroup", "Family",
    "Ministry", "Event", "Asset", "Document", "SmallGroup",
    "DynamicModuleRecord", "User", "Branch",
    "DynamicModuleDefinition", "HierarchyRequirement", "ApprovalWorkflow",
    "Role">>

(* Tables with a tenantId that hardDelete does not mention. *)
Forgotten == {"TenantSecuritySettings", "LeadershipAppointment"}

Tables == {PurgeOrder[i] : i \in DOMAIN PurgeOrder} \cup Forgotten

ASSUME FilledAssumption == Filled \subseteq Tables

(* The required references, which Postgres keeps by ON DELETE RESTRICT;    *)
(* the optional ones are set to null, and the tables that go by a cascade  *)
(* are left out. Every table refers to Tenant.                             *)
References ==
  {<<child, "User">> : child \in {"RefreshToken", "PasswordResetToken", "EmailVerificationToken",
                                  "LeadershipAppointment"}}
  \cup {<<child, "Branch">> : child \in {"Member", "Contribution", "AttendanceRecord",
                                         "HierarchyRequirementSubmission"}}
  \cup {<<child, "Member">> : child \in {"MemberActivity", "MinistryMembership",
                                         "SmallGroupMembership", "EntityMembership"}}
  \cup {<<"MinistryMembership", "Ministry">>, <<"SmallGroupMembership", "SmallGroup">>,
        <<"EventRegistration", "Event">>, <<"PayrollPayment", "Staff">>,
        <<"DocumentVersion", "Document">>, <<"ApprovalRequest", "ApprovalWorkflow">>,
        <<"HierarchyRequirementSubmission", "HierarchyRequirement">>,
        <<"DynamicModuleRecord", "DynamicModuleDefinition">>,
        <<"DynamicModuleRecordStatusHistory", "DynamicModuleRecord">>}

ParentsOf(table) == {r[2] : r \in {ref \in References : ref[1] = table}}

(* What statements find in the church that come after those of the purge:  *)
(* its own, and others', which wait for it at a row that it has deleted.   *)
Left(t) == rows[t] \ doomed[t]

(* The tables whose rows refuse the n-th delete, or at last that of the    *)
(* church itself.                                                          *)
Refusing(t, n) ==
  IF n > Len(PurgeOrder) THEN Left(t)
  ELSE {child \in Left(t) : PurgeOrder[n] \in ParentsOf(child) \cap Left(t)}

TenantsInit ==
  /\ church = [t \in Churches |-> [state |-> "absent", active |-> FALSE]]
  /\ rows = [t \in Churches |-> {}]
  /\ doomed = [t \in Churches |-> {}]
  /\ late = [t \in Churches |-> {}]

Exists(t) == church[t].state \in {"live", "deleted"}

SetChurch(p, t, row) ==
  AtOnce(p) /\ Exists(t) /\ church' = [church EXCEPT ![t] = row] /\ UNCHANGED <<rows, doomed, late>>

(* The tables of the church that have had their turn in a purge. *)
Emptied(t) ==
  UNION {{PurgeOrder[i] : i \in 1..(frame[p].next - 1)} :
           p \in {q \in Procs : At(q, "church.delete") /\ frame[q].id = t}}

(* A row is inserted and committed. *)
Insert(t, table) ==
  /\ Exists(t) /\ ParentsOf(table) \subseteq Left(t)
  /\ rows' = [rows EXCEPT ![t] = @ \cup {table}]
  /\ doomed' = [doomed EXCEPT ![t] = @ \ {table}]
  /\ late' = [late EXCEPT ![t] = @ \cup ({table} \cap Emptied(t))]
  /\ UNCHANGED church

-----------------------------------------------------------------------------
(* create: the church, and with an admin's address the rows it begins with *)

CreateChurch(p, t, withAdmin) ==
  /\ church[t].state = "absent"
  /\ church' = [church EXCEPT ![t] = [state |-> "live", active |-> TRUE]]
  /\ IF withAdmin THEN Enter(p, "church.bootstrap", [id |-> t, next |-> 1, uses |-> {}])
                  ELSE AtOnce(p)
  /\ UNCHANGED <<rows, doomed, late>>

BootstrapRow(p) ==
  /\ At(p, "church.bootstrap")
  /\ LET fr == frame[p] IN
     /\ Insert(fr.id, Bootstrap[fr.next])
     /\ IF fr.next = Len(Bootstrap) THEN Finish(p)
        ELSE Proceed(p, "church.bootstrap", [fr EXCEPT !.next = @ + 1])

-----------------------------------------------------------------------------
(* Every one of these looks the church up by id, in the trash or not. *)

Deactivate(p, t) == SetChurch(p, t, [church[t] EXCEPT !.active = FALSE])
Reactivate(p, t) == SetChurch(p, t, [church[t] EXCEPT !.active = TRUE])
SoftDelete(p, t) == SetChurch(p, t, [state |-> "deleted", active |-> FALSE])
RestoreChurch(p, t) == SetChurch(p, t, [church[t] EXCEPT !.state = "live"])

(* Any other service inserts the first row of a table, its parents first,  *)
(* or the first since a purge emptied it. An access token outlives its     *)
(* church's suspension, so the church may be in the trash. A bound: what   *)
(* the onboarding seeds, nothing else fills but under a purge.             *)
FillTable(p, t, table) ==
  /\ AtOnce(p)
  /\ table \notin Left(t) /\ (table \in Seeded => table \in doomed[t])
  /\ Cardinality((rows[t] \ Seeded) \cup late[t] \cup {table}) <= MaxTables
  /\ Insert(t, table)

-----------------------------------------------------------------------------
(* hardDelete reads the church, outside of the transaction ... *)
HardDelete(p, t) ==
  /\ church[t].state = "deleted"
  /\ Enter(p, "church.purge", [id |-> t, next |-> 1, uses |-> {t}])
  /\ UNCHANGED tenants

(* Mutant: the status history is not among the deletes. *)
BeginPurge_NoHistory(p) ==
  /\ At(p, "church.purge")
  /\ \A q \in Procs : At(q, "church.delete") => frame[q].id # frame[p].id
  /\ Proceed(p, "church.delete", [frame[p] EXCEPT !.next = 2])
  /\ UNCHANGED tenants

(* ... and begins by updating all users, at which a second purge of the    *)
(* church waits for the first. (If there are none, it waits at the first   *)
(* row that the other has deleted, and until then deletes nothing.)        *)
BeginPurge(p) ==
  /\ At(p, "church.purge")
  /\ \A q \in Procs : At(q, "church.delete") => frame[q].id # frame[p].id
  /\ Goto(p, "church.delete")
  /\ UNCHANGED tenants

(* Each table in its turn. A delete that is refused throws. *)
PurgeTable(p) ==
  /\ At(p, "church.delete")
  /\ LET fr == frame[p] IN
     /\ fr.next <= Len(PurgeOrder) /\ Refusing(fr.id, fr.next) = {}
     /\ LET table == PurgeOrder[fr.next] IN
        /\ doomed' = [doomed EXCEPT ![fr.id] = @ \cup ({table} \cap rows[fr.id])]
        /\ Proceed(p, "church.delete", [fr EXCEPT !.next = @ + 1])
  /\ UNCHANGED <<church, rows, late>>

(* The church itself, and the commit. Nothing looks at deletedAt again. *)
PurgeChurch(p) ==
  /\ At(p, "church.delete")
  /\ LET t == frame[p].id IN
     /\ frame[p].next > Len(PurgeOrder) /\ Refusing(t, frame[p].next) = {} /\ Exists(t)
     /\ church' = [church EXCEPT ![t] = [state |-> "purged", active |-> FALSE]]
     /\ rows' = [rows EXCEPT ![t] = {}]
     /\ doomed' = [doomed EXCEPT ![t] = {}]
     /\ late' = [late EXCEPT ![t] = {}]
  /\ Finish(p)

(* A purge that fails, is refused or takes too long is rolled back. *)
TenantsFail(p) ==
  /\ Fail(p)
  /\ IF At(p, "church.delete")
       THEN /\ doomed' = [doomed EXCEPT ![frame[p].id] = {}]
            /\ late' = [late EXCEPT ![frame[p].id] = {}]
       ELSE UNCHANGED <<doomed, late>>
  /\ UNCHANGED <<church, rows>>

TenantRoutes(p) ==
  \E t \in Churches :
    \/ \E withAdmin \in BOOLEAN : CreateChurch(p, t, withAdmin)
    \/ SoftDelete(p, t) \/ RestoreChurch(p, t)

SuspendRoutes(p) == \E t \in Churches : Deactivate(p, t) \/ Reactivate(p, t)

PurgeRoutes(p) ==
  \E t \in Churches : HardDelete(p, t) \/ \E table \in Filled : FillTable(p, t, table)

ContinueTenants(p) ==
  BootstrapRow(p) \/ BeginPurge(p) \/ PurgeTable(p) \/ PurgeChurch(p) \/ TenantsFail(p)

(* A purge relies on the church being in the trash. *)
TenantsChanged == {t \in Churches : church'[t].state # church[t].state}

TenantsNext ==
  /\ \E p \in Procs : TenantRoutes(p) \/ SuspendRoutes(p) \/ PurgeRoutes(p) \/ ContinueTenants(p)
  /\ Watch(TenantsChanged)

TenantsSpec == HandlersInit /\ TenantsInit /\ [][TenantsNext]_<<pc, frame, stale, tenants>>

-----------------------------------------------------------------------------
(* Properties *)

(* Only what was done under a purge (hardDelete) undercuts it. The church  *)
(* it deletes is in the trash, unless it was restored since it was read.   *)
(* And what a foreign key refuses a delete for is a row of a table that    *)
(* the purge forgets, or one that was inserted after the purge had emptied *)
(* its table: none that was there when its table had its turn, whenever it *)
(* was inserted.                                                           *)
PurgeOnlyUndercut ==
  \A p \in Procs : pc[p] \in {"church.purge", "church.delete"} =>
    LET t == frame[p].id IN
    /\ Fresh({t}) => church[t].state = "deleted"
    /\ At(p, "church.delete") => Refusing(t, frame[p].next) \subseteq late[t] \cup Forgotten

(* The comment on hardDelete: it deletes every table that a church owns,   *)
(* children first, so that foreign keys never reject a delete.             *)
PurgeNeverRejected ==
  \A p \in Procs : At(p, "church.delete") => Refusing(frame[p].id, frame[p].next) = {}
=============================================================================
