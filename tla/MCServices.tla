----------------------------- MODULE MCServices -----------------------------
(***************************************************************************)
(* The CRUD services next to each other in one process. They share the     *)
(* handlers and no rows, except where People, Enrolments and the trash     *)
(* meet, so each behaviour keeps to one workload and the state spaces add  *)
(* up instead of multiplying.                                              *)
(***************************************************************************)
EXTENDS Enrolments, Ledger, Documents, RecordTree, RecordDecisions, Tenants, Accounts,
        Attendance, Eligibility, SecondFactor, TLC

CONSTANTS w1, alice, a1, elder, perm, reader, second, top, mid, low, kin, division, team

-----------------------------------------------------------------------------
(* The organisations forms are assigned in: three branches below each      *)
(* other or two below one, two departments, any of them deleted; a user    *)
(* who may be anywhere and one at the top; one appointment or none.        *)

MCBlank ==
  [reader  |-> [u \in Readers |-> [site |-> None, unit |-> None, category |-> None]],
   site    |-> [b \in Sites |-> [live |-> TRUE, parent |-> None]],
   unit    |-> [d \in Units |-> [live |-> TRUE, parent |-> None]],
   person  |-> [m \in Persons |-> top],
   contact |-> [v \in Contacts |-> [live |-> TRUE, assignee |-> None]],
   leads   |-> {}]

MCRows(parent) ==
  {[n \in DOMAIN parent |-> [live |-> n \in L, parent |-> parent[n]]] : L \in SUBSET DOMAIN parent}

MCBranchOrgs ==
  {[MCBlank EXCEPT !.site = tree, !.reader[reader].site = b, !.reader[second].site = top,
      !.person = [m \in Persons |-> home], !.leads = led] :
     tree \in UNION {MCRows(top :> None @@ mid :> top @@ low :> above) : above \in {top, mid}},
     b \in Sites \cup {None}, home \in Sites,
     led \in {{}, {<<reader, <<"branch", mid>>>>}, {<<reader, <<"member", kin>>>>}}}

MCOtherOrgs ==
  {[MCBlank EXCEPT !.unit = tree, !.reader[reader].unit = d, !.reader[reader].category = c,
      !.contact = [v \in Contacts |-> [live |-> live, assignee |-> assignee]], !.leads = led] :
     tree \in MCRows(division :> None @@ team :> division),
     d \in Units \cup {None}, c \in Categories \cup {None},
     live \in BOOLEAN, assignee \in {reader, None},
     led \in {{}, {<<reader, <<"dynamic_module_record", division>>>>}}}

-----------------------------------------------------------------------------
VARIABLE focus

vars == <<pc, frame, stale, people, enrolments, ledger, documents, node, decisions, tenants,
          accounts, attendance, eligibility, secondFactor, focus>>

Workloads == {"numbers", "households", "families", "visitors", "ledger", "documents",
              "tree", "records", "registrations", "churches", "purge", "grants", "delegation",
              "staff", "lifecycle", "attendance", "forms", "factor"} \cup Things

Init ==
  /\ focus \in Workloads
  /\ HandlersInit /\ PeopleInit /\ EnrolmentsInit /\ LedgerInit /\ DocumentsInit
  /\ TreeInit /\ DecisionsInit /\ TenantsInit /\ AccountsInit /\ AttendanceInit
  /\ SecondFactorInit
  /\ EligibilityInit(IF focus = "forms" THEN MCBranchOrgs \cup MCOtherOrgs ELSE {None})

(* The routes of each workload of People; the rest of it is always enabled. *)
PersonRoutes(p) ==
  \/ focus = "numbers" /\ NumberRoutes(p)
  \/ focus = "households" /\ HouseholdRoutes(p)
  \/ focus = "families" /\ FamilyRoutes(p)
  \/ focus = "visitors" /\ VisitorRoutes(p)

PeopleWork ==
  /\ focus \in {"numbers", "households", "families", "visitors"}
  /\ \E p \in Procs : PersonRoutes(p) \/ RestorePerson(p) \/ ContinuePeople(p)
  /\ Watch(PeopleChanged)
  /\ UNCHANGED <<enrolments, ledger, documents, node, decisions, tenants,
                 accounts, attendance, eligibility, secondFactor, focus>>

EnrolmentsWork ==
  /\ focus \in Things /\ EnrolmentsStep({focus})
  /\ UNCHANGED <<ledger, documents, node, decisions, tenants,
                 accounts, attendance, eligibility, secondFactor, focus>>

LedgerWork ==
  /\ focus = "ledger" /\ LedgerNext
  /\ UNCHANGED <<people, enrolments, documents, node, decisions, tenants,
                 accounts, attendance, eligibility, secondFactor, focus>>

DocumentsWork ==
  /\ focus = "documents" /\ DocumentsNext
  /\ UNCHANGED <<people, enrolments, ledger, node, decisions, tenants,
                 accounts, attendance, eligibility, secondFactor, focus>>

TreeWork ==
  /\ focus = "tree" /\ TreeNext
  /\ UNCHANGED <<people, enrolments, ledger, documents, decisions, tenants,
                 accounts, attendance, eligibility, secondFactor, focus>>

CreateWorkflow(p) == AtOnce(p) /\ (\E w \in Workflows : AW!Create(w)) /\ UNCHANGED owned

(* The workflow goes and comes back among the registrations only: there    *)
(* are fewer states to multiply by.                                        *)
DecisionsWork ==
  /\ focus \in {"records", "registrations"}
  /\ \E p \in Procs :
       \/ focus = "records" /\ (RecordRoutes(p) \/ CreateWorkflow(p))
       \/ focus = "registrations" /\ (RegistrationRoutes(p) \/ Administer(p))
       \/ ContinueDecisions(p) \/ Engine(p)
  /\ Watch(DecisionsChanged)
  /\ UNCHANGED <<people, enrolments, ledger, documents, node, tenants,
                 accounts, attendance, eligibility, secondFactor, focus>>

(* Whether a church is suspended makes no difference to its purge. *)
TenantsWork ==
  /\ focus \in {"churches", "purge"}
  /\ \E p \in Procs :
       \/ TenantRoutes(p)
       \/ focus = "churches" /\ SuspendRoutes(p)
       \/ focus = "purge" /\ PurgeRoutes(p)
       \/ ContinueTenants(p)
  /\ Watch(TenantsChanged)
  /\ UNCHANGED <<people, enrolments, ledger, documents, node, decisions,
                 accounts, attendance, eligibility, secondFactor, focus>>

(* One of the two accounts is the leader that calls; roles are given and   *)
(* accounts come and go without regard to others, so a1 is enough there.   *)
AccountsWork ==
  /\ focus \in {"grants", "delegation", "staff", "lifecycle"}
  /\ \E p \in Procs :
       \/ focus = "grants" /\ (RoleRoutes(p) \/ GrantRoutes(p, a1))
       \/ focus = "delegation" /\ DelegationRoutes(p, a1)
       \/ focus = "staff" /\ StaffRoutes(p, a1)
       \/ focus = "lifecycle" /\ LifecycleRoutes(p, a1, None)
       \/ ContinueAccounts(p)
  /\ Watch(AccountsChanged)
  /\ UNCHANGED <<people, enrolments, ledger, documents, node, decisions, tenants,
                 attendance, eligibility, secondFactor, focus>>

AttendanceWork ==
  /\ focus = "attendance" /\ AttendanceNext
  /\ UNCHANGED <<people, enrolments, ledger, documents, node, decisions, tenants,
                 accounts, eligibility, secondFactor, focus>>

(* Handlers that assign forms share nothing that a second one at the same  *)
(* time could show.                                                        *)
EligibilityWork ==
  /\ focus = "forms" /\ EligibilityNext
  /\ Cardinality({p \in Procs : pc'[p] # "idle"}) <= 1
  /\ UNCHANGED <<people, enrolments, ledger, documents, node, decisions, tenants,
                 accounts, attendance, secondFactor, focus>>

FactorWork ==
  /\ focus = "factor" /\ FactorNext
  /\ UNCHANGED <<people, enrolments, ledger, documents, node, decisions, tenants,
                 accounts, attendance, eligibility, focus>>

Next ==
  \/ PeopleWork \/ EnrolmentsWork \/ LedgerWork \/ DocumentsWork \/ TreeWork \/ DecisionsWork
  \/ TenantsWork \/ AccountsWork \/ AttendanceWork \/ EligibilityWork
  \/ FactorWork

Spec == Init /\ [][Next]_vars

-----------------------------------------------------------------------------
(* One workflow of two steps, behind a role and a permission; nobody    *)
(* here may take the second (MCApprovalWorkflows has those who may).       *)

MCStepCount == [w \in Workflows |-> 2]
MCGate == [w \in Workflows |-> <<elder, perm>>]
MCHolds == (alice :> {elder})

MCSymmetry == Permutations(Procs) \cup Permutations(Members) \cup Permutations(Families)
=============================================================================
