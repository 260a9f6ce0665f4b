----------------------------- MODULE Eligibility -----------------------------
(***************************************************************************)
(* Forms assigned to a part of the organisation (ResourceAssignments-      *)
(* Service, FormAssignmentNotifier, EligibilityResolverService): who is    *)
(* told when a form is assigned is computed from the scope down to its     *)
(* users, and which forms a user finds in the list from the user up to its *)
(* scopes. The organisation itself is any that Init admits and does not    *)
(* change; Branches, RecordTree and Accounts have its changes.             *)
(***************************************************************************)
EXTENDS Handlers, Walks

CONSTANTS
  Readers,     \* ids of users
  Sites,       \* ids of branches
  Units,       \* ids of records of the departments module
  Persons,     \* ids of members
  Contacts,    \* ids of visitors
  Categories,  \* ids of user_category items
  MaxAssigned  \* bound on the scopes a form is assigned to at a time

ASSUME PartsAssumption ==
  /\ IsFiniteSet(Sites) /\ IsFiniteSet(Units)
  /\ None \notin Readers \cup Sites \cup Units \cup Categories

VARIABLES
  org,      \* the rows of all of these, and the leadership appointments
  assigned  \* the scopes a form is assigned to

eligibility == <<org, assigned>>

Scopes ==
  ({"user"} \X Readers) \cup ({"branch"} \X Sites) \cup ({"dynamic_module_record"} \X Units)
  \cup ({"member"} \X Persons) \cup ({"visitor"} \X Contacts) \cup ({"user_category"} \X Categories)

(* Any organisation: who belongs where, what hangs from what, what is not  *)
(* deleted and who leads what. Where rows hang from each other in a cycle, *)
(* the walk down does not end in the code and nobody is told.              *)
TreeRows(ids) == [ids -> [live : BOOLEAN, parent : ids \cup {None}]]

Organisations ==
  [reader : [Readers -> [site : Sites \cup {None}, unit : Units \cup {None},
                         category : Categories \cup {None}]],
   site : TreeRows(Sites), unit : TreeRows(Units), person : [Persons -> Sites],
   contact : [Contacts -> [live : BOOLEAN, assignee : Readers \cup {None}]],
   leads : SUBSET (Readers \X Scopes)]

EligibilityInit(organisations) ==
  /\ org \in organisations
  /\ assigned = {}

-----------------------------------------------------------------------------
(* Walks over a table of rows with a parent *)

LiveRows(rows) == {n \in DOMAIN rows : rows[n].live}

(* n and what is above it; a walk starts at a live row and ends below the  *)
(* first that is not.                                                      *)
UpTo(rows, n) ==
  Reach(DOMAIN rows, {n},
        [x \in DOMAIN rows |-> {y \in LiveRows(rows) : rows[x].live /\ rows[x].parent = y}])

(* n and the live rows below it. *)
DownTo(rows, n) ==
  Reach(DOMAIN rows, {n},
        [x \in DOMAIN rows |-> {y \in LiveRows(rows) : rows[y].parent = x}])

-----------------------------------------------------------------------------
(* resolveScopesFor, resolveResourcesFor: from the user to its forms *)

BranchScopes(u) ==
  LET b == org.reader[u].site IN
  IF b = None THEN {} ELSE {"branch"} \X UpTo(org.site, b)

DepartmentScopes(u) ==
  LET d == org.reader[u].unit IN
  IF d = None THEN {} ELSE {"dynamic_module_record"} \X UpTo(org.unit, d)

AppointmentsOf(u) == {s \in Scopes : <<u, s>> \in org.leads}

ScopesFor(u) ==
  {<<"user", u>>}
  \cup {<<"visitor", v>> : v \in {v \in Contacts : org.contact[v].live /\ org.contact[v].assignee = u}}
  \cup BranchScopes(u) \cup DepartmentScopes(u) \cup AppointmentsOf(u)
  \cup {<<"user_category", c>> : c \in {org.reader[u].category} \ {None}}

(* A form attached to a member reaches who is scoped to its branch. *)
ResourcesFor(u) ==
  {s \in assigned :
     \/ s \in ScopesFor(u)
     \/ s[1] = "member" /\ <<"branch", org.person[s[2]]>> \in ScopesFor(u)}

-----------------------------------------------------------------------------
(* resolveUsersEligibleForScope: from the scope to its users *)

UsersAt(sites) == {u \in Readers : org.reader[u].site \in sites}
Leaders(s) == {u \in Readers : <<u, s>> \in org.leads}

(* Mutant: the users of the branches below the member's are left out. *)
UsersOf_OwnBranch(s) ==
  CASE s[1] = "user"          -> {s[2]}
    [] s[1] = "visitor"       -> {org.contact[s[2]].assignee} \ {None}
    [] s[1] = "member"        -> UsersAt({org.person[s[2]]})
    [] s[1] = "branch"        -> UsersAt(DownTo(org.site, s[2]))
    [] s[1] = "dynamic_module_record" -> {u \in Readers : org.reader[u].unit \in DownTo(org.unit, s[2])}
    [] s[1] = "user_category" -> {u \in Readers : org.reader[u].category = s[2]}

UsersOf(s) ==
  CASE s[1] = "user"          -> {s[2]}
    [] s[1] = "visitor"       -> {org.contact[s[2]].assignee} \ {None}
    [] s[1] = "member"        -> UsersAt(DownTo(org.site, org.person[s[2]]))
    [] s[1] = "branch"        -> UsersAt(DownTo(org.site, s[2]))
    [] s[1] = "dynamic_module_record" -> {u \in Readers : org.reader[u].unit \in DownTo(org.unit, s[2])}
    [] s[1] = "user_category" -> {u \in Readers : org.reader[u].category = s[2]}

EligibleFor(s) == UsersOf(s) \cup Leaders(s)

-----------------------------------------------------------------------------
(* create: insert the assignment, by a unique key, then tell everybody who *)
(* is eligible; a notification that cannot be created is passed over, and  *)
(* only history tells it from one that was. A handler that dies in between *)
(* tells nobody more, and cannot be repeated: the row is there.            *)

AssignForm(p, s) ==
  /\ s \notin assigned /\ Cardinality(assigned) < MaxAssigned
  /\ Enter(p, "form.resolve", [scope |-> s, left |-> {}, told |-> {}, missed |-> {}, uses |-> {}])
  /\ assigned' = assigned \cup {s}
  /\ UNCHANGED org

ResolveUsers(p) ==
  /\ At(p, "form.resolve")
  /\ Proceed(p, "form.tell", [frame[p] EXCEPT !.left = EligibleFor(frame[p].scope)])
  /\ UNCHANGED eligibility

TellUser(p, u) ==
  /\ At(p, "form.tell") /\ u \in frame[p].left
  /\ \/ Proceed(p, "form.tell", [frame[p] EXCEPT !.left = @ \ {u}, !.told = @ \cup {u}])
     \/ Proceed(p, "form.tell", [frame[p] EXCEPT !.left = @ \ {u}, !.missed = @ \cup {u}])
  /\ UNCHANGED eligibility

AllTold(p) == At(p, "form.tell") /\ frame[p].left = {}

AnswerAssign(p) == AllTold(p) /\ Finish(p) /\ UNCHANGED eligibility

UnassignForm(p, s) ==
  /\ AtOnce(p)
  /\ s \in assigned
  /\ assigned' = assigned \ {s}
  /\ UNCHANGED org

EligibilityRoutes(p) == \E s \in Scopes : AssignForm(p, s) \/ UnassignForm(p, s)

ContinueEligibility(p) ==
  \/ ResolveUsers(p) \/ AnswerAssign(p)
  \/ \E u \in Readers : TellUser(p, u)
  \/ (Fail(p) /\ UNCHANGED eligibility)

EligibilityNext ==
  /\ \E p \in Procs : EligibilityRoutes(p) \/ ContinueEligibility(p)
  /\ Watch({})

EligibilitySpec ==
  HandlersInit /\ EligibilityInit(Organisations)
    /\ [][EligibilityNext]_<<pc, frame, stale, eligibility>>

-----------------------------------------------------------------------------
(* Properties *)

(* Where the two directions differ: the way down does not ask whether the  *)
(* row it starts from is deleted; and who leads a branch without belonging *)
(* to it finds the forms of its members and is not told of them.           *)
StartsDeleted(s) ==
  \/ s[1] = "visitor" /\ ~org.contact[s[2]].live
  \/ s[1] = "branch" /\ ~org.site[s[2]].live
  \/ s[1] = "member" /\ ~org.site[org.person[s[2]]].live
  \/ s[1] = "dynamic_module_record" /\ ~org.unit[s[2]].live

LeadsBranchOf(u, s) ==
  s[1] = "member" /\ <<u, <<"branch", org.person[s[2]]>>>> \in org.leads

(* Who is told of a form finds it in the list, and when everybody has been *)
(* told no one finds it who was not (or whose notification failed), but    *)
(* for these two cases.                                                    *)
ToldIsListed ==
  \A p \in Procs :
    At(p, "form.tell") /\ frame[p].scope \in assigned =>
      LET s == frame[p].scope  Finders == {u \in Readers : s \in ResourcesFor(u)} IN
      /\ frame[p].told \subseteq Finders \/ StartsDeleted(s)
      /\ AllTold(p) => \A u \in Finders \ (frame[p].told \cup frame[p].missed) : LeadsBranchOf(u, s)
=============================================================================
