# UCMS: a TLA+ model of the backend

UCMS is a multi-tenant church management system: a NestJS backend on Postgres
(through Prisma) and Redis (through BullMQ), with web and mobile clients. The
rules live in the backend services, `src/backend/src/*/*.service.ts`, and that is
what these modules model. Paths below are relative to that directory unless they
start with `docs/` or `prisma/`.

## 1. The system

### What makes it hard

A service method is an `async` function that awaits one database call after
another. **No service uses a transaction**, but for `TenantsService.hardDelete` and
the writing of custom field values. Every `await` is therefore a point where another
request runs, and where the handler may die with half of its writes done. The
transaction of `hardDelete` keeps the second from happening and not the first: it is
some fifty statements long and runs at READ COMMITTED. What a handler read is stale by the time it
writes, and most updates name a row by id only. The database protects what a
unique key or a foreign key says, and nothing else. The audit log, which for
approvals is the only history there is, is written by a call of its own after the
fact. The modules are built on this: an action is one database call, never one
handler.

### Inventory

| component | state | operations | talks to | what makes it correct |
|---|---|---|---|---|
| Approval workflows (`approval-workflows/`) | workflows with ordered, gated steps; one request per entity | create, remove, restore, startRequest, decide | called by hierarchy requirements, members, dynamic modules; its own approve/reject routes | no step skipped or decided by one who does not hold its gate; a verdict is final; the log tells the truth |
| Deadlines (`deadlines/`) | one row per entity; "locked" is derived from the clock | create, extend, close, reopen, assertOpen | called by hierarchy requirements | closed stays closed, whatever extension was under way |
| Hierarchy requirements (`hierarchy-requirements/`) | requirements, submissions | create, update, softDelete, createSubmission, submit, decide | engine and deadlines, joined only by the submission's id | three rows in three tables agree |
| Sessions (`auth/`, `security-settings/`) | account flags, refresh tokens, reset tokens, MFA secret | login, switchTenant, refresh, logout, logoutAll, revokeSession, forgotPassword, resetPassword; setupMfa, enableMfa, disableMfa; verification, registration | users, notifications | a lock holds; a token is good for one refresh; a reset link is good once; nobody is locked out by a secret they never confirmed |
| Users (`users/`) | account flags, roles, department | create, update, lock, unlock, activate, deactivate, forcePasswordReset, softDelete, assignRoles, moveDepartment | sessions | as above; deleted is inactive; the roles are those of one request; a leader stays within the own department |
| Notifications and queue (`communication/`, `queue/`) | notification rows, BullMQ jobs | create, enqueue, process | mail gateway, called by most services | the row says what happened; every job settles |
| Trash (`trash/`) | `deletedAt` of 19 models | restore | all of them | a restored row is usable |
| Branches (`branches/`, `common/branch-scope/`) | tree of branches, headquarters flag | create, update, move, deactivate, softDelete, findTree, findAncestors, findDescendants | eligibility, scoping | a tree, with one headquarters |
| Eligibility (`common/eligibility/`, `resource-assignments/`) | assignments | resolveScopesFor, resolveResourcesFor, resolveUsersEligibleForScope | branches, dynamic modules | the two directions of the resolver agree |
| Members, families, numbering (`members/`, `families/`, `numbering-sequences/`) | members, family heads, counters | create, decideRegistration, setHead, clearHeadIfMember, getNext | approval engine | the head is a member; numbers are unique |
| Visitors (`visitors/`) | visitors, activities, groups | convertToMember and CRUD | members | converted once |
| Events and small groups (`events/`, `small-groups/`) | registrations, memberships | register, update, cancel; join, update, remove | members | capacity is kept; nothing is deleted with somebody active in it |
| Dynamic modules (`dynamic-modules/`) | definitions, records, status history | create, update, changeStatus, hierarchy | approval engine, custom fields | the history accounts for the status; a shown verdict was given; a move closes no cycle |
| Tenants and scoping (`tenants/`, `prisma/`, `common/middleware/`) | tenants; the tenant of a call | create, suspend, softDelete, hardDelete; the Prisma extension | everything | a purge removes a tenant in the trash with all of its rows |
| Roles and permissions (`roles/`, `permissions/`, `common/guards/`) | roles, permissions | CRUD, guard | users | |
| Audit log (`audit/`) | append-only rows | record | everything | |
| Documents, assets, storage (`documents/`, `assets/`, `storage/`) | rows beside stored files | create, createBatch, replaceFile, softDelete; uploads | | no file a document pointed at is lost |
| Ministries, departments, leadership | rows | CRUD | members, users | unique keys; as for events |
| Finance, attendance, HR, payroll (`finance/`, `attendance/`, `hr/`) | payments, contributions, check-ins, staff | create, update, markPaid, cancel; create, void; create, update, softDelete | members | amounts add up; what is settled is fixed; a named check-in counts for one |
| Configuration, custom fields, menus, reports, forms | lookup tables, read-only queries | CRUD | | |
| Web and mobile clients | presentation | | the backend's API | |

`PROJECT.json` lists the source files of each, what is modelled of it, and, under
`hazards`, every place we know of where it is hard to test.

## 2. The modules

### Conventions

`Procs` are the HTTP requests being handled at one time. `pc[p]` is the database
call that handler `p` makes next and `frame[p]` holds its locals (`call[p]` those
of a calling service). The first read of a handler is the action that starts it;
each later call is an action. `Fail(p)` ends a handler between any two calls: the
process is restarted, the connection is lost, or the next call throws. A refusal
(`throw`) before anything is written is either a step back to `idle` or an action
that is not enabled. A handler whose only write is its last call, and whose earlier reads
cannot be told from a read at the moment of the write, is one action, with a
comment that says so. A definition whose name ends in `_Something` is a mutant: a
plausible bug, never used by a specification; exchanging it for the definition it
is named after breaks a property.

### ApprovalChain, ApprovalWorkflows

`ApprovalChain` is the promise, from `docs/governance/functional-requirements.md`:
a request walks a linear chain, each approval by one who holds the gate of the
current step, and a closed request never changes. `ApprovalWorkflows` is the
engine as written: `startRequest` is `StartFind`, `StartWorkflow`, `StartInsert`
(the unique key refuses the second insert); `decide` is `DecideRead`,
`DecideUpdate`, `DecideAudit`. `decided` is history: the decisions whose update
committed, whether or not their audit row was written. The operators that start a
call take the label to return to, so that a calling service can be composed with
the engine on the same `pc`.

### Deadlines

`effectiveStatus` is derived from a clock that ticks up to `MaxTime`. `extend`,
`close` and `reopen` each are a read with its check, an update by id, and the
audit call.

### HierarchyRequirements

`AW` and `DL` are instances of the two modules above with submissions for
entities; their rows, and the handlers' `pc` and `frame`, are shared.
`createSubmission` inserts and then runs the engine's `startRequest` as a
subroutine; `submit` asks `DL!IsOpen` and then writes by id; `decide` runs the
engine's `decide` and then copies the verdict. The generic approve/reject routes
and every deadline route run beside it on the same rows.

### AuthSessions

The sessions of one user. A token is its position in the order of creation;
`age` makes it idle (beyond `inactivityLogoutMinutes`) or expired. `issueSession`
is three calls when the tenant limits concurrent sessions (count, revoke the
oldest, insert) and one otherwise or on a rotation. `refresh` is find, the check
of the user, the insert, and the revocation by id. `lock`, `forcePasswordReset`
and `resetPassword` end with the sweep `RevokeAll`. `parent` and `applied` are
history. Passwords and MFA are not modelled: a wrong one changes nothing.

### NotificationQueue

The row is in Postgres, the job in Redis, the message at the gateway. `create` is
`Insert` and `Enqueue`; `process` is `Send`, then `MarkSent` or, from the one
`catch` that spans both, `MarkFailed`. BullMQ is external and modelled from the
options the code passes (3 attempts, backoff) and its default of one recovery of
a job whose worker died. `sends` counts what the gateway delivered, `faults` the
database errors and worker deaths a job met.

### Walks

What a loop over rows that refer to each other finds: `Reach(A, start, next)` begins
with `start` and adds, in as many rounds as there are rows in `A`, the rows `next` to
those it has. `Branches`, `RecordTree` and `Eligibility` walk up and down with it. The
code's loops differ in how they keep their queue and whether they remember what they
have seen; what they return, where they return, is this set.

### Branches

The tree. `create` and `update` clear the headquarters flag of the other branches
in one call and set it in the next. `move` finds both branches and then walks up
from the new parent, one action per row (`MoveWalk`), before it writes the parent by
id. `deactivate` and `softDelete` find the descendants and then write them all.
`restored` is history: the branches that came back from the trash. The other
traversals are walks (`Walks`, below): `UpFrom` ends by its visited set,
`NeverEnds` says when `findDescendants`, which keeps none, does not return, and
no operation that calls it is taken there. A set of live branches is `Closed` when
no parent leads out of it, which is what a cycle is. `ScopesOf` and `ReachedBy`
are the two directions of the eligibility resolver, as far as they are about
branches.

`ApartSpec` is `Spec` while no two moves overlap, and no two handlers that set the
flag. Outside of it both properties are lost at once (two moves, each below the
branch of the other; two creations, each having cleared the flag of the others):
nothing in the code or the database stands against it. Inside of it the question is
what all the other handlers, crashes and the trash can do.

### Handlers

The base of the modules below. `Enter`, `Proceed`, `Goto` and `Finish` are the
moves of a handler between its calls, `AtOnce` a handler of one call. A check that
throws is the guard of its step: where it does not hold, only `Fail` is left.

Almost every property of a service with check-then-write handlers fails as soon as
a row changes between the two, and saying only that would be of no use. So
`frame[p].uses` names the rows that the writes of a handler rely on, and `Watch`,
conjoined to every step, collects in the history variable `stale` the rows that
changed **under a handler that uses them**. A property reads "... unless the row is
in `stale`": with crashes, restores, sequences of any length and overlaps on *other*
rows, nothing else breaks it. `stale` only grows, guards nothing, and is set by the
steps of all handlers alike.

### People, Enrolments

`People` has members, families, visitors and the numbering sequence.
`members.update` is `UpdateMember` (read), `CheckMember` (the number, and whether
the family changes), `ClearOnUpdate` (`clearHeadIfMember`, a call of its own) and
`WriteMember`; `softDelete` and `setHead` are split in the same way, and
`create` draws a number (`DrawNumber`, one atomic increment) before it inserts.
`NumberFree` is the check, which looks at live rows, `NumberAccepted` the unique
index, which looks at all. `convertToMember` reads the visitor, checks the member
and writes the link.

`Enrolments` has what members enrol in: events, small groups, ministries and
records of dynamic modules, four services of the same shape. `Enrol` reads the thing
with its capacity, `CheckEnrolment` counts, `InsertEnrolment` inserts; `DeleteThing`,
`EndAll`, `MarkThingDeleted` are `softDelete`.

### Ledger, Attendance

`Ledger` is payroll and contributions. An update computes the net amount from the
row it read and the fields that were sent, and writes only those fields
(`Same` is a field left out, `Or` its value after the write). `Attendance` settles
the head-count in the same manner. The unique key of attendance also covers deleted
rows, which the check before it does not look at: recording somebody again after a
deletion fails on the key.

### Documents

Files in an object store beside rows that point at them. `replaceFile` is
`ReplaceFile` (read), `SnapshotVersion`, `UploadReplacement`, `WriteReplacement`;
`createBatch` alternates `UploadBatch` and `InsertDocument`. `pointedAt` is history.
Two uploads of one name within a millisecond would build the same key; `NewKey`
takes that for impossible.

### RecordTree, RecordDecisions

`RecordTree` is the hierarchy of the records of one dynamic module, which
departments are too: `MoveNode` checks the live descendants, `WriteParent` writes by
id. `WalkEnds` keeps moves off a cycle, on which the code's loop never ends.
`RecordDecisions` has the two other clients of the engine, `changeStatus` and
`decideRegistration`, over an instance `AW` of `ApprovalWorkflows`. The engine's
calls are its own actions, on handlers that are shared; `engine` holds their locals
and `frame` those of the client. `SetGate` may change the workflow of the module
while decisions are under way.

### Tenants

The life of a church. `Bootstrap` names its first rows, inserted one call at a time
by `BootstrapRow`; `FillTable` is any other service inserting a row, which needs the
rows it refers to and not a church that is live: an access token outlives its
church's suspension. The purge reads the church (`HardDelete`), opens its transaction
with an update of all users (`BeginPurge`, at which a second purge waits), deletes
table by table (`PurgeTable`, one step for each `deleteMany`, all 45 of them in
`PurgeOrder` as the code lists them), and ends with the church and the commit
(`PurgeChurch`); `TenantsFail` is a handler that dies, with its rollback. `rows` is
what is committed and `doomed` what the open transaction has deleted, so that
`Left(t)` is what the next statement finds: rows that others insert between two
deletes are there. `References` are the required foreign keys, and `Refusing` the
tables whose rows forbid a delete. `late` is history: tables filled after the purge
under way had emptied them. Two tables with a `tenantId` are `Forgotten` by
`hardDelete`, `TenantSecuritySettings` and `LeadershipAppointment`.

### Accounts, SecondFactor

`Accounts` has the rows of users, their department, and their roles. An operation
starts with `Resolve` (findOne), goes through `CheckDelegate` when the caller is a
department leader rather than an administrator, and writes by id. `assignRoles` is
`AssignRoles`, `CheckDelegate`, `CheckDelegable`, `DeleteGrants`, `InsertGrants`.
`SecondFactor` is MFA: `SetupMfa` writes a secret at once, `EnableMfa` and
`DisableMfa` check a code against the secret they read and write by id. `confirmed`
and `reissued` are history.

### Eligibility

The whole of the resolver, over an organisation that does not change: `ScopesFor`
and `ResourcesFor` go up from the user, `EligibleFor` goes down from the scope, and
they are written separately here as in the code. `AssignForm`, `ResolveUsers`,
`TellUser` are the assignment with its fan-out of notifications. `Organisations` are all
that the rows of the schema allow; the runs take small ones. The two ways differ in two
cases, which `ToldIsListed` names: the way down does not ask whether the row it starts
from is deleted, and who leads the branch of a member without belonging to it finds
the member's forms and is not told. `Branches` has the same two directions over a
tree that changes.

### MCServices

These modules share the handlers and, but for `People` and `Enrolments`, no rows.
`MCServices` extends them all and `focus` picks, once and for all, the workload of a
behaviour: the routes that are called. The state spaces add up instead of
multiplying. Crashes, continuations and restores are part of every workload.

## 3. Model checking

| run | module, instance | question | distinct states |
|---|---|---|---|
| `approvals` | `MCApprovalWorkflows`: one entity, a two-step and a one-step chain, three users, two handlers | with every overlap of two handlers and every crash, is a step skipped, a gate passed, a false audit row written, a request replaced? | 135 thousand |
| `approvals_serial` | the same | while decisions on an entity do not overlap, does the engine implement `ApprovalChain`? | 6 thousand |
| `unreject` | the same | *violation*: may a rejected request become approved? | |
| `submissions` | `MCHierarchyRequirements`: one submission, a one-step chain, two handlers, one clock tick | do submission, request and deadline stay consistent in the ways the code can keep? | 2 million |
| `submission_mirror` | the same with a two-step chain | *violation*: do submission and request agree? | |
| `sessions` | `MCAuthSessions`: three tokens, a limit of one session, two handlers | does a lock hold, does a rotation spare other sessions, does a used reset link mean a new password? | 2.3 million |
| `refresh_replay` | the same without limit | *violation*: is a token good for one refresh? | |
| `notifications` | `NotificationQueue`: an email and a stubbed message, two workers, two faults per job | is the row right, how often is a message sent, does every job settle? | 64 thousand |
| `branch_tree` | `MCBranches`: three branches, two handlers, `ApartSpec` | while moves do not overlap, and flag setters neither, is there one headquarters, do cycles need the trash, does the tree show every active branch, do the two directions of the resolver agree? | 1.1 million |
| `branch_cycle` | the same with one handler | *violation*: do moves make no cycle? | |
| `purge_refused` | `Tenants`: one church, one handler, the two forgotten tables and two others | *violation*: do foreign keys never refuse a purge? | |
| `services` | `MCServices`: two handlers, one of twenty-two workloads each behaviour | what do check-then-write handlers keep, with crashes, restores and every overlap, of rows that did not change under them? | 667 thousand |

Why the bounds are enough. Every hazard listed needs two handlers: one that read,
and one that writes before the first does. A third could only take the place of
either, and a handler that has ended can start again, so sequences of any length
of stale writes are covered by two. One entity (submission, deadline) is enough,
as no operation reads the row of another. Two steps make a chain on which a stale
decision moves the request back, skips or runs past the end. Three tokens are a
login, its rotation and a second rotation or login; the limit of one session is
where a rotation that counts evicts somebody. Three attempts are the code's own
constant; two faults allow a second worker death, which exceeds `MaxStalled`.
Three branches are a branch, its parent and the parent of that: the shortest chain
on which a walk has a row to look at after the first, and on which a branch in
between can be deleted while both ends stay.

`services` has two handlers for the same reason. Two members and two families are a
head and the one that replaces it, a family left and a family joined; two numbers
suffice for one that is drawn and one that is typed in or restored. A capacity of one
with two registrants is full and overrun. Two documents and three keys are a file, its
replacement and another upload at the same time. Three records are the shortest
chain whose ends can be joined behind a check of the children. The workflow has two
steps, the first of which the only user may take, so that a status is set while its
request is pending. Two history rows are the first and one more. Two tables
filled by others, rows that came late among them, are a row and one that refers to it;
the tables that are not in `Filled` repeat the shape of one that is (a table that
nothing refers to, or one with leaves that refer to it). Two accounts are a leader and a target; of two roles
one is of the system. Two check-ins may take one slot. The organisations of
`Eligibility` are all of: three branches in a chain or two below one, two
departments, any of them deleted, users and members anywhere, one appointment or
none. Amounts, counts and numbers go to two, where a sum can fail to add up. One
handler at a time assigns a form, as handlers share only the unique key.

`CHECK_DEADLOCK FALSE` is used where the system really may stop:
`NotificationQueue`, once every notification was inserted and every job settled, and
`services`, once all ids of a workload are used up (after a purge, say, or when
every secret was drawn).

### Fairness

Only `NotificationQueue` claims liveness, under weak fairness of: a worker taking
a waiting job (workers poll), each step of a job in hand (an awaited call
returns, or its worker dies), the end of a backoff, and the stalled check, both
of which BullMQ runs from timers. Creating a notification and handing it to the
queue are not fair: a crash in between leaves a row `queued` that nothing looks
for, and no property claims otherwise. HTTP handlers elsewhere get no fairness, as a
client may never come back.

### Findings

Each is a run that TLC finds violated, with the text it contradicts quoted in
`PROJECT.json`.

1. **A rejection can be undone** (`unreject`). Two overlapping decisions both
   read `pending`; the second update, by id, overwrites the first. The docs say
   there is no way to un-reject.
2. **A submission can stay `approved` while its request is rejected**
   (`submission_mirror`). The first of two approvals is already copied as the
   verdict, and the generic reject route does not touch the submission.
3. **A church that has security settings or an appointed leader cannot be purged**
   (`purge_refused`). `hardDelete` forgets the two tables, and the foreign keys refuse
   the delete of its users or of the church, although its comment says that every row is
   wiped and that no delete is rejected. One request at a time suffices. With two there
   is a second cause, which `PurgeOnlyUndercut` names: a row inserted under the purge,
   by a user whose token is still good, into a table that it has emptied. That one goes
   away with the next attempt, the first one does not.
4. **One refresh token can be redeemed twice** (`refresh_replay`). Two
   overlapping refreshes, or a retry after a crash, both find it unrevoked.
5. **A branch can become its own ancestor** (`branch_cycle`), and one handler at a
   time is enough. The walk of `move` stops at a deleted row, so a branch may be
   moved below what used to be its own descendants; restoring the row in between
   closes the circle. `findDescendants` of a branch on it never returns.

Seen and not stated as a property, as the code is what the documents ask for or
nothing asks for more: attendance that was deleted cannot be recorded again; users of a
form are left untold when the handler dies in between, and the retry is refused. Or
because a property would repeat one line of the code: an extension takes any date
(`deadlines/deadlines.service.ts:75`), where
`docs/governance/functional-requirements.md:70-72` says that "dueAt moves forward". A
church that is restored between the read of a purge and its transaction is purged while
it is live, by two calls that overlap (`tenants/tenants.controller.ts:89` rules it out
for one call); `PurgeOnlyUndercut` excepts it. One more contradicts a text: `setupMfa` (`auth/auth.service.ts:335`) replaces the secret
also when MFA is enabled, so that login at once asks for codes of a secret nobody has
confirmed, where `docs/functional-requirements.md:45-46` has it "unenforced until
confirmed". `EnforcedIsConfirmed` names that case as its exception.

## 4. Proofs

Each theorem is for any sets of entities, users, handlers and so on, any lengths
of chains and any values of the bounds, from the named assumptions only. TLC
evaluates those assumptions on every run.

| module | from | theorem | statement |
|---|---|---|---|
| `ApprovalWorkflowsProofs` | `ChainAssumption`, `GateAssumption` | `TypeCorrect` | `Spec => []TypeOK` |
| | | `GateNeverSkipped` | `Spec => []CurrentStepExists` |
| | | `NoStepSkipped` | `Spec => []StepsVouched` |
| | | `AuditTrue` | `Spec => []AuditIsTrue` |
| | | `StartIsIdempotent` | `Spec => RequestPinned` |
| | | `SerialImplementsChain` | `SerialSpec => ChainSpec` |
| `HierarchyRequirementsProofs` | `SubmissionAssumption`, `ServiceAssumption` | `TypeCorrect` | `Spec => []TypeOK` |
| | | `RowComesFirst` | `Spec => []RequestHasSubmission` |
| | | `VerdictsGrounded` | `Spec => []VerdictIsGrounded` |
| | | `SubmittedFirst` | `Spec => PendingIsSubmittedFirst` |
| | | `ClosedFreezes` | `Spec => ClosedIsFrozen` |
| | | `ClosedStays` | `Spec => ClosedStaysClosed` |
| | | `EngineImplemented` | `Spec => AsEngine!Spec` |
| | | `DeadlinesImplemented` | `Spec => AsDeadlines!Spec` |
| `AuthSessionsProofs` | `LimitAssumption`, `RowAssumption` | `TypeCorrect` | `Spec => []TypeOK` |
| | | `ResetsTakeEffect` | `Spec => []UsedResetTookEffect` |
| | | `RotationsLinked` | `Spec => []ReplacementContinues` |
| | | `LocksHold` | `Spec => LockHolds` |
| | | `RotationsSpareOthers` | `Spec => RotationSparesOthers` |
| `NotificationQueueProofs` | `QueueAssumption` | `TypeCorrect` | `Spec => []TypeOK` |
| | | `SentIsTrue` | `Spec => []SentMeansDelivered` |
| | | `NothingSwallowed` | `Spec => []CompletedMeansSent` |
| | | `DeliveriesBounded` | `Spec => []SendsAreBounded` |
| `BranchesProofs` | `RootAssumption` | `TypeCorrect` | `Spec => []TypeOK` |
| | | `SingleHeadquarters` | `ApartSpec => []OneHeadquarters` |
| | | `TreeButForTrash` | `ApartSpec => []CyclesGoThroughTrash` |
| | | `ResolversMeet` | `Spec \/ ApartSpec => []ResolversAgree` |
| | | `ActiveAreShown` | `ApartSpec => []TreeShowsActive` |
| `WalksProofs` | | `Reached` | `Reach` is the least set with `start` that is closed under `next` |
| `ServicesProofs` | `PeopleAssumption`, `EnrolmentsAssumption`, `NodesAssumption`, `PartsAssumption` | `PeopleTypeCorrect` | `PeopleSpec => []PeopleTypeOK` |
| | | `HeadStaysMember` | `PeopleSpec => []HeadIsMember` |
| | | `NumbersStayUnique` | `PeopleSpec => []NumbersAreUnique` |
| | | `LinkStays` | `PeopleSpec => LinkPinned` |
| | | `EnrolmentsTypeCorrect` | `EnrolmentsSpec => []EnrolmentsTypeOK` |
| | | `AdmissionsStayWithin` | `EnrolmentsSpec => AdmittedWithinCapacity` |
| | | `DeletedEmpty` | `EnrolmentsSpec => DeletedWithNobodyActive` |
| | | `MovesStayAcyclic` | `TreeSpec => MovesCloseNoCycle` |
| | | `ToldAreListed` | `EligibilitySpec => []ToldIsListed` |
| `RecordKeepingProofs` | `LedgerAssumption`, `AttendanceAssumption`, `RecordAssumption`, `FilledAssumption` | `LedgerTypeCorrect` | `LedgerSpec => []LedgerTypeOK` |
| | | `NetAddsUp` | `LedgerSpec => []NetIsDifference` |
| | | `SettledStays` | `LedgerSpec => SettledIsFixed` |
| | | `NoFileIsLost` | `DocumentsSpec => []FilesAreKept` |
| | | `NamedCountOne` | `AttendanceSpec => []NamedCountsOnce` |
| | | `DeletedStaysOut` | `AccountsSpec => []DeletedIsInactive` |
| | | `RolesComeAtOnce` | `AccountsSpec => RolesOfOneRequest` |
| | | `LeadersStayWithin` | `AccountsSpec => DelegatesStayWithin` |
| | | `EnforcedAfterConfirmed` | `FactorSpec => []EnforcedIsConfirmed` |
| | | `PurgesOnlyUndercut` | `TenantsSpec => []PurgeOnlyUndercut` |
| | | `VerdictsAreBacked` | `DecisionsSpec => []VerdictIsBacked` |
| | | `HistoryExplains` | `DecisionsSpec => []StatusIsInHistory` |
| | | `DecisionsUseEngine` | `DecisionsSpec => AsEngine!Spec` |

None of these properties is inductive by itself: they speak of rows, and what a
handler writes into a row depends on what it read some calls earlier. Each
inductive invariant `IInv` therefore says of the locals of the handlers in flight
what the property says of rows.

* **ApprovalWorkflows.** A request stands on a step of its chain only because
  every handler about to write read it there and still names the workflow the
  request has; a step is vouched for only because the handler that will write
  holds its gate and every step before the one it read is vouched for already.
  What carries this through the stale writes is that `decided` only grows and a
  request never changes its workflow: what was true of a row when it was read is
  still true when it is written. The refinement needs one fact more, which
  `SerialSpec` gives: the handler about to update is alone, so that what it read
  is what is there.
* **HierarchyRequirements** and **AuthSessions.** `Knows` says what a handler at a
  given call may rely on: that the submission whose request it is about to start
  has been inserted, that the verdict it is about to copy was given, that the
  password of the reset link it is about to use up was written. `Grows` lists what
  steps never take away (decisions, the existence of rows, the workflow of a
  request, the parent of a token), and `StillKnows` shows once and for all that a
  step that `Grows` costs no handler its knowledge; what remains for each action
  is the handler that moves and the row it writes. The proof for
  `HierarchyRequirements` is of the whole composition, with the actions of the
  engine and the deadlines on the shared handlers.
* **NotificationQueue.** `Tally` accounts for each delivery by a failed attempt, a
  recovery or the attempt in hand; `Honest` says what a worker about to write has
  seen. That a job has at most one worker (part of `TypeOK`) makes the account
  add up.

* **Branches.** `FlagCleared` says that a handler about to set the flag finds no
  other set. `Climbed` says of a move that the rows `V` it has seen lead nowhere but
  to rows of `V`, to the row it looks at next, or through a row that has been in the
  trash; what was seen deleted either still is or is in `restored`, so creations,
  deletions and restorations between the reads take nothing from it
  (`ClimbedKept`). When the walk has ended, a cycle through the branch that moves
  would, cut down to `V`, have been a closed set before the write
  (`WriteMakesNoCycle`). No induction along paths is needed, which is why the
  property speaks of closed sets. A new branch makes no cycle because no branch has
  it for a parent yet, which is part of `TypeOK`.

* **The services.** `ServicesProofs` begins with what all of them need: what a step does to
  the handler that takes it and not to the others (`Moved`), and two lemmas about
  `stale`: a row that is fresh after a step was fresh before it (`FreshBefore`), and
  the step did not change it under a handler that uses it (`Unwatched`). Each service
  then has a predicate on the label and the locals of a handler (`PeopleKnow`,
  `EnrolmentsExpect`, `Knows`, `FilesHold`, `Expects`, `Relies`, `Shown`), of the form "the rows I use are stale or still are as
  I found them", and one lemma that steps of others keep it (`StillKnows` and so on),
  which is those two. The property follows at the write. Shapes of rows (`TypeOK` and
  its like) are parts of the invariants; the older components state them as theorems
  `TypeCorrect` and their runs no longer check them. The composition in `MCServices`
  adds no steps: each workload takes steps of one service's specification.

* **Walks.** What a recursive function computes is proved by induction, and the
  library states induction for an operator that a proof would have to instantiate,
  which these provers cannot. `WalksProofs` states it for a set instead
  (`LeastNumber`, from the theorem that finite sets are well founded, and
  `NumbersAllIn`), which is enough to unfold `seen` and to show that it stops growing
  after `Cardinality(A)` rounds. `Reached` then says what every later proof needs
  and no more: the walk finds the *least* closed set. Two walks are compared by giving
  each a closed set made from the other. `ResolversMeet` is `UpMeetsDown`: the
  rows from which `a` is reached upwards are closed downwards, and the other way
  round. `ActiveAreShown` takes the rows above an active branch that is not shown:
  if none were restored they would be a closed set of live branches, which
  `CyclesGoThroughTrash` excludes. `MovesStayAcyclic` needs of a handler
  about to write a parent that some set has all fresh records below the one that
  moves, and not that parent (`Apart`): the descendants it found, whatever was created
  or moved since. A fresh cycle after the write, less that set and the record itself,
  would have been a closed set before the write (`WriteClosesNone`). `ToldAreListed`
  needs little of the handlers, as the organisation does not change: it is that who is
  eligible finds the form (`ToldFinds`) and that who finds it is eligible
  (`FinderIsEligible`), for each kind of scope.
* **Tenants.** `ChildrenFirst` goes through the required foreign keys once: a table that
  must refer to another has its turn before it, or never. What the others do meanwhile
  is in three invariants: a handler between two deletes knows that its church was in the
  trash, or it is stale (`KnowsChurch`); a church is under one purge at a time
  (`PurgesApart`), without which the rollback of one would bring back what the other
  deleted; and of the tables that had their turn, those that are not empty were filled
  late (`EmptiedStay`). The last is what an insert between two deletes has to keep
  (`InsertKeeps`). So a table whose rows refuse a delete had its turn and was filled
  after it, or never has one.
* **RecordDecisions.** `KnowsDecision` has both frames of a handler: the client's
  (`Fits`: which row, which verdict, where it goes on) and the engine's (`GateHeld`: the
  step it read exists and its gate is held). While the engine works for a client the two
  name the same row and verdict. Nothing a verdict rests on is ever taken back
  (`Accrues`: decisions, audit rows and histories grow, a request keeps its workflow),
  so a handler that was answered keeps its right to write however late it writes.

* **The compositions.** The engine has two users, the routes of submissions and the
  decisions on records, and the deadlines have one. `EngineImplemented`,
  `DecisionsUseEngine` and `DeadlinesImplemented` show that each composition keeps the
  specification of the component it uses: `AsEngine` and `AsDeadlines` are instances of
  `ApprovalWorkflows` and `Deadlines` in which a handler outside of the component is idle,
  and one inside of it is to return to nobody. A step of a caller is then a stutter, and
  its calls of `StartFind` and `DecideRead` are the component's own first steps. The mapping needs one fact that no other proof does: the workflow with
  which a request is opened exists, if only in the trash (`WorkflowsExist`,
  `WorkflowsKnown`), since a specification of the engine on its own opens requests with
  no other. So what `ApprovalWorkflowsProofs` shows of the engine, from
  `ChainAssumption` and `GateAssumption`, is true of its requests in both compositions;
  the prover cites no theorem through an instance, so the reader draws this conclusion.

Every safety property of a passing run is a theorem. Two stay with TLC,
`HandedOverIsReported` and `JobsSettle`: they are liveness under fairness, for which one
must reason about ENABLED, and that is out of the prover's reach. So do the five
violations, which are counterexamples. No module uses a `RECURSIVE` operator.

## 5. What is not modelled

* The web and mobile clients, `src/frontend` and `src/mobile`, which are more than
  half of the program's lines: pages that show what the backend answers. Their
  session store (`frontend/lib/api.ts`) is a copy of the tokens in each tab.
* Queries that change nothing: reports, my-forms, lists, exports, and the scoping of
  lists by branch, department and leadership. Rules of who may see what only filter.
* Tenant scoping. Every module is one tenant, with ids that no other has.
* Lookup tables under a unique key: configuration, feature toggles, custom-field
  definitions, menu items, hierarchy levels, notification templates, staff, visitor
  groups, leadership appointments. Their handlers check and insert once, and the key
  decides; no property speaks of them. The values of custom fields are data.
* Registration and e-mail verification, which gates nothing, and the mail texts. The
  check of access tokens (`JwtStrategy.validate`) is the guard `MayCall` in
  `Accounts`; what a token's permissions allow only refuses.
* Audit rows, but for those of approvals and status changes. Nothing reads them.
* A BullMQ worker that is alive but slow enough to lose its lock: the job would
  run twice at the same time. The recovery of a dead worker's job is modelled.
* What a branch must match before a submission is opened for it, and the
  notification of roles afterwards: they refuse or follow, and change no row
  modelled here.
* Seeds, migrations, DTOs and controllers, but for the routes that say which inputs
  and which callers a handler can have.

That is why `map` covers the services and the schema, and little of the rest: all
service classes together are less than a quarter of the implementation's lines.

## 6. Plan

In order of what is at stake:

1. A refinement for the services: a specification in which a handler is one step, and
   that the handlers implement it on rows that are not `stale`.
2. Dynamic-module definitions beyond their workflow: permissions and read scopes of
   records that change while records are read and moved.
3. The session store of the web client over `AuthSessions`: two tabs, one of them with
   a token that is no longer good.
