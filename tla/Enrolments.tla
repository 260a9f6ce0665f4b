----------------------------- MODULE Enrolments -----------------------------
(***************************************************************************)
(* Events and their registrations, small groups, ministries and their      *)
(* memberships, and the memberships of dynamic-module records: four        *)
(* services that enrol members in something, a row per (thing, member)     *)
(* which is ended and never deleted, two of them up to a capacity.         *)
(***************************************************************************)
EXTENDS People

CONSTANTS
  Events, Groups, Ministries, Entities,  \* ids of the things one can enrol in
  Guests,                                \* event registrations without a member
  MaxCapacity                            \* bound on capacities

Things == Events \cup Groups \cup Ministries \cup Entities
Registrants == Members \cup Guests

ASSUME EnrolmentsAssumption == IsFiniteSet(Registrants)

VARIABLES
  thing,     \* id -> its row; capacity None is unlimited
  enrolment  \* id -> registrant -> "absent", "active" or "ended"

enrolments == <<thing, enrolment>>

Capacities == 1..MaxCapacity \cup {None}

EnrolmentsTypeOK ==
  /\ thing \in [Things -> [state : RowStates, capacity : Capacities]]
  /\ enrolment \in [Things -> [Registrants -> {"absent", "active", "ended"}]]

EnrolmentsInit ==
  /\ thing = [t \in Things |-> [state |-> "absent", capacity |-> None]]
  /\ enrolment = [t \in Things |-> [r \in Registrants |-> "absent"]]

Active(enrolled, t) == Cardinality({r \in Registrants : enrolled[t][r] = "active"})

Within(count, capacity) == capacity # None => count <= capacity

SetThing(t, row) == thing' = [thing EXCEPT ![t] = row] /\ UNCHANGED enrolment
SetEnrolment(t, r, s) == enrolment' = [enrolment EXCEPT ![t][r] = s] /\ UNCHANGED thing

-----------------------------------------------------------------------------
(* create: read the thing, check the member and the row, count, insert. *)

(* The capacity of an event or a group is read here and compared later. *)
Enrol(p, t, r) ==
  /\ Live(thing, t)
  /\ Enter(p, "enrol.check", [id |-> t, who |-> r, capacity |-> thing[t].capacity, uses |-> {t}])
  /\ UNCHANGED enrolments

RegisterForEvent(p, t, r) == t \in Events /\ Enrol(p, t, r)
JoinGroup(p, t, r) == t \in Groups /\ r \in Members /\ Enrol(p, t, r)
JoinMinistry(p, t, r) == t \in Ministries /\ r \in Members /\ Enrol(p, t, r)
JoinEntity(p, t, r) == t \in Entities /\ r \in Members /\ Enrol(p, t, r)

(* Mutant: the count is compared as if the new row were already in it. *)
CheckEnrolment_OffByOne(p) ==
  /\ At(p, "enrol.check")
  /\ LET fr == frame[p] IN
     /\ fr.who \in Members => Live(member, fr.who)
     /\ enrolment[fr.id][fr.who] = "absent"
     /\ Within(Active(enrolment, fr.id), fr.capacity)
  /\ Goto(p, "enrol.insert")
  /\ UNCHANGED enrolments

(* Ended rows count as "already registered"; they do not take up capacity. *)
CheckEnrolment(p) ==
  /\ At(p, "enrol.check")
  /\ LET fr == frame[p] IN
     /\ fr.who \in Members => Live(member, fr.who)
     /\ enrolment[fr.id][fr.who] = "absent"
     /\ Within(Active(enrolment, fr.id) + 1, fr.capacity)
  /\ Goto(p, "enrol.insert")
  /\ UNCHANGED enrolments

(* One row per pair, by a unique key. *)
InsertEnrolment(p) ==
  /\ At(p, "enrol.insert")
  /\ enrolment[frame[p].id][frame[p].who] = "absent"
  /\ SetEnrolment(frame[p].id, frame[p].who, "active")
  /\ Finish(p)

-----------------------------------------------------------------------------
(* update may end or revive a row, and looks at nothing but the row;       *)
(* cancel and remove end it.                                               *)

ReviveEnrolment(p, t, r) ==
  /\ AtOnce(p)
  /\ enrolment[t][r] = "ended"
  /\ SetEnrolment(t, r, "active")

EndEnrolment(p, t, r) ==
  /\ AtOnce(p)
  /\ enrolment[t][r] = "active"
  /\ SetEnrolment(t, r, "ended")

-----------------------------------------------------------------------------
(* The things themselves *)

CreateThing(p, t, c) ==
  /\ AtOnce(p)
  /\ thing[t].state = "absent"
  /\ c # None => t \in Events \cup Groups
  /\ SetThing(t, [state |-> "live", capacity |-> c])

(* The capacity may go below the number of active rows. *)
UpdateThing(p, t, c) ==
  /\ AtOnce(p)
  /\ Live(thing, t) /\ t \in Events \cup Groups
  /\ SetThing(t, [thing[t] EXCEPT !.capacity = c])

(* softDelete ends the active rows and then marks the thing deleted; the   *)
(* memberships of an entity are left alone.                                *)
DeleteThing(p, t) ==
  /\ Live(thing, t) /\ t \notin Entities
  /\ Enter(p, "thing.end", [id |-> t, uses |-> {t}])
  /\ UNCHANGED enrolments

(* Mutant: only the rows of members are ended. *)
EndAll_MembersOnly(p) ==
  /\ At(p, "thing.end")
  /\ enrolment' = [enrolment EXCEPT ![frame[p].id] =
                     [r \in Registrants |-> IF @[r] = "active" /\ r \in Members THEN "ended" ELSE @[r]]]
  /\ Goto(p, "thing.delete")
  /\ UNCHANGED thing

EndAll(p) ==
  /\ At(p, "thing.end")
  /\ enrolment' = [enrolment EXCEPT ![frame[p].id] =
                     [r \in Registrants |-> IF @[r] = "active" THEN "ended" ELSE @[r]]]
  /\ Goto(p, "thing.delete")
  /\ UNCHANGED thing

MarkThingDeleted(p) ==
  /\ At(p, "thing.delete")
  /\ SetThing(frame[p].id, [thing[frame[p].id] EXCEPT !.state = "deleted"])
  /\ Finish(p)

RestoreThing(p, t) ==
  /\ AtOnce(p)
  /\ thing[t].state = "deleted"
  /\ SetThing(t, [thing[t] EXCEPT !.state = "live"])

EnrolmentRoutes(p, t) ==
  \/ \E c \in Capacities : CreateThing(p, t, c) \/ UpdateThing(p, t, c)
  \/ DeleteThing(p, t)
  \/ RestoreThing(p, t)
  \/ \E r \in Registrants :
       \/ RegisterForEvent(p, t, r) \/ JoinGroup(p, t, r)
       \/ JoinMinistry(p, t, r) \/ JoinEntity(p, t, r)
       \/ ReviveEnrolment(p, t, r) \/ EndEnrolment(p, t, r)

ContinueEnrolments(p) ==
  \/ CheckEnrolment(p) \/ InsertEnrolment(p) \/ EndAll(p) \/ MarkThingDeleted(p)
  \/ (Fail(p) /\ UNCHANGED enrolments)

(* Members come and go while they enrol. *)
MemberSteps(p) ==
  \/ \E m \in Members : RegisterPublic(p, m) \/ DeleteMember(p, m)
  \/ ClearOnDelete(p) \/ MarkDeleted(p)

EnrolmentsChanged ==
  ChangedIn(thing, thing') \cup ChangedIn(enrolment, enrolment') \cup ChangedIn(member, member')

(* A step of handlers that are asked for things of T. *)
EnrolmentsStep(T) ==
  /\ \E p \in Procs :
       \/ ((\E t \in T : EnrolmentRoutes(p, t)) \/ ContinueEnrolments(p)) /\ UNCHANGED people
       \/ MemberSteps(p) /\ UNCHANGED enrolments
  /\ Watch(EnrolmentsChanged)

EnrolmentsSpec ==
  /\ HandlersInit /\ PeopleInit /\ EnrolmentsInit
  /\ [][EnrolmentsStep(Things)]_<<pc, frame, stale, people, enrolments>>

-----------------------------------------------------------------------------
(* Properties *)

Enrolled(t) == \E r \in Registrants : enrolment[t][r] = "absent" /\ enrolment'[t][r] = "active"

(* A new registration or membership never takes an event or a small group  *)
(* over its capacity, unless the count or the capacity had changed under   *)
(* the handler that added it. (A row that is revived may, and so may a     *)
(* lower capacity.)                                                        *)
AdmittedWithinCapacity ==
  [][\A t \in Things :
       Enrolled(t) => Within(Active(enrolment', t), thing[t].capacity) \/ t \in stale']_enrolments

(* An event, group or ministry is deleted with nobody active in it,        *)
(* whatever died between ending the rows and deleting it and whenever it   *)
(* was restored, unless a row came in between.                             *)
DeletedWithNobodyActive ==
  [][\A t \in Things :
       thing[t].state = "live" /\ thing'[t].state = "deleted"
         => Active(enrolment, t) = 0 \/ t \in stale']_enrolments
=============================================================================
