----------------------------- MODULE Attendance -----------------------------
(***************************************************************************)
(* AttendanceService: check-ins of a member, which count for one, and      *)
(* nameless head-counts. Branch, service and time of a row are one value   *)
(* here, its slot. Whether the branch and the member exist only refuses,   *)
(* and is left out.                                                        *)
(***************************************************************************)
EXTENDS Handlers

CONSTANTS
  CheckIns,   \* ids of attendance records
  Attendees,  \* members
  Slots,      \* (branch, service type, time)
  MaxCount    \* bound on a head-count

VARIABLE attendance  \* id -> its row

Names == Attendees \cup {None}
Counts == 1..MaxCount

ASSUME AttendanceAssumption == MaxCount \in Nat \ {0} /\ Same \notin Counts

AttendanceInit ==
  attendance = [x \in CheckIns |-> [state |-> "absent", who |-> None, slot |-> None, count |-> 1]]

(* The unique key also covers deleted rows, and no row without a member.   *)
(* The check before it looks at fewer rows, so the key decides.            *)
Free(x, who, slot) ==
  who # None => \A y \in CheckIns \ {x} :
                  attendance[y].state # "absent" => attendance[y].who # who \/ attendance[y].slot # slot

ResolveHeadcount(who, count) == IF who # None THEN 1 ELSE count

SetRow(x, row) == attendance' = [attendance EXCEPT ![x] = row]

RecordAttendance(p, x, who, slot, count) ==
  /\ AtOnce(p)
  /\ attendance[x].state = "absent" /\ Free(x, who, slot)
  /\ SetRow(x, [state |-> "live", who |-> who, slot |-> slot, count |-> ResolveHeadcount(who, count)])

(* Mutant: the count is settled only when the request has one. *)
CorrectAttendance_CountOnly(p, x, who, slot, count) ==
  /\ attendance[x].state = "live"
  /\ Enter(p, "attendance.write",
       [id |-> x, who |-> who, slot |-> slot, uses |-> {x},
        count |-> IF count = Same THEN Same
                  ELSE ResolveHeadcount(Or(who, attendance[x].who), Or(count, attendance[x].count))])
  /\ UNCHANGED attendance

(* update: the row is read and the count is settled on what it says, ...   *)
CorrectAttendance(p, x, who, slot, count) ==
  /\ attendance[x].state = "live"
  /\ Enter(p, "attendance.write",
       [id |-> x, who |-> who, slot |-> slot, uses |-> {x},
        count |-> IF count = Same /\ who = Same THEN Same
                  ELSE ResolveHeadcount(Or(who, attendance[x].who), Or(count, attendance[x].count))])
  /\ UNCHANGED attendance

(* ... and the fields of the request are written by id. *)
WriteAttendance(p) ==
  /\ At(p, "attendance.write")
  /\ LET fr == frame[p]  row == attendance[frame[p].id] IN
     /\ Free(fr.id, Or(fr.who, row.who), Or(fr.slot, row.slot))
     /\ SetRow(fr.id, [row EXCEPT !.who = Or(fr.who, @), !.slot = Or(fr.slot, @), !.count = Or(fr.count, @)])
  /\ Finish(p)

DeleteAttendance(p, x) ==
  AtOnce(p) /\ attendance[x].state = "live" /\ SetRow(x, [attendance[x] EXCEPT !.state = "deleted"])

RestoreAttendance(p, x) ==
  AtOnce(p) /\ attendance[x].state = "deleted" /\ SetRow(x, [attendance[x] EXCEPT !.state = "live"])

AttendanceRoutes(p) ==
  \E x \in CheckIns :
    \/ DeleteAttendance(p, x) \/ RestoreAttendance(p, x)
    \/ \E who \in Names, slot \in Slots, count \in Counts : RecordAttendance(p, x, who, slot, count)
    \/ \E who \in Names \cup {Same}, slot \in Slots \cup {Same}, count \in Counts \cup {Same} :
         CorrectAttendance(p, x, who, slot, count)

ContinueAttendance(p) == WriteAttendance(p) \/ (Fail(p) /\ UNCHANGED attendance)

AttendanceNext ==
  /\ \E p \in Procs : AttendanceRoutes(p) \/ ContinueAttendance(p)
  /\ Watch(ChangedIn(attendance, attendance'))

AttendanceSpec == HandlersInit /\ AttendanceInit /\ [][AttendanceNext]_<<pc, frame, stale, attendance>>

-----------------------------------------------------------------------------
(* Properties *)

(* A record that names a member counts for one, whichever of its fields    *)
(* was corrected, in whichever order, unless the row changed between the   *)
(* read and the write of a correction.                                     *)
NamedCountsOnce ==
  \A x \in CheckIns : attendance[x].who # None => attendance[x].count = 1 \/ x \in stale
=============================================================================
