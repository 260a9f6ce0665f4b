------------------------------- MODULE People -------------------------------
(***************************************************************************)
(* MembersService, FamiliesService, VisitorsService and the numbering      *)
(* sequence members draw from: rows that refer to each other, checked in   *)
(* one call and written in another. Branches, custom fields, contact data  *)
(* and the audit rows that follow a write are abstracted away.             *)
(***************************************************************************)
EXTENDS Handlers

CONSTANTS
  Members, Families, Visitors,  \* ids of rows, each inserted at most once
  MaxNumber                     \* bound on membership numbers

VARIABLES
  member,    \* id -> its row
  family,    \* id -> its row
  visitor,   \* id -> its row
  sequence   \* the next value of the "membership_number" sequence, or None

people == <<member, family, visitor, sequence>>

Numbers == 1..MaxNumber

ASSUME PeopleAssumption == MaxNumber \in Nat /\ None \notin Members

MemberRow  == [state : RowStates, family : Families \cup {None}, number : Numbers \cup {None}]
FamilyRow  == [state : RowStates, head : Members \cup {None}]
VisitorRow == [state : RowStates, status : {"visiting", "joined"},
               link : Members \cup {None}]

Live(rows, id) == rows[id].state = "live"

PeopleTypeOK ==
  /\ member \in [Members -> MemberRow]
  /\ family \in [Families -> FamilyRow]
  /\ visitor \in [Visitors -> VisitorRow]
  /\ sequence \in 1..(MaxNumber + 1) \cup {None}

PeopleInit ==
  /\ member = [m \in Members |-> [state |-> "absent", family |-> None, number |-> None]]
  /\ family = [f \in Families |-> [state |-> "absent", head |-> None]]
  /\ visitor = [v \in Visitors |-> [state |-> "absent", status |-> "visiting", link |-> None]]
  /\ sequence = None

SetMember(m, row) == member' = [member EXCEPT ![m] = row] /\ UNCHANGED <<family, visitor, sequence>>
SetFamily(f, row) == family' = [family EXCEPT ![f] = row] /\ UNCHANGED <<member, visitor, sequence>>
SetVisitor(v, row) == visitor' = [visitor EXCEPT ![v] = row] /\ UNCHANGED <<member, family, sequence>>

-----------------------------------------------------------------------------
(* Numbering sequences: an administrator may set the counter to any value, *)
(* and members.create draws from it.                                       *)

SetSequence(p, n) ==
  /\ AtOnce(p)
  /\ sequence' = n
  /\ UNCHANGED <<member, family, visitor>>

-----------------------------------------------------------------------------
(* Members *)

(* assertMembershipNumberFree looks at live rows only ... *)
NumberFree(n) == ~ \E m \in Members : Live(member, m) /\ member[m].number = n

(* Mutant: the unique index covers live rows only, as the check does. *)
NumberAccepted_LiveOnly(m, n) ==
  n # None => ~ \E o \in Members \ {m} : Live(member, o) /\ member[o].number = n

(* ... while the unique index covers the deleted ones too. *)
NumberAccepted(m, n) ==
  n # None => ~ \E o \in Members \ {m} : member[o].number = n

(* create, up to the checks: f and n are the family and number asked for. *)
CreateMember(p, f, n) ==
  /\ f # None => Live(family, f)
  /\ n # None => NumberFree(n)
  /\ Enter(p, IF n = None THEN "member.number" ELSE "member.insert",
           [family |-> f, number |-> n, uses |-> {}])
  /\ UNCHANGED people

(* getNext: one atomic increment, if the sequence exists. *)
DrawNumber(p) ==
  /\ At(p, "member.number")
  /\ sequence # None => sequence \in Numbers
  /\ Proceed(p, "member.insert", [frame[p] EXCEPT !.number = sequence])
  /\ sequence' = IF sequence = None THEN None ELSE sequence + 1
  /\ UNCHANGED <<member, family, visitor>>

InsertMember(p) ==
  /\ At(p, "member.insert")
  /\ \E m \in Members :
       /\ member[m].state = "absent"
       /\ NumberAccepted(m, frame[p].number)
       /\ SetMember(m, [state |-> "live", family |-> frame[p].family, number |-> frame[p].number])
  /\ Finish(p)

(* Self-registration asks for neither family nor number. *)
RegisterPublic(p, m) ==
  /\ AtOnce(p)
  /\ member[m].state = "absent"
  /\ SetMember(m, [state |-> "live", family |-> None, number |-> None])

(* update reads the row; f and n are what the caller sends, Same when it   *)
(* leaves the field out. The routes below send one of the two, so a single *)
(* call checks it.                                                         *)
UpdateMember(p, m, f, n) ==
  /\ Live(member, m)
  /\ Enter(p, "member.check",
           [id |-> m, family |-> f, number |-> n, moves |-> f \notin {Same, member[m].family},
            renumbers |-> n \notin {Same, member[m].number}, uses |-> {m}])
  /\ UNCHANGED people

(* Mutant: the old family keeps its head. *)
CheckMember_KeepHead(p) ==
  /\ At(p, "member.check")
  /\ Goto(p, "member.write")
  /\ UNCHANGED people

CheckMember(p) ==
  /\ At(p, "member.check")
  /\ LET fr == frame[p] IN
     /\ fr.family \in Families => Live(family, fr.family)
     /\ fr.renumbers => NumberFree(fr.number)
     /\ Goto(p, IF fr.moves THEN "member.clear" ELSE "member.write")
  /\ UNCHANGED people

(* clearHeadIfMember: one updateMany. *)
ClearHead(m) ==
  /\ family' = [f \in Families |-> IF family[f].head = m THEN [family[f] EXCEPT !.head = None]
                                                         ELSE family[f]]
  /\ UNCHANGED <<member, visitor, sequence>>

ClearOnUpdate(p) == At(p, "member.clear") /\ ClearHead(frame[p].id) /\ Goto(p, "member.write")

WriteMember(p) ==
  /\ At(p, "member.write")
  /\ LET fr == frame[p]
         row == member[fr.id]
         number == IF fr.number = Same THEN row.number ELSE fr.number IN
     /\ NumberAccepted(fr.id, number)
     /\ SetMember(fr.id, [row EXCEPT !.number = number,
                             !.family = IF fr.family = Same THEN @ ELSE fr.family])
  /\ Finish(p)

DeleteMember(p, m) ==
  /\ Live(member, m)
  /\ Enter(p, "member.leave", [id |-> m, uses |-> {m}])
  /\ UNCHANGED people

ClearOnDelete(p) == At(p, "member.leave") /\ ClearHead(frame[p].id) /\ Goto(p, "member.delete")

MarkDeleted(p) ==
  /\ At(p, "member.delete")
  /\ SetMember(frame[p].id, [member[frame[p].id] EXCEPT !.state = "deleted"])
  /\ Finish(p)

-----------------------------------------------------------------------------
(* Families *)

CreateFamily(p, f) ==
  /\ AtOnce(p)
  /\ family[f].state = "absent"
  /\ SetFamily(f, [state |-> "live", head |-> None])

(* setHead checks that the member is of this family and writes it. *)
SetHead(p, f, m) ==
  /\ Live(family, f)
  /\ Live(member, m) /\ member[m].family = f
  /\ Enter(p, "family.head", [id |-> f, head |-> m, uses |-> {m}])
  /\ UNCHANGED people

(* Nobody heads two families: headOfFamilyId is unique. *)
WriteHead(p) ==
  /\ At(p, "family.head")
  /\ LET f == frame[p].id IN
     /\ \A g \in Families \ {f} : family[g].head # frame[p].head
     /\ SetFamily(f, [family[f] EXCEPT !.head = frame[p].head])
  /\ Finish(p)

RemoveHead(p, f) ==
  /\ AtOnce(p)
  /\ Live(family, f) /\ family[f].head # None
  /\ SetFamily(f, [family[f] EXCEPT !.head = None])

(* The members keep their familyId. *)
DeleteFamily(p, f) ==
  /\ AtOnce(p)
  /\ Live(family, f)
  /\ SetFamily(f, [family[f] EXCEPT !.state = "deleted"])

-----------------------------------------------------------------------------
(* Visitors *)

CreateVisitor(p, v) ==
  /\ AtOnce(p)
  /\ visitor[v].state = "absent"
  /\ SetVisitor(v, [visitor[v] EXCEPT !.state = "live"])

(* Any of the statuses but joined, which are one here, at any time. *)
UpdateVisitor(p, v) ==
  /\ AtOnce(p)
  /\ Live(visitor, v)
  /\ SetVisitor(v, [visitor[v] EXCEPT !.status = "visiting"])

DeleteVisitor(p, v) ==
  /\ AtOnce(p)
  /\ Live(visitor, v)
  /\ SetVisitor(v, [visitor[v] EXCEPT !.state = "deleted"])

(* Mutant: "already converted" is taken from the status. *)
ConvertVisitor_ByStatus(p, v, m) ==
  /\ Live(visitor, v) /\ visitor[v].status # "joined"
  /\ Enter(p, "visitor.member", [id |-> v, link |-> m, uses |-> {v}])
  /\ UNCHANGED people

ConvertVisitor(p, v, m) ==
  /\ Live(visitor, v) /\ visitor[v].link = None
  /\ Enter(p, "visitor.member", [id |-> v, link |-> m, uses |-> {v}])
  /\ UNCHANGED people

CheckLink(p) ==
  /\ At(p, "visitor.member")
  /\ Live(member, frame[p].link)
  /\ \A o \in Visitors : visitor[o].link # frame[p].link
  /\ Goto(p, "visitor.write")
  /\ UNCHANGED people

(* convertedMemberId is unique. *)
WriteLink(p) ==
  /\ At(p, "visitor.write")
  /\ LET v == frame[p].id IN
     /\ \A o \in Visitors \ {v} : visitor[o].link # frame[p].link
     /\ SetVisitor(v, [visitor[v] EXCEPT !.status = "joined", !.link = frame[p].link])
  /\ Finish(p)

-----------------------------------------------------------------------------
(* TrashService.restore: the row as it was when it was deleted. *)

RestorePerson(p) ==
  /\ AtOnce(p)
  /\ \/ \E m \in Members : member[m].state = "deleted"
          /\ SetMember(m, [member[m] EXCEPT !.state = "live"])
     \/ \E f \in Families : family[f].state = "deleted"
          /\ SetFamily(f, [family[f] EXCEPT !.state = "live"])
     \/ \E v \in Visitors : visitor[v].state = "deleted"
          /\ SetVisitor(v, [visitor[v] EXCEPT !.state = "live"])

NumberRoutes(p) ==
  \/ \E n \in Numbers \cup {None} : SetSequence(p, n)
  \/ \E n \in Numbers \cup {None} : CreateMember(p, None, n)
  \/ \E m \in Members : DeleteMember(p, m)
  \/ \E m \in Members, n \in Numbers \cup {Same} : UpdateMember(p, m, Same, n)

HouseholdRoutes(p) ==
  \E f \in Families : CreateFamily(p, f) \/ DeleteFamily(p, f) \/ CreateMember(p, f, None)

FamilyRoutes(p) ==
  \/ \E m \in Members : RegisterPublic(p, m)
  \/ \E m \in Members, f \in Families \cup {None} : UpdateMember(p, m, f, Same)
  \/ \E m \in Members : DeleteMember(p, m)
  \/ \E f \in Families :
       CreateFamily(p, f) \/ RemoveHead(p, f) \/ DeleteFamily(p, f)
         \/ \E m \in Members : SetHead(p, f, m)

VisitorRoutes(p) ==
  \/ \E m \in Members : RegisterPublic(p, m) \/ DeleteMember(p, m)
  \/ \E v \in Visitors :
       \/ CreateVisitor(p, v) \/ DeleteVisitor(p, v) \/ UpdateVisitor(p, v)
       \/ \E m \in Members : ConvertVisitor(p, v, m)

ContinuePeople(p) ==
  \/ DrawNumber(p) \/ InsertMember(p)
  \/ CheckMember(p) \/ ClearOnUpdate(p) \/ WriteMember(p)
  \/ ClearOnDelete(p) \/ MarkDeleted(p)
  \/ WriteHead(p) \/ CheckLink(p) \/ WriteLink(p)
  \/ (Fail(p) /\ UNCHANGED people)

(* To be made the head of a family is a change to a member. *)
PeopleChanged ==
  ChangedIn(member, member') \cup ChangedIn(visitor, visitor')
    \cup {family'[f].head : f \in ChangedIn(family, family')}

PeopleNext ==
  /\ \E p \in Procs :
       \/ NumberRoutes(p) \/ HouseholdRoutes(p) \/ FamilyRoutes(p) \/ VisitorRoutes(p)
       \/ RestorePerson(p) \/ ContinuePeople(p)
  /\ Watch(PeopleChanged)

PeopleSpec == HandlersInit /\ PeopleInit /\ [][PeopleNext]_<<pc, frame, stale, people>>

-----------------------------------------------------------------------------
(* Properties *)

(* The head of a family is a live member of it, whatever handler died      *)
(* between clearing the head and moving the member, and whatever was       *)
(* restored since, unless the member changed, or became a head, under a    *)
(* handler that had read it (FR-MM-3.2, FR-MM-3.3 and FR-MM-1.8).          *)
HeadIsMember ==
  \A f \in Families, m \in Members :
    family[f].head = m /\ Fresh({m}) => Live(member, m) /\ member[m].family = f

(* No two members, deleted ones included, carry the same number: the check *)
(* misses deleted rows and concurrent inserts, and a restore checks        *)
(* nothing.                                                                *)
NumbersAreUnique ==
  \A m, n \in Members : m # n /\ member[m].number = member[n].number => member[m].number = None

(* A visitor is converted once: its link is never cleared, nor replaced,   *)
(* even when its status has been moved back or the visitor deleted and     *)
(* restored, unless it changed under a conversion.                         *)
LinkPinned ==
  [][\A v \in Visitors :
       visitor[v].link # None => visitor'[v].link = visitor[v].link \/ v \in stale']_visitor
=============================================================================
