--------------------------- MODULE ServicesProofs ---------------------------
(***************************************************************************)
(* What every service's proofs need of the handlers, and then three of the *)
(* services, for any number of rows and of handlers: members with their    *)
(* families, visitors and what members enrol in; the trees of records;     *)
(* and who is eligible for a form.                                         *)
(***************************************************************************)
EXTENDS Enrolments, RecordTree, Eligibility, WalksProofs

-----------------------------------------------------------------------------
(* The handlers: what a step does to the handler that takes it, that it    *)
(* leaves the others alone, and what it means for a row that it is not     *)
(* stale.                                                                  *)

HandlersOK ==
  /\ pc = [p \in Procs |-> pc[p]]
  /\ frame = [p \in Procs |-> frame[p]]

Others(p) == \A q \in Procs \ {p} : pc'[q] = pc[q] /\ frame'[q] = frame[q]

(* p goes on at label l with the locals f. *)
Moved(p, l, f) == HandlersOK' /\ pc'[p] = l /\ frame'[p] = f /\ Others(p)

LEMMA Begun == HandlersInit => HandlersOK /\ \A p \in Procs : pc[p] = "idle" /\ frame[p] = None
<1> SUFFICES ASSUME HandlersInit
             PROVE  HandlersOK /\ \A p \in Procs : pc[p] = "idle" /\ frame[p] = None
  OBVIOUS
<1>1. \A p \in Procs : pc[p] = "idle" /\ frame[p] = None
  BY DEF HandlersInit
<1>2. pc = [p \in Procs |-> pc[p]]
  BY <1>1, Zenon DEF HandlersInit
<1>3. frame = [p \in Procs |-> frame[p]]
  BY <1>1, Zenon DEF HandlersInit
<1> QED
  BY <1>1, <1>2, <1>3 DEF HandlersOK

LEMMA Proceeded ==
  ASSUME HandlersOK, NEW p \in Procs, NEW l, NEW f, Proceed(p, l, f)
  PROVE  Moved(p, l, f)
  BY DEF HandlersOK, Proceed, Moved, Others

LEMMA Entered ==
  ASSUME HandlersOK, NEW p \in Procs, NEW l, NEW f, Enter(p, l, f)
  PROVE  Moved(p, l, f) /\ pc[p] = "idle"
  BY DEF HandlersOK, Enter, Moved, Others

LEMMA WentOn ==
  ASSUME HandlersOK, NEW p \in Procs, NEW l, Goto(p, l)
  PROVE  Moved(p, l, frame[p])
  BY Proceeded DEF Goto

LEMMA Finished ==
  ASSUME HandlersOK, NEW p \in Procs, Finish(p)
  PROVE  Moved(p, "idle", None)
  BY Proceeded DEF Finish

LEMMA Failed ==
  ASSUME HandlersOK, NEW p \in Procs, Fail(p)
  PROVE  Moved(p, "idle", None)
  BY Finished DEF Fail

LEMMA Passed ==
  ASSUME HandlersOK, NEW p \in Procs, AtOnce(p)
  PROVE  Moved(p, "idle", frame[p])
  BY DEF HandlersOK, AtOnce, Moved, Others

(* A row that is fresh after a step was fresh before it, and the step did  *)
(* not change it under a handler that uses it.                             *)
LEMMA FreshBefore ==
  ASSUME NEW changed, Watch(changed), NEW r, r \notin stale'
  PROVE  r \notin stale
  BY DEF Watch

LEMMA Unwatched ==
  ASSUME NEW changed, Watch(changed), NEW r, r \notin stale',
         NEW q \in Procs, pc[q] # "idle", pc'[q] = pc[q], r \in frame[q].uses
  PROVE  r \notin changed
  BY DEF Watch

-----------------------------------------------------------------------------
(* Members, families and visitors *)

NumberOf == Numbers \cup {None}
FamilyOf == Families \cup {None}

InsertFrame == [family : FamilyOf, number : NumberOf, uses : {{}}]
MemberUpdateFrame == [id : Members, family : FamilyOf \cup {Same}, number : NumberOf \cup {Same},
                moves : BOOLEAN, renumbers : BOOLEAN, uses : SUBSET Members]
DeleteFrame == [id : Members, uses : SUBSET Members]
HeadFrame   == [id : Families, head : Members, uses : SUBSET Members]
LinkFrame   == [id : Visitors, link : Members, uses : SUBSET Visitors]

(* m is the head of a family of F. *)
Heads(F, m) == \E g \in Families : F[g].head = m

Leaves(M, f) == f.family \notin {Same, M[f.id].family}

(* What a handler at label l with locals f knows of the members M, the     *)
(* families F and the visitors V, if the row it uses is not stale, in S.   *)
PeopleKnow(M, F, V, S, l, f) ==
  /\ l \in {"member.number", "member.insert"} => f \in InsertFrame
  /\ l \in {"member.check", "member.clear", "member.write"} =>
       /\ f \in MemberUpdateFrame /\ f.uses = {f.id}
       /\ f.id \notin S =>
            /\ Live(M, f.id)
            /\ l = "member.check" => (f.moves <=> Leaves(M, f))
            /\ l = "member.write" => ~ (Leaves(M, f) /\ Heads(F, f.id))
  /\ l \in {"member.leave", "member.delete"} =>
       /\ f \in DeleteFrame /\ f.uses = {f.id}
       /\ f.id \notin S /\ l = "member.delete" => ~ Heads(F, f.id)
  /\ l = "family.head" =>
       /\ f \in HeadFrame /\ f.uses = {f.head}
       /\ f.head \notin S => Live(M, f.head) /\ M[f.head].family = f.id
  /\ l \in {"visitor.member", "visitor.write"} =>
       /\ f \in LinkFrame /\ f.uses = {f.id}
       /\ f.id \notin S => V[f.id].link = None

PeopleInv ==
  /\ PeopleTypeOK /\ HeadIsMember /\ NumbersAreUnique
  /\ \A p \in Procs : PeopleKnow(member, family, visitor, stale, pc[p], frame[p])

(* A step that takes a link away from a visitor leaves the visitor stale.  *)
LinksKept ==
  \A v \in Visitors :
    visitor[v].link # None => visitor'[v].link = visitor[v].link \/ v \in stale'

LEMMA PeopleStillKnow ==
  ASSUME PeopleInv, PeopleTypeOK', Watch(PeopleChanged), NEW q \in Procs, pc'[q] = pc[q], frame'[q] = frame[q]
  PROVE  PeopleKnow(member', family', visitor', stale', pc'[q], frame'[q])
<1> DEFINE f == frame[q]
<1>1. PeopleKnow(member, family, visitor, stale, pc[q], f)
  BY DEF PeopleInv
<1>2. /\ DOMAIN member = Members /\ DOMAIN member' = Members
      /\ DOMAIN family = Families /\ DOMAIN family' = Families
      /\ DOMAIN visitor = Visitors /\ DOMAIN visitor' = Visitors
  BY DEF PeopleInv, PeopleTypeOK
<1>3. ASSUME pc[q] # "idle", NEW m \in Members, m \in f.uses, m \notin stale'
      PROVE  m \notin stale /\ member'[m] = member[m] /\ (Heads(family', m) => Heads(family, m))
  <2>1. m \notin stale /\ m \notin PeopleChanged
    BY <1>3, FreshBefore, Unwatched
  <2>2. m \notin ChangedIn(member, member')
    BY <2>1 DEF PeopleChanged
  <2>3. ASSUME NEW g \in Families, family'[g].head = m
        PROVE  family[g].head = m
    <3>1. g \notin ChangedIn(family, family')
      BY <2>1, <2>3 DEF PeopleChanged
    <3> QED
      BY <1>2, <2>3, <3>1 DEF ChangedIn
  <2> QED
    BY <1>2, <2>1, <2>2, <2>3 DEF ChangedIn, Heads
<1>4. ASSUME pc[q] # "idle", NEW v \in Visitors, v \in f.uses, v \notin stale'
      PROVE  v \notin stale /\ visitor'[v] = visitor[v]
  <2>1. v \notin stale /\ v \notin PeopleChanged
    BY <1>4, FreshBefore, Unwatched
  <2>2. v \notin ChangedIn(visitor, visitor')
    BY <2>1 DEF PeopleChanged
  <2> QED
    BY <1>2, <2>1, <2>2 DEF ChangedIn
<1> HIDE DEF f
<1>5. CASE pc[q] \in {"member.check", "member.clear", "member.write"}
  <2>1. f \in MemberUpdateFrame /\ f.uses = {f.id} /\ f.id \in Members
    BY <1>1, <1>5 DEF PeopleKnow, MemberUpdateFrame
  <2>2. f.id \notin stale' =>
          /\ f.id \notin stale /\ member'[f.id] = member[f.id]
          /\ Heads(family', f.id) => Heads(family, f.id)
    BY <1>3, <1>5, <2>1
  <2> QED
    BY <1>1, <1>5, <2>1, <2>2 DEF PeopleKnow, Live, Leaves, f
<1>6. CASE pc[q] \in {"member.leave", "member.delete"}
  <2>1. f \in DeleteFrame /\ f.uses = {f.id} /\ f.id \in Members
    BY <1>1, <1>6 DEF PeopleKnow, DeleteFrame
  <2>2. f.id \notin stale' => f.id \notin stale /\ (Heads(family', f.id) => Heads(family, f.id))
    BY <1>3, <1>6, <2>1
  <2> QED
    BY <1>1, <1>6, <2>1, <2>2 DEF PeopleKnow, f
<1>7. CASE pc[q] = "family.head"
  <2>1. f \in HeadFrame /\ f.uses = {f.head} /\ f.head \in Members
    BY <1>1, <1>7 DEF PeopleKnow, HeadFrame
  <2>2. f.head \notin stale' => f.head \notin stale /\ member'[f.head] = member[f.head]
    BY <1>3, <1>7, <2>1
  <2> QED
    BY <1>1, <1>7, <2>1, <2>2 DEF PeopleKnow, Live, f
<1>8. CASE pc[q] \in {"visitor.member", "visitor.write"}
  <2>1. f \in LinkFrame /\ f.uses = {f.id} /\ f.id \in Visitors
    BY <1>1, <1>8 DEF PeopleKnow, LinkFrame
  <2>2. f.id \notin stale' => f.id \notin stale /\ visitor'[f.id] = visitor[f.id]
    BY <1>4, <1>8, <2>1
  <2> QED
    BY <1>1, <1>8, <2>1, <2>2 DEF PeopleKnow, f
<1> QED
  BY <1>1, <1>5, <1>6, <1>7, <1>8 DEF PeopleKnow, f

(* The whole of a step: the handler that takes it is in order afterwards,  *)
(* and so are the others.                                                  *)
LEMMA PeopleStepped ==
  ASSUME HandlersOK, PeopleInv, Watch(PeopleChanged), PeopleTypeOK', HeadIsMember', NumbersAreUnique',
         NEW p \in Procs, NEW l, NEW f, Moved(p, l, f), PeopleKnow(member', family', visitor', stale', l, f)
  PROVE  HandlersOK' /\ PeopleInv'
<1>1. ASSUME NEW q \in Procs \ {p}
      PROVE  PeopleKnow(member', family', visitor', stale', pc'[q], frame'[q])
  BY PeopleStillKnow DEF Moved, Others
<1>2. \A q \in Procs : PeopleKnow(member', family', visitor', stale', pc'[q], frame'[q])
  BY <1>1 DEF Moved
<1> QED
  BY <1>2 DEF Moved, PeopleInv

(* Nothing is said of an idle handler. *)
LEMMA PeopleIdleKnow ==
  ASSUME NEW M, NEW F, NEW V, NEW S, NEW f
  PROVE  PeopleKnow(M, F, V, S, "idle", f)
  BY DEF PeopleKnow

(* A step that reads. *)
LEMMA PeopleLooked ==
  ASSUME HandlersOK, PeopleInv, Watch(PeopleChanged), UNCHANGED <<member, family, visitor>>,
         sequence' \in 1..(MaxNumber + 1) \cup {None},
         NEW p \in Procs, NEW l, NEW f, Moved(p, l, f), PeopleKnow(member, family, visitor, stale', l, f)
  PROVE  HandlersOK' /\ PeopleInv' /\ LinksKept
<1>1. HeadIsMember'
  BY FreshBefore DEF PeopleInv, HeadIsMember, Fresh, Live
<1>2. PeopleTypeOK' /\ NumbersAreUnique' /\ LinksKept
  BY DEF PeopleInv, PeopleTypeOK, NumbersAreUnique, LinksKept
<1> QED
  BY <1>1, <1>2, PeopleStepped

LEMMA Read ==
  ASSUME HandlersOK, PeopleInv, Watch(PeopleChanged), UNCHANGED people,
         NEW p \in Procs, NEW l, NEW f, Moved(p, l, f), PeopleKnow(member, family, visitor, stale', l, f)
  PROVE  HandlersOK' /\ PeopleInv' /\ LinksKept
<1>1. UNCHANGED <<member, family, visitor>> /\ sequence' = sequence
  BY DEF people
<1>2. sequence' \in 1..(MaxNumber + 1) \cup {None}
  BY <1>1 DEF PeopleInv, PeopleTypeOK
<1> QED
  BY <1>1, <1>2, PeopleLooked

(* A step that writes a member: one that is not stale has to stay a live   *)
(* member of the family it heads.                                          *)
LEMMA MemberSet ==
  ASSUME HandlersOK, PeopleInv, Watch(PeopleChanged), NEW m \in Members, NEW row \in MemberRow,
         SetMember(m, row), NumberAccepted(m, row.number),
         m \notin stale' /\ Heads(family, m) => row.state = "live" /\ row.family = member[m].family,
         NEW p \in Procs, NEW l, NEW f, Moved(p, l, f), PeopleKnow(member', family', visitor', stale', l, f)
  PROVE  HandlersOK' /\ PeopleInv' /\ LinksKept
<1>1. PeopleTypeOK /\ HeadIsMember /\ NumbersAreUnique
  BY DEF PeopleInv
<1>2. /\ member' = [member EXCEPT ![m] = row]
      /\ family' = family /\ visitor' = visitor /\ sequence' = sequence
  BY DEF SetMember
<1>3. member'[m] = row /\ \A o \in Members \ {m} : member'[o] = member[o]
  BY <1>1, <1>2 DEF PeopleTypeOK
<1>4. PeopleTypeOK' /\ LinksKept
  BY <1>1, <1>2 DEF PeopleTypeOK, LinksKept
<1>5. NumbersAreUnique'
  BY <1>1, <1>3 DEF NumbersAreUnique, NumberAccepted
<1>6. ASSUME NEW g \in Families, NEW o \in Members, family'[g].head = o, o \notin stale'
      PROVE  Live(member', o) /\ member'[o].family = g
  <2>1. Live(member, o) /\ member[o].family = g
    BY <1>1, <1>2, <1>6, FreshBefore DEF HeadIsMember, Fresh
  <2>2. CASE o = m
    BY <1>2, <1>3, <1>6, <2>1, <2>2 DEF Live, Heads
  <2>3. CASE o # m
    BY <1>3, <2>1, <2>3 DEF Live
  <2> QED
    BY <2>2, <2>3
<1>7. HeadIsMember'
  BY <1>6 DEF HeadIsMember, Fresh
<1> QED
  BY <1>4, <1>5, <1>7, PeopleStepped

(* A step that writes families: a head it writes is a live member.         *)
LEMMA FamiliesSet ==
  ASSUME HandlersOK, PeopleInv, Watch(PeopleChanged), family' \in [Families -> FamilyRow],
         UNCHANGED <<member, visitor, sequence>>,
         \A g \in Families, o \in Members :
           family'[g].head = o /\ o \notin stale' => family[g].head = o \/ (Live(member, o) /\ member[o].family = g),
         NEW p \in Procs, NEW l, NEW f, Moved(p, l, f), PeopleKnow(member', family', visitor', stale', l, f)
  PROVE  HandlersOK' /\ PeopleInv' /\ LinksKept
<1>1. PeopleTypeOK /\ HeadIsMember /\ NumbersAreUnique
  BY DEF PeopleInv
<1>2. PeopleTypeOK' /\ NumbersAreUnique' /\ LinksKept
  BY <1>1 DEF PeopleTypeOK, NumbersAreUnique, LinksKept
<1>3. HeadIsMember'
  BY <1>1, FreshBefore DEF HeadIsMember, Fresh, Live
<1> QED
  BY <1>2, <1>3, PeopleStepped

LEMMA VisitorSet ==
  ASSUME HandlersOK, PeopleInv, Watch(PeopleChanged), NEW v \in Visitors, NEW row \in VisitorRow,
         SetVisitor(v, row), v \notin stale' => visitor[v].link \in {None, row.link},
         NEW p \in Procs, NEW l, NEW f, Moved(p, l, f), PeopleKnow(member', family', visitor', stale', l, f)
  PROVE  HandlersOK' /\ PeopleInv' /\ LinksKept
<1>1. PeopleTypeOK /\ HeadIsMember /\ NumbersAreUnique
  BY DEF PeopleInv
<1>2. /\ visitor' = [visitor EXCEPT ![v] = row]
      /\ member' = member /\ family' = family /\ sequence' = sequence
  BY DEF SetVisitor
<1>3. visitor'[v] = row /\ \A o \in Visitors \ {v} : visitor'[o] = visitor[o]
  BY <1>1, <1>2 DEF PeopleTypeOK
<1>4. PeopleTypeOK' /\ NumbersAreUnique'
  BY <1>1, <1>2 DEF PeopleTypeOK, NumbersAreUnique
<1>5. HeadIsMember'
  BY <1>1, <1>2, FreshBefore DEF HeadIsMember, Fresh, Live
<1>6. LinksKept
  BY <1>2, <1>3 DEF LinksKept
<1> QED
  BY <1>4, <1>5, <1>6, PeopleStepped

LEMMA PeopleBegin == HandlersInit /\ PeopleInit => HandlersOK /\ PeopleInv
<1> SUFFICES ASSUME HandlersInit, PeopleInit PROVE HandlersOK /\ PeopleInv
  OBVIOUS
<1>1. HandlersOK /\ \A p \in Procs : pc[p] = "idle"
  BY Begun
<1>2. PeopleTypeOK
  BY DEF PeopleInit, PeopleTypeOK, MemberRow, FamilyRow, VisitorRow, RowStates
<1>3. HeadIsMember /\ NumbersAreUnique
  BY PeopleAssumption DEF PeopleInit, HeadIsMember, NumbersAreUnique
<1> QED
  BY <1>1, <1>2, <1>3, PeopleIdleKnow DEF PeopleInv

-----------------------------------------------------------------------------
(* Members *)

LEMMA SetSequenceKept ==
  ASSUME HandlersOK, PeopleInv, Watch(PeopleChanged), NEW p \in Procs, NEW n \in NumberOf,
         SetSequence(p, n)
  PROVE  HandlersOK' /\ PeopleInv' /\ LinksKept
<1>1. Moved(p, "idle", frame[p])
  BY Passed DEF SetSequence
<1>2. sequence' \in 1..(MaxNumber + 1) \cup {None}
  BY PeopleAssumption DEF SetSequence, NumberOf, Numbers
<1> QED
  BY <1>1, <1>2, PeopleIdleKnow, PeopleLooked DEF SetSequence

LEMMA CreateMemberKept ==
  ASSUME HandlersOK, PeopleInv, Watch(PeopleChanged), NEW p \in Procs, NEW f \in FamilyOf, NEW n \in NumberOf,
         CreateMember(p, f, n)
  PROVE  HandlersOK' /\ PeopleInv' /\ LinksKept
<1> DEFINE fr == [family |-> f, number |-> n, uses |-> {}]
<1>1. PICK l \in {"member.number", "member.insert"} : Enter(p, l, fr)
  BY DEF CreateMember
<1>2. fr \in InsertFrame
  BY DEF InsertFrame
<1> HIDE DEF fr
<1>3. PeopleKnow(member, family, visitor, stale', l, fr)
  BY <1>1, <1>2 DEF PeopleKnow
<1>4. Moved(p, l, fr)
  BY <1>1, Entered
<1> QED
  BY <1>3, <1>4, Read DEF CreateMember

LEMMA DrawNumberKept ==
  ASSUME HandlersOK, PeopleInv, Watch(PeopleChanged), NEW p \in Procs,
         DrawNumber(p)
  PROVE  HandlersOK' /\ PeopleInv' /\ LinksKept
<1> DEFINE fr == [frame[p] EXCEPT !.number = sequence]
<1>1. frame[p] \in InsertFrame
  BY DEF PeopleInv, DrawNumber, At, PeopleKnow
<1>2. sequence \in NumberOf
  BY PeopleAssumption DEF PeopleInv, PeopleTypeOK, DrawNumber, NumberOf
<1>3. fr \in InsertFrame
  BY <1>1, <1>2 DEF InsertFrame
<1>4. sequence' \in 1..(MaxNumber + 1) \cup {None}
  BY <1>2, PeopleAssumption DEF DrawNumber, NumberOf, Numbers
<1>5. Moved(p, "member.insert", fr)
  BY Proceeded DEF DrawNumber
<1> HIDE DEF fr
<1>6. PeopleKnow(member, family, visitor, stale', "member.insert", fr)
  BY <1>3 DEF PeopleKnow
<1> QED
  BY <1>4, <1>5, <1>6, PeopleLooked DEF DrawNumber

LEMMA InsertMemberKept ==
  ASSUME HandlersOK, PeopleInv, Watch(PeopleChanged), NEW p \in Procs,
         InsertMember(p)
  PROVE  HandlersOK' /\ PeopleInv' /\ LinksKept
<1>1. frame[p] \in InsertFrame
  BY DEF PeopleInv, InsertMember, At, PeopleKnow
<1> DEFINE row == [state |-> "live", family |-> frame[p].family, number |-> frame[p].number]
<1>2. PICK m \in Members : member[m].state = "absent" /\ NumberAccepted(m, row.number) /\ SetMember(m, row)
  BY DEF InsertMember
<1>3. row \in MemberRow
  BY <1>1 DEF InsertFrame, FamilyOf, NumberOf, MemberRow, RowStates
<1>4. m \notin stale' => ~ Heads(family, m)
  BY <1>2, FreshBefore DEF PeopleInv, HeadIsMember, Fresh, Heads, Live
<1>5. Moved(p, "idle", None)
  BY Finished DEF InsertMember
<1> HIDE DEF row
<1> QED
  BY <1>2, <1>3, <1>4, <1>5, PeopleIdleKnow, MemberSet

LEMMA RegisterPublicKept ==
  ASSUME HandlersOK, PeopleInv, Watch(PeopleChanged), NEW p \in Procs, NEW m \in Members,
         RegisterPublic(p, m)
  PROVE  HandlersOK' /\ PeopleInv' /\ LinksKept
<1> DEFINE row == [state |-> "live", family |-> None, number |-> None]
<1>1. row \in MemberRow /\ NumberAccepted(m, row.number)
  BY DEF MemberRow, RowStates, NumberAccepted
<1>2. m \notin stale' => ~ Heads(family, m)
  BY FreshBefore DEF RegisterPublic, PeopleInv, HeadIsMember, Fresh, Heads, Live
<1>3. Moved(p, "idle", frame[p]) /\ SetMember(m, row)
  BY Passed DEF RegisterPublic
<1> HIDE DEF row
<1> QED
  BY <1>1, <1>2, <1>3, PeopleIdleKnow, MemberSet

LEMMA UpdateMemberKept ==
  ASSUME HandlersOK, PeopleInv, Watch(PeopleChanged), NEW p \in Procs, NEW m \in Members, NEW f \in FamilyOf \cup {Same}, NEW n \in NumberOf \cup {Same},
         UpdateMember(p, m, f, n)
  PROVE  HandlersOK' /\ PeopleInv' /\ LinksKept
<1> DEFINE fr == [id |-> m, family |-> f, number |-> n, moves |-> f \notin {Same, member[m].family},
                  renumbers |-> n \notin {Same, member[m].number}, uses |-> {m}]
<1>1. Live(member, m) /\ Enter(p, "member.check", fr) /\ UNCHANGED people
  BY DEF UpdateMember
<1>2. fr \in MemberUpdateFrame
  BY DEF MemberUpdateFrame
<1>3. fr.id = m /\ fr.uses = {m} /\ (fr.moves <=> Leaves(member, fr))
  BY DEF Leaves
<1> HIDE DEF fr
<1>4. PeopleKnow(member, family, visitor, stale', "member.check", fr)
  BY <1>1, <1>2, <1>3 DEF PeopleKnow
<1>5. Moved(p, "member.check", fr)
  BY <1>1, Entered
<1> QED
  BY <1>1, <1>4, <1>5, Read

LEMMA CheckMemberKept ==
  ASSUME HandlersOK, PeopleInv, Watch(PeopleChanged), NEW p \in Procs,
         CheckMember(p)
  PROVE  HandlersOK' /\ PeopleInv' /\ LinksKept
<1> DEFINE f == frame[p]
<1>1. PeopleKnow(member, family, visitor, stale, "member.check", f)
  BY DEF PeopleInv, CheckMember, At
<1>2. PICK l \in {"member.clear", "member.write"} : Goto(p, l) /\ (l = "member.write" => ~ f.moves)
  BY DEF CheckMember
<1>3. Moved(p, l, f)
  BY <1>2, WentOn
<1> HIDE DEF f
<1>4. PeopleKnow(member, family, visitor, stale', l, f)
  BY <1>1, <1>2, FreshBefore DEF PeopleKnow
<1> QED
  BY <1>3, <1>4, Read DEF CheckMember

(* After clearHeadIfMember the member heads nothing. *)
LEMMA HeadCleared ==
  ASSUME HandlersOK, PeopleInv, Watch(PeopleChanged), NEW p \in Procs, NEW m \in Members, ClearHead(m),
         NEW l, NEW f, Moved(p, l, f),
         ~ Heads(family', m) => PeopleKnow(member, family', visitor, stale', l, f)
  PROVE  HandlersOK' /\ PeopleInv' /\ LinksKept
<1>1. /\ family' = [f_1 \in Families |-> IF family[f_1].head = m THEN [family[f_1] EXCEPT !.head = None]
                                                              ELSE family[f_1]]
      /\ member' = member /\ visitor' = visitor /\ sequence' = sequence
  BY DEF ClearHead
<1>2. ASSUME NEW g \in Families
      PROVE  /\ family'[g] \in FamilyRow
             /\ family'[g].head # m
             /\ family'[g].head \in {None, family[g].head}
  <2>1. family[g] \in FamilyRow
    BY DEF PeopleInv, PeopleTypeOK
  <2>2. CASE family[g].head = m
    BY <1>1, <2>1, <2>2, PeopleAssumption DEF FamilyRow
  <2>3. CASE family[g].head # m
    BY <1>1, <2>1, <2>3
  <2> QED
    BY <2>2, <2>3
<1>3. family' \in [Families -> FamilyRow]
  BY <1>1, <1>2
<1>4. ~ Heads(family', m)
  BY <1>2 DEF Heads
<1>5. \A g \in Families, o \in Members :
        family'[g].head = o /\ o \notin stale' => family[g].head = o \/ (Live(member, o) /\ member[o].family = g)
  BY <1>2, PeopleAssumption
<1> QED
  BY <1>1, <1>3, <1>4, <1>5, FamiliesSet

LEMMA ClearOnUpdateKept ==
  ASSUME HandlersOK, PeopleInv, Watch(PeopleChanged), NEW p \in Procs,
         ClearOnUpdate(p)
  PROVE  HandlersOK' /\ PeopleInv' /\ LinksKept
<1> DEFINE f == frame[p]
<1>1. PeopleKnow(member, family, visitor, stale, "member.clear", f)
  BY DEF PeopleInv, ClearOnUpdate, At
<1>2. f.id \in Members
  BY <1>1 DEF PeopleKnow, MemberUpdateFrame
<1>3. Moved(p, "member.write", f)
  BY WentOn DEF ClearOnUpdate
<1>4. ClearHead(f.id)
  BY DEF ClearOnUpdate
<1> HIDE DEF f
<1>5. ~ Heads(family', f.id) => PeopleKnow(member, family', visitor, stale', "member.write", f)
  BY <1>1, FreshBefore DEF PeopleKnow
<1> QED
  BY <1>2, <1>3, <1>4, <1>5, HeadCleared

LEMMA WriteMemberKept ==
  ASSUME HandlersOK, PeopleInv, Watch(PeopleChanged), NEW p \in Procs,
         WriteMember(p)
  PROVE  HandlersOK' /\ PeopleInv' /\ LinksKept
<1> DEFINE f == frame[p]
           m == f.id
           number == IF f.number = Same THEN member[m].number ELSE f.number
           row == [member[m] EXCEPT !.number = number,
                                    !.family = IF f.family = Same THEN @ ELSE f.family]
<1>1. PeopleKnow(member, family, visitor, stale, "member.write", f)
  BY DEF PeopleInv, WriteMember, At
<1>2. f \in MemberUpdateFrame /\ m \in Members
  BY <1>1 DEF PeopleKnow, MemberUpdateFrame
<1>3. member[m] \in MemberRow
  BY <1>2 DEF PeopleInv, PeopleTypeOK
<1>4. NumberAccepted(m, number) /\ SetMember(m, row) /\ Finish(p)
  BY DEF WriteMember
<1>5. number \in NumberOf /\ (IF f.family = Same THEN member[m].family ELSE f.family) \in FamilyOf
  BY <1>2, <1>3 DEF MemberUpdateFrame, MemberRow, NumberOf, FamilyOf
<1> HIDE DEF number
<1>6. /\ row \in MemberRow /\ row.number = number /\ row.state = member[m].state
      /\ row.family = IF f.family = Same THEN member[m].family ELSE f.family
  BY <1>3, <1>5 DEF MemberRow, NumberOf, FamilyOf
<1> HIDE DEF row
<1>7. m \notin stale' /\ Heads(family, m) => row.state = "live" /\ row.family = member[m].family
  BY <1>1, <1>6, FreshBefore DEF PeopleKnow, Live, Leaves
<1>8. Moved(p, "idle", None)
  BY <1>4, Finished
<1> QED
  BY <1>2, <1>4, <1>6, <1>7, <1>8, PeopleIdleKnow, MemberSet

LEMMA DeleteMemberKept ==
  ASSUME HandlersOK, PeopleInv, Watch(PeopleChanged), NEW p \in Procs, NEW m \in Members,
         DeleteMember(p, m)
  PROVE  HandlersOK' /\ PeopleInv' /\ LinksKept
<1> DEFINE f == [id |-> m, uses |-> {m}]
<1>1. Enter(p, "member.leave", f) /\ UNCHANGED people
  BY DEF DeleteMember
<1>2. f \in DeleteFrame /\ f.id = m /\ f.uses = {m}
  BY DEF DeleteFrame
<1> HIDE DEF f
<1>3. PeopleKnow(member, family, visitor, stale', "member.leave", f)
  BY <1>2 DEF PeopleKnow
<1>4. Moved(p, "member.leave", f)
  BY <1>1, Entered
<1> QED
  BY <1>1, <1>3, <1>4, Read

LEMMA ClearOnDeleteKept ==
  ASSUME HandlersOK, PeopleInv, Watch(PeopleChanged), NEW p \in Procs,
         ClearOnDelete(p)
  PROVE  HandlersOK' /\ PeopleInv' /\ LinksKept
<1> DEFINE f == frame[p]
<1>1. PeopleKnow(member, family, visitor, stale, "member.leave", f)
  BY DEF PeopleInv, ClearOnDelete, At
<1>2. f \in DeleteFrame /\ f.uses = {f.id} /\ f.id \in Members
  BY <1>1 DEF PeopleKnow, DeleteFrame
<1>3. Moved(p, "member.delete", f)
  BY WentOn DEF ClearOnDelete
<1>4. ClearHead(f.id)
  BY DEF ClearOnDelete
<1> HIDE DEF f
<1>5. ~ Heads(family', f.id) => PeopleKnow(member, family', visitor, stale', "member.delete", f)
  BY <1>2 DEF PeopleKnow
<1> QED
  BY <1>2, <1>3, <1>4, <1>5, HeadCleared

LEMMA MarkDeletedKept ==
  ASSUME HandlersOK, PeopleInv, Watch(PeopleChanged), NEW p \in Procs,
         MarkDeleted(p)
  PROVE  HandlersOK' /\ PeopleInv' /\ LinksKept
<1> DEFINE m == frame[p].id
           row == [member[m] EXCEPT !.state = "deleted"]
<1>1. PeopleKnow(member, family, visitor, stale, "member.delete", frame[p])
  BY DEF PeopleInv, MarkDeleted, At
<1>2. m \in Members
  BY <1>1 DEF PeopleKnow, DeleteFrame
<1>3. row \in MemberRow /\ row.number = member[m].number
  BY <1>2 DEF PeopleInv, PeopleTypeOK, MemberRow, RowStates
<1>4. NumberAccepted(m, row.number)
  BY <1>2, <1>3 DEF PeopleInv, NumbersAreUnique, NumberAccepted
<1>5. m \notin stale' => ~ Heads(family, m)
  BY <1>1, FreshBefore DEF PeopleKnow
<1>6. SetMember(m, row) /\ Moved(p, "idle", None)
  BY Finished DEF MarkDeleted
<1> HIDE DEF row
<1> QED
  BY <1>2, <1>3, <1>4, <1>5, <1>6, PeopleIdleKnow, MemberSet

-----------------------------------------------------------------------------
(* Families *)

(* A step that writes one family. *)
LEMMA FamilySet ==
  ASSUME HandlersOK, PeopleInv, Watch(PeopleChanged), NEW g \in Families, NEW row \in FamilyRow,
         SetFamily(g, row),
         row.head # None /\ row.head \notin stale' =>
           row.head = family[g].head \/ (Live(member, row.head) /\ member[row.head].family = g),
         NEW p \in Procs, NEW l, NEW f, Moved(p, l, f), PeopleKnow(member', family', visitor', stale', l, f)
  PROVE  HandlersOK' /\ PeopleInv' /\ LinksKept
<1>1. /\ family' = [family EXCEPT ![g] = row] /\ family \in [Families -> FamilyRow]
      /\ UNCHANGED <<member, visitor, sequence>>
  BY DEF SetFamily, PeopleInv, PeopleTypeOK
<1>2. family'[g] = row /\ \A h \in Families \ {g} : family'[h] = family[h]
  BY <1>1
<1>3. family' \in [Families -> FamilyRow]
  BY <1>1
<1>4. \A h \in Families, o \in Members :
        family'[h].head = o /\ o \notin stale' => family[h].head = o \/ (Live(member, o) /\ member[o].family = h)
  BY <1>2, PeopleAssumption
<1> QED
  BY <1>1, <1>3, <1>4, FamiliesSet

LEMMA CreateFamilyKept ==
  ASSUME HandlersOK, PeopleInv, Watch(PeopleChanged), NEW p \in Procs, NEW g \in Families,
         CreateFamily(p, g)
  PROVE  HandlersOK' /\ PeopleInv' /\ LinksKept
<1> DEFINE row == [state |-> "live", head |-> None]
<1>1. row \in FamilyRow /\ row.head = None /\ SetFamily(g, row)
  BY DEF CreateFamily, FamilyRow, RowStates
<1>2. Moved(p, "idle", frame[p])
  BY Passed DEF CreateFamily
<1> HIDE DEF row
<1> QED
  BY <1>1, <1>2, PeopleIdleKnow, FamilySet

LEMMA SetHeadKept ==
  ASSUME HandlersOK, PeopleInv, Watch(PeopleChanged), NEW p \in Procs, NEW g \in Families, NEW m \in Members,
         SetHead(p, g, m)
  PROVE  HandlersOK' /\ PeopleInv' /\ LinksKept
<1> DEFINE f == [id |-> g, head |-> m, uses |-> {m}]
<1>1. Enter(p, "family.head", f) /\ UNCHANGED people /\ Live(member, m) /\ member[m].family = g
  BY DEF SetHead
<1>2. f \in HeadFrame /\ f.id = g /\ f.head = m /\ f.uses = {m}
  BY DEF HeadFrame
<1> HIDE DEF f
<1>3. PeopleKnow(member, family, visitor, stale', "family.head", f)
  BY <1>1, <1>2 DEF PeopleKnow
<1>4. Moved(p, "family.head", f)
  BY <1>1, Entered
<1> QED
  BY <1>1, <1>3, <1>4, Read

LEMMA WriteHeadKept ==
  ASSUME HandlersOK, PeopleInv, Watch(PeopleChanged), NEW p \in Procs,
         WriteHead(p)
  PROVE  HandlersOK' /\ PeopleInv' /\ LinksKept
<1> DEFINE f == frame[p]
           row == [family[f.id] EXCEPT !.head = f.head]
<1>1. PeopleKnow(member, family, visitor, stale, "family.head", f)
  BY DEF PeopleInv, WriteHead, At
<1>2. f.id \in Families /\ f.head \in Members
  BY <1>1 DEF PeopleKnow, HeadFrame
<1>3. row \in FamilyRow /\ row.head = f.head
  BY <1>2 DEF PeopleInv, PeopleTypeOK, FamilyRow
<1>4. f.head \notin stale' => Live(member, f.head) /\ member[f.head].family = f.id
  BY <1>1, FreshBefore DEF PeopleKnow
<1>5. SetFamily(f.id, row) /\ Moved(p, "idle", None)
  BY Finished DEF WriteHead
<1> HIDE DEF row
<1> QED
  BY <1>2, <1>3, <1>4, <1>5, PeopleIdleKnow, FamilySet

LEMMA RemoveHeadKept ==
  ASSUME HandlersOK, PeopleInv, Watch(PeopleChanged), NEW p \in Procs, NEW g \in Families,
         RemoveHead(p, g)
  PROVE  HandlersOK' /\ PeopleInv' /\ LinksKept
<1> DEFINE row == [family[g] EXCEPT !.head = None]
<1>1. row \in FamilyRow /\ row.head = None
  BY DEF PeopleInv, PeopleTypeOK, FamilyRow
<1>2. SetFamily(g, row) /\ Moved(p, "idle", frame[p])
  BY Passed DEF RemoveHead
<1> HIDE DEF row
<1> QED
  BY <1>1, <1>2, PeopleIdleKnow, FamilySet

(* Deleting and restoring a family. *)
LEMMA FamilyStateKept ==
  ASSUME HandlersOK, PeopleInv, Watch(PeopleChanged), NEW p \in Procs, NEW g \in Families, NEW s \in RowStates,
         AtOnce(p), SetFamily(g, [family[g] EXCEPT !.state = s])
  PROVE  HandlersOK' /\ PeopleInv' /\ LinksKept
<1> DEFINE row == [family[g] EXCEPT !.state = s]
<1>1. row \in FamilyRow /\ row.head = family[g].head
  BY DEF PeopleInv, PeopleTypeOK, FamilyRow
<1>2. Moved(p, "idle", frame[p])
  BY Passed
<1> HIDE DEF row
<1> QED
  BY <1>1, <1>2, PeopleIdleKnow, FamilySet DEF row

-----------------------------------------------------------------------------
(* Visitors *)

(* Creating, updating, deleting and restoring a visitor. *)
LEMMA VisitorStateKept ==
  ASSUME HandlersOK, PeopleInv, Watch(PeopleChanged), NEW p \in Procs, NEW v \in Visitors,
         NEW s \in RowStates, NEW status \in {"visiting", "joined"},
         AtOnce(p), SetVisitor(v, [visitor[v] EXCEPT !.state = s, !.status = status])
  PROVE  HandlersOK' /\ PeopleInv' /\ LinksKept
<1> DEFINE row == [visitor[v] EXCEPT !.state = s, !.status = status]
<1>1. row \in VisitorRow /\ row.link = visitor[v].link
  BY DEF PeopleInv, PeopleTypeOK, VisitorRow
<1>2. Moved(p, "idle", frame[p])
  BY Passed
<1> HIDE DEF row
<1> QED
  BY <1>1, <1>2, PeopleIdleKnow, VisitorSet DEF row

LEMMA VisitorRouteKept ==
  ASSUME HandlersOK, PeopleInv, Watch(PeopleChanged), NEW p \in Procs, NEW v \in Visitors,
         CreateVisitor(p, v) \/ UpdateVisitor(p, v) \/ DeleteVisitor(p, v)
  PROVE  HandlersOK' /\ PeopleInv' /\ LinksKept
<1>1. visitor[v] \in VisitorRow
  BY DEF PeopleInv, PeopleTypeOK
<1>2. PICK s \in RowStates, status \in {"visiting", "joined"} :
        AtOnce(p) /\ SetVisitor(v, [visitor[v] EXCEPT !.state = s, !.status = status])
  <2>1. CASE CreateVisitor(p, v)
    <3>1. [visitor[v] EXCEPT !.state = "live"] = [visitor[v] EXCEPT !.state = "live", !.status = visitor[v].status]
      BY <1>1 DEF VisitorRow
    <3> QED
      BY <1>1, <2>1, <3>1 DEF CreateVisitor, VisitorRow, RowStates
  <2>2. CASE UpdateVisitor(p, v)
    <3>1. [visitor[v] EXCEPT !.status = "visiting"] = [visitor[v] EXCEPT !.state = visitor[v].state, !.status = "visiting"]
      BY <1>1 DEF VisitorRow
    <3> QED
      BY <1>1, <2>2, <3>1 DEF UpdateVisitor, VisitorRow, RowStates
  <2>3. CASE DeleteVisitor(p, v)
    <3>1. [visitor[v] EXCEPT !.state = "deleted"] = [visitor[v] EXCEPT !.state = "deleted", !.status = visitor[v].status]
      BY <1>1 DEF VisitorRow
    <3> QED
      BY <1>1, <2>3, <3>1 DEF DeleteVisitor, VisitorRow, RowStates
  <2> QED
    BY <2>1, <2>2, <2>3
<1> QED
  BY <1>2, VisitorStateKept

LEMMA ConvertVisitorKept ==
  ASSUME HandlersOK, PeopleInv, Watch(PeopleChanged), NEW p \in Procs, NEW v \in Visitors, NEW m \in Members,
         ConvertVisitor(p, v, m)
  PROVE  HandlersOK' /\ PeopleInv' /\ LinksKept
<1> DEFINE f == [id |-> v, link |-> m, uses |-> {v}]
<1>1. Enter(p, "visitor.member", f) /\ UNCHANGED people /\ visitor[v].link = None
  BY DEF ConvertVisitor
<1>2. f \in LinkFrame /\ f.id = v /\ f.uses = {v}
  BY DEF LinkFrame
<1> HIDE DEF f
<1>3. PeopleKnow(member, family, visitor, stale', "visitor.member", f)
  BY <1>1, <1>2 DEF PeopleKnow
<1>4. Moved(p, "visitor.member", f)
  BY <1>1, Entered
<1> QED
  BY <1>1, <1>3, <1>4, Read

LEMMA CheckLinkKept ==
  ASSUME HandlersOK, PeopleInv, Watch(PeopleChanged), NEW p \in Procs,
         CheckLink(p)
  PROVE  HandlersOK' /\ PeopleInv' /\ LinksKept
<1> DEFINE f == frame[p]
<1>1. PeopleKnow(member, family, visitor, stale, "visitor.member", f)
  BY DEF PeopleInv, CheckLink, At
<1>2. Moved(p, "visitor.write", f)
  BY WentOn DEF CheckLink
<1> HIDE DEF f
<1>3. PeopleKnow(member, family, visitor, stale', "visitor.write", f)
  BY <1>1, FreshBefore DEF PeopleKnow
<1> QED
  BY <1>2, <1>3, Read DEF CheckLink

LEMMA WriteLinkKept ==
  ASSUME HandlersOK, PeopleInv, Watch(PeopleChanged), NEW p \in Procs,
         WriteLink(p)
  PROVE  HandlersOK' /\ PeopleInv' /\ LinksKept
<1> DEFINE f == frame[p]
           row == [visitor[f.id] EXCEPT !.status = "joined", !.link = f.link]
<1>1. PeopleKnow(member, family, visitor, stale, "visitor.write", f)
  BY DEF PeopleInv, WriteLink, At
<1>2. f.id \in Visitors /\ f.link \in Members
  BY <1>1 DEF PeopleKnow, LinkFrame
<1>3. row \in VisitorRow
  BY <1>2 DEF PeopleInv, PeopleTypeOK, VisitorRow
<1>4. f.id \notin stale' => visitor[f.id].link = None
  BY <1>1, FreshBefore DEF PeopleKnow
<1>5. SetVisitor(f.id, row) /\ Moved(p, "idle", None)
  BY Finished DEF WriteLink
<1> HIDE DEF row
<1> QED
  BY <1>2, <1>3, <1>4, <1>5, PeopleIdleKnow, VisitorSet

-----------------------------------------------------------------------------
(* Whole steps *)

LEMMA RestorePersonKept ==
  ASSUME HandlersOK, PeopleInv, Watch(PeopleChanged), NEW p \in Procs,
         RestorePerson(p)
  PROVE  HandlersOK' /\ PeopleInv' /\ LinksKept
<1>1. AtOnce(p)
  BY DEF RestorePerson
<1>2. ASSUME NEW m \in Members, member[m].state = "deleted", SetMember(m, [member[m] EXCEPT !.state = "live"])
      PROVE  HandlersOK' /\ PeopleInv' /\ LinksKept
  <2> DEFINE row == [member[m] EXCEPT !.state = "live"]
  <2>1. row \in MemberRow /\ row.number = member[m].number
    BY DEF PeopleInv, PeopleTypeOK, MemberRow, RowStates
  <2>2. NumberAccepted(m, row.number)
    BY <2>1 DEF PeopleInv, NumbersAreUnique, NumberAccepted
  <2>3. m \notin stale' => ~ Heads(family, m)
    BY <1>2, FreshBefore DEF PeopleInv, HeadIsMember, Fresh, Heads, Live
  <2>4. SetMember(m, row) /\ Moved(p, "idle", frame[p])
    BY <1>1, <1>2, Passed
  <2> HIDE DEF row
  <2> QED
    BY <2>1, <2>2, <2>3, <2>4, PeopleIdleKnow, MemberSet
<1>3. ASSUME NEW g \in Families, SetFamily(g, [family[g] EXCEPT !.state = "live"])
      PROVE  HandlersOK' /\ PeopleInv' /\ LinksKept
  BY <1>1, <1>3, FamilyStateKept DEF RowStates
<1>4. ASSUME NEW v \in Visitors, SetVisitor(v, [visitor[v] EXCEPT !.state = "live"])
      PROVE  HandlersOK' /\ PeopleInv' /\ LinksKept
  <2>1. visitor[v] \in VisitorRow
    BY DEF PeopleInv, PeopleTypeOK
  <2>2. [visitor[v] EXCEPT !.state = "live"] = [visitor[v] EXCEPT !.state = "live", !.status = visitor[v].status]
    BY <2>1 DEF VisitorRow
  <2> QED
    BY <1>1, <1>4, <2>1, <2>2, VisitorStateKept DEF VisitorRow, RowStates
<1> QED
  BY <1>2, <1>3, <1>4 DEF RestorePerson

LEMMA RoutesKept ==
  ASSUME HandlersOK, PeopleInv, Watch(PeopleChanged), NEW p \in Procs,
         NumberRoutes(p) \/ HouseholdRoutes(p) \/ FamilyRoutes(p) \/ VisitorRoutes(p)
  PROVE  HandlersOK' /\ PeopleInv' /\ LinksKept
<1>1. CASE NumberRoutes(p)
  BY <1>1, SetSequenceKept, CreateMemberKept, DeleteMemberKept, UpdateMemberKept
     DEF NumberRoutes, NumberOf, FamilyOf
<1>2. ASSUME NEW g \in Families, DeleteFamily(p, g)
      PROVE  HandlersOK' /\ PeopleInv' /\ LinksKept
  BY <1>2, FamilyStateKept DEF DeleteFamily, RowStates
<1>3. CASE HouseholdRoutes(p)
  BY <1>2, <1>3, CreateFamilyKept, CreateMemberKept DEF HouseholdRoutes, NumberOf, FamilyOf
<1>4. CASE FamilyRoutes(p)
  BY <1>2, <1>4, RegisterPublicKept, UpdateMemberKept, DeleteMemberKept, CreateFamilyKept, RemoveHeadKept,
     SetHeadKept DEF FamilyRoutes, NumberOf, FamilyOf
<1>5. CASE VisitorRoutes(p)
  BY <1>5, RegisterPublicKept, DeleteMemberKept, VisitorRouteKept, ConvertVisitorKept DEF VisitorRoutes
<1> QED
  BY <1>1, <1>3, <1>4, <1>5

LEMMA PeopleStep ==
  ASSUME HandlersOK, PeopleInv, PeopleNext
  PROVE  HandlersOK' /\ PeopleInv' /\ LinksKept
<1>1. PICK p \in Procs :
        \/ NumberRoutes(p) \/ HouseholdRoutes(p) \/ FamilyRoutes(p) \/ VisitorRoutes(p)
        \/ RestorePerson(p) \/ ContinuePeople(p)
  BY DEF PeopleNext
<1>2. Watch(PeopleChanged)
  BY DEF PeopleNext
<1>3. CASE ContinuePeople(p)
  <2>1. CASE Fail(p) /\ UNCHANGED people
    BY <1>2, <2>1, Failed, PeopleIdleKnow, Read
  <2> QED
    BY <1>2, <1>3, <2>1, DrawNumberKept, InsertMemberKept, CheckMemberKept, ClearOnUpdateKept, WriteMemberKept,
       ClearOnDeleteKept, MarkDeletedKept, WriteHeadKept, CheckLinkKept, WriteLinkKept DEF ContinuePeople
<1> QED
  BY <1>1, <1>2, <1>3, RoutesKept, RestorePersonKept

LEMMA PeopleStutter ==
  ASSUME HandlersOK, PeopleInv, UNCHANGED <<pc, frame, stale, people>>
  PROVE  HandlersOK' /\ PeopleInv'
<1>1. /\ pc' = pc /\ frame' = frame /\ stale' = stale
      /\ member' = member /\ family' = family /\ visitor' = visitor /\ sequence' = sequence
  BY DEF people
<1> QED
  BY <1>1 DEF HandlersOK, PeopleInv, PeopleTypeOK, HeadIsMember, NumbersAreUnique, Fresh, Live

LEMMA PeopleInvariant == PeopleSpec => [](HandlersOK /\ PeopleInv)
<1>1. HandlersInit /\ PeopleInit => HandlersOK /\ PeopleInv
  BY PeopleBegin
<1>2. HandlersOK /\ PeopleInv /\ [PeopleNext]_<<pc, frame, stale, people>> => (HandlersOK /\ PeopleInv)'
  BY PeopleStep, PeopleStutter
<1> QED
  BY <1>1, <1>2, PTL DEF PeopleSpec

-----------------------------------------------------------------------------
(* The rows of members, families and visitors and the numbering sequence   *)
(* keep their shape, whatever an administrator sets the sequence to.       *)
THEOREM PeopleTypeCorrect == PeopleSpec => []PeopleTypeOK
<1>1. PeopleInv => PeopleTypeOK
  BY DEF PeopleInv
<1> QED
  BY <1>1, PeopleInvariant, PTL

(* The head of a family is a live member of it: MembersService clears the  *)
(* head before it moves or deletes the member, so neither a crash between  *)
(* the two calls nor a later restore leaves a head outside its family,     *)
(* except for a member that changed under a handler that had read it.      *)
THEOREM HeadStaysMember == PeopleSpec => []HeadIsMember
<1>1. PeopleInv => HeadIsMember
  BY DEF PeopleInv
<1> QED
  BY <1>1, PeopleInvariant, PTL

(* No two members carry the same number, deleted ones included, although   *)
(* assertMembershipNumberFree looks at the live ones only, in a call of    *)
(* its own, and a restore looks at none.                                   *)
THEOREM NumbersStayUnique == PeopleSpec => []NumbersAreUnique
<1>1. PeopleInv => NumbersAreUnique
  BY DEF PeopleInv
<1> QED
  BY <1>1, PeopleInvariant, PTL

(* VisitorsService.convertToMember links a visitor once: the link is then  *)
(* never cleared or replaced, unless the visitor changed under a           *)
(* conversion.                                                             *)
THEOREM LinkStays == PeopleSpec => LinkPinned
<1>1. HandlersOK /\ PeopleInv /\ [PeopleNext]_<<pc, frame, stale, people>> => [LinksKept]_visitor
  BY PeopleStep DEF people
<1>2. LinkPinned <=> [][LinksKept]_visitor
  BY PTL DEF LinkPinned, LinksKept
<1> QED
  BY <1>1, <1>2, PeopleInvariant, PTL DEF PeopleSpec

-----------------------------------------------------------------------------
(* Enrolments *)

EnrolFrame == [id : Things, who : Registrants, capacity : Capacities, uses : SUBSET Things]
ThingFrame == [id : Things, uses : SUBSET Things]

(* What a handler at label l with locals f knows of the things T and the   *)
(* enrolments E, if the thing is not stale, in S.                          *)
EnrolmentsExpect(T, E, S, l, f) ==
  /\ l \in {"enrol.check", "enrol.insert"} =>
       /\ f \in EnrolFrame /\ f.uses = {f.id}
       /\ f.id \notin S =>
            /\ T[f.id].capacity = f.capacity
            /\ l = "enrol.insert" => Within(Active(E, f.id) + 1, f.capacity)
  /\ l \in {"thing.end", "thing.delete"} =>
       /\ f \in ThingFrame /\ f.uses = {f.id}
       /\ f.id \notin S /\ l = "thing.delete" => Active(E, f.id) = 0

EnrolInv ==
  /\ EnrolmentsTypeOK
  /\ \A p \in Procs : EnrolmentsExpect(thing, enrolment, stale, pc[p], frame[p])

(* Each of the two action properties, of one step. *)
AdmissionsKept ==
  \A t \in Things :
    Enrolled(t) => Within(Active(enrolment', t), thing[t].capacity) \/ t \in stale'

DeletionsKept ==
  \A t \in Things :
    thing[t].state = "live" /\ thing'[t].state = "deleted" => Active(enrolment, t) = 0 \/ t \in stale'

(* One more active row is one more in the count. *)
LEMMA CountOneMore ==
  ASSUME NEW E, NEW F, NEW t, NEW r \in Registrants, E[t][r] # "active", F[t][r] = "active",
         \A o \in Registrants \ {r} : F[t][o] = E[t][o]
  PROVE  Active(F, t) = Active(E, t) + 1
<1> DEFINE A == {o \in Registrants : E[t][o] = "active"}
           B == {o \in Registrants : F[t][o] = "active"}
<1>1. B = A \cup {r} /\ r \notin A
  OBVIOUS
<1>2. IsFiniteSet(A)
  BY EnrolmentsAssumption, FS_Subset
<1> HIDE DEF A, B
<1>3. Cardinality(B) = Cardinality(A) + 1
  BY <1>1, <1>2, FS_AddElement
<1> QED
  BY <1>3 DEF Active, A, B

LEMMA CountNone ==
  ASSUME NEW E, NEW t, \A r \in Registrants : E[t][r] # "active"
  PROVE  Active(E, t) = 0
<1>1. {r \in Registrants : E[t][r] = "active"} = {}
  OBVIOUS
<1> QED
  BY <1>1, FS_EmptySet DEF Active

LEMMA CountSame ==
  ASSUME NEW E, NEW F, NEW t, F[t] = E[t]
  PROVE  Active(F, t) = Active(E, t)
  BY Zenon DEF Active

LEMMA EnrolmentsStillExpect ==
  ASSUME EnrolInv, EnrolmentsTypeOK', Watch(EnrolmentsChanged),
         NEW q \in Procs, pc'[q] = pc[q], frame'[q] = frame[q]
  PROVE  EnrolmentsExpect(thing', enrolment', stale', pc'[q], frame'[q])
<1> DEFINE f == frame[q]
<1>1. EnrolmentsExpect(thing, enrolment, stale, pc[q], f)
  BY DEF EnrolInv
<1>2. DOMAIN thing = Things /\ DOMAIN enrolment = Things
  BY DEF EnrolInv, EnrolmentsTypeOK
<1>3. ASSUME pc[q] # "idle", NEW t \in Things, t \in f.uses, t \notin stale'
      PROVE  t \notin stale /\ thing'[t] = thing[t] /\ enrolment'[t] = enrolment[t]
  <2>1. t \notin stale /\ t \notin EnrolmentsChanged
    BY <1>3, FreshBefore, Unwatched
  <2> QED
    BY <1>2, <2>1 DEF EnrolmentsChanged, ChangedIn
<1> HIDE DEF f
<1>4. CASE pc[q] \in {"enrol.check", "enrol.insert"}
  <2>1. f \in EnrolFrame /\ f.uses = {f.id} /\ f.id \in Things
    BY <1>1, <1>4 DEF EnrolmentsExpect, EnrolFrame
  <2>2. f.id \notin stale' =>
          /\ f.id \notin stale /\ thing'[f.id] = thing[f.id]
          /\ Active(enrolment', f.id) = Active(enrolment, f.id)
    BY <1>3, <1>4, <2>1, CountSame
  <2> QED
    BY <1>1, <1>4, <2>1, <2>2 DEF EnrolmentsExpect, f
<1>5. CASE pc[q] \in {"thing.end", "thing.delete"}
  <2>1. f \in ThingFrame /\ f.uses = {f.id} /\ f.id \in Things
    BY <1>1, <1>5 DEF EnrolmentsExpect, ThingFrame
  <2>2. f.id \notin stale' => f.id \notin stale /\ Active(enrolment', f.id) = Active(enrolment, f.id)
    BY <1>3, <1>5, <2>1, CountSame
  <2> QED
    BY <1>1, <1>5, <2>1, <2>2 DEF EnrolmentsExpect, f
<1> QED
  BY <1>1, <1>4, <1>5 DEF EnrolmentsExpect, f

LEMMA EnrolStepped ==
  ASSUME HandlersOK, EnrolInv, Watch(EnrolmentsChanged), EnrolmentsTypeOK',
         NEW p \in Procs, NEW l, NEW f, Moved(p, l, f), EnrolmentsExpect(thing', enrolment', stale', l, f)
  PROVE  HandlersOK' /\ EnrolInv'
<1>1. ASSUME NEW q \in Procs \ {p}
      PROVE  EnrolmentsExpect(thing', enrolment', stale', pc'[q], frame'[q])
  BY EnrolmentsStillExpect DEF Moved, Others
<1>2. \A q \in Procs : EnrolmentsExpect(thing', enrolment', stale', pc'[q], frame'[q])
  BY <1>1 DEF Moved
<1> QED
  BY <1>2 DEF Moved, EnrolInv

(* Nothing is said of a handler that is idle or busy with a member. *)
LEMMA NotEnrolling ==
  ASSUME NEW T, NEW E, NEW S, NEW f,
         NEW l \in {"idle", "member.leave", "member.delete"}
  PROVE  EnrolmentsExpect(T, E, S, l, f)
  BY DEF EnrolmentsExpect

(* A step that leaves things and enrolments alone. *)
LEMMA EnrolRead ==
  ASSUME HandlersOK, EnrolInv, Watch(EnrolmentsChanged), UNCHANGED enrolments,
         NEW p \in Procs, NEW l, NEW f, Moved(p, l, f), EnrolmentsExpect(thing, enrolment, stale', l, f)
  PROVE  HandlersOK' /\ EnrolInv' /\ AdmissionsKept /\ DeletionsKept
<1>1. thing' = thing /\ enrolment' = enrolment
  BY DEF enrolments
<1>2. EnrolmentsTypeOK'
  BY <1>1 DEF EnrolInv, EnrolmentsTypeOK
<1>3. AdmissionsKept /\ DeletionsKept
  BY <1>1 DEF AdmissionsKept, DeletionsKept, Enrolled
<1> QED
  BY <1>1, <1>2, <1>3, EnrolStepped

(* A step that writes a thing and does not delete it while anybody is in.  *)
LEMMA ThingSet ==
  ASSUME HandlersOK, EnrolInv, Watch(EnrolmentsChanged), NEW t \in Things,
         NEW row \in [state : RowStates, capacity : Capacities], SetThing(t, row),
         thing[t].state = "live" /\ row.state = "deleted" => Active(enrolment, t) = 0 \/ t \in stale',
         NEW p \in Procs, NEW f, Moved(p, "idle", f)
  PROVE  HandlersOK' /\ EnrolInv' /\ AdmissionsKept /\ DeletionsKept
<1>1. /\ thing' = [thing EXCEPT ![t] = row] /\ enrolment' = enrolment
      /\ thing \in [Things -> [state : RowStates, capacity : Capacities]]
  BY DEF SetThing, EnrolInv, EnrolmentsTypeOK
<1>2. thing'[t] = row /\ \A o \in Things \ {t} : thing'[o] = thing[o]
  BY <1>1
<1>3. EnrolmentsTypeOK'
  BY <1>1 DEF EnrolInv, EnrolmentsTypeOK
<1>4. AdmissionsKept
  BY <1>1 DEF AdmissionsKept, Enrolled
<1>5. DeletionsKept
  BY <1>2 DEF DeletionsKept
<1> QED
  BY <1>3, <1>4, <1>5, NotEnrolling, EnrolStepped

(* A step that writes one row of a thing: an insert stays within what is   *)
(* left of the capacity.                                                   *)
LEMMA EnrolmentSet ==
  ASSUME HandlersOK, EnrolInv, Watch(EnrolmentsChanged), NEW t \in Things, NEW r \in Registrants,
         NEW s \in {"active", "ended"}, SetEnrolment(t, r, s),
         enrolment[t][r] = "absent" /\ t \notin stale' => Within(Active(enrolment, t) + 1, thing[t].capacity),
         NEW p \in Procs, NEW f, Moved(p, "idle", f)
  PROVE  HandlersOK' /\ EnrolInv' /\ AdmissionsKept /\ DeletionsKept
<1>1. /\ enrolment' = [enrolment EXCEPT ![t][r] = s] /\ thing' = thing
      /\ enrolment \in [Things -> [Registrants -> {"absent", "active", "ended"}]]
  BY DEF SetEnrolment, EnrolInv, EnrolmentsTypeOK
<1>2. /\ enrolment'[t] = [enrolment[t] EXCEPT ![r] = s]
      /\ \A o \in Things \ {t} : enrolment'[o] = enrolment[o]
  BY <1>1
<1>3. enrolment'[t][r] = s /\ \A o \in Registrants \ {r} : enrolment'[t][o] = enrolment[t][o]
  BY <1>1, <1>2
<1>4. EnrolmentsTypeOK'
  BY <1>1 DEF EnrolInv, EnrolmentsTypeOK
<1>5. ASSUME NEW o \in Things, Enrolled(o), o \notin stale'
      PROVE  Within(Active(enrolment', o), thing[o].capacity)
  <2>1. PICK u \in Registrants : enrolment[o][u] = "absent" /\ enrolment'[o][u] = "active"
    BY <1>5 DEF Enrolled
  <2>2. o = t /\ u = r /\ s = "active"
    BY <1>2, <1>3, <2>1
  <2>3. Active(enrolment', t) = Active(enrolment, t) + 1
    BY <1>3, <2>1, <2>2, CountOneMore
  <2> QED
    BY <1>5, <2>1, <2>2, <2>3
<1>6. AdmissionsKept
  BY <1>5 DEF AdmissionsKept
<1>7. DeletionsKept
  BY <1>1 DEF DeletionsKept
<1> QED
  BY <1>4, <1>6, <1>7, NotEnrolling, EnrolStepped

LEMMA EnrolKept ==
  ASSUME HandlersOK, EnrolInv, Watch(EnrolmentsChanged), NEW p \in Procs, NEW t \in Things, NEW r \in Registrants,
         Enrol(p, t, r)
  PROVE  HandlersOK' /\ EnrolInv' /\ AdmissionsKept /\ DeletionsKept
<1> DEFINE f == [id |-> t, who |-> r, capacity |-> thing[t].capacity, uses |-> {t}]
<1>1. Enter(p, "enrol.check", f) /\ UNCHANGED enrolments
  BY DEF Enrol
<1>2. f \in EnrolFrame /\ f.id = t /\ f.uses = {t} /\ f.capacity = thing[t].capacity
  BY DEF EnrolFrame, EnrolInv, EnrolmentsTypeOK
<1> HIDE DEF f
<1>3. EnrolmentsExpect(thing, enrolment, stale', "enrol.check", f)
  BY <1>2 DEF EnrolmentsExpect
<1>4. Moved(p, "enrol.check", f)
  BY <1>1, Entered
<1> QED
  BY <1>1, <1>3, <1>4, EnrolRead

LEMMA CheckEnrolmentKept ==
  ASSUME HandlersOK, EnrolInv, Watch(EnrolmentsChanged), NEW p \in Procs,
         CheckEnrolment(p)
  PROVE  HandlersOK' /\ EnrolInv' /\ AdmissionsKept /\ DeletionsKept
<1> DEFINE f == frame[p]
<1>1. EnrolmentsExpect(thing, enrolment, stale, "enrol.check", f)
  BY DEF EnrolInv, CheckEnrolment, At
<1>2. Moved(p, "enrol.insert", f) /\ Within(Active(enrolment, f.id) + 1, f.capacity)
  BY WentOn DEF CheckEnrolment
<1> HIDE DEF f
<1>3. EnrolmentsExpect(thing, enrolment, stale', "enrol.insert", f)
  BY <1>1, <1>2, FreshBefore DEF EnrolmentsExpect
<1> QED
  BY <1>2, <1>3, EnrolRead DEF CheckEnrolment

LEMMA InsertEnrolmentKept ==
  ASSUME HandlersOK, EnrolInv, Watch(EnrolmentsChanged), NEW p \in Procs,
         InsertEnrolment(p)
  PROVE  HandlersOK' /\ EnrolInv' /\ AdmissionsKept /\ DeletionsKept
<1> DEFINE f == frame[p]
<1>1. EnrolmentsExpect(thing, enrolment, stale, "enrol.insert", f)
  BY DEF EnrolInv, InsertEnrolment, At
<1>2. f.id \in Things /\ f.who \in Registrants
  BY <1>1 DEF EnrolmentsExpect, EnrolFrame
<1>3. f.id \notin stale' => Within(Active(enrolment, f.id) + 1, thing[f.id].capacity)
  BY <1>1, FreshBefore DEF EnrolmentsExpect
<1>4. SetEnrolment(f.id, f.who, "active") /\ Moved(p, "idle", None)
  BY Finished DEF InsertEnrolment
<1> QED
  BY <1>2, <1>3, <1>4, EnrolmentSet

LEMMA RowChangedKept ==
  ASSUME HandlersOK, EnrolInv, Watch(EnrolmentsChanged), NEW p \in Procs, NEW t \in Things, NEW r \in Registrants,
         ReviveEnrolment(p, t, r) \/ EndEnrolment(p, t, r)
  PROVE  HandlersOK' /\ EnrolInv' /\ AdmissionsKept /\ DeletionsKept
<1>1. PICK s \in {"active", "ended"} : SetEnrolment(t, r, s) /\ enrolment[t][r] # "absent" /\ AtOnce(p)
  BY DEF ReviveEnrolment, EndEnrolment
<1>2. Moved(p, "idle", frame[p])
  BY <1>1, Passed
<1> QED
  BY <1>1, <1>2, EnrolmentSet

LEMMA ThingKept ==
  ASSUME HandlersOK, EnrolInv, Watch(EnrolmentsChanged), NEW p \in Procs, NEW t \in Things, NEW c \in Capacities,
         CreateThing(p, t, c) \/ UpdateThing(p, t, c) \/ RestoreThing(p, t)
  PROVE  HandlersOK' /\ EnrolInv' /\ AdmissionsKept /\ DeletionsKept
<1>1. thing[t] \in [state : RowStates, capacity : Capacities]
  BY DEF EnrolInv, EnrolmentsTypeOK
<1>2. PICK row \in [state : RowStates, capacity : Capacities] :
        SetThing(t, row) /\ row.state = "live" /\ AtOnce(p)
  <2>1. CASE CreateThing(p, t, c)
    <3>1. [state |-> "live", capacity |-> c] \in [state : RowStates, capacity : Capacities]
      BY DEF RowStates
    <3> QED
      BY <2>1, <3>1 DEF CreateThing
  <2>2. CASE UpdateThing(p, t, c)
    <3>1. /\ [thing[t] EXCEPT !.capacity = c] \in [state : RowStates, capacity : Capacities]
          /\ [thing[t] EXCEPT !.capacity = c].state = thing[t].state
      BY <1>1
    <3> QED
      BY <2>2, <3>1 DEF UpdateThing, Live
  <2>3. CASE RestoreThing(p, t)
    <3>1. /\ [thing[t] EXCEPT !.state = "live"] \in [state : RowStates, capacity : Capacities]
          /\ [thing[t] EXCEPT !.state = "live"].state = "live"
      BY <1>1 DEF RowStates
    <3> QED
      BY <2>3, <3>1 DEF RestoreThing
  <2> QED
    BY <2>1, <2>2, <2>3
<1>3. Moved(p, "idle", frame[p])
  BY <1>2, Passed
<1> QED
  BY <1>2, <1>3, ThingSet

LEMMA DeleteThingKept ==
  ASSUME HandlersOK, EnrolInv, Watch(EnrolmentsChanged), NEW p \in Procs, NEW t \in Things,
         DeleteThing(p, t)
  PROVE  HandlersOK' /\ EnrolInv' /\ AdmissionsKept /\ DeletionsKept
<1> DEFINE f == [id |-> t, uses |-> {t}]
<1>1. Enter(p, "thing.end", f) /\ UNCHANGED enrolments
  BY DEF DeleteThing
<1>2. f \in ThingFrame /\ f.id = t /\ f.uses = {t}
  BY DEF ThingFrame
<1> HIDE DEF f
<1>3. EnrolmentsExpect(thing, enrolment, stale', "thing.end", f)
  BY <1>2 DEF EnrolmentsExpect
<1>4. Moved(p, "thing.end", f)
  BY <1>1, Entered
<1> QED
  BY <1>1, <1>3, <1>4, EnrolRead

LEMMA EndAllKept ==
  ASSUME HandlersOK, EnrolInv, Watch(EnrolmentsChanged), NEW p \in Procs,
         EndAll(p)
  PROVE  HandlersOK' /\ EnrolInv' /\ AdmissionsKept /\ DeletionsKept
<1> DEFINE f == frame[p]
           t == f.id
<1>1. EnrolmentsExpect(thing, enrolment, stale, "thing.end", f)
  BY DEF EnrolInv, EndAll, At
<1>2. f \in ThingFrame /\ f.uses = {t} /\ t \in Things
  BY <1>1 DEF EnrolmentsExpect, ThingFrame
<1>3. Moved(p, "thing.delete", f) /\ thing' = thing
  BY WentOn DEF EndAll
<1>4. /\ enrolment \in [Things -> [Registrants -> {"absent", "active", "ended"}]]
      /\ enrolment' = [enrolment EXCEPT ![t] =
                         [r \in Registrants |-> IF @[r] = "active" THEN "ended" ELSE @[r]]]
  BY DEF EndAll, EnrolInv, EnrolmentsTypeOK
<1>5. /\ enrolment'[t] = [r \in Registrants |-> IF enrolment[t][r] = "active" THEN "ended" ELSE enrolment[t][r]]
      /\ \A o \in Things \ {t} : enrolment'[o] = enrolment[o]
  BY <1>2, <1>4
<1>6. enrolment'[t] \in [Registrants -> {"absent", "active", "ended"}]
  BY <1>2, <1>4, <1>5
<1>7. EnrolmentsTypeOK'
  BY <1>2, <1>3, <1>4, <1>6 DEF EnrolInv, EnrolmentsTypeOK
<1>8. Active(enrolment', t) = 0
  BY <1>5, CountNone
<1>9. AdmissionsKept /\ DeletionsKept
  BY <1>3, <1>5 DEF AdmissionsKept, DeletionsKept, Enrolled
<1> HIDE DEF f
<1>10. EnrolmentsExpect(thing', enrolment', stale', "thing.delete", f)
  BY <1>2, <1>8 DEF EnrolmentsExpect
<1> QED
  BY <1>3, <1>7, <1>9, <1>10, EnrolStepped

LEMMA MarkThingDeletedKept ==
  ASSUME HandlersOK, EnrolInv, Watch(EnrolmentsChanged), NEW p \in Procs,
         MarkThingDeleted(p)
  PROVE  HandlersOK' /\ EnrolInv' /\ AdmissionsKept /\ DeletionsKept
<1> DEFINE t == frame[p].id
           row == [thing[t] EXCEPT !.state = "deleted"]
<1>1. EnrolmentsExpect(thing, enrolment, stale, "thing.delete", frame[p])
  BY DEF EnrolInv, MarkThingDeleted, At
<1>2. t \in Things
  BY <1>1 DEF EnrolmentsExpect, ThingFrame
<1>3. row \in [state : RowStates, capacity : Capacities]
  BY <1>2 DEF EnrolInv, EnrolmentsTypeOK, RowStates
<1>4. Active(enrolment, t) = 0 \/ t \in stale'
  BY <1>1, FreshBefore DEF EnrolmentsExpect
<1>5. SetThing(t, row) /\ Moved(p, "idle", None)
  BY Finished DEF MarkThingDeleted
<1> HIDE DEF row
<1> QED
  BY <1>2, <1>3, <1>4, <1>5, ThingSet

LEMMA MemberStepsKept ==
  ASSUME HandlersOK, EnrolInv, Watch(EnrolmentsChanged), NEW p \in Procs,
         MemberSteps(p), UNCHANGED enrolments
  PROVE  HandlersOK' /\ EnrolInv' /\ AdmissionsKept /\ DeletionsKept
<1>1. PICK l \in {"idle", "member.leave", "member.delete"} : \E f : Moved(p, l, f)
  BY Passed, Entered, WentOn, Finished DEF MemberSteps, RegisterPublic, DeleteMember, ClearOnDelete, MarkDeleted
<1> QED
  BY <1>1, NotEnrolling, EnrolRead

LEMMA EnrolStep ==
  ASSUME HandlersOK, EnrolInv, EnrolmentsStep(Things)
  PROVE  HandlersOK' /\ EnrolInv' /\ AdmissionsKept /\ DeletionsKept
<1>1. PICK p \in Procs :
        \/ \E t \in Things : EnrolmentRoutes(p, t)
        \/ ContinueEnrolments(p)
        \/ MemberSteps(p) /\ UNCHANGED enrolments
  BY DEF EnrolmentsStep
<1>2. Watch(EnrolmentsChanged)
  BY DEF EnrolmentsStep
<1>3. ASSUME NEW t \in Things, EnrolmentRoutes(p, t)
      PROVE  HandlersOK' /\ EnrolInv' /\ AdmissionsKept /\ DeletionsKept
  <2>1. ASSUME NEW r \in Registrants,
               RegisterForEvent(p, t, r) \/ JoinGroup(p, t, r) \/ JoinMinistry(p, t, r) \/ JoinEntity(p, t, r)
        PROVE  Enrol(p, t, r)
    BY <2>1 DEF RegisterForEvent, JoinGroup, JoinMinistry, JoinEntity
  <2>2. RestoreThing(p, t) => \E c \in Capacities : RestoreThing(p, t)
    BY DEF Capacities
  <2> QED
    BY <1>2, <1>3, <2>1, <2>2, EnrolKept, RowChangedKept, ThingKept, DeleteThingKept DEF EnrolmentRoutes
<1>4. CASE ContinueEnrolments(p)
  <2>1. CASE Fail(p) /\ UNCHANGED enrolments
    BY <1>2, <2>1, Failed, NotEnrolling, EnrolRead
  <2> QED
    BY <1>2, <1>4, <2>1, CheckEnrolmentKept, InsertEnrolmentKept, EndAllKept, MarkThingDeletedKept
       DEF ContinueEnrolments
<1> QED
  BY <1>1, <1>2, <1>3, <1>4, MemberStepsKept

LEMMA EnrolInvariant == EnrolmentsSpec => [](HandlersOK /\ EnrolInv)
<1>1. HandlersInit /\ EnrolmentsInit => HandlersOK /\ EnrolInv
  <2> SUFFICES ASSUME HandlersInit, EnrolmentsInit PROVE HandlersOK /\ EnrolInv
    OBVIOUS
  <2>1. HandlersOK /\ \A p \in Procs : pc[p] = "idle"
    BY Begun
  <2>2. EnrolmentsTypeOK
    BY DEF EnrolmentsInit, EnrolmentsTypeOK, RowStates, Capacities
  <2> QED
    BY <2>1, <2>2, NotEnrolling DEF EnrolInv
<1>2. HandlersOK /\ EnrolInv /\ [EnrolmentsStep(Things)]_<<pc, frame, stale, people, enrolments>>
        => (HandlersOK /\ EnrolInv)'
  <2>1. ASSUME HandlersOK, EnrolInv, UNCHANGED <<pc, frame, stale, people, enrolments>>
        PROVE  (HandlersOK /\ EnrolInv)'
    BY <2>1 DEF HandlersOK, EnrolInv, EnrolmentsTypeOK, enrolments
  <2> QED
    BY <2>1, EnrolStep
<1> QED
  BY <1>1, <1>2, PTL DEF EnrolmentsSpec

(* Every event, group, ministry and entity and every row of theirs keeps   *)
(* its shape.                                                              *)
THEOREM EnrolmentsTypeCorrect == EnrolmentsSpec => []EnrolmentsTypeOK
<1>1. EnrolInv => EnrolmentsTypeOK
  BY DEF EnrolInv
<1> QED
  BY <1>1, EnrolInvariant, PTL

(* A registration or a membership that is added stays within the capacity  *)
(* of its event or group, for any capacities and any number of handlers,   *)
(* unless a row or the capacity changed between the count and the insert.  *)
THEOREM AdmissionsStayWithin == EnrolmentsSpec => AdmittedWithinCapacity
<1>1. HandlersOK /\ EnrolInv /\ [EnrolmentsStep(Things)]_<<pc, frame, stale, people, enrolments>>
        => [AdmissionsKept]_enrolments
  BY EnrolStep DEF enrolments
<1>2. AdmittedWithinCapacity <=> [][AdmissionsKept]_enrolments
  BY PTL DEF AdmittedWithinCapacity, AdmissionsKept
<1> QED
  BY <1>1, <1>2, EnrolInvariant, PTL DEF EnrolmentsSpec

(* softDelete of an event, a group or a ministry ends the rows first and   *)
(* so deletes it with nobody active, unless a row came in between.         *)
THEOREM DeletedEmpty == EnrolmentsSpec => DeletedWithNobodyActive
<1>1. HandlersOK /\ EnrolInv /\ [EnrolmentsStep(Things)]_<<pc, frame, stale, people, enrolments>>
        => [DeletionsKept]_enrolments
  BY EnrolStep DEF enrolments
<1>2. DeletedWithNobodyActive <=> [][DeletionsKept]_enrolments
  BY PTL DEF DeletedWithNobodyActive, DeletionsKept
<1> QED
  BY <1>1, <1>2, EnrolInvariant, PTL DEF EnrolmentsSpec

-----------------------------------------------------------------------------
(* The records of a dynamic module: descendants and cycles of any rows *)

(* D is the least set of records that has the children of n and, with a    *)
(* record, its children.                                                   *)
Spans(rows, n, D) ==
  /\ D \subseteq Nodes /\ Children(rows, {n}) \subseteq D
  /\ \A x \in D : Children(rows, {x}) \subseteq D
  /\ \A X \in SUBSET Nodes :
       Children(rows, {n}) \subseteq X /\ (\A x \in X : Children(rows, {x}) \subseteq X) => D \subseteq X

LEMMA DescendantsSpan ==
  ASSUME NEW rows, NEW n \in Nodes
  PROVE  Spans(rows, n, Descendants(rows, n))
<1> DEFINE next == [x \in Nodes |-> Children(rows, {x})]
           start == Children(rows, {n})
           D == Descendants(rows, n)
<1>1. \A x \in Nodes : next[x] = Children(rows, {x}) /\ Children(rows, {x}) \subseteq Nodes
  BY DEF Children
<1>2. Closes(next, Nodes) /\ start \in SUBSET Nodes
  BY <1>1 DEF Closes
<1>3. D = Reach(Nodes, start, next)
  BY DEF Descendants
<1> HIDE DEF next, start, D
<1>4. LeastFrom(Nodes, start, next, D)
  BY <1>2, <1>3, Reached, NodesAssumption
<1> USE DEF start
<1>5. ASSUME NEW X \in SUBSET Nodes, start \subseteq X, \A x \in X : Children(rows, {x}) \subseteq X
      PROVE  D \subseteq X
  <2>1. Closes(next, X)
    BY <1>1, <1>5 DEF Closes
  <2> QED
    BY <1>4, <1>5, <2>1 DEF LeastFrom
<1> QED
  BY <1>1, <1>4, <1>5 DEF LeastFrom, Closes, Spans, D

(* A live record is among the descendants of its parent, and so are its    *)
(* own.                                                                    *)
LEMMA ParentSpans ==
  ASSUME NEW rows, NEW x \in Nodes, rows[x].state = "live", rows[x].parent \in Nodes
  PROVE  LET y == rows[x].parent IN
         x \in Descendants(rows, y) /\ Descendants(rows, x) \subseteq Descendants(rows, y)
<1> DEFINE y == rows[x].parent  D == Descendants(rows, y)
<1>1. Spans(rows, y, D) /\ Spans(rows, x, Descendants(rows, x))
  BY DescendantsSpan
<1>2. x \in Children(rows, {y})
  BY DEF Children
<1> HIDE DEF y, D
<1>3. x \in D /\ Children(rows, {x}) \subseteq D /\ D \in SUBSET Nodes
  BY <1>1, <1>2 DEF Spans
<1>4. Descendants(rows, x) \subseteq D
  BY <1>1, <1>3 DEF Spans
<1> QED
  BY <1>3, <1>4 DEF y, D

(* The parent of a record on a cycle is on one. *)
LEMMA CycleGoesUp ==
  ASSUME NEW rows, NEW x \in OnCycle(rows)
  PROVE  x \in Nodes /\ rows[x].state = "live" /\ rows[x].parent \in OnCycle(rows)
<1> DEFINE D == Descendants(rows, x)
           y == rows[x].parent
           X == {z \in D : rows[z].state = "live" /\ rows[z].parent \in D \cup {x}}
<1>1. x \in Nodes /\ rows[x].state = "live" /\ x \in D
  BY DEF OnCycle
<1>2. Spans(rows, x, D)
  BY <1>1, DescendantsSpan
<1> HIDE DEF D
<1>3. /\ X \in SUBSET Nodes
      /\ Children(rows, {x}) \subseteq X
      /\ \A z \in X : Children(rows, {z}) \subseteq X
  BY <1>2 DEF Spans, Children
<1>4. D \subseteq X
  <2> HIDE DEF X
  <2> QED
    BY <1>2, <1>3 DEF Spans
<1>5. y \in D /\ y \in Nodes /\ rows[y].state = "live"
  BY <1>1, <1>2, <1>4 DEF Spans
<1>6. D \subseteq Descendants(rows, y)
  BY <1>1, <1>5, ParentSpans DEF D
<1> QED
  BY <1>1, <1>5, <1>6 DEF OnCycle

(* Live records that have no way up but to each other are not without a    *)
(* cycle: the one with the most descendants would have a parent with more. *)
LEMMA NoWayOut ==
  ASSUME NEW rows, NEW S \in SUBSET Nodes, S # {},
         \A x \in S : rows[x].state = "live" /\ rows[x].parent \in S
  PROVE  OnCycle(rows) # {}
<1> SUFFICES ASSUME OnCycle(rows) = {}
             PROVE  FALSE
  OBVIOUS
<1> DEFINE Rest(x) == Nodes \ Descendants(rows, x)
           Left == {Cardinality(Rest(x)) : x \in S}
<1>1. \A x \in S : IsFiniteSet(Rest(x)) /\ Cardinality(Rest(x)) \in Nat
  BY NodesAssumption, FS_Difference, FS_CardinalityType
<1>2. PICK n \in Left : \A m \in Left : n <= m
  <2>1. Left \in SUBSET Nat /\ Left # {}
    BY <1>1
  <2> HIDE DEF Left
  <2> QED
    BY <2>1, LeastNumber
<1>3. PICK x \in S : n = Cardinality(Rest(x))
  OBVIOUS
<1> DEFINE y == rows[x].parent
<1>4. x \in Nodes /\ y \in S /\ y \in Nodes /\ rows[x].state = "live"
  OBVIOUS
<1>5. x \in Descendants(rows, y) /\ Descendants(rows, x) \subseteq Descendants(rows, y)
  BY <1>4, ParentSpans
<1>6. x \notin Descendants(rows, x)
  BY <1>4 DEF OnCycle
<1>7. Rest(y) \subseteq Rest(x) /\ Rest(y) # Rest(x)
  BY <1>4, <1>5, <1>6
<1>8. Cardinality(Rest(y)) \in Left
  BY <1>4
<1> HIDE DEF Rest, Left, y
<1>9. Cardinality(Rest(y)) <= Cardinality(Rest(x)) /\ Cardinality(Rest(y)) # Cardinality(Rest(x))
  BY <1>1, <1>3, <1>7, FS_Subset
<1> QED
  BY <1>1, <1>2, <1>3, <1>4, <1>8, <1>9

-----------------------------------------------------------------------------
(* The handlers of the tree *)

NodeRow  == [state : RowStates, parent : Nodes \cup {None}]
PutFrame == [id : Nodes, parent : Nodes \cup {None}, uses : {Nodes}]

(* r, if it names a record at all, names one that is there. *)
IsThere(rows, r) == r # None => rows[r].state # "absent"

(* X has the fresh records below n, and what n is put under is not in it. *)
Apart(rows, old, n, parent, X) ==
  parent # n /\ parent \notin X /\ Children(rows, {n} \cup X) \ old \subseteq X

(* What a handler at label l with locals f knows of the rows: it may put   *)
(* the record where it was asked to, but for what has changed since.       *)
KnowsTree(rows, old, l, f) ==
  /\ l \in {"idle", "node.write"}
  /\ l = "node.write" =>
       /\ f \in PutFrame /\ IsThere(rows, f.id) /\ IsThere(rows, f.parent)
       /\ f.parent # None => \E X \in SUBSET Nodes : Apart(rows, old, f.id, f.parent, X)

NodesOK ==
  /\ node \in [Nodes -> NodeRow]
  /\ \A n \in Nodes : IsThere(node, node[n].parent)

TreeInv ==
  /\ NodesOK /\ HandlersOK
  /\ \A p \in Procs : KnowsTree(node, stale, pc[p], frame[p])

(* A step puts a row at n that was there or comes from nowhere, and no     *)
(* handler but p moves.                                                    *)
TreeStep(p, n, row) ==
  /\ SetNode(n, row) /\ row \in NodeRow /\ IsThere(node, row.parent)
  /\ row.state # "absent"
  /\ Watch(TreeChanged) /\ HandlersOK' /\ Others(p)

LEMMA NodeSet ==
  ASSUME TreeInv, NEW n \in Nodes, NEW row \in NodeRow, SetNode(n, row)
  PROVE  /\ node' \in [Nodes -> NodeRow] /\ node'[n] = row
         /\ \A x \in Nodes : x # n => node'[x] = node[x]
  BY DEF TreeInv, NodesOK, SetNode

(* What another handler knows stays true: a row that changed is one it     *)
(* uses, and is stale from now on.                                         *)
LEMMA StillKnowsTree ==
  ASSUME TreeInv, NEW n \in Nodes, NEW row, NEW p \in Procs, TreeStep(p, n, row),
         NEW q \in Procs, q # p
  PROVE  KnowsTree(node', stale', pc'[q], frame'[q])
<1> DEFINE f == frame[q]
<1>1. pc'[q] = pc[q] /\ frame'[q] = f
  BY DEF TreeStep, Others
<1>2. KnowsTree(node, stale, pc[q], f)
  BY DEF TreeInv
<1>3. /\ node' \in [Nodes -> NodeRow] /\ node'[n] = row /\ node \in [Nodes -> NodeRow]
      /\ \A x \in Nodes : x # n => node'[x] = node[x]
      /\ row.state # "absent" /\ Watch(TreeChanged)
  BY NodeSet DEF TreeStep, TreeInv, NodesOK
<1> SUFFICES ASSUME pc[q] = "node.write"
             PROVE  KnowsTree(node', stale', "node.write", f)
  BY <1>1, <1>2 DEF KnowsTree
<1>4. /\ f \in PutFrame /\ IsThere(node, f.id) /\ IsThere(node, f.parent)
      /\ f.parent # None => \E X \in SUBSET Nodes : Apart(node, stale, f.id, f.parent, X)
  BY <1>2 DEF KnowsTree
<1> HIDE DEF f
<1>5. IsThere(node', f.id) /\ IsThere(node', f.parent)
  BY <1>3, <1>4, NodesAssumption DEF IsThere, PutFrame
<1>6. ASSUME NEW r \in Nodes, r \notin stale'
      PROVE  node'[r] = node[r] /\ r \notin stale
  <2>1. r \notin stale
    BY <1>3, <1>6, FreshBefore
  <2>2. r \in frame[q].uses /\ pc[q] # "idle" /\ pc'[q] = pc[q]
    BY <1>1, <1>4 DEF PutFrame, f
  <2>3. r \notin TreeChanged
    BY <1>3, <1>6, <2>2, Unwatched
  <2> QED
    BY <1>3, <2>1, <2>3 DEF TreeChanged, ChangedIn
<1>7. ASSUME NEW X \in SUBSET Nodes, Apart(node, stale, f.id, f.parent, X)
      PROVE  Apart(node', stale', f.id, f.parent, X)
  BY <1>6, <1>7 DEF Apart, Children
<1> QED
  BY <1>4, <1>5, <1>7 DEF KnowsTree

LEMMA NodesStayOK ==
  ASSUME TreeInv, NEW n \in Nodes, NEW row, NEW p \in Procs, TreeStep(p, n, row)
  PROVE  NodesOK'
<1>1. /\ node' \in [Nodes -> NodeRow] /\ node'[n] = row
      /\ \A x \in Nodes : x # n => node'[x] = node[x]
      /\ row.state # "absent" /\ row \in NodeRow /\ IsThere(node, row.parent)
  BY NodeSet DEF TreeStep
<1>2. ASSUME NEW x \in Nodes
      PROVE  IsThere(node', node'[x].parent)
  <2>1. IsThere(node, node'[x].parent) /\ node'[x].parent \in Nodes \cup {None}
    BY <1>1 DEF TreeInv, NodesOK, NodeRow
  <2> QED
    BY <1>1, <2>1 DEF IsThere
<1> QED
  BY <1>1, <1>2 DEF NodesOK

(* A step whose handler is idle afterwards. *)
LEMMA TreeKept ==
  ASSUME TreeInv, NEW n \in Nodes, NEW row, NEW p \in Procs, TreeStep(p, n, row), pc'[p] = "idle"
  PROVE  TreeInv'
<1>1. ASSUME NEW q \in Procs
      PROVE  KnowsTree(node', stale', pc'[q], frame'[q])
  BY StillKnowsTree DEF KnowsTree
<1> QED
  BY <1>1, NodesStayOK DEF TreeInv, TreeStep

(* A step that leaves the rows alone. *)
LEMMA TreeUnchanged ==
  ASSUME TreeInv, UNCHANGED node, Watch(TreeChanged), HandlersOK', NEW p \in Procs, Others(p),
         KnowsTree(node, stale, pc'[p], frame'[p])
  PROVE  TreeInv'
<1>1. stale' = stale
  BY DEF Watch, TreeChanged, ChangedIn, TreeInv, NodesOK
<1>2. ASSUME NEW q \in Procs
      PROVE  KnowsTree(node', stale', pc'[q], frame'[q])
  BY <1>1 DEF TreeInv, Others
<1> QED
  BY <1>2 DEF TreeInv, NodesOK

-----------------------------------------------------------------------------
(* What each step does to the cycles *)

CyclesCome ==
  /\ OnCycle(node') # {} /\ OnCycle(node) = {}
  /\ ~\E n \in Nodes : node[n].state = "deleted" /\ node'[n].state = "live"
  /\ OnCycle(node') \cap stale' = {}

(* Records that are on a cycle only now are not all as they were. *)
LEMMA CycleHasRow ==
  ASSUME TreeInv, NEW n \in Nodes, NEW row, NEW p \in Procs, TreeStep(p, n, row), CyclesCome
  PROVE  n \in OnCycle(node')
<1> SUFFICES ASSUME n \notin OnCycle(node')
             PROVE  FALSE
  OBVIOUS
<1>1. \A x \in Nodes : x # n => node'[x] = node[x]
  BY NodeSet DEF TreeStep
<1> DEFINE S == OnCycle(node')
<1>2. \A x \in S : x \in Nodes /\ node'[x].state = "live" /\ node'[x].parent \in S
  BY CycleGoesUp
<1> HIDE DEF S
<1>3. S \in SUBSET Nodes /\ S # {} /\ \A x \in S : node[x].state = "live" /\ node[x].parent \in S
  BY <1>1, <1>2 DEF CyclesCome, S
<1> QED
  BY <1>3, NoWayOut DEF CyclesCome

(* A new record, with nothing below it, closes none. *)
LEMMA CreateClosesNone ==
  ASSUME TreeInv, NEW n \in Nodes, NEW row, NEW p \in Procs, TreeStep(p, n, row),
         node[n].state = "absent"
  PROVE  ~CyclesCome
<1> SUFFICES ASSUME CyclesCome
             PROVE  FALSE
  OBVIOUS
<1> DEFINE S == OnCycle(node')
           T == S \ {n}
<1>1. n \in S
  BY CycleHasRow
<1>2. \A x \in S : x \in Nodes /\ node'[x].state = "live" /\ node'[x].parent \in S
  BY CycleGoesUp
<1>3. /\ node'[n] = row /\ \A x \in Nodes : x # n => node'[x] = node[x]
      /\ IsThere(node, row.parent)
  BY NodeSet DEF TreeStep
<1> HIDE DEF S
<1>4. row.parent \in T
  BY <1>1, <1>2, <1>3, NodesAssumption DEF IsThere
<1>5. ASSUME NEW x \in T
      PROVE  node[x].state = "live" /\ node[x].parent \in T
  <2>1. node[x].state = "live" /\ node[x].parent \in S /\ x \in Nodes
    BY <1>2, <1>3
  <2>2. node[x].parent # n
    BY <2>1, NodesAssumption DEF TreeInv, NodesOK, IsThere
  <2> QED
    BY <2>1, <2>2
<1>6. T \in SUBSET Nodes /\ T # {}
  BY <1>2, <1>4
<1> HIDE DEF T
<1> QED
  BY <1>5, <1>6, NoWayOut DEF CyclesCome

(* The write of a move, if what it closes has not changed since the check. *)
LEMMA WriteClosesNone ==
  ASSUME TreeInv, NEW n \in Nodes, NEW row, NEW p \in Procs, TreeStep(p, n, row),
         row.parent # None => \E X \in SUBSET Nodes : Apart(node, stale, n, row.parent, X)
  PROVE  ~CyclesCome
<1> SUFFICES ASSUME CyclesCome
             PROVE  FALSE
  OBVIOUS
<1> DEFINE S == OnCycle(node')
<1>1. n \in S
  BY CycleHasRow
<1>2. \A x \in S : x \in Nodes /\ node'[x].state = "live" /\ node'[x].parent \in S
  BY CycleGoesUp
<1>3. node'[n] = row /\ \A x \in Nodes : x # n => node'[x] = node[x]
  BY NodeSet DEF TreeStep
<1>4. S \cap stale = {}
  BY FreshBefore DEF CyclesCome, TreeStep
<1> HIDE DEF S
<1>5. row.parent \in S /\ row.parent # None
  BY <1>1, <1>2, <1>3, NodesAssumption
<1>6. PICK X \in SUBSET Nodes : Apart(node, stale, n, row.parent, X)
  BY <1>5
<1> DEFINE T == S \ (X \cup {n})
<1>7. row.parent \in T
  BY <1>5, <1>6 DEF Apart
<1>8. ASSUME NEW x \in T
      PROVE  node[x].state = "live" /\ node[x].parent \in T
  <2>1. node[x].state = "live" /\ node[x].parent \in S /\ x \in Nodes
    BY <1>2, <1>3
  <2>2. node[x].parent \notin {n} \cup X
    BY <2>1, <1>4, <1>6 DEF Apart, Children
  <2> QED
    BY <2>1, <2>2
<1>9. T \in SUBSET Nodes /\ T # {}
  BY <1>2, <1>7
<1> HIDE DEF T
<1> QED
  BY <1>8, <1>9, NoWayOut DEF CyclesCome

-----------------------------------------------------------------------------
(* One lemma per call of the tree *)

TreeStepOK == TreeInv' /\ (node' # node => ~CyclesCome)

LEMMA TreeCreates ==
  ASSUME TreeInv, NEW p \in Procs, NEW n \in Nodes, NEW parent \in Nodes \cup {None},
         CreateNode(p, n, parent), Watch(TreeChanged)
  PROVE  TreeStepOK
<1> DEFINE row == [state |-> "live", parent |-> parent]
<1>1. Moved(p, "idle", frame[p])
  BY Passed DEF CreateNode, TreeInv
<1>2. TreeStep(p, n, row) /\ node[n].state = "absent"
  BY <1>1 DEF CreateNode, TreeStep, Moved, NodeRow, RowStates, IsThere, IsLive
<1> QED
  BY <1>1, <1>2, TreeKept, CreateClosesNone DEF TreeStepOK, Moved

LEMMA TreeDeletes ==
  ASSUME TreeInv, NEW p \in Procs, NEW n \in Nodes, DeleteNode(p, n), Watch(TreeChanged)
  PROVE  TreeStepOK
<1> DEFINE row == [node[n] EXCEPT !.state = "deleted"]
<1>1. Moved(p, "idle", frame[p])
  BY Passed DEF DeleteNode, TreeInv
<1>2. node[n] \in NodeRow /\ IsThere(node, node[n].parent)
  BY DEF TreeInv, NodesOK
<1>3. row \in NodeRow /\ row.parent = node[n].parent /\ row.state = "deleted"
  BY <1>2 DEF NodeRow, RowStates
<1>4. SetNode(n, row)
  BY DEF DeleteNode
<1> HIDE DEF row
<1>5. TreeStep(p, n, row)
  BY <1>1, <1>2, <1>3, <1>4 DEF TreeStep, Moved
<1>6. ~CyclesCome
  <2>1. n \notin OnCycle(node')
    BY <1>3, <1>4, NodeSet DEF OnCycle
  <2> QED
    BY <2>1, <1>5, CycleHasRow
<1> QED
  BY <1>1, <1>5, <1>6, TreeKept DEF TreeStepOK, Moved

LEMMA TreeRestores ==
  ASSUME TreeInv, NEW p \in Procs, NEW n \in Nodes, RestoreNode(p, n), Watch(TreeChanged)
  PROVE  TreeStepOK
<1> DEFINE row == [node[n] EXCEPT !.state = "live"]
<1>1. Moved(p, "idle", frame[p])
  BY Passed DEF RestoreNode, TreeInv
<1>2. node[n] \in NodeRow /\ IsThere(node, node[n].parent) /\ node[n].state = "deleted"
  BY DEF TreeInv, NodesOK, RestoreNode
<1>3. row \in NodeRow /\ row.parent = node[n].parent /\ row.state = "live"
  BY <1>2 DEF NodeRow, RowStates
<1>4. SetNode(n, row)
  BY DEF RestoreNode
<1> HIDE DEF row
<1>5. TreeStep(p, n, row)
  BY <1>1, <1>2, <1>3, <1>4 DEF TreeStep, Moved
<1>6. ~CyclesCome
  BY <1>2, <1>3, <1>4, NodeSet DEF CyclesCome
<1> QED
  BY <1>1, <1>5, <1>6, TreeKept DEF TreeStepOK, Moved

LEMMA TreeMoves ==
  ASSUME TreeInv, NEW p \in Procs, NEW n \in Nodes, NEW parent \in Nodes \cup {None},
         MoveNode(p, n, parent), Watch(TreeChanged)
  PROVE  TreeStepOK
<1> DEFINE f == [id |-> n, parent |-> parent, uses |-> Nodes]
<1>1. Moved(p, "node.write", f) /\ UNCHANGED node
  BY Entered DEF MoveNode, TreeInv
<1>2. f \in PutFrame /\ f.id = n /\ f.parent = parent
  BY DEF PutFrame
<1>3. IsThere(node, n) /\ IsThere(node, parent)
  BY DEF MoveNode, IsLive, IsThere
<1>4. ASSUME parent # None
      PROVE  \E X \in SUBSET Nodes : Apart(node, stale, n, parent, X)
  <2> DEFINE X == Descendants(node, n)
  <2>1. Spans(node, n, X)
    BY DescendantsSpan
  <2>2. parent # n /\ parent \notin X
    BY <1>4 DEF MoveNode, MayMoveUnder
  <2> HIDE DEF X
  <2>3. X \in SUBSET Nodes /\ Children(node, {n} \cup X) \subseteq X
    BY <2>1 DEF Spans, Children
  <2> QED
    BY <2>2, <2>3 DEF Apart
<1> HIDE DEF f
<1>5. KnowsTree(node, stale, "node.write", f)
  BY <1>2, <1>3, <1>4 DEF KnowsTree
<1> QED
  BY <1>1, <1>5, TreeUnchanged DEF TreeStepOK, Moved

LEMMA TreeWrites ==
  ASSUME TreeInv, NEW p \in Procs, WriteParent(p), Watch(TreeChanged)
  PROVE  TreeStepOK
<1> DEFINE f == frame[p]
           row == [node[f.id] EXCEPT !.parent = f.parent]
<1>1. Moved(p, "idle", None)
  BY Finished DEF WriteParent, TreeInv
<1>2. /\ f \in PutFrame /\ IsThere(node, f.id) /\ IsThere(node, f.parent)
      /\ f.parent # None => \E X \in SUBSET Nodes : Apart(node, stale, f.id, f.parent, X)
  BY DEF WriteParent, At, TreeInv, KnowsTree
<1>3. f.id \in Nodes /\ f.parent \in Nodes \cup {None}
  BY <1>2 DEF PutFrame
<1>4. node[f.id] \in NodeRow /\ node[f.id].state # "absent"
  BY <1>2, <1>3, NodesAssumption DEF TreeInv, NodesOK, IsThere
<1>5. row \in NodeRow /\ row.parent = f.parent /\ row.state # "absent"
  BY <1>3, <1>4 DEF NodeRow
<1>6. SetNode(f.id, row)
  BY DEF WriteParent
<1> HIDE DEF row, f
<1>7. TreeStep(p, f.id, row)
  BY <1>1, <1>2, <1>3, <1>5, <1>6 DEF TreeStep, Moved
<1>8. ~CyclesCome
  BY <1>2, <1>3, <1>5, <1>7, WriteClosesNone
<1> QED
  BY <1>1, <1>3, <1>7, <1>8, TreeKept DEF TreeStepOK, Moved

LEMMA TreeFails ==
  ASSUME TreeInv, NEW p \in Procs, Fail(p), UNCHANGED node, Watch(TreeChanged)
  PROVE  TreeStepOK
<1>1. Moved(p, "idle", None)
  BY Failed DEF TreeInv
<1>2. KnowsTree(node, stale, "idle", None)
  BY DEF KnowsTree
<1> QED
  BY <1>1, <1>2, TreeUnchanged DEF TreeStepOK, Moved

LEMMA TreeInvStep == TreeInv /\ [TreeNext]_<<pc, frame, stale, node>> => TreeStepOK
<1> SUFFICES ASSUME TreeInv, [TreeNext]_<<pc, frame, stale, node>>
             PROVE  TreeStepOK
  OBVIOUS
<1>1. ASSUME NEW p \in Procs, TreeRoutes(p), Watch(TreeChanged)
      PROVE  TreeStepOK
  <2>1. PICK n \in Nodes :
          \/ DeleteNode(p, n) \/ RestoreNode(p, n)
          \/ \E parent \in Nodes \cup {None} : CreateNode(p, n, parent) \/ MoveNode(p, n, parent)
    BY <1>1 DEF TreeRoutes
  <2> QED
    BY <1>1, <2>1, TreeCreates, TreeMoves, TreeDeletes, TreeRestores
<1>2. ASSUME NEW p \in Procs, ContinueTree(p), Watch(TreeChanged)
      PROVE  TreeStepOK
  BY <1>2, TreeWrites, TreeFails DEF ContinueTree
<1>3. CASE UNCHANGED <<pc, frame, stale, node>>
  BY <1>3 DEF TreeStepOK, TreeInv, HandlersOK, NodesOK, KnowsTree, PutFrame, IsThere, Apart, Children
<1> QED
  BY <1>1, <1>2, <1>3 DEF TreeNext

(* Moving a record closes no cycle, whatever other handlers create, move   *)
(* and delete between its check and its write, unless a record of the      *)
(* cycle changed in between, or one came back from the trash.              *)
THEOREM MovesStayAcyclic == TreeSpec => MovesCloseNoCycle
<1>1. HandlersInit /\ TreeInit => TreeInv
  BY Begun DEF TreeInit, TreeInv, NodesOK, NodeRow, RowStates, KnowsTree, IsThere
<1>2. TreeInv /\ [TreeNext]_<<pc, frame, stale, node>> => TreeInv'
  BY TreeInvStep DEF TreeStepOK
<1>3. TreeInv /\ [TreeNext]_<<pc, frame, stale, node>> =>
        [OnCycle(node') # {} => OnCycle(node) # {}
           \/ (\E n \in Nodes : node[n].state = "deleted" /\ node'[n].state = "live")
           \/ OnCycle(node') \cap stale' # {}]_node
  BY TreeInvStep DEF TreeStepOK, CyclesCome
<1> QED
  BY <1>1, <1>2, <1>3, PTL DEF TreeSpec, MovesCloseNoCycle

-----------------------------------------------------------------------------
(* Forms and who is eligible for them: up and down any table *)

LEMMA UpSpans ==
  ASSUME NEW ids, IsFiniteSet(ids), NEW rows \in TreeRows(ids), NEW n \in ids
  PROVE  /\ n \in UpTo(rows, n) /\ UpTo(rows, n) \subseteq ids
         /\ \A x \in UpTo(rows, n) : \A y \in LiveRows(rows) :
              rows[x].live /\ rows[x].parent = y => y \in UpTo(rows, n)
         /\ \A X \in SUBSET ids :
              n \in X /\ (\A x \in X : \A y \in LiveRows(rows) : rows[x].live /\ rows[x].parent = y => y \in X)
                => UpTo(rows, n) \subseteq X
<1> DEFINE next == [x \in ids |-> {y \in LiveRows(rows) : rows[x].live /\ rows[x].parent = y}]
           R == UpTo(rows, n)
<1>1. DOMAIN rows = ids
  BY DEF TreeRows
<1>2. R = Reach(ids, {n}, next)
  BY <1>1 DEF UpTo
<1>3. \A x \in ids : next[x] = {y \in LiveRows(rows) : rows[x].live /\ rows[x].parent = y}
  OBVIOUS
<1>4. LiveRows(rows) \subseteq ids
  BY <1>1 DEF LiveRows
<1> HIDE DEF next, R
<1>5. Closes(next, ids)
  BY <1>3, <1>4 DEF Closes
<1>6. LeastFrom(ids, {n}, next, R)
  BY <1>2, <1>5, Reached
<1>7. n \in R /\ R \subseteq ids
  BY <1>6 DEF LeastFrom
<1>8. ASSUME NEW x \in R, NEW y \in LiveRows(rows), rows[x].live, rows[x].parent = y
      PROVE  y \in R
  BY <1>3, <1>6, <1>7, <1>8 DEF LeastFrom, Closes
<1>9. ASSUME NEW X \in SUBSET ids, n \in X,
             \A x \in X : \A y \in LiveRows(rows) : rows[x].live /\ rows[x].parent = y => y \in X
      PROVE  R \subseteq X
  <2>1. Closes(next, X)
    BY <1>3, <1>9 DEF Closes
  <2> QED
    BY <1>6, <1>9, <2>1 DEF LeastFrom
<1> QED
  BY <1>7, <1>8, <1>9 DEF R

LEMMA DownSpans ==
  ASSUME NEW ids, IsFiniteSet(ids), NEW rows \in TreeRows(ids), NEW n \in ids
  PROVE  /\ n \in DownTo(rows, n) /\ DownTo(rows, n) \subseteq ids
         /\ \A y \in LiveRows(rows) : rows[y].parent \in DownTo(rows, n) => y \in DownTo(rows, n)
         /\ \A X \in SUBSET ids :
              n \in X /\ (\A y \in LiveRows(rows) : rows[y].parent \in X => y \in X)
                => DownTo(rows, n) \subseteq X
<1> DEFINE next == [x \in ids |-> {y \in LiveRows(rows) : rows[y].parent = x}]
           R == DownTo(rows, n)
<1>1. DOMAIN rows = ids
  BY DEF TreeRows
<1>2. R = Reach(ids, {n}, next)
  BY <1>1 DEF DownTo
<1>3. \A x \in ids : next[x] = {y \in LiveRows(rows) : rows[y].parent = x}
  OBVIOUS
<1>4. LiveRows(rows) \subseteq ids
  BY <1>1 DEF LiveRows
<1> HIDE DEF next, R
<1>5. Closes(next, ids)
  BY <1>3, <1>4 DEF Closes
<1>6. LeastFrom(ids, {n}, next, R)
  BY <1>2, <1>5, Reached
<1>7. n \in R /\ R \subseteq ids
  BY <1>6 DEF LeastFrom
<1>8. ASSUME NEW y \in LiveRows(rows), rows[y].parent \in R
      PROVE  y \in R
  BY <1>3, <1>6, <1>7, <1>8 DEF LeastFrom, Closes
<1>9. ASSUME NEW X \in SUBSET ids, n \in X, \A y \in LiveRows(rows) : rows[y].parent \in X => y \in X
      PROVE  R \subseteq X
  <2>1. Closes(next, X)
    BY <1>3, <1>9 DEF Closes
  <2> QED
    BY <1>6, <1>9, <2>1 DEF LeastFrom
<1> QED
  BY <1>7, <1>8, <1>9 DEF R

(* The way up finds n from wherever the way down from n comes, unless n is *)
(* deleted; and the way down from n comes wherever the way up finds n.     *)
LEMMA DownThenUp ==
  ASSUME NEW ids, IsFiniteSet(ids), NEW rows \in TreeRows(ids), NEW n \in ids, rows[n].live,
         NEW m \in DownTo(rows, n)
  PROVE  n \in UpTo(rows, m)
<1> DEFINE L == LiveRows(rows)
           X == {x \in L : n \in UpTo(rows, x)}
<1>1. L \subseteq ids /\ n \in L /\ \A x \in L : rows[x].live
  BY DEF LiveRows, TreeRows
<1> HIDE DEF L
<1>2. n \in X /\ X \in SUBSET ids
  BY <1>1, UpSpans
<1>3. ASSUME NEW y \in L, rows[y].parent \in X
      PROVE  y \in X
  <2> DEFINE x == rows[y].parent
  <2>1. x \in L /\ n \in UpTo(rows, x) /\ x \in ids /\ y \in ids /\ rows[y].live
    BY <1>1, <1>3
  <2>2. y \in UpTo(rows, y)
    BY <2>1, UpSpans
  <2>3. x \in UpTo(rows, y)
    BY <2>1, <2>2, UpSpans DEF L
  <2> HIDE DEF x
  <2> DEFINE R == UpTo(rows, y)
  <2>4. /\ R \in SUBSET ids
        /\ \A v \in R : \A w \in LiveRows(rows) : rows[v].live /\ rows[v].parent = w => w \in R
    BY <2>1, UpSpans
  <2> HIDE DEF R
  <2>5. UpTo(rows, x) \subseteq R
    BY <2>1, <2>3, <2>4, UpSpans DEF R
  <2> QED
    BY <1>3, <2>1, <2>5 DEF R
<1> HIDE DEF X
<1>4. DownTo(rows, n) \subseteq X
  BY <1>2, <1>3, DownSpans DEF L
<1> QED
  BY <1>4 DEF X

LEMMA UpThenDown ==
  ASSUME NEW ids, IsFiniteSet(ids), NEW rows \in TreeRows(ids), NEW m \in ids,
         NEW n \in UpTo(rows, m)
  PROVE  m \in DownTo(rows, n)
<1> DEFINE X == {x \in ids : m \in DownTo(rows, x) /\ (x = m \/ rows[m].live)}
<1>1. m \in X /\ X \in SUBSET ids
  BY DownSpans
<1>2. ASSUME NEW x \in X, NEW y \in LiveRows(rows), rows[x].live, rows[x].parent = y
      PROVE  y \in X
  <2>1. x \in LiveRows(rows) /\ x \in ids /\ y \in ids /\ m \in DownTo(rows, x) /\ rows[m].live
    BY <1>2 DEF LiveRows, TreeRows
  <2> DEFINE R == DownTo(rows, y)
  <2>2. y \in R
    BY <2>1, DownSpans
  <2>3. x \in R
    BY <1>2, <2>1, <2>2, DownSpans
  <2>4. R \in SUBSET ids /\ \A w \in LiveRows(rows) : rows[w].parent \in R => w \in R
    BY <2>1, DownSpans
  <2> HIDE DEF R
  <2>5. DownTo(rows, x) \subseteq R
    BY <2>1, <2>3, <2>4, DownSpans
  <2> QED
    BY <2>1, <2>5 DEF R
<1> HIDE DEF X
<1>3. UpTo(rows, m) \subseteq X
  BY <1>1, <1>2, UpSpans
<1> QED
  BY <1>3 DEF X

-----------------------------------------------------------------------------
(* The two directions of the resolver *)

ScopeTags == {"user", "branch", "dynamic_module_record", "member", "visitor", "user_category"}

LEMMA ScopeKinds ==
  ASSUME NEW s \in Scopes
  PROVE  /\ s = <<s[1], s[2]>> /\ s[1] \in ScopeTags
         /\ s[1] = "user" => s[2] \in Readers
         /\ s[1] = "branch" => s[2] \in Sites
         /\ s[1] = "dynamic_module_record" => s[2] \in Units
         /\ s[1] = "member" => s[2] \in Persons
         /\ s[1] = "visitor" => s[2] \in Contacts
         /\ s[1] = "user_category" => s[2] \in Categories
  BY DEF Scopes, ScopeTags

LEMMA OrgTyped ==
  ASSUME org \in Organisations
  PROVE  /\ org.site \in TreeRows(Sites) /\ org.unit \in TreeRows(Units)
         /\ \A u \in Readers : /\ org.reader[u].site \in Sites \cup {None}
                               /\ org.reader[u].unit \in Units \cup {None}
                               /\ org.reader[u].category \in Categories \cup {None}
         /\ \A m \in Persons : org.person[m] \in Sites
         /\ \A v \in Contacts : org.contact[v].assignee \in Readers \cup {None}
  BY DEF Organisations

LEMMA EligibleAreReaders ==
  ASSUME org \in Organisations, NEW s \in Scopes
  PROVE  EligibleFor(s) \subseteq Readers
<1>1. UsersOf(s) \subseteq Readers
  BY ScopeKinds, OrgTyped DEF UsersOf, UsersAt, ScopeTags
<1> QED
  BY <1>1 DEF EligibleFor, Leaders

(* The forms of a user by the branch it belongs to. *)
LEMMA AtBranch ==
  ASSUME org \in Organisations, NEW u \in Readers, NEW b \in Sites
  PROVE  /\ u \in UsersAt(DownTo(org.site, b)) /\ org.site[b].live => <<"branch", b>> \in ScopesFor(u)
         /\ <<"branch", b>> \in ScopesFor(u) =>
              u \in UsersAt(DownTo(org.site, b)) \/ <<u, <<"branch", b>>>> \in org.leads
<1> DEFINE c == org.reader[u].site
<1>1. org.site \in TreeRows(Sites) /\ IsFiniteSet(Sites) /\ c \in Sites \cup {None} /\ None \notin Sites
  BY OrgTyped, PartsAssumption
<1>2. u \in UsersAt(DownTo(org.site, b)) <=> c \in DownTo(org.site, b)
  BY DEF UsersAt
<1>3. <<"branch", b>> \in BranchScopes(u) <=> c # None /\ b \in UpTo(org.site, c)
  BY DEF BranchScopes
<1> HIDE DEF c
<1>4. ASSUME c \in DownTo(org.site, b), org.site[b].live
      PROVE  c # None /\ b \in UpTo(org.site, c)
  <2>1. DownTo(org.site, b) \subseteq Sites
    BY <1>1, DownSpans
  <2> QED
    BY <1>1, <1>4, <2>1, DownThenUp
<1>5. ASSUME c # None, b \in UpTo(org.site, c)
      PROVE  c \in DownTo(org.site, b)
  BY <1>1, <1>5, UpThenDown
<1>6. <<"branch", b>> \in ScopesFor(u) <=>
        <<"branch", b>> \in BranchScopes(u) \/ <<u, <<"branch", b>>>> \in org.leads
  BY DEF ScopesFor, DepartmentScopes, AppointmentsOf, Scopes
<1> QED
  BY <1>2, <1>3, <1>4, <1>5, <1>6

LEMMA InDepartment ==
  ASSUME org \in Organisations, NEW u \in Readers, NEW d \in Units
  PROVE  LET s == <<"dynamic_module_record", d>>
             below == org.reader[u].unit \in DownTo(org.unit, d) IN
         /\ below /\ org.unit[d].live => s \in ScopesFor(u)
         /\ s \in ScopesFor(u) => below \/ <<u, s>> \in org.leads
<1> DEFINE c == org.reader[u].unit  s == <<"dynamic_module_record", d>>
<1>1. org.unit \in TreeRows(Units) /\ IsFiniteSet(Units) /\ c \in Units \cup {None} /\ None \notin Units
  BY OrgTyped, PartsAssumption
<1>2. s \in DepartmentScopes(u) <=> c # None /\ d \in UpTo(org.unit, c)
  BY DEF DepartmentScopes
<1>3. s \in ScopesFor(u) <=> s \in DepartmentScopes(u) \/ <<u, s>> \in org.leads
  BY DEF ScopesFor, BranchScopes, AppointmentsOf, Scopes
<1> HIDE DEF c, s
<1>4. ASSUME c \in DownTo(org.unit, d), org.unit[d].live
      PROVE  c # None /\ d \in UpTo(org.unit, c)
  <2>1. DownTo(org.unit, d) \subseteq Units
    BY <1>1, DownSpans
  <2> QED
    BY <1>1, <1>4, <2>1, DownThenUp
<1>5. ASSUME c # None, d \in UpTo(org.unit, c)
      PROVE  c \in DownTo(org.unit, d)
  BY <1>1, <1>5, UpThenDown
<1> QED
  BY <1>2, <1>3, <1>4, <1>5 DEF c, s

(* Who is eligible finds the form, unless the walk starts at a deleted     *)
(* row; and who finds it is eligible, but for who leads a member's branch. *)
LEMMA ToldFinds ==
  ASSUME org \in Organisations, NEW s \in Scopes, s \in assigned, ~StartsDeleted(s),
         NEW u \in Readers, u \in EligibleFor(s)
  PROVE  s \in ResourcesFor(u)
<1>1. s = <<s[1], s[2]>> /\ s[1] \in ScopeTags
  BY ScopeKinds
<1>2. CASE u \in Leaders(s)
  BY <1>2 DEF Leaders, ResourcesFor, ScopesFor, AppointmentsOf
<1>3. CASE u \in UsersOf(s)
  <2>1. CASE s[1] = "user"
    BY <1>1, <1>3, <2>1 DEF UsersOf, ResourcesFor, ScopesFor
  <2>2. CASE s[1] = "visitor"
    BY <1>1, <1>3, <2>2, ScopeKinds DEF UsersOf, ResourcesFor, ScopesFor, StartsDeleted
  <2>3. CASE s[1] = "user_category"
    BY <1>1, <1>3, <2>3, ScopeKinds, PartsAssumption DEF UsersOf, ResourcesFor, ScopesFor
  <2>4. CASE s[1] = "branch"
    <3>1. s[2] \in Sites /\ org.site[s[2]].live /\ u \in UsersAt(DownTo(org.site, s[2]))
      BY <1>3, <2>4, ScopeKinds DEF UsersOf, StartsDeleted
    <3> QED
      BY <1>1, <2>4, <3>1, AtBranch DEF ResourcesFor
  <2>5. CASE s[1] = "member"
    <3> DEFINE b == org.person[s[2]]
    <3>1. b \in Sites /\ org.site[b].live /\ u \in UsersAt(DownTo(org.site, b))
      BY <1>3, <2>5, ScopeKinds, OrgTyped DEF UsersOf, StartsDeleted
    <3>2. <<"branch", b>> \in ScopesFor(u)
      BY <3>1, AtBranch
    <3> QED
      BY <2>5, <3>2 DEF ResourcesFor
  <2>6. CASE s[1] = "dynamic_module_record"
    <3>1. s[2] \in Units /\ org.unit[s[2]].live /\ org.reader[u].unit \in DownTo(org.unit, s[2])
      BY <1>3, <2>6, ScopeKinds DEF UsersOf, StartsDeleted
    <3> QED
      BY <1>1, <2>6, <3>1, InDepartment DEF ResourcesFor
  <2> QED
    BY <1>1, <2>1, <2>2, <2>3, <2>4, <2>5, <2>6 DEF ScopeTags
<1> QED
  BY <1>2, <1>3 DEF EligibleFor

LEMMA FinderIsEligible ==
  ASSUME org \in Organisations, NEW s \in Scopes, NEW u \in Readers, s \in ResourcesFor(u)
  PROVE  u \in EligibleFor(s) \/ LeadsBranchOf(u, s)
<1>1. s = <<s[1], s[2]>> /\ s[1] \in ScopeTags
  BY ScopeKinds
<1> SUFFICES ASSUME <<u, s>> \notin org.leads
             PROVE  u \in UsersOf(s) \/ LeadsBranchOf(u, s)
  BY DEF EligibleFor, Leaders
<1>2. s \in ScopesFor(u) \/ (s[1] = "member" /\ <<"branch", org.person[s[2]]>> \in ScopesFor(u))
  BY DEF ResourcesFor
<1>3. CASE s[1] = "user"
  BY <1>1, <1>2, <1>3 DEF UsersOf, ScopesFor, AppointmentsOf, BranchScopes, DepartmentScopes
<1>4. CASE s[1] = "visitor"
  BY <1>1, <1>2, <1>4, PartsAssumption
     DEF UsersOf, ScopesFor, AppointmentsOf, BranchScopes, DepartmentScopes
<1>5. CASE s[1] = "user_category"
  BY <1>1, <1>2, <1>5 DEF UsersOf, ScopesFor, AppointmentsOf, BranchScopes, DepartmentScopes
<1>6. CASE s[1] = "branch"
  <2>1. s[2] \in Sites /\ u \in UsersAt(DownTo(org.site, s[2]))
    BY <1>1, <1>2, <1>6, ScopeKinds, AtBranch
  <2> QED
    BY <1>6, <2>1 DEF UsersOf
<1>7. CASE s[1] = "member"
  <2> DEFINE b == org.person[s[2]]
  <2>1. b \in Sites
    BY <1>7, ScopeKinds, OrgTyped
  <2>2. s \notin ScopesFor(u)
    BY <1>1, <1>7 DEF ScopesFor, AppointmentsOf, BranchScopes, DepartmentScopes
  <2>3. u \in UsersAt(DownTo(org.site, b)) \/ <<u, <<"branch", b>>>> \in org.leads
    BY <1>2, <2>1, <2>2, AtBranch
  <2> QED
    BY <1>7, <2>3 DEF UsersOf, LeadsBranchOf
<1>8. CASE s[1] = "dynamic_module_record"
  <2>1. s[2] \in Units /\ org.reader[u].unit \in DownTo(org.unit, s[2])
    BY <1>1, <1>2, <1>8, ScopeKinds, InDepartment
  <2> QED
    BY <1>8, <2>1 DEF UsersOf
<1> QED
  BY <1>1, <1>3, <1>4, <1>5, <1>6, <1>7, <1>8 DEF ScopeTags

-----------------------------------------------------------------------------
(* Telling them *)

TellFrame == [scope : Scopes, left : SUBSET Readers, told : SUBSET Readers,
              missed : SUBSET Readers, uses : {{}}]

(* What a handler at label l with locals f knows: nobody who is eligible   *)
(* is forgotten on the way, and nobody else is told.                       *)
KnowsEligible(l, f) ==
  /\ l \in {"idle", "form.resolve", "form.tell"}
  /\ l # "idle" => f \in TellFrame
  /\ l = "form.resolve" => f.told = {} /\ f.missed = {}
  /\ l = "form.tell" => f.left \cup f.told \cup f.missed = EligibleFor(f.scope)

EligibilityInv ==
  /\ HandlersOK /\ org \in Organisations /\ assigned \subseteq Scopes
  /\ \A p \in Procs : KnowsEligible(pc[p], frame[p])

LEMMA EligibilityMoved ==
  ASSUME EligibilityInv, NEW p \in Procs, NEW l, NEW f, Moved(p, l, f), UNCHANGED org,
         assigned' \subseteq Scopes, KnowsEligible(l, f)
  PROVE  EligibilityInv'
<1>1. ASSUME NEW s
      PROVE  EligibleFor(s)' = EligibleFor(s)
  BY DEF EligibleFor, UsersOf, UsersAt, Leaders
<1>2. ASSUME NEW q \in Procs
      PROVE  KnowsEligible(pc'[q], frame'[q])
  BY DEF EligibilityInv, Moved, Others
<1>3. ASSUME NEW q \in Procs
      PROVE  KnowsEligible(pc[q], frame[q])'
  BY <1>1, <1>2 DEF KnowsEligible
<1> QED
  BY <1>3 DEF EligibilityInv, Moved

LEMMA EligibilityStep ==
  EligibilityInv /\ [EligibilityNext]_<<pc, frame, stale, eligibility>> => EligibilityInv'
<1> SUFFICES ASSUME EligibilityInv, [EligibilityNext]_<<pc, frame, stale, eligibility>>
             PROVE  EligibilityInv'
  OBVIOUS
<1> USE DEF eligibility
<1>1. HandlersOK /\ assigned \subseteq Scopes /\ \A q \in Procs : KnowsEligible(pc[q], frame[q])
  BY DEF EligibilityInv
<1>2. ASSUME NEW p \in Procs, NEW s \in Scopes, AssignForm(p, s)
      PROVE  EligibilityInv'
  <2> DEFINE f == [scope |-> s, left |-> {}, told |-> {}, missed |-> {}, uses |-> {}]
  <2>1. Moved(p, "form.resolve", f)
    BY <1>1, <1>2, Entered DEF AssignForm
  <2>2. KnowsEligible("form.resolve", f)
    BY DEF KnowsEligible, TellFrame
  <2> HIDE DEF f
  <2> QED
    BY <1>1, <1>2, <2>1, <2>2, EligibilityMoved DEF AssignForm
<1>3. ASSUME NEW p \in Procs, NEW s \in Scopes, UnassignForm(p, s)
      PROVE  EligibilityInv'
  <2>1. Moved(p, "idle", frame[p]) /\ KnowsEligible("idle", frame[p])
    BY <1>1, <1>3, Passed DEF UnassignForm, KnowsEligible
  <2> QED
    BY <1>1, <1>3, <2>1, EligibilityMoved DEF UnassignForm
<1>4. ASSUME NEW p \in Procs, ResolveUsers(p)
      PROVE  EligibilityInv'
  <2> DEFINE f == [frame[p] EXCEPT !.left = EligibleFor(frame[p].scope)]
  <2>1. Moved(p, "form.tell", f)
    BY <1>1, <1>4, Proceeded DEF ResolveUsers
  <2>2. frame[p] \in TellFrame
    BY <1>1, <1>4 DEF KnowsEligible, ResolveUsers, At
  <2>3. EligibleFor(frame[p].scope) \subseteq Readers
    BY <2>2, EligibleAreReaders DEF EligibilityInv, TellFrame
  <2>4. frame[p].told = {} /\ frame[p].missed = {}
    BY <1>1, <1>4 DEF KnowsEligible, ResolveUsers, At
  <2>5. /\ f \in TellFrame /\ f.scope = frame[p].scope /\ f.left = EligibleFor(frame[p].scope)
        /\ f.told = {} /\ f.missed = {}
    BY <2>2, <2>3, <2>4 DEF TellFrame
  <2> HIDE DEF f
  <2>6. KnowsEligible("form.tell", f)
    BY <2>5 DEF KnowsEligible
  <2> QED
    BY <1>1, <1>4, <2>1, <2>6, EligibilityMoved DEF ResolveUsers
<1>5. ASSUME NEW p \in Procs, NEW u \in Readers, TellUser(p, u)
      PROVE  EligibilityInv'
  <2> DEFINE f == frame[p]
             told == [f EXCEPT !.left = @ \ {u}, !.told = @ \cup {u}]
             missed == [f EXCEPT !.left = @ \ {u}, !.missed = @ \cup {u}]
  <2>1. Moved(p, "form.tell", told) \/ Moved(p, "form.tell", missed)
    BY <1>1, <1>5, Proceeded DEF TellUser
  <2>2. /\ f \in TellFrame /\ u \in f.left
        /\ f.left \cup f.told \cup f.missed = EligibleFor(f.scope)
    BY <1>1, <1>5 DEF KnowsEligible, TellUser, At
  <2>3. /\ told \in TellFrame /\ told.scope = f.scope
        /\ told.left = f.left \ {u} /\ told.told = f.told \cup {u} /\ told.missed = f.missed
    BY <2>2 DEF TellFrame
  <2>4. /\ missed \in TellFrame /\ missed.scope = f.scope
        /\ missed.left = f.left \ {u} /\ missed.missed = f.missed \cup {u} /\ missed.told = f.told
    BY <2>2 DEF TellFrame
  <2> HIDE DEF told, missed, f
  <2>5. KnowsEligible("form.tell", told) /\ KnowsEligible("form.tell", missed)
    BY <2>2, <2>3, <2>4 DEF KnowsEligible
  <2> QED
    BY <1>1, <1>5, <2>1, <2>5, EligibilityMoved DEF TellUser
<1>6. ASSUME NEW p \in Procs, AnswerAssign(p) \/ (Fail(p) /\ UNCHANGED eligibility)
      PROVE  EligibilityInv'
  <2>1. Moved(p, "idle", None) /\ KnowsEligible("idle", None)
    BY <1>1, <1>6, Finished, Failed DEF AnswerAssign, KnowsEligible
  <2> QED
    BY <1>1, <1>6, <2>1, EligibilityMoved DEF AnswerAssign
<1>7. CASE UNCHANGED <<pc, frame, stale, eligibility>>
  <2>1. ASSUME NEW s
        PROVE  EligibleFor(s)' = EligibleFor(s)
    BY <1>7 DEF EligibleFor, UsersOf, UsersAt, Leaders
  <2>2. ASSUME NEW q \in Procs
        PROVE  KnowsEligible(pc[q], frame[q])'
    BY <1>1, <1>7, <2>1 DEF KnowsEligible
  <2> QED
    BY <1>7, <2>2 DEF EligibilityInv, HandlersOK
<1> QED
  BY <1>2, <1>3, <1>4, <1>5, <1>6, <1>7 DEF EligibilityNext, EligibilityRoutes, ContinueEligibility

LEMMA ToldAndListed == EligibilityInv => ToldIsListed
<1> SUFFICES ASSUME EligibilityInv, NEW p \in Procs, At(p, "form.tell"), frame[p].scope \in assigned
             PROVE  LET s == frame[p].scope  Finders == {u \in Readers : s \in ResourcesFor(u)} IN
                    /\ frame[p].told \subseteq Finders \/ StartsDeleted(s)
                    /\ AllTold(p) => \A u \in Finders \ (frame[p].told \cup frame[p].missed) : LeadsBranchOf(u, s)
  BY DEF ToldIsListed
<1> DEFINE f == frame[p]  s == f.scope
<1>1. /\ org \in Organisations /\ f \in TellFrame
      /\ f.left \cup f.told \cup f.missed = EligibleFor(s)
  BY DEF EligibilityInv, KnowsEligible, At
<1>2. s \in Scopes /\ f.told \subseteq Readers
  BY <1>1 DEF TellFrame
<1>3. ASSUME ~StartsDeleted(s), NEW u \in f.told
      PROVE  s \in ResourcesFor(u)
  BY <1>1, <1>2, <1>3, ToldFinds
<1>4. ASSUME f.left = {}, NEW u \in Readers, s \in ResourcesFor(u), u \notin f.told \cup f.missed
      PROVE  LeadsBranchOf(u, s)
  BY <1>1, <1>2, <1>4, FinderIsEligible
<1> QED
  BY <1>2, <1>3, <1>4 DEF AllTold

(* Who is told of a form finds it in the list, and who finds it when all   *)
(* are told was told or missed, in any organisation: the way down from a   *)
(* scope and the way up from a user differ where a scope's row is deleted  *)
(* and for who leads the branch of a member, and nowhere else.             *)
THEOREM ToldAreListed == EligibilitySpec => []ToldIsListed
<1>1. HandlersInit /\ EligibilityInit(Organisations) => EligibilityInv
  BY Begun DEF EligibilityInit, EligibilityInv, KnowsEligible
<1> QED
  BY <1>1, EligibilityStep, ToldAndListed, PTL DEF EligibilitySpec
=============================================================================
