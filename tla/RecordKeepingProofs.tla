------------------------ MODULE RecordKeepingProofs ------------------------
(***************************************************************************)
(* The services that keep records, for any rows and handlers: the ledger,  *)
(* the documents with their files, attendance, the accounts of users and   *)
(* their second factor; the churches and what a purge deletes; and the     *)
(* decisions on records and registrations.                                 *)
(***************************************************************************)
EXTENDS ServicesProofs, Ledger, Documents, Attendance, Accounts, SecondFactor, Tenants,
        RecordDecisions

Sent(S) == S \cup {Same}

UpdateFrame == [id : Payments, gross : Sent(Amounts), deductions : Sent(Amounts),
                net : Sent(Nets), uses : SUBSET Payments]
SettleFrame == [id : Payments, status : {"paid", "cancelled"}, uses : SUBSET Payments]
VoidFrame   == [id : Contributions, reason : Reasons, uses : SUBSET Contributions]

Sums(row) == row.net = row.gross - row.deductions /\ row.net >= 0

Updated(row, f) == [row EXCEPT !.gross = Or(f.gross, @), !.deductions = Or(f.deductions, @),
                               !.net = Or(f.net, @)]

(* What a handler at label l with locals f knows of the payments P and the *)
(* contributions C, if the row it read is not among the stale ones S.      *)
Knows(P, C, S, l, f) ==
  /\ l = "payment.write" =>
       /\ f \in UpdateFrame /\ f.uses = {f.id} /\ P[f.id] # None
       /\ f.id \notin S => P[f.id].status = "pending" /\ Sums(Updated(P[f.id], f))
  /\ l = "payment.settle" =>
       /\ f \in SettleFrame /\ f.uses = {f.id} /\ P[f.id] # None
       /\ f.id \notin S => P[f.id].status = "pending"
  /\ l = "contribution.void" =>
       /\ f \in VoidFrame /\ f.uses = {f.id}
       /\ f.id \notin S => C[f.id] = "recorded"

LedgerInv ==
  /\ LedgerTypeOK
  /\ \A p \in Procs : Knows(payment, contribution, stale, pc[p], frame[p])
  /\ NetIsDifference

LEMMA NothingIsAmount == Same \notin Nets /\ Amounts \subseteq Nets /\ Amounts \subseteq Nat
  BY LedgerAssumption DEF Nets, Amounts

LEMMA Ors ==
  ASSUME NEW S \in SUBSET Nets, NEW x \in S, NEW g \in Sent(S)
  PROVE  Or(g, x) \in S
  BY DEF Or, Sent

(* A payment or a contribution once there stays there. *)
Grows == \A i \in Payments : payment[i] # None => payment'[i] # None

LEMMA StillKnows ==
  ASSUME LedgerInv, Grows, Watch(LedgerChanged),
         payment' \in [Payments -> PaymentRow \cup {None}], DOMAIN contribution' = DOMAIN contribution,
         NEW q \in Procs, pc'[q] = pc[q], frame'[q] = frame[q]
  PROVE  Knows(payment', contribution', stale', pc'[q], frame'[q])
<1> DEFINE f == frame[q]
<1>1. Knows(payment, contribution, stale, pc[q], f)
  BY DEF LedgerInv
<1>2. ASSUME pc[q] \in {"payment.write", "payment.settle"}, f.id \in Payments, f.uses = {f.id}, f.id \notin stale'
      PROVE  f.id \notin stale /\ payment'[f.id] = payment[f.id]
  <2>1. f.id \notin stale
    BY <1>2, FreshBefore
  <2>2. f.id \notin LedgerChanged
    BY <1>2, Unwatched
  <2>3. f.id \in DOMAIN payment
    BY <1>2 DEF LedgerInv, LedgerTypeOK
  <2> QED
    BY <2>1, <2>2, <2>3 DEF LedgerChanged, ChangedIn
<1>3. ASSUME pc[q] = "contribution.void", f.id \in Contributions, f.uses = {f.id}, f.id \notin stale'
      PROVE  f.id \notin stale /\ contribution'[f.id] = contribution[f.id]
  <2>1. f.id \notin stale
    BY <1>3, FreshBefore
  <2>2. f.id \notin LedgerChanged
    BY <1>3, Unwatched
  <2>3. f.id \in DOMAIN contribution
    BY <1>3 DEF LedgerInv, LedgerTypeOK
  <2> QED
    BY <2>1, <2>2, <2>3 DEF LedgerChanged, ChangedIn
<1>4. CASE pc[q] = "payment.write"
  <2>1. f \in UpdateFrame /\ f.uses = {f.id} /\ payment[f.id] # None
    BY <1>1, <1>4 DEF Knows
  <2>2. f.id \in Payments /\ payment'[f.id] # None
    BY <2>1 DEF UpdateFrame, Grows
  <2>3. f.id \notin stale' => payment'[f.id].status = "pending" /\ Sums(Updated(payment'[f.id], f))
    BY <1>1, <1>2, <1>4, <2>1, <2>2 DEF Knows
  <2> QED
    BY <1>4, <2>1, <2>2, <2>3 DEF Knows
<1>5. CASE pc[q] = "payment.settle"
  <2>1. f \in SettleFrame /\ f.uses = {f.id} /\ payment[f.id] # None
    BY <1>1, <1>5 DEF Knows
  <2>2. f.id \in Payments /\ payment'[f.id] # None
    BY <2>1 DEF SettleFrame, Grows
  <2>3. f.id \notin stale' => payment'[f.id].status = "pending"
    BY <1>1, <1>2, <1>5, <2>1, <2>2 DEF Knows
  <2> QED
    BY <1>5, <2>1, <2>2, <2>3 DEF Knows
<1>6. CASE pc[q] = "contribution.void"
  <2>1. f \in VoidFrame /\ f.uses = {f.id}
    BY <1>1, <1>6 DEF Knows
  <2>2. f.id \in Contributions
    BY <2>1 DEF VoidFrame
  <2>3. f.id \notin stale' => contribution'[f.id] = "recorded"
    BY <1>1, <1>3, <1>6, <2>1, <2>2 DEF Knows
  <2> QED
    BY <1>6, <2>1, <2>2, <2>3 DEF Knows
<1> QED
  BY <1>4, <1>5, <1>6 DEF Knows

(* The whole of a step but for the sums: the handler that takes it is in   *)
(* order afterwards, and so are the others.                                *)
LEMMA Stepped ==
  ASSUME HandlersOK, LedgerInv, Grows, Watch(LedgerChanged), LedgerTypeOK',
         NEW p \in Procs, NEW l, NEW f, Moved(p, l, f), Knows(payment', contribution', stale', l, f),
         NetIsDifference'
  PROVE  HandlersOK' /\ LedgerInv'
<1>1. ASSUME NEW q \in Procs \ {p}
      PROVE  Knows(payment', contribution', stale', pc'[q], frame'[q])
  <2>1. pc'[q] = pc[q] /\ frame'[q] = frame[q]
    BY DEF Moved, Others
  <2>2. DOMAIN contribution' = DOMAIN contribution
    BY DEF LedgerTypeOK, LedgerInv
  <2>3. payment' \in [Payments -> PaymentRow \cup {None}]
    BY DEF LedgerTypeOK
  <2> QED
    BY <2>1, <2>2, <2>3, StillKnows
<1>2. \A q \in Procs : Knows(payment', contribution', stale', pc'[q], frame'[q])
  BY <1>1 DEF Moved
<1> QED
  BY <1>2 DEF Moved, LedgerInv

(* Nothing is said of an idle handler. *)
LEMMA IdleKnows ==
  ASSUME NEW P, NEW C, NEW S, NEW f
  PROVE  Knows(P, C, S, "idle", f)
  BY DEF Knows
-----------------------------------------------------------------------------
(* Steps of the ledger *)

SettledKept ==
  /\ \A i \in Payments : Settled(payment[i]) => payment'[i] = payment[i] \/ i \in stale'
  /\ \A i \in Contributions :
       contribution[i] \in Reasons => contribution'[i] = contribution[i] \/ i \in stale'

LEMMA Looked ==
  ASSUME HandlersOK, LedgerInv, Watch(LedgerChanged), UNCHANGED ledger,
         NEW p \in Procs, NEW l, NEW f, Moved(p, l, f), Knows(payment, contribution, stale', l, f)
  PROVE  HandlersOK' /\ LedgerInv' /\ SettledKept
<1>1. payment' = payment /\ contribution' = contribution
  BY DEF ledger
<1>2. NetIsDifference'
  BY <1>1, FreshBefore DEF LedgerInv, NetIsDifference, Fresh
<1>3. LedgerTypeOK' /\ Grows /\ SettledKept
  BY <1>1 DEF LedgerInv, LedgerTypeOK, Grows, SettledKept
<1> QED
  BY <1>1, <1>2, <1>3, Stepped

LEMMA PaymentSet ==
  ASSUME HandlersOK, LedgerInv, Watch(LedgerChanged), NEW i \in Payments, NEW row \in PaymentRow,
         SetPayment(i, row), row # None, i \notin stale' => Sums(row) /\ ~ Settled(payment[i]),
         NEW p \in Procs, NEW l, NEW f, Moved(p, l, f), Knows(payment', contribution', stale', l, f)
  PROVE  HandlersOK' /\ LedgerInv' /\ SettledKept
<1>1. LedgerTypeOK /\ NetIsDifference
  BY DEF LedgerInv
<1>2. /\ payment' = [payment EXCEPT ![i] = row] /\ contribution' = contribution
      /\ payment \in [Payments -> PaymentRow \cup {None}]
  BY <1>1 DEF SetPayment, LedgerTypeOK
<1>3. payment'[i] = row /\ \A j \in Payments \ {i} : payment'[j] = payment[j]
  BY <1>2
<1>4. LedgerTypeOK'
  BY <1>1, <1>2 DEF LedgerTypeOK
<1>5. Grows
  BY <1>3 DEF Grows
<1>6. ASSUME NEW j \in Payments, payment'[j] # None, j \notin stale'
      PROVE  payment'[j].net = payment'[j].gross - payment'[j].deductions /\ payment'[j].net >= 0
  <2>1. CASE j = i
    BY <1>3, <1>6, <2>1 DEF Sums
  <2>2. CASE j # i
    BY <1>1, <1>3, <1>6, <2>2, FreshBefore DEF NetIsDifference, Fresh
  <2> QED
    BY <2>1, <2>2
<1>7. NetIsDifference'
  BY <1>6 DEF NetIsDifference, Fresh
<1>8. SettledKept
  BY <1>2, <1>3 DEF SettledKept
<1> QED
  BY <1>4, <1>5, <1>7, <1>8, Stepped

LEMMA ContributionSet ==
  ASSUME HandlersOK, LedgerInv, Watch(LedgerChanged), NEW i \in Contributions,
         NEW s \in {"recorded"} \cup Reasons, contribution' = [contribution EXCEPT ![i] = s],
         UNCHANGED payment, i \notin stale' => contribution[i] \in {"absent", "recorded"},
         NEW p \in Procs, NEW l, NEW f, Moved(p, l, f), Knows(payment', contribution', stale', l, f)
  PROVE  HandlersOK' /\ LedgerInv' /\ SettledKept
<1>1. LedgerTypeOK /\ NetIsDifference
  BY DEF LedgerInv
<1>2. contribution'[i] = s /\ \A j \in Contributions \ {i} : contribution'[j] = contribution[j]
  BY <1>1 DEF LedgerTypeOK
<1>3. LedgerTypeOK'
  BY <1>1 DEF LedgerTypeOK
<1>4. NetIsDifference'
  BY <1>1, FreshBefore DEF NetIsDifference, Fresh
<1>5. SettledKept
  BY <1>2, LedgerAssumption DEF SettledKept
<1>6. Grows
  BY DEF Grows
<1> QED
  BY <1>3, <1>4, <1>5, <1>6, Stepped

LEMMA LedgerBegins == HandlersInit /\ LedgerInit => HandlersOK /\ LedgerInv
<1> SUFFICES ASSUME HandlersInit, LedgerInit PROVE HandlersOK /\ LedgerInv
  OBVIOUS
<1>1. HandlersOK /\ \A p \in Procs : pc[p] = "idle"
  BY Begun
<1>2. LedgerTypeOK /\ NetIsDifference
  BY DEF LedgerInit, LedgerTypeOK, NetIsDifference
<1> QED
  BY <1>1, <1>2, IdleKnows DEF LedgerInv

LEMMA CreatePaymentKept ==
  ASSUME HandlersOK, LedgerInv, Watch(LedgerChanged), NEW p \in Procs, NEW i \in Payments,
         NEW g \in Amounts, NEW d \in Amounts, CreatePayment(p, i, g, d)
  PROVE  HandlersOK' /\ LedgerInv' /\ SettledKept
<1> DEFINE row == [gross |-> g, deductions |-> d, net |-> g - d, status |-> "pending"]
<1>1. g - d \in Nets /\ g - d >= 0
  BY LedgerAssumption DEF CreatePayment, Amounts, Nets
<1>2. row \in PaymentRow /\ Sums(row)
  BY <1>1 DEF PaymentRow, Sums
<1>3. SetPayment(i, row) /\ ~ Settled(payment[i])
  BY DEF CreatePayment, Settled
<1>4. row # None
  BY <1>2, LedgerAssumption
<1>5. Moved(p, "idle", frame[p])
  BY Passed DEF CreatePayment
<1> HIDE DEF row
<1> QED
  BY <1>2, <1>3, <1>4, <1>5, IdleKnows, PaymentSet

LEMMA UpdatePaymentKept ==
  ASSUME HandlersOK, LedgerInv, Watch(LedgerChanged), NEW p \in Procs, NEW i \in Payments,
         NEW g \in Sent(Amounts), NEW d \in Sent(Amounts), UpdatePayment(p, i, g, d)
  PROVE  HandlersOK' /\ LedgerInv' /\ SettledKept
<1> DEFINE row == payment[i]
           net == Or(g, row.gross) - Or(d, row.deductions)
           sent == IF <<g, d>> = <<Same, Same>> THEN Same ELSE net
           f == [id |-> i, gross |-> g, deductions |-> d, net |-> sent, uses |-> {i}]
<1>1. row # None /\ row.status = "pending" /\ net >= 0
  BY DEF UpdatePayment, Pending
<1>2. row \in PaymentRow
  BY <1>1 DEF LedgerInv, LedgerTypeOK
<1>3. Or(g, row.gross) \in Amounts /\ Or(d, row.deductions) \in Amounts
  BY <1>2, NothingIsAmount, Ors DEF PaymentRow
<1>4. net \in Nets
  BY <1>3, LedgerAssumption DEF Amounts, Nets
<1>5. f \in UpdateFrame
  BY <1>4 DEF UpdateFrame, Sent
<1>6. i \notin stale => Sums(Updated(row, f))
  <2> SUFFICES ASSUME i \notin stale PROVE Sums(Updated(row, f))
    OBVIOUS
  <2>1. Updated(row, f).gross = Or(g, row.gross) /\ Updated(row, f).deductions = Or(d, row.deductions)
    BY <1>2 DEF Updated, PaymentRow
  <2>2. Updated(row, f).net = Or(sent, row.net)
    BY <1>2 DEF Updated, PaymentRow
  <2>3. Or(sent, row.net) = net
    <3>1. CASE <<g, d>> = <<Same, Same>>
      <4>1. g = Same /\ d = Same /\ sent = Same
        BY <3>1
      <4>2. row.net = row.gross - row.deductions
        BY <1>1 DEF LedgerInv, NetIsDifference, Fresh
      <4> QED
        BY <4>1, <4>2 DEF Or
    <3>2. CASE <<g, d>> # <<Same, Same>>
      BY <3>2, <1>4, NothingIsAmount DEF Or
    <3> QED
      BY <3>1, <3>2
  <2> HIDE DEF f, sent
  <2> QED
    BY <1>1, <2>1, <2>2, <2>3 DEF Sums
<1>7. Enter(p, "payment.write", f) /\ UNCHANGED ledger
  BY DEF UpdatePayment
<1>8. Moved(p, "payment.write", f)
  BY <1>7, Entered
<1>9. Knows(payment, contribution, stale', "payment.write", f)
  <2>1. f.id = i /\ f.uses = {i}
    OBVIOUS
  <2> HIDE DEF f, net, row
  <2>2. payment[i] # None /\ (i \notin stale' => payment[i].status = "pending" /\ Sums(Updated(payment[i], f)))
    BY <1>1, <1>6, FreshBefore DEF row
  <2> QED
    BY <1>5, <2>1, <2>2 DEF Knows
<1> HIDE DEF f
<1> QED
  BY <1>7, <1>8, <1>9, Looked

LEMMA WritePaymentKept ==
  ASSUME HandlersOK, LedgerInv, Watch(LedgerChanged), NEW p \in Procs, WritePayment(p)
  PROVE  HandlersOK' /\ LedgerInv' /\ SettledKept
<1> DEFINE f == frame[p]
           i == f.id
<1>1. Knows(payment, contribution, stale, "payment.write", f)
  BY DEF LedgerInv, WritePayment, At
<1>2. f \in UpdateFrame /\ i \in Payments /\ payment[i] # None
  BY <1>1 DEF Knows, UpdateFrame
<1>3. payment[i] \in PaymentRow
  BY <1>2 DEF LedgerInv, LedgerTypeOK
<1>4. Updated(payment[i], f) \in PaymentRow
  <2>1. /\ Or(f.gross, payment[i].gross) \in Amounts /\ Or(f.deductions, payment[i].deductions) \in Amounts
        /\ Or(f.net, payment[i].net) \in Nets
    BY <1>2, <1>3, NothingIsAmount, Ors DEF UpdateFrame, PaymentRow
  <2> QED
    BY <1>3, <2>1 DEF Updated, PaymentRow
<1>5. Updated(payment[i], f) # None
  BY <1>4, LedgerAssumption
<1>6. SetPayment(i, Updated(payment[i], f)) /\ Finish(p)
  BY DEF WritePayment, Updated
<1>7. i \notin stale' => Sums(Updated(payment[i], f)) /\ ~ Settled(payment[i])
  BY <1>1, FreshBefore DEF Knows, Settled
<1>8. Moved(p, "idle", None)
  BY <1>6, Finished
<1> QED
  BY <1>2, <1>4, <1>5, <1>6, <1>7, <1>8, IdleKnows, PaymentSet

LEMMA SettlePaymentKept ==
  ASSUME HandlersOK, LedgerInv, Watch(LedgerChanged), NEW p \in Procs, NEW i \in Payments,
         NEW s \in {"paid", "cancelled"}, SettlePayment(p, i, s)
  PROVE  HandlersOK' /\ LedgerInv' /\ SettledKept
<1> DEFINE f == [id |-> i, status |-> s, uses |-> {i}]
<1>1. Enter(p, "payment.settle", f) /\ UNCHANGED ledger /\ payment[i] # None /\ payment[i].status = "pending"
  BY DEF SettlePayment, Pending
<1>2. Moved(p, "payment.settle", f)
  BY <1>1, Entered
<1>3. Knows(payment, contribution, stale', "payment.settle", f)
  BY <1>1 DEF Knows, SettleFrame
<1> HIDE DEF f
<1> QED
  BY <1>1, <1>2, <1>3, Looked

LEMMA WriteSettledKept ==
  ASSUME HandlersOK, LedgerInv, Watch(LedgerChanged), NEW p \in Procs, WriteSettled(p)
  PROVE  HandlersOK' /\ LedgerInv' /\ SettledKept
<1> DEFINE f == frame[p]
           i == f.id
           row == [payment[i] EXCEPT !.status = f.status]
<1>1. Knows(payment, contribution, stale, "payment.settle", f)
  BY DEF LedgerInv, WriteSettled, At
<1>2. f \in SettleFrame /\ i \in Payments /\ payment[i] # None
  BY <1>1 DEF Knows, SettleFrame
<1>3. payment[i] \in PaymentRow
  BY <1>2 DEF LedgerInv, LedgerTypeOK
<1>4. row \in PaymentRow
  BY <1>2, <1>3 DEF PaymentRow, SettleFrame
<1>5. row # None
  BY <1>4, LedgerAssumption
<1>6. SetPayment(i, row) /\ Finish(p)
  BY DEF WriteSettled
<1>7. i \notin stale' => Sums(row) /\ ~ Settled(payment[i])
  <2> SUFFICES ASSUME i \notin stale' PROVE Sums(row) /\ ~ Settled(payment[i])
    OBVIOUS
  <2>1. i \notin stale
    BY FreshBefore
  <2>2. ~ Settled(payment[i])
    BY <1>1, <2>1 DEF Knows, Settled
  <2>3. Sums(payment[i])
    BY <1>2, <2>1 DEF LedgerInv, NetIsDifference, Fresh, Sums
  <2> QED
    BY <1>3, <2>2, <2>3 DEF Sums, PaymentRow
<1>8. Moved(p, "idle", None)
  BY <1>6, Finished
<1> HIDE DEF row
<1> QED
  BY <1>2, <1>4, <1>5, <1>6, <1>7, <1>8, IdleKnows, PaymentSet

LEMMA RecordContributionKept ==
  ASSUME HandlersOK, LedgerInv, Watch(LedgerChanged), NEW p \in Procs, NEW i \in Contributions,
         RecordContribution(p, i)
  PROVE  HandlersOK' /\ LedgerInv' /\ SettledKept
<1>1. Moved(p, "idle", frame[p])
  BY Passed DEF RecordContribution
<1> QED
  BY <1>1, IdleKnows, ContributionSet DEF RecordContribution

LEMMA VoidKept ==
  ASSUME HandlersOK, LedgerInv, Watch(LedgerChanged), NEW p \in Procs, NEW i \in Contributions,
         NEW reason \in Reasons, Void(p, i, reason)
  PROVE  HandlersOK' /\ LedgerInv' /\ SettledKept
<1> DEFINE f == [id |-> i, reason |-> reason, uses |-> {i}]
<1>1. Enter(p, "contribution.void", f) /\ UNCHANGED ledger /\ contribution[i] = "recorded"
  BY DEF Void
<1>2. Moved(p, "contribution.void", f)
  BY <1>1, Entered
<1>3. Knows(payment, contribution, stale', "contribution.void", f)
  BY <1>1 DEF Knows, VoidFrame
<1> HIDE DEF f
<1> QED
  BY <1>1, <1>2, <1>3, Looked

LEMMA WriteVoidKept ==
  ASSUME HandlersOK, LedgerInv, Watch(LedgerChanged), NEW p \in Procs, WriteVoid(p)
  PROVE  HandlersOK' /\ LedgerInv' /\ SettledKept
<1>1. Knows(payment, contribution, stale, "contribution.void", frame[p])
  BY DEF LedgerInv, WriteVoid, At
<1>2. frame[p].id \in Contributions /\ frame[p].reason \in Reasons
  BY <1>1 DEF Knows, VoidFrame
<1>3. frame[p].id \notin stale' => contribution[frame[p].id] = "recorded"
  BY <1>1, FreshBefore DEF Knows
<1>4. Moved(p, "idle", None)
  BY Finished DEF WriteVoid
<1> QED
  BY <1>2, <1>3, <1>4, IdleKnows, ContributionSet DEF WriteVoid

LEMMA LedgerStep ==
  ASSUME HandlersOK, LedgerInv, LedgerNext
  PROVE  HandlersOK' /\ LedgerInv' /\ SettledKept
<1>1. PICK p \in Procs : LedgerRoutes(p) \/ ContinueLedger(p)
  BY DEF LedgerNext
<1>2. Watch(LedgerChanged)
  BY DEF LedgerNext
<1>3. CASE LedgerRoutes(p)
  BY <1>2, <1>3, CreatePaymentKept, UpdatePaymentKept, SettlePaymentKept, RecordContributionKept, VoidKept
     DEF LedgerRoutes, MarkPaid, CancelPayment, Sent
<1>4. CASE ContinueLedger(p)
  <2>1. CASE Fail(p) /\ UNCHANGED ledger
    BY <1>2, <2>1, Failed, IdleKnows, Looked
  <2> QED
    BY <1>2, <1>4, <2>1, WritePaymentKept, WriteSettledKept, WriteVoidKept DEF ContinueLedger
<1> QED
  BY <1>1, <1>3, <1>4

LEMMA LedgerStutter ==
  ASSUME HandlersOK, LedgerInv, UNCHANGED <<pc, frame, stale, ledger>>
  PROVE  HandlersOK' /\ LedgerInv'
  BY DEF HandlersOK, LedgerInv, LedgerTypeOK, NetIsDifference, Fresh, ledger

LEMMA LedgerInvariant == LedgerSpec => [](HandlersOK /\ LedgerInv)
<1>1. HandlersInit /\ LedgerInit => HandlersOK /\ LedgerInv
  BY LedgerBegins
<1>2. HandlersOK /\ LedgerInv /\ [LedgerNext]_<<pc, frame, stale, ledger>> => (HandlersOK /\ LedgerInv)'
  BY LedgerStep, LedgerStutter
<1> QED
  BY <1>1, <1>2, PTL DEF LedgerSpec

-----------------------------------------------------------------------------
(* Payments and contributions keep their shape: amounts and net amounts    *)
(* stay within their ranges whatever fields an update sends.               *)
THEOREM LedgerTypeCorrect == LedgerSpec => []LedgerTypeOK
<1>1. LedgerInv => LedgerTypeOK
  BY DEF LedgerInv
<1> QED
  BY <1>1, LedgerInvariant, PTL

(* The net amount of a payment is its gross amount less its deductions, in *)
(* PayrollService.update too, for payments that did not change under an    *)
(* update.                                                                 *)
THEOREM NetAddsUp == LedgerSpec => []NetIsDifference
<1>1. LedgerInv => NetIsDifference
  BY DEF LedgerInv
<1> QED
  BY <1>1, LedgerInvariant, PTL

(* A paid or cancelled payment and a voided contribution change no more,   *)
(* unless they changed under a handler that had found them open.           *)
THEOREM SettledStays == LedgerSpec => SettledIsFixed
<1>1. HandlersOK /\ LedgerInv /\ [LedgerNext]_<<pc, frame, stale, ledger>> => [SettledKept]_ledger
  BY LedgerStep DEF ledger
<1>2. SettledIsFixed <=> [][SettledKept]_ledger
  BY PTL DEF SettledIsFixed, SettledKept
<1> QED
  BY <1>1, <1>2, LedgerInvariant, PTL DEF LedgerSpec

-----------------------------------------------------------------------------
(* Documents *)

RowsOK ==
  /\ document \in [Docs -> [state : RowStates, file : Files \cup {None}]]
  /\ versions = [d \in Docs |-> versions[d]]
  /\ attachment = [o \in Owners |-> attachment[o]]
  /\ pointedAt = [d \in Docs |-> pointedAt[d]]
  /\ \A d \in Docs : document[d].state = "absent" => pointedAt[d] = {}

ReplaceLabels == {"replace.version", "replace.upload", "replace.write"}

(* The locals of a batch upload. *)
Batch(f) == f = [x \in {"left", "file", "uses"} |-> f[x]]

LEMMA BatchMade == ASSUME NEW n, NEW k PROVE Batch([left |-> n, file |-> k, uses |-> {}])
<1> DEFINE f == [left |-> n, file |-> k, uses |-> {}]
<1>1. ASSUME NEW g, g = f PROVE Batch(g)
  BY <1>1 DEF Batch
<1> QED
  BY <1>1

LEMMA BatchGoesOn ==
  ASSUME NEW f, Batch(f), NEW n, NEW k
  PROVE  LET g == [f EXCEPT !.left = n, !.file = k] IN g.file = k /\ Batch(g)
  BY DEF Batch

(* What a handler at label l with locals f knows of the documents D, their *)
(* versions V and the stored files K, if the row is not among the stale S. *)
FilesHold(D, V, K, S, l, f) ==
  /\ l \in {"batch.upload", "batch.insert"} => Batch(f)
  /\ l \in {"batch.upload", "attach.upload"} \cup ReplaceLabels => f.file \in Files
  /\ l \in {"batch.insert", "attach.value", "replace.write"} => f.file \in K \cap Files
  /\ l \in ReplaceLabels =>
       /\ f.id \in Docs /\ f.uses = {f.id} /\ D[f.id].state # "absent"
       /\ f.was \in K \cup {None}
       /\ f.id \notin S => D[f.id].file = f.was
  /\ l \in {"replace.upload", "replace.write"} /\ f.id \notin S => f.was \in V[f.id]

FilesInv ==
  /\ RowsOK /\ FilesAreKept
  /\ \A p \in Procs : FilesHold(document, versions, stored, stale, pc[p], frame[p])

(* Files, versions and rows are never removed. *)
FilesAccrue ==
  /\ stored \subseteq stored'
  /\ \A d \in Docs : versions[d] \subseteq versions'[d]
  /\ \A d \in Docs : document[d].state # "absent" => document'[d].state # "absent"

LEMMA StillHolds ==
  ASSUME FilesInv, FilesAccrue, Watch(DocumentsChanged), NEW q \in Procs, pc'[q] = pc[q], frame'[q] = frame[q]
  PROVE  FilesHold(document', versions', stored', stale', pc'[q], frame'[q])
<1> DEFINE f == frame[q]
<1>1. FilesHold(document, versions, stored, stale, pc[q], f)
  BY DEF FilesInv
<1>2. ASSUME pc[q] \in ReplaceLabels, f.id \notin stale'
      PROVE  f.id \notin stale /\ document'[f.id].file = document[f.id].file
  <2>1. f.id \in Docs /\ f.uses = {f.id}
    BY <1>1, <1>2 DEF FilesHold
  <2>2. f.id \notin stale
    BY <1>2, FreshBefore
  <2>3. f.id \notin DocumentsChanged
    BY <1>2, <2>1, Unwatched DEF ReplaceLabels
  <2>4. DOMAIN document = Docs
    BY DEF FilesInv, RowsOK
  <2> QED
    BY <2>1, <2>2, <2>3, <2>4 DEF DocumentsChanged, ChangedIn
<1>3. pc[q] \in {"replace.upload", "replace.write"} => pc[q] \in ReplaceLabels
  BY DEF ReplaceLabels
<1> HIDE DEF f
<1>4. pc[q] \in ReplaceLabels =>
        /\ f.id \in Docs /\ f.uses = {f.id} /\ document'[f.id].state # "absent"
        /\ f.was \in stored' \cup {None}
        /\ f.id \notin stale' => document'[f.id].file = f.was
  BY <1>1, <1>2 DEF FilesHold, FilesAccrue
<1>5. pc[q] \in {"replace.upload", "replace.write"} /\ f.id \notin stale' => f.was \in versions'[f.id]
  BY <1>1, <1>2, <1>3, <1>4 DEF FilesHold, FilesAccrue
<1>6. /\ pc[q] \in {"batch.upload", "batch.insert"} => Batch(f)
      /\ pc[q] \in {"batch.upload", "attach.upload"} \cup ReplaceLabels => f.file \in Files
      /\ pc[q] \in {"batch.insert", "attach.value", "replace.write"} => f.file \in stored' \cap Files
  BY <1>1 DEF FilesHold, FilesAccrue
<1> QED
  BY <1>4, <1>5, <1>6 DEF FilesHold, f

LEMMA Stored ==
  ASSUME HandlersOK, FilesInv, FilesAccrue, Watch(DocumentsChanged), RowsOK', FilesAreKept',
         NEW p \in Procs, NEW l, NEW f, Moved(p, l, f), FilesHold(document', versions', stored', stale', l, f)
  PROVE  HandlersOK' /\ FilesInv'
<1>1. ASSUME NEW q \in Procs \ {p}
      PROVE  FilesHold(document', versions', stored', stale', pc'[q], frame'[q])
  BY StillHolds DEF Moved, Others
<1>2. \A q \in Procs : FilesHold(document', versions', stored', stale', pc'[q], frame'[q])
  BY <1>1 DEF Moved
<1> QED
  BY <1>2 DEF Moved, FilesInv

LEMMA IdleHolds ==
  ASSUME NEW D, NEW V, NEW K, NEW S, NEW f
  PROVE  FilesHold(D, V, K, S, "idle", f)
  BY DEF FilesHold, ReplaceLabels

(* A step that reads. *)
LEMMA FilesRead ==
  ASSUME HandlersOK, FilesInv, Watch(DocumentsChanged), UNCHANGED documents,
         NEW p \in Procs, NEW l, NEW f, Moved(p, l, f), FilesHold(document, versions, stored, stale', l, f)
  PROVE  HandlersOK' /\ FilesInv'
<1>1. /\ stored' = stored /\ document' = document /\ versions' = versions
      /\ attachment' = attachment /\ pointedAt' = pointedAt
  BY DEF documents
<1>2. RowsOK'
  BY <1>1 DEF FilesInv, RowsOK
<1>3. FilesAreKept'
  BY <1>1, FreshBefore DEF FilesInv, FilesAreKept, Fresh
<1>4. FilesAccrue
  BY <1>1 DEF FilesAccrue
<1> QED
  BY <1>1, <1>2, <1>3, <1>4, Stored

(* A step that puts a file into the store. *)
LEMMA FileUploaded ==
  ASSUME HandlersOK, FilesInv, Watch(DocumentsChanged), NEW p \in Procs, NEW l, Upload(p, l),
         FilesHold(document, versions, stored', stale', l, frame[p])
  PROVE  HandlersOK' /\ FilesInv'
<1>1. /\ stored \subseteq stored' /\ document' = document /\ versions' = versions
      /\ attachment' = attachment /\ pointedAt' = pointedAt
  BY DEF Upload
<1>2. RowsOK'
  BY <1>1 DEF FilesInv, RowsOK
<1>3. FilesAreKept'
  BY <1>1, FreshBefore DEF FilesInv, FilesAreKept, Fresh
<1>4. FilesAccrue
  BY <1>1 DEF FilesAccrue
<1>5. Moved(p, l, frame[p])
  BY WentOn DEF Upload
<1> QED
  BY <1>1, <1>2, <1>3, <1>4, <1>5, Stored

(* A step that points a row at a stored file. *)
LEMMA Pointed ==
  ASSUME HandlersOK, FilesInv, Watch(DocumentsChanged), NEW d \in Docs, NEW state \in {"live", "deleted"},
         NEW k \in stored \cap Files, Point(d, state, k),
         d \notin stale' => pointedAt[d] \subseteq versions[d],
         NEW p \in Procs, NEW l, NEW f, Moved(p, l, f), FilesHold(document', versions, stored, stale', l, f)
  PROVE  HandlersOK' /\ FilesInv'
<1>1. /\ document' = [document EXCEPT ![d] = [state |-> state, file |-> k]]
      /\ pointedAt' = [pointedAt EXCEPT ![d] = @ \cup {k}]
      /\ stored' = stored /\ versions' = versions /\ attachment' = attachment
  BY DEF Point
<1>2. RowsOK /\ FilesAreKept
  BY DEF FilesInv
<1>3. /\ document'[d].state = state /\ document'[d].file = k
      /\ \A e \in Docs \ {d} : document'[e] = document[e]
  BY <1>1, <1>2 DEF RowsOK
<1>4. pointedAt'[d] = pointedAt[d] \cup {k} /\ \A e \in Docs \ {d} : pointedAt'[e] = pointedAt[e]
  BY <1>1, <1>2 DEF RowsOK
<1>5. document' \in [Docs -> [state : RowStates, file : Files \cup {None}]]
  BY <1>1, <1>2 DEF RowsOK, RowStates
<1>6. pointedAt' = [e \in Docs |-> pointedAt'[e]]
  BY <1>1, <1>2, <1>4, Zenon DEF RowsOK
<1>7. \A e \in Docs : document'[e].state = "absent" => pointedAt'[e] = {}
  BY <1>2, <1>3, <1>4 DEF RowsOK
<1>8. RowsOK'
  BY <1>1, <1>2, <1>5, <1>6, <1>7 DEF RowsOK
<1>9. ASSUME NEW e \in Docs
      PROVE  /\ Fresh({e})' => pointedAt'[e] \subseteq versions'[e] \cup {document'[e].file}
             /\ (versions'[e] \cup {document'[e].file}) \ {None} \subseteq stored'
  <2>1. CASE e = d
    BY <1>1, <1>2, <1>3, <1>4, <2>1 DEF FilesAreKept, Fresh
  <2>2. CASE e # d
    BY <1>1, <1>2, <1>3, <1>4, <2>2, FreshBefore DEF FilesAreKept, Fresh
  <2> QED
    BY <2>1, <2>2
<1>10. FilesAreKept'
  BY <1>1, <1>2, <1>9 DEF FilesAreKept, Fresh
<1>11. FilesAccrue
  BY <1>1, <1>3 DEF FilesAccrue
<1> QED
  BY <1>1, <1>8, <1>10, <1>11, Stored

LEMMA CreateBatchKept ==
  ASSUME HandlersOK, FilesInv, Watch(DocumentsChanged), NEW p \in Procs, NEW n, CreateBatch(p, n)
  PROVE  HandlersOK' /\ FilesInv'
<1>1. PICK k \in Files : Enter(p, "batch.upload", [left |-> n, file |-> k, uses |-> {}])
  BY DEF CreateBatch
<1> DEFINE f == [left |-> n, file |-> k, uses |-> {}]
<1>2. FilesHold(document, versions, stored, stale', "batch.upload", f)
  BY BatchMade DEF FilesHold, ReplaceLabels
<1>3. Moved(p, "batch.upload", f) /\ UNCHANGED documents
  BY <1>1, Entered DEF CreateBatch
<1> HIDE DEF f
<1> QED
  BY <1>2, <1>3, FilesRead

LEMMA UploadBatchKept ==
  ASSUME HandlersOK, FilesInv, Watch(DocumentsChanged), NEW p \in Procs, UploadBatch(p)
  PROVE  HandlersOK' /\ FilesInv'
<1>1. FilesHold(document, versions, stored, stale, "batch.upload", frame[p])
  BY DEF FilesInv, UploadBatch, At
<1>2. frame[p].file \in stored' /\ Upload(p, "batch.insert")
  BY DEF UploadBatch, Upload
<1>3. FilesHold(document, versions, stored', stale', "batch.insert", frame[p])
  BY <1>1, <1>2 DEF FilesHold, ReplaceLabels
<1> QED
  BY <1>2, <1>3, FileUploaded

LEMMA InsertDocumentKept ==
  ASSUME HandlersOK, FilesInv, Watch(DocumentsChanged), NEW p \in Procs, InsertDocument(p)
  PROVE  HandlersOK' /\ FilesInv'
<1> DEFINE f == frame[p]
<1>1. PICK d \in Docs : document[d].state = "absent" /\ Point(d, "live", f.file)
  BY DEF InsertDocument
<1>2. FilesHold(document, versions, stored, stale, "batch.insert", f)
  BY DEF FilesInv, InsertDocument, At
<1>3. f.file \in stored \cap Files /\ Batch(f)
  BY <1>2 DEF FilesHold
<1>4. pointedAt[d] = {}
  BY <1>1 DEF FilesInv, RowsOK
<1>5. \E l, g : Moved(p, l, g) /\ FilesHold(document', versions, stored, stale', l, g)
  <2>1. CASE Finish(p)
    BY <2>1, Finished, IdleHolds
  <2>2. CASE ~ Finish(p)
    <3>1. PICK k \in Files : Proceed(p, "batch.upload", [f EXCEPT !.left = @ - 1, !.file = k])
      BY <2>2 DEF InsertDocument
    <3> DEFINE g == [f EXCEPT !.left = @ - 1, !.file = k]
    <3>2. g.file = k /\ Batch(g)
      BY <1>3, BatchGoesOn
    <3> HIDE DEF g
    <3>5. FilesHold(document', versions, stored, stale', "batch.upload", g)
      BY <3>2 DEF FilesHold, ReplaceLabels
    <3>6. Moved(p, "batch.upload", g)
      BY <3>1, Proceeded DEF g
    <3> QED
      BY <3>5, <3>6
  <2> QED
    BY <2>1, <2>2
<1> QED
  BY <1>1, <1>3, <1>4, <1>5, Pointed

LEMMA ReplaceFileKept ==
  ASSUME HandlersOK, FilesInv, Watch(DocumentsChanged), NEW p \in Procs, NEW d \in Docs, ReplaceFile(p, d)
  PROVE  HandlersOK' /\ FilesInv'
<1> DEFINE F(k) == [id |-> d, was |-> document[d].file, file |-> k, uses |-> {d}]
<1>1. PICK k \in Files : Enter(p, "replace.version", F(k))
  BY DEF ReplaceFile
<1>2. document[d].state # "absent" /\ document[d].file \in stored \cup {None}
  BY DEF ReplaceFile, FilesInv, FilesAreKept
<1>3. FilesHold(document, versions, stored, stale', "replace.version", F(k))
  BY <1>2 DEF FilesHold
<1>4. Moved(p, "replace.version", F(k)) /\ UNCHANGED documents
  BY <1>1, Entered DEF ReplaceFile
<1> HIDE DEF F
<1> QED
  BY <1>3, <1>4, FilesRead

LEMMA SnapshotVersionKept ==
  ASSUME HandlersOK, FilesInv, Watch(DocumentsChanged), NEW p \in Procs, SnapshotVersion(p)
  PROVE  HandlersOK' /\ FilesInv'
<1> DEFINE f == frame[p]
           d == f.id
<1>1. FilesHold(document, versions, stored, stale, "replace.version", f)
  BY DEF FilesInv, SnapshotVersion, At
<1>2. d \in Docs /\ f.was \in stored \cup {None}
  BY <1>1 DEF FilesHold, ReplaceLabels
<1>3. /\ versions' = [versions EXCEPT ![d] = @ \cup {f.was}] /\ Goto(p, "replace.upload")
      /\ stored' = stored /\ document' = document /\ attachment' = attachment /\ pointedAt' = pointedAt
  BY DEF SnapshotVersion
<1>4. versions = [e \in Docs |-> versions[e]] /\ FilesAreKept /\ RowsOK
  BY DEF FilesInv, RowsOK
<1>5. versions'[d] = versions[d] \cup {f.was} /\ \A e \in Docs \ {d} : versions'[e] = versions[e]
  BY <1>2, <1>3, <1>4
<1>6. versions' = [e \in Docs |-> versions'[e]]
  BY <1>3, <1>4, <1>5, Zenon
<1>7. RowsOK'
  BY <1>3, <1>4, <1>6 DEF RowsOK
<1>8. \A e \in Docs : versions[e] \subseteq versions'[e] /\ versions'[e] \subseteq versions[e] \cup {f.was}
  BY <1>5
<1>9. FilesAreKept'
  BY <1>2, <1>3, <1>4, <1>8, FreshBefore DEF FilesAreKept, Fresh
<1>10. FilesAccrue
  BY <1>3, <1>8 DEF FilesAccrue
<1>11. FilesHold(document', versions', stored', stale', "replace.upload", f)
  BY <1>1, <1>2, <1>3, <1>5, FreshBefore DEF FilesHold, ReplaceLabels
<1>12. Moved(p, "replace.upload", f)
  BY <1>3, WentOn
<1> QED
  BY <1>7, <1>9, <1>10, <1>11, <1>12, Stored

LEMMA UploadReplacementKept ==
  ASSUME HandlersOK, FilesInv, Watch(DocumentsChanged), NEW p \in Procs, UploadReplacement(p)
  PROVE  HandlersOK' /\ FilesInv'
<1>1. FilesHold(document, versions, stored, stale, "replace.upload", frame[p])
  BY DEF FilesInv, UploadReplacement, At
<1>2. stored' = stored \cup {frame[p].file} /\ Upload(p, "replace.write")
  BY DEF UploadReplacement, Upload
<1>3. FilesHold(document, versions, stored', stale', "replace.write", frame[p])
  BY <1>1, <1>2, FreshBefore DEF FilesHold, ReplaceLabels
<1> QED
  BY <1>2, <1>3, FileUploaded

LEMMA WriteReplacementKept ==
  ASSUME HandlersOK, FilesInv, Watch(DocumentsChanged), NEW p \in Procs, WriteReplacement(p)
  PROVE  HandlersOK' /\ FilesInv'
<1> DEFINE f == frame[p]
           d == f.id
<1>1. FilesHold(document, versions, stored, stale, "replace.write", f)
  BY DEF FilesInv, WriteReplacement, At
<1>2. /\ d \in Docs /\ document[d].state # "absent" /\ f.file \in stored \cap Files
      /\ d \notin stale => document[d].file = f.was /\ f.was \in versions[d]
  BY <1>1 DEF FilesHold, ReplaceLabels
<1>3. document[d].state \in {"live", "deleted"}
  BY <1>2 DEF FilesInv, RowsOK, RowStates
<1>4. d \notin stale' => pointedAt[d] \subseteq versions[d]
  BY <1>2, FreshBefore DEF FilesInv, FilesAreKept, Fresh
<1>5. Point(d, document[d].state, f.file) /\ Moved(p, "idle", None)
  BY Finished DEF WriteReplacement
<1> QED
  BY <1>2, <1>3, <1>4, <1>5, IdleHolds, Pointed

(* The trash changes the state of a row and nothing else. *)
LEMMA StateKept ==
  ASSUME HandlersOK, FilesInv, Watch(DocumentsChanged), NEW p \in Procs, NEW d \in Docs,
         DeleteDocument(p, d) \/ RestoreDocument(p, d)
  PROVE  HandlersOK' /\ FilesInv'
<1>1. PICK s \in {"live", "deleted"} : document' = [document EXCEPT ![d].state = s]
  BY DEF DeleteDocument, RestoreDocument
<1>2. /\ stored' = stored /\ versions' = versions /\ attachment' = attachment /\ pointedAt' = pointedAt
      /\ document[d].state # "absent" /\ AtOnce(p)
  BY DEF DeleteDocument, RestoreDocument
<1>3. RowsOK /\ FilesAreKept
  BY DEF FilesInv
<1>4. /\ \A e \in Docs : document'[e].file = document[e].file
      /\ document'[d].state = s /\ \A e \in Docs \ {d} : document'[e].state = document[e].state
      /\ document' \in [Docs -> [state : RowStates, file : Files \cup {None}]]
  BY <1>1, <1>3 DEF RowsOK, RowStates
<1>5. RowsOK'
  BY <1>2, <1>3, <1>4 DEF RowsOK
<1>6. FilesAreKept'
  BY <1>2, <1>3, <1>4, FreshBefore DEF FilesAreKept, Fresh
<1>7. FilesAccrue
  BY <1>2, <1>4 DEF FilesAccrue
<1>8. Moved(p, "idle", frame[p])
  BY <1>2, Passed
<1> QED
  BY <1>5, <1>6, <1>7, <1>8, IdleHolds, Stored

LEMMA AttachKept ==
  ASSUME HandlersOK, FilesInv, Watch(DocumentsChanged), NEW p \in Procs, NEW o \in Owners, Attach(p, o)
  PROVE  HandlersOK' /\ FilesInv'
<1>1. PICK k \in Files : Enter(p, "attach.upload", [id |-> o, file |-> k, uses |-> {}])
  BY DEF Attach
<1> DEFINE f == [id |-> o, file |-> k, uses |-> {}]
<1>2. FilesHold(document, versions, stored, stale', "attach.upload", f)
  BY DEF FilesHold, ReplaceLabels
<1>3. Moved(p, "attach.upload", f) /\ UNCHANGED documents
  BY <1>1, Entered DEF Attach
<1> HIDE DEF f
<1> QED
  BY <1>2, <1>3, FilesRead

LEMMA UploadAttachmentKept ==
  ASSUME HandlersOK, FilesInv, Watch(DocumentsChanged), NEW p \in Procs, UploadAttachment(p)
  PROVE  HandlersOK' /\ FilesInv'
<1>1. FilesHold(document, versions, stored, stale, "attach.upload", frame[p])
  BY DEF FilesInv, UploadAttachment, At
<1>2. frame[p].file \in stored' /\ Upload(p, "attach.value")
  BY DEF UploadAttachment, Upload
<1>3. FilesHold(document, versions, stored', stale', "attach.value", frame[p])
  BY <1>1, <1>2 DEF FilesHold, ReplaceLabels
<1> QED
  BY <1>2, <1>3, FileUploaded

LEMMA SetFileValueKept ==
  ASSUME HandlersOK, FilesInv, Watch(DocumentsChanged), NEW p \in Procs, SetFileValue(p)
  PROVE  HandlersOK' /\ FilesInv'
<1>1. FilesHold(document, versions, stored, stale, "attach.value", frame[p])
  BY DEF FilesInv, SetFileValue, At
<1>2. frame[p].file \in stored
  BY <1>1 DEF FilesHold
<1>3. /\ attachment' = [attachment EXCEPT ![frame[p].id] = frame[p].file] /\ Finish(p)
      /\ stored' = stored /\ document' = document /\ versions' = versions /\ pointedAt' = pointedAt
  BY DEF SetFileValue
<1>4. attachment = [o \in Owners |-> attachment[o]] /\ FilesAreKept /\ RowsOK
  BY DEF FilesInv, RowsOK
<1>5. \A o \in Owners : attachment'[o] \in {attachment[o], frame[p].file}
  BY <1>3, <1>4
<1>6. attachment' = [o \in Owners |-> attachment'[o]]
  BY <1>3, <1>4, Zenon
<1>7. RowsOK'
  BY <1>3, <1>4, <1>6 DEF RowsOK
<1>8. FilesAreKept'
  BY <1>2, <1>3, <1>4, <1>5, FreshBefore DEF FilesAreKept, Fresh
<1>9. FilesAccrue
  BY <1>3 DEF FilesAccrue
<1>10. Moved(p, "idle", None)
  BY <1>3, Finished
<1> QED
  BY <1>7, <1>8, <1>9, <1>10, IdleHolds, Stored

LEMMA DocumentsStep ==
  ASSUME HandlersOK, FilesInv, DocumentsNext
  PROVE  HandlersOK' /\ FilesInv'
<1>1. PICK p \in Procs : DocumentRoutes(p) \/ ContinueDocuments(p)
  BY DEF DocumentsNext
<1>2. Watch(DocumentsChanged)
  BY DEF DocumentsNext
<1>3. CASE DocumentRoutes(p)
  BY <1>2, <1>3, CreateBatchKept, ReplaceFileKept, StateKept, AttachKept DEF DocumentRoutes
<1>4. CASE ContinueDocuments(p)
  <2>1. CASE Fail(p) /\ UNCHANGED documents
    BY <1>2, <2>1, Failed, IdleHolds, FilesRead
  <2> QED
    BY <1>2, <1>4, <2>1, UploadBatchKept, InsertDocumentKept, SnapshotVersionKept, UploadReplacementKept,
       WriteReplacementKept, UploadAttachmentKept, SetFileValueKept DEF ContinueDocuments
<1> QED
  BY <1>1, <1>3, <1>4

LEMMA DocumentsBegin == HandlersInit /\ DocumentsInit => HandlersOK /\ FilesInv
<1> SUFFICES ASSUME HandlersInit, DocumentsInit PROVE HandlersOK /\ FilesInv
  OBVIOUS
<1>1. HandlersOK /\ \A p \in Procs : pc[p] = "idle"
  BY Begun
<1>2. \A d \in Docs : versions[d] = {} /\ pointedAt[d] = {} /\ document[d] = [state |-> "absent", file |-> None]
  BY DEF DocumentsInit
<1>3. \A o \in Owners : attachment[o] = None
  BY DEF DocumentsInit
<1>4. /\ versions = [d \in Docs |-> versions[d]] /\ attachment = [o \in Owners |-> attachment[o]]
      /\ pointedAt = [d \in Docs |-> pointedAt[d]]
  BY <1>2, <1>3, Zenon DEF DocumentsInit
<1>5. RowsOK
  BY <1>2, <1>4 DEF RowsOK, DocumentsInit, RowStates
<1>6. FilesAreKept
  BY <1>2, <1>3 DEF FilesAreKept
<1> QED
  BY <1>1, <1>5, <1>6, IdleHolds DEF FilesInv

LEMMA DocumentsStutter ==
  ASSUME HandlersOK, FilesInv, UNCHANGED <<pc, frame, stale, documents>>
  PROVE  HandlersOK' /\ FilesInv'
  BY DEF HandlersOK, FilesInv, RowsOK, FilesAreKept, Fresh, documents

(* No file that a document ever pointed at is lost, and none that a row, a *)
(* version or a field value names is missing from the store, for any       *)
(* number of documents, batches and handlers that die half-way.            *)
THEOREM NoFileIsLost == DocumentsSpec => []FilesAreKept
<1>1. HandlersOK /\ FilesInv /\ [DocumentsNext]_<<pc, frame, stale, documents>> => (HandlersOK /\ FilesInv)'
  BY DocumentsStep, DocumentsStutter
<1>2. FilesInv => FilesAreKept
  BY DEF FilesInv
<1> QED
  BY <1>1, <1>2, DocumentsBegin, PTL DEF DocumentsSpec

-----------------------------------------------------------------------------
(* Attendance *)

AttendanceRow == [state : RowStates, who : Names, slot : Slots \cup {None}, count : Counts]

CorrectionFrame == [id : CheckIns, who : Sent(Names), slot : Sent(Slots), count : Sent(Counts),
                    uses : SUBSET CheckIns]

Singular(row) == row.who # None => row.count = 1

Corrected(row, f) == [row EXCEPT !.who = Or(f.who, @), !.slot = Or(f.slot, @), !.count = Or(f.count, @)]

(* What a correction that is about to be written knows of the rows A. *)
Expects(A, S, l, f) ==
  l = "attendance.write" =>
    /\ f \in CorrectionFrame /\ f.uses = {f.id}
    /\ f.id \notin S => Singular(Corrected(A[f.id], f))

AttendanceInv ==
  /\ attendance \in [CheckIns -> AttendanceRow]
  /\ \A p \in Procs : Expects(attendance, stale, pc[p], frame[p])
  /\ NamedCountsOnce

AttendanceWatch == Watch(ChangedIn(attendance, attendance'))

LEMMA OneIsCount == 1 \in Counts /\ Same \notin Counts
  BY AttendanceAssumption DEF Counts

LEMMA OrIn ==
  ASSUME NEW S, NEW x \in S, NEW g \in Sent(S)
  PROVE  Or(g, x) \in S
  BY DEF Or, Sent

LEMMA IdleExpects ==
  ASSUME NEW A, NEW S, NEW f
  PROVE  Expects(A, S, "idle", f)
  BY DEF Expects

LEMMA CorrectedIn ==
  ASSUME NEW row \in AttendanceRow, NEW f \in CorrectionFrame
  PROVE  /\ Corrected(row, f) \in AttendanceRow
         /\ Corrected(row, f).who = Or(f.who, row.who)
         /\ Corrected(row, f).count = Or(f.count, row.count)
<1>1. Or(f.who, row.who) \in Names
  BY OrIn DEF CorrectionFrame, AttendanceRow
<1>2. Or(f.slot, row.slot) \in Slots \cup {None}
  BY DEF Or, Sent, CorrectionFrame, AttendanceRow
<1>3. Or(f.count, row.count) \in Counts
  BY OrIn DEF CorrectionFrame, AttendanceRow
<1> QED
  BY <1>1, <1>2, <1>3 DEF Corrected, AttendanceRow

LEMMA StillExpects ==
  ASSUME AttendanceInv, AttendanceWatch, NEW q \in Procs, pc'[q] = pc[q], frame'[q] = frame[q]
  PROVE  Expects(attendance', stale', pc'[q], frame'[q])
<1> DEFINE f == frame[q]
<1> SUFFICES ASSUME pc[q] = "attendance.write"
             PROVE  /\ f \in CorrectionFrame /\ f.uses = {f.id}
                    /\ f.id \notin stale' => Singular(Corrected(attendance'[f.id], f))
  BY DEF Expects
<1>1. Expects(attendance, stale, pc[q], f)
  BY DEF AttendanceInv
<1>2. f \in CorrectionFrame /\ f.uses = {f.id} /\ (f.id \notin stale => Singular(Corrected(attendance[f.id], f)))
  BY <1>1 DEF Expects
<1>3. ASSUME f.id \notin stale'
      PROVE  f.id \notin stale /\ attendance'[f.id] = attendance[f.id]
  <2>1. f.id \notin ChangedIn(attendance, attendance')
    BY <1>2, <1>3, Unwatched DEF AttendanceWatch
  <2>2. f.id \in DOMAIN attendance
    BY <1>2 DEF AttendanceInv, CorrectionFrame
  <2> QED
    BY <1>3, <2>1, <2>2, FreshBefore DEF AttendanceWatch, ChangedIn
<1> QED
  BY <1>2, <1>3

(* A step of p that leaves the rows alone. *)
LEMMA AttendanceRead ==
  ASSUME HandlersOK, AttendanceInv, AttendanceWatch, UNCHANGED attendance,
         NEW p \in Procs, NEW l, NEW f, Moved(p, l, f), Expects(attendance, stale', l, f)
  PROVE  HandlersOK' /\ AttendanceInv'
<1>1. \A q \in Procs \ {p} : Expects(attendance', stale', pc'[q], frame'[q])
  BY StillExpects DEF Moved, Others
<1>2. \A q \in Procs : Expects(attendance', stale', pc'[q], frame'[q])
  BY <1>1 DEF Moved
<1>3. NamedCountsOnce'
  BY FreshBefore DEF AttendanceInv, NamedCountsOnce, AttendanceWatch
<1> QED
  BY <1>2, <1>3 DEF AttendanceInv, Moved

(* A step of p that writes a row and is done with it. *)
LEMMA AttendanceWritten ==
  ASSUME HandlersOK, AttendanceInv, AttendanceWatch, NEW x \in CheckIns, NEW row \in AttendanceRow,
         SetRow(x, row), x \notin stale' => Singular(row),
         NEW p \in Procs, NEW f, Moved(p, "idle", f)
  PROVE  HandlersOK' /\ AttendanceInv'
<1>1. \A q \in Procs \ {p} : Expects(attendance', stale', pc'[q], frame'[q])
  BY StillExpects DEF Moved, Others
<1>2. \A q \in Procs : Expects(attendance', stale', pc'[q], frame'[q])
  BY <1>1, IdleExpects DEF Moved
<1>3. attendance' \in [CheckIns -> AttendanceRow]
  BY DEF AttendanceInv, SetRow
<1>4. attendance'[x] = row /\ \A y \in CheckIns \ {x} : attendance'[y] = attendance[y]
  BY DEF AttendanceInv, SetRow
<1>5. ASSUME NEW y \in CheckIns, y \notin stale'
      PROVE  Singular(attendance'[y])
  <2>1. y \notin stale
    BY <1>5, FreshBefore DEF AttendanceWatch
  <2>2. CASE y = x
    BY <1>4, <1>5, <2>2
  <2>3. CASE y # x
    BY <1>4, <2>1, <2>3 DEF AttendanceInv, NamedCountsOnce, Singular
  <2> QED
    BY <2>2, <2>3
<1>6. NamedCountsOnce'
  BY <1>5 DEF NamedCountsOnce, Singular
<1> QED
  BY <1>2, <1>3, <1>6 DEF AttendanceInv, Moved

LEMMA RecordKept ==
  ASSUME HandlersOK, AttendanceInv, AttendanceWatch, NEW p \in Procs, NEW x \in CheckIns,
         NEW who \in Names, NEW slot \in Slots, NEW count \in Counts, RecordAttendance(p, x, who, slot, count)
  PROVE  HandlersOK' /\ AttendanceInv'
<1> DEFINE row == [state |-> "live", who |-> who, slot |-> slot, count |-> ResolveHeadcount(who, count)]
<1>1. row \in AttendanceRow /\ Singular(row)
  BY OneIsCount DEF AttendanceRow, RowStates, ResolveHeadcount, Singular
<1>2. SetRow(x, row)
  BY DEF RecordAttendance
<1>3. Moved(p, "idle", frame[p])
  BY Passed DEF RecordAttendance
<1> HIDE DEF row
<1> QED
  BY <1>1, <1>2, <1>3, AttendanceWritten

LEMMA CorrectKept ==
  ASSUME HandlersOK, AttendanceInv, AttendanceWatch, NEW p \in Procs, NEW x \in CheckIns,
         NEW who \in Sent(Names), NEW slot \in Sent(Slots), NEW count \in Sent(Counts),
         CorrectAttendance(p, x, who, slot, count)
  PROVE  HandlersOK' /\ AttendanceInv'
<1> DEFINE row == attendance[x]
           settled == ResolveHeadcount(Or(who, row.who), Or(count, row.count))
           sent == IF count = Same /\ who = Same THEN Same ELSE settled
           f == [id |-> x, who |-> who, slot |-> slot, uses |-> {x}, count |-> sent]
<1>1. row \in AttendanceRow
  BY DEF AttendanceInv
<1>2. settled \in Counts /\ (Or(who, row.who) # None => settled = 1)
  BY <1>1, OneIsCount, OrIn DEF AttendanceRow, ResolveHeadcount
<1>3. sent \in Sent(Counts)
  BY <1>2 DEF Sent
<1>4. f \in CorrectionFrame /\ f.id = x /\ f.uses = {x} /\ f.who = who /\ f.count = sent
  BY <1>3 DEF CorrectionFrame
<1>5. x \notin stale => (Or(who, row.who) # None => Or(sent, row.count) = 1)
  <2> SUFFICES ASSUME x \notin stale, Or(who, row.who) # None
               PROVE  Or(sent, row.count) = 1
    OBVIOUS
  <2>1. CASE count = Same /\ who = Same
    BY <2>1 DEF Or, AttendanceInv, NamedCountsOnce
  <2>2. CASE ~(count = Same /\ who = Same)
    BY <1>2, <2>2, OneIsCount DEF Or
  <2> QED
    BY <2>1, <2>2
<1>6. Enter(p, "attendance.write", f) /\ UNCHANGED attendance
  BY DEF CorrectAttendance
<1> HIDE DEF f, sent, settled
<1>7. Moved(p, "attendance.write", f)
  BY <1>6, Entered
<1>8. x \notin stale' => Singular(Corrected(attendance[x], f))
  BY <1>1, <1>4, <1>5, CorrectedIn, FreshBefore DEF Singular, AttendanceWatch
<1>9. Expects(attendance, stale', "attendance.write", f)
  BY <1>4, <1>8 DEF Expects
<1> QED
  BY <1>6, <1>7, <1>9, AttendanceRead

LEMMA WriteCorrectionKept ==
  ASSUME HandlersOK, AttendanceInv, AttendanceWatch, NEW p \in Procs, WriteAttendance(p)
  PROVE  HandlersOK' /\ AttendanceInv'
<1> DEFINE f == frame[p]
           row == Corrected(attendance[f.id], f)
<1>1. Expects(attendance, stale, "attendance.write", f)
  BY DEF AttendanceInv, WriteAttendance, At
<1>2. f \in CorrectionFrame /\ f.id \in CheckIns /\ (f.id \notin stale => Singular(row))
  BY <1>1 DEF Expects, CorrectionFrame
<1>3. row \in AttendanceRow
  BY <1>2, CorrectedIn DEF AttendanceInv
<1>4. SetRow(f.id, row) /\ Finish(p)
  BY DEF WriteAttendance, Corrected
<1>5. Moved(p, "idle", None)
  BY <1>4, Finished
<1>6. f.id \notin stale' => Singular(row)
  BY <1>2, FreshBefore DEF AttendanceWatch
<1> HIDE DEF row
<1> QED
  BY <1>2, <1>3, <1>4, <1>5, <1>6, AttendanceWritten

LEMMA BinnedKept ==
  ASSUME HandlersOK, AttendanceInv, AttendanceWatch, NEW p \in Procs, NEW x \in CheckIns,
         DeleteAttendance(p, x) \/ RestoreAttendance(p, x)
  PROVE  HandlersOK' /\ AttendanceInv'
<1> PICK s \in RowStates : SetRow(x, [attendance[x] EXCEPT !.state = s])
  BY DEF DeleteAttendance, RestoreAttendance, RowStates
<1> DEFINE row == [attendance[x] EXCEPT !.state = s]
<1>1. attendance[x] \in AttendanceRow
  BY DEF AttendanceInv
<1>2. row \in AttendanceRow /\ row.who = attendance[x].who /\ row.count = attendance[x].count
  BY <1>1 DEF AttendanceRow
<1>3. x \notin stale' => Singular(row)
  BY <1>2, FreshBefore DEF AttendanceInv, NamedCountsOnce, Singular, AttendanceWatch
<1>4. Moved(p, "idle", frame[p])
  BY Passed DEF DeleteAttendance, RestoreAttendance
<1> QED
  BY <1>2, <1>3, <1>4, AttendanceWritten

LEMMA AttendanceStep ==
  ASSUME HandlersOK, AttendanceInv, AttendanceNext
  PROVE  HandlersOK' /\ AttendanceInv'
<1>1. PICK p \in Procs : AttendanceRoutes(p) \/ ContinueAttendance(p)
  BY DEF AttendanceNext
<1>2. AttendanceWatch
  BY DEF AttendanceNext, AttendanceWatch
<1>3. CASE AttendanceRoutes(p)
  BY <1>2, <1>3, BinnedKept, RecordKept, CorrectKept DEF AttendanceRoutes, Sent
<1>4. CASE ContinueAttendance(p)
  <2>1. CASE Fail(p) /\ UNCHANGED attendance
    BY <1>2, <2>1, Failed, IdleExpects, AttendanceRead
  <2> QED
    BY <1>2, <1>4, <2>1, WriteCorrectionKept DEF ContinueAttendance
<1> QED
  BY <1>1, <1>3, <1>4

LEMMA AttendanceInvariant == AttendanceSpec => [](HandlersOK /\ AttendanceInv)
<1>1. HandlersInit /\ AttendanceInit => HandlersOK /\ AttendanceInv
  <2> SUFFICES ASSUME HandlersInit, AttendanceInit PROVE HandlersOK /\ AttendanceInv
    OBVIOUS
  <2>1. HandlersOK /\ \A p \in Procs : pc[p] = "idle"
    BY Begun
  <2>2. attendance \in [CheckIns -> AttendanceRow] /\ NamedCountsOnce
    BY OneIsCount DEF AttendanceInit, AttendanceRow, RowStates, Names, NamedCountsOnce
  <2> QED
    BY <2>1, <2>2, IdleExpects DEF AttendanceInv
<1>2. HandlersOK /\ AttendanceInv /\ UNCHANGED <<pc, frame, stale, attendance>> => (HandlersOK /\ AttendanceInv)'
  BY DEF HandlersOK, AttendanceInv, NamedCountsOnce
<1> QED
  BY <1>1, <1>2, AttendanceStep, PTL DEF AttendanceSpec

(* AttendanceService.update keeps what create establishes: a record that   *)
(* names a member counts for one, for any number of records and handlers,  *)
(* unless the record changed between its read and its write.               *)
THEOREM NamedCountOne == AttendanceSpec => []NamedCountsOnce
<1>1. AttendanceInv => NamedCountsOnce
  BY DEF AttendanceInv
<1> QED
  BY <1>1, AttendanceInvariant, PTL

-----------------------------------------------------------------------------
(* Accounts *)

AccountRow == [state : RowStates, active : BOOLEAN, locked : BOOLEAN, dept : Places, leads : BOOLEAN]

AccountRowsOK ==
  /\ account \in [Accounts -> AccountRow]
  /\ grants \in [Accounts -> SUBSET Roles]
  /\ role = [r \in Roles |-> role[r]]

(* Where a handler goes once its caller may manage the account. *)
Nexts == AccountLabels \cup {"account.update", "roles.delete"}

Labels == Nexts \cup {"delegate.check", "roles.check", "roles.insert"}

RolesLabels == {"roles.check", "roles.delete", "roles.insert"}

(* The request of a handler that is to go on at label l. *)
Asks(l, a) ==
  /\ l \in RolesLabels => a.roles \in SUBSET Roles
  /\ l = "account.move" => a.to \in Places
  /\ l = "account.update" =>
       a.to \in Sent(Places) /\ a.leads \in Sent(BOOLEAN) /\ a.roles \in Sent(SUBSET Roles)

AccountFrame(f) ==
  /\ f = [id |-> f.id, caller |-> f.caller, dept |-> f.dept, uses |-> f.uses, next |-> f.next, asked |-> f.asked]
  /\ f.id \in Accounts /\ f.caller \in Accounts \cup {None} /\ f.id \in f.uses

(* A leader that has been checked, and the roles that have been. *)
Delegated(A, f) == A[f.caller].leads /\ A[f.id].dept = A[f.caller].dept
Delegable(R, f) == \A r \in f.asked.roles : R[r].delegable

(* What a handler at label l with locals f knows of the accounts A, the    *)
(* grants G and the roles R, if what it read is not among the stale S.     *)
Relies(A, G, R, S, l, f) ==
  l \in Labels =>
    /\ AccountFrame(f)
    /\ f.id \notin S => A[f.id].state = "live"
    /\ l = "delegate.check" => f.next \in Nexts /\ Asks(f.next, f.asked) /\ (f.id \notin S => f.dept = A[f.id].dept)
    /\ l # "delegate.check" =>
         /\ Asks(l, f.asked)
         /\ f.caller # None => f.caller \in f.uses /\ (f.uses \cap S = {} => Delegated(A, f))
    /\ l \in {"roles.delete", "roles.insert"} /\ f.caller # None =>
         f.asked.roles \subseteq f.uses /\ (f.uses \cap S = {} => Delegable(R, f))
    /\ l = "roles.insert" => (f.id \notin S => G[f.id] = {})

AccountsInv ==
  /\ AccountRowsOK
  /\ \A p \in Procs : Relies(account, grants, role, stale, pc[p], frame[p])
  /\ DeletedIsInactive

(* The two action properties, of one account and of one handler. *)
GivenAtOnce(u) ==
  ~(grants'[u] \subseteq grants[u]) =>
    \/ account[u].state = "absent" \/ u \in stale'
    \/ \E p \in Procs : /\ pc[p] # "idle" /\ pc'[p] = "idle"
                        /\ frame[p].id = u /\ grants'[u] = frame[p].asked.roles

StaysWithin(p) ==
  pc[p] \in DelegableLabels /\ frame[p].caller # None =>
    \/ UNCHANGED <<account, grants>> \/ pc'[p] = pc[p]
    \/ ~Fresh(frame[p].uses)
    \/ LET u == frame[p].id  c == frame[p].caller IN
       /\ account[c].leads /\ account[u].dept = account[c].dept
       /\ \A r \in grants'[u] \ grants[u] : role[r].delegable

AccountsGood ==
  /\ HandlersOK' /\ AccountsInv'
  /\ \A u \in Accounts : GivenAtOnce(u)
  /\ \A p \in Procs : StaysWithin(p)

AccountsWatch == Watch(AccountsChanged)

LEMMA IdleRelies ==
  ASSUME NEW A, NEW G, NEW R, NEW S, NEW f
  PROVE  Relies(A, G, R, S, "idle", f)
  BY DEF Relies, Labels, Nexts, AccountLabels

(* A row that a waiting handler uses, and that is fresh, did not change. *)
LEMMA UnchangedRows ==
  ASSUME AccountRowsOK, AccountRowsOK', AccountsWatch, NEW q \in Procs, pc[q] # "idle", pc'[q] = pc[q],
         NEW i \in frame[q].uses, i \notin stale'
  PROVE  /\ i \notin stale
         /\ i \in Accounts => account'[i] = account[i] /\ grants'[i] = grants[i]
         /\ i \in Roles => role'[i] = role[i]
<1>1. i \notin stale
  BY FreshBefore DEF AccountsWatch
<1>2. i \notin ChangedIn(account, account') /\ i \notin ChangedIn(role, role') /\ i \notin ChangedIn(grants, grants')
  BY Unwatched DEF AccountsWatch, AccountsChanged
<1>3. DOMAIN account = Accounts /\ DOMAIN grants = Accounts /\ DOMAIN role = Roles
  BY DEF AccountRowsOK
<1> QED
  BY <1>1, <1>2, <1>3 DEF ChangedIn

LEMMA StillRelies ==
  ASSUME AccountsInv, AccountRowsOK', AccountsWatch, NEW q \in Procs, pc'[q] = pc[q], frame'[q] = frame[q]
  PROVE  Relies(account', grants', role', stale', pc'[q], frame'[q])
<1> DEFINE f == frame[q]
           l == pc[q]
<1> SUFFICES ASSUME l \in Labels
             PROVE  Relies(account', grants', role', stale', l, f)
  BY DEF Relies
<1>1. Relies(account, grants, role, stale, l, f) /\ AccountRowsOK
  BY DEF AccountsInv
<1>2. l # "idle"
  BY DEF Labels, Nexts, AccountLabels
<1>3. AccountFrame(f) /\ f.id \in Accounts /\ f.id \in f.uses
  BY <1>1 DEF Relies, AccountFrame
<1>4. f.id \notin stale' => f.id \notin stale /\ account'[f.id] = account[f.id] /\ grants'[f.id] = grants[f.id]
  BY <1>1, <1>2, <1>3, UnchangedRows
<1>5. f.uses \cap stale' = {} => f.uses \cap stale = {}
  BY <1>1, <1>2, UnchangedRows
<1>6. ASSUME l # "delegate.check", f.caller # None
      PROVE  f.caller \in f.uses /\ (f.uses \cap stale' = {} => Delegated(account', f))
  <2>1. f.caller \in Accounts /\ f.caller \in f.uses /\ (f.uses \cap stale = {} => Delegated(account, f))
    BY <1>1, <1>3, <1>6 DEF Relies, AccountFrame
  <2>2. f.caller \notin stale' => account'[f.caller] = account[f.caller]
    BY <1>1, <1>2, <2>1, UnchangedRows
  <2> QED
    BY <1>3, <1>4, <1>5, <2>1, <2>2 DEF Delegated
<1>7. ASSUME l \in {"roles.delete", "roles.insert"}, f.caller # None
      PROVE  f.asked.roles \subseteq f.uses /\ (f.uses \cap stale' = {} => Delegable(role', f))
  <2>1. f.asked.roles \subseteq f.uses /\ (f.uses \cap stale = {} => Delegable(role, f))
    BY <1>1, <1>7 DEF Relies
  <2>2. f.asked.roles \in SUBSET Roles
    BY <1>1, <1>7 DEF Relies, Asks, RolesLabels
  <2>3. \A r \in f.asked.roles : r \notin stale' => role'[r] = role[r]
    BY <1>1, <1>2, <2>1, <2>2, UnchangedRows
  <2> QED
    BY <1>5, <2>1, <2>3 DEF Delegable
<1>8. l # "delegate.check" => Asks(l, f.asked)
  BY <1>1 DEF Relies
<1>9. l = "delegate.check" => f.next \in Nexts /\ Asks(f.next, f.asked) /\ (f.id \notin stale' => f.dept = account'[f.id].dept)
  BY <1>1, <1>4 DEF Relies
<1>10. f.id \notin stale' => account'[f.id].state = "live"
  BY <1>1, <1>4 DEF Relies
<1>11. l = "roles.insert" => (f.id \notin stale' => grants'[f.id] = {})
  BY <1>1, <1>4 DEF Relies
<1> HIDE DEF f, l
<1> QED
  BY <1>3, <1>6, <1>7, <1>8, <1>9, <1>10, <1>11 DEF Relies

(* A whole step of p: the rows and p in order afterwards make all so. *)
LEMMA AccountsStepped ==
  ASSUME HandlersOK, AccountsInv, AccountsWatch, AccountRowsOK', DeletedIsInactive',
         NEW p \in Procs, NEW l, NEW f, Moved(p, l, f), Relies(account', grants', role', stale', l, f),
         \A u \in Accounts : GivenAtOnce(u), StaysWithin(p)
  PROVE  AccountsGood
<1>1. \A q \in Procs \ {p} : pc'[q] = pc[q] /\ frame'[q] = frame[q]
  BY DEF Moved, Others
<1>2. \A q \in Procs \ {p} : Relies(account', grants', role', stale', pc'[q], frame'[q])
  BY <1>1, StillRelies
<1>3. \A q \in Procs : Relies(account', grants', role', stale', pc'[q], frame'[q])
  BY <1>2 DEF Moved
<1>4. \A q \in Procs : StaysWithin(q)
  BY <1>1 DEF StaysWithin
<1> QED
  BY <1>3, <1>4 DEF AccountsGood, AccountsInv, Moved

(* A step of p that leaves the rows alone. *)
LEMMA AccountsRead ==
  ASSUME HandlersOK, AccountsInv, AccountsWatch, UNCHANGED accounts,
         NEW p \in Procs, NEW l, NEW f, Moved(p, l, f), Relies(account, grants, role, stale', l, f)
  PROVE  AccountsGood
<1>1. account' = account /\ role' = role /\ grants' = grants
  BY DEF accounts
<1>2. AccountRowsOK'
  BY <1>1 DEF AccountsInv, AccountRowsOK
<1>3. DeletedIsInactive'
  BY <1>1, FreshBefore DEF AccountsInv, DeletedIsInactive, AccountsWatch
<1>4. StaysWithin(p) /\ \A u \in Accounts : GivenAtOnce(u)
  BY <1>1 DEF StaysWithin, GivenAtOnce
<1>5. Relies(account', grants', role', stale', l, f)
  BY <1>1
<1> QED
  BY <1>2, <1>3, <1>4, <1>5, AccountsStepped

(* An account that a step writes is in order afterwards. *)
LEMMA RowKeepsInactive ==
  ASSUME AccountsInv, AccountsWatch, NEW u \in Accounts, NEW row \in AccountRow, account' = [account EXCEPT ![u] = row],
         u \notin stale' => (row.state = "deleted" => ~row.active)
  PROVE  DeletedIsInactive' /\ account' \in [Accounts -> AccountRow]
<1>1. account \in [Accounts -> AccountRow]
  BY DEF AccountsInv, AccountRowsOK
<1>2. account'[u] = row /\ \A v \in Accounts \ {u} : account'[v] = account[v]
  BY <1>1
<1>3. ASSUME NEW v \in Accounts, account'[v].state = "deleted", account'[v].active
      PROVE  v \in stale'
  <2>1. CASE v = u
    BY <1>2, <1>3, <2>1
  <2>2. CASE v # u
    BY <1>2, <1>3, <2>2, FreshBefore DEF AccountsInv, DeletedIsInactive, AccountsWatch
  <2> QED
    BY <2>1, <2>2
<1> QED
  BY <1>1, <1>3 DEF DeletedIsInactive

LEMMA AccountWritten ==
  ASSUME HandlersOK, AccountsInv, AccountsWatch, NEW u \in Accounts, NEW row \in AccountRow, SetAccount(u, row),
         u \notin stale' => (row.state = "deleted" => ~row.active),
         NEW p \in Procs, NEW f, Moved(p, "idle", f), StaysWithin(p)
  PROVE  AccountsGood
<1>1. account' = [account EXCEPT ![u] = row] /\ grants' = grants /\ role' = role
  BY DEF SetAccount
<1>2. DeletedIsInactive' /\ account' \in [Accounts -> AccountRow]
  BY <1>1, RowKeepsInactive
<1>3. AccountRowsOK'
  BY <1>1, <1>2 DEF AccountsInv, AccountRowsOK
<1>4. \A v \in Accounts : GivenAtOnce(v)
  BY <1>1 DEF GivenAtOnce
<1> QED
  BY <1>2, <1>3, <1>4, IdleRelies, AccountsStepped

LEMMA GrantsSet ==
  ASSUME HandlersOK, AccountsInv, AccountsWatch, NEW u \in Accounts, NEW rs \in SUBSET Roles, SetGrants(u, rs),
         NEW p \in Procs, NEW l, NEW f, Moved(p, l, f), Relies(account', grants', role', stale', l, f),
         GivenAtOnce(u), StaysWithin(p)
  PROVE  AccountsGood
<1>1. account' = account /\ grants' = [grants EXCEPT ![u] = rs] /\ role' = role
  BY DEF SetGrants
<1>2. AccountRowsOK'
  BY <1>1 DEF AccountsInv, AccountRowsOK
<1>3. DeletedIsInactive'
  BY <1>1, FreshBefore DEF AccountsInv, DeletedIsInactive, AccountsWatch
<1>4. \A v \in Accounts : GivenAtOnce(v)
  BY <1>1 DEF GivenAtOnce, AccountsInv, AccountRowsOK
<1> QED
  BY <1>2, <1>3, <1>4, AccountsStepped

LEMMA RolesSet ==
  ASSUME HandlersOK, AccountsInv, AccountsWatch, UNCHANGED account, role' = [r \in Roles |-> role'[r]],
         grants' \in [Accounts -> SUBSET Roles], \A u \in Accounts : grants'[u] \subseteq grants[u],
         NEW p \in Procs, AtOnce(p)
  PROVE  AccountsGood
<1>1. AccountRowsOK'
  BY DEF AccountsInv, AccountRowsOK
<1>2. DeletedIsInactive'
  BY FreshBefore DEF AccountsInv, DeletedIsInactive, AccountsWatch
<1>3. Moved(p, "idle", frame[p])
  BY Passed
<1>4. StaysWithin(p) /\ \A v \in Accounts : GivenAtOnce(v)
  BY DEF StaysWithin, GivenAtOnce, AtOnce
<1> QED
  BY <1>1, <1>2, <1>3, <1>4, IdleRelies, AccountsStepped

LEMMA ResolveKept ==
  ASSUME HandlersOK, AccountsInv, AccountsWatch, NEW p \in Procs, NEW u \in Accounts,
         NEW caller \in Accounts \cup {None}, NEW next \in Nexts, NEW asked, Asks(next, asked),
         Resolve(p, u, caller, next, asked)
  PROVE  AccountsGood
<1> DEFINE l == IF caller = None THEN next ELSE "delegate.check"
           f == [id |-> u, caller |-> caller, dept |-> account[u].dept, uses |-> {u}, next |-> next, asked |-> asked]
<1>1. Enter(p, l, f) /\ UNCHANGED accounts /\ account[u].state = "live"
  BY DEF Resolve, Present
<1>2. Moved(p, l, f)
  BY <1>1, Entered
<1>3. AccountFrame(f)
  BY DEF AccountFrame
<1>4. f.id = u /\ f.caller = caller /\ f.dept = account[u].dept /\ f.next = next /\ f.asked = asked
  OBVIOUS
<1> HIDE DEF f
<1>5. CASE caller = None
  <2>1. l = next /\ l # "delegate.check" /\ l # "roles.insert"
    BY <1>5 DEF Nexts, AccountLabels
  <2>2. Relies(account, grants, role, stale', l, f)
    BY <1>1, <1>3, <1>4, <1>5, <2>1 DEF Relies
  <2> QED
    BY <1>1, <1>2, <2>2, AccountsRead
<1>6. CASE caller # None
  <2>1. l = "delegate.check"
    BY <1>6
  <2>2. Relies(account, grants, role, stale', l, f)
    BY <1>1, <1>3, <1>4, <2>1 DEF Relies
  <2> QED
    BY <1>1, <1>2, <2>2, AccountsRead
<1> QED
  BY <1>5, <1>6

LEMMA Reused ==
  ASSUME NEW f, AccountFrame(f), NEW S
  PROVE  LET g == [f EXCEPT !.uses = @ \cup S] IN
         /\ AccountFrame(g) /\ g.uses = f.uses \cup S
         /\ g.id = f.id /\ g.caller = f.caller /\ g.dept = f.dept /\ g.next = f.next /\ g.asked = f.asked
  BY DEF AccountFrame

LEMMA CheckDelegateKept ==
  ASSUME HandlersOK, AccountsInv, AccountsWatch, NEW p \in Procs, CheckDelegate(p)
  PROVE  AccountsGood
<1> DEFINE f == frame[p]
           g == [f EXCEPT !.uses = @ \cup {f.caller}]
           l == IF f.next = "roles.delete" THEN "roles.check" ELSE f.next
<1>1. Relies(account, grants, role, stale, "delegate.check", f)
  BY DEF AccountsInv, CheckDelegate, At
<1>2. /\ AccountFrame(f) /\ f.next \in Nexts /\ Asks(f.next, f.asked)
      /\ f.id \notin stale => account[f.id].state = "live"
  BY <1>1 DEF Relies, Labels
<1>3. /\ account[f.caller].leads /\ f.dept = account[f.caller].dept
      /\ Proceed(p, l, g) /\ UNCHANGED accounts
  BY DEF CheckDelegate
<1>4. /\ AccountFrame(g) /\ g.uses = f.uses \cup {f.caller} /\ g.id = f.id /\ g.caller = f.caller /\ g.asked = f.asked
  BY <1>2, Reused
<1>5. l \in Nexts \cup {"roles.check"} /\ l # "roles.delete" /\ Asks(l, f.asked)
  BY <1>2 DEF Asks, RolesLabels
<1>6. l \in Labels /\ l # "delegate.check" /\ l \notin {"roles.delete", "roles.insert"}
  BY <1>5 DEF Labels, Nexts, AccountLabels
<1> HIDE DEF g, l
<1>7. g.uses \cap stale' = {} => Delegated(account, g)
  <2> SUFFICES ASSUME g.uses \cap stale' = {} PROVE Delegated(account, g)
    OBVIOUS
  <2>1. f.id \notin stale
    BY <1>2, <1>4, FreshBefore DEF AccountFrame, AccountsWatch
  <2>2. f.dept = account[f.id].dept
    BY <1>1, <2>1 DEF Relies, Labels
  <2> QED
    BY <1>3, <1>4, <2>2 DEF Delegated
<1>8. f.id \notin stale' => account[f.id].state = "live"
  BY <1>2, FreshBefore DEF AccountsWatch
<1>9. Relies(account, grants, role, stale', l, g)
  BY <1>4, <1>5, <1>6, <1>7, <1>8 DEF Relies
<1>10. Moved(p, l, g)
  BY <1>3, Proceeded
<1> QED
  BY <1>3, <1>9, <1>10, AccountsRead

LEMMA CheckDelegableKept ==
  ASSUME HandlersOK, AccountsInv, AccountsWatch, NEW p \in Procs, CheckDelegable(p)
  PROVE  AccountsGood
<1> DEFINE f == frame[p]
           g == [f EXCEPT !.uses = @ \cup f.asked.roles]
<1>1. Relies(account, grants, role, stale, "roles.check", f)
  BY DEF AccountsInv, CheckDelegable, At
<1>2. /\ AccountFrame(f) /\ Asks("roles.check", f.asked)
      /\ f.id \notin stale => account[f.id].state = "live"
      /\ f.caller # None => f.caller \in f.uses /\ (f.uses \cap stale = {} => Delegated(account, f))
  BY <1>1 DEF Relies, Labels
<1>3. Delegable(role, f) /\ Proceed(p, "roles.delete", g) /\ UNCHANGED accounts
  BY DEF CheckDelegable, Delegable
<1>4. /\ AccountFrame(g) /\ g.uses = f.uses \cup f.asked.roles /\ g.id = f.id /\ g.caller = f.caller /\ g.asked = f.asked
  BY <1>2, Reused
<1> HIDE DEF g
<1>5. Asks("roles.delete", g.asked)
  BY <1>2, <1>4 DEF Asks, RolesLabels
<1>6. \A i : i \notin stale' => i \notin stale
  BY FreshBefore DEF AccountsWatch
<1>7. g.caller # None => g.caller \in g.uses /\ (g.uses \cap stale' = {} => Delegated(account, g))
  BY <1>2, <1>4, <1>6 DEF Delegated
<1>8. g.asked.roles \subseteq g.uses /\ Delegable(role, g)
  BY <1>3, <1>4 DEF Delegable
<1>9. Relies(account, grants, role, stale', "roles.delete", g)
  BY <1>2, <1>4, <1>5, <1>6, <1>7, <1>8 DEF Relies
<1>10. Moved(p, "roles.delete", g)
  BY <1>3, Proceeded
<1> QED
  BY <1>3, <1>9, <1>10, AccountsRead

(* What a handler that checked its caller may rely on when it writes. *)
LEMMA Trusts ==
  ASSUME AccountsInv, NEW p \in Procs, pc[p] \in Labels \ {"delegate.check"}, frame[p].caller # None, Fresh(frame[p].uses)
  PROVE  Delegated(account, frame[p])
  BY DEF AccountsInv, Relies, Fresh

LEMMA DeleteGrantsKept ==
  ASSUME HandlersOK, AccountsInv, AccountsWatch, NEW p \in Procs, DeleteGrants(p)
  PROVE  AccountsGood
<1> DEFINE f == frame[p]
<1>1. pc[p] = "roles.delete" /\ SetGrants(f.id, {}) /\ Goto(p, "roles.insert")
  BY DEF DeleteGrants, At
<1>2. Relies(account, grants, role, stale, "roles.delete", f) /\ AccountRowsOK
  BY <1>1 DEF AccountsInv
<1>3. /\ AccountFrame(f) /\ Asks("roles.delete", f.asked) /\ f.id \in Accounts
      /\ f.id \notin stale => account[f.id].state = "live"
      /\ f.caller # None => f.caller \in f.uses /\ (f.uses \cap stale = {} => Delegated(account, f))
      /\ f.caller # None => f.asked.roles \subseteq f.uses /\ (f.uses \cap stale = {} => Delegable(role, f))
  BY <1>2 DEF Relies, Labels, Nexts, AccountFrame
<1>4. account' = account /\ role' = role /\ grants' = [grants EXCEPT ![f.id] = {}]
  BY <1>1 DEF SetGrants
<1>5. grants'[f.id] = {}
  BY <1>2, <1>3, <1>4 DEF AccountRowsOK
<1>6. \A i : i \notin stale' => i \notin stale
  BY FreshBefore DEF AccountsWatch
<1>7. Asks("roles.insert", f.asked)
  BY <1>3 DEF Asks, RolesLabels
<1>8. Relies(account', grants', role', stale', "roles.insert", f)
  BY <1>3, <1>4, <1>5, <1>6, <1>7 DEF Relies
<1>9. Moved(p, "roles.insert", f)
  BY <1>1, WentOn
<1>10. GivenAtOnce(f.id)
  BY <1>5 DEF GivenAtOnce
<1>11. StaysWithin(p)
  BY <1>1, <1>5, Trusts DEF StaysWithin, Delegated, Labels, Nexts
<1> QED
  BY <1>1, <1>3, <1>8, <1>9, <1>10, <1>11, GrantsSet

LEMMA InsertGrantsKept ==
  ASSUME HandlersOK, AccountsInv, AccountsWatch, NEW p \in Procs, InsertGrants(p)
  PROVE  AccountsGood
<1> DEFINE f == frame[p]
           rs == grants[f.id] \cup f.asked.roles
<1>1. pc[p] = "roles.insert" /\ SetGrants(f.id, rs) /\ Finish(p)
  BY DEF InsertGrants, At
<1>2. Relies(account, grants, role, stale, "roles.insert", f) /\ AccountRowsOK
  BY <1>1 DEF AccountsInv
<1>3. /\ Asks("roles.insert", f.asked) /\ f.id \in Accounts
      /\ f.id \notin stale => grants[f.id] = {}
      /\ f.caller # None => (f.uses \cap stale = {} => Delegable(role, f))
  BY <1>2 DEF Relies, Labels, AccountFrame
<1>4. f.asked.roles \in SUBSET Roles /\ rs \in SUBSET Roles
  BY <1>2, <1>3 DEF Asks, RolesLabels, AccountRowsOK
<1>5. grants'[f.id] = rs
  BY <1>1, <1>2, <1>3 DEF SetGrants, AccountRowsOK
<1>6. Moved(p, "idle", None)
  BY <1>1, Finished
<1>7. pc'[p] = "idle"
  BY <1>6 DEF Moved
<1>8. GivenAtOnce(f.id)
  <2>1. f.id \notin stale' => grants[f.id] = {}
    BY <1>3, FreshBefore DEF AccountsWatch
  <2> QED
    BY <1>1, <1>5, <1>7, <2>1 DEF GivenAtOnce
<1>9. StaysWithin(p)
  <2> SUFFICES ASSUME f.caller # None, Fresh(f.uses)
               PROVE  /\ account[f.caller].leads /\ account[f.id].dept = account[f.caller].dept
                      /\ \A r \in grants'[f.id] \ grants[f.id] : role[r].delegable
    BY DEF StaysWithin
  <2>1. Delegated(account, f)
    BY <1>1, Trusts DEF Labels
  <2>2. Delegable(role, f)
    BY <1>3 DEF Fresh
  <2> QED
    BY <1>5, <2>1, <2>2 DEF Delegated, Delegable
<1> HIDE DEF rs
<1> QED
  BY <1>1, <1>3, <1>4, <1>6, <1>8, <1>9, IdleRelies, GrantsSet

LEMMA WriteAccountKept ==
  ASSUME HandlersOK, AccountsInv, AccountsWatch, NEW p \in Procs, WriteAccount(p)
  PROVE  AccountsGood
<1> DEFINE f == frame[p]
           l == pc[p]
           row == Written(account[f.id], f, l)
<1>1. l \in AccountLabels /\ l \in Labels /\ l # "delegate.check" /\ SetAccount(f.id, row) /\ Finish(p)
  BY DEF WriteAccount, Labels, Nexts, AccountLabels
<1>2. Relies(account, grants, role, stale, l, f) /\ AccountRowsOK
  BY DEF AccountsInv
<1>3. f.id \in Accounts /\ Asks(l, f.asked) /\ (f.id \notin stale => account[f.id].state = "live")
  BY <1>1, <1>2 DEF Relies, AccountFrame
<1>4. account[f.id] \in AccountRow
  BY <1>2, <1>3 DEF AccountRowsOK
<1>5. row \in AccountRow /\ (row.state = "deleted" => row.active = FALSE \/ account[f.id].state = "deleted")
  <2> HIDE DEF f, l
  <2>1. CASE l = "account.activate"
    BY <1>4, <2>1 DEF Written, AccountRow
  <2>2. CASE l = "account.deactivate"
    BY <1>4, <2>2 DEF Written, AccountRow
  <2>3. CASE l = "account.lock"
    BY <1>4, <2>3 DEF Written, AccountRow
  <2>4. CASE l = "account.unlock"
    BY <1>4, <2>4 DEF Written, AccountRow
  <2>5. CASE l = "account.delete"
    BY <1>4, <2>5 DEF Written, AccountRow, RowStates
  <2>6. CASE l = "account.move"
    BY <1>3, <1>4, <2>6 DEF Written, AccountRow, Asks
  <2> QED
    BY <1>1, <2>1, <2>2, <2>3, <2>4, <2>5, <2>6 DEF AccountLabels
<1> HIDE DEF row
<1>6. f.id \notin stale' => (row.state = "deleted" => ~row.active)
  BY <1>3, <1>5, FreshBefore DEF AccountsWatch
<1>7. StaysWithin(p)
  BY <1>1, Trusts DEF StaysWithin, Delegated, SetAccount
<1>8. Moved(p, "idle", None)
  BY <1>1, Finished
<1> QED
  BY <1>1, <1>3, <1>5, <1>6, <1>7, <1>8, AccountWritten

LEMMA WriteUpdateKept ==
  ASSUME HandlersOK, AccountsInv, AccountsWatch, NEW p \in Procs, WriteUpdate(p)
  PROVE  AccountsGood
<1> DEFINE f == frame[p]
           u == f.id
           old == account[u]
           row == [old EXCEPT !.dept = Or(f.asked.to, @), !.leads = Or(f.asked.leads, @)]
           rs == Or(f.asked.roles, grants[u])
<1>1. /\ pc[p] = "account.update" /\ Finish(p) /\ role' = role
      /\ account' = [account EXCEPT ![u].dept = Or(f.asked.to, @), ![u].leads = Or(f.asked.leads, @)]
      /\ grants' = [grants EXCEPT ![u] = rs]
  BY DEF WriteUpdate, At
<1>2. Relies(account, grants, role, stale, "account.update", f) /\ AccountRowsOK
  BY <1>1 DEF AccountsInv
<1>3. /\ u \in Accounts /\ f.asked.to \in Sent(Places) /\ f.asked.leads \in Sent(BOOLEAN)
      /\ f.asked.roles \in Sent(SUBSET Roles)
      /\ u \notin stale => old.state = "live"
  BY <1>2 DEF Relies, Labels, Nexts, Asks, AccountFrame
<1>4. old \in AccountRow /\ grants[u] \in SUBSET Roles
  BY <1>2, <1>3 DEF AccountRowsOK
<1>5. Or(f.asked.to, old.dept) \in Places /\ Or(f.asked.leads, old.leads) \in BOOLEAN /\ rs \in SUBSET Roles
  BY <1>3, <1>4, OrIn DEF AccountRow
<1>6. row \in AccountRow /\ row.state = old.state
  BY <1>4, <1>5 DEF AccountRow
<1>7. account' = [account EXCEPT ![u] = row]
  BY <1>1, <1>2, <1>3, <1>4 DEF AccountRowsOK, AccountRow
<1>8. u \notin stale' => (row.state = "deleted" => ~row.active)
  BY <1>3, <1>6, FreshBefore DEF AccountsWatch
<1>9. grants'[u] = rs /\ \A v \in Accounts \ {u} : grants'[v] = grants[v]
  BY <1>1, <1>2, <1>3 DEF AccountRowsOK
<1>10. grants' \in [Accounts -> SUBSET Roles]
  BY <1>1, <1>2, <1>3, <1>5 DEF AccountRowsOK
<1>11. Moved(p, "idle", None) /\ pc'[p] = "idle"
  BY <1>1, Finished DEF Moved
<1>12. GivenAtOnce(u)
  BY <1>1, <1>9, <1>11 DEF GivenAtOnce, Or
<1>13. \A v \in Accounts : GivenAtOnce(v)
  BY <1>9, <1>12 DEF GivenAtOnce
<1>14. StaysWithin(p)
  BY <1>1 DEF StaysWithin, DelegableLabels, AccountLabels
<1> HIDE DEF row, rs, old
<1>15. DeletedIsInactive' /\ account' \in [Accounts -> AccountRow]
  BY <1>3, <1>6, <1>7, <1>8, RowKeepsInactive
<1>16. AccountRowsOK'
  BY <1>1, <1>2, <1>10, <1>15 DEF AccountRowsOK
<1> QED
  BY <1>11, <1>13, <1>14, <1>15, <1>16, IdleRelies, AccountsStepped

LEMMA CreateAccountKept ==
  ASSUME HandlersOK, AccountsInv, AccountsWatch, NEW p \in Procs, NEW u \in Accounts, NEW d \in Places,
         NEW leads \in BOOLEAN, NEW rs \in SUBSET Roles, CreateAccount(p, u, d, leads, rs)
  PROVE  AccountsGood
<1> DEFINE row == [state |-> "live", active |-> TRUE, locked |-> FALSE, dept |-> d, leads |-> leads]
<1>1. /\ AtOnce(p) /\ account[u].state = "absent" /\ role' = role
      /\ account' = [account EXCEPT ![u] = row] /\ grants' = [grants EXCEPT ![u] = rs]
  BY DEF CreateAccount
<1>2. row \in AccountRow /\ row.state = "live"
  BY DEF AccountRow, RowStates
<1> HIDE DEF row
<1>3. DeletedIsInactive' /\ account' \in [Accounts -> AccountRow]
  BY <1>1, <1>2, RowKeepsInactive
<1>4. AccountRowsOK'
  BY <1>1, <1>3 DEF AccountsInv, AccountRowsOK
<1>5. \A v \in Accounts : GivenAtOnce(v)
  BY <1>1 DEF GivenAtOnce, AccountsInv, AccountRowsOK
<1>6. StaysWithin(p)
  BY <1>1 DEF StaysWithin, AtOnce
<1>7. Moved(p, "idle", frame[p])
  BY <1>1, Passed
<1> QED
  BY <1>3, <1>4, <1>5, <1>6, <1>7, IdleRelies, AccountsStepped

LEMMA RestoreAccountKept ==
  ASSUME HandlersOK, AccountsInv, AccountsWatch, NEW p \in Procs, NEW u \in Accounts, RestoreAccount(p, u)
  PROVE  AccountsGood
<1> DEFINE row == [account[u] EXCEPT !.state = "live", !.active = TRUE]
<1>1. AtOnce(p) /\ SetAccount(u, row)
  BY DEF RestoreAccount
<1>2. account[u] \in AccountRow
  BY DEF AccountsInv, AccountRowsOK
<1>3. row \in AccountRow /\ row.state = "live"
  BY <1>2 DEF AccountRow, RowStates
<1>4. StaysWithin(p)
  BY <1>1 DEF StaysWithin, AtOnce
<1>5. Moved(p, "idle", frame[p])
  BY <1>1, Passed
<1> HIDE DEF row
<1> QED
  BY <1>1, <1>3, <1>4, <1>5, AccountWritten

LEMMA RoleRoutesKept ==
  ASSUME HandlersOK, AccountsInv, AccountsWatch, NEW p \in Procs, NEW r \in Roles, NEW d \in BOOLEAN,
         CreateRole(p, r, d) \/ UpdateRole(p, r) \/ RemoveRole(p, r)
  PROVE  AccountsGood
<1>1. AccountRowsOK
  BY DEF AccountsInv
<1>2. CASE CreateRole(p, r, d)
  <2>1. role' = [s \in Roles |-> role'[s]]
    BY <1>1, <1>2 DEF CreateRole, AccountRowsOK
  <2> QED
    BY <1>1, <1>2, <2>1, RolesSet DEF CreateRole, AccountRowsOK
<1>3. CASE UpdateRole(p, r)
  <2>1. role' = [s \in Roles |-> role'[s]]
    BY <1>1, <1>3 DEF UpdateRole, AccountRowsOK
  <2> QED
    BY <1>1, <1>3, <2>1, RolesSet DEF UpdateRole, AccountRowsOK
<1>4. CASE RemoveRole(p, r)
  <2>1. role' = [s \in Roles |-> role'[s]]
    BY <1>1, <1>4 DEF RemoveRole, AccountRowsOK
  <2>2. grants' \in [Accounts -> SUBSET Roles] /\ \A u \in Accounts : grants'[u] \subseteq grants[u]
    BY <1>1, <1>4 DEF RemoveRole, AccountRowsOK
  <2> QED
    BY <1>4, <2>1, <2>2, RolesSet DEF RemoveRole
<1> QED
  BY <1>2, <1>3, <1>4

(* The operations that look an account up and go on by themselves. *)
LEMMA LifecycleKept ==
  ASSUME HandlersOK, AccountsInv, AccountsWatch, NEW p \in Procs, NEW u \in Accounts,
         NEW c \in Accounts \cup {None}, LifecycleRoutes(p, u, c)
  PROVE  AccountsGood
<1>1. \A l \in AccountLabels \ {"account.move"}, caller \in Accounts \cup {None} :
        Resolve(p, u, caller, l, None) => AccountsGood
  BY ResolveKept DEF Asks, RolesLabels, Nexts, AccountLabels
<1>2. CASE CreateAccount(p, u, None, FALSE, {})
  <2>1. None \in Places /\ FALSE \in BOOLEAN /\ {} \in SUBSET Roles
    BY DEF Places
  <2> QED
    BY <1>2, <2>1, CreateAccountKept
<1>3. CASE RestoreAccount(p, u)
  BY <1>3, RestoreAccountKept
<1>4. CASE DeleteAccount(p, u)
  BY <1>1, <1>4 DEF DeleteAccount, AccountLabels
<1>5. CASE ActivateAccount(p, u, c) \/ DeactivateAccount(p, u, c)
  BY <1>1, <1>5 DEF ActivateAccount, DeactivateAccount, AccountLabels
<1>6. CASE LockAccount(p, u, c) \/ UnlockAccount(p, u, c)
  BY <1>1, <1>6 DEF LockAccount, UnlockAccount, AccountLabels
<1> QED
  BY <1>2, <1>3, <1>4, <1>5, <1>6 DEF LifecycleRoutes

LEMMA MoveKept ==
  ASSUME HandlersOK, AccountsInv, AccountsWatch, NEW p \in Procs, NEW u \in Accounts, NEW d \in Places,
         NEW c \in Accounts \cup {None}, MoveDepartment(p, u, d, c)
  PROVE  AccountsGood
<1>1. Asks("account.move", [to |-> d]) /\ "account.move" \in Nexts
  BY DEF Asks, RolesLabels, Nexts, AccountLabels
<1> QED
  BY <1>1, ResolveKept DEF MoveDepartment

LEMMA UpdateKept ==
  ASSUME HandlersOK, AccountsInv, AccountsWatch, NEW p \in Procs, NEW u \in Accounts, NEW d \in Sent(Places),
         NEW leads \in Sent(BOOLEAN), NEW rs \in Sent(SUBSET Roles), Update(p, u, d, leads, rs)
  PROVE  AccountsGood
<1>1. Asks("account.update", [to |-> d, leads |-> leads, roles |-> rs]) /\ "account.update" \in Nexts
  BY DEF Asks, RolesLabels, Nexts
<1> QED
  BY <1>1, ResolveKept DEF Update

LEMMA AssignRolesKept ==
  ASSUME HandlersOK, AccountsInv, AccountsWatch, NEW p \in Procs, NEW u \in Accounts, NEW rs \in Assignable,
         NEW c \in Accounts \cup {None}, AssignRoles(p, u, rs, c)
  PROVE  AccountsGood
<1>1. Asks("roles.delete", [roles |-> rs]) /\ "roles.delete" \in Nexts
  BY DEF Asks, RolesLabels, Nexts, Assignable
<1> QED
  BY <1>1, ResolveKept DEF AssignRoles

LEMMA AccountRoutesKept ==
  ASSUME HandlersOK, AccountsInv, AccountsWatch, NEW p \in Procs, AccountRoutes(p)
  PROVE  AccountsGood
<1>1. Same \in Sent(Places) /\ Same \in Sent(BOOLEAN)
  BY DEF Sent
<1>2. CASE RoleRoutes(p)
  BY <1>2, RoleRoutesKept DEF RoleRoutes
<1>3. CASE Hire(p)
  BY <1>3, CreateAccountKept DEF Hire
<1>4. ASSUME NEW u \in Accounts, GrantRoutes(p, u)
      PROVE  AccountsGood
  BY <1>1, <1>4, CreateAccountKept, UpdateKept, AssignRolesKept DEF GrantRoutes, Places, Sent
<1>5. ASSUME NEW c \in Accounts, DelegationRoutes(p, c)
      PROVE  AccountsGood
  BY <1>3, <1>5, RoleRoutesKept, AssignRolesKept DEF DelegationRoutes
<1>6. ASSUME NEW c \in Accounts, StaffRoutes(p, c)
      PROVE  AccountsGood
  BY <1>1, <1>3, <1>6, UpdateKept, MoveKept DEF StaffRoutes, Sent
<1>7. ASSUME NEW u \in Accounts, NEW d \in Places, NEW leads \in BOOLEAN, NEW rs \in (SUBSET Roles) \cup {Same},
             Update(p, u, d, leads, rs)
      PROVE  AccountsGood
  BY <1>7, UpdateKept DEF Sent
<1>8. ASSUME NEW u \in Accounts, NEW c \in Accounts \cup {None}, LifecycleRoutes(p, u, c)
      PROVE  AccountsGood
  BY <1>8, LifecycleKept
<1> QED
  BY <1>2, <1>3, <1>4, <1>5, <1>6, <1>7, <1>8 DEF AccountRoutes

LEMMA AccountsStep ==
  ASSUME HandlersOK, AccountsInv, AccountsNext
  PROVE  AccountsGood
<1>1. PICK p \in Procs : AccountRoutes(p) \/ ContinueAccounts(p)
  BY DEF AccountsNext
<1>2. AccountsWatch
  BY DEF AccountsNext, AccountsWatch
<1>3. CASE AccountRoutes(p)
  BY <1>2, <1>3, AccountRoutesKept
<1>4. CASE ContinueAccounts(p)
  <2>1. CASE Fail(p) /\ UNCHANGED accounts
    BY <1>2, <2>1, Failed, IdleRelies, AccountsRead
  <2> QED
    BY <1>2, <1>4, <2>1, CheckDelegateKept, CheckDelegableKept, DeleteGrantsKept, InsertGrantsKept,
       WriteAccountKept, WriteUpdateKept DEF ContinueAccounts
<1> QED
  BY <1>1, <1>3, <1>4

LEMMA AccountsBegin == HandlersInit /\ AccountsInit => HandlersOK /\ AccountsInv
<1> SUFFICES ASSUME HandlersInit, AccountsInit PROVE HandlersOK /\ AccountsInv
  OBVIOUS
<1>1. HandlersOK /\ \A p \in Procs : pc[p] = "idle"
  BY Begun
<1>2. \A u \in Accounts : account[u] = [state |-> "absent", active |-> FALSE, locked |-> FALSE, dept |-> None, leads |-> FALSE]
  BY DEF AccountsInit
<1>3. account \in [Accounts -> AccountRow] /\ grants \in [Accounts -> SUBSET Roles]
  BY DEF AccountsInit, AccountRow, RowStates, Places
<1>4. role = [r \in Roles |-> role[r]]
  BY DEF AccountsInit
<1>5. DeletedIsInactive
  BY <1>2 DEF DeletedIsInactive
<1> QED
  BY <1>1, <1>3, <1>4, <1>5, IdleRelies DEF AccountsInv, AccountRowsOK

LEMMA AccountsStutter ==
  ASSUME HandlersOK, AccountsInv, UNCHANGED <<pc, frame, stale, accounts>>
  PROVE  HandlersOK' /\ AccountsInv'
<1>1. /\ pc' = pc /\ frame' = frame /\ stale' = stale
      /\ account' = account /\ role' = role /\ grants' = grants
  BY DEF accounts
<1> QED
  BY <1>1 DEF HandlersOK, AccountsInv, AccountRowsOK, DeletedIsInactive

LEMMA AccountsInvariant == AccountsSpec => [](HandlersOK /\ AccountsInv)
<1>1. HandlersOK /\ AccountsInv /\ [AccountsNext]_<<pc, frame, stale, accounts>> => (HandlersOK /\ AccountsInv)'
  BY AccountsStep, AccountsStutter DEF AccountsGood
<1> QED
  BY <1>1, AccountsBegin, PTL DEF AccountsSpec

(* A deleted account is not active, whatever activations, restores, locks  *)
(* and moves run at the same time, unless it was deleted under a handler   *)
(* that went on to write it.                                               *)
THEOREM DeletedStaysOut == AccountsSpec => []DeletedIsInactive
<1>1. AccountsInv => DeletedIsInactive
  BY DEF AccountsInv
<1> QED
  BY <1>1, AccountsInvariant, PTL

(* Who is given roles holds those of one request and no other, although    *)
(* UsersService.assignRoles deletes and inserts them in two calls, unless  *)
(* the user changed under that request.                                    *)
THEOREM RolesComeAtOnce == AccountsSpec => RolesOfOneRequest
<1>1. /\ HandlersOK /\ AccountsInv /\ [AccountsNext]_<<pc, frame, stale, accounts>>
      => [\A u \in Accounts : GivenAtOnce(u)]_grants
  BY AccountsStep DEF AccountsGood, accounts
<1>2. RolesOfOneRequest <=> [][\A u \in Accounts : GivenAtOnce(u)]_grants
  BY PTL DEF RolesOfOneRequest, GivenAtOnce
<1> QED
  BY <1>1, <1>2, AccountsInvariant, PTL DEF AccountsSpec

(* A department leader changes only the accounts of its own department and *)
(* gives only roles that are delegable, for any accounts, departments and  *)
(* handlers, unless a row changed after the handler had read it.           *)
THEOREM LeadersStayWithin == AccountsSpec => DelegatesStayWithin
<1>1. /\ HandlersOK /\ AccountsInv /\ [AccountsNext]_<<pc, frame, stale, accounts>>
      => [\A p \in Procs : StaysWithin(p)]_<<account, grants, pc>>
  BY AccountsStep DEF AccountsGood, accounts
<1>2. DelegatesStayWithin <=> [][\A p \in Procs : StaysWithin(p)]_<<account, grants, pc>>
  BY PTL DEF DelegatesStayWithin, StaysWithin
<1> QED
  BY <1>1, <1>2, AccountsInvariant, PTL DEF AccountsSpec
-----------------------------------------------------------------------------
(* The second factor *)

(* What a handler that is about to enable the factor knows of the row F    *)
(* and the secrets C that were confirmed.                                  *)
Shown(F, C, S, l, f) ==
  l = "factor.enable" =>
    /\ f.id \in Holders /\ f.uses = {f.id}
    /\ f.id \notin S => F[f.id].secret \in C[f.id]

FactorInv ==
  /\ factor \in [Holders -> [secret : Secrets \cup {None}, enabled : BOOLEAN]]
  /\ confirmed \in [Holders -> SUBSET Secrets]
  /\ \A p \in Procs : Shown(factor, confirmed, stale, pc[p], frame[p])
  /\ EnforcedIsConfirmed

(* What a step does to the rows, but for what is in force. *)
FactorStepped ==
  /\ Watch(SecretsChanged)
  /\ factor' \in [Holders -> [secret : Secrets \cup {None}, enabled : BOOLEAN]]
  /\ confirmed' \in [Holders -> SUBSET Secrets]
  /\ \A u \in Holders : confirmed[u] \subseteq confirmed'[u]

LEMMA StillShown ==
  ASSUME FactorInv, FactorStepped, NEW q \in Procs, pc'[q] = pc[q], frame'[q] = frame[q]
  PROVE  Shown(factor', confirmed', stale', pc'[q], frame'[q])
<1> DEFINE f == frame[q]
<1> SUFFICES ASSUME pc[q] = "factor.enable"
             PROVE  /\ f.id \in Holders /\ f.uses = {f.id}
                    /\ f.id \notin stale' => factor'[f.id].secret \in confirmed'[f.id]
  BY DEF Shown
<1>1. f.id \in Holders /\ f.uses = {f.id} /\ (f.id \notin stale => factor[f.id].secret \in confirmed[f.id])
  BY DEF FactorInv, Shown
<1>2. ASSUME f.id \notin stale'
      PROVE  f.id \notin stale /\ factor'[f.id].secret = factor[f.id].secret
  <2>1. f.id \notin SecretsChanged
    BY <1>1, <1>2, Unwatched DEF FactorStepped
  <2> QED
    BY <1>1, <1>2, <2>1, FreshBefore DEF FactorStepped, SecretsChanged
<1> QED
  BY <1>1, <1>2 DEF FactorStepped

(* A step of p: what is left is p itself and the factors in force. *)
LEMMA FactorMoved ==
  ASSUME HandlersOK, FactorInv, FactorStepped, NEW p \in Procs, NEW l, NEW f, Moved(p, l, f),
         Shown(factor', confirmed', stale', l, f), EnforcedIsConfirmed'
  PROVE  HandlersOK' /\ FactorInv'
<1>1. \A q \in Procs \ {p} : Shown(factor', confirmed', stale', pc'[q], frame'[q])
  BY StillShown DEF Moved, Others
<1>2. \A q \in Procs : Shown(factor', confirmed', stale', pc'[q], frame'[q])
  BY <1>1 DEF Moved
<1> QED
  BY <1>2 DEF FactorInv, FactorStepped, Moved

LEMMA IdleShown ==
  ASSUME NEW F, NEW C, NEW S, NEW f
  PROVE  Shown(F, C, S, "idle", f)
  BY DEF Shown

(* A row that did not change is as confirmed as it was. *)
LEMMA StillEnforced ==
  ASSUME FactorInv, FactorStepped, NEW u \in Holders, factor'[u] = factor[u], u \in reissued => u \in reissued'
  PROVE  factor'[u].enabled => factor'[u].secret \in confirmed'[u] \/ u \in reissued' \/ u \in stale'
<1>1. u \notin stale' => u \notin stale
  BY FreshBefore DEF FactorStepped
<1> QED
  BY <1>1 DEF FactorInv, EnforcedIsConfirmed, FactorStepped

LEMMA SetupKept ==
  ASSUME HandlersOK, FactorInv, Watch(SecretsChanged), NEW p \in Procs, NEW u \in Holders, NEW s \in Secrets,
         SetupMfa(p, u, s)
  PROVE  HandlersOK' /\ FactorInv'
<1>1. Moved(p, "idle", frame[p])
  BY Passed DEF SetupMfa
<1>2. FactorStepped
  BY DEF FactorStepped, FactorInv, SetupMfa
<1>3. ASSUME NEW v \in Holders
      PROVE  factor'[v].enabled => factor'[v].secret \in confirmed'[v] \/ v \in reissued' \/ v \in stale'
  <2>1. CASE v = u
    BY <2>1 DEF FactorInv, SetupMfa
  <2>2. CASE v # u
    <3>1. factor'[v] = factor[v] /\ (v \in reissued => v \in reissued')
      BY <2>2 DEF FactorInv, SetupMfa
    <3> QED
      BY <1>2, <3>1, StillEnforced
  <2> QED
    BY <2>1, <2>2
<1>4. EnforcedIsConfirmed'
  BY <1>3 DEF EnforcedIsConfirmed
<1> QED
  BY <1>1, <1>2, <1>4, IdleShown, FactorMoved

LEMMA ConfirmKept ==
  ASSUME HandlersOK, FactorInv, Watch(SecretsChanged), NEW p \in Procs, NEW u \in Holders, NEW s \in Secrets,
         EnableMfa(p, u, s) \/ DisableMfa(p, u, s)
  PROVE  HandlersOK' /\ FactorInv'
<1>1. PICK next \in {"factor.enable", "factor.disable"} : Confirm(p, u, s, next)
  BY DEF EnableMfa, DisableMfa
<1> DEFINE f == [id |-> u, uses |-> {u}]
<1>2. Moved(p, next, f)
  BY <1>1, Entered DEF Confirm
<1>3. FactorStepped
  BY <1>1 DEF FactorStepped, FactorInv, Confirm
<1>4. factor'[u].secret = s /\ s \in confirmed'[u]
  BY <1>1 DEF FactorInv, Confirm, Accepts
<1>5. Shown(factor', confirmed', stale', next, f)
  BY <1>4 DEF Shown
<1>6. \A v \in Holders : factor'[v].enabled => factor'[v].secret \in confirmed'[v] \/ v \in reissued' \/ v \in stale'
  BY <1>1, <1>3, StillEnforced DEF Confirm
<1>7. EnforcedIsConfirmed'
  BY <1>6 DEF EnforcedIsConfirmed
<1> HIDE DEF f
<1> QED
  BY <1>2, <1>3, <1>5, <1>7, FactorMoved

LEMMA WriteEnabledKept ==
  ASSUME HandlersOK, FactorInv, Watch(SecretsChanged), NEW p \in Procs, WriteEnabled(p)
  PROVE  HandlersOK' /\ FactorInv'
<1> DEFINE u == frame[p].id
<1>1. Moved(p, "idle", None)
  BY Finished DEF WriteEnabled
<1>2. u \in Holders /\ (u \notin stale => factor[u].secret \in confirmed[u])
  BY DEF FactorInv, Shown, WriteEnabled, At
<1>3. FactorStepped
  BY DEF FactorStepped, FactorInv, WriteEnabled
<1>4. factor'[u].secret = factor[u].secret /\ \A v \in Holders \ {u} : factor'[v] = factor[v]
  BY DEF FactorInv, WriteEnabled
<1>5. ASSUME NEW v \in Holders
      PROVE  factor'[v].enabled => factor'[v].secret \in confirmed'[v] \/ v \in reissued' \/ v \in stale'
  <2>1. v \notin stale' => v \notin stale
    BY FreshBefore
  <2>2. CASE v = u
    BY <1>2, <1>3, <1>4, <2>1, <2>2 DEF FactorStepped
  <2>3. CASE v # u
    BY <1>3, <1>4, <2>3, StillEnforced DEF WriteEnabled
  <2> QED
    BY <2>2, <2>3
<1>6. EnforcedIsConfirmed'
  BY <1>5 DEF EnforcedIsConfirmed
<1> QED
  BY <1>1, <1>3, <1>6, IdleShown, FactorMoved

LEMMA WriteDisabledKept ==
  ASSUME HandlersOK, FactorInv, Watch(SecretsChanged), NEW p \in Procs, WriteDisabled(p)
  PROVE  HandlersOK' /\ FactorInv'
<1> DEFINE u == frame[p].id
<1>1. Moved(p, "idle", None)
  BY Finished DEF WriteDisabled
<1>2. FactorStepped
  BY DEF FactorStepped, FactorInv, WriteDisabled
<1>3. ASSUME NEW v \in Holders
      PROVE  factor'[v].enabled => factor'[v].secret \in confirmed'[v] \/ v \in reissued' \/ v \in stale'
  <2>1. CASE v = u
    BY <2>1 DEF FactorInv, WriteDisabled
  <2>2. CASE v # u
    <3>1. factor'[v] = factor[v] /\ (v \in reissued => v \in reissued')
      BY <2>2 DEF FactorInv, WriteDisabled
    <3> QED
      BY <1>2, <3>1, StillEnforced
  <2> QED
    BY <2>1, <2>2
<1>4. EnforcedIsConfirmed'
  BY <1>3 DEF EnforcedIsConfirmed
<1> QED
  BY <1>1, <1>2, <1>4, IdleShown, FactorMoved

(* Steps that leave all rows alone. *)
LEMMA FactorLeft ==
  ASSUME FactorInv, Watch(SecretsChanged), UNCHANGED secondFactor
  PROVE  FactorStepped /\ EnforcedIsConfirmed'
<1>1. FactorStepped
  BY DEF FactorStepped, FactorInv, secondFactor
<1>2. \A v \in Holders : factor'[v].enabled => factor'[v].secret \in confirmed'[v] \/ v \in reissued' \/ v \in stale'
  BY <1>1, StillEnforced DEF secondFactor
<1> QED
  BY <1>1, <1>2 DEF EnforcedIsConfirmed

LEMMA FactorStep ==
  ASSUME HandlersOK, FactorInv, FactorNext
  PROVE  HandlersOK' /\ FactorInv'
<1>1. PICK p \in Procs : FactorRoutes(p) \/ ContinueFactor(p)
  BY DEF FactorNext
<1>2. Watch(SecretsChanged)
  BY DEF FactorNext
<1>3. CASE FactorRoutes(p)
  BY <1>2, <1>3, SetupKept, ConfirmKept DEF FactorRoutes
<1>4. CASE WriteEnabled(p)
  BY <1>2, <1>4, WriteEnabledKept
<1>5. CASE WriteDisabled(p)
  BY <1>2, <1>5, WriteDisabledKept
<1>6. CASE Fail(p) /\ UNCHANGED secondFactor
  <2>1. Moved(p, "idle", None)
    BY <1>6, Failed
  <2> QED
    BY <1>2, <1>6, <2>1, FactorLeft, IdleShown, FactorMoved
<1> QED
  BY <1>1, <1>3, <1>4, <1>5, <1>6 DEF ContinueFactor

(* Login asks nobody for codes of a secret they have shown none of         *)
(* (enableMfa), for any users, secrets and handlers, unless the secret     *)
(* changed under a handler or was drawn anew while it was in force.        *)
THEOREM EnforcedAfterConfirmed == FactorSpec => []EnforcedIsConfirmed
<1>1. HandlersInit /\ SecondFactorInit => HandlersOK /\ FactorInv
  <2> SUFFICES ASSUME HandlersInit, SecondFactorInit
               PROVE  HandlersOK /\ FactorInv
    OBVIOUS
  <2>1. HandlersOK /\ \A p \in Procs : pc[p] = "idle"
    BY Begun
  <2>2. \A p \in Procs : Shown(factor, confirmed, stale, pc[p], frame[p])
    BY <2>1, IdleShown
  <2> QED
    BY <2>1, <2>2 DEF FactorInv, SecondFactorInit, EnforcedIsConfirmed
<1>2. HandlersOK /\ FactorInv /\ [FactorNext]_<<pc, frame, stale, secondFactor>> => HandlersOK' /\ FactorInv'
  <2>1. ASSUME HandlersOK, FactorInv, UNCHANGED <<pc, frame, stale, secondFactor>>
        PROVE  HandlersOK' /\ FactorInv'
    BY <2>1 DEF HandlersOK, FactorInv, Shown, EnforcedIsConfirmed, secondFactor
  <2> QED
    BY <2>1, FactorStep
<1>3. FactorInv => EnforcedIsConfirmed
  BY DEF FactorInv
<1> QED
  BY <1>1, <1>2, <1>3, PTL DEF FactorSpec

-----------------------------------------------------------------------------
(* The order of a purge *)

PurgeSteps == 1..45

LEMMA PurgeTurns ==
  /\ DOMAIN PurgeOrder = PurgeSteps /\ Len(PurgeOrder) = 45
  /\ \A table \in Tables \ Forgotten : \E i \in PurgeSteps : PurgeOrder[i] = table
  /\ \A i \in PurgeSteps : PurgeOrder[i] \in Tables
<1>1. DOMAIN PurgeOrder = PurgeSteps /\ Len(PurgeOrder) = 45
  BY DEF PurgeOrder, PurgeSteps
<1> QED
  BY <1>1 DEF Tables

ReferredTo == {"User", "Branch", "Member", "Ministry", "SmallGroup", "Event", "Staff", "Document",
               "ApprovalWorkflow", "HierarchyRequirement", "DynamicModuleDefinition",
               "DynamicModuleRecord"}

PurgedLeaves ==
  {"RefreshToken", "PasswordResetToken", "EmailVerificationToken", "Contribution",
   "AttendanceRecord", "HierarchyRequirementSubmission", "MemberActivity", "MinistryMembership",
   "SmallGroupMembership", "EntityMembership", "EventRegistration", "PayrollPayment",
   "DocumentVersion", "ApprovalRequest", "DynamicModuleRecordStatusHistory"}

LEMMA ReferenceKinds ==
  ASSUME NEW ref \in References
  PROVE  /\ ref[2] \in ReferredTo
         /\ \/ ref[1] \in PurgedLeaves \cup Forgotten
            \/ ref[1] = "Member" /\ ref[2] = "Branch"
            \/ ref[1] = "DynamicModuleRecord" /\ ref[2] = "DynamicModuleDefinition"
  BY DEF References, ReferredTo, PurgedLeaves, Forgotten

LEMMA LeavesFirst ==
  ASSUME NEW table \in PurgedLeaves
  PROVE  \E i \in 1..28 : PurgeOrder[i] = table
<1>1. /\ PurgeOrder[1] = "DynamicModuleRecordStatusHistory" /\ PurgeOrder[3] = "EntityMembership"
      /\ PurgeOrder[4] = "MinistryMembership" /\ PurgeOrder[5] = "SmallGroupMembership"
      /\ PurgeOrder[6] = "AttendanceRecord" /\ PurgeOrder[7] = "Contribution"
      /\ PurgeOrder[8] = "MemberActivity" /\ PurgeOrder[10] = "EventRegistration"
  BY DEF PurgeOrder
<1>2. /\ PurgeOrder[11] = "PayrollPayment" /\ PurgeOrder[12] = "DocumentVersion"
      /\ PurgeOrder[13] = "HierarchyRequirementSubmission" /\ PurgeOrder[14] = "ApprovalRequest"
      /\ PurgeOrder[19] = "RefreshToken" /\ PurgeOrder[20] = "PasswordResetToken"
      /\ PurgeOrder[21] = "EmailVerificationToken"
  BY DEF PurgeOrder
<1> QED
  BY <1>1, <1>2 DEF PurgedLeaves

LEMMA ReferredLater ==
  ASSUME NEW i \in PurgeSteps, PurgeOrder[i] \in ReferredTo
  PROVE  /\ i > 28
         /\ PurgeOrder[i] = "Branch" => i > 31
         /\ PurgeOrder[i] = "DynamicModuleDefinition" => i > 39
<1>1. CASE i <= 14
  <2>1. \/ i = 1 \/ i = 2 \/ i = 3 \/ i = 4 \/ i = 5 \/ i = 6 \/ i = 7
        \/ i = 8 \/ i = 9 \/ i = 10 \/ i = 11 \/ i = 12 \/ i = 13 \/ i = 14
    BY <1>1 DEF PurgeSteps
  <2> QED
    BY <2>1 DEF PurgeOrder, ReferredTo
<1>2. CASE i \in 15..28
  <2>1. \/ i = 15 \/ i = 16 \/ i = 17 \/ i = 18 \/ i = 19 \/ i = 20 \/ i = 21
        \/ i = 22 \/ i = 23 \/ i = 24 \/ i = 25 \/ i = 26 \/ i = 27 \/ i = 28
    BY <1>2
  <2> QED
    BY <2>1 DEF PurgeOrder, ReferredTo
<1>3. CASE i \in 29..39
  <2>1. \/ i = 29 \/ i = 30 \/ i = 31 \/ i = 32 \/ i = 33 \/ i = 34 \/ i = 35
        \/ i = 36 \/ i = 37 \/ i = 38 \/ i = 39
    BY <1>3
  <2> QED
    BY <2>1 DEF PurgeOrder
<1> QED
  BY <1>1, <1>2, <1>3 DEF PurgeSteps

(* A table that must refer to another has its turn before it, or never.    *)
LEMMA ChildrenFirst ==
  ASSUME NEW n \in PurgeSteps, NEW child, child \notin Forgotten, PurgeOrder[n] \in ParentsOf(child)
  PROVE  \E i \in 1..(n - 1) : PurgeOrder[i] = child
<1>1. PICK ref \in References : ref[1] = child /\ ref[2] = PurgeOrder[n]
  BY DEF ParentsOf
<1>2. n > 28
  BY <1>1, ReferenceKinds, ReferredLater
<1>3. CASE child \in PurgedLeaves
  BY <1>2, <1>3, LeavesFirst DEF PurgeSteps
<1>4. CASE child = "Member" /\ PurgeOrder[n] = "Branch"
  <2>1. PurgeOrder[31] = "Member"
    BY DEF PurgeOrder
  <2> QED
    BY <1>4, <2>1, ReferredLater DEF PurgeSteps, ReferredTo
<1>5. CASE child = "DynamicModuleRecord" /\ PurgeOrder[n] = "DynamicModuleDefinition"
  <2>1. PurgeOrder[39] = "DynamicModuleRecord"
    BY DEF PurgeOrder
  <2> QED
    BY <1>5, <2>1, ReferredLater DEF PurgeSteps, ReferredTo
<1> QED
  BY <1>1, <1>3, <1>4, <1>5, ReferenceKinds

-----------------------------------------------------------------------------
(* Churches *)

ChurchRow == [state : RowStates \cup {"purged"}, active : BOOLEAN]
PurgeFrame == [id : Churches, next : 1..46, uses : SUBSET Churches]

(* What a handler at label l with locals f knows of the churches. *)
KnowsChurch(C, old, l, f) ==
  /\ l \in {"idle", "church.bootstrap", "church.purge", "church.delete"}
  /\ l = "church.bootstrap" => f \in [id : Churches, next : 1..5, uses : {{}}]
  /\ l \in {"church.purge", "church.delete"} =>
       /\ f \in PurgeFrame /\ f.uses = {f.id}
       /\ f.id \notin old => C[f.id].state = "deleted"
  /\ l = "church.purge" => f.next = 1

TenantsOK ==
  /\ church \in [Churches -> ChurchRow]
  /\ rows \in [Churches -> SUBSET Tables]
  /\ doomed \in [Churches -> SUBSET Tables]
  /\ late \in [Churches -> SUBSET Tables]

TenantsInv ==
  /\ TenantsOK /\ HandlersOK
  /\ \A p \in Procs : KnowsChurch(church, stale, pc[p], frame[p])

(* A purge has its church to itself, and the tables it has emptied are     *)
(* empty for it, but for rows that came late.                              *)
Deletes(p) == pc[p] = "church.delete"
PurgesApart ==
  \A p, q \in Procs : p # q /\ Deletes(p) /\ Deletes(q) => frame[p].id # frame[q].id
EmptiedStay ==
  \A p \in Procs : Deletes(p) =>
    \A i \in 1..(frame[p].next - 1) :
      PurgeOrder[i] \in Left(frame[p].id) => PurgeOrder[i] \in late[frame[p].id]

LEMMA StillKnowsChurch ==
  ASSUME TenantsInv, TenantsOK', Watch(TenantsChanged), NEW p \in Procs, Others(p),
         NEW q \in Procs, q # p
  PROVE  KnowsChurch(church', stale', pc'[q], frame'[q])
<1>1. pc'[q] = pc[q] /\ frame'[q] = frame[q] /\ KnowsChurch(church, stale, pc[q], frame[q])
  BY DEF Others, TenantsInv
<1>2. ASSUME pc[q] \in {"church.purge", "church.delete"}, frame[q].id \notin stale'
      PROVE  frame[q].id \notin stale /\ church'[frame[q].id].state = church[frame[q].id].state
  <2>1. frame[q].id \in frame[q].uses /\ frame[q].id \in Churches
    BY <1>1, <1>2 DEF KnowsChurch, PurgeFrame
  <2>2. frame[q].id \notin stale /\ frame[q].id \notin TenantsChanged
    BY <1>1, <1>2, <2>1, FreshBefore, Unwatched
  <2> QED
    BY <2>1, <2>2 DEF TenantsChanged
<1> QED
  BY <1>1, <1>2 DEF KnowsChurch

LEMMA TenantsMoved ==
  ASSUME TenantsInv, TenantsOK', Watch(TenantsChanged), NEW p \in Procs, NEW l, NEW f,
         Moved(p, l, f), KnowsChurch(church', stale', l, f)
  PROVE  TenantsInv'
<1>1. ASSUME NEW q \in Procs
      PROVE  KnowsChurch(church', stale', pc'[q], frame'[q])
  BY StillKnowsChurch DEF Moved
<1> QED
  BY <1>1 DEF TenantsInv, Moved

LEMMA InsertOK ==
  ASSUME TenantsOK, NEW t \in Churches, NEW table \in Tables, Insert(t, table)
  PROVE  TenantsOK'
<1> HIDE DEF Emptied
<1>1. late[t] \cup ({table} \cap Emptied(t)) \in SUBSET Tables
  BY DEF TenantsOK
<1> QED
  BY <1>1 DEF TenantsOK, Insert

(* A purge that went on after its church changed hands would know so.      *)
LEMMA PurgeKnown ==
  ASSUME TenantsInv, NEW p \in Procs, pc[p] \in {"church.purge", "church.delete"}
  PROVE  /\ frame[p] \in PurgeFrame /\ frame[p].uses = {frame[p].id}
         /\ frame[p].id \notin stale => church[frame[p].id].state = "deleted"
         /\ pc[p] = "church.purge" => frame[p].next = 1
  BY DEF TenantsInv, KnowsChurch

LEMMA TenantsStep == TenantsInv /\ [TenantsNext]_<<pc, frame, stale, tenants>> => TenantsInv'
<1> SUFFICES ASSUME TenantsInv, [TenantsNext]_<<pc, frame, stale, tenants>>
             PROVE  TenantsInv'
  OBVIOUS
<1> USE DEF tenants
<1>1. TenantsOK /\ HandlersOK /\ \A q \in Procs : KnowsChurch(church, stale, pc[q], frame[q])
  BY DEF TenantsInv
<1>2. ASSUME NEW f
      PROVE  KnowsChurch(church', stale', "idle", f)
  BY DEF KnowsChurch
<1>3. ASSUME NEW p \in Procs, NEW t \in Churches, NEW row \in ChurchRow, SetChurch(p, t, row),
             Watch(TenantsChanged)
      PROVE  TenantsInv'
  <2>1. Moved(p, "idle", frame[p])
    BY <1>1, <1>3, Passed DEF SetChurch
  <2>2. TenantsOK'
    BY <1>1, <1>3 DEF SetChurch, TenantsOK
  <2> QED
    BY <1>2, <1>3, <2>1, <2>2, TenantsMoved
<1>4. ASSUME NEW p \in Procs, NEW t \in Churches, NEW withAdmin \in BOOLEAN,
             CreateChurch(p, t, withAdmin), Watch(TenantsChanged)
      PROVE  TenantsInv'
  <2> DEFINE f == [id |-> t, next |-> 1, uses |-> {}]
  <2>1. TenantsOK'
    BY <1>1, <1>4 DEF CreateChurch, TenantsOK, ChurchRow, RowStates
  <2>2. Moved(p, "church.bootstrap", f) \/ Moved(p, "idle", frame[p])
    BY <1>1, <1>4, Entered, Passed DEF CreateChurch
  <2>3. KnowsChurch(church', stale', "church.bootstrap", f)
    BY DEF KnowsChurch
  <2> HIDE DEF f
  <2> QED
    BY <1>2, <1>4, <2>1, <2>2, <2>3, TenantsMoved
<1>5. ASSUME NEW p \in Procs, NEW t \in Churches, NEW table \in Filled, FillTable(p, t, table),
             Watch(TenantsChanged)
      PROVE  TenantsInv'
  <2>1. Moved(p, "idle", frame[p])
    BY <1>1, <1>5, Passed DEF FillTable
  <2>2. TenantsOK'
    BY <1>1, <1>5, InsertOK, FilledAssumption DEF FillTable
  <2> QED
    BY <1>2, <1>5, <2>1, <2>2, TenantsMoved
<1>6. ASSUME NEW p \in Procs, NEW t \in Churches, HardDelete(p, t), Watch(TenantsChanged)
      PROVE  TenantsInv'
  <2> DEFINE f == [id |-> t, next |-> 1, uses |-> {t}]
  <2>1. Moved(p, "church.purge", f) /\ UNCHANGED tenants
    BY <1>1, <1>6, Entered DEF HardDelete
  <2>2. KnowsChurch(church', stale', "church.purge", f)
    BY <1>6, <2>1 DEF KnowsChurch, HardDelete, PurgeFrame
  <2>3. TenantsOK'
    BY <1>1, <2>1 DEF TenantsOK
  <2> QED
    BY <1>6, <2>1, <2>2, <2>3, TenantsMoved
<1>7. ASSUME NEW p \in Procs, BootstrapRow(p), Watch(TenantsChanged)
      PROVE  TenantsInv'
  <2> DEFINE f == frame[p]  g == [f EXCEPT !.next = @ + 1]
  <2>1. f \in [id : Churches, next : 1..5, uses : {{}}]
    BY <1>1, <1>7 DEF KnowsChurch, BootstrapRow, At
  <2>2. Len(Bootstrap) = 5 /\ \A i \in 1..5 : Bootstrap[i] \in Tables
    <3>1. Bootstrap[1] = PurgeOrder[45] /\ Bootstrap[2] = PurgeOrder[42] /\ Bootstrap[3] = PurgeOrder[40]
          /\ Bootstrap[4] = PurgeOrder[27] /\ Bootstrap[5] = PurgeOrder[41]
      BY DEF Bootstrap, PurgeOrder
    <3>2. Bootstrap[1] \in Tables /\ Bootstrap[2] \in Tables /\ Bootstrap[3] \in Tables
          /\ Bootstrap[4] \in Tables /\ Bootstrap[5] \in Tables
      BY <3>1, PurgeTurns DEF PurgeSteps
    <3>3. \A i \in 1..5 : i = 1 \/ i = 2 \/ i = 3 \/ i = 4 \/ i = 5
      OBVIOUS
    <3>4. Len(Bootstrap) = 5
      BY DEF Bootstrap
    <3> QED
      BY <3>2, <3>3, <3>4
  <2>3. TenantsOK'
    <3>1. f.id \in Churches /\ Bootstrap[f.next] \in Tables
      BY <2>1, <2>2
    <3>2. Insert(f.id, Bootstrap[f.next])
      BY <1>7 DEF BootstrapRow
    <3> HIDE DEF f
    <3> QED
      BY <1>1, <3>1, <3>2, InsertOK
  <2>4. \/ Moved(p, "idle", None)
        \/ f.next # 5 /\ Moved(p, "church.bootstrap", g)
    BY <1>1, <1>7, <2>2, Finished, Proceeded DEF BootstrapRow
  <2>5. f.next # 5 => KnowsChurch(church', stale', "church.bootstrap", g)
    BY <2>1 DEF KnowsChurch
  <2> HIDE DEF f, g
  <2> QED
    BY <1>2, <1>7, <2>3, <2>4, <2>5, TenantsMoved
<1>8. ASSUME NEW p \in Procs, BeginPurge(p), Watch(TenantsChanged)
      PROVE  TenantsInv'
  <2>1. Moved(p, "church.delete", frame[p]) /\ UNCHANGED tenants /\ pc[p] = "church.purge"
    BY <1>1, <1>8, WentOn DEF BeginPurge, At
  <2>2. TenantsOK'
    BY <1>1, <2>1 DEF TenantsOK
  <2>3. stale \subseteq stale'
    BY <1>8 DEF Watch
  <2>4. KnowsChurch(church', stale', "church.delete", frame[p])
    BY <2>1, <2>3, PurgeKnown DEF KnowsChurch
  <2> QED
    BY <1>8, <2>1, <2>2, <2>4, TenantsMoved
<1>9. ASSUME NEW p \in Procs, PurgeTable(p), Watch(TenantsChanged)
      PROVE  TenantsInv'
  <2> DEFINE f == frame[p]  g == [f EXCEPT !.next = @ + 1]
             dead == {PurgeOrder[f.next]} \cap rows[f.id]
  <2>1. /\ pc[p] = "church.delete" /\ f.next <= 45 /\ Moved(p, "church.delete", g)
        /\ doomed' = [doomed EXCEPT ![f.id] = @ \cup dead] /\ UNCHANGED <<church, rows, late>>
    BY <1>1, <1>9, Proceeded, PurgeTurns DEF PurgeTable, At
  <2>2. /\ f \in PurgeFrame /\ f.uses = {f.id} /\ f.id \in Churches
        /\ f.id \notin stale => church[f.id].state = "deleted"
    BY <2>1, PurgeKnown DEF PurgeFrame
  <2>3. stale \subseteq stale'
    BY <1>9 DEF Watch
  <2>4. g \in PurgeFrame /\ g.uses = {g.id} /\ g.id = f.id
    BY <2>1, <2>2 DEF PurgeFrame
  <2> HIDE DEF f, g
  <2>5. KnowsChurch(church', stale', "church.delete", g)
    BY <2>1, <2>2, <2>3, <2>4 DEF KnowsChurch
  <2>6. dead \in SUBSET Tables
    BY <1>1, <2>2 DEF TenantsOK
  <2> HIDE DEF dead
  <2>7. TenantsOK'
    BY <1>1, <2>1, <2>2, <2>6 DEF TenantsOK
  <2> QED
    BY <1>9, <2>1, <2>5, <2>7, TenantsMoved
<1>10. ASSUME NEW p \in Procs, PurgeChurch(p), Watch(TenantsChanged)
       PROVE  TenantsInv'
  <2>1. Moved(p, "idle", None)
    BY <1>1, <1>10, Finished DEF PurgeChurch
  <2>2. frame[p].id \in Churches
    BY <1>10, PurgeKnown DEF PurgeChurch, At, PurgeFrame
  <2>3. [state |-> "purged", active |-> FALSE] \in ChurchRow
    BY DEF ChurchRow
  <2>4. TenantsOK'
    <3> DEFINE t == frame[p].id
    <3>1. /\ church' = [church EXCEPT ![t] = [state |-> "purged", active |-> FALSE]]
          /\ rows' = [rows EXCEPT ![t] = {}] /\ doomed' = [doomed EXCEPT ![t] = {}]
          /\ late' = [late EXCEPT ![t] = {}]
      BY <1>10 DEF PurgeChurch
    <3> HIDE DEF t
    <3> QED
      BY <1>1, <2>2, <2>3, <3>1 DEF TenantsOK
  <2> QED
    BY <1>2, <1>10, <2>1, <2>4, TenantsMoved
<1>11. ASSUME NEW p \in Procs, TenantsFail(p), Watch(TenantsChanged)
       PROVE  TenantsInv'
  <2>1. Moved(p, "idle", None)
    BY <1>1, <1>11, Failed DEF TenantsFail
  <2>2. TenantsOK'
    BY <1>1, <1>11 DEF TenantsFail, TenantsOK
  <2> QED
    BY <1>2, <1>11, <2>1, <2>2, TenantsMoved
<1>12. ASSUME NEW p \in Procs, NEW t \in Churches, Watch(TenantsChanged),
              Deactivate(p, t) \/ Reactivate(p, t) \/ SoftDelete(p, t) \/ RestoreChurch(p, t)
       PROVE  TenantsInv'
  <2>1. church[t] \in ChurchRow
    BY <1>1 DEF TenantsOK
  <2>2. /\ [church[t] EXCEPT !.active = FALSE] \in ChurchRow
        /\ [church[t] EXCEPT !.active = TRUE] \in ChurchRow
        /\ [church[t] EXCEPT !.state = "live"] \in ChurchRow
        /\ [state |-> "deleted", active |-> FALSE] \in ChurchRow
    BY <2>1 DEF ChurchRow, RowStates
  <2> QED
    BY <1>3, <1>12, <2>2 DEF Deactivate, Reactivate, SoftDelete, RestoreChurch
<1>13. CASE UNCHANGED <<pc, frame, stale, tenants>>
  BY <1>13 DEF TenantsInv, TenantsOK, HandlersOK, KnowsChurch
<1> QED
  BY <1>4, <1>5, <1>6, <1>7, <1>8, <1>9, <1>10, <1>11, <1>12, <1>13
     DEF TenantsNext, ContinueTenants, TenantRoutes, SuspendRoutes, PurgeRoutes

(* A handler that is not deleting, before a step or after it, and no row   *)
(* of a church touched but as the step says.                               *)
LEMMA InsertKeeps ==
  ASSUME TenantsInv, PurgesApart, EmptiedStay, NEW p \in Procs, Others(p), ~Deletes(p), ~Deletes(p)',
         NEW t \in Churches, NEW table, Insert(t, table)
  PROVE  PurgesApart' /\ EmptiedStay'
<1>1. \A q \in Procs : Deletes(q)' => Deletes(q) /\ frame'[q] = frame[q]
  BY DEF Others, Deletes
<1>2. PurgesApart'
  BY <1>1 DEF PurgesApart
<1>3. ASSUME NEW q \in Procs, Deletes(q), NEW i \in 1..(frame[q].next - 1),
             PurgeOrder[i] \in rows'[frame[q].id] \ doomed'[frame[q].id]
      PROVE  PurgeOrder[i] \in late'[frame[q].id]
  <2> DEFINE c == frame[q].id
  <2>1. c \in Churches
    BY <1>3, PurgeKnown DEF Deletes, PurgeFrame
  <2>2. PurgeOrder[i] \in Left(c) => PurgeOrder[i] \in late[c]
    BY <1>3 DEF EmptiedStay
  <2>3. late[c] \subseteq late'[c]
    BY <2>1 DEF Insert, TenantsInv, TenantsOK
  <2>4. CASE c = t /\ PurgeOrder[i] = table
    <3>1. PurgeOrder[i] \in Emptied(t)
      BY <1>3, <2>4 DEF Emptied, Deletes, At
    <3> QED
      BY <2>1, <2>4, <3>1 DEF Insert, TenantsInv, TenantsOK
  <2>5. CASE ~(c = t /\ PurgeOrder[i] = table)
    <3>1. PurgeOrder[i] \in Left(c)
      BY <1>3, <2>1, <2>5 DEF Insert, Left, TenantsInv, TenantsOK
    <3> QED
      BY <2>2, <2>3, <3>1
  <2> QED
    BY <2>4, <2>5
<1> QED
  BY <1>1, <1>2, <1>3 DEF EmptiedStay, Left

LEMMA RestKeeps ==
  ASSUME TenantsInv, PurgesApart, EmptiedStay, NEW p \in Procs, Others(p), ~Deletes(p)',
         \A q \in Procs : q # p /\ Deletes(q) =>
           LET c == frame[q].id IN
           rows'[c] = rows[c] /\ doomed'[c] = doomed[c] /\ late'[c] = late[c]
  PROVE  PurgesApart' /\ EmptiedStay'
<1>1. \A q \in Procs : Deletes(q)' => q # p /\ Deletes(q) /\ frame'[q] = frame[q]
  BY DEF Others, Deletes
<1> QED
  BY <1>1 DEF PurgesApart, EmptiedStay, Left

LEMMA PurgeKeeps ==
  ASSUME TenantsInv, PurgesApart, EmptiedStay, [TenantsNext]_<<pc, frame, stale, tenants>>
  PROVE  PurgesApart' /\ EmptiedStay'
<1> USE DEF tenants
<1>1. TenantsOK /\ HandlersOK
  BY DEF TenantsInv
<1>2. ASSUME NEW p \in Procs, BootstrapRow(p)
      PROVE  PurgesApart' /\ EmptiedStay'
  <2>1. Others(p) /\ ~Deletes(p) /\ ~Deletes(p)'
    BY <1>1, <1>2, Finished, Proceeded DEF BootstrapRow, Moved, Deletes, At
  <2>2. frame[p].id \in Churches /\ Insert(frame[p].id, Bootstrap[frame[p].next])
    BY <1>2 DEF BootstrapRow, TenantsInv, KnowsChurch, At
  <2> QED
    BY <2>1, <2>2, InsertKeeps
<1>3. ASSUME NEW p \in Procs, NEW t \in Churches, NEW table \in Filled, FillTable(p, t, table)
      PROVE  PurgesApart' /\ EmptiedStay'
  <2>1. Others(p) /\ ~Deletes(p) /\ ~Deletes(p)'
    BY <1>1, <1>3, Passed DEF FillTable, Moved, Deletes, AtOnce
  <2> QED
    BY <1>3, <2>1, InsertKeeps DEF FillTable
<1>4. ASSUME NEW p \in Procs, TenantRoutes(p) \/ SuspendRoutes(p) \/ (\E t \in Churches : HardDelete(p, t))
      PROVE  PurgesApart' /\ EmptiedStay'
  <2>1. UNCHANGED <<rows, doomed, late>>
    BY <1>4 DEF TenantRoutes, SuspendRoutes, CreateChurch, SoftDelete, RestoreChurch, Deactivate,
       Reactivate, SetChurch, HardDelete
  <2>2. ASSUME AtOnce(p)
        PROVE  Others(p) /\ ~Deletes(p)'
    BY <1>1, <2>2, Passed DEF Moved, Deletes
  <2>3. ASSUME NEW l, NEW f, Enter(p, l, f), l # "church.delete"
        PROVE  Others(p) /\ ~Deletes(p)'
    BY <1>1, <2>3, Entered DEF Moved, Deletes
  <2>4. ASSUME NEW t \in Churches, NEW withAdmin \in BOOLEAN, CreateChurch(p, t, withAdmin)
        PROVE  Others(p) /\ ~Deletes(p)'
    <3>1. CASE withAdmin
      BY <2>3, <2>4, <3>1 DEF CreateChurch
    <3>2. CASE ~withAdmin
      BY <2>2, <2>4, <3>2 DEF CreateChurch
    <3> QED
      BY <3>1, <3>2
  <2>5. ASSUME NEW t \in Churches, HardDelete(p, t)
        PROVE  Others(p) /\ ~Deletes(p)'
    BY <2>3, <2>5 DEF HardDelete
  <2>6. ASSUME NEW t \in Churches,
               SoftDelete(p, t) \/ RestoreChurch(p, t) \/ Deactivate(p, t) \/ Reactivate(p, t)
        PROVE  Others(p) /\ ~Deletes(p)'
    BY <2>2, <2>6 DEF SoftDelete, RestoreChurch, Deactivate, Reactivate, SetChurch
  <2>7. Others(p) /\ ~Deletes(p)'
    BY <1>4, <2>4, <2>5, <2>6 DEF TenantRoutes, SuspendRoutes
  <2> QED
    BY <2>1, <2>7, RestKeeps
<1>5. ASSUME NEW p \in Procs, BeginPurge(p)
      PROVE  PurgesApart' /\ EmptiedStay'
  <2>1. /\ Others(p) /\ pc'[p] = "church.delete" /\ frame'[p] = frame[p] /\ UNCHANGED tenants
        /\ \A q \in Procs : Deletes(q) => frame[q].id # frame[p].id
        /\ frame[p].next = 1
    BY <1>1, <1>5, WentOn, PurgeKnown DEF BeginPurge, At, Moved, Deletes
  <2>2. \A q \in Procs : q # p => pc'[q] = pc[q] /\ frame'[q] = frame[q]
    BY <2>1 DEF Others
  <2>3. PurgesApart'
    BY <2>1, <2>2 DEF PurgesApart, Deletes
  <2>4. EmptiedStay'
    BY <2>1, <2>2 DEF EmptiedStay, Deletes, Left
  <2> QED
    BY <2>3, <2>4
<1>6. ASSUME NEW p \in Procs, PurgeTable(p)
      PROVE  PurgesApart' /\ EmptiedStay'
  <2> DEFINE f == frame[p]  g == [f EXCEPT !.next = @ + 1]
             dead == {PurgeOrder[f.next]} \cap rows[f.id]
  <2>1. /\ Deletes(p) /\ Moved(p, "church.delete", g)
        /\ doomed' = [doomed EXCEPT ![f.id] = @ \cup dead] /\ UNCHANGED <<rows, late>>
    BY <1>1, <1>6, Proceeded DEF PurgeTable, At, Deletes
  <2>2. f \in PurgeFrame /\ f.id \in Churches /\ f.next \in 1..46
    BY <2>1, PurgeKnown DEF PurgeFrame, Deletes
  <2>3. g.id = f.id /\ g.next = f.next + 1
    BY <2>2 DEF PurgeFrame
  <2>4. \A q \in Procs : q # p => pc'[q] = pc[q] /\ frame'[q] = frame[q]
    BY <2>1 DEF Moved, Others
  <2>5. pc'[p] = "church.delete" /\ frame'[p] = g
    BY <2>1 DEF Moved
  <2> HIDE DEF g
  <2>6. PurgesApart'
    BY <2>1, <2>3, <2>4, <2>5 DEF PurgesApart, Deletes
  <2>7. ASSUME NEW q \in Procs, q # p, Deletes(q)
        PROVE  doomed'[frame[q].id] = doomed[frame[q].id]
    <3>1. frame[q].id # f.id /\ frame[q].id \in Churches
      BY <2>1, <2>7, PurgeKnown DEF PurgesApart, Deletes, PurgeFrame
    <3> QED
      BY <1>1, <2>1, <3>1 DEF TenantsOK
  <2>8. doomed'[f.id] = doomed[f.id] \cup dead
    BY <1>1, <2>1, <2>2 DEF TenantsOK
  <2>9. ASSUME NEW i \in 1..f.next, PurgeOrder[i] \in rows[f.id] \ doomed'[f.id]
        PROVE  PurgeOrder[i] \in late[f.id]
    <3>1. i \in 1..(f.next - 1)
      BY <2>2, <2>8, <2>9
    <3> QED
      BY <2>1, <2>8, <2>9, <3>1 DEF EmptiedStay, Left
  <2> HIDE DEF f, dead
  <2>10. EmptiedStay'
    <3> SUFFICES ASSUME NEW q \in Procs, Deletes(q)', NEW i \in 1..(frame'[q].next - 1),
                        PurgeOrder[i] \in rows'[frame'[q].id] \ doomed'[frame'[q].id]
                 PROVE  PurgeOrder[i] \in late'[frame'[q].id]
      BY DEF EmptiedStay, Left
    <3>1. CASE q = p
      BY <2>1, <2>2, <2>3, <2>5, <2>9, <3>1
    <3>2. CASE q # p
      BY <2>1, <2>4, <2>7, <3>2 DEF EmptiedStay, Left, Deletes
    <3> QED
      BY <3>1, <3>2
  <2> QED
    BY <2>6, <2>10
<1>7. ASSUME NEW p \in Procs, PurgeChurch(p) \/ TenantsFail(p)
      PROVE  PurgesApart' /\ EmptiedStay'
  <2>1. Others(p) /\ ~Deletes(p)'
    BY <1>1, <1>7, Finished, Failed DEF PurgeChurch, TenantsFail, Moved, Deletes
  <2>2. ASSUME NEW q \in Procs, q # p, Deletes(q)
        PROVE  LET c == frame[q].id IN
               rows'[c] = rows[c] /\ doomed'[c] = doomed[c] /\ late'[c] = late[c]
    <3>1. Deletes(p) => frame[q].id # frame[p].id
      BY <2>2 DEF PurgesApart
    <3>2. frame[q].id \in Churches
      BY <2>2, PurgeKnown DEF Deletes, PurgeFrame
    <3>3. CASE PurgeChurch(p)
      BY <1>1, <3>1, <3>2, <3>3 DEF PurgeChurch, TenantsOK, Deletes, At
    <3>4. CASE TenantsFail(p) /\ Deletes(p)
      BY <1>1, <3>1, <3>2, <3>4 DEF TenantsFail, TenantsOK, Deletes, At
    <3>5. CASE TenantsFail(p) /\ ~Deletes(p)
      BY <3>5 DEF TenantsFail, Deletes, At
    <3> QED
      BY <1>7, <3>3, <3>4, <3>5
  <2> QED
    BY <2>1, <2>2, RestKeeps
<1>8. CASE UNCHANGED <<pc, frame, stale, tenants>>
  BY <1>8 DEF PurgesApart, EmptiedStay, Deletes, Left
<1> QED
  BY <1>2, <1>3, <1>4, <1>5, <1>6, <1>7, <1>8 DEF TenantsNext, ContinueTenants, PurgeRoutes

(* Only what was done under a purge undercuts it (hardDelete): a church    *)
(* that was restored since it was read, and rows that others inserted      *)
(* after their table had been emptied; besides them, only rows of the two  *)
(* tables that it forgets, of any number of churches, handlers and rows.   *)
THEOREM PurgesOnlyUndercut == TenantsSpec => []PurgeOnlyUndercut
<1> DEFINE Inv == TenantsInv /\ PurgesApart /\ EmptiedStay
<1>1. HandlersInit /\ TenantsInit => Inv
  <2>1. HandlersInit /\ TenantsInit => TenantsInv
    BY Begun DEF TenantsInit, TenantsInv, TenantsOK, ChurchRow, RowStates, KnowsChurch
  <2>2. HandlersInit => PurgesApart /\ EmptiedStay
    BY Begun DEF PurgesApart, EmptiedStay, Deletes
  <2> QED
    BY <2>1, <2>2
<1>2. Inv => PurgeOnlyUndercut
  <2> SUFFICES ASSUME Inv, NEW p \in Procs, pc[p] \in {"church.purge", "church.delete"}
               PROVE  LET t == frame[p].id IN
                      /\ Fresh({t}) => church[t].state = "deleted"
                      /\ At(p, "church.delete") =>
                           Refusing(t, frame[p].next) \subseteq late[t] \cup Forgotten
    BY DEF PurgeOnlyUndercut
  <2> DEFINE t == frame[p].id  n == frame[p].next
  <2>1. t \in Churches /\ n \in 1..46 /\ (t \notin stale => church[t].state = "deleted")
    BY PurgeKnown DEF PurgeFrame
  <2>2. ASSUME At(p, "church.delete"), NEW child \in Refusing(t, n), child \notin Forgotten
        PROVE  child \in late[t]
    <3>1. child \in Left(t) /\ child \in Tables
      BY <2>1 DEF Refusing, Left, TenantsInv, TenantsOK
    <3>2. \E i \in 1..(n - 1) : PurgeOrder[i] = child
      <4>1. CASE n = 46
        BY <2>2, <3>1, <4>1, PurgeTurns DEF PurgeSteps
      <4>2. CASE n # 46
        <5>1. n \in PurgeSteps /\ ~(n > Len(PurgeOrder))
          BY <2>1, <4>2, PurgeTurns DEF PurgeSteps
        <5>2. PurgeOrder[n] \in ParentsOf(child)
          BY <2>2, <5>1 DEF Refusing
        <5> QED
          BY <2>2, <5>1, <5>2, ChildrenFirst
      <4> QED
        BY <4>1, <4>2
    <3> QED
      BY <2>2, <3>1, <3>2 DEF EmptiedStay, Deletes, At
  <2> QED
    BY <2>1, <2>2 DEF Fresh
<1>3. Inv /\ [TenantsNext]_<<pc, frame, stale, tenants>> => Inv'
  BY TenantsStep, PurgeKeeps
<1> HIDE DEF Inv
<1> QED
  BY <1>1, <1>2, <1>3, PTL DEF TenantsSpec

-----------------------------------------------------------------------------
(* Decisions on records and registrations *)

Subjects == Records \cup Applicants
Shows    == {"open"} \cup AW!Decisions

(* The decision on e was written to the audit log, of which R are the      *)
(* rows, or taken by the engine, of which D are those that committed.      *)
BackedBy(R, D, e, v) ==
  \/ [id |-> e, verdict |-> v] \in R
  \/ \E w \in Workflows : \E n \in 1..StepCount[w] : \E u \in Users :
       /\ [entity |-> e, step |-> n, user |-> u, decision |-> v] \in D
       /\ AW!CanActOnStep(u, w, n)

DecisionFrame ==
  [id : Subjects, wf : Workflows \cup {None}, user : Users, verdict : Shows,
   from : {"pending"} \cup Shows, next : {"record.history", "registration.write"},
   uses : SUBSET Subjects]
RequestFrame == [entity : Subjects, wf : Workflows, ret : {"decision.decide"}]
VoteFrame ==
  [entity : Subjects, wf : Workflows, step : Nat, user : Users, decision : AW!Decisions,
   ret : {"idle", "record.history", "registration.write"}]

StartLabels  == {"start.workflow", "start.insert"}
VoteLabels   == {"decide.update", "decide.audit"}
WriteLabels  == {"record.history", "record.status", "registration.write"}
AskLabels    == {"decision.start", "decision.decide"} \cup StartLabels
FrameLabels  == {"registration.find", "decision.record"} \cup AskLabels \cup WriteLabels
CallLabels   == {"idle", "record.first"} \cup FrameLabels \cup VoteLabels

(* The locals of one of the two services. *)
Fits(f) ==
  /\ f \in DecisionFrame
  /\ \/ f.next = "record.history" /\ f.id \in Records
     \/ f.next = "registration.write" /\ f.id \in Applicants /\ f.verdict \in AW!Decisions

GateHeld(g) == g.step \in 1..StepCount[g.wf] /\ AW!CanActOnStep(g.user, g.wf, g.step)

(* What a handler at label l with its locals f and the engine's g knows of *)
(* the requests Q, the engine's decisions D, the recorded decisions R and  *)
(* the histories H: a verdict it is about to write is backed.              *)
KnowsDecision(Q, D, R, H, l, f, g) ==
  /\ l \in CallLabels
  /\ l = "record.first" => f.id \in Records
  /\ l \in FrameLabels => Fits(f)
  /\ l \in AskLabels => f.verdict \in AW!Decisions
  /\ l = "decision.start" => f.wf \in Workflows
  /\ l = "registration.find" => f.next = "registration.write"
  /\ l \in WriteLabels => /\ f.verdict \in AW!Decisions => BackedBy(R, D, f.id, f.verdict)
                          /\ l # "record.status" => f.next = l
  /\ l = "record.status" => f.next = "record.history" /\ \E h \in H[f.id] : h.to = f.verdict
  /\ l \in StartLabels => g \in RequestFrame
  /\ l \in VoteLabels =>
       /\ g \in VoteFrame /\ GateHeld(g)
       /\ g.ret # "idle" => Fits(f) /\ g.ret = f.next /\ g.entity = f.id /\ g.decision = f.verdict
  /\ l = "decide.update" => Q[g.entity] # None /\ Q[g.entity].wf = g.wf
  /\ l = "decide.audit" => AW!DecisionOf(g) \in D

DecisionRows ==
  /\ gate \in Workflows \cup {None}
  /\ record \in [Records -> {"absent"} \cup Shows]
  /\ history = [r \in Records |-> history[r]]
  /\ request \in [Subjects -> AW!Request \cup {None}]
  /\ AW!CurrentStepExists
  /\ \A r \in Records : record[r] \in AW!Decisions => BackedBy(recorded, decided, r, record[r])
  /\ StatusIsInHistory

DecisionCalls ==
  /\ HandlersOK /\ engine = [p \in Procs |-> engine[p]]
  /\ \A p \in Procs : KnowsDecision(request, decided, recorded, history, pc[p], frame[p], engine[p])

DecisionsInv == DecisionRows /\ DecisionCalls

-----------------------------------------------------------------------------
(* Nothing a decision rests on is ever taken back. *)

Accrues ==
  /\ decided \subseteq decided' /\ recorded \subseteq recorded'
  /\ \A r \in Records : history[r] \subseteq history'[r]
  /\ \A e \in Subjects : request[e] # None => request'[e] # None /\ request'[e].wf = request[e].wf

LEMMA BackedStays ==
  ASSUME NEW R1, NEW R2, NEW D1, NEW D2, R1 \subseteq R2, D1 \subseteq D2, NEW e, NEW v,
         BackedBy(R1, D1, e, v)
  PROVE  BackedBy(R2, D2, e, v)
  BY DEF BackedBy

LEMMA StillKnowsDecision ==
  ASSUME Accrues, NEW l, NEW f, NEW g,
         KnowsDecision(request, decided, recorded, history, l, f, g)
  PROVE  KnowsDecision(request', decided', recorded', history', l, f, g)
<1>1. l \in WriteLabels => /\ f.verdict \in AW!Decisions => BackedBy(recorded', decided', f.id, f.verdict)
                           /\ l # "record.status" => f.next = l
  BY BackedStays DEF KnowsDecision, Accrues
<1>2. l = "record.status" => Fits(f) /\ f.next = "record.history" /\ \E h \in history[f.id] : h.to = f.verdict
  BY DEF KnowsDecision, FrameLabels, WriteLabels
<1>3. l = "record.status" => \E h \in history'[f.id] : h.to = f.verdict
  BY <1>2 DEF Accrues, Fits
<1>4. l = "decide.update" => request'[g.entity] # None /\ request'[g.entity].wf = g.wf
  BY DEF KnowsDecision, Accrues, VoteLabels, VoteFrame
<1>5. l = "decide.audit" => AW!DecisionOf(g) \in decided'
  BY DEF KnowsDecision, Accrues
<1> QED
  BY <1>1, <1>2, <1>3, <1>4, <1>5 DEF KnowsDecision

(* A handler goes on; the engine's locals are g. *)
LEMMA DecisionMoved ==
  ASSUME DecisionsInv, Accrues, DecisionRows', NEW p \in Procs, NEW l, NEW f, NEW g,
         Moved(p, l, f), engine' = [engine EXCEPT ![p] = g],
         KnowsDecision(request', decided', recorded', history', l, f, g)
  PROVE  DecisionsInv'
<1>1. /\ engine' = [q \in Procs |-> engine'[q]] /\ engine'[p] = g
      /\ \A q \in Procs \ {p} : engine'[q] = engine[q]
  BY DEF DecisionsInv, DecisionCalls
<1>2. ASSUME NEW q \in Procs
      PROVE  KnowsDecision(request', decided', recorded', history', pc'[q], frame'[q], engine'[q])
  <2>1. CASE q = p
    BY <1>1, <2>1 DEF Moved
  <2>2. CASE q # p
    <3>1. pc'[q] = pc[q] /\ frame'[q] = frame[q] /\ engine'[q] = engine[q]
      BY <1>1, <2>2 DEF Moved, Others
    <3>2. KnowsDecision(request, decided, recorded, history, pc[q], frame[q], engine[q])
      BY DEF DecisionsInv, DecisionCalls
    <3> QED
      BY <3>1, <3>2, StillKnowsDecision
  <2> QED
    BY <2>1, <2>2
<1> QED
  BY <1>1, <1>2 DEF DecisionsInv, DecisionCalls, Moved

(* Steps that change no status and no request. *)
LEMMA RowsAccrue ==
  ASSUME DecisionsInv, UNCHANGED <<record, request>>, gate' \in Workflows \cup {None},
         decided \subseteq decided', recorded \subseteq recorded',
         history' = [r \in Records |-> history'[r]], \A r \in Records : history[r] \subseteq history'[r]
  PROVE  Accrues /\ DecisionRows'
<1>1. Accrues
  BY DEF Accrues
<1>2. \A r \in Records : record[r] \in AW!Decisions => BackedBy(recorded', decided', r, record[r])
  BY BackedStays DEF DecisionsInv, DecisionRows
<1>3. StatusIsInHistory' /\ AW!CurrentStepExists'
  BY DEF DecisionsInv, DecisionRows, StatusIsInHistory, AW!CurrentStepExists
<1> QED
  BY <1>1, <1>2, <1>3 DEF DecisionsInv, DecisionRows

Quiet ==
  UNCHANGED <<record, history, recorded, request, decided>> /\ gate' \in Workflows \cup {None}

LEMMA QuietMoves ==
  ASSUME DecisionsInv, Quiet, NEW p \in Procs, NEW l, NEW f, NEW g,
         Moved(p, l, f), engine' = [engine EXCEPT ![p] = g],
         KnowsDecision(request, decided, recorded, history, l, f, g)
  PROVE  DecisionsInv'
<1>1. Accrues /\ DecisionRows'
  <2>1. history' = [r \in Records |-> history'[r]]
    BY DEF Quiet, DecisionsInv, DecisionRows
  <2> QED
    BY <2>1, RowsAccrue DEF Quiet
<1>2. KnowsDecision(request', decided', recorded', history', l, f, g)
  BY DEF Quiet
<1> QED
  BY <1>1, <1>2, DecisionMoved

LEMMA DecisionFacts ==
  ASSUME DecisionsInv, NEW p \in Procs
  PROVE  /\ HandlersOK /\ engine = [engine EXCEPT ![p] = engine[p]]
         /\ KnowsDecision(request, decided, recorded, history, pc[p], frame[p], engine[p])
  BY DEF DecisionsInv, DecisionCalls

LEMMA IdleDecides ==
  ASSUME NEW Q, NEW D, NEW R, NEW H, NEW f, NEW g
  PROVE  KnowsDecision(Q, D, R, H, "idle", f, g)
  BY DEF KnowsDecision, CallLabels, FrameLabels, AskLabels, StartLabels, WriteLabels, VoteLabels

LEMMA FrameKept ==
  ASSUME HandlersOK, NEW p \in Procs, NEW l, pc' = [pc EXCEPT ![p] = l], KeepFrame(p)
  PROVE  Moved(p, l, IF l = "idle" THEN None ELSE frame[p])
  BY DEF HandlersOK, KeepFrame, Moved, Others

USE DEF CallLabels, FrameLabels, AskLabels, StartLabels, WriteLabels, VoteLabels

-----------------------------------------------------------------------------
(* Steps that write no row but an applicant's, a workflow's or the gate *)

LEMMA ApartStep ==
  ASSUME DecisionsInv, NEW p \in Procs,
         \/ \E w \in Workflows \cup {None} : SetGate(p, w)
         \/ \E a \in Applicants : Register(p, a) \/ \E s \in {"pending", "active"} : EditStatus(p, a, s)
         \/ Administer(p)
  PROVE  DecisionsInv'
<1>1. AtOnce(p) /\ Quiet /\ UNCHANGED engine
  BY DEF DecisionsInv, DecisionRows, SetGate, Register, EditStatus, Administer, AW!Admin, AW!Create, AW!Remove, AW!Restore,
         Quiet, approval, owned
<1>2. Moved(p, "idle", frame[p]) /\ engine' = [engine EXCEPT ![p] = engine[p]]
  BY <1>1, DecisionFacts, Passed
<1> QED
  BY <1>1, <1>2, IdleDecides, QuietMoves

LEMMA ChangeStatusStep ==
  ASSUME DecisionsInv, NEW p \in Procs, NEW r \in Records, NEW s \in Shows, NEW u \in Users,
         ChangeStatus(p, r, s, u)
  PROVE  DecisionsInv'
<1> DEFINE f == [id |-> r, wf |-> gate, user |-> u, verdict |-> s, from |-> record[r],
                 next |-> "record.history", uses |-> {r}]
           l == IF gate # None /\ s \in AW!Decisions THEN "decision.start" ELSE "decision.record"
<1>1. Moved(p, l, f) /\ engine' = [engine EXCEPT ![p] = engine[p]] /\ Quiet
  BY DecisionFacts, Entered DEF DecisionsInv, DecisionRows, ChangeStatus, decisions, owned, approval, Quiet
<1>2. record[r] \in Shows /\ gate \in Workflows \cup {None}
  BY DEF ChangeStatus, DecisionsInv, DecisionRows
<1>3. /\ Fits(f) /\ f.verdict = s /\ f.wf = gate
  BY <1>2 DEF Fits, DecisionFrame, Subjects
<1> HIDE DEF f
<1>4. KnowsDecision(request, decided, recorded, history, l, f, engine[p])
  <2>1. CASE l = "decision.start"
    <3>1. f.wf \in Workflows /\ f.verdict \in AW!Decisions
      BY <1>2, <1>3, <2>1
    <3> HIDE DEF l
    <3> QED
      BY <1>3, <2>1, <3>1 DEF KnowsDecision
  <2>2. CASE l = "decision.record"
    <3> HIDE DEF l
    <3> QED
      BY <1>3, <2>2 DEF KnowsDecision
  <2> QED
    BY <2>1, <2>2
<1> QED
  BY <1>1, <1>4, QuietMoves

LEMMA DecideRegistrationStep ==
  ASSUME DecisionsInv, NEW p \in Procs, NEW a \in Applicants, NEW v \in AW!Decisions, NEW u \in Users,
         DecideRegistration(p, a, v, u)
  PROVE  DecisionsInv'
<1> DEFINE f == [id |-> a, wf |-> None, user |-> u, verdict |-> v, from |-> "pending",
                 next |-> "registration.write", uses |-> {a}]
<1>1. Moved(p, "registration.find", f) /\ engine' = [engine EXCEPT ![p] = engine[p]] /\ Quiet
  BY DecisionFacts, Entered DEF DecisionsInv, DecisionRows, DecideRegistration, decisions, owned,
     approval, Quiet
<1>2. Fits(f) /\ f.next = "registration.write"
  BY DEF Fits, DecisionFrame, Subjects, Shows
<1> HIDE DEF f
<1>3. KnowsDecision(request, decided, recorded, history, "registration.find", f, engine[p])
  BY <1>2 DEF KnowsDecision
<1> QED
  BY <1>1, <1>3, QuietMoves

LEMMA FindWorkflowStep ==
  ASSUME DecisionsInv, NEW p \in Procs, FindWorkflow(p)
  PROVE  DecisionsInv'
<1> DEFINE f == frame[p]
<1>1. /\ pc[p] = "registration.find" /\ Quiet /\ engine' = [engine EXCEPT ![p] = engine[p]]
      /\ HandlersOK /\ Fits(f) /\ f.next = "registration.write"
  BY DecisionFacts DEF DecisionsInv, DecisionRows, FindWorkflow, At, decisions, owned, approval, Quiet,
     KnowsDecision
<1>2. f.verdict \in AW!Decisions
  BY <1>1 DEF Fits
<1>3. CASE \E w \in Workflows : workflow[w] = "live"
  <2>1. PICK w \in Workflows : Proceed(p, "decision.start", [f EXCEPT !.wf = w])
    BY <1>3 DEF FindWorkflow
  <2> DEFINE g == [f EXCEPT !.wf = w]
  <2>2. Moved(p, "decision.start", g)
    BY <1>1, <2>1, Proceeded
  <2>3. /\ g \in DecisionFrame /\ g.id = f.id /\ g.next = f.next /\ g.verdict = f.verdict /\ g.wf = w
    BY <1>1 DEF Fits, DecisionFrame
  <2> HIDE DEF g, f
  <2>4. Fits(g)
    BY <1>1, <2>3 DEF Fits
  <2>5. KnowsDecision(request, decided, recorded, history, "decision.start", g, engine[p])
    BY <1>2, <2>3, <2>4 DEF KnowsDecision
  <2> QED
    BY <1>1, <2>2, <2>5, QuietMoves
<1>4. CASE ~\E w \in Workflows : workflow[w] = "live"
  <2>1. Moved(p, "decision.record", f)
    BY <1>1, <1>4, WentOn DEF FindWorkflow
  <2>2. KnowsDecision(request, decided, recorded, history, "decision.record", f, engine[p])
    BY <1>1 DEF KnowsDecision
  <2> QED
    BY <1>1, <2>1, <2>2, QuietMoves
<1> QED
  BY <1>3, <1>4

-----------------------------------------------------------------------------
(* The calls of the engine *)

(* A request is read, and the gate of the step it stands on is held. *)
LEMMA VoteRead ==
  ASSUME DecisionsInv, NEW p \in Procs, NEW e \in Subjects, NEW u \in Users, NEW v \in AW!Decisions,
         NEW ret \in {"idle", "record.history", "registration.write"},
         AW!DecideRead(p, e, u, v, ret), KeepFrame(p), UNCHANGED owned,
         ret # "idle" => Fits(frame[p]) /\ ret = frame[p].next /\ e = frame[p].id /\ v = frame[p].verdict
  PROVE  DecisionsInv'
<1> DEFINE g == AW!FrameOf(e, u, v, ret)
<1>1. Quiet /\ HandlersOK
  BY DecisionFacts DEF AW!DecideRead, Quiet, owned, DecisionsInv, DecisionRows
<1>2. CASE request[e] # None /\ request[e].status = "pending"
           /\ AW!MayDecide(u, request[e].wf, request[e].step)
  <2>1. pc' = [pc EXCEPT ![p] = "decide.update"] /\ engine' = [engine EXCEPT ![p] = g]
    BY <1>2 DEF AW!DecideRead, AW!Goto
  <2>2. Moved(p, "decide.update", frame[p])
    BY <1>1, <2>1, FrameKept
  <2>3. request[e] \in AW!Request /\ request[e].step \in 1..StepCount[request[e].wf]
    BY <1>2 DEF DecisionsInv, DecisionRows, AW!CurrentStepExists, Subjects
  <2>4. g \in VoteFrame
    BY <2>3 DEF AW!FrameOf, VoteFrame, AW!Request
  <2>5. GateHeld(g) /\ g.entity = e /\ g.decision = v /\ g.ret = ret /\ g.wf = request[e].wf
    BY <1>2, <2>3 DEF GateHeld, AW!FrameOf, AW!MayDecide
  <2> HIDE DEF g
  <2>6. KnowsDecision(request, decided, recorded, history, "decide.update", frame[p], g)
    BY <1>2, <2>4, <2>5 DEF KnowsDecision
  <2> QED
    BY <1>1, <2>1, <2>2, <2>6, QuietMoves
<1>3. CASE ~(request[e] # None /\ request[e].status = "pending"
             /\ AW!MayDecide(u, request[e].wf, request[e].step))
  <2>1. pc' = [pc EXCEPT ![p] = "idle"] /\ engine' = [engine EXCEPT ![p] = None]
    BY <1>3 DEF AW!DecideRead, AW!Throw, AW!Return, AW!Goto
  <2>2. Moved(p, "idle", None)
    BY <1>1, <2>1, FrameKept
  <2> QED
    BY <1>1, <2>1, <2>2, IdleDecides, QuietMoves
<1> QED
  BY <1>2, <1>3

LEMMA EngineDecisionStep ==
  ASSUME DecisionsInv, NEW p \in Procs, EngineDecision(p)
  PROVE  DecisionsInv'
<1> DEFINE f == frame[p]
<1>1. /\ pc[p] = "decision.decide" /\ KeepFrame(p) /\ UNCHANGED owned
      /\ AW!DecideRead(p, f.id, f.user, f.verdict, f.next)
  BY DEF EngineDecision, At
<1>2. Fits(f) /\ f.verdict \in AW!Decisions
  BY <1>1, DecisionFacts DEF KnowsDecision
<1>3. f.id \in Subjects /\ f.user \in Users /\ f.next \in {"idle", "record.history", "registration.write"}
  BY <1>2 DEF Fits, DecisionFrame
<1> QED
  BY <1>1, <1>2, <1>3, VoteRead

LEMMA EngineRouteStep ==
  ASSUME DecisionsInv, NEW p \in Procs, AW!Decide(p), KeepFrame(p), UNCHANGED owned
  PROVE  DecisionsInv'
<1>1. PICK e \in Subjects, u \in Users, v \in AW!Decisions : AW!DecideRead(p, e, u, v, "idle")
  BY DEF AW!Decide, Subjects
<1> QED
  BY <1>1, VoteRead

LEMMA StartDecisionStep ==
  ASSUME DecisionsInv, NEW p \in Procs, StartDecision(p)
  PROVE  DecisionsInv'
<1> DEFINE f == frame[p]
           g == [entity |-> f.id, wf |-> f.wf, ret |-> "decision.decide"]
<1>1. /\ pc[p] = "decision.start" /\ AW!StartFind(p, f.id, f.wf, "decision.decide")
      /\ KeepFrame(p) /\ Quiet /\ HandlersOK
  BY DecisionFacts DEF StartDecision, At, AW!StartFind, Quiet, owned, DecisionsInv, DecisionRows
<1>2. Fits(f) /\ f.verdict \in AW!Decisions /\ f.wf \in Workflows /\ f.id \in Subjects
  BY <1>1, DecisionFacts DEF KnowsDecision, Fits, DecisionFrame
<1>3. CASE request[f.id] # None
  <2>1. pc' = [pc EXCEPT ![p] = "decision.decide"] /\ engine' = [engine EXCEPT ![p] = None]
    BY <1>1, <1>3 DEF AW!StartFind, AW!Return, AW!Goto
  <2>2. Moved(p, "decision.decide", f)
    BY <1>1, <2>1, FrameKept
  <2>3. KnowsDecision(request, decided, recorded, history, "decision.decide", f, None)
    BY <1>2 DEF KnowsDecision
  <2> QED
    BY <1>1, <2>1, <2>2, <2>3, QuietMoves
<1>4. CASE request[f.id] = None
  <2>1. pc' = [pc EXCEPT ![p] = "start.workflow"] /\ engine' = [engine EXCEPT ![p] = g]
    BY <1>1, <1>4 DEF AW!StartFind, AW!Goto
  <2>2. Moved(p, "start.workflow", f)
    BY <1>1, <2>1, FrameKept
  <2>3. g \in RequestFrame
    BY <1>2 DEF RequestFrame
  <2> HIDE DEF g
  <2>4. KnowsDecision(request, decided, recorded, history, "start.workflow", f, g)
    BY <1>2, <2>3 DEF KnowsDecision
  <2> QED
    BY <1>1, <2>1, <2>2, <2>4, QuietMoves
<1> QED
  BY <1>3, <1>4

LEMMA RequestWorkflowStep ==
  ASSUME DecisionsInv, NEW p \in Procs, AW!StartWorkflow(p), KeepFrame(p), UNCHANGED owned
  PROVE  DecisionsInv'
<1>1. pc[p] = "start.workflow" /\ Quiet /\ HandlersOK
  BY DecisionFacts DEF AW!StartWorkflow, Quiet, owned, DecisionsInv, DecisionRows
<1>2. KnowsDecision(request, decided, recorded, history, "start.insert", frame[p], engine[p])
  BY <1>1, DecisionFacts DEF KnowsDecision
<1>3. CASE workflow[engine[p].wf] = "live"
  <2>1. pc' = [pc EXCEPT ![p] = "start.insert"] /\ engine' = [engine EXCEPT ![p] = engine[p]]
    BY <1>3, DecisionFacts DEF AW!StartWorkflow, AW!Goto
  <2>2. Moved(p, "start.insert", frame[p])
    BY <1>1, <2>1, FrameKept
  <2> QED
    BY <1>1, <1>2, <2>1, <2>2, QuietMoves
<1>4. CASE workflow[engine[p].wf] # "live"
  <2>1. pc' = [pc EXCEPT ![p] = "idle"] /\ engine' = [engine EXCEPT ![p] = None]
    BY <1>4 DEF AW!StartWorkflow, AW!Throw, AW!Return, AW!Goto
  <2>2. Moved(p, "idle", None)
    BY <1>1, <2>1, FrameKept
  <2> QED
    BY <1>1, <2>1, <2>2, IdleDecides, QuietMoves
<1> QED
  BY <1>3, <1>4

(* A request is inserted, or updated, where it leaves the step it stands   *)
(* on in its workflow.                                                     *)
LEMMA RequestWritten ==
  ASSUME DecisionsInv, NEW e \in Subjects, NEW q \in AW!Request, q.step \in 1..StepCount[q.wf],
         request[e] # None => request[e].wf = q.wf, request' = [request EXCEPT ![e] = q],
         decided \subseteq decided', UNCHANGED <<record, history, recorded, gate>>
  PROVE  Accrues /\ DecisionRows'
<1>1. /\ request \in [Subjects -> AW!Request \cup {None}] /\ AW!CurrentStepExists
      /\ q # None
  BY RecordAssumption DEF DecisionsInv, DecisionRows
<1>2. /\ request' \in [Subjects -> AW!Request \cup {None}]
      /\ \A x \in Subjects : request'[x] = IF x = e THEN q ELSE request[x]
  BY <1>1
<1>3. Accrues
  BY <1>1, <1>2 DEF Accrues
<1>4. AW!CurrentStepExists'
  BY <1>1, <1>2 DEF AW!CurrentStepExists, Subjects
<1>5. \A r \in Records : record[r] \in AW!Decisions => BackedBy(recorded', decided', r, record[r])
  BY BackedStays DEF DecisionsInv, DecisionRows
<1> QED
  BY <1>2, <1>3, <1>4, <1>5 DEF DecisionsInv, DecisionRows, StatusIsInHistory

LEMMA RequestInsertStep ==
  ASSUME DecisionsInv, NEW p \in Procs, AW!StartInsert(p), KeepFrame(p), UNCHANGED owned
  PROVE  DecisionsInv'
<1> DEFINE g == engine[p]
           q == [wf |-> g.wf, step |-> 1, status |-> "pending"]
<1>1. pc[p] = "start.insert" /\ HandlersOK
  BY DecisionFacts DEF AW!StartInsert
<1>2. /\ g.entity \in Subjects /\ g.wf \in Workflows /\ g.ret = "decision.decide"
      /\ Fits(frame[p]) /\ frame[p].verdict \in AW!Decisions
  BY <1>1, DecisionFacts DEF KnowsDecision, RequestFrame
<1>3. CASE request[g.entity] = None
  <2>1. /\ request' = [request EXCEPT ![g.entity] = q] /\ UNCHANGED <<decided, record, history, recorded, gate>>
        /\ pc' = [pc EXCEPT ![p] = "decision.decide"] /\ engine' = [engine EXCEPT ![p] = None]
    BY <1>2, <1>3 DEF AW!StartInsert, AW!Return, AW!Goto, owned
  <2>2. q \in AW!Request /\ q.step \in 1..StepCount[q.wf]
    BY <1>2, RecordAssumption DEF AW!Request, AW!Statuses
  <2> HIDE DEF q
  <2>3. Accrues /\ DecisionRows'
    BY <1>2, <1>3, <2>1, <2>2, RequestWritten
  <2>4. Moved(p, "decision.decide", frame[p])
    BY <1>1, <2>1, FrameKept
  <2>5. KnowsDecision(request', decided', recorded', history', "decision.decide", frame[p], None)
    BY <1>2 DEF KnowsDecision
  <2> QED
    BY <2>1, <2>3, <2>4, <2>5, DecisionMoved
<1>4. CASE request[g.entity] # None
  <2>1. /\ pc' = [pc EXCEPT ![p] = "idle"] /\ engine' = [engine EXCEPT ![p] = None] /\ Quiet
    BY <1>4 DEF AW!StartInsert, AW!Throw, AW!Return, AW!Goto, owned, Quiet, DecisionsInv, DecisionRows
  <2>2. Moved(p, "idle", None)
    BY <1>1, <2>1, FrameKept
  <2> QED
    BY <2>1, <2>2, IdleDecides, QuietMoves
<1> QED
  BY <1>3, <1>4

LEMMA VoteUpdateStep ==
  ASSUME DecisionsInv, NEW p \in Procs, AW!DecideUpdate(p), KeepFrame(p), UNCHANGED owned
  PROVE  DecisionsInv'
<1> DEFINE g == engine[p]  e == g.entity
           q == [wf |-> request[e].wf, step |-> AW!NextStep(g.wf, g.step, g.decision),
                 status |-> AW!NextStatus(g.wf, g.step, g.decision)]
<1>1. /\ pc[p] = "decide.update" /\ HandlersOK
      /\ KnowsDecision(request, decided, recorded, history, "decide.update", frame[p], g)
  BY DecisionFacts DEF AW!DecideUpdate
<1>2. g \in VoteFrame /\ GateHeld(g) /\ request[e] # None /\ request[e].wf = g.wf
  BY <1>1 DEF KnowsDecision
<1>3. e \in Subjects /\ g.wf \in Workflows /\ g.step \in 1..StepCount[g.wf] /\ StepCount[g.wf] \in Nat
  BY <1>2, RecordAssumption DEF VoteFrame, GateHeld
<1>4. /\ request' = [request EXCEPT ![e] = q] /\ decided' = decided \cup {AW!DecisionOf(g)}
      /\ pc' = [pc EXCEPT ![p] = "decide.audit"] /\ engine' = [engine EXCEPT ![p] = g]
      /\ UNCHANGED <<record, history, recorded, gate>>
  BY DecisionFacts DEF AW!DecideUpdate, AW!Goto, owned
<1>5. AW!NextStep(g.wf, g.step, g.decision) \in 1..StepCount[g.wf]
  <2>1. ~AW!IsLastStep(g.wf, g.step) => g.step + 1 \in 1..StepCount[g.wf]
    BY <1>3 DEF AW!IsLastStep
  <2> QED
    BY <1>3, <2>1 DEF AW!NextStep
<1>6. q \in AW!Request /\ q.step \in 1..StepCount[q.wf] /\ q.wf = request[e].wf
  BY <1>2, <1>3, <1>5 DEF AW!Request, AW!Statuses, AW!NextStatus
<1> HIDE DEF q
<1>7. Accrues /\ DecisionRows'
  BY <1>3, <1>4, <1>6, RequestWritten
<1>8. Moved(p, "decide.audit", frame[p])
  BY <1>1, <1>4, FrameKept
<1>9. KnowsDecision(request', decided', recorded', history', "decide.audit", frame[p], g)
  BY <1>1, <1>4 DEF KnowsDecision
<1> QED
  BY <1>4, <1>7, <1>8, <1>9, DecisionMoved

LEMMA VoteBacks ==
  ASSUME NEW g \in VoteFrame, GateHeld(g), AW!DecisionOf(g) \in decided
  PROVE  BackedBy(recorded, decided, g.entity, g.decision)
<1>1. g.wf \in Workflows /\ g.step \in 1..StepCount[g.wf] /\ g.user \in Users
      /\ AW!CanActOnStep(g.user, g.wf, g.step)
  BY DEF VoteFrame, GateHeld
<1> QED
  BY <1>1 DEF BackedBy, AW!DecisionOf

LEMMA VoteAuditStep ==
  ASSUME DecisionsInv, NEW p \in Procs, AW!DecideAudit(p), KeepFrame(p), UNCHANGED owned
  PROVE  DecisionsInv'
<1> DEFINE g == engine[p]  f == frame[p]
<1>1. /\ pc[p] = "decide.audit" /\ HandlersOK
      /\ KnowsDecision(request, decided, recorded, history, "decide.audit", f, g)
  BY DecisionFacts DEF AW!DecideAudit
<1>2. /\ g \in VoteFrame /\ GateHeld(g) /\ AW!DecisionOf(g) \in decided
      /\ g.ret # "idle" => Fits(f) /\ g.ret = f.next /\ g.entity = f.id /\ g.decision = f.verdict
  BY <1>1 DEF KnowsDecision
<1>3. /\ pc' = [pc EXCEPT ![p] = g.ret] /\ engine' = [engine EXCEPT ![p] = None] /\ Quiet
  BY DEF AW!DecideAudit, AW!Return, AW!Goto, owned, Quiet, DecisionsInv, DecisionRows
<1>4. CASE g.ret = "idle"
  <2>1. Moved(p, "idle", None)
    BY <1>1, <1>3, <1>4, FrameKept
  <2> QED
    BY <1>3, <2>1, IdleDecides, QuietMoves
<1>5. CASE g.ret # "idle"
  <2>1. g.ret \in {"record.history", "registration.write"}
    BY <1>2, <1>5 DEF VoteFrame
  <2>2. Moved(p, g.ret, f)
    BY <1>1, <1>3, <1>5, FrameKept
  <2>3. BackedBy(recorded, decided, f.id, f.verdict)
    BY <1>2, <1>5, VoteBacks
  <2>4. KnowsDecision(request, decided, recorded, history, g.ret, f, None)
    BY <1>2, <1>5, <2>1, <2>3 DEF KnowsDecision
  <2> QED
    BY <1>3, <2>2, <2>4, QuietMoves
<1> QED
  BY <1>4, <1>5

-----------------------------------------------------------------------------
(* The rows the two services write *)

LEMMA RecordDecisionStep ==
  ASSUME DecisionsInv, NEW p \in Procs, RecordDecision(p)
  PROVE  DecisionsInv'
<1> DEFINE f == frame[p]
<1>1. /\ pc[p] = "decision.record" /\ HandlersOK /\ Fits(f) /\ Moved(p, f.next, f)
      /\ engine' = [engine EXCEPT ![p] = engine[p]]
  BY DecisionFacts, WentOn DEF RecordDecision, At, KnowsDecision, approval
<1>2. /\ recorded' = recorded \cup {[id |-> f.id, verdict |-> v] : v \in {f.verdict} \cap AW!Decisions}
      /\ UNCHANGED <<record, history, request, decided, gate>>
  BY DEF RecordDecision, approval
<1>3. Accrues /\ DecisionRows'
  <2>1. history' = [r \in Records |-> history'[r]] /\ gate' \in Workflows \cup {None}
    BY <1>2 DEF DecisionsInv, DecisionRows
  <2> QED
    BY <1>2, <2>1, RowsAccrue
<1>4. f.verdict \in AW!Decisions => BackedBy(recorded', decided', f.id, f.verdict)
  BY <1>2 DEF BackedBy
<1>5. f.next \in {"record.history", "registration.write"}
  BY <1>1 DEF Fits
<1>6. KnowsDecision(request', decided', recorded', history', f.next, f, engine[p])
  BY <1>1, <1>4, <1>5 DEF KnowsDecision
<1> QED
  BY <1>1, <1>3, <1>6, DecisionMoved

LEMMA CreateRecordStep ==
  ASSUME DecisionsInv, NEW p \in Procs, NEW r \in Records, CreateRecord(p, r)
  PROVE  DecisionsInv'
<1> DEFINE f == [id |-> r, uses |-> {}]
<1>1. /\ Moved(p, "record.first", f) /\ engine' = [engine EXCEPT ![p] = engine[p]]
      /\ record' = [record EXCEPT ![r] = "open"] /\ UNCHANGED <<history, request, recorded, decided, gate>>
  BY DecisionFacts, Entered DEF CreateRecord, approval
<1>2. Accrues
  BY <1>1 DEF Accrues
<1>3. DecisionRows'
  BY <1>1 DEF DecisionsInv, DecisionRows, Shows, StatusIsInHistory, AW!CurrentStepExists, AW!Decisions
<1>4. KnowsDecision(request', decided', recorded', history', "record.first", f, engine[p])
  BY DEF KnowsDecision
<1> QED
  BY <1>1, <1>2, <1>3, <1>4, DecisionMoved

LEMMA FirstHistoryStep ==
  ASSUME DecisionsInv, NEW p \in Procs, FirstHistory(p)
  PROVE  DecisionsInv'
<1> DEFINE h == [from |-> None, to |-> "open"]
<1>1. /\ HandlersOK /\ Moved(p, "idle", None) /\ engine' = [engine EXCEPT ![p] = engine[p]]
      /\ UNCHANGED <<record, request, recorded, decided, gate>>
      /\ history' = [history EXCEPT ![frame[p].id] = @ \cup {h}]
  BY DecisionFacts, Finished DEF FirstHistory, approval
<1> HIDE DEF h
<1>2. /\ history' = [r \in Records |-> history'[r]]
      /\ \A r \in Records : history[r] \subseteq history'[r]
  BY <1>1 DEF DecisionsInv, DecisionRows
<1>3. Accrues /\ DecisionRows'
  BY <1>1, <1>2, RowsAccrue DEF DecisionsInv, DecisionRows
<1> QED
  BY <1>1, <1>3, IdleDecides, DecisionMoved

LEMMA RecordHistoryStep ==
  ASSUME DecisionsInv, NEW p \in Procs, RecordHistory(p)
  PROVE  DecisionsInv'
<1> DEFINE f == frame[p]  h == [from |-> f.from, to |-> f.verdict]
<1>1. /\ pc[p] = "record.history" /\ Moved(p, "record.status", f) /\ engine' = [engine EXCEPT ![p] = engine[p]]
      /\ UNCHANGED <<record, request, recorded, decided, gate>>
      /\ history' = [history EXCEPT ![f.id] = @ \cup {h}]
  BY DecisionFacts, WentOn DEF RecordHistory, At, approval
<1>2. /\ KnowsDecision(request, decided, recorded, history, "record.history", f, engine[p])
      /\ f.id \in Records
  BY <1>1, DecisionFacts DEF KnowsDecision, Fits
<1>3. h.to = f.verdict
  OBVIOUS
<1> HIDE DEF h
<1>4. /\ history' = [r \in Records |-> history'[r]] /\ h \in history'[f.id]
      /\ \A r \in Records : history[r] \subseteq history'[r]
  BY <1>1, <1>2 DEF DecisionsInv, DecisionRows
<1>5. Accrues /\ DecisionRows'
  BY <1>1, <1>4, RowsAccrue DEF DecisionsInv, DecisionRows
<1>6. KnowsDecision(request', decided', recorded', history', "record.status", f, engine[p])
  BY <1>1, <1>2, <1>3, <1>4 DEF KnowsDecision
<1> QED
  BY <1>1, <1>5, <1>6, DecisionMoved

LEMMA WriteStatusStep ==
  ASSUME DecisionsInv, NEW p \in Procs, WriteStatus(p)
  PROVE  DecisionsInv'
<1> DEFINE f == frame[p]
<1>1. /\ pc[p] = "record.status" /\ Moved(p, "idle", None) /\ engine' = [engine EXCEPT ![p] = engine[p]]
      /\ record' = [record EXCEPT ![f.id] = f.verdict] /\ UNCHANGED <<history, request, recorded, decided, gate>>
  BY DecisionFacts, Finished DEF WriteStatus, At, approval
<1>2. /\ Fits(f) /\ f.next = "record.history"
      /\ f.verdict \in AW!Decisions => BackedBy(recorded, decided, f.id, f.verdict)
      /\ \E h \in history[f.id] : h.to = f.verdict
  BY <1>1, DecisionFacts DEF KnowsDecision
<1>3. f.id \in Records /\ f.verdict \in Shows
  BY <1>2 DEF Fits, DecisionFrame
<1>4. Accrues
  BY <1>1 DEF Accrues
<1>5. DecisionRows'
  BY <1>1, <1>2, <1>3 DEF DecisionsInv, DecisionRows, StatusIsInHistory, AW!CurrentStepExists
<1> QED
  BY <1>1, <1>4, <1>5, IdleDecides, DecisionMoved

LEMMA WriteRegistrationStep ==
  ASSUME DecisionsInv, NEW p \in Procs, WriteRegistration(p)
  PROVE  DecisionsInv'
<1>1. Moved(p, "idle", None) /\ engine' = [engine EXCEPT ![p] = engine[p]] /\ Quiet
  BY DecisionFacts, Finished DEF WriteRegistration, approval, Quiet, DecisionsInv, DecisionRows
<1> QED
  BY <1>1, IdleDecides, QuietMoves

LEMMA DecisionFailStep ==
  ASSUME DecisionsInv, NEW p \in Procs, Fail(p), engine' = [engine EXCEPT ![p] = None],
         UNCHANGED <<owned, workflow, request, audit, decided>>
  PROVE  DecisionsInv'
<1>1. Moved(p, "idle", None) /\ Quiet
  BY DecisionFacts, Failed DEF owned, Quiet, DecisionsInv, DecisionRows
<1> QED
  BY <1>1, IdleDecides, QuietMoves

LEMMA DecisionsStep == DecisionsInv /\ [DecisionsNext]_<<pc, frame, stale, decisions>> => DecisionsInv'
<1> SUFFICES ASSUME DecisionsInv, [DecisionsNext]_<<pc, frame, stale, decisions>>
             PROVE  DecisionsInv'
  OBVIOUS
<1>1. ASSUME NEW p \in Procs, RecordRoutes(p)
      PROVE  DecisionsInv'
  <2>1. \/ \E w \in Workflows \cup {None} : SetGate(p, w)
        \/ \E r \in Records : CreateRecord(p, r)
        \/ \E r \in Records, s \in Shows, u \in Users : ChangeStatus(p, r, s, u)
    BY <1>1 DEF RecordRoutes, Shows
  <2> QED
    BY <2>1, ApartStep, CreateRecordStep, ChangeStatusStep
<1>2. ASSUME NEW p \in Procs, RegistrationRoutes(p)
      PROVE  DecisionsInv'
  BY <1>2, ApartStep, DecideRegistrationStep DEF RegistrationRoutes
<1>3. ASSUME NEW p \in Procs, Administer(p)
      PROVE  DecisionsInv'
  BY <1>3, ApartStep
<1>4. ASSUME NEW p \in Procs, ContinueDecisions(p)
      PROVE  DecisionsInv'
  BY <1>4, FirstHistoryStep, RecordHistoryStep, WriteStatusStep, FindWorkflowStep, WriteRegistrationStep,
     StartDecisionStep, EngineDecisionStep, RecordDecisionStep, DecisionFailStep DEF ContinueDecisions
<1>5. ASSUME NEW p \in Procs, Engine(p)
      PROVE  DecisionsInv'
  BY <1>5, EngineRouteStep, RequestWorkflowStep, RequestInsertStep, VoteUpdateStep, VoteAuditStep
     DEF Engine, AW!Continue
<1>6. CASE UNCHANGED <<pc, frame, stale, decisions>>
  <2> USE <1>6 DEF decisions, owned, approval
  <2>1. DecisionRows'
    BY DEF DecisionsInv, DecisionRows, StatusIsInHistory, AW!CurrentStepExists
  <2>2. DecisionCalls'
    BY DEF DecisionsInv, DecisionCalls, HandlersOK
  <2> QED
    BY <2>1, <2>2 DEF DecisionsInv
<1> QED
  BY <1>1, <1>2, <1>3, <1>4, <1>5, <1>6 DEF DecisionsNext

LEMMA DecisionsBegin == HandlersInit /\ DecisionsInit => DecisionsInv
<1> SUFFICES ASSUME HandlersInit, DecisionsInit
             PROVE  DecisionsInv
  OBVIOUS
<1>1. HandlersOK /\ \A p \in Procs : pc[p] = "idle"
  BY Begun
<1>2. engine = [p \in Procs |-> engine[p]]
  BY Zenon DEF DecisionsInit, AW!Init
<1>3. DecisionCalls
  BY <1>1, <1>2, IdleDecides DEF DecisionCalls
<1>4. DecisionRows
  BY DEF DecisionsInit, AW!Init, DecisionRows, AW!CurrentStepExists, StatusIsInHistory, AW!Decisions, Subjects
<1> QED
  BY <1>3, <1>4 DEF DecisionsInv

(* No record shows a verdict, and no registration is given one, that       *)
(* nobody who holds the gate of its step gave or the audit log does not    *)
(* have: however many handlers decide on a record at the same time, what   *)
(* each is about to write is backed.                                       *)
THEOREM VerdictsAreBacked == DecisionsSpec => []VerdictIsBacked
<1>1. DecisionsInv => VerdictIsBacked
  BY DEF DecisionsInv, DecisionRows, DecisionCalls, KnowsDecision, VerdictIsBacked, Backed, BackedBy,
         At, Fits
<1> QED
  BY <1>1, DecisionsBegin, DecisionsStep, PTL DEF DecisionsSpec

(* The history explains the status of every record: the row that leads to  *)
(* a status is written in the call before the status, and none is removed. *)
THEOREM HistoryExplains == DecisionsSpec => []StatusIsInHistory
<1>1. DecisionsInv => StatusIsInHistory
  BY DEF DecisionsInv, DecisionRows
<1> QED
  BY <1>1, DecisionsBegin, DecisionsStep, PTL DEF DecisionsSpec

-----------------------------------------------------------------------------
(* The engine under the decisions *)

InEngine(l) == l \in StartLabels \cup VoteLabels

(* What the engine on its own sees of the handlers: those that are within  *)
(* one of its calls, each of which returns to an idle handler.             *)
OwnCall(g) == [g EXCEPT !.ret = "idle"]
EngineAt == [p \in Procs |-> IF InEngine(pc[p]) THEN pc[p] ELSE "idle"]
EngineFrame == [p \in Procs |-> IF InEngine(pc[p]) THEN OwnCall(engine[p]) ELSE None]

AsEngine == INSTANCE ApprovalWorkflows WITH
              Entities <- Records \cup Applicants, NoRow <- None,
              pc <- EngineAt, frame <- EngineFrame

(* The workflow of the module exists, if only in the trash, and so does    *)
(* the one a handler is about to start a request with.                     *)
WorkflowKnown(w) == w # None => workflow[w] # "absent"
WorkflowsKnown ==
  /\ workflow = [w \in Workflows |-> workflow[w]]
  /\ WorkflowKnown(gate)
  /\ \A p \in Procs : pc[p] = "decision.start" => workflow[frame[p].wf] # "absent"

LEMMA WorkflowsStay ==
  ASSUME WorkflowsKnown, [DecisionsNext]_<<pc, frame, stale, decisions>>
  PROVE  /\ workflow' = [w \in Workflows |-> workflow'[w]]
         /\ \A w \in Workflows : workflow[w] # "absent" => workflow'[w] # "absent"
<1>1. CASE AW!Admin
  BY <1>1 DEF AW!Admin, AW!Create, AW!Remove, AW!Restore, WorkflowsKnown
<1>2. CASE workflow' = workflow
  BY <1>2 DEF WorkflowsKnown
<1>3. AW!Admin \/ workflow' = workflow
  <2>1. ASSUME NEW p \in Procs, RecordRoutes(p) \/ RegistrationRoutes(p)
        PROVE  workflow' = workflow
    BY <2>1 DEF RecordRoutes, RegistrationRoutes, SetGate, CreateRecord, ChangeStatus, Register,
                EditStatus, DecideRegistration, decisions, approval
  <2>2. ASSUME NEW p \in Procs, ContinueDecisions(p)
        PROVE  workflow' = workflow
    BY <2>2 DEF ContinueDecisions, FirstHistory, RecordHistory, WriteStatus, FindWorkflow,
                WriteRegistration, StartDecision, EngineDecision, RecordDecision, AW!StartFind,
                AW!DecideRead, decisions, approval
  <2>3. ASSUME NEW p \in Procs, Engine(p)
        PROVE  workflow' = workflow
    BY <2>3 DEF Engine, AW!Decide, AW!DecideRead, AW!Continue, AW!StartWorkflow, AW!StartInsert,
                AW!DecideUpdate, AW!DecideAudit
  <2>4. CASE UNCHANGED <<pc, frame, stale, decisions>>
    BY <2>4 DEF decisions, approval
  <2> QED
    BY <2>1, <2>2, <2>3, <2>4 DEF DecisionsNext, Administer
<1> QED
  BY <1>1, <1>2, <1>3

LEMMA GateKnown ==
  ASSUME DecisionsInv, WorkflowsKnown, [DecisionsNext]_<<pc, frame, stale, decisions>>
  PROVE  WorkflowKnown(gate)'
<1>1. ASSUME NEW p \in Procs, NEW w \in Workflows \cup {None}, SetGate(p, w)
      PROVE  WorkflowKnown(gate)'
  BY <1>1 DEF SetGate, approval, WorkflowKnown
<1>2. CASE gate' = gate
  BY <1>2, WorkflowsStay DEF WorkflowKnown, WorkflowsKnown, DecisionsInv, DecisionRows
<1>3. (\E p \in Procs, w \in Workflows \cup {None} : SetGate(p, w)) \/ gate' = gate
  <2>1. ASSUME NEW p \in Procs, RecordRoutes(p) \/ RegistrationRoutes(p) \/ Administer(p) \/ Engine(p)
        PROVE  (\E w \in Workflows \cup {None} : SetGate(p, w)) \/ gate' = gate
    BY <2>1 DEF RecordRoutes, RegistrationRoutes, CreateRecord, ChangeStatus, Register,
                EditStatus, DecideRegistration, Administer, Engine, decisions, owned
  <2>2. ASSUME NEW p \in Procs, ContinueDecisions(p)
        PROVE  gate' = gate
    BY <2>2 DEF ContinueDecisions, FirstHistory, RecordHistory, WriteStatus, FindWorkflow,
                WriteRegistration, StartDecision, EngineDecision, RecordDecision, decisions, owned
  <2>3. CASE UNCHANGED <<pc, frame, stale, decisions>>
    BY <2>3 DEF decisions, owned
  <2> QED
    BY <2>1, <2>2, <2>3 DEF DecisionsNext
<1> QED
  BY <1>1, <1>2, <1>3

(* Who starts a request read its workflow off the module, or found it. *)
LEMMA StartKnown ==
  ASSUME DecisionsInv, WorkflowsKnown, [DecisionsNext]_<<pc, frame, stale, decisions>>,
         NEW p \in Procs, pc'[p] = "decision.start"
  PROVE  workflow'[frame'[p].wf] # "absent"
<1> DEFINE
      Kept  == pc[p] = "decision.start" /\ frame'[p] = frame[p]
      Seen  == frame'[p].wf \in Workflows /\ workflow[frame'[p].wf] # "absent"
      Moves(q) == \E l, f : l # "decision.start" /\ Moved(q, l, f)
<1> HandlersOK
  BY DEF DecisionsInv, DecisionCalls
<1>1. CASE Kept
  <2>1. frame[p].wf \in Workflows
    BY <1>1, DecisionFacts DEF KnowsDecision
  <2> QED
    BY <1>1, <2>1, WorkflowsStay DEF WorkflowsKnown
<1>2. CASE Seen
  BY <1>2, WorkflowsStay
<1>3. ASSUME NEW q \in Procs, Moves(q)
      PROVE  Kept
  BY <1>3 DEF Moved, Others
<1>4. ASSUME NEW q \in Procs, AtOnce(q)
      PROVE  Kept
  BY <1>4 DEF AtOnce
<1>5. ASSUME NEW q \in Procs, NEW r \in Records, NEW s \in Shows, NEW u \in Users,
             ChangeStatus(q, r, s, u)
      PROVE  Kept \/ Seen
  <2> DEFINE f == [id |-> r, wf |-> gate, user |-> u, verdict |-> s, from |-> record[r],
                   next |-> "record.history", uses |-> {r}]
             l == IF gate # None /\ s \in AW!Decisions THEN "decision.start" ELSE "decision.record"
  <2>1. Moved(q, l, f)
    BY <1>5, Entered DEF ChangeStatus
  <2>2. f.wf = gate
    OBVIOUS
  <2> HIDE DEF f
  <2>3. gate \in Workflows \cup {None}
    BY DEF DecisionsInv, DecisionRows
  <2> QED
    BY <2>1, <2>2, <2>3 DEF Moved, Others, WorkflowsKnown, WorkflowKnown
<1>6. ASSUME NEW q \in Procs, FindWorkflow(q)
      PROVE  Kept \/ Seen
  <2>1. CASE \E w \in Workflows : workflow[w] = "live"
    <3>1. PICK w \in Workflows : workflow[w] = "live" /\ Proceed(q, "decision.start", [frame[q] EXCEPT !.wf = w])
      BY <1>6, <2>1 DEF FindWorkflow
    <3>2. Moved(q, "decision.start", [frame[q] EXCEPT !.wf = w])
      BY <3>1, Proceeded
    <3>3. frame[q] \in DecisionFrame
      BY <1>6, DecisionFacts DEF FindWorkflow, At, KnowsDecision, Fits
    <3>4. [frame[q] EXCEPT !.wf = w].wf = w
      BY <3>3 DEF DecisionFrame
    <3> QED
      BY <3>1, <3>2, <3>4 DEF Moved, Others
  <2>2. CASE ~\E w \in Workflows : workflow[w] = "live"
    BY <1>3, <1>6, <2>2, WentOn DEF FindWorkflow
  <2> QED
    BY <2>1, <2>2
<1>7. ASSUME NEW q \in Procs, NEW l, l # "decision.start", pc' = [pc EXCEPT ![q] = l], KeepFrame(q)
      PROVE  Moves(q)
  BY <1>7, FrameKept
<1>8. ASSUME NEW q \in Procs, StartDecision(q)
      PROVE  Moves(q)
  BY <1>7, <1>8 DEF StartDecision, AW!StartFind, AW!Return, AW!Goto
<1>9. ASSUME NEW q \in Procs, EngineDecision(q) \/ (AW!Decide(q) /\ KeepFrame(q))
      PROVE  Moves(q)
  BY <1>7, <1>9 DEF EngineDecision, AW!Decide, AW!DecideRead, AW!Throw, AW!Return, AW!Goto
<1>10. ASSUME NEW q \in Procs, AW!Continue(q), KeepFrame(q)
       PROVE  Moves(q)
  <2>1. AW!StartInsert(q) => engine[q].ret = "decision.decide"
    BY DecisionFacts DEF AW!StartInsert, KnowsDecision, RequestFrame
  <2>2. AW!DecideAudit(q) => engine[q].ret # "decision.start"
    BY DecisionFacts DEF AW!DecideAudit, KnowsDecision, VoteFrame
  <2> QED
    BY <1>7, <1>10, <2>1, <2>2 DEF AW!Continue, AW!StartWorkflow, AW!StartInsert, AW!DecideUpdate,
       AW!DecideAudit, AW!Throw, AW!Return, AW!Goto
<1>11. ASSUME NEW q \in Procs, RecordDecision(q)
       PROVE  Moves(q)
  <2>1. frame[q].next # "decision.start"
    BY <1>11, DecisionFacts DEF RecordDecision, At, KnowsDecision, Fits
  <2> QED
    BY <1>11, <2>1, WentOn DEF RecordDecision
<1>12. ASSUME NEW q \in Procs, FirstHistory(q) \/ WriteStatus(q) \/ WriteRegistration(q) \/ Fail(q)
       PROVE  Moves(q)
  BY <1>12, Finished, Failed DEF FirstHistory, WriteStatus, WriteRegistration
<1>13. ASSUME NEW q \in Procs, RecordHistory(q)
       PROVE  Moves(q)
  BY <1>13, WentOn DEF RecordHistory
<1>14. ASSUME NEW q \in Procs, NEW r \in Records, CreateRecord(q, r)
       PROVE  Moves(q)
  BY <1>14, Entered DEF CreateRecord
<1>15. ASSUME NEW q \in Procs, NEW a \in Applicants, NEW v \in AW!Decisions, NEW u \in Users,
              DecideRegistration(q, a, v, u)
       PROVE  Moves(q)
  BY <1>15, Entered DEF DecideRegistration
<1>16. ASSUME NEW q \in Procs, RecordRoutes(q)
       PROVE  Kept \/ Seen
  BY <1>3, <1>4, <1>5, <1>14, <1>16 DEF RecordRoutes, SetGate, Shows
<1>17. ASSUME NEW q \in Procs, RegistrationRoutes(q) \/ Administer(q)
       PROVE  Kept
  BY <1>3, <1>4, <1>15, <1>17 DEF RegistrationRoutes, Register, EditStatus, Administer
<1>18. ASSUME NEW q \in Procs, ContinueDecisions(q)
       PROVE  Kept \/ Seen
  BY <1>3, <1>6, <1>8, <1>9, <1>11, <1>12, <1>13, <1>18 DEF ContinueDecisions
<1>19. ASSUME NEW q \in Procs, Engine(q)
       PROVE  Kept
  BY <1>3, <1>9, <1>10, <1>19 DEF Engine
<1>20. Kept \/ Seen
  BY <1>16, <1>17, <1>18, <1>19 DEF DecisionsNext
<1> QED
  BY <1>1, <1>2, <1>20

LEMMA KnownStep ==
  DecisionsInv /\ WorkflowsKnown /\ [DecisionsNext]_<<pc, frame, stale, decisions>> => WorkflowsKnown'
BY WorkflowsStay, GateKnown, StartKnown DEF WorkflowsKnown

(* What the engine sees of a handler that moves to l with locals g in its  *)
(* calls.                                                                  *)
CallMoves(p, l, g) ==
  /\ pc'[p] = l /\ \A q \in Procs \ {p} : pc'[q] = pc[q]
  /\ engine'[p] = g /\ \A q \in Procs \ {p} : engine'[q] = engine[q]

LEMMA CallMoved ==
  ASSUME DecisionsInv, NEW p \in Procs, NEW l, NEW g,
         pc' = [pc EXCEPT ![p] = l], engine' = [engine EXCEPT ![p] = g]
  PROVE  CallMoves(p, l, g)
<1>1. HandlersOK
  BY DEF DecisionsInv, DecisionCalls
<1>2. pc'[p] = l /\ \A q \in Procs \ {p} : pc'[q] = pc[q]
  BY <1>1 DEF HandlersOK
<1>3. engine'[p] = g /\ \A q \in Procs \ {p} : engine'[q] = engine[q]
  BY DEF DecisionsInv, DecisionCalls
<1> QED
  BY <1>2, <1>3 DEF CallMoves

LEMMA SeenFrom ==
  ASSUME NEW p \in Procs, NEW at, NEW locals,
         \A q \in Procs \ {p} : EngineAt'[q] = EngineAt[q] /\ EngineFrame'[q] = EngineFrame[q],
         EngineAt'[p] = at, EngineFrame'[p] = locals
  PROVE  EngineAt' = [EngineAt EXCEPT ![p] = at] /\ EngineFrame' = [EngineFrame EXCEPT ![p] = locals]
<1>1. /\ EngineAt = [q \in Procs |-> EngineAt[q]] /\ EngineAt' = [q \in Procs |-> EngineAt'[q]]
      /\ EngineFrame = [q \in Procs |-> EngineFrame[q]]
      /\ EngineFrame' = [q \in Procs |-> EngineFrame'[q]]
      /\ DOMAIN EngineAt = Procs /\ DOMAIN EngineFrame = Procs
  BY DEF EngineAt, EngineFrame
<1>2. EngineAt' = [EngineAt EXCEPT ![p] = at]
  BY <1>1
<1>3. EngineFrame' = [EngineFrame EXCEPT ![p] = locals]
  BY <1>1
<1> QED
  BY <1>2, <1>3

LEMMA SeenInside ==
  ASSUME NEW p \in Procs, NEW l, NEW g, CallMoves(p, l, g), InEngine(l)
  PROVE  EngineAt' = [EngineAt EXCEPT ![p] = l] /\ EngineFrame' = [EngineFrame EXCEPT ![p] = OwnCall(g)]
<1>1. EngineAt'[p] = l /\ EngineFrame'[p] = OwnCall(g)
  BY DEF CallMoves, EngineAt, EngineFrame
<1>2. \A q \in Procs \ {p} : EngineAt'[q] = EngineAt[q] /\ EngineFrame'[q] = EngineFrame[q]
  BY DEF CallMoves, EngineAt, EngineFrame
<1> QED
  BY <1>1, <1>2, SeenFrom

LEMMA SeenOutside ==
  ASSUME NEW p \in Procs, NEW l, NEW g, CallMoves(p, l, g), ~InEngine(l)
  PROVE  EngineAt' = [EngineAt EXCEPT ![p] = "idle"] /\ EngineFrame' = [EngineFrame EXCEPT ![p] = None]
<1>1. EngineAt'[p] = "idle" /\ EngineFrame'[p] = None
  BY DEF CallMoves, EngineAt, EngineFrame
<1>2. \A q \in Procs \ {p} : EngineAt'[q] = EngineAt[q] /\ EngineFrame'[q] = EngineFrame[q]
  BY DEF CallMoves, EngineAt, EngineFrame
<1> QED
  BY <1>1, <1>2, SeenFrom

(* A handler that is not in the engine, before a step and after it. *)
Outside(p) ==
  /\ ~InEngine(pc[p]) /\ ~InEngine(pc'[p]) /\ Others(p)
  /\ UNCHANGED <<workflow, request, audit, decided>>
  /\ \A q \in Procs \ {p} : engine'[q] = engine[q]

LEMMA OutsideUnseen ==
  ASSUME NEW p \in Procs, Outside(p)
  PROVE  UNCHANGED AsEngine!vars
<1>1. /\ EngineAt[p] = "idle" /\ EngineAt'[p] = "idle"
      /\ EngineFrame[p] = None /\ EngineFrame'[p] = None
  BY DEF Outside, EngineAt, EngineFrame
<1>2. \A q \in Procs \ {p} : EngineAt'[q] = EngineAt[q] /\ EngineFrame'[q] = EngineFrame[q]
  BY DEF Outside, Others, EngineAt, EngineFrame
<1>3. /\ EngineAt = [q \in Procs |-> EngineAt[q]] /\ EngineAt' = [q \in Procs |-> EngineAt'[q]]
      /\ EngineFrame = [q \in Procs |-> EngineFrame[q]]
      /\ EngineFrame' = [q \in Procs |-> EngineFrame'[q]]
  BY DEF EngineAt, EngineFrame
<1>4. EngineAt' = EngineAt
  BY <1>1, <1>2, <1>3
<1>5. EngineFrame' = EngineFrame
  BY <1>1, <1>2, <1>3
<1> QED
  BY <1>4, <1>5 DEF AsEngine!vars, Outside

LEMMA AdminSeen ==
  ASSUME AW!Admin, UNCHANGED pc
  PROVE  AsEngine!Admin
<1>1. EngineAt' = EngineAt /\ EngineFrame' = EngineFrame
  BY DEF AW!Admin, AW!Create, AW!Remove, AW!Restore, EngineAt, EngineFrame
<1> QED
  BY <1>1 DEF AW!Admin, AW!Create, AW!Remove, AW!Restore,
              AsEngine!Admin, AsEngine!Create, AsEngine!Remove, AsEngine!Restore

USE DEF InEngine

(* Calls of the engine, from its own routes or from here. *)
LEMMA StartSeen ==
  ASSUME DecisionsInv, WorkflowsKnown, NEW p \in Procs, StartDecision(p)
  PROVE  AsEngine!Start(p)
<1> DEFINE e == frame[p].id
           w == frame[p].wf
           f == [entity |-> e, wf |-> w, ret |-> "decision.decide"]
           g == [entity |-> e, wf |-> w, ret |-> "idle"]
<1>1. pc[p] = "decision.start" /\ AW!StartFind(p, e, w, "decision.decide")
  BY DEF StartDecision, At
<1>2. e \in Subjects /\ w \in Workflows /\ workflow[w] # "absent"
  BY <1>1, DecisionFacts DEF KnowsDecision, Fits, DecisionFrame, WorkflowsKnown
<1>3. EngineAt[p] = "idle"
  BY <1>1 DEF EngineAt
<1>4. CASE request[e] # None
  <2>1. pc' = [pc EXCEPT ![p] = "decision.decide"] /\ engine' = [engine EXCEPT ![p] = None]
    BY <1>1, <1>4 DEF AW!StartFind, AW!Return, AW!Goto
  <2>2. /\ EngineAt' = [EngineAt EXCEPT ![p] = "idle"]
        /\ EngineFrame' = [EngineFrame EXCEPT ![p] = None]
    BY <2>1, CallMoved, SeenOutside
  <2>3. AsEngine!StartFind(p, e, w, "idle")
    BY <1>1, <1>4, <2>2 DEF AW!StartFind, AsEngine!StartFind, AsEngine!Return, AsEngine!Goto
  <2> QED
    BY <1>2, <1>3, <2>3 DEF AsEngine!Start, Subjects
<1>5. CASE request[e] = None
  <2>1. pc' = [pc EXCEPT ![p] = "start.workflow"] /\ engine' = [engine EXCEPT ![p] = f]
    BY <1>1, <1>5 DEF AW!StartFind, AW!Goto
  <2>2. OwnCall(f) = g
    BY DEF OwnCall
  <2> HIDE DEF f, g
  <2>3. CallMoves(p, "start.workflow", f)
    BY <2>1, CallMoved
  <2>4. /\ EngineAt' = [EngineAt EXCEPT ![p] = "start.workflow"]
        /\ EngineFrame' = [EngineFrame EXCEPT ![p] = g]
    BY <2>2, <2>3, SeenInside
  <2>5. AsEngine!StartFind(p, e, w, "idle")
    BY <1>1, <1>5, <2>4 DEF AW!StartFind, AsEngine!StartFind, AsEngine!Goto, g
  <2> QED
    BY <1>2, <1>3, <2>5 DEF AsEngine!Start, Subjects
<1> QED
  BY <1>4, <1>5

LEMMA DecideSeen ==
  ASSUME DecisionsInv, NEW p \in Procs, ~InEngine(pc[p]), NEW e \in Subjects, NEW u \in Users,
         NEW v \in AW!Decisions, NEW ret, AW!DecideRead(p, e, u, v, ret)
  PROVE  AsEngine!Decide(p)
<1> DEFINE Accepted == /\ request[e] # None /\ request[e].status = "pending"
                       /\ AW!MayDecide(u, request[e].wf, request[e].step)
           f == AW!FrameOf(e, u, v, ret)
           g == AsEngine!FrameOf(e, u, v, "idle")
<1>1. EngineAt[p] = "idle" /\ v \in AsEngine!Decisions
  BY DEF EngineAt, AW!Decisions, AsEngine!Decisions
<1>2. Accepted <=> /\ request[e] # None /\ request[e].status = "pending"
                   /\ AsEngine!MayDecide(u, request[e].wf, request[e].step)
  BY DEF AW!MayDecide, AsEngine!MayDecide, AW!CanActOnStep, AsEngine!CanActOnStep
<1>3. CASE Accepted
  <2>1. pc' = [pc EXCEPT ![p] = "decide.update"] /\ engine' = [engine EXCEPT ![p] = f]
    BY <1>3 DEF AW!DecideRead, AW!Goto
  <2>2. OwnCall(f) = g
    BY DEF AW!FrameOf, AsEngine!FrameOf, OwnCall
  <2> HIDE DEF f, g
  <2>3. CallMoves(p, "decide.update", f)
    BY <2>1, CallMoved
  <2>4. /\ EngineAt' = [EngineAt EXCEPT ![p] = "decide.update"]
        /\ EngineFrame' = [EngineFrame EXCEPT ![p] = g]
    BY <2>2, <2>3, SeenInside
  <2>5. AsEngine!DecideRead(p, e, u, v, "idle")
    BY <1>2, <1>3, <2>4 DEF AW!DecideRead, AsEngine!DecideRead, AsEngine!Goto, g
  <2> QED
    BY <1>1, <2>5 DEF AsEngine!Decide, Subjects
<1>4. CASE ~Accepted
  <2>1. pc' = [pc EXCEPT ![p] = "idle"] /\ engine' = [engine EXCEPT ![p] = None]
    BY <1>4 DEF AW!DecideRead, AW!Throw, AW!Return, AW!Goto
  <2>2. /\ EngineAt' = [EngineAt EXCEPT ![p] = "idle"]
        /\ EngineFrame' = [EngineFrame EXCEPT ![p] = None]
    BY <2>1, CallMoved, SeenOutside
  <2>3. AsEngine!DecideRead(p, e, u, v, "idle")
    BY <1>2, <1>4, <2>2 DEF AW!DecideRead, AsEngine!DecideRead, AsEngine!Throw, AsEngine!Return,
                            AsEngine!Goto
  <2> QED
    BY <1>1, <2>3 DEF AsEngine!Decide, Subjects
<1> QED
  BY <1>3, <1>4

LEMMA StartWorkflowSeen ==
  ASSUME DecisionsInv, NEW p \in Procs, AW!StartWorkflow(p)
  PROVE  AsEngine!StartWorkflow(p)
<1> DEFINE f == engine[p]
           g == EngineFrame[p]
<1>1. pc[p] = "start.workflow" /\ EngineAt[p] = "start.workflow" /\ f \in RequestFrame
  BY DecisionFacts DEF AW!StartWorkflow, EngineAt, KnowsDecision
<1>2. g = OwnCall(f) /\ g.wf = f.wf
  BY <1>1 DEF EngineFrame, OwnCall, RequestFrame
<1>3. CASE workflow[f.wf] = "live"
  <2>1. CallMoves(p, "start.insert", f)
    BY <1>3, DecisionFacts, CallMoved DEF AW!StartWorkflow, AW!Goto
  <2>2. EngineAt' = [EngineAt EXCEPT ![p] = "start.insert"]
    BY <2>1, SeenInside
  <2>3. EngineFrame' = EngineFrame
    BY <1>1, <2>1 DEF CallMoves, EngineFrame
  <2> QED
    BY <1>1, <1>2, <1>3, <2>2, <2>3 DEF AW!StartWorkflow, AsEngine!StartWorkflow, AsEngine!Goto
<1>4. CASE workflow[f.wf] # "live"
  <2>1. CallMoves(p, "idle", None)
    BY <1>4, CallMoved DEF AW!StartWorkflow, AW!Throw, AW!Return, AW!Goto
  <2>2. /\ EngineAt' = [EngineAt EXCEPT ![p] = "idle"]
        /\ EngineFrame' = [EngineFrame EXCEPT ![p] = None]
    BY <2>1, SeenOutside
  <2> QED
    BY <1>1, <1>2, <1>4, <2>2
       DEF AW!StartWorkflow, AsEngine!StartWorkflow, AsEngine!Throw, AsEngine!Return, AsEngine!Goto
<1> QED
  BY <1>3, <1>4

LEMMA StartInsertSeen ==
  ASSUME DecisionsInv, NEW p \in Procs, AW!StartInsert(p)
  PROVE  AsEngine!StartInsert(p)
<1> DEFINE f == engine[p]
           g == EngineFrame[p]
<1>1. /\ pc[p] = "start.insert" /\ EngineAt[p] = "start.insert"
      /\ f \in RequestFrame /\ f.ret = "decision.decide"
  BY DecisionFacts DEF AW!StartInsert, EngineAt, KnowsDecision, RequestFrame
<1>2. g.wf = f.wf /\ g.entity = f.entity /\ g.ret = "idle"
  BY <1>1 DEF EngineFrame, OwnCall, RequestFrame
<1>3. \E l : CallMoves(p, l, None) /\ ~InEngine(l)
  BY <1>1, CallMoved DEF AW!StartInsert, AW!Throw, AW!Return, AW!Goto
<1>4. /\ EngineAt' = [EngineAt EXCEPT ![p] = "idle"]
      /\ EngineFrame' = [EngineFrame EXCEPT ![p] = None]
  BY <1>3, SeenOutside
<1>5. AsEngine!Return(p, g.ret) /\ AsEngine!Throw(p)
  BY <1>2, <1>4 DEF AsEngine!Throw, AsEngine!Return, AsEngine!Goto
<1> HIDE DEF g
<1> QED
  BY <1>1, <1>2, <1>5 DEF AW!StartInsert, AsEngine!StartInsert, g

LEMMA DecideUpdateSeen ==
  ASSUME DecisionsInv, NEW p \in Procs, AW!DecideUpdate(p)
  PROVE  AsEngine!DecideUpdate(p)
<1> DEFINE f == engine[p]
           g == EngineFrame[p]
<1>1. pc[p] = "decide.update" /\ EngineAt[p] = "decide.update" /\ f \in VoteFrame
  BY DecisionFacts DEF AW!DecideUpdate, EngineAt, KnowsDecision
<1>2. /\ g.entity = f.entity /\ g.wf = f.wf /\ g.step = f.step /\ g.user = f.user
      /\ g.decision = f.decision
  BY <1>1 DEF EngineFrame, OwnCall, VoteFrame
<1>3. CallMoves(p, "decide.audit", f)
  BY DecisionFacts, CallMoved DEF AW!DecideUpdate, AW!Goto
<1>4. EngineAt' = [EngineAt EXCEPT ![p] = "decide.audit"]
  BY <1>3, SeenInside
<1>5. EngineFrame' = EngineFrame
  BY <1>1, <1>3 DEF CallMoves, EngineFrame
<1>6. /\ AW!NextStep(f.wf, f.step, f.decision) = AsEngine!NextStep(g.wf, g.step, g.decision)
      /\ AW!NextStatus(f.wf, f.step, f.decision) = AsEngine!NextStatus(g.wf, g.step, g.decision)
      /\ AW!DecisionOf(f) = AsEngine!DecisionOf(g)
  BY <1>2 DEF AW!NextStep, AsEngine!NextStep, AW!NextStatus, AsEngine!NextStatus,
              AW!IsLastStep, AsEngine!IsLastStep, AW!DecisionOf, AsEngine!DecisionOf
<1> HIDE DEF g
<1> QED
  BY <1>1, <1>2, <1>4, <1>5, <1>6 DEF AW!DecideUpdate, AsEngine!DecideUpdate, AsEngine!Goto, g

LEMMA DecideAuditSeen ==
  ASSUME DecisionsInv, NEW p \in Procs, AW!DecideAudit(p)
  PROVE  AsEngine!DecideAudit(p)
<1> DEFINE f == engine[p]
           g == EngineFrame[p]
<1>1. pc[p] = "decide.audit" /\ EngineAt[p] = "decide.audit" /\ f \in VoteFrame
  BY DecisionFacts DEF AW!DecideAudit, EngineAt, KnowsDecision
<1>2. /\ g.entity = f.entity /\ g.step = f.step /\ g.user = f.user /\ g.decision = f.decision
      /\ g.ret = "idle"
  BY <1>1 DEF EngineFrame, OwnCall, VoteFrame
<1>3. CallMoves(p, f.ret, None)
  BY CallMoved DEF AW!DecideAudit, AW!Return, AW!Goto
<1>4. ~InEngine(f.ret)
  BY <1>1 DEF VoteFrame
<1>5. /\ EngineAt' = [EngineAt EXCEPT ![p] = "idle"]
      /\ EngineFrame' = [EngineFrame EXCEPT ![p] = None]
  <2> HIDE DEF InEngine, f
  <2> QED
    BY <1>3, <1>4, SeenOutside
<1>6. AW!DecisionOf(f) = AsEngine!DecisionOf(g)
  BY <1>2 DEF AW!DecisionOf, AsEngine!DecisionOf
<1> HIDE DEF g
<1> QED
  BY <1>1, <1>2, <1>5, <1>6 DEF AW!DecideAudit, AsEngine!DecideAudit, AsEngine!Return, AsEngine!Goto, g

LEMMA FailSeen ==
  ASSUME DecisionsInv, NEW p \in Procs, Fail(p), InEngine(pc[p]), engine' = [engine EXCEPT ![p] = None],
         UNCHANGED <<workflow, request, audit, decided>>
  PROVE  AsEngine!Fail(p)
<1>1. CallMoves(p, "idle", None)
  BY CallMoved DEF Fail, Finish, Proceed
<1>2. /\ EngineAt' = [EngineAt EXCEPT ![p] = "idle"]
      /\ EngineFrame' = [EngineFrame EXCEPT ![p] = None]
  BY <1>1, SeenOutside
<1> QED
  BY <1>2 DEF AsEngine!Fail, AsEngine!Throw, AsEngine!Return, AsEngine!Goto, EngineAt

(* Every other step is one of handlers outside of the engine. *)
LEMMA RouteUnseen ==
  ASSUME DecisionsInv, NEW p \in Procs, RecordRoutes(p) \/ RegistrationRoutes(p)
  PROVE  UNCHANGED AsEngine!vars
<1> HandlersOK /\ UNCHANGED approval
  BY DEF DecisionsInv, DecisionCalls, RecordRoutes, RegistrationRoutes, SetGate, CreateRecord,
     ChangeStatus, Register, EditStatus, DecideRegistration, decisions
<1>1. CASE UNCHANGED <<pc, frame>>
  BY <1>1 DEF AsEngine!vars, EngineAt, EngineFrame, approval
<1>2. ASSUME NEW l, NEW f, Enter(p, l, f), ~InEngine(l)
      PROVE  Outside(p)
  BY <1>2, Entered DEF Moved, Others, Outside, approval
<1>3. ASSUME NEW r \in Records, CreateRecord(p, r)
      PROVE  Outside(p)
  BY <1>2, <1>3 DEF CreateRecord
<1>4. ASSUME NEW r \in Records, NEW s \in Shows, NEW u \in Users, ChangeStatus(p, r, s, u)
      PROVE  Outside(p)
  BY <1>2, <1>4 DEF ChangeStatus
<1>5. ASSUME NEW a \in Applicants, NEW v \in AW!Decisions, NEW u \in Users,
             DecideRegistration(p, a, v, u)
      PROVE  Outside(p)
  BY <1>2, <1>5 DEF DecideRegistration
<1> QED
  BY <1>1, <1>3, <1>4, <1>5, OutsideUnseen DEF RecordRoutes, RegistrationRoutes, SetGate, Register,
     EditStatus, AtOnce, Shows

LEMMA WorkUnseen ==
  ASSUME DecisionsInv, NEW p \in Procs,
         \/ FirstHistory(p) \/ RecordHistory(p) \/ WriteStatus(p)
         \/ FindWorkflow(p) \/ WriteRegistration(p) \/ RecordDecision(p)
  PROVE  UNCHANGED AsEngine!vars
<1> HandlersOK /\ UNCHANGED approval
  BY DEF DecisionsInv, DecisionCalls, FirstHistory, RecordHistory, WriteStatus, FindWorkflow,
     WriteRegistration, RecordDecision, decisions
<1>1. ASSUME NEW l, NEW f, Proceed(p, l, f), ~InEngine(l), ~InEngine(pc[p])
      PROVE  Outside(p)
  BY <1>1, Proceeded DEF Moved, Others, Outside, approval
<1>2. CASE FirstHistory(p) \/ WriteStatus(p) \/ WriteRegistration(p)
  BY <1>1, <1>2, OutsideUnseen DEF FirstHistory, WriteStatus, WriteRegistration, Finish, At
<1>3. CASE RecordHistory(p)
  BY <1>1, <1>3, OutsideUnseen DEF RecordHistory, Goto, At
<1>4. CASE FindWorkflow(p)
  BY <1>1, <1>4, OutsideUnseen DEF FindWorkflow, Goto, At
<1>5. CASE RecordDecision(p)
  <2>1. pc[p] = "decision.record" /\ ~InEngine(frame[p].next)
    BY <1>5, DecisionFacts DEF RecordDecision, At, KnowsDecision, Fits
  <2> QED
    BY <1>1, <1>5, <2>1, OutsideUnseen DEF RecordDecision, Goto
<1> QED
  BY <1>2, <1>3, <1>4, <1>5

LEMMA EngineStep ==
  ASSUME DecisionsInv, WorkflowsKnown, [DecisionsNext]_<<pc, frame, stale, decisions>>
  PROVE  [AsEngine!Next]_AsEngine!vars
<1>1. ASSUME NEW p \in Procs, Administer(p)
      PROVE  AsEngine!Admin
  BY <1>1, AdminSeen DEF Administer, AtOnce
<1>2. ASSUME NEW p \in Procs, AW!Decide(p)
      PROVE  AsEngine!Decide(p)
  <2>1. PICK e \in Subjects, u \in Users, v \in AW!Decisions : AW!DecideRead(p, e, u, v, "idle")
    BY <1>2 DEF AW!Decide, Subjects
  <2> QED
    BY <1>2, <2>1, DecideSeen DEF AW!Decide
<1>3. ASSUME NEW p \in Procs, Engine(p)
      PROVE  AsEngine!Decide(p) \/ AsEngine!Continue(p)
  BY <1>2, <1>3, StartWorkflowSeen, StartInsertSeen, DecideUpdateSeen, DecideAuditSeen
     DEF Engine, AW!Continue, AsEngine!Continue
<1>4. ASSUME NEW p \in Procs, EngineDecision(p)
      PROVE  AsEngine!Decide(p)
  <2> DEFINE f == frame[p]
  <2>1. /\ pc[p] = "decision.decide" /\ Fits(f) /\ f.verdict \in AW!Decisions
        /\ AW!DecideRead(p, f.id, f.user, f.verdict, f.next)
    BY <1>4, DecisionFacts DEF EngineDecision, At, KnowsDecision
  <2>2. f.id \in Subjects /\ f.user \in Users
    BY <2>1 DEF Fits, DecisionFrame
  <2> QED
    BY <2>1, <2>2, DecideSeen
<1>5. ASSUME NEW p \in Procs, Fail(p), engine' = [engine EXCEPT ![p] = None],
             UNCHANGED <<owned, workflow, request, audit, decided>>
      PROVE  [AsEngine!Next]_AsEngine!vars
  <2>1. CASE InEngine(pc[p])
    BY <1>5, <2>1, FailSeen DEF AsEngine!Next
  <2>2. CASE ~InEngine(pc[p])
    <3>1. Moved(p, "idle", None) /\ \A q \in Procs \ {p} : engine'[q] = engine[q]
      BY <1>5, Failed DEF DecisionsInv, DecisionCalls
    <3>2. Outside(p)
      BY <1>5, <2>2, <3>1 DEF Moved, Outside
    <3> QED
      BY <3>2, OutsideUnseen
  <2> QED
    BY <2>1, <2>2
<1>6. ASSUME NEW p \in Procs, ContinueDecisions(p)
      PROVE  [AsEngine!Next]_AsEngine!vars
  BY <1>4, <1>5, <1>6, StartSeen, WorkUnseen DEF ContinueDecisions, AsEngine!Next
<1>7. CASE UNCHANGED <<pc, frame, stale, decisions>>
  BY <1>7 DEF AsEngine!vars, EngineAt, EngineFrame, decisions, approval
<1> QED
  BY <1>1, <1>3, <1>6, <1>7, RouteUnseen DEF DecisionsNext, AsEngine!Next

(* The decisions on records and registrations use the engine as its own    *)
(* specification says it is used: what is shown of the engine on its own,  *)
(* for any number of handlers, is true of their requests too.              *)
THEOREM DecisionsUseEngine == DecisionsSpec => AsEngine!Spec
<1> DEFINE Inv == DecisionsInv /\ WorkflowsKnown
<1>1. HandlersInit /\ DecisionsInit => Inv
  <2>1. HandlersInit /\ DecisionsInit => WorkflowsKnown
    BY DEF HandlersInit, DecisionsInit, AW!Init, WorkflowsKnown, WorkflowKnown
  <2> QED
    BY <2>1, DecisionsBegin
<1>2. Inv /\ [DecisionsNext]_<<pc, frame, stale, decisions>> => Inv'
  BY KnownStep, DecisionsStep
<1>3. HandlersInit /\ DecisionsInit => AsEngine!Init
  BY DEF HandlersInit, DecisionsInit, AW!Init, AsEngine!Init, EngineAt, EngineFrame
<1>4. Inv /\ [DecisionsNext]_<<pc, frame, stale, decisions>> => [AsEngine!Next]_AsEngine!vars
  BY EngineStep
<1> HIDE DEF Inv
<1> QED
  BY <1>1, <1>2, <1>3, <1>4, PTL DEF DecisionsSpec, AsEngine!Spec
=============================================================================
