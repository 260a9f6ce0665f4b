------------------------------- MODULE Ledger -------------------------------
(***************************************************************************)
(* PayrollService and FinanceService: payments and contributions are never *)
(* deleted, and once paid, cancelled or voided they are meant to be facts. *)
(***************************************************************************)
EXTENDS Handlers, Integers

CONSTANTS
  Payments, Contributions,  \* ids of rows
  Reasons,                  \* why a contribution was voided
  MaxAmount                 \* bound on amounts

VARIABLES
  payment,      \* id -> its row, or None
  contribution  \* id -> "absent", "recorded" or the reason it was voided for

ledger == <<payment, contribution>>

Amounts == 0..MaxAmount
Nets == -MaxAmount..MaxAmount
PaymentRow == [gross : Amounts, deductions : Amounts, net : Nets,
               status : {"pending", "paid", "cancelled"}]

ASSUME LedgerAssumption ==
  /\ MaxAmount \in Nat
  /\ Same \notin Nets  \* undefined is not an amount, nor null a row
  /\ None \notin PaymentRow
  /\ {"absent", "recorded"} \cap Reasons = {}

LedgerTypeOK ==
  /\ payment \in [Payments -> PaymentRow \cup {None}]
  /\ contribution \in [Contributions -> {"absent", "recorded"} \cup Reasons]

LedgerInit ==
  /\ payment = [i \in Payments |-> None]
  /\ contribution = [i \in Contributions |-> "absent"]

SetPayment(i, row) == payment' = [payment EXCEPT ![i] = row] /\ UNCHANGED contribution

-----------------------------------------------------------------------------
(* Payroll *)

CreatePayment(p, i, g, d) ==
  /\ AtOnce(p)
  /\ payment[i] = None /\ d <= g
  /\ SetPayment(i, [gross |-> g, deductions |-> d, net |-> g - d, status |-> "pending"])

(* Mutant: only the handlers that settle a payment look at its status. *)
Pending_Settling(i, label) == payment[i] # None /\ (label = "payment.write" \/ payment[i].status = "pending")

(* findOne and assertPending, in update, markPaid and cancel. *)
Pending(i, label) == payment[i] # None /\ payment[i].status = "pending"

(* Mutant: the net amount is computed only when the gross amount is sent. *)
UpdatePayment_GrossOnly(p, i, g, d) ==
  LET net == Or(g, payment[i].gross) - Or(d, payment[i].deductions) IN
  /\ Pending(i, "payment.write") /\ net >= 0
  /\ Enter(p, "payment.write", [id |-> i, gross |-> g, deductions |-> d,
                                net |-> IF g = Same THEN Same ELSE net, uses |-> {i}])
  /\ UNCHANGED ledger

(* The net amount is computed from what was read, and the fields that were *)
(* sent are written with it.                                               *)
UpdatePayment(p, i, g, d) ==
  LET net == Or(g, payment[i].gross) - Or(d, payment[i].deductions) IN
  /\ Pending(i, "payment.write") /\ net >= 0
  /\ Enter(p, "payment.write", [id |-> i, gross |-> g, deductions |-> d,
                                net |-> IF <<g, d>> = <<Same, Same>> THEN Same ELSE net,
                                uses |-> {i}])
  /\ UNCHANGED ledger

WritePayment(p) ==
  /\ At(p, "payment.write")
  /\ LET fr == frame[p] IN
     SetPayment(fr.id, [payment[fr.id] EXCEPT !.gross = Or(fr.gross, @),
                          !.deductions = Or(fr.deductions, @), !.net = Or(fr.net, @)])
  /\ Finish(p)

SettlePayment(p, i, s) ==
  /\ Pending(i, "payment.settle")
  /\ Enter(p, "payment.settle", [id |-> i, status |-> s, uses |-> {i}])
  /\ UNCHANGED ledger

MarkPaid(p, i) == SettlePayment(p, i, "paid")
CancelPayment(p, i) == SettlePayment(p, i, "cancelled")

WriteSettled(p) ==
  /\ At(p, "payment.settle")
  /\ SetPayment(frame[p].id, [payment[frame[p].id] EXCEPT !.status = frame[p].status])
  /\ Finish(p)

-----------------------------------------------------------------------------
(* Contributions: amounts are never updated, a mistake is voided. *)

RecordContribution(p, i) ==
  /\ AtOnce(p)
  /\ contribution[i] = "absent"
  /\ contribution' = [contribution EXCEPT ![i] = "recorded"]
  /\ UNCHANGED payment

Void(p, i, reason) ==
  /\ contribution[i] = "recorded"
  /\ Enter(p, "contribution.void", [id |-> i, reason |-> reason, uses |-> {i}])
  /\ UNCHANGED ledger

WriteVoid(p) ==
  /\ At(p, "contribution.void")
  /\ contribution' = [contribution EXCEPT ![frame[p].id] = frame[p].reason]
  /\ Finish(p)
  /\ UNCHANGED payment

LedgerRoutes(p) ==
  \/ \E i \in Payments :
       \/ \E g, d \in Amounts : CreatePayment(p, i, g, d)
       \/ payment[i] # None /\ \E g, d \in Amounts \cup {Same} : UpdatePayment(p, i, g, d)
       \/ MarkPaid(p, i) \/ CancelPayment(p, i)
  \/ \E i \in Contributions :
       RecordContribution(p, i) \/ \E reason \in Reasons : Void(p, i, reason)

ContinueLedger(p) ==
  \/ WritePayment(p) \/ WriteSettled(p) \/ WriteVoid(p)
  \/ (Fail(p) /\ UNCHANGED ledger)

LedgerChanged == ChangedIn(payment, payment') \cup ChangedIn(contribution, contribution')

LedgerNext ==
  /\ \E p \in Procs : LedgerRoutes(p) \/ ContinueLedger(p)
  /\ Watch(LedgerChanged)

LedgerSpec == HandlersInit /\ LedgerInit /\ [][LedgerNext]_<<pc, frame, stale, ledger>>

-----------------------------------------------------------------------------
(* Properties *)

(* The net amount is the gross amount less the deductions and never        *)
(* negative, although an update may send either of them alone, unless the  *)
(* payment changed under an update.                                        *)
NetIsDifference ==
  \A i \in Payments : payment[i] # None /\ Fresh({i}) =>
    payment[i].net = payment[i].gross - payment[i].deductions /\ payment[i].net >= 0

Settled(row) == row # None /\ row.status # "pending"

(* "a paid or cancelled record is a fixed historical fact", and so is a    *)
(* voided contribution, unless it changed under a handler that had found   *)
(* it open: the writes themselves check nothing.                           *)
SettledIsFixed ==
  [][/\ \A i \in Payments : Settled(payment[i]) => payment'[i] = payment[i] \/ i \in stale'
     /\ \A i \in Contributions :
          contribution[i] \in Reasons => contribution'[i] = contribution[i] \/ i \in stale']_ledger
=============================================================================
