--------------------------- MODULE InvoicePayment ---------------------------
(***************************************************************************)
(* Settling the invoice of a credit purchase: gateway webhooks, payments    *)
(* processed by the service itself, operators marking the invoice, voiding  *)
(* it, and the purchased credits that follow its outcome.                   *)
(* Operations that hold the invoice row (SELECT ... FOR UPDATE) from their  *)
(* first read to their commit are one step; the others read the row, work   *)
(* on their copy and write every column of it back.  No checkout session,   *)
(* event deletion or credit note is about: their gates are open.            *)
(***************************************************************************)
EXTENDS Integers, FiniteSets, Functions

CONSTANTS
    Procs,          \* goroutines serving requests and webhooks
    Gateway,        \* payments an external gateway collects and reports on
    Direct,         \* payments ProcessPayment settles: offline, from credits
    AmountOf,       \* the amount of each payment
    Due,            \* the invoice's amount due
    Free            \* nobody holds the row

Payments == Gateway \cup Direct

ASSUME InvoicePaymentConstants ==
    /\ Gateway \cap Direct = {} /\ IsFiniteSet(Payments)
    /\ Free \notin Procs
    /\ Due \in Nat \ {0}
    /\ AmountOf \in [Payments -> Nat \ {0}]

PaymentStatus == {"INITIATED", "PENDING", "PROCESSING", "SUCCEEDED", "FAILED"}

(* The amount remaining is always the rest of the amount due, or zero.      *)
Rows == [status : {"DRAFT", "FINALIZED", "VOIDED"},
         payment : {"PENDING", "SUCCEEDED", "OVERPAID", "FAILED", "REFUNDED"},
         paid : Nat, refunded : Nat, paidAt : BOOLEAN, voidedAt : BOOLEAN]

NewRow == [status |-> "DRAFT", payment |-> "PENDING", paid |-> 0, refunded |-> 0,
           paidAt |-> FALSE, voidedAt |-> FALSE]

Jobs == [op : {"confirm", "succeed", "fail"}, id : Gateway]
        \cup [op : {"process"}, id : Direct]

VARIABLES
    invoice,        \* the committed row
    payments,       \* the committed status of each payment, "none" before it exists
    purchase,       \* the wallet's pending transaction that the invoice is for
    rowLock,        \* who holds the invoice row
    pc, job,        \* where each process is, and its request
    observed,       \* the payment status UpdatePayment read
    row,            \* the process's copy of the invoice
    counted,        \* history: how often a gateway payment was added to the invoice
    wasPaid         \* history: the invoice was once written as paid

vars == <<invoice, payments, purchase, rowLock, pc, job, observed, row, counted, wasPaid>>

NoJob == [op |-> "none", id |-> Free]
Mark == [op |-> "mark", id |-> Free]
Void == [op |-> "void", id |-> Free]

TypeOK ==
    /\ invoice \in Rows
    /\ payments \in [Payments -> PaymentStatus \cup {"none"}]
    /\ purchase \in {"PENDING", "COMPLETED", "FAILED"}
    /\ rowLock \in Procs \cup {Free}
    /\ pc \in [Procs -> {"idle", "look", "update", "swap", "start", "charge",
                         "read", "list", "write", "complete", "fail"}]
    /\ job \in [Procs -> Jobs \cup {NoJob, Mark, Void}]
    /\ observed \in [Procs -> PaymentStatus \cup {"none"}]
    /\ row \in [Procs -> Rows]
    /\ counted \in [Gateway -> Nat]
    /\ wasPaid \in BOOLEAN

Init ==
    /\ invoice = NewRow
    /\ payments = [x \in Payments |-> "none"]
    /\ purchase = "PENDING"
    /\ rowLock = Free
    /\ pc = [p \in Procs |-> "idle"]
    /\ job = [p \in Procs |-> NoJob]
    /\ observed = [p \in Procs |-> "none"]
    /\ row = [p \in Procs |-> NewRow]
    /\ counted = [x \in Gateway |-> 0]
    /\ wasPaid = FALSE

----------------------------------------------------------------------------
Goto(p, label) == pc' = [pc EXCEPT ![p] = label]

(* A request ends, by its last statement, by an error or by a crash; a      *)
(* transaction it had open is rolled back.                                  *)
Finish(p) ==
    /\ Goto(p, "idle")
    /\ job' = [job EXCEPT ![p] = NoJob]
    /\ observed' = [observed EXCEPT ![p] = "none"]
    /\ row' = [row EXCEPT ![p] = NewRow]
    /\ rowLock' = IF rowLock = p THEN Free ELSE rowLock

(* A payment is recorded while the invoice still wants one.                 *)
CreatePayment(x) ==
    /\ payments[x] = "none"
    /\ invoice.payment # "SUCCEEDED" /\ invoice.status # "VOIDED"
    /\ payments' = [payments EXCEPT ![x] = IF x \in Gateway THEN "INITIATED" ELSE "PENDING"]
    /\ UNCHANGED <<invoice, purchase, rowLock, pc, job, observed, row, counted, wasPaid>>

Start(p, j) ==
    /\ pc[p] = "idle"
    /\ payments[j.id] # "none"
    /\ job' = [job EXCEPT ![p] = j]
    /\ Goto(p, "look")
    /\ UNCHANGED <<invoice, payments, purchase, rowLock, observed, row, counted, wasPaid>>

----------------------------------------------------------------------------
(* A gateway's report: RecordPaymentSuccess, RecordPaymentFailure and        *)
(* ConfirmGatewayPayment look at the payment, then UpdatePayment reads it   *)
(* again and writes it only if its status is still the one it read.         *)

Target == [confirm |-> "PENDING", succeed |-> "SUCCEEDED", fail |-> "FAILED"]

Open == {"INITIATED", "PENDING", "PROCESSING"}

(* Deliveries that are not ignored or refused at the first look.            *)
Wanted == [confirm |-> {"INITIATED"}, succeed |-> Open,
           fail |-> Open \cup {"SUCCEEDED"}, process |-> {"PENDING"}]

Look(p) ==
    /\ pc[p] = "look"
    /\ payments[job[p].id] \in Wanted[job[p].op]
    /\ Goto(p, IF job[p].op = "process" THEN "start" ELSE "update")
    /\ UNCHANGED <<invoice, payments, purchase, rowLock, job, observed, row, counted, wasPaid>>

AnyStatus == [s \in PaymentStatus |-> PaymentStatus]                \* mutant of Transitions
(* paymentStatusTransitions, for the statuses a payment of an invoice has.  *)
Transitions ==
    [INITIATED  |-> PaymentStatus,
     PENDING    |-> PaymentStatus \ {"INITIATED"},
     PROCESSING |-> {"PROCESSING", "SUCCEEDED", "FAILED"},
     SUCCEEDED  |-> {"SUCCEEDED"},
     FAILED     |-> {"FAILED"}]

ReadPayment(p) ==
    /\ pc[p] = "update"
    /\ Target[job[p].op] \in Transitions[payments[job[p].id]]
    /\ observed' = [observed EXCEPT ![p] = payments[job[p].id]]
    /\ Goto(p, "swap")
    /\ UNCHANGED <<invoice, payments, purchase, rowLock, job, row, counted, wasPaid>>

AnyObserved(p) == TRUE                                         \* mutant of StillObserved
StillObserved(p) == payments[job[p].id] = observed[p]

UpdateWithExpectedStatus(p) ==
    /\ pc[p] = "swap"
    /\ StillObserved(p)
    /\ payments' = [payments EXCEPT ![job[p].id] = Target[job[p].op]]
    /\ IF job[p].op = "succeed"
       THEN Goto(p, "read") /\ UNCHANGED <<rowLock, job, observed, row>>
       ELSE Finish(p)
    /\ UNCHANGED <<invoice, purchase, counted, wasPaid>>

----------------------------------------------------------------------------
(* ProcessPayment takes no lock on the payment and writes it                *)
(* unconditionally.                                                         *)

StartProcessing(p) ==
    /\ pc[p] = "start"
    /\ rowLock = Free
    /\ payments' = [payments EXCEPT ![job[p].id] = "PROCESSING"]
    /\ Goto(p, "charge")
    /\ UNCHANGED <<invoice, purchase, rowLock, job, observed, row, counted, wasPaid>>

ChargeSucceeds(p) ==
    /\ pc[p] = "charge"
    /\ payments' = [payments EXCEPT ![job[p].id] = "SUCCEEDED"]
    /\ Goto(p, "read")
    /\ UNCHANGED <<invoice, purchase, rowLock, job, observed, row, counted, wasPaid>>

ChargeFails(p) ==
    /\ pc[p] = "charge"
    /\ payments' = [payments EXCEPT ![job[p].id] = "FAILED"]
    /\ Finish(p)
    /\ UNCHANGED <<invoice, purchase, counted, wasPaid>>

----------------------------------------------------------------------------
(* The invoice follows its payments.                                        *)

MayBecome ==
    [PENDING   |-> {"PENDING", "SUCCEEDED", "OVERPAID", "FAILED"},
     SUCCEEDED |-> {"SUCCEEDED", "OVERPAID"},
     OVERPAID  |-> {"OVERPAID"},
     FAILED    |-> {"PENDING", "FAILED", "SUCCEEDED", "OVERPAID"},
     REFUNDED  |-> {}]

AcceptsPayment(r) == r.status \in {"DRAFT", "FINALIZED"}

(* A reported payment is added to what is paid; even a partial one marks    *)
(* the invoice as succeeded.                                                *)
Reconciled(r, amount) ==
    [r EXCEPT !.paid = @ + amount,
              !.payment = IF r.paid + amount > Due THEN "OVERPAID" ELSE "SUCCEEDED",
              !.paidAt = TRUE]

ReadInvoiceToReconcile(p) ==
    /\ pc[p] = "read" /\ job[p].op = "succeed"
    /\ AcceptsPayment(invoice)
    /\ "SUCCEEDED" \in MayBecome[invoice.payment]
    /\ row' = [row EXCEPT ![p] = Reconciled(invoice, AmountOf[job[p].id])]
    /\ Goto(p, "write")
    /\ UNCHANGED <<invoice, payments, purchase, rowLock, job, observed, counted, wasPaid>>

(* A processed payment has the paid amount summed up anew from all that     *)
(* succeeded, whatever the invoice's status.                                *)
ReadInvoiceToSettle(p) ==
    /\ pc[p] = "read" /\ job[p].op = "process"
    /\ row' = [row EXCEPT ![p] = invoice]
    /\ Goto(p, "list")
    /\ UNCHANGED <<invoice, payments, purchase, rowLock, job, observed, counted, wasPaid>>

TotalPaid ==
    FoldFunction(+, 0, [x \in {y \in Payments : payments[y] = "SUCCEEDED"} |-> AmountOf[x]])

PaidInFull(r, total) ==
    [r EXCEPT !.paid = total, !.payment = "SUCCEEDED",
              !.status = IF @ = "DRAFT" THEN "FINALIZED" ELSE @,
              !.paidAt = @ \/ total = Due]

PaidInPart(r, total) ==
    [r EXCEPT !.paid = total, !.payment = IF total > 0 THEN "PENDING" ELSE @]

ListPayments(p) ==
    /\ pc[p] = "list"
    /\ row' = [row EXCEPT ![p] = IF TotalPaid >= Due THEN PaidInFull(@, TotalPaid)
                                                     ELSE PaidInPart(@, TotalPaid)]
    /\ Goto(p, "write")
    /\ UNCHANGED <<invoice, payments, purchase, rowLock, job, observed, counted, wasPaid>>

(* What an operator may write: UpdatePaymentStatus for each status.         *)
MarkedRows(r) ==
    {[r EXCEPT !.payment = "PENDING", !.paid = amount] : amount \in 0 .. Due}
    \cup {[r EXCEPT !.payment = "SUCCEEDED", !.paid = Due, !.paidAt = TRUE],
          [r EXCEPT !.payment = "FAILED", !.paid = 0, !.paidAt = FALSE]}
    \cup {s \in {[r EXCEPT !.payment = "OVERPAID"]} : s.paid >= Due}

(* Under the row lock, but the payments are listed outside the transaction. *)
MarkInvoice(p) ==
    /\ pc[p] = "idle"
    /\ rowLock = Free
    /\ AcceptsPayment(invoice)
    /\ \A x \in Payments : payments[x] # "SUCCEEDED"
    /\ \E r \in MarkedRows(invoice) :
          /\ r.payment \in MayBecome[invoice.payment]
          /\ row' = [row EXCEPT ![p] = r]
    /\ job' = [job EXCEPT ![p] = Mark]
    /\ rowLock' = p
    /\ Goto(p, "write")
    /\ UNCHANGED <<invoice, payments, purchase, observed, counted, wasPaid>>

AnyOutcome(p) == TRUE                                            \* mutant of EarnsCredits
EarnsCredits(p) == job[p].op = "succeed" \/ row[p].payment = "SUCCEEDED"

(* Every column is written, with no check of the version; only timestamps   *)
(* the copy does not have are kept.                                         *)
WriteInvoice(p) ==
    /\ pc[p] = "write"
    /\ rowLock \in {Free, p}
    /\ invoice' = [row[p] EXCEPT !.paidAt = @ \/ invoice.paidAt,
                                 !.voidedAt = @ \/ invoice.voidedAt]
    /\ counted' = [x \in Gateway |-> IF job[p] = [op |-> "succeed", id |-> x]
                                     THEN counted[x] + 1 ELSE counted[x]]
    /\ wasPaid' = (wasPaid \/ row[p].payment \in {"SUCCEEDED", "OVERPAID"})
    /\ IF EarnsCredits(p)
       THEN /\ Goto(p, "complete")
            /\ rowLock' = Free
            /\ UNCHANGED <<job, observed, row>>
       ELSE Finish(p)
    /\ UNCHANGED <<payments, purchase>>

(* After the commit: the wallet's pending transaction, if it still is.      *)
CompletePurchase(p) ==
    /\ pc[p] = "complete"
    /\ purchase' = IF purchase = "PENDING" THEN "COMPLETED" ELSE purchase
    /\ Finish(p)
    /\ UNCHANGED <<invoice, payments, counted, wasPaid>>

----------------------------------------------------------------------------
FinalizeInvoice ==
    /\ rowLock = Free
    /\ invoice.status = "DRAFT"
    /\ invoice' = [invoice EXCEPT !.status = "FINALIZED"]
    /\ UNCHANGED <<payments, purchase, rowLock, pc, job, observed, row, counted, wasPaid>>

Voidable(r) ==
    /\ r.status \in {"DRAFT", "FINALIZED"}
    /\ r.payment \in {"PENDING", "FAILED", "SUCCEEDED", "OVERPAID"}

VoidedWithPayment(r) ==                                               \* mutant of Voided
    [r EXCEPT !.status = "VOIDED", !.voidedAt = TRUE, !.payment = "VOIDED"]

(* What was paid and not yet returned goes to the wallet.                   *)
Voided(r) ==
    LET returned == IF r.refunded > r.paid THEN r.refunded ELSE r.paid
    IN  [r EXCEPT !.status = "VOIDED", !.voidedAt = TRUE, !.refunded = returned,
                  !.payment = IF r.paid > 0 THEN "REFUNDED" ELSE @]

VoidInvoice(p) ==
    /\ pc[p] = "idle"
    /\ rowLock = Free
    /\ Voidable(invoice)
    /\ invoice' = Voided(invoice)
    /\ job' = [job EXCEPT ![p] = Void]
    /\ Goto(p, "fail")
    /\ UNCHANGED <<payments, purchase, rowLock, observed, row, counted, wasPaid>>

(* A voided invoice will never be paid: its purchase must not stay pending. *)
FailPurchase(p) ==
    /\ pc[p] = "fail"
    /\ purchase' = IF purchase = "PENDING" THEN "FAILED" ELSE purchase
    /\ Finish(p)
    /\ UNCHANGED <<invoice, payments, counted, wasPaid>>

(* An error, a refused step, a crash.                                       *)
Stop(p) ==
    /\ pc[p] # "idle"
    /\ Finish(p)
    /\ UNCHANGED <<invoice, payments, purchase, counted, wasPaid>>

Proceed(p) ==
    \/ Look(p) \/ ReadPayment(p) \/ UpdateWithExpectedStatus(p)
    \/ StartProcessing(p) \/ ChargeSucceeds(p) \/ ChargeFails(p)
    \/ ReadInvoiceToReconcile(p) \/ ReadInvoiceToSettle(p) \/ ListPayments(p)
    \/ MarkInvoice(p) \/ WriteInvoice(p) \/ CompletePurchase(p)
    \/ VoidInvoice(p) \/ FailPurchase(p)
    \/ Stop(p)

Next ==
    \/ \E x \in Payments : CreatePayment(x)
    \/ \E p \in Procs : (\E j \in Jobs : Start(p, j)) \/ Proceed(p)
    \/ FinalizeInvoice

Spec == Init /\ [][Next]_vars

----------------------------------------------------------------------------
(* A gateway's late, repeated or contradictory reports do not change how a  *)
(* payment ended, whichever arrive together (UpdateWithExpectedStatus).     *)
PaymentKeepsOutcome ==
    [][\A x \in Gateway :
        payments[x] \in {"SUCCEEDED", "FAILED"} => payments'[x] = payments[x]]_vars

(* An invoice is never paid by a payment that is not recorded as succeeded: *)
(* no failure report slips in between the payment and the invoice           *)
(* (RecordPaymentSuccess, then ReconcilePaymentStatus).                      *)
OnlySucceededPaymentsCount ==
    \A x \in Gateway : counted[x] > 0 => payments[x] = "SUCCEEDED"

(* Whoever overwrites whom, purchased credits are handed out only after the *)
(* invoice was written as paid, and given up only after it was voided: the  *)
(* date of the void survives every overwrite                                *)
(* (completing and failing the purchase after the invoice's commit).        *)
PurchaseFollowsInvoice ==
    /\ purchase = "COMPLETED" => wasPaid
    /\ purchase = "FAILED" => invoice.voidedAt

(* "Idempotent: if the payment is already SUCCEEDED, logs and returns nil": *)
(* a success that is reported twice is added to the invoice once            *)
(* (RecordPaymentSuccess).                                                   *)
PaymentCountedOnce == \A x \in Gateway : counted[x] <= 1
=============================================================================
