------------------------------- MODULE Refund -------------------------------
(***************************************************************************)
(* Giving the money of one finalized invoice back: credit notes and the     *)
(* void of the invoice plan refund rows over its payments; each row is      *)
(* credited to the wallet or returned by the gateway that collected it, and *)
(* a gateway refund that fails is replaced by a wallet row.                 *)
(* A transaction that locks the rows it reads is one step.  Planning locks  *)
(* the invoice but not the refund rows it sums up, so it is two; a payment  *)
(* that is reported reads the invoice without a lock and writes every       *)
(* column of its copy back, so it is two as well.                           *)
(***************************************************************************)
EXTENDS Integers, Sequences, FiniteSets, Functions

CONSTANTS
    Procs,          \* goroutines serving requests and webhooks
    Amounts,        \* the payments of the invoice, oldest first: their amounts
    Refundable,     \* those of them a gateway collected
    Unsupported,    \* those whose gateway cannot refund
    Total,          \* the invoice's total
    Prepaid,        \* the credits that were applied to it
    Notes,          \* credit notes
    Void,           \* stands for the void as the reason of a refund
    None            \* no row, no process, no note

Payments == DOMAIN Amounts
Rest == Len(Amounts) + 1        \* the slot of what no payment can cover

(* A row's idempotency key: what planned it, its place there, its attempt.  *)
Refunds == (Notes \cup {Void}) \X (1 .. Rest) \X {1, 2}

ASSUME RefundConstants ==
    /\ Amounts \in Seq(Nat \ {0})
    /\ Unsupported \subseteq Refundable /\ Refundable \subseteq Payments
    /\ Total \in Nat /\ Prepaid \in Nat
    /\ IsFiniteSet(Notes)
    /\ Void \notin Notes
    /\ None \notin Procs \cup Notes \cup {Void} \cup Refunds

RefundStatus == {"PENDING", "PROCESSING", "SUCCEEDED", "FAILED"}
Rows == [status : RefundStatus \cup {"none"}, amount : Nat,
         destination : {"WALLET", "GATEWAY"},
         known : BOOLEAN]       \* the gateway's id of the refund is recorded

NoRow == [status |-> "none", amount |-> 0, destination |-> "WALLET", known |-> FALSE]
NewRow(amount, destination) ==
    [status |-> "PENDING", amount |-> amount, destination |-> destination, known |-> FALSE]

NoNote == [status |-> "none", type |-> "REFUND", amount |-> 0]

Invoices == [status : {"FINALIZED", "VOIDED"},
             payment : {"PENDING", "SUCCEEDED", "OVERPAID", "PARTIALLY_REFUNDED", "REFUNDED"},
             paid : Nat, refunded : Nat, adjusted : Nat]

VARIABLES
    invoice,        \* its status, payment status and amounts
    received,       \* the payments that succeeded
    unreported,     \* those of them the invoice was not yet read for
    copy,           \* the invoice as it was read to count a payment, until written
    notes, rows,    \* credit_notes and refunds
    credited,       \* what each row has put into the wallet
    gateway,        \* what the gateway did with each row's request
    unanswered,     \* requests it accepted whose answer was lost
    lock,           \* who holds the invoice row
    pc, plan,       \* where each process is; what it plans refunds for
    settled,        \* what it found settled, by payment, when it began to plan
    todo, at,       \* the rows it still has to dispatch, and the one at hand
    promised,       \* history: what notes and voids have promised to give back
    overtaken       \* history: a copy was written over a later change

history == <<promised, overtaken>>
reports == <<received, unreported, copy>>
ledger == <<invoice, reports, notes, history>>
outside == <<credited, gateway, unanswered>>
vars == <<invoice, reports, notes, rows, credited, gateway, unanswered,
          lock, pc, plan, settled, todo, at, history>>

Init ==
    /\ invoice = [status |-> "FINALIZED", payment |-> "PENDING",
                  paid |-> 0, refunded |-> 0, adjusted |-> 0]
    /\ received = {} /\ unreported = {}
    /\ copy = [x \in Payments |-> None]
    /\ notes = [n \in Notes |-> NoNote]
    /\ rows = [r \in Refunds |-> NoRow]
    /\ credited = [r \in Refunds |-> 0]
    /\ gateway = [r \in Refunds |-> "none"]
    /\ unanswered = {}
    /\ lock = None
    /\ pc = [p \in Procs |-> "idle"]
    /\ plan = [p \in Procs |-> None]
    /\ settled = [p \in Procs |-> [x \in Payments |-> 0]]
    /\ todo = [p \in Procs |-> {}]
    /\ at = [p \in Procs |-> None]
    /\ promised = 0 /\ overtaken = FALSE

----------------------------------------------------------------------------
(* Payments and credit notes.                                               *)

Positive(a) == IF a \in Nat THEN a ELSE 0
Smaller(a, b) == IF a < b THEN a ELSE b

(* The payment's own row is settled first, whatever became of the invoice.  *)
PaymentSucceeds(x) ==
    /\ x \notin received
    /\ received' = received \cup {x} /\ unreported' = unreported \cup {x}
    /\ UNCHANGED <<invoice, copy, notes, history, rows, outside, lock, pc, plan, settled, todo, at>>

ReadInvoice(x) ==
    /\ x \in unreported
    /\ invoice.status = "FINALIZED" /\ invoice.payment \in {"PENDING", "SUCCEEDED"}
    /\ unreported' = unreported \ {x}
    /\ copy' = [copy EXCEPT ![x] = invoice]
    /\ UNCHANGED <<invoice, received, notes, history, rows, outside, lock, pc, plan, settled, todo, at>>

Reconciled(read, amount) ==
    LET paid == read.paid + amount IN
    [read EXCEPT !.paid = paid,
                 !.payment = IF paid > Total - read.adjusted THEN "OVERPAID" ELSE "SUCCEEDED"]

(* The update waits for whoever holds the row, and for nothing else: the    *)
(* version it read is not compared.  A report that dies writes nothing.     *)
WriteInvoice(x) ==
    /\ copy[x] # None /\ lock = None
    /\ invoice' = Reconciled(copy[x], Amounts[x])
    /\ overtaken' = (overtaken \/ copy[x] # invoice)
    /\ copy' = [copy EXCEPT ![x] = None]
    /\ UNCHANGED <<received, unreported, notes, promised, rows, outside, lock, pc, plan, settled, todo, at>>

NoteType == [PENDING |-> "ADJUSTMENT", SUCCEEDED |-> "REFUND", PARTIALLY_REFUNDED |-> "REFUND"]

MaxCreditable(type) ==
    Positive(IF type = "REFUND" THEN invoice.paid - invoice.refunded
                                ELSE Total - invoice.adjusted - invoice.paid)

CreateCreditNote(n) ==
    /\ lock = None
    /\ notes[n].status = "none"
    /\ invoice.status = "FINALIZED" /\ invoice.payment \in DOMAIN NoteType
    /\ \E amount \in 1 .. MaxCreditable(NoteType[invoice.payment]) :
          notes' = [notes EXCEPT ![n] =
              [status |-> "DRAFT", type |-> NoteType[invoice.payment], amount |-> amount]]
    /\ UNCHANGED <<invoice, reports, history, rows, outside, lock, pc, plan, settled, todo, at>>

WithinCapacity(n) == notes[n].amount <= MaxCreditable(notes[n].type)

FinalizeAdjustment(n) ==
    /\ lock = None
    /\ notes[n].status = "DRAFT" /\ notes[n].type = "ADJUSTMENT"
    /\ WithinCapacity(n)
    /\ notes' = [notes EXCEPT ![n].status = "FINALIZED"]
    /\ LET adjusted == invoice.adjusted + notes[n].amount IN
       invoice' = IF invoice.status # "FINALIZED" THEN invoice
                  ELSE [invoice EXCEPT
                           !.adjusted = adjusted,
                           !.payment = IF Total - adjusted <= invoice.paid THEN "SUCCEEDED" ELSE @]
    /\ UNCHANGED <<reports, history, rows, outside, lock, pc, plan, settled, todo, at>>

(* Voiding a finalized adjustment sums the credit notes up anew.            *)
FinalizedSum(type) ==
    LET counts(n) == notes[n].status = "FINALIZED" /\ notes[n].type = type
    IN  FoldFunction(+, 0, [n \in {k \in Notes : counts(k)} |-> notes[n].amount])

VoidCreditNote(n) ==
    /\ lock = None
    /\ \/ notes[n].status = "DRAFT"
       \/ notes[n].status = "FINALIZED" /\ notes[n].type = "ADJUSTMENT"
    /\ notes' = [notes EXCEPT ![n].status = "VOIDED"]
    /\ LET adjusted == FinalizedSum("ADJUSTMENT") - notes[n].amount
           due == Total - adjusted
       IN  invoice' = IF notes[n].status = "DRAFT" \/ invoice.status # "FINALIZED" THEN invoice
                      ELSE [invoice EXCEPT
                               !.adjusted = adjusted,
                               !.refunded = FinalizedSum("REFUND"),
                               !.payment = IF invoice.paid > due THEN "OVERPAID"
                                           ELSE IF invoice.paid = due THEN "SUCCEEDED" ELSE @]
    /\ UNCHANGED <<reports, history, rows, outside, lock, pc, plan, settled, todo, at>>

----------------------------------------------------------------------------
(* Planning, under the invoice's lock: allocateAcrossPayments.              *)

DrawnFrom(x, statuses) ==
    LET draws(r) == r[2] = x /\ rows[r].status \in statuses
    IN  FoldFunction(+, 0, [r \in {s \in Refunds : draws(s)} |-> rows[r].amount])

Settled == [x \in Payments |-> DrawnFrom(x, {"SUCCEEDED"})]
InFlight == [x \in Payments |-> DrawnFrom(x, {"PENDING", "PROCESSING"})]

BeginPlan(p, reason) ==
    /\ pc[p] = "idle" /\ lock = None
    /\ lock' = p
    /\ plan' = [plan EXCEPT ![p] = reason]
    /\ settled' = [settled EXCEPT ![p] = Settled]
    /\ pc' = [pc EXCEPT ![p] = "plan"]
    /\ UNCHANGED <<ledger, rows, outside, todo, at>>

Forget(p) ==
    /\ plan' = [plan EXCEPT ![p] = None]
    /\ settled' = [settled EXCEPT ![p] = [x \in Payments |-> 0]]

FinalizeCreditNote(p, n) ==
    /\ notes[n].status = "DRAFT" /\ notes[n].type = "REFUND"
    /\ WithinCapacity(n)
    /\ BeginPlan(p, n)

Voidable ==
    /\ invoice.status = "FINALIZED"
    /\ invoice.payment \in {"PENDING", "SUCCEEDED", "PARTIALLY_REFUNDED", "OVERPAID"}

VoidInvoice(p) == Voidable /\ BeginPlan(p, Void)

AllOfIt == invoice.paid + Prepaid                           \* mutant of Unreturned
Unreturned == Positive(invoice.paid + Prepaid - invoice.refunded)

(* What each payment can still give back goes to it, oldest first; what     *)
(* none can cover is a wallet row of its own.                               *)
Capacity(p) ==
    [x \in Payments |-> IF x \in received
                        THEN Positive(Amounts[x] - settled[p][x] - InFlight[x]) ELSE 0]

Before(capacity, x) == FoldFunctionOnSet(+, 0, capacity, 1 .. x - 1)

PaymentsOnly(capacity, amount, x) ==                              \* mutant of Share
    IF x = Rest THEN 0
    ELSE Smaller(capacity[x], Positive(amount - Before(capacity, x)))
Share(capacity, amount, x) ==
    LET rest == Positive(amount - Before(capacity, x))
    IN  IF x = Rest THEN rest ELSE Smaller(capacity[x], rest)

PlannedRows(reason, capacity, amount, toSource) ==
    [r \in Refunds |->
        LET share == Share(capacity, amount, r[2])
        IN  IF r[1] = reason /\ r[3] = 1 /\ share > 0
            THEN NewRow(share, IF toSource /\ r[2] \in Refundable THEN "GATEWAY" ELSE "WALLET")
            ELSE rows[r]]

(* The credit note, its rows and the invoice commit together; the rows are  *)
(* dispatched after that.                                                   *)
CommitCreditNote(p) ==
    /\ pc[p] = "plan" /\ plan[p] \in Notes
    /\ LET n == plan[p]
           refunded == invoice.refunded + notes[n].amount
       IN /\ \E toSource \in BOOLEAN :
                rows' = PlannedRows(n, Capacity(p), notes[n].amount, toSource)
          /\ notes' = [notes EXCEPT ![n].status = "FINALIZED"]
          /\ invoice' = [invoice EXCEPT
                !.refunded = refunded,
                !.payment = IF refunded = invoice.paid THEN "REFUNDED" ELSE "PARTIALLY_REFUNDED"]
          /\ promised' = promised + notes[n].amount
    /\ todo' = [todo EXCEPT ![p] = {r \in Refunds : rows'[r] # rows[r]}]
    /\ lock' = None
    /\ pc' = [pc EXCEPT ![p] = "next"]
    /\ Forget(p)
    /\ UNCHANGED <<reports, overtaken, outside, at>>

(* The idempotency keys of a reason are unique, counted from its first row. *)
Planned(reason) == \E r \in Refunds : r[1] = reason /\ rows[r].status # "none"

(* A void's rows are wallet rows, credited in the same transaction.         *)
CommitVoid(p) ==
    /\ pc[p] = "plan" /\ plan[p] = Void
    /\ Unreturned > 0 => ~Planned(Void)
    /\ LET planned == PlannedRows(Void, Capacity(p), Unreturned, FALSE)
           new == {r \in Refunds : planned[r] # rows[r]}
           refunded == invoice.refunded + Unreturned
       IN /\ rows' = [r \in Refunds |->
                IF r \in new THEN [planned[r] EXCEPT !.status = "SUCCEEDED"] ELSE rows[r]]
          /\ credited' = [r \in Refunds |->
                IF r \in new THEN credited[r] + planned[r].amount ELSE credited[r]]
          /\ invoice' = [invoice EXCEPT
                !.status = "VOIDED",
                !.refunded = refunded,
                !.payment = IF invoice.paid + Prepaid > 0 /\ refunded >= invoice.paid + Prepaid
                            THEN "REFUNDED" ELSE @]
          /\ promised' = promised + Unreturned
    /\ lock' = None
    /\ pc' = [pc EXCEPT ![p] = "idle"]
    /\ Forget(p)
    /\ UNCHANGED <<reports, overtaken, notes, gateway, unanswered, todo, at>>

(* An invoice voided before and written back by a report: the insert of its *)
(* second void's rows conflicts, and the transaction is rolled back.        *)
VoidConflicts(p) ==
    /\ pc[p] = "plan" /\ plan[p] = Void
    /\ Unreturned > 0 /\ Planned(Void)
    /\ lock' = None
    /\ pc' = [pc EXCEPT ![p] = "idle"]
    /\ Forget(p)
    /\ UNCHANGED <<ledger, rows, outside, todo, at>>

----------------------------------------------------------------------------
(* Dispatching the planned rows: one at a time, here in any order.          *)

Open == {"PENDING", "PROCESSING"}

Goto(p, label) == pc' = [pc EXCEPT ![p] = label]

(* The row at hand is done with, by its last statement or by an error.      *)
Leave(p) ==
    /\ at' = [at EXCEPT ![p] = None]
    /\ Goto(p, IF todo[p] = {} THEN "idle" ELSE "next")

Dispatch(p) ==
    /\ pc[p] = "next"
    /\ \E r \in todo[p] :
          /\ todo' = [todo EXCEPT ![p] = @ \ {r}]
          /\ at' = [at EXCEPT ![p] = r]
          /\ Goto(p, IF rows[r].destination = "WALLET" THEN "wallet" ELSE "claim")
    /\ UNCHANGED <<ledger, rows, outside, lock, plan, settled>>

NotFailed(r) == rows[r].status # "FAILED"                       \* mutant of MaySettle
MaySettle(r) == rows[r].status \in Open

(* Under the invoice's and the row's lock; credit and status together.      *)
SettleToWallet(p) ==
    /\ pc[p] = "wallet" /\ lock = None
    /\ LET r == at[p] IN
       IF MaySettle(r)
       THEN /\ rows' = [rows EXCEPT ![r].status = "SUCCEEDED"]
            /\ credited' = [credited EXCEPT ![r] = @ + rows[r].amount]
       ELSE UNCHANGED <<rows, credited>>
    /\ Leave(p)
    /\ UNCHANGED <<ledger, gateway, unanswered, lock, plan, settled, todo>>

Claimable(r) == rows[r].status = "PENDING"

(* A gateway without refunds fails the row before it is claimed.            *)
NotSupported(p) ==
    /\ pc[p] = "claim" /\ at[p][2] \in Unsupported
    /\ Goto(p, "fail")
    /\ UNCHANGED <<ledger, rows, outside, lock, plan, settled, todo, at>>

ClaimForGateway(p) ==
    /\ pc[p] = "claim" /\ at[p][2] \notin Unsupported
    /\ IF Claimable(at[p])
       THEN /\ rows' = [rows EXCEPT ![at[p]].status = "PROCESSING"]
            /\ Goto(p, "call") /\ UNCHANGED at
       ELSE Leave(p) /\ UNCHANGED rows
    /\ UNCHANGED <<ledger, outside, lock, plan, settled, todo>>

RawStatuses == {[does |-> "processed", next |-> "settle"]}        \* mutant of Answers
(* The gateway refuses, pays, accepts, or accepts and its answer is lost.   *)
Answers ==
    {[does |-> "failed", next |-> "fail"], [does |-> "paid", next |-> "settle"],
     [does |-> "accepted", next |-> "accept"], [does |-> "accepted", next |-> "fail"]}

RefundPayment(p) ==
    /\ pc[p] = "call"
    /\ \E answer \in Answers :
          /\ gateway' = [gateway EXCEPT ![at[p]] = answer.does]
          /\ unanswered' = IF answer = [does |-> "accepted", next |-> "fail"]
                           THEN unanswered \cup {at[p]} ELSE unanswered
          /\ Goto(p, answer.next)
    /\ UNCHANGED <<ledger, rows, credited, lock, plan, settled, todo, at>>

RecordGatewayAcceptance(p) ==
    /\ pc[p] = "accept"
    /\ rows' = [rows EXCEPT ![at[p]].known = @ \/ rows[at[p]].status \in Open]
    /\ Leave(p)
    /\ UNCHANGED <<ledger, outside, lock, plan, settled, todo>>

Settle(p) ==
    /\ pc[p] = "settle"
    /\ rows' = IF MaySettle(at[p])
               THEN [rows EXCEPT ![at[p]].status = "SUCCEEDED", ![at[p]].known = TRUE]
               ELSE rows
    /\ Leave(p)
    /\ UNCHANGED <<ledger, outside, lock, plan, settled, todo>>

MayFail(r) == rows[r].status \in Open

Fail(p) ==
    /\ pc[p] = "fail"
    /\ IF MayFail(at[p])
       THEN /\ rows' = [rows EXCEPT ![at[p]].status = "FAILED"]
            /\ Goto(p, "fallback") /\ UNCHANGED at
       ELSE Leave(p) /\ UNCHANGED rows
    /\ UNCHANGED <<ledger, outside, lock, plan, settled, todo>>

Fallback(r) == <<r[1], r[2], 2>>

AlwaysMint(r) == TRUE                                            \* mutant of NotReplaced
NotReplaced(r) == rows[Fallback(r)].status = "none"

(* The wallet row that replaces a failed gateway refund, minted once.       *)
RefundToWallet(p) ==
    /\ pc[p] = "fallback"
    /\ LET r == at[p] IN
       /\ rows' = IF NotReplaced(r)
                  THEN [rows EXCEPT ![Fallback(r)] = NewRow(rows[r].amount, "WALLET")]
                  ELSE rows
       /\ at' = [at EXCEPT ![p] = Fallback(r)]
       /\ Goto(p, "wallet")
    /\ UNCHANGED <<ledger, outside, lock, plan, settled, todo>>

(* An error, which the loop over the rows survives, or a crash.             *)
Fails(p) ==
    /\ at[p] # None
    /\ Leave(p)
    /\ UNCHANGED <<ledger, rows, outside, lock, plan, settled, todo>>

Crash(p) ==
    /\ pc[p] # "idle"
    /\ Goto(p, "idle")
    /\ at' = [at EXCEPT ![p] = None]
    /\ Forget(p)
    /\ todo' = [todo EXCEPT ![p] = {}]
    /\ lock' = IF lock = p THEN None ELSE lock
    /\ UNCHANGED <<ledger, rows, outside>>

----------------------------------------------------------------------------
(* What starts work on one row: an operator's retry, a gateway's webhook.   *)

StartWith(p, r, label) ==
    /\ pc[p] = "idle"
    /\ at' = [at EXCEPT ![p] = r]
    /\ Goto(p, label)
    /\ UNCHANGED <<ledger, rows, outside, lock, plan, settled, todo>>

RetryRefund(p, r) ==
    \/ rows[r].status = "PENDING"
       /\ StartWith(p, r, IF rows[r].destination = "WALLET" THEN "wallet" ELSE "claim")
    \/ rows[r].status = "FAILED" /\ StartWith(p, r, "fallback")

(* A webhook finds its row by the gateway's id, or is dropped; it may come  *)
(* any number of times.                                                     *)
Webhook(p, r) ==
    /\ rows[r].known
    /\ \/ gateway[r] = "paid" /\ StartWith(p, r, "settle")
       \/ gateway[r] = "failed" /\ StartWith(p, r, "fail")

GatewayDecides(r) ==
    /\ gateway[r] = "accepted"
    /\ \E outcome \in {"paid", "failed"} : gateway' = [gateway EXCEPT ![r] = outcome]
    /\ UNCHANGED <<ledger, rows, credited, unanswered, lock, pc, plan, settled, todo, at>>

Plans(p) ==
    \/ \E n \in Notes : FinalizeCreditNote(p, n)
    \/ VoidInvoice(p) \/ CommitCreditNote(p) \/ CommitVoid(p) \/ VoidConflicts(p)

Works(p) ==
    \/ Dispatch(p)
    \/ SettleToWallet(p) \/ ClaimForGateway(p) \/ NotSupported(p) \/ RefundPayment(p)
    \/ RecordGatewayAcceptance(p) \/ Settle(p) \/ Fail(p) \/ RefundToWallet(p)
    \/ Fails(p) \/ Crash(p)

Next ==
    \/ \E x \in Payments : PaymentSucceeds(x) \/ ReadInvoice(x) \/ WriteInvoice(x)
    \/ \E n \in Notes : CreateCreditNote(n) \/ FinalizeAdjustment(n) \/ VoidCreditNote(n)
    \/ \E p \in Procs : Plans(p) \/ Works(p)
    \/ \E p \in Procs, r \in Refunds : RetryRefund(p, r) \/ Webhook(p, r)
    \/ \E r \in Refunds : GatewayDecides(r)

Spec == Init /\ [][Next]_vars

----------------------------------------------------------------------------
TypeOK ==
    /\ invoice \in Invoices
    /\ unreported \subseteq received /\ received \subseteq Payments
    /\ copy \in [Payments -> Invoices \cup {None}]
    /\ notes \in [Notes -> [status : {"none", "DRAFT", "FINALIZED", "VOIDED"},
                            type : {"REFUND", "ADJUSTMENT"}, amount : Nat]]
    /\ rows \in [Refunds -> Rows]
    /\ credited \in [Refunds -> Nat]
    /\ gateway \in [Refunds -> {"none", "accepted", "paid", "failed"}]
    /\ unanswered \subseteq Refunds
    /\ lock \in Procs \cup {None}
    /\ pc \in [Procs -> {"idle", "plan", "next", "wallet", "claim", "call",
                         "accept", "settle", "fail", "fallback"}]
    /\ plan \in [Procs -> Notes \cup {Void, None}]
    /\ settled \in [Procs -> [Payments -> Nat]]
    /\ todo \in [Procs -> SUBSET Refunds]
    /\ at \in [Procs -> Refunds \cup {None}]
    /\ promised \in Nat /\ overtaken \in BOOLEAN

Replaced(r) == r[3] = 1 /\ rows[Fallback(r)].status # "none"

DueInTotal == FoldFunction(+, 0, [r \in {s \in Refunds : ~Replaced(s)} |-> rows[r].amount])

(* What the notes and voids of an invoice promised is, at every commit,     *)
(* what its rows have returned, are returning, or failed to return and      *)
(* still owe: no path through planning, failure, fallback and voids drops   *)
(* money or plans it twice, not even after a report has brought a voided    *)
(* invoice back (CommitCreditNote, CommitVoid, RefundToWallet).             *)
PromisedIsDue == promised = DueInTotal

(* As long as no report has written an old copy over a note or a void, the  *)
(* invoice's refunded amount is what they promised, and it stays within     *)
(* what the invoice was given (CommitCreditNote, CommitVoid,                *)
(* VoidCreditNote, WriteInvoice).                                           *)
RefundedIsPromised ==
    ~overtaken => invoice.refunded = promised /\ promised <= invoice.paid + Prepaid

(* However payments, notes and voids interleave, no more is planned to go   *)
(* back than payments and credits have brought: "voiding must not credit    *)
(* more than the total value provided for the invoice".  Violated:          *)
(* ReconcilePaymentStatus resets the refunded amount (WriteInvoice).        *)
RefundsAreFunded ==
    DueInTotal <= Prepaid + FoldFunctionOnSet(+, 0, Amounts, received)

(* A refund's status tells where the money is, whatever webhooks, retries   *)
(* and crashes came together: it succeeded only if the wallet or the        *)
(* gateway has paid it, once and in full, and one that failed is paid by    *)
(* nobody else than its fallback, but for requests the gateway accepted     *)
(* and whose answer was lost (Settle, Fail, RefundToWallet).                *)
StatusTellsWhoPaid ==
    \A r \in Refunds :
        /\ rows[r].status = "SUCCEEDED" =>
              IF rows[r].destination = "WALLET" THEN credited[r] = rows[r].amount
                                                ELSE gateway[r] = "paid"
        /\ rows[r].status # "SUCCEEDED" => credited[r] = 0
        /\ rows[r].status = "FAILED" => gateway[r] \in {"none", "failed"} \/ r \in unanswered

Paid(r) == credited[r] + IF gateway[r] = "paid" /\ r \notin unanswered THEN rows[r].amount ELSE 0

Returned == FoldFunction(+, 0, [r \in Refunds |-> Paid(r)])

Promise == INSTANCE RefundPromise WITH returned <- Returned

(* The customer gets back no more than credit notes and voids promised,     *)
(* counting what wallets and gateways pay but for the requests whose answer *)
(* was lost, and no promise is ever taken back.                             *)
ImplementsPromise == Promise!Spec
=============================================================================
