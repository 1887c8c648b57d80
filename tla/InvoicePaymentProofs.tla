------------------------ MODULE InvoicePaymentProofs -------------------------
(* What holds of an invoice's gateway payments for any number of processes   *)
(* and payments: the comparison of UpdateWithExpectedStatus makes the        *)
(* unlocked read before it safe, and the amounts counted keep their types.   *)
EXTENDS InvoicePayment, SumTheorems, TLAPS

USE InvoicePaymentConstants

GatewayJobs == [op : {"confirm", "succeed", "fail"}, id : Gateway]
DirectJobs == [op : {"process"}, id : Direct]

(* The requests and payment statuses the proofs rely on.                    *)
RequestsOK ==
    /\ payments \in [Payments -> PaymentStatus \cup {"none"}]
    /\ pc \in [Procs -> {"idle", "look", "update", "swap", "start", "charge",
                         "read", "list", "write", "complete", "fail"}]
    /\ job \in [Procs -> Jobs \cup {NoJob, Mark, Void}]
    /\ observed \in [Procs -> PaymentStatus \cup {"none"}]
    /\ counted \in [Gateway -> Nat]

(* Where a process is tells what its request is and what it has found out.  *)
KnownAt(p) ==
    /\ pc[p] = "look" => job[p] \in Jobs
    /\ pc[p] \in {"update", "swap"} => job[p] \in GatewayJobs
    /\ pc[p] \in {"start", "charge"} => job[p] \in DirectJobs
    /\ pc[p] \in {"look", "update", "swap"} => payments[job[p].id] # "none"
    /\ pc[p] = "swap" => observed[p] # "none" /\ Target[job[p].op] \in Transitions[observed[p]]
    /\ pc[p] \in {"read", "list", "write"} /\ job[p].op = "succeed" =>
          payments[job[p].id] = "SUCCEEDED"

ReportInv == RequestsOK /\ (\A p \in Procs : KnownAt(p)) /\ OnlySucceededPaymentsCount

Outcomes == {"SUCCEEDED", "FAILED"}
Keeps == \A x \in Gateway : payments[x] \in Outcomes => payments'[x] = payments[x]
(* No payment is forgotten, and no outcome changes.                         *)
Forward ==
    /\ Keeps
    /\ \A x \in Payments : payments[x] # "none" => payments'[x] # "none"

LEMMA ReportInvInit == Init => ReportInv
BY DEF Init, ReportInv, RequestsOK, KnownAt, OnlySucceededPaymentsCount, Jobs, NoJob

(* What a process knows stays true while others move payments forward.      *)
LEMMA OthersKeepKnowledge ==
    ASSUME ReportInv, NEW q \in Procs, Forward,
           pc'[q] = pc[q], job'[q] = job[q], observed'[q] = observed[q]
    PROVE  KnownAt(q)'
<1>. USE DEF ReportInv, RequestsOK, KnownAt, Forward, Keeps, Outcomes
<1>1. pc[q] \in {"look", "update", "swap"} => job[q] \in Jobs /\ job[q].id \in Payments
  BY DEF Jobs, GatewayJobs, Payments
<1>2. job[q].op = "succeed" => job[q].id \in Gateway
  BY DEF Jobs, NoJob, Mark, Void
<1>3. pc[q] \in {"look", "update", "swap"} => payments'[job[q].id] # "none"
  BY <1>1
<1>4. pc[q] \in {"read", "list", "write"} /\ job[q].op = "succeed" => payments'[job[q].id] = "SUCCEEDED"
  BY <1>2
<1>. QED
  BY <1>3, <1>4

LEMMA UnchangedIsForward == ASSUME UNCHANGED payments PROVE Forward
BY DEF Forward, Keeps

(* Requests between reports: the payments do not move.                      *)
LEMMA FinishStep ==
    ASSUME ReportInv, NEW p \in Procs, Finish(p), Forward,
           payments' \in [Payments -> PaymentStatus \cup {"none"}], UNCHANGED counted
    PROVE  ReportInv'
<1>1. RequestsOK'
  BY DEF ReportInv, RequestsOK, Finish, Goto
<1>2. ASSUME NEW q \in Procs PROVE KnownAt(q)'
  <2>1. CASE q = p
    BY <2>1 DEF KnownAt, Finish, Goto, ReportInv, RequestsOK
  <2>2. CASE q # p
    <3>1. pc'[q] = pc[q] /\ job'[q] = job[q] /\ observed'[q] = observed[q]
      BY <2>2 DEF Finish, Goto, ReportInv, RequestsOK
    <3>. QED
      BY <3>1, OthersKeepKnowledge
  <2>. QED
    BY <2>1, <2>2
<1>3. OnlySucceededPaymentsCount'
  BY DEF ReportInv, OnlySucceededPaymentsCount, Forward, Keeps, Outcomes
<1>. QED
  BY <1>1, <1>2, <1>3 DEF ReportInv

(* A step of process p that keeps the payments moving forward and leaves p  *)
(* knowing what its new place asks for.                                     *)
LEMMA MoveStep ==
    ASSUME ReportInv, NEW p \in Procs, Forward, RequestsOK', KnownAt(p)',
           \A q \in Procs \ {p} :
               pc'[q] = pc[q] /\ job'[q] = job[q] /\ observed'[q] = observed[q],
           \A x \in Gateway : counted'[x] > 0 => payments'[x] = "SUCCEEDED"
    PROVE  ReportInv'
<1>1. ASSUME NEW q \in Procs PROVE KnownAt(q)'
  <2>1. CASE q = p
    BY <2>1
  <2>2. CASE q # p
    BY <2>2, OthersKeepKnowledge
  <2>. QED
    BY <2>1, <2>2
<1>. QED
  BY <1>1 DEF ReportInv, OnlySucceededPaymentsCount

(* The comparison: a report is written over a status it may follow.         *)
LEMMA SwapIsForward ==
    ASSUME ReportInv, NEW p \in Procs, UpdateWithExpectedStatus(p)
    PROVE  Forward
<1>. DEFINE x == job[p].id
<1>1. job[p] \in GatewayJobs /\ x \in Gateway /\ x \in Payments
  BY DEF ReportInv, KnownAt, UpdateWithExpectedStatus, GatewayJobs, Payments
<1>2. Target[job[p].op] \in Transitions[payments[x]] /\ payments[x] \in PaymentStatus
  BY <1>1 DEF ReportInv, RequestsOK, KnownAt, UpdateWithExpectedStatus, StillObserved
<1>3. payments[x] \in Outcomes => Target[job[p].op] = payments[x]
  BY <1>2 DEF Transitions, Outcomes, PaymentStatus
<1>4. Target[job[p].op] \in PaymentStatus
  BY <1>1 DEF Target, GatewayJobs, PaymentStatus
<1>5. payments' = [payments EXCEPT ![x] = Target[job[p].op]]
  BY DEF UpdateWithExpectedStatus
<1>6. "none" \notin PaymentStatus
  BY DEF PaymentStatus
<1>. QED
  BY <1>1, <1>3, <1>4, <1>5, <1>6 DEF Forward, Keeps, ReportInv, RequestsOK

----------------------------------------------------------------------------
LEMMA SwapKeepsReportInv ==
    ASSUME ReportInv, NEW p \in Procs, UpdateWithExpectedStatus(p)
    PROVE  ReportInv'
<1>. DEFINE x == job[p].id
<1>1. Forward
  BY SwapIsForward
<1>2. job[p] \in GatewayJobs /\ x \in Payments
  BY DEF ReportInv, KnownAt, UpdateWithExpectedStatus, GatewayJobs, Payments
<1>3. payments' = [payments EXCEPT ![x] = Target[job[p].op]]
  BY DEF UpdateWithExpectedStatus
<1>4. payments' \in [Payments -> PaymentStatus \cup {"none"}] /\ payments'[x] = Target[job[p].op]
  <2>1. Target[job[p].op] \in PaymentStatus
    BY <1>2 DEF Target, GatewayJobs, PaymentStatus
  <2>. QED
    BY <1>2, <1>3, <2>1 DEF ReportInv, RequestsOK
<1>5. CASE job[p].op = "succeed"
  <2>1. /\ pc' = [pc EXCEPT ![p] = "read"]
        /\ UNCHANGED <<job, observed, counted>>
    BY <1>5 DEF UpdateWithExpectedStatus, Goto
  <2>2. RequestsOK'
    BY <1>4, <2>1 DEF ReportInv, RequestsOK
  <2>3. payments'[x] = "SUCCEEDED"
    BY <1>4, <1>5 DEF Target
  <2>4. KnownAt(p)'
    BY <2>1, <2>3 DEF KnownAt, ReportInv, RequestsOK
  <2>5. \A y \in Gateway : counted'[y] > 0 => payments'[y] = "SUCCEEDED"
    BY <1>1, <2>1 DEF ReportInv, OnlySucceededPaymentsCount, Forward, Keeps, Outcomes
  <2>6. \A q \in Procs \ {p} :
            pc'[q] = pc[q] /\ job'[q] = job[q] /\ observed'[q] = observed[q]
    BY <2>1 DEF ReportInv, RequestsOK
  <2>. QED
    BY <1>1, <2>2, <2>4, <2>5, <2>6, MoveStep
<1>6. CASE job[p].op # "succeed"
  <2>1. Finish(p) /\ UNCHANGED counted
    BY <1>6 DEF UpdateWithExpectedStatus
  <2>. QED
    BY <1>1, <1>4, <2>1, FinishStep
<1>. QED
  BY <1>5, <1>6

(* Steps that move no payment and count nothing: all there is to show is    *)
(* what their process knows afterwards.                                     *)
LEMMA QuietStep ==
    ASSUME ReportInv, NEW p \in Procs, UNCHANGED <<payments, counted>>,
           RequestsOK', KnownAt(p)',
           \A q \in Procs \ {p} :
               pc'[q] = pc[q] /\ job'[q] = job[q] /\ observed'[q] = observed[q]
    PROVE  ReportInv'
<1>1. \A x \in Gateway : counted'[x] > 0 => payments'[x] = "SUCCEEDED"
  BY DEF ReportInv, OnlySucceededPaymentsCount
<1>. QED
  BY <1>1, UnchangedIsForward, MoveStep

LEMMA ReportSteps ==
    ASSUME ReportInv, NEW p \in Procs,
           (\E j \in Jobs : Start(p, j)) \/ Look(p) \/ ReadPayment(p)
    PROVE  ReportInv'
<1>. USE DEF Goto, ReportInv, RequestsOK, KnownAt
<1>1. ASSUME NEW j \in Jobs, Start(p, j) PROVE ReportInv'
  <2>1. RequestsOK'
    BY <1>1 DEF Start
  <2>2. KnownAt(p)'
    BY <1>1 DEF Start
  <2>3. \A q \in Procs \ {p} :
            pc'[q] = pc[q] /\ job'[q] = job[q] /\ observed'[q] = observed[q]
    BY <1>1 DEF Start
  <2>4. UNCHANGED <<payments, counted>>
    BY <1>1 DEF Start
  <2>. QED
    BY <2>1, <2>2, <2>3, <2>4, QuietStep
<1>2. ASSUME Look(p) PROVE ReportInv'
  <2>1. RequestsOK'
    BY <1>2 DEF Look
  <2>2. KnownAt(p)'
    BY <1>2 DEF Look, Jobs, GatewayJobs, DirectJobs
  <2>3. \A q \in Procs \ {p} :
            pc'[q] = pc[q] /\ job'[q] = job[q] /\ observed'[q] = observed[q]
    BY <1>2 DEF Look
  <2>4. UNCHANGED <<payments, counted>>
    BY <1>2 DEF Look
  <2>. QED
    BY <2>1, <2>2, <2>3, <2>4, QuietStep
<1>3. ASSUME ReadPayment(p) PROVE ReportInv'
  <2>1. job[p] \in GatewayJobs /\ job[p].id \in Payments
    BY <1>3 DEF ReadPayment, GatewayJobs, Payments
  <2>2. RequestsOK'
    BY <1>3, <2>1 DEF ReadPayment
  <2>3. KnownAt(p)'
    BY <1>3, <2>1 DEF ReadPayment
  <2>4. \A q \in Procs \ {p} :
            pc'[q] = pc[q] /\ job'[q] = job[q] /\ observed'[q] = observed[q]
    BY <1>3 DEF ReadPayment
  <2>5. UNCHANGED <<payments, counted>>
    BY <1>3 DEF ReadPayment
  <2>. QED
    BY <2>2, <2>3, <2>4, <2>5, QuietStep
<1>. QED
  BY <1>1, <1>2, <1>3

LEMMA ChargeSteps ==
    ASSUME ReportInv, NEW p \in Procs,
           StartProcessing(p) \/ ChargeSucceeds(p) \/ ChargeFails(p)
    PROVE  ReportInv' /\ Forward
<1>. DEFINE x == job[p].id
<1>1. job[p] \in DirectJobs /\ x \in Payments /\ x \notin Gateway
  BY DEF ReportInv, KnownAt, StartProcessing, ChargeSucceeds, ChargeFails, DirectJobs, Payments
<1>2. PICK s \in {"PROCESSING", "SUCCEEDED", "FAILED"} : payments' = [payments EXCEPT ![x] = s]
  BY DEF StartProcessing, ChargeSucceeds, ChargeFails
<1>3. Forward
  BY <1>1, <1>2 DEF Forward, Keeps, ReportInv, RequestsOK
<1>4. payments' \in [Payments -> PaymentStatus \cup {"none"}]
  BY <1>2 DEF ReportInv, RequestsOK, PaymentStatus
<1>5. UNCHANGED counted
  BY DEF StartProcessing, ChargeSucceeds, ChargeFails
<1>6. CASE StartProcessing(p) \/ ChargeSucceeds(p)
  <2>1. PICK label \in {"charge", "read"} : pc' = [pc EXCEPT ![p] = label]
    BY <1>6 DEF StartProcessing, ChargeSucceeds, Goto
  <2>2. UNCHANGED <<job, observed>>
    BY <1>6 DEF StartProcessing, ChargeSucceeds
  <2>3. RequestsOK'
    BY <1>4, <1>5, <2>1, <2>2 DEF ReportInv, RequestsOK
  <2>4. KnownAt(p)'
    BY <1>1, <2>1, <2>2 DEF KnownAt, ReportInv, RequestsOK, DirectJobs
  <2>5. \A y \in Gateway : counted'[y] > 0 => payments'[y] = "SUCCEEDED"
    BY <1>3, <1>5 DEF ReportInv, OnlySucceededPaymentsCount, Forward, Keeps, Outcomes
  <2>6. \A q \in Procs \ {p} :
            pc'[q] = pc[q] /\ job'[q] = job[q] /\ observed'[q] = observed[q]
    BY <2>1, <2>2 DEF ReportInv, RequestsOK
  <2>. QED
    BY <1>3, <2>3, <2>4, <2>5, <2>6, MoveStep
<1>7. CASE ChargeFails(p)
  <2>1. Finish(p)
    BY <1>7 DEF ChargeFails
  <2>. QED
    BY <1>3, <1>4, <1>5, <2>1, FinishStep
<1>. QED
  BY <1>3, <1>6, <1>7

(* Reading, marking and voiding the invoice.                                *)
LEMMA InvoiceReads ==
    ASSUME ReportInv, NEW p \in Procs,
           \/ ReadInvoiceToReconcile(p) \/ ReadInvoiceToSettle(p)
           \/ ListPayments(p) \/ MarkInvoice(p) \/ VoidInvoice(p)
    PROVE  ReportInv'
<1>1. UNCHANGED <<payments, counted, observed>>
  BY DEF ReadInvoiceToReconcile, ReadInvoiceToSettle, ListPayments, MarkInvoice, VoidInvoice
<1>2. PICK label \in {"write", "list", "fail"} : pc' = [pc EXCEPT ![p] = label]
  BY DEF ReadInvoiceToReconcile, ReadInvoiceToSettle, ListPayments, MarkInvoice, VoidInvoice, Goto
<1>3. \/ pc[p] \in {"read", "list"} /\ UNCHANGED job
      \/ \E j \in {Mark, Void} : job' = [job EXCEPT ![p] = j]
  BY DEF ReadInvoiceToReconcile, ReadInvoiceToSettle, ListPayments, MarkInvoice, VoidInvoice
<1>4. RequestsOK'
  BY <1>1, <1>2, <1>3 DEF ReportInv, RequestsOK
<1>5. KnownAt(p)'
  BY <1>1, <1>2, <1>3 DEF ReportInv, RequestsOK, KnownAt, Mark, Void
<1>6. \A q \in Procs \ {p} :
          pc'[q] = pc[q] /\ job'[q] = job[q] /\ observed'[q] = observed[q]
  BY <1>1, <1>2, <1>3 DEF ReportInv, RequestsOK
<1>. QED
  BY <1>1, <1>4, <1>5, <1>6, QuietStep

(* Only a process that saw its payment succeed counts it.                   *)
LEMMA WriteStep ==
    ASSUME ReportInv, NEW p \in Procs, WriteInvoice(p)
    PROVE  ReportInv'
<1>1. UNCHANGED payments /\ pc[p] = "write"
  BY DEF WriteInvoice
<1>2. Forward
  BY <1>1, UnchangedIsForward
<1>3. counted' = [x \in Gateway |-> IF job[p] = [op |-> "succeed", id |-> x]
                                    THEN counted[x] + 1 ELSE counted[x]]
  BY DEF WriteInvoice
<1>4. counted' \in [Gateway -> Nat]
  BY <1>3 DEF ReportInv, RequestsOK
<1>5. \A x \in Gateway : counted'[x] > 0 => payments'[x] = "SUCCEEDED"
  <2>. SUFFICES ASSUME NEW x \in Gateway, counted'[x] > 0 PROVE payments[x] = "SUCCEEDED"
    BY <1>1
  <2>1. CASE job[p] = [op |-> "succeed", id |-> x]
    BY <1>1, <2>1 DEF ReportInv, KnownAt
  <2>2. CASE job[p] # [op |-> "succeed", id |-> x]
    BY <1>3, <2>2 DEF ReportInv, OnlySucceededPaymentsCount
  <2>. QED
    BY <2>1, <2>2
<1>6. PICK label \in {"complete", "idle"} : pc' = [pc EXCEPT ![p] = label]
  BY DEF WriteInvoice, Goto, Finish
<1>7. /\ job' = job \/ job' = [job EXCEPT ![p] = NoJob]
      /\ observed' = observed \/ observed' = [observed EXCEPT ![p] = "none"]
  BY DEF WriteInvoice, Finish
<1>8. RequestsOK'
  BY <1>1, <1>4, <1>6, <1>7 DEF ReportInv, RequestsOK
<1>9. KnownAt(p)'
  BY <1>6 DEF KnownAt, ReportInv, RequestsOK
<1>10. \A q \in Procs \ {p} :
           pc'[q] = pc[q] /\ job'[q] = job[q] /\ observed'[q] = observed[q]
  BY <1>6, <1>7 DEF ReportInv, RequestsOK
<1>. QED
  BY <1>2, <1>5, <1>8, <1>9, <1>10, MoveStep

LEMMA EndSteps ==
    ASSUME ReportInv, NEW p \in Procs,
           CompletePurchase(p) \/ FailPurchase(p) \/ Stop(p)
    PROVE  ReportInv'
<1>1. Finish(p) /\ UNCHANGED <<payments, counted>>
  BY DEF CompletePurchase, FailPurchase, Stop
<1>2. payments' \in [Payments -> PaymentStatus \cup {"none"}]
  BY <1>1 DEF ReportInv, RequestsOK
<1>. QED
  BY <1>1, <1>2, FinishStep, UnchangedIsForward

(* Steps of no process: a payment is recorded, the invoice is finalized.    *)
LEMMA OtherSteps ==
    ASSUME ReportInv, (\E x \in Payments : CreatePayment(x)) \/ FinalizeInvoice \/ UNCHANGED vars
    PROVE  ReportInv' /\ Forward
<1>1. UNCHANGED <<pc, job, observed, counted>>
  BY DEF CreatePayment, FinalizeInvoice, vars
<1>2. Forward /\ payments' \in [Payments -> PaymentStatus \cup {"none"}]
  <2>1. ASSUME NEW x \in Payments, CreatePayment(x)
        PROVE  Forward /\ payments' \in [Payments -> PaymentStatus \cup {"none"}]
    <3>1. PICK s \in {"INITIATED", "PENDING"} : payments' = [payments EXCEPT ![x] = s]
      BY <2>1 DEF CreatePayment
    <3>2. payments[x] = "none"
      BY <2>1 DEF CreatePayment
    <3>. QED
      BY <3>1, <3>2 DEF Forward, Keeps, Outcomes, ReportInv, RequestsOK, PaymentStatus, Payments
  <2>2. ASSUME UNCHANGED payments
        PROVE  Forward /\ payments' \in [Payments -> PaymentStatus \cup {"none"}]
    BY <2>2, UnchangedIsForward DEF ReportInv, RequestsOK
  <2>. QED
    BY <2>1, <2>2 DEF FinalizeInvoice, vars
<1>3. RequestsOK'
  BY <1>1, <1>2 DEF ReportInv, RequestsOK
<1>4. \A q \in Procs : KnownAt(q)'
  BY <1>1, <1>2, OthersKeepKnowledge
<1>5. OnlySucceededPaymentsCount'
  BY <1>1, <1>2 DEF ReportInv, OnlySucceededPaymentsCount, Forward, Keeps, Outcomes
<1>. QED
  BY <1>2, <1>3, <1>4, <1>5 DEF ReportInv

LEMMA ReportInvStep == ReportInv /\ [Next]_vars => ReportInv' /\ Forward
<1>. SUFFICES ASSUME ReportInv, [Next]_vars PROVE ReportInv' /\ Forward
  OBVIOUS
<1>1. CASE (\E x \in Payments : CreatePayment(x)) \/ FinalizeInvoice \/ UNCHANGED vars
  BY <1>1, OtherSteps
<1>2. ASSUME NEW p \in Procs, \E j \in Jobs : Start(p, j) PROVE ReportInv' /\ Forward
  BY <1>2, ReportSteps, UnchangedIsForward DEF Start
<1>3. ASSUME NEW p \in Procs, Proceed(p) PROVE ReportInv' /\ Forward
  <2>1. CASE Look(p) \/ ReadPayment(p)
    BY <2>1, ReportSteps, UnchangedIsForward DEF Look, ReadPayment
  <2>2. CASE UpdateWithExpectedStatus(p)
    BY <2>2, SwapKeepsReportInv, SwapIsForward
  <2>3. CASE StartProcessing(p) \/ ChargeSucceeds(p) \/ ChargeFails(p)
    BY <2>3, ChargeSteps
  <2>4. CASE \/ ReadInvoiceToReconcile(p) \/ ReadInvoiceToSettle(p)
             \/ ListPayments(p) \/ MarkInvoice(p) \/ VoidInvoice(p)
    <3>1. UNCHANGED payments
      BY <2>4 DEF ReadInvoiceToReconcile, ReadInvoiceToSettle, ListPayments, MarkInvoice, VoidInvoice
    <3>. QED
      BY <2>4, <3>1, InvoiceReads, UnchangedIsForward
  <2>5. CASE WriteInvoice(p)
    BY <2>5, WriteStep, UnchangedIsForward DEF WriteInvoice
  <2>6. CASE CompletePurchase(p) \/ FailPurchase(p) \/ Stop(p)
    BY <2>6, EndSteps, UnchangedIsForward DEF CompletePurchase, FailPurchase, Stop
  <2>. QED
    BY <1>3, <2>1, <2>2, <2>3, <2>4, <2>5, <2>6 DEF Proceed
<1>. QED
  BY <1>1, <1>2, <1>3 DEF Next

----------------------------------------------------------------------------
(* For any number of processes and payments, no interleaving of reports,    *)
(* processing, marking and voiding adds a payment to the invoice that is    *)
(* not recorded as succeeded (RecordPaymentSuccess, then                    *)
(* ReconcilePaymentStatus).                                                 *)
THEOREM CountedPaymentsSucceeded == Spec => []OnlySucceededPaymentsCount
<1>1. ReportInv => OnlySucceededPaymentsCount
  BY DEF ReportInv
<1>. QED
  BY <1>1, ReportInvInit, ReportInvStep, PTL DEF Spec

(* The comparison in UpdateWithExpectedStatus is enough for the outcome of  *)
(* a gateway payment to be final, however many reports arrive at once.      *)
THEOREM OutcomesAreFinal == Spec => PaymentKeepsOutcome
<1>1. ReportInv /\ [Next]_vars =>
          [\A x \in Gateway :
              payments[x] \in {"SUCCEEDED", "FAILED"} => payments'[x] = payments[x]]_vars
  BY ReportInvStep DEF Forward, Keeps, Outcomes
<1>2. Spec => []ReportInv
  BY ReportInvInit, ReportInvStep, PTL DEF Spec
<1>. QED
  BY <1>1, <1>2, PTL DEF Spec, PaymentKeepsOutcome

----------------------------------------------------------------------------
(* The columns of the invoice the purchase depends on, whatever the amounts *)
(* are: they are sums over the payments.                                    *)
Columns(r) == {"status", "payment", "paid", "paidAt", "voidedAt", "refunded"} \subseteq DOMAIN r

(* Who will complete the purchase has written the invoice as paid, and who  *)
(* will fail it has voided the invoice.                                     *)
PurchaseInv ==
    /\ Columns(invoice) /\ \A p \in Procs : Columns(row[p])
    /\ row = [p \in Procs |-> row[p]]
    /\ invoice.voidedAt \in BOOLEAN /\ wasPaid \in BOOLEAN
    /\ \A p \in Procs : row[p].voidedAt \in BOOLEAN
    /\ \A p \in Procs :
          /\ pc[p] = "write" /\ job[p].op = "succeed" => row[p].payment \in {"SUCCEEDED", "OVERPAID"}
          /\ pc[p] = "list" => job[p].op = "process"
          /\ pc[p] = "complete" => wasPaid
          /\ pc[p] = "fail" => invoice.voidedAt
    /\ PurchaseFollowsInvoice

LEMMA PurchaseInvInit == Init => PurchaseInv
<1>. SUFFICES ASSUME Init PROVE PurchaseInv
  OBVIOUS
<1>1. Columns(NewRow) /\ NewRow.voidedAt \in BOOLEAN
  BY DEF Columns, NewRow
<1>2. row = [p \in Procs |-> row[p]] /\ \A p \in Procs : row[p] = NewRow
  BY DEF Init
<1>. QED
  BY <1>1, <1>2 DEF Init, PurchaseInv, PurchaseFollowsInvoice

(* A step that leaves the invoice, and takes nobody to the purchase.        *)
LEMMA IdleStep ==
    ASSUME PurchaseInv, NEW p \in Procs, UNCHANGED <<invoice, purchase, wasPaid, row>>,
           \A q \in Procs \ {p} : pc'[q] = pc[q] /\ job'[q] = job[q],
           pc'[p] \notin {"list", "write", "complete", "fail"}
    PROVE  PurchaseInv'
BY DEF PurchaseInv, PurchaseFollowsInvoice, Columns

(* The end of a request, which may settle the purchase.                     *)
LEMMA EndStep ==
    ASSUME ReportInv, PurchaseInv, NEW p \in Procs, Finish(p), UNCHANGED <<invoice, wasPaid>>,
           \/ UNCHANGED purchase
           \/ purchase' = "COMPLETED" /\ pc[p] = "complete"
           \/ purchase' = "FAILED" /\ pc[p] = "fail"
    PROVE  PurchaseInv'
<1>1. /\ pc' = [pc EXCEPT ![p] = "idle"] /\ job' = [job EXCEPT ![p] = NoJob]
      /\ row' = [row EXCEPT ![p] = NewRow]
  BY DEF Finish, Goto
<1>2. Columns(NewRow) /\ NewRow.voidedAt \in BOOLEAN
  BY DEF Columns, NewRow
<1>3. PurchaseFollowsInvoice'
  BY DEF PurchaseInv, PurchaseFollowsInvoice
<1>4. \A q \in Procs : Columns(row'[q]) /\ row'[q].voidedAt \in BOOLEAN
  BY <1>1, <1>2 DEF PurchaseInv
<1>. QED
  BY <1>1, <1>3, <1>4 DEF PurchaseInv, ReportInv, RequestsOK

(* A process takes a copy of the invoice and works on it.                   *)
LEMMA CopyStep ==
    ASSUME ReportInv, PurchaseInv, NEW p \in Procs, NEW r, row' = [row EXCEPT ![p] = r],
           Columns(r), r.voidedAt \in BOOLEAN,
           UNCHANGED <<invoice, purchase, wasPaid>>,
           \A q \in Procs \ {p} : pc'[q] = pc[q] /\ job'[q] = job[q],
           pc'[p] \notin {"complete", "fail"}, pc'[p] = "list" => job'[p].op = "process",
           pc'[p] = "write" /\ job'[p].op = "succeed" => r.payment \in {"SUCCEEDED", "OVERPAID"}
    PROVE  PurchaseInv'
<1>1. \A q \in Procs : row'[q] = IF q = p THEN r ELSE row[q]
  BY DEF PurchaseInv
<1>2. row' = [q \in Procs |-> row'[q]]
  BY DEF PurchaseInv
<1>. QED
  BY <1>1, <1>2 DEF PurchaseInv, PurchaseFollowsInvoice

LEMMA WritePurchaseStep ==
    ASSUME ReportInv, PurchaseInv, NEW p \in Procs, WriteInvoice(p)
    PROVE  PurchaseInv'
<1>1. Columns(invoice') /\ invoice'.voidedAt = (row[p].voidedAt \/ invoice.voidedAt)
  BY DEF WriteInvoice, PurchaseInv, Columns
<1>2. invoice'.voidedAt \in BOOLEAN /\ (invoice.voidedAt => invoice'.voidedAt)
  BY <1>1 DEF PurchaseInv
<1>3. wasPaid' \in BOOLEAN /\ (wasPaid => wasPaid') /\ UNCHANGED purchase
  BY DEF WriteInvoice, PurchaseInv
<1>4. PurchaseFollowsInvoice'
  BY <1>2, <1>3 DEF PurchaseInv, PurchaseFollowsInvoice
<1>5. CASE EarnsCredits(p)
  <2>1. wasPaid'
    BY <1>5 DEF WriteInvoice, EarnsCredits, PurchaseInv
  <2>2. pc' = [pc EXCEPT ![p] = "complete"] /\ UNCHANGED <<job, row>>
    BY <1>5 DEF WriteInvoice, Goto
  <2>. QED
    BY <1>1, <1>2, <1>3, <1>4, <2>1, <2>2 DEF PurchaseInv, ReportInv, RequestsOK
<1>6. CASE ~EarnsCredits(p)
  <2>1. /\ pc' = [pc EXCEPT ![p] = "idle"] /\ job' = [job EXCEPT ![p] = NoJob]
        /\ row' = [row EXCEPT ![p] = NewRow]
    BY <1>6 DEF WriteInvoice, Finish, Goto
  <2>2. Columns(NewRow) /\ NewRow.voidedAt \in BOOLEAN
    BY DEF Columns, NewRow
  <2>3. \A q \in Procs : Columns(row'[q]) /\ row'[q].voidedAt \in BOOLEAN
    BY <2>1, <2>2 DEF PurchaseInv
  <2>. QED
    BY <1>1, <1>2, <1>3, <1>4, <2>1, <2>3 DEF PurchaseInv, ReportInv, RequestsOK
<1>. QED
  BY <1>5, <1>6

LEMMA PurchaseInvStep == ReportInv /\ PurchaseInv /\ [Next]_vars => PurchaseInv'
<1>. SUFFICES ASSUME ReportInv, PurchaseInv, [Next]_vars PROVE PurchaseInv'
  OBVIOUS
<1>. USE DEF Goto
<1>1. CASE UNCHANGED vars
  BY <1>1 DEF vars, PurchaseInv, PurchaseFollowsInvoice
<1>2. ASSUME NEW x \in Payments, CreatePayment(x) PROVE PurchaseInv'
  BY <1>2 DEF CreatePayment, PurchaseInv, PurchaseFollowsInvoice
<1>3. CASE FinalizeInvoice
  <2>1. Columns(invoice') /\ invoice'.voidedAt = invoice.voidedAt
    BY <1>3 DEF FinalizeInvoice, PurchaseInv, Columns
  <2>. QED
    BY <1>3, <2>1 DEF FinalizeInvoice, PurchaseInv, PurchaseFollowsInvoice
<1>4. ASSUME NEW p \in Procs, NEW j \in Jobs, Start(p, j) PROVE PurchaseInv'
  BY <1>4, IdleStep DEF Start, ReportInv, RequestsOK
<1>5. ASSUME NEW p \in Procs, Proceed(p) PROVE PurchaseInv'
  <2>. USE DEF ReportInv, RequestsOK
  <2>1. CASE Look(p) \/ ReadPayment(p) \/ StartProcessing(p) \/ ChargeSucceeds(p)
    BY <2>1, IdleStep DEF Look, ReadPayment, StartProcessing, ChargeSucceeds
  <2>2. CASE UpdateWithExpectedStatus(p)
    <3>1. CASE job[p].op = "succeed"
      BY <2>2, <3>1, IdleStep DEF UpdateWithExpectedStatus
    <3>2. CASE job[p].op # "succeed"
      BY <2>2, <3>2, EndStep DEF UpdateWithExpectedStatus
    <3>. QED
      BY <3>1, <3>2
  <2>3. CASE ChargeFails(p) \/ CompletePurchase(p) \/ FailPurchase(p) \/ Stop(p)
    BY <2>3, EndStep DEF ChargeFails, CompletePurchase, FailPurchase, Stop
  <2>4. CASE ReadInvoiceToReconcile(p)
    <3>. DEFINE r == Reconciled(invoice, AmountOf[job[p].id])
    <3>1. Columns(r) /\ r.voidedAt = invoice.voidedAt /\ r.payment \in {"SUCCEEDED", "OVERPAID"}
      BY DEF Reconciled, Columns, PurchaseInv
    <3>2. row' = [row EXCEPT ![p] = r]
      BY <2>4 DEF ReadInvoiceToReconcile
    <3>. HIDE DEF r
    <3>. QED
      BY <2>4, <3>1, <3>2, CopyStep DEF ReadInvoiceToReconcile, PurchaseInv
  <2>5. CASE ReadInvoiceToSettle(p)
    BY <2>5, CopyStep DEF ReadInvoiceToSettle, PurchaseInv
  <2>6. CASE ListPayments(p)
    <3>. DEFINE r == IF TotalPaid >= Due THEN PaidInFull(row[p], TotalPaid)
                                         ELSE PaidInPart(row[p], TotalPaid)
    <3>1. Columns(r) /\ r.voidedAt = row[p].voidedAt
      BY DEF PaidInFull, PaidInPart, Columns, PurchaseInv
    <3>2. row' = [row EXCEPT ![p] = r] /\ UNCHANGED <<invoice, purchase, wasPaid, job>>
      BY <2>6 DEF ListPayments, PurchaseInv
    <3>3. pc[p] = "list" /\ pc' = [pc EXCEPT ![p] = "write"]
      BY <2>6 DEF ListPayments
    <3>. HIDE DEF r
    <3>. QED
      BY <3>1, <3>2, <3>3, CopyStep DEF PurchaseInv
  <2>7. CASE MarkInvoice(p)
    <3>1. PICK r \in MarkedRows(invoice) : row' = [row EXCEPT ![p] = r]
      BY <2>7 DEF MarkInvoice
    <3>2. Columns(r) /\ r.voidedAt = invoice.voidedAt
      <4>1. Columns(invoice)
        BY DEF PurchaseInv
      <4>2. CASE r \in {[invoice EXCEPT !.payment = "PENDING", !.paid = amount] : amount \in 0 .. Due}
        <5>1. PICK amount \in 0 .. Due : r = [invoice EXCEPT !.payment = "PENDING", !.paid = amount]
          BY <4>2
        <5>. QED
          BY <4>1, <5>1 DEF Columns
      <4>3. CASE r = [invoice EXCEPT !.payment = "SUCCEEDED", !.paid = Due, !.paidAt = TRUE]
        BY <4>1, <4>3 DEF Columns
      <4>4. CASE r = [invoice EXCEPT !.payment = "FAILED", !.paid = 0, !.paidAt = FALSE]
        BY <4>1, <4>4 DEF Columns
      <4>5. CASE r = [invoice EXCEPT !.payment = "OVERPAID"]
        BY <4>1, <4>5 DEF Columns
      <4>. QED
        BY <3>1, <4>2, <4>3, <4>4, <4>5 DEF MarkedRows
    <3>3. /\ pc' = [pc EXCEPT ![p] = "write"] /\ job' = [job EXCEPT ![p] = Mark]
          /\ UNCHANGED <<invoice, purchase, wasPaid>>
      BY <2>7 DEF MarkInvoice
    <3>4. row' = [row EXCEPT ![p] = r] /\ r.voidedAt \in BOOLEAN
      BY <3>1, <3>2 DEF PurchaseInv
    <3>5. /\ pc'[p] \notin {"complete", "fail", "list"}
          /\ pc'[p] = "write" /\ job'[p].op # "succeed"
          /\ \A q \in Procs \ {p} : pc'[q] = pc[q] /\ job'[q] = job[q]
      BY <3>3 DEF Mark
    <3>. QED
      BY <3>2, <3>3, <3>4, <3>5, CopyStep
  <2>8. CASE WriteInvoice(p)
    BY <2>8, WritePurchaseStep
  <2>9. CASE VoidInvoice(p)
    <3>1. Columns(invoice') /\ invoice'.voidedAt = TRUE
      BY <2>9 DEF VoidInvoice, Voided, PurchaseInv, Columns
    <3>. QED
      BY <2>9, <3>1 DEF VoidInvoice, PurchaseInv, PurchaseFollowsInvoice, Void
  <2>. QED
    BY <1>5, <2>1, <2>2, <2>3, <2>4, <2>5, <2>6, <2>7, <2>8, <2>9 DEF Proceed
<1>. QED
  BY <1>1, <1>2, <1>3, <1>4, <1>5 DEF Next

(* Whoever overwrites whom, and however many requests and reports there     *)
(* are, purchased credits follow what was written about the invoice         *)
(* (completing and failing the purchase after the invoice's commit).        *)
THEOREM PurchaseIsEarned == Spec => []PurchaseFollowsInvoice
<1>1. Spec => []ReportInv
  BY ReportInvInit, ReportInvStep, PTL DEF Spec
<1>2. Spec => []PurchaseInv
  BY <1>1, PurchaseInvInit, PurchaseInvStep, PTL DEF Spec
<1>3. PurchaseInv => PurchaseFollowsInvoice
  BY DEF PurchaseInv
<1>. QED
  BY <1>2, <1>3, PTL

----------------------------------------------------------------------------
(* Types.                                                                   *)

Locks == Procs \cup {Free}

(* What the reports do not touch.                                           *)
InvoiceTypes ==
    /\ invoice \in Rows
    /\ purchase \in {"PENDING", "COMPLETED", "FAILED"}
    /\ rowLock \in Locks
    /\ row \in [Procs -> Rows]
    /\ wasPaid \in BOOLEAN

LEMMA RowType ==
    ASSUME NEW r \in Rows
    PROVE  /\ r.status \in {"DRAFT", "FINALIZED", "VOIDED"}
           /\ r.payment \in {"PENDING", "SUCCEEDED", "OVERPAID", "FAILED", "REFUNDED"}
           /\ r.paid \in Nat /\ r.refunded \in Nat
           /\ r.paidAt \in BOOLEAN /\ r.voidedAt \in BOOLEAN
BY DEF Rows

LEMMA ReconciledRow ==
    ASSUME NEW r \in Rows, NEW amount \in Nat
    PROVE  Reconciled(r, amount) \in Rows
<1> DEFINE paid == r.paid + amount
           payment == IF paid > Due THEN "OVERPAID" ELSE "SUCCEEDED"
<1>1. paid \in Nat /\ TRUE \in BOOLEAN
  BY RowType
<1>2. payment \in {"PENDING", "SUCCEEDED", "OVERPAID", "FAILED", "REFUNDED"}
  OBVIOUS
<1>3. Reconciled(r, amount) = [r EXCEPT !.paid = paid, !.payment = payment, !.paidAt = TRUE]
  BY DEF Reconciled
<1> HIDE DEF paid, payment
<1> QED
  BY <1>1, <1>2, <1>3 DEF Rows

LEMMA SettledRow ==
    ASSUME NEW r \in Rows, NEW total \in Nat
    PROVE  PaidInFull(r, total) \in Rows /\ PaidInPart(r, total) \in Rows
<1>0. /\ r.status \in {"DRAFT", "FINALIZED", "VOIDED"} /\ r.paidAt \in BOOLEAN
      /\ r.payment \in {"PENDING", "SUCCEEDED", "OVERPAID", "FAILED", "REFUNDED"}
  BY RowType
<1>1. PaidInFull(r, total) \in Rows
  <2> DEFINE status == IF r.status = "DRAFT" THEN "FINALIZED" ELSE r.status
             paidAt == r.paidAt \/ total = Due
  <2>1. status \in {"DRAFT", "FINALIZED", "VOIDED"} /\ paidAt \in BOOLEAN
        /\ "SUCCEEDED" \in {"PENDING", "SUCCEEDED", "OVERPAID", "FAILED", "REFUNDED"}
    BY <1>0
  <2>2. PaidInFull(r, total) =
          [r EXCEPT !.paid = total, !.payment = "SUCCEEDED", !.status = status,
                    !.paidAt = paidAt]
    BY DEF PaidInFull
  <2> HIDE DEF status, paidAt
  <2> QED
    BY <2>1, <2>2 DEF Rows
<1>2. PaidInPart(r, total) \in Rows
  <2> DEFINE payment == IF total > 0 THEN "PENDING" ELSE r.payment
  <2>1. payment \in {"PENDING", "SUCCEEDED", "OVERPAID", "FAILED", "REFUNDED"}
    BY <1>0
  <2>2. PaidInPart(r, total) = [r EXCEPT !.paid = total, !.payment = payment]
    BY DEF PaidInPart
  <2> HIDE DEF payment
  <2> QED
    BY <2>1, <2>2 DEF Rows
<1> QED
  BY <1>1, <1>2

LEMMA MarkedRow ==
    ASSUME NEW r \in Rows
    PROVE  MarkedRows(r) \subseteq Rows
<1> DEFINE P == {"PENDING", "SUCCEEDED", "OVERPAID", "FAILED", "REFUNDED"}
<1>1. ASSUME NEW amount \in 0 .. Due
      PROVE  [r EXCEPT !.payment = "PENDING", !.paid = amount] \in Rows
  <2>1. amount \in Nat /\ "PENDING" \in P
    OBVIOUS
  <2> QED
    BY <2>1 DEF Rows
<1>2. /\ [r EXCEPT !.payment = "SUCCEEDED", !.paid = Due, !.paidAt = TRUE] \in Rows
      /\ [r EXCEPT !.payment = "FAILED", !.paid = 0, !.paidAt = FALSE] \in Rows
  <2>1. Due \in Nat /\ 0 \in Nat /\ TRUE \in BOOLEAN /\ FALSE \in BOOLEAN
        /\ "SUCCEEDED" \in P /\ "FAILED" \in P
    OBVIOUS
  <2>2. [r EXCEPT !.payment = "SUCCEEDED", !.paid = Due, !.paidAt = TRUE] \in Rows
    BY <2>1 DEF Rows
  <2>3. [r EXCEPT !.payment = "FAILED", !.paid = 0, !.paidAt = FALSE] \in Rows
    BY <2>1 DEF Rows
  <2> QED
    BY <2>2, <2>3
<1>3. [r EXCEPT !.payment = "OVERPAID"] \in Rows
  BY DEF Rows
<1> QED
  BY <1>1, <1>2, <1>3 DEF MarkedRows

LEMMA VoidedRow ==
    ASSUME NEW r \in Rows
    PROVE  Voided(r) \in Rows
<1> DEFINE returned == IF r.refunded > r.paid THEN r.refunded ELSE r.paid
           payment == IF r.paid > 0 THEN "REFUNDED" ELSE r.payment
<1>1. /\ returned \in Nat /\ TRUE \in BOOLEAN
      /\ payment \in {"PENDING", "SUCCEEDED", "OVERPAID", "FAILED", "REFUNDED"}
      /\ "VOIDED" \in {"DRAFT", "FINALIZED", "VOIDED"}
  BY RowType
<1>2. Voided(r) = [r EXCEPT !.status = "VOIDED", !.voidedAt = TRUE, !.refunded = returned,
                            !.payment = payment]
  BY DEF Voided
<1> HIDE DEF returned, payment
<1> QED
  BY <1>1, <1>2 DEF Rows

(* Whatever payments have succeeded, what they paid is a number.            *)
LEMMA TotalPaidType == TotalPaid \in Nat
<1> DEFINE S == {y \in Payments : payments[y] = "SUCCEEDED"}
           f == [x \in S |-> AmountOf[x]]
<1>1. IsFiniteSet(S)
  BY FS_Subset
<1>2. DOMAIN f = S /\ \A x \in S : f[x] \in Nat
  OBVIOUS
<1>3. TotalPaid = FoldFunction(+, 0, f)
  BY DEF TotalPaid
<1> HIDE DEF f, S
<1>4. FoldFunction(+, 0, f) = SumOver(f, DOMAIN f)
  BY FunSum
<1>5. SumOver(f, S) \in Nat
  BY <1>1, <1>2, SumNat
<1> QED
  BY <1>2, <1>3, <1>4, <1>5, Zenon

LEMMA FinishTypes ==
    ASSUME InvoiceTypes, NEW p \in Procs, Finish(p)
    PROVE  rowLock' \in Locks /\ row' \in [Procs -> Rows]
<1>1. NewRow \in Rows
  BY DEF NewRow, Rows
<1> QED
  BY <1>1 DEF Finish, InvoiceTypes, Locks

LEMMA InvoiceTypesStep == RequestsOK /\ InvoiceTypes /\ [Next]_vars => InvoiceTypes'
<1> SUFFICES ASSUME RequestsOK, InvoiceTypes, [Next]_vars PROVE InvoiceTypes'
  OBVIOUS
<1>1. ASSUME NEW x \in Payments, CreatePayment(x) PROVE InvoiceTypes'
  BY <1>1 DEF CreatePayment, InvoiceTypes
<1>2. ASSUME NEW p \in Procs, NEW j \in Jobs, Start(p, j) PROVE InvoiceTypes'
  BY <1>2 DEF Start, InvoiceTypes
<1>3. ASSUME NEW p \in Procs, Look(p) \/ ReadPayment(p) \/ StartProcessing(p) \/ ChargeSucceeds(p)
      PROVE  InvoiceTypes'
  BY <1>3 DEF Look, ReadPayment, StartProcessing, ChargeSucceeds, InvoiceTypes
<1>4. ASSUME NEW p \in Procs, UpdateWithExpectedStatus(p) PROVE InvoiceTypes'
  <2>1. rowLock' \in Locks /\ row' \in [Procs -> Rows]
    BY <1>4, FinishTypes DEF UpdateWithExpectedStatus, InvoiceTypes
  <2> QED
    BY <1>4, <2>1 DEF UpdateWithExpectedStatus, InvoiceTypes
<1>5. ASSUME NEW p \in Procs,
             ChargeFails(p) \/ CompletePurchase(p) \/ FailPurchase(p) \/ Stop(p)
      PROVE  InvoiceTypes'
  <2>1. rowLock' \in Locks /\ row' \in [Procs -> Rows]
    BY <1>5, FinishTypes DEF ChargeFails, CompletePurchase, FailPurchase, Stop
  <2>2. /\ invoice' = invoice /\ wasPaid' = wasPaid
        /\ purchase' \in {purchase, "COMPLETED", "FAILED"}
    BY <1>5 DEF ChargeFails, CompletePurchase, FailPurchase, Stop
  <2> QED
    BY <2>1, <2>2 DEF InvoiceTypes
<1>6. ASSUME NEW p \in Procs, ReadInvoiceToReconcile(p) PROVE InvoiceTypes'
  <2>1. job[p].id \in Gateway
    BY <1>6 DEF ReadInvoiceToReconcile, RequestsOK, Jobs, NoJob, Mark, Void
  <2>2. AmountOf[job[p].id] \in Nat
    BY <2>1 DEF Payments
  <2>3. Reconciled(invoice, AmountOf[job[p].id]) \in Rows
    BY <2>2, ReconciledRow DEF InvoiceTypes
  <2> QED
    BY <1>6, <2>3 DEF ReadInvoiceToReconcile, InvoiceTypes
<1>7. ASSUME NEW p \in Procs, ReadInvoiceToSettle(p) PROVE InvoiceTypes'
  BY <1>7 DEF ReadInvoiceToSettle, InvoiceTypes
<1>8. ASSUME NEW p \in Procs, ListPayments(p) PROVE InvoiceTypes'
  <2>1. row[p] \in Rows
    BY DEF InvoiceTypes
  <2>2. PaidInFull(row[p], TotalPaid) \in Rows /\ PaidInPart(row[p], TotalPaid) \in Rows
    BY <2>1, TotalPaidType, SettledRow
  <2> QED
    BY <1>8, <2>2 DEF ListPayments, InvoiceTypes
<1>9. ASSUME NEW p \in Procs, MarkInvoice(p) PROVE InvoiceTypes'
  <2>1. PICK r \in MarkedRows(invoice) : row' = [row EXCEPT ![p] = r]
    BY <1>9 DEF MarkInvoice
  <2>2. r \in Rows
    BY MarkedRow DEF InvoiceTypes
  <2> QED
    BY <1>9, <2>1, <2>2 DEF MarkInvoice, InvoiceTypes, Locks
<1>10. ASSUME NEW p \in Procs, WriteInvoice(p) PROVE InvoiceTypes'
  <2> DEFINE paidAt == row[p].paidAt \/ invoice.paidAt
             voidedAt == row[p].voidedAt \/ invoice.voidedAt
  <2>1. row[p] \in Rows /\ paidAt \in BOOLEAN /\ voidedAt \in BOOLEAN
    BY DEF InvoiceTypes
  <2>2. invoice' = [row[p] EXCEPT !.paidAt = paidAt, !.voidedAt = voidedAt]
    BY <1>10 DEF WriteInvoice
  <2>3. invoice' \in Rows
    <3> HIDE DEF paidAt, voidedAt
    <3> QED
      BY <2>1, <2>2 DEF Rows
  <2>4. rowLock' \in Locks /\ row' \in [Procs -> Rows]
    <3>1. CASE EarnsCredits(p)
      BY <1>10, <3>1 DEF WriteInvoice, InvoiceTypes, Locks
    <3>2. CASE ~ EarnsCredits(p)
      BY <1>10, <3>2, FinishTypes DEF WriteInvoice
    <3> QED
      BY <3>1, <3>2
  <2>5. wasPaid' \in BOOLEAN /\ purchase' = purchase
    BY <1>10 DEF WriteInvoice
  <2> QED
    BY <2>3, <2>4, <2>5 DEF InvoiceTypes
<1>11. ASSUME NEW p \in Procs, VoidInvoice(p) PROVE InvoiceTypes'
  BY <1>11, VoidedRow DEF VoidInvoice, InvoiceTypes
<1>12. CASE FinalizeInvoice
  <2>1. "FINALIZED" \in {"DRAFT", "FINALIZED", "VOIDED"}
    OBVIOUS
  <2>2. [invoice EXCEPT !.status = "FINALIZED"] \in Rows
    BY <2>1 DEF Rows, InvoiceTypes
  <2> QED
    BY <1>12, <2>2 DEF FinalizeInvoice, InvoiceTypes
<1>13. CASE UNCHANGED vars
  BY <1>13 DEF vars, InvoiceTypes
<1> QED
  BY <1>1, <1>2, <1>3, <1>4, <1>5, <1>6, <1>7, <1>8, <1>9, <1>10, <1>11, <1>12, <1>13
  DEF Next, Proceed

(* The invoice, every copy of it that a process holds and every request     *)
(* keep their types: no report, mark or void writes a negative amount or a  *)
(* status the row does not have.                                            *)
THEOREM InvoiceKeepsTypes == Spec => []TypeOK
<1>1. Init => InvoiceTypes
  <2>1. NewRow \in Rows
    BY DEF NewRow, Rows
  <2> QED
    BY <2>1 DEF Init, InvoiceTypes, Locks
<1>2. RequestsOK /\ InvoiceTypes => TypeOK
  BY DEF RequestsOK, InvoiceTypes, Locks, TypeOK
<1>3. ReportInv => RequestsOK
  BY DEF ReportInv
<1> QED
  BY <1>1, <1>2, <1>3, ReportInvInit, ReportInvStep, InvoiceTypesStep, PTL DEF Spec

=============================================================================
