--------------------------- MODULE CheckoutProofs ---------------------------
(***************************************************************************)
(* For any number of webhooks, polls and cleanups, and however many faults: *)
(* a completed session was delivered or owes a purchase it has logged, an   *)
(* ended one was withdrawn, and the session implements CheckoutPromise.     *)
(***************************************************************************)
EXTENDS Checkout, TLAPS

(* Nothing can have been captured, and so no completer be under way, before *)
(* the creator asked the provider for a link.                               *)
LinkedFirst ==
    /\ at[Creator] \in {"payment", "link", "provider"} => session # "none" /\ ~link
    /\ session = "none" => ~link
    /\ captured => link
    /\ ~captured => /\ ~invoice.paid
                    /\ \A w \in Webhooks : event[w] = "none"
                    /\ \A c \in Completers : at[c] = "idle"

(* Whatever was prepared is still there until the session is decided.       *)
OpenIsIntact ==
    Outcome = "open" => /\ ~invoice.deleted /\ ~payment.archived
                        /\ benefit # "withdrawn"
                        /\ returned = {}

(* What a completer has established by the step it is at, while the session *)
(* is active: only a cleanup undoes it, and that ends the session.          *)
Established ==
    Active => \A c \in Completers :
        /\ at[c] \in {"settle", "reconcile", "grant", "claim"} => invoice.status = "FINALIZED"
        /\ at[c] \in {"reconcile", "grant", "claim"} => payment.status = "SUCCEEDED"
        /\ at[c] \in {"grant", "claim"} => invoice.paid
        /\ at[c] = "claim" => HandedOver \/ Owed
        /\ at[c] \in {"invoice", "finalize", "settle", "reconcile"} /\ kind \in {"addon", "modify"}
              => benefit = "given"

(* Each step is taken only for the kinds it is for, and a late capture is   *)
(* refunded only after the session ended.                                   *)
StepsFit ==
    /\ kind = "invoice" => benefit = "none"
    /\ benefit = "none" => kind \in {"invoice", "modify"}
    /\ \A c \in Completers :
          /\ at[c] = "apply" => kind \in {"addon", "modify"}
          /\ at[c] = "wallet" => kind = "topup"
          /\ at[c] = "grant" => kind \in {"topup", "subscription"}
          /\ at[c] \in {"lock", "refund", "settleLate", "record"} => session \in EndedStatuses

Inv == /\ LinkedFirst /\ OpenIsIntact /\ Established /\ StepsFit
       /\ CompletedMeansDelivered /\ EndedMeansWithdrawn

IInv == TypeOK /\ Inv

Readings == [linked : BOOLEAN, unreturned : BOOLEAN, ends : EndedStatuses,
             benefit : {"none", "pending", "given", "withdrawn"}]

(* What a cleanup enters with.                                              *)
LEMMA TerminateTypes ==
    ASSUME TypeOK, NEW a \in Actors, NEW l \in BOOLEAN, NEW f \in BOOLEAN, Terminate(a, l, f)
    PROVE  /\ knows' \in [Actors -> Readings]
           /\ at' = [at EXCEPT ![a] = "inspect"]
<1> DEFINE r == [Nothing EXCEPT !.linked = l, !.ends = EndsWith(f)]
<1>1. r \in Readings
  BY DEF Nothing, EndsWith, EndedStatuses, Readings
<1> HIDE DEF r
<1>2. knows' = [knows EXCEPT ![a] = r] /\ at' = [at EXCEPT ![a] = "inspect"]
  BY DEF Terminate, Recall, Goto, r
<1>3. knows \in [Actors -> Readings]
  BY DEF TypeOK, Readings
<1> QED BY <1>1, <1>2, <1>3

(* Giving up, or being done, changes nothing a completer relies on.         *)
LEMMA FinishKeepsInv ==
    ASSUME IInv, TypeOK', NEW c \in Completers, NEW f \in BOOLEAN, captured, Finish(c, f),
           UNCHANGED <<kind, prepaid, rows, logged, link, captured, returned>>
    PROVE  Inv'
<1> USE CheckoutAssumption DEF IInv, Inv, rows, TypeOK, Actors, Completers, Finish, Goto
<1>1. LinkedFirst'
  BY DEF LinkedFirst
<1>2. OpenIsIntact' /\ CompletedMeansDelivered' /\ EndedMeansWithdrawn'
  BY DEF OpenIsIntact, CompletedMeansDelivered, HandedOver, Owed, EndedMeansWithdrawn, Outcome
<1>3. Established' /\ StepsFit'
  BY DEF Established, HandedOver, Owed, StepsFit, Active
<1> QED BY <1>1, <1>2, <1>3

LEMMA CreatingKeepsTypes ==
    ASSUME TypeOK,
           \/ Open
           \/ Refused
           \/ CreatePayment
           \/ CannotCreatePayment
           \/ SaveLink
           \/ EndedBeforeLink
           \/ ProviderOpensLink
           \/ ProviderAnswers
           \/ ProviderFails
           \/ RecordHandles
           \/ SavePending
    PROVE  TypeOK'
<1> USE CheckoutAssumption DEF TypeOK, Goto, Still, Finish, Acknowledged, rows, gateway,
        Actors, Completers, Places, ActiveStatuses, EndedStatuses, Active
<1>1. CASE Open
  BY <1>1 DEF Open
<1>2. CASE Refused
  <2>1. /\ invoice' = [invoice EXCEPT !.status = IF prepaid THEN "VOIDED" ELSE @, !.deleted = TRUE]
        /\ returned' = IF prepaid THEN {"credits"} ELSE {}
        /\ benefit' = IF benefit = "pending" THEN "withdrawn" ELSE benefit
        /\ UNCHANGED <<kind, prepaid, faults, session, linked, payment, link, captured, event,
                       lock, at, knows, wallet, logged>>
    BY <1>2 DEF Refused
  <2>2. invoice' \in [status : {"DRAFT", "FINALIZED", "VOIDED"}, paid : BOOLEAN, deleted : BOOLEAN]
    BY <2>1
  <2>3. returned' \subseteq Places /\ benefit' \in {"none", "pending", "given", "withdrawn"}
    BY <2>1
  <2> QED BY <2>1, <2>2, <2>3
<1>3. CASE CreatePayment
  BY <1>3 DEF CreatePayment
<1>4. CASE CannotCreatePayment
  <2>1. knows' \in [Actors -> Readings] /\ at' = [at EXCEPT ![Creator] = "inspect"]
    BY <1>4, TerminateTypes DEF CannotCreatePayment
  <2> QED BY <1>4, <2>1 DEF CannotCreatePayment, Readings
<1>5. CASE SaveLink
  BY <1>5 DEF SaveLink, Active, ActiveStatuses
<1>6. CASE EndedBeforeLink
  <2>1. knows' \in [Actors -> Readings] /\ at' = [at EXCEPT ![Creator] = "inspect"]
    BY <1>6, TerminateTypes DEF EndedBeforeLink
  <2> QED BY <1>6, <2>1 DEF EndedBeforeLink, Readings
<1>7. CASE ProviderOpensLink
  BY <1>7 DEF ProviderOpensLink
<1>8. CASE ProviderAnswers
  BY <1>8 DEF ProviderAnswers
<1>9. CASE ProviderFails
  <2>1. CASE session = "COMPLETED"
    BY <1>9, <2>1 DEF ProviderFails
  <2>2. CASE session # "COMPLETED"
    <3>1. knows' \in [Actors -> Readings] /\ at' = [at EXCEPT ![Creator] = "inspect"]
      BY <1>9, <2>2, TerminateTypes DEF ProviderFails
    <3> QED BY <1>9, <3>1 DEF ProviderFails, Readings
  <2> QED BY <2>1, <2>2
<1>10. CASE RecordHandles
  BY <1>10 DEF RecordHandles
<1>11. CASE SavePending
  BY <1>11 DEF SavePending
<1> QED BY <1>1, <1>2, <1>3, <1>4, <1>5, <1>6, <1>7, <1>8, <1>9, <1>10, <1>11

LEMMA CreatingKeepsInv ==
    ASSUME IInv, TypeOK',
           \/ Open
           \/ Refused
           \/ CreatePayment
           \/ CannotCreatePayment
           \/ SaveLink
           \/ EndedBeforeLink
           \/ ProviderOpensLink
           \/ ProviderAnswers
           \/ ProviderFails
           \/ RecordHandles
           \/ SavePending
    PROVE  Inv'
<1> USE CheckoutAssumption DEF IInv, Inv, LinkedFirst, OpenIsIntact, Established, StepsFit,
        CompletedMeansDelivered, HandedOver, Owed, EndedMeansWithdrawn, Outcome, Active,
        ActiveStatuses, EndedStatuses, Goto, Still, Finish, rows, gateway, TypeOK, Actors, Completers, AllKinds
<1>1. CASE Open
  BY <1>1 DEF Open
<1>2. CASE Refused
  BY <1>2 DEF Refused
<1>3. CASE CreatePayment
  BY <1>3 DEF CreatePayment
<1>4. CASE CannotCreatePayment
  BY <1>4 DEF CannotCreatePayment, Terminate, Recall, EndsWith, Nothing
<1>5. CASE SaveLink
  BY <1>5 DEF SaveLink, Active, ActiveStatuses
<1>6. CASE EndedBeforeLink
  BY <1>6 DEF EndedBeforeLink, Terminate, Recall, EndsWith, Nothing
<1>7. CASE ProviderOpensLink
  <2>1. LinkedFirst'
    BY <1>7 DEF ProviderOpensLink
  <2> QED BY <1>7, <2>1 DEF ProviderOpensLink
<1>8. CASE ProviderAnswers
  BY <1>8 DEF ProviderAnswers
<1>9. CASE ProviderFails
  BY <1>9 DEF ProviderFails, Terminate, Recall, EndsWith, Nothing
<1>10. CASE RecordHandles
  <2>1. LinkedFirst' /\ Established' /\ StepsFit'
    BY <1>10 DEF RecordHandles
  <2>2. payment.status = "SUCCEEDED" => payment' = payment
    BY <1>10 DEF RecordHandles
  <2>3. LinkedFirst'
    BY <2>2, <1>10, <2>1 DEF RecordHandles
  <2>4. OpenIsIntact'
    BY <2>2, <1>10, <2>1 DEF RecordHandles
  <2>5. Established'
    BY <2>2, <1>10, <2>1 DEF RecordHandles
  <2>6. StepsFit'
    BY <2>2, <1>10, <2>1 DEF RecordHandles
  <2>7. CompletedMeansDelivered' /\ EndedMeansWithdrawn'
    <3>1. session = "COMPLETED" => payment.status = "SUCCEEDED"
      OBVIOUS
    <3>2. UNCHANGED <<kind, session, invoice, benefit, logged>>
      BY <1>10 DEF RecordHandles
    <3> QED BY <3>1, <3>2, <2>2
  <2> QED BY <2>3, <2>4, <2>5, <2>6, <2>7
<1>11. CASE SavePending
  BY <1>11 DEF SavePending
<1> QED BY <1>1, <1>2, <1>3, <1>4, <1>5, <1>6, <1>7, <1>8, <1>9, <1>10, <1>11

LEMMA CleaningKeepsTypes ==
    ASSUME TypeOK, NEW a \in Cleaners \union {Creator},
           \/ StartCleanup(a)
           \/ Inspect(a)
           \/ Commit(a)
           \/ RollBack(a)
    PROVE  TypeOK'
<1> USE CheckoutAssumption DEF TypeOK, Goto, Still, Finish, Acknowledged, rows, gateway,
        Actors, Completers, Places, ActiveStatuses, EndedStatuses, Active
<1>1. CASE StartCleanup(a)
  <2>1. PICK f \in BOOLEAN : Terminate(a, linked, f)
    BY <1>1 DEF StartCleanup
  <2>2. knows' \in [Actors -> Readings] /\ at' = [at EXCEPT ![a] = "inspect"]
    BY <2>1, TerminateTypes
  <2> QED BY <1>1, <2>2 DEF StartCleanup, Readings
<1>2. CASE Inspect(a)
  <2> DEFINE r == [knows[a] EXCEPT !.benefit = benefit,
                                   !.unreturned = invoice.paid \/ prepaid]
  <2>1. knows[a] \in Readings
    BY DEF Readings
  <2>2. r \in Readings
    BY <2>1 DEF Readings
  <2>3. knows' = [knows EXCEPT ![a] = r]
    BY <1>2 DEF Inspect, Recall
  <2>4. knows' \in [Actors -> Readings]
    BY <2>2, <2>3 DEF Readings
  <2> QED BY <1>2, <2>4 DEF Inspect, Readings
<1>3. CASE Commit(a)
  <2>1. /\ session' = knows[a].ends /\ benefit' \in {benefit, "withdrawn"}
        /\ payment' = [payment EXCEPT !.archived = @ \/ knows[a].linked]
        /\ invoice' = [invoice EXCEPT !.status = IF knows[a].unreturned THEN "VOIDED" ELSE @,
                                      !.deleted = TRUE]
        /\ at' = [at EXCEPT ![a] = "idle"]
        /\ UNCHANGED <<kind, prepaid, wallet, logged, faults, linked, link, captured, event, lock,
                       knows>>
    BY <1>3 DEF Commit, Withdrawn
  <2>2. returned' \subseteq Places
    BY <1>3 DEF Commit
  <2>3. payment' \in [status : {"none", "INITIATED", "PENDING", "SUCCEEDED", "REFUNDED"},
                      archived : BOOLEAN]
    BY <2>1
  <2>4. invoice' \in [status : {"DRAFT", "FINALIZED", "VOIDED"}, paid : BOOLEAN, deleted : BOOLEAN]
    BY <2>1
  <2>5. session' \in EndedStatuses
    BY <2>1
  <2> QED BY <2>1, <2>2, <2>3, <2>4, <2>5
<1>4. CASE RollBack(a)
  BY <1>4 DEF RollBack
<1> QED BY <1>1, <1>2, <1>3, <1>4

LEMMA CleaningKeepsInv ==
    ASSUME IInv, TypeOK', NEW a \in Cleaners \union {Creator},
           \/ StartCleanup(a)
           \/ Inspect(a)
           \/ Commit(a)
           \/ RollBack(a)
    PROVE  Inv'
<1> USE CheckoutAssumption DEF IInv, Inv, LinkedFirst, OpenIsIntact, Established, StepsFit,
        CompletedMeansDelivered, HandedOver, Owed, EndedMeansWithdrawn, Outcome, Active,
        ActiveStatuses, EndedStatuses, Goto, Still, Finish, rows, gateway, TypeOK, Actors, Completers, AllKinds
<1>1. CASE StartCleanup(a)
  <2>1. at' = [at EXCEPT ![a] = "inspect"] /\ at[a] = "idle"
    BY <1>1 DEF StartCleanup, Terminate
  <2>2. UNCHANGED <<kind, prepaid, session, linked, payment, invoice, benefit, logged,
                    link, captured, event, returned>>
    BY <1>1 DEF StartCleanup
  <2>3. LinkedFirst'
    BY <2>1, <2>2 DEF Outcome
  <2>4. OpenIsIntact'
    BY <2>1, <2>2 DEF Outcome
  <2>5. Established'
    BY <2>1, <2>2 DEF Outcome
  <2>6. StepsFit'
    BY <2>1, <2>2 DEF Outcome
  <2>7. CompletedMeansDelivered' /\ EndedMeansWithdrawn'
    BY <2>1, <2>2 DEF Outcome
  <2> QED BY <2>3, <2>4, <2>5, <2>6, <2>7
<1>2. CASE Inspect(a)
  BY <1>2 DEF Inspect, Recall
<1>3. CASE Commit(a)
  <2>1. /\ Active /\ session' = knows[a].ends /\ session' \in EndedStatuses
        /\ at' = [at EXCEPT ![a] = "idle"]
        /\ invoice'.deleted /\ invoice'.paid = invoice.paid
        /\ UNCHANGED <<kind, prepaid, faults, linked, link, captured, event, lock, knows>>
    BY <1>3 DEF Commit
  <2>2. /\ kind \in {"topup", "subscription"} => benefit' = "withdrawn"
        /\ kind = "invoice" => benefit' = "none"
        /\ benefit' = "none" => kind \in {"invoice", "modify"}
    BY <1>3 DEF Commit, Withdrawn, AlreadySettled
  <2>3. LinkedFirst'
    BY <2>1
  <2>4. OpenIsIntact' /\ Established'
    BY <2>1
  <2>5. StepsFit'
    BY <2>1, <2>2
  <2>6. CompletedMeansDelivered' /\ EndedMeansWithdrawn'
    BY <2>1, <2>2
  <2> QED BY <2>3, <2>4, <2>5, <2>6
<1>4. CASE RollBack(a)
  BY <1>4 DEF RollBack
<1> QED BY <1>1, <1>2, <1>3, <1>4

LEMMA CompletingKeepsTypes ==
    ASSUME TypeOK, NEW c \in Completers,
           \/ Poll(c)
           \/ Get(c)
           \/ CheckWallet(c)
           \/ ApplyAddon(c)
           \/ ApplyChange(c)
           \/ ReadInvoice(c)
           \/ FinalizeInvoice(c)
           \/ SettlePayment(c)
           \/ Reconcile(c)
           \/ Grant(c)
           \/ Claim(c)
    PROVE  TypeOK'
<1> USE CheckoutAssumption DEF TypeOK, Goto, Still, Finish, Acknowledged, rows, gateway,
        Actors, Completers, Places, ActiveStatuses, EndedStatuses, Active
<1>1. CASE Poll(c)
  BY <1>1 DEF Poll
<1>2. CASE Get(c)
  BY <1>2 DEF Get, FirstStep
<1>10. CASE CheckWallet(c)
  BY <1>10 DEF CheckWallet
<1>3. CASE ApplyAddon(c) \/ ApplyChange(c)
  <2>1. benefit' = "given" /\ at' = [at EXCEPT ![c] = "invoice"]
    BY <1>3 DEF ApplyAddon, ApplyChange
  <2>2. UNCHANGED <<kind, prepaid, faults, session, linked, payment, invoice, link, captured, event,
                    returned, lock, knows, wallet, logged>>
    BY <1>3 DEF ApplyAddon, ApplyChange
  <2> QED BY <2>1, <2>2
<1>4. CASE ReadInvoice(c)
  BY <1>4 DEF ReadInvoice
<1>5. CASE FinalizeInvoice(c)
  BY <1>5 DEF FinalizeInvoice
<1>6. CASE SettlePayment(c)
  BY <1>6 DEF SettlePayment
<1>7. CASE Reconcile(c)
  <2>1. CASE invoice.status \in {"DRAFT", "FINALIZED"} /\ ~invoice.deleted
    <3>1. PICK step \in {"grant", "claim"} : at' = [at EXCEPT ![c] = step]
      BY <1>7, <2>1 DEF Reconcile
    <3>2. invoice' = [invoice EXCEPT !.paid = TRUE] /\ event' = event
      BY <1>7, <2>1 DEF Reconcile
    <3>3. invoice' \in [status : {"DRAFT", "FINALIZED", "VOIDED"}, paid : BOOLEAN, deleted : BOOLEAN]
      BY <3>2
    <3> QED BY <1>7, <2>1, <3>1, <3>2, <3>3 DEF Reconcile
  <2>2. CASE ~(invoice.status \in {"DRAFT", "FINALIZED"} /\ ~invoice.deleted)
    BY <1>7, <2>2 DEF Reconcile
  <2> QED BY <2>1, <2>2
<1>8. CASE Grant(c)
  BY <1>8 DEF Grant, Published
<1>9. CASE Claim(c)
  BY <1>9 DEF Claim, Claimable
<1> QED BY <1>1, <1>2, <1>3, <1>4, <1>5, <1>6, <1>7, <1>8, <1>9, <1>10

LEMMA CompletingKeepsInv ==
    ASSUME IInv, TypeOK', NEW c \in Completers,
           \/ Poll(c)
           \/ Get(c)
           \/ CheckWallet(c)
           \/ ApplyAddon(c)
           \/ ApplyChange(c)
           \/ ReadInvoice(c)
           \/ FinalizeInvoice(c)
           \/ SettlePayment(c)
           \/ Reconcile(c)
           \/ Grant(c)
           \/ Claim(c)
    PROVE  Inv'
<1> USE CheckoutAssumption DEF IInv, Inv, LinkedFirst, OpenIsIntact, Established, StepsFit,
        CompletedMeansDelivered, HandedOver, Owed, EndedMeansWithdrawn, Outcome, Active,
        ActiveStatuses, EndedStatuses, Goto, Still, Finish, rows, gateway, TypeOK, Actors, Completers, AllKinds
<1>1. CASE Poll(c)
  BY <1>1 DEF Poll
<1>2. CASE Get(c)
  <2>1. CASE Active
    BY <1>2, <2>1 DEF Get, FirstStep
  <2>2. CASE ~(Active)
    BY <1>2, <2>2, FinishKeepsInv DEF Get
  <2> QED BY <2>1, <2>2
<1>10. CASE CheckWallet(c)
  <2>1. CASE wallet = "active"
    BY <1>10, <2>1 DEF CheckWallet
  <2>2. CASE wallet # "active"
    BY <1>10, <2>2, FinishKeepsInv DEF CheckWallet
  <2> QED BY <2>1, <2>2
<1>3. CASE ApplyAddon(c) \/ ApplyChange(c)
  BY <1>3 DEF ApplyAddon, ApplyChange
<1>4. CASE ReadInvoice(c)
  BY <1>4 DEF ReadInvoice
<1>5. CASE FinalizeInvoice(c)
  <2>1. CASE invoice.status = "DRAFT" /\ ~invoice.deleted
    BY <1>5, <2>1 DEF FinalizeInvoice
  <2>2. CASE ~(invoice.status = "DRAFT" /\ ~invoice.deleted)
    BY <1>5, <2>2, FinishKeepsInv DEF FinalizeInvoice
  <2> QED BY <2>1, <2>2
<1>6. CASE SettlePayment(c)
  <2>1. CASE payment.status # "REFUNDED"
    BY <1>6, <2>1 DEF SettlePayment
  <2>2. CASE ~(payment.status # "REFUNDED")
    BY <1>6, <2>2, FinishKeepsInv DEF SettlePayment
  <2> QED BY <2>1, <2>2
<1>7. CASE Reconcile(c)
  <2>1. CASE invoice.status \in {"DRAFT", "FINALIZED"} /\ ~invoice.deleted
    BY <1>7, <2>1 DEF Reconcile
  <2>2. CASE ~(invoice.status \in {"DRAFT", "FINALIZED"} /\ ~invoice.deleted)
    <3>1. /\ at[c] = "reconcile" /\ Finish(c, TRUE)
          /\ UNCHANGED <<kind, prepaid, rows, logged, link, captured, returned>>
      BY <1>7, <2>2 DEF Reconcile
    <3>2. captured
      BY <3>1
    <3> QED BY <3>1, <3>2, FinishKeepsInv
  <2> QED BY <2>1, <2>2
<1>8. CASE Grant(c)
  <2>1. CASE Published \/ kind = "topup"
    <3>1. at' = [at EXCEPT ![c] = "claim"] /\ benefit' \in {benefit, "given"} /\ captured
      BY <1>8, <2>1 DEF Grant, Published
    <3>2. Active => benefit' = "given"
      BY <1>8, <2>1 DEF Grant, Published
    <3>3. LinkedFirst'
      BY <1>8, <2>1, <3>1, <3>2 DEF Grant
    <3>4. OpenIsIntact'
      BY <1>8, <2>1, <3>1, <3>2 DEF Grant
    <3>5. Established'
      BY <1>8, <2>1, <3>1, <3>2 DEF Grant
    <3>6. StepsFit'
      BY <1>8, <2>1, <3>1, <3>2 DEF Grant
    <3>7. CompletedMeansDelivered' /\ EndedMeansWithdrawn'
      <4>1. UNCHANGED <<kind, session, invoice, payment, logged>> /\ at[c] = "grant"
        BY <1>8 DEF Grant
      <4>2. benefit' = IF benefit # "withdrawn" THEN "given" ELSE benefit
        BY <1>8 DEF Grant, Published
      <4> QED BY <4>1, <4>2
    <3> QED BY <3>3, <3>4, <3>5, <3>6, <3>7
  <2>2. CASE ~(Published \/ kind = "topup")
    BY <1>8, <2>2, FinishKeepsInv DEF Grant, Published
  <2> QED BY <2>1, <2>2
<1>9. CASE Claim(c)
  <2>1. at[c] = "claim" /\ at' = [at EXCEPT ![c] = "idle"]
    BY <1>9 DEF Claim
  <2>2. UNCHANGED <<kind, prepaid, faults, linked, payment, invoice, benefit, link, captured,
                    returned, lock, knows, logged>>
    BY <1>9 DEF Claim
  <2>3. CASE Active
    <3>1. session' = "COMPLETED"
      BY <1>9, <2>3 DEF Claim, Claimable
    <3> QED BY <2>1, <2>2, <2>3, <3>1
  <2>4. CASE ~Active
    <3>1. session' = session
      BY <1>9, <2>4 DEF Claim, Claimable
    <3>2. captured /\ Finish(c, FALSE)
      BY <1>9, <2>1 DEF Claim
    <3> QED BY <2>2, <3>1, <3>2, FinishKeepsInv
  <2> QED BY <2>3, <2>4
<1> QED BY <1>1, <1>2, <1>3, <1>4, <1>5, <1>6, <1>7, <1>8, <1>9, <1>10

LEMMA RefundingKeepsTypes ==
    ASSUME TypeOK, NEW w \in Webhooks,
           \/ Deliver(w)
           \/ LockRefund(w)
           \/ RefundAtGateway(w)
           \/ SettleLate(w)
           \/ RecordRefund(w)
           \/ RefundRefused(w)
    PROVE  TypeOK'
<1> USE CheckoutAssumption DEF TypeOK, Goto, Still, Finish, Acknowledged, rows, gateway,
        Actors, Completers, Places, ActiveStatuses, EndedStatuses, Active
<1>1. CASE Deliver(w)
  BY <1>1 DEF Deliver, Late
<1>2. CASE LockRefund(w)
  BY <1>2 DEF LockRefund
<1>3. CASE RefundAtGateway(w)
  BY <1>3 DEF RefundAtGateway
<1>4. CASE SettleLate(w)
  BY <1>4 DEF SettleLate
<1>5. CASE RecordRefund(w)
  <2>1. /\ payment' = [payment EXCEPT !.status = "REFUNDED"] /\ lock' = None
        /\ at' = [at EXCEPT ![w] = "idle"] /\ event' = [event EXCEPT ![w] = "acked"]
        /\ UNCHANGED <<kind, prepaid, faults, session, linked, invoice, benefit, link, captured,
                       returned, knows, wallet, logged>>
    BY <1>5 DEF RecordRefund
  <2>2. payment' \in [status : {"none", "INITIATED", "PENDING", "SUCCEEDED", "REFUNDED"},
                      archived : BOOLEAN]
    BY <2>1
  <2>3. at' \in [Actors -> {"idle", "payment", "link", "provider", "answer", "handles", "save",
                            "inspect", "commit", "get", "wallet", "apply", "invoice", "finalize",
                            "settle", "reconcile", "grant", "claim", "lock", "refund", "settleLate",
                            "record"}]
    BY <2>1
  <2> QED BY <2>1, <2>2, <2>3
<1>6. CASE RefundRefused(w)
  BY <1>6 DEF RefundRefused, Fault
<1> QED BY <1>1, <1>2, <1>3, <1>4, <1>5, <1>6

(* Once the session has ended, only the completers' own steps still matter. *)
LEMMA LateStepKeepsInv ==
    ASSUME IInv, TypeOK', NEW w \in Webhooks, session \in EndedStatuses, captured,
           UNCHANGED <<kind, session, linked, invoice, benefit, logged, link, captured>>,
           NEW step \in {"refund", "settleLate", "record", "idle"}, Goto(w, step)
    PROVE  Inv'
<1> USE CheckoutAssumption DEF IInv, Inv, TypeOK, Actors, Completers, Goto
<1>1. session' \in EndedStatuses /\ captured'
  OBVIOUS
<1>2. LinkedFirst'
  BY <1>1 DEF LinkedFirst, EndedStatuses
<1>3. OpenIsIntact' /\ CompletedMeansDelivered' /\ EndedMeansWithdrawn'
  BY <1>1 DEF OpenIsIntact, CompletedMeansDelivered, HandedOver, Owed, EndedMeansWithdrawn,
     Outcome, EndedStatuses
<1>4. Established'
  BY <1>1 DEF Established, Active, ActiveStatuses, EndedStatuses
<1>5. StepsFit'
  BY <1>1 DEF StepsFit
<1> QED BY <1>2, <1>3, <1>4, <1>5

LEMMA RefundingKeepsInv ==
    ASSUME IInv, TypeOK', NEW w \in Webhooks,
           \/ Deliver(w)
           \/ LockRefund(w)
           \/ RefundAtGateway(w)
           \/ SettleLate(w)
           \/ RecordRefund(w)
           \/ RefundRefused(w)
    PROVE  Inv'
<1> USE CheckoutAssumption DEF IInv, Inv, LinkedFirst, OpenIsIntact, Established, StepsFit,
        CompletedMeansDelivered, HandedOver, Owed, EndedMeansWithdrawn, Outcome, Active,
        ActiveStatuses, EndedStatuses, Goto, Still, Finish, rows, gateway, TypeOK, Actors, Completers, AllKinds
<1>1. CASE Deliver(w)
  <2>1. CASE Active
    <3>1. session \notin EndedStatuses /\ captured
      BY <1>1, <2>1 DEF Deliver
    <3>2. at' = [at EXCEPT ![w] = "get"] /\ event' = event
      BY <1>1, <2>1, <3>1 DEF Deliver, Late
    <3> QED BY <1>1, <2>1, <3>1, <3>2 DEF Deliver
  <2>2. CASE session \in EndedStatuses
    <3>1. at' = [at EXCEPT ![w] = "lock"] /\ event' = event /\ captured
      BY <1>1, <2>2 DEF Deliver, Late
    <3> QED BY <1>1, <2>2, <3>1 DEF Deliver
  <2>3. CASE ~Active /\ session \notin EndedStatuses
    BY <1>1, <2>3, FinishKeepsInv DEF Deliver, Late
  <2> QED BY <2>1, <2>2, <2>3
<1>2. CASE LockRefund(w)
  <2>1. CASE lock = None /\ payment.status # "REFUNDED"
    BY <1>2, <2>1 DEF LockRefund
  <2>2. CASE ~(lock = None /\ payment.status # "REFUNDED")
    <3>1. at[w] = "lock" /\ Finish(w, FALSE)
          /\ UNCHANGED <<kind, prepaid, rows, logged, link, captured, returned>>
      BY <1>2, <2>2 DEF LockRefund
    <3>2. captured
      BY <3>1
    <3> QED BY <3>1, <3>2, FinishKeepsInv
  <2> QED BY <2>1, <2>2
<1>3. CASE RefundAtGateway(w)
  <2>1. session \in EndedStatuses /\ captured
    BY <1>3 DEF RefundAtGateway
  <2> QED BY <1>3, <2>1, LateStepKeepsInv DEF RefundAtGateway
<1>4. CASE SettleLate(w)
  <2>1. session \in EndedStatuses /\ captured
    BY <1>4 DEF SettleLate
  <2> QED BY <1>4, <2>1, LateStepKeepsInv DEF SettleLate
<1>5. CASE RecordRefund(w)
  <2>1. session \in EndedStatuses /\ captured
    BY <1>5 DEF RecordRefund
  <2>2. /\ UNCHANGED <<kind, session, linked, invoice, benefit, logged, link, captured>>
        /\ at' = [at EXCEPT ![w] = "idle"]
    BY <1>5 DEF RecordRefund
  <2> HIDE DEF IInv, Inv, TypeOK, Goto
  <2>3. Goto(w, "idle")
    BY <2>2 DEF Goto
  <2> QED BY <2>1, <2>2, <2>3, LateStepKeepsInv
<1>6. CASE RefundRefused(w)
  <2>1. session \in EndedStatuses /\ captured
    BY <1>6 DEF RefundRefused
  <2>2. /\ UNCHANGED <<kind, session, linked, invoice, benefit, logged, link, captured>>
        /\ at' = [at EXCEPT ![w] = "idle"]
    BY <1>6 DEF RefundRefused, Fault
  <2> HIDE DEF IInv, Inv, TypeOK, Goto
  <2>3. Goto(w, "idle")
    BY <2>2 DEF Goto
  <2> QED BY <2>1, <2>2, <2>3, LateStepKeepsInv
<1> QED BY <1>1, <1>2, <1>3, <1>4, <1>5, <1>6

LEMMA FailingKeepsTypes ==
    ASSUME TypeOK, NEW a \in Actors,
           \/ Capture
           \/ LockExpires
           \/ \E c \in Completers : CompletionFails(c)
           \/ \E c \in Completers : GrantFails(c)
           \/ WalletCloses
           \/ Crash(a)
    PROVE  TypeOK'
<1> USE CheckoutAssumption DEF TypeOK, Goto, Still, Finish, Acknowledged, rows, gateway,
        Actors, Completers, Places, ActiveStatuses, EndedStatuses, Active
<1>1. CASE Capture
  BY <1>1 DEF Capture
<1>2. CASE LockExpires
  BY <1>2 DEF LockExpires
<1>3. CASE \E c \in Completers : CompletionFails(c)
  BY <1>3 DEF CompletionFails, Fault
<1>4. CASE Crash(a)
  BY <1>4 DEF Crash, Fault
<1>5. CASE \E c \in Completers : GrantFails(c)
  BY <1>5 DEF GrantFails, Fault
<1>6. CASE WalletCloses
  BY <1>6 DEF WalletCloses
<1> QED BY <1>1, <1>2, <1>3, <1>4, <1>5, <1>6

LEMMA FailingKeepsInv ==
    ASSUME IInv, TypeOK', NEW a \in Actors,
           \/ Capture
           \/ LockExpires
           \/ \E c \in Completers : CompletionFails(c)
           \/ \E c \in Completers : GrantFails(c)
           \/ WalletCloses
           \/ Crash(a)
    PROVE  Inv'
<1> USE CheckoutAssumption DEF IInv, Inv, LinkedFirst, OpenIsIntact, Established, StepsFit,
        CompletedMeansDelivered, HandedOver, Owed, EndedMeansWithdrawn, Outcome, Active,
        ActiveStatuses, EndedStatuses, Goto, Still, Finish, rows, gateway, TypeOK, Actors, Completers, AllKinds
<1>1. CASE Capture
  BY <1>1 DEF Capture
<1>2. CASE LockExpires
  BY <1>2 DEF LockExpires
<1>3. CASE \E c \in Completers : CompletionFails(c)
  <2>1. PICK c \in Completers : CompletionFails(c)
    BY <1>3
  <2>2. /\ at[c] # "idle" /\ Finish(c, TRUE)
        /\ UNCHANGED <<kind, prepaid, rows, logged, link, captured, returned>>
    BY <2>1 DEF CompletionFails, Fault
  <2>3. captured
    BY <2>2
  <2> QED BY <2>2, <2>3, FinishKeepsInv
<1>4. CASE Crash(a)
  BY <1>4 DEF Crash, Fault
<1>5. CASE \E c \in Completers : GrantFails(c)
  BY <1>5 DEF GrantFails, Fault
<1>6. CASE WalletCloses
  BY <1>6 DEF WalletCloses
<1> QED BY <1>1, <1>2, <1>3, <1>4, <1>5, <1>6

-----------------------------------------------------------------------------
LEMMA InvInit == Init => IInv
<1> SUFFICES ASSUME Init PROVE IInv
    OBVIOUS
<1> USE CheckoutAssumption DEF Init, AllKinds
<1>1. TypeOK
  <2>1. knows \in [Actors -> Readings]
    BY DEF Nothing, Readings, EndedStatuses
  <2>2. faults \in 0 .. MaxFaults
    OBVIOUS
  <2>3. prepaid \in BOOLEAN
    <3>1. CASE kind = "invoice"
      BY <3>1, Zenon
    <3>2. CASE kind # "invoice"
      <4>1. prepaid \in {FALSE}
        BY <3>2, Zenon
      <4> QED BY <4>1
    <3> QED BY <3>1, <3>2
  <2> QED BY <2>1, <2>2, <2>3 DEF TypeOK, Readings, ActiveStatuses, EndedStatuses, Places
<1>2. LinkedFirst
  BY DEF LinkedFirst, Actors, Completers
<1>3. OpenIsIntact /\ CompletedMeansDelivered /\ EndedMeansWithdrawn
  BY DEF OpenIsIntact, CompletedMeansDelivered, EndedMeansWithdrawn, EndedStatuses
<1>4. Established /\ StepsFit
  BY DEF Established, StepsFit, Active, ActiveStatuses, Actors, Completers
<1> QED BY <1>1, <1>2, <1>3, <1>4 DEF IInv, Inv

LEMMA TypesStep == TypeOK /\ [Next]_vars => TypeOK'
<1> SUFFICES ASSUME TypeOK, [Next]_vars PROVE TypeOK'
    OBVIOUS
<1>1. CASE UNCHANGED vars
  BY <1>1 DEF TypeOK, vars, rows, gateway
<1>2. CASE Next
  BY <1>2, CreatingKeepsTypes, CleaningKeepsTypes, CompletingKeepsTypes, RefundingKeepsTypes,
     FailingKeepsTypes
  DEF Next, Create, Clean, Cleanup, Webhook, Complete, RefundLate, Actors, Completers
<1> QED BY <1>1, <1>2

LEMMA InvStep == IInv /\ [Next]_vars => IInv'
<1> SUFFICES ASSUME IInv, [Next]_vars PROVE IInv'
    OBVIOUS
<1>1. TypeOK'
  BY TypesStep DEF IInv
<1>2. CASE UNCHANGED vars
  BY <1>1, <1>2 DEF IInv, Inv, LinkedFirst, OpenIsIntact, Established, StepsFit,
     CompletedMeansDelivered, HandedOver, Owed, EndedMeansWithdrawn, Outcome, Active, vars, rows, gateway
<1>3. CASE Next
  BY <1>1, <1>3, CreatingKeepsInv, CleaningKeepsInv, CompletingKeepsInv, RefundingKeepsInv,
     FailingKeepsInv
  DEF IInv, Next, Create, Clean, Cleanup, Webhook, Complete, RefundLate, Actors, Completers
<1> QED BY <1>1, <1>2, <1>3 DEF IInv

LEMMA Invariance == Spec => []IInv
  BY InvInit, InvStep, PTL DEF Spec

(* Every variable keeps its type, for every set of actors and any number of *)
(* faults (checkout_session.go and its callers).                            *)
THEOREM CheckoutTypes == Spec => []TypeOK
  BY Invariance, PTL DEF IInv

(* A session that says COMPLETED was delivered in full, whoever completed   *)
(* it and whatever ran beside (MarkCompleted after the side effects); only  *)
(* a top-up's purchase may be pending still, after a failure that           *)
(* ReconcilePaymentStatus has logged, and it was not withdrawn.             *)
THEOREM CompletedIsDelivered == Spec => []CompletedMeansDelivered
  BY Invariance, PTL DEF IInv, Inv

(* What an ended session was to sell stays withdrawn, whoever is still      *)
(* completing it (cleanupCheckoutResources).                                *)
THEOREM EndedIsWithdrawn == Spec => []EndedMeansWithdrawn
  BY Invariance, PTL DEF IInv, Inv

-----------------------------------------------------------------------------
LEMMA PromiseInit == Init => Promise!Init
  BY DEF Init, Promise!Init, Outcome, ActiveStatuses, EndedStatuses

(* The steps the promise sees.                                              *)
LEMMA CommitDrops ==
    ASSUME IInv, NEW a \in Actors, Commit(a)
    PROVE  Promise!Drop
<1> USE DEF IInv, TypeOK, Inv
<1>1. Outcome = "open" /\ Outcome' = "dropped"
  BY DEF Commit, Outcome, Active, ActiveStatuses, EndedStatuses
<1>2. returned = {} /\ UNCHANGED captured
  BY <1>1 DEF OpenIsIntact, Commit, Still, gateway
<1>3. returned' \in SUBSET (IF captured THEN {"wallet", "credits"} ELSE {"credits"})
  BY <1>2 DEF Commit, LinkedFirst
<1> QED BY <1>1, <1>2, <1>3 DEF Promise!Drop

LEMMA ClaimDelivers ==
    ASSUME IInv, NEW c \in Completers, Claim(c)
    PROVE  Promise!Deliver \/ UNCHANGED Promise!vars
<1> USE DEF IInv, TypeOK, Inv
<1>1. UNCHANGED <<captured, returned, invoice>>
  BY DEF Claim, Still
<1>2. CASE Active
  <2>1. Outcome = "open" /\ Outcome' = "delivered"
    BY <1>2 DEF Claim, Claimable, Outcome, Active, ActiveStatuses, EndedStatuses
  <2>2. captured
    BY DEF Claim, LinkedFirst
  <2> QED BY <1>1, <2>1, <2>2 DEF Promise!Deliver
<1>3. CASE ~Active
  <2>1. session' = session
    BY <1>3 DEF Claim, Claimable
  <2> QED BY <1>1, <2>1 DEF Promise!vars, Outcome
<1> QED BY <1>2, <1>3

LEMMA RefusedDrops ==
    ASSUME IInv, Refused
    PROVE  Promise!Drop
<1>1. Outcome = "open" /\ Outcome' = "dropped"
  BY DEF Refused, Still, Outcome, EndedStatuses
<1> QED BY <1>1 DEF Refused, Still, gateway, Promise!Drop

LEMMA RefundReturns ==
    ASSUME IInv, NEW w \in Webhooks, RefundAtGateway(w)
    PROVE  Promise!Return
<1>1. session \in EndedStatuses /\ captured
  BY DEF IInv, Inv, StepsFit, LinkedFirst, RefundAtGateway, Completers
<1>2. UNCHANGED <<session, invoice, captured>> /\ returned' = returned \union {"gateway"}
  BY DEF RefundAtGateway, Still, rows, gateway
<1>3. Outcome = "dropped" /\ Outcome' = "dropped"
  BY <1>1, <1>2 DEF Outcome, EndedStatuses
<1> QED BY <1>1, <1>2, <1>3 DEF Promise!Return

(* All the others leave the outcome and the money alone.                    *)
LEMMA QuietSteps ==
    ASSUME IInv,
           \/ CreatePayment \/ CannotCreatePayment \/ SaveLink \/ EndedBeforeLink
           \/ ProviderOpensLink \/ ProviderAnswers \/ ProviderFails \/ RecordHandles
           \/ WalletCloses
           \/ \E a \in Actors : StartCleanup(a) \/ Inspect(a) \/ RollBack(a) \/ Crash(a)
           \/ \E c \in Completers :
                 \/ Poll(c) \/ Get(c) \/ CheckWallet(c) \/ ApplyAddon(c) \/ ApplyChange(c)
                 \/ ReadInvoice(c) \/ FinalizeInvoice(c) \/ SettlePayment(c) \/ Reconcile(c)
                 \/ Grant(c) \/ GrantFails(c) \/ CompletionFails(c)
           \/ \E w \in Webhooks :
                 \/ Deliver(w) \/ LockRefund(w) \/ SettleLate(w) \/ RecordRefund(w)
                 \/ RefundRefused(w)
           \/ LockExpires
    PROVE  UNCHANGED Promise!vars
<1> DEFINE Quiet == UNCHANGED <<session, captured, returned>> /\ invoice'.deleted = invoice.deleted
<1>1. Quiet => UNCHANGED Promise!vars
  BY DEF Outcome, Promise!vars
<1>2. ASSUME \/ CreatePayment \/ CannotCreatePayment \/ SaveLink \/ EndedBeforeLink
             \/ ProviderOpensLink \/ ProviderAnswers \/ ProviderFails \/ RecordHandles
             \/ WalletCloses \/ LockExpires
      PROVE  Quiet
  BY <1>2 DEF CreatePayment, CannotCreatePayment, SaveLink, EndedBeforeLink, ProviderOpensLink,
     ProviderAnswers, ProviderFails, RecordHandles, WalletCloses, LockExpires, Still, rows, gateway
<1>3. ASSUME NEW a \in Actors, StartCleanup(a) \/ Inspect(a) \/ RollBack(a) \/ Crash(a)
      PROVE  Quiet
  BY <1>3 DEF StartCleanup, Inspect, RollBack, Crash, Still, Fault, rows, gateway
<1>4. ASSUME NEW c \in Completers,
             \/ Poll(c) \/ Get(c) \/ CheckWallet(c) \/ ApplyAddon(c) \/ ApplyChange(c)
             \/ ReadInvoice(c) \/ SettlePayment(c)
             \/ Grant(c) \/ GrantFails(c) \/ CompletionFails(c)
      PROVE  Quiet
  BY <1>4 DEF Poll, Get, CheckWallet, ApplyAddon, ApplyChange, ReadInvoice, SettlePayment, Grant,
     GrantFails, CompletionFails, Still, Fault, rows, gateway
<1>5. ASSUME NEW c \in Completers, FinalizeInvoice(c) \/ Reconcile(c)
      PROVE  Quiet
  BY <1>5 DEF IInv, TypeOK, FinalizeInvoice, Reconcile, Still
<1>6. ASSUME NEW w \in Webhooks,
             \/ Deliver(w) \/ LockRefund(w) \/ SettleLate(w) \/ RecordRefund(w)
             \/ RefundRefused(w)
      PROVE  Quiet
  BY <1>6 DEF Deliver, LockRefund, SettleLate, RecordRefund, RefundRefused, Still, Fault, rows,
     gateway
<1> QED BY <1>1, <1>2, <1>3, <1>4, <1>5, <1>6

LEMMA PromiseStep == IInv /\ [Next]_vars => [Promise!Next]_(Promise!vars)
<1> SUFFICES ASSUME IInv, [Next]_vars PROVE [Promise!Next]_(Promise!vars)
    OBVIOUS
<1>1. CASE UNCHANGED vars
  BY <1>1 DEF vars, rows, gateway, Outcome, Promise!vars
<1>2. CASE Open
  BY <1>2 DEF Open, Still, gateway, Outcome, EndedStatuses, Promise!vars
<1>3. CASE SavePending
  BY <1>3 DEF SavePending, Still, gateway, Outcome, Active, ActiveStatuses, EndedStatuses,
     Promise!vars
<1>4. CASE Capture
  BY <1>4 DEF Capture, Still, rows, Outcome, Promise!Charge, Promise!Next
<1>5. CASE Refused
  BY <1>5, RefusedDrops DEF Promise!Next
<1>6. CASE \E a \in Actors : Commit(a)
  BY <1>6, CommitDrops DEF Promise!Next
<1>7. CASE \E c \in Completers : Claim(c)
  BY <1>7, ClaimDelivers DEF Promise!Next
<1>8. CASE \E w \in Webhooks : RefundAtGateway(w)
  BY <1>8, RefundReturns DEF Promise!Next
<1>9. CASE Next /\ ~Open /\ ~SavePending /\ ~Capture /\ ~Refused
           /\ ~(\E a \in Actors : Commit(a)) /\ ~(\E c \in Completers : Claim(c))
           /\ ~(\E w \in Webhooks : RefundAtGateway(w))
  BY <1>9, QuietSteps
  DEF Next, Create, Clean, Cleanup, Webhook, Complete, RefundLate, Actors, Completers
<1> QED BY <1>1, <1>2, <1>3, <1>4, <1>5, <1>6, <1>7, <1>8, <1>9

(* Decided once, delivered only against a captured payment, and nothing     *)
(* sent back unless the session was dropped: for any number of events.      *)
THEOREM CheckoutKeepsPromise == Spec => ImplementsPromise
<1>1. Spec => Promise!Init
  BY PromiseInit DEF Spec
<1>2. Spec => [][Promise!Next]_(Promise!vars)
  BY Invariance, PromiseStep, PTL DEF Spec
<1> QED BY <1>1, <1>2 DEF ImplementsPromise, Promise!Spec

(* No customer keeps both the product and the money: whatever was sent back *)
(* went back because the session was dropped.                               *)
THEOREM NeverProductAndMoney == Spec => []Promise!NeverBoth
<1>1. Promise!Init => Promise!NeverBoth
  BY DEF Promise!Init, Promise!NeverBoth
<1>2. Promise!NeverBoth /\ [Promise!Next]_(Promise!vars) => Promise!NeverBoth'
  BY DEF Promise!NeverBoth, Promise!Next, Promise!vars, Promise!Charge, Promise!Deliver,
     Promise!Drop, Promise!Return
<1>3. Promise!Spec => []Promise!NeverBoth
  BY <1>1, <1>2, PTL DEF Promise!Spec
<1> QED BY <1>3, CheckoutKeepsPromise DEF ImplementsPromise
=============================================================================
