------------------------------ MODULE Checkout ------------------------------
(****************************************************************************)
(* One pay-first checkout session of checkout_session.go: the request that  *)
(* opens it and calls the provider, the webhooks and polls that complete    *)
(* it, the cleanups that end it (expiry sweep, cancel, supersede, a failed  *)
(* payment link) and the refund of a payment captured after it ended.       *)
(*                                                                          *)
(* Completing runs as separate statements and claims the session last, by a *)
(* conditional update; cleaning up is one transaction that claims the       *)
(* session too and rolls back when it cannot.  A transaction is two steps   *)
(* here, what it reads without a lock and its commit.                       *)
(****************************************************************************)
EXTENDS Naturals, FiniteSets

CONSTANTS
    Kinds,          \* the checkout actions tried: subset of AllKinds
    Creator,        \* the request that opens the session
    Webhooks,       \* the provider's events about the captured payment
    Polls,          \* clients reading the session
    Cleaners,       \* sweeps, cancels and failed payment links
    Redelivers,     \* whether a webhook that fails is delivered again
    MaxFaults,      \* bound: crashes, failed statements and refused refunds
    None            \* nobody

AllKinds == {"topup", "subscription", "addon", "modify", "invoice"}

ASSUME CheckoutAssumption ==
    /\ Kinds \subseteq AllKinds
    /\ Redelivers \in BOOLEAN /\ MaxFaults \in Nat
    /\ Creator \notin Webhooks \union Polls \union Cleaners
    /\ Webhooks \intersect Polls = {} /\ Webhooks \intersect Cleaners = {}
    /\ Polls \intersect Cleaners = {}
    /\ None \notin {Creator} \union Webhooks \union Polls \union Cleaners

VARIABLES
    kind,           \* what the session sells
    prepaid,        \* whether prepaid credits cover part of the invoice
    session,        \* checkout_status, "none" before the row exists
    linked,         \* whether the row carries checkout_payment_id
    payment,        \* the checkout payment: its status, and archived or not
    invoice,        \* the gated invoice: its status, paid, deleted
    benefit,        \* the pending purchase, draft subscription or pending addon
    wallet,         \* the wallet topped up: "active" or "closed"
    logged,         \* whether a purchase could not be granted and that was only logged
    link,           \* whether the provider has something payable
    captured,       \* whether the provider has taken the money
    returned,       \* where value was sent back: subset of Places
    event,          \* each webhook event: "none", "queued" or "acked"
    lock,           \* the late-capture refund lock: its holder or None
    at,             \* the step each actor takes next
    knows,          \* what each actor read earlier
    faults          \* faults so far

rows == <<session, linked, payment, invoice, benefit>>
gateway == <<link, captured, event>>
vars == <<kind, prepaid, rows, wallet, logged, gateway, returned, lock, at, knows, faults>>

Completers == Webhooks \union Polls
Actors == {Creator} \union Completers \union Cleaners
Places == {"gateway", "wallet", "credits"}
ActiveStatuses == {"INITIATED", "PENDING"}
EndedStatuses == {"FAILED", "EXPIRED"}
Active == session \in ActiveStatuses

Nothing == [linked |-> FALSE, benefit |-> "none", unreturned |-> FALSE, ends |-> "EXPIRED"]

(* The caller has computed the draft invoice and written the pending        *)
(* purchase, draft subscription or pending addon before it opens a session; *)
(* a subscription change is only described in the session.                  *)
Init ==
    /\ kind \in Kinds
    /\ prepaid \in (IF kind = "invoice" THEN BOOLEAN ELSE {FALSE})
    /\ session = "none" /\ linked = FALSE
    /\ payment = [status |-> "none", archived |-> FALSE]
    /\ invoice = [status |-> "DRAFT", paid |-> FALSE, deleted |-> FALSE]
    /\ benefit = (IF kind \in {"invoice", "modify"} THEN "none" ELSE "pending")
    /\ wallet = "active" /\ logged = FALSE
    /\ link = FALSE /\ captured = FALSE
    /\ returned = {}
    /\ event = [w \in Webhooks |-> "none"]
    /\ lock = None
    /\ at = [a \in Actors |-> "idle"]
    /\ knows = [a \in Actors |-> Nothing]
    /\ faults = 0

Goto(a, step) == at' = [at EXCEPT ![a] = step]
Recall(a, r) == knows' = [knows EXCEPT ![a] = r]
Still(v) == UNCHANGED <<kind, prepaid, wallet, logged, faults, v>>

-----------------------------------------------------------------------------
(* Opening the session.                                                     *)

Open ==
    /\ session = "none" /\ ~invoice.deleted /\ at[Creator] = "idle"
    /\ session' = "INITIATED"
    /\ Goto(Creator, "payment")
    /\ Still(<<linked, payment, invoice, benefit, gateway, returned, lock, knows>>)

(* Another active session holds the idempotency key: nothing is opened and  *)
(* what the caller prepared is taken back.                                  *)
Refused ==
    /\ session = "none" /\ ~invoice.deleted /\ at[Creator] = "idle"
    /\ invoice' = [invoice EXCEPT !.status = IF prepaid THEN "VOIDED" ELSE @, !.deleted = TRUE]
    /\ returned' = IF prepaid THEN {"credits"} ELSE {}
    /\ benefit' = IF benefit = "pending" THEN "withdrawn" ELSE benefit
    /\ Still(<<session, linked, payment, gateway, lock, at, knows>>)

Cancels(failed) == IF failed THEN "FAILED" ELSE "CANCELLED"        \* mutant of EndsWith
EndsWith(failed) == IF failed THEN "FAILED" ELSE "EXPIRED"

(* terminateCheckoutSession, entered with a copy of an active session.      *)
Terminate(a, hasPayment, failed) ==
    /\ Goto(a, "inspect")
    /\ Recall(a, [Nothing EXCEPT !.linked = hasPayment, !.ends = EndsWith(failed)])

CreatePayment ==
    /\ at[Creator] = "payment"
    /\ payment' = [status |-> "INITIATED", archived |-> FALSE]
    /\ Goto(Creator, "link")
    /\ Still(<<session, linked, invoice, benefit, gateway, returned, lock, knows>>)

(* No gateway for the provider, or no rate into the billing currency.       *)
CannotCreatePayment ==
    /\ at[Creator] = "payment"
    /\ Terminate(Creator, FALSE, TRUE)
    /\ Still(<<rows, gateway, returned, lock>>)

(* Saved before the provider is called: its webhook can outrun the answer.  *)
SaveLink ==
    /\ at[Creator] = "link" /\ Active
    /\ linked' = TRUE
    /\ Goto(Creator, "provider")
    /\ Still(<<session, payment, invoice, benefit, gateway, returned, lock, knows>>)

EndedBeforeLink ==
    /\ at[Creator] = "link" /\ ~Active
    /\ Terminate(Creator, TRUE, TRUE)
    /\ Still(<<rows, gateway, returned, lock>>)

ProviderOpensLink ==
    /\ at[Creator] = "provider"
    /\ link' = TRUE
    /\ Goto(Creator, "answer")
    /\ Still(<<rows, captured, event, returned, lock, knows>>)

ProviderAnswers ==
    /\ at[Creator] = "answer"
    /\ Goto(Creator, "handles")
    /\ Still(<<rows, gateway, returned, lock, knows>>)

(* The call fails, before or after the provider acted on it: the session is *)
(* kept when a webhook has completed it meanwhile.                          *)
ProviderFails ==
    /\ at[Creator] \in {"provider", "answer"}
    /\ IF session = "COMPLETED"
       THEN Goto(Creator, "idle") /\ UNCHANGED knows
       ELSE Terminate(Creator, TRUE, TRUE)
    /\ Still(<<rows, gateway, returned, lock>>)

RecordHandles ==
    /\ at[Creator] = "handles"
    /\ payment' = [payment EXCEPT !.status = IF @ = "INITIATED" THEN "PENDING" ELSE @]
    /\ Goto(Creator, "save")
    /\ Still(<<session, linked, invoice, benefit, gateway, returned, lock, knows>>)

SavePending ==
    /\ at[Creator] = "save"
    /\ session' = IF Active THEN "PENDING" ELSE session
    /\ Goto(Creator, "idle")
    /\ Still(<<linked, payment, invoice, benefit, gateway, returned, lock, knows>>)

-----------------------------------------------------------------------------
(* Ending it without a payment.                                             *)

StartCleanup(a) ==
    /\ at[a] = "idle" /\ Active
    /\ \E failed \in BOOLEAN :
          /\ failed => session = "PENDING" /\ link
          /\ Terminate(a, linked, failed)
    /\ Still(<<rows, gateway, returned, lock>>)

(* What the transaction reads without a lock: the subscription or addon to  *)
(* archive and the invoice that may have to be voided.                      *)
Inspect(a) ==
    /\ at[a] = "inspect"
    /\ Recall(a, [knows[a] EXCEPT !.benefit = benefit,
                                  !.unreturned = invoice.paid \/ prepaid])
    /\ Goto(a, "commit")
    /\ Still(<<rows, gateway, returned, lock>>)

(* The purchase was granted (re-read under the wallet lock), or the         *)
(* subscription was no longer a draft: somebody is completing the session.  *)
AlreadySettled(a) ==
    \/ kind = "topup" /\ benefit = "given"
    \/ kind = "subscription" /\ knows[a].benefit # "pending"

(* Deleting matches the published row whatever its status.  Archiving an    *)
(* addon that is applied already leaves what it added to the subscription,  *)
(* and a change that is applied already is not looked for.                  *)
Withdrawn == IF kind \in {"invoice", "modify"} \/ (kind = "addon" /\ benefit = "given")
             THEN benefit ELSE "withdrawn"

Commit(a) ==
    /\ at[a] = "commit" /\ Active /\ ~AlreadySettled(a)
    /\ session' = knows[a].ends
    /\ benefit' = Withdrawn
    /\ payment' = [payment EXCEPT !.archived = @ \/ knows[a].linked]
    /\ invoice' = [invoice EXCEPT !.status = IF knows[a].unreturned THEN "VOIDED" ELSE @,
                                  !.deleted = TRUE]
    /\ returned' = IF knows[a].unreturned
                   THEN returned \union (IF invoice.paid THEN {"wallet"} ELSE {})
                                 \union (IF prepaid THEN {"credits"} ELSE {})
                   ELSE returned
    /\ Goto(a, "idle")
    /\ Still(<<linked, gateway, lock, knows>>)

RollBack(a) ==
    /\ at[a] = "commit" /\ (~Active \/ AlreadySettled(a))
    /\ Goto(a, "idle")
    /\ Still(<<rows, gateway, returned, lock, knows>>)

Cleanup(a) == Inspect(a) \/ Commit(a) \/ RollBack(a)

-----------------------------------------------------------------------------
(* Completing it.                                                           *)

(* The customer pays, or the saved method is charged inside the call; the   *)
(* provider queues its events.  The link stays payable after the session.   *)
Capture ==
    /\ link /\ ~captured
    /\ captured' = TRUE
    /\ event' = [w \in Webhooks |-> "queued"]
    /\ Still(<<rows, link, returned, lock, at, knows>>)

(* The merchant terminates the wallet, or converts it into another currency. *)
WalletCloses ==
    /\ kind = "topup" /\ wallet = "active"
    /\ wallet' = "closed"
    /\ UNCHANGED <<kind, prepaid, rows, logged, gateway, returned, lock, at, knows, faults>>

AckedAnyway(failed) == "acked"                         \* mutant of Acknowledged
Acknowledged(failed) == IF failed /\ Redelivers THEN "queued" ELSE "acked"

(* The completer is done: a webhook answers the provider, a poll its client. *)
Finish(c, failed) ==
    /\ Goto(c, "idle")
    /\ event' = IF c \in Webhooks THEN [event EXCEPT ![c] = Acknowledged(failed)] ELSE event

NotActive == EndedStatuses \union {"COMPLETED"}                \* mutant of Late
Late == EndedStatuses

Deliver(w) ==
    /\ at[w] = "idle" /\ event[w] = "queued"
    /\ CASE Active -> Goto(w, "get") /\ UNCHANGED event
         [] session \in Late -> Goto(w, "lock") /\ UNCHANGED event
         [] OTHER -> Finish(w, FALSE)
    /\ Still(<<rows, link, captured, returned, lock, knows>>)

(* The provider, asked by the poll, says the payment succeeded.             *)
Poll(p) ==
    /\ at[p] = "idle" /\ Active /\ linked /\ captured
    /\ Goto(p, "get")
    /\ Still(<<rows, gateway, returned, lock, knows>>)

FirstStep == CASE kind \in {"addon", "modify"} -> "apply"
               [] kind = "topup" -> "wallet"
               [] OTHER -> "invoice"

(* ErrAlreadyExists when the session has ended, which every caller takes    *)
(* for success.                                                             *)
Get(c) ==
    /\ at[c] = "get"
    /\ IF Active
       THEN Goto(c, FirstStep) /\ UNCHANGED event
       ELSE Finish(c, FALSE)
    /\ Still(<<rows, link, captured, returned, lock, knows>>)

(* A wallet closed meanwhile is not topped up: the completion fails, also   *)
(* when an earlier one has granted the purchase already.                    *)
CheckWallet(c) ==
    /\ at[c] = "wallet"
    /\ IF wallet = "active" THEN Goto(c, "invoice") /\ UNCHANGED event ELSE Finish(c, TRUE)
    /\ Still(<<rows, link, captured, returned, lock, knows>>)

(* Activates the pending addons, archived or not: the rows are found by id  *)
(* and only their addon status is looked at.                                *)
ApplyAddon(c) ==
    /\ at[c] = "apply" /\ kind = "addon"
    /\ benefit' = "given"
    /\ Goto(c, "invoice")
    /\ Still(<<session, linked, payment, invoice, gateway, returned, lock, knows>>)

(* Closes and replaces the line items, skipping those closed at that date   *)
(* already, so that applying again changes nothing.                         *)
ApplyChange(c) ==
    /\ at[c] = "apply" /\ kind = "modify"
    /\ benefit' = "given"
    /\ Goto(c, "invoice")
    /\ Still(<<session, linked, payment, invoice, gateway, returned, lock, knows>>)

ReadInvoice(c) ==
    /\ at[c] = "invoice"
    /\ Goto(c, IF invoice.status = "FINALIZED" THEN "settle" ELSE "finalize")
    /\ Still(<<rows, gateway, returned, lock, knows>>)

(* The row is locked and its status checked again; the update matches only  *)
(* a row that is not deleted.                                               *)
FinalizeInvoice(c) ==
    /\ at[c] = "finalize"
    /\ IF invoice.status = "DRAFT" /\ ~invoice.deleted
       THEN invoice' = [invoice EXCEPT !.status = "FINALIZED"] /\ Goto(c, "settle")
            /\ UNCHANGED event
       ELSE Finish(c, TRUE) /\ UNCHANGED invoice
    /\ Still(<<session, linked, payment, benefit, link, captured, returned, lock, knows>>)

(* A payment's status update does not look at whether it is archived.       *)
SettlePayment(c) ==
    /\ at[c] = "settle"
    /\ IF payment.status # "REFUNDED"
       THEN payment' = [payment EXCEPT !.status = "SUCCEEDED"] /\ Goto(c, "reconcile")
            /\ UNCHANGED event
       ELSE Finish(c, TRUE) /\ UNCHANGED payment
    /\ Still(<<session, linked, invoice, benefit, link, captured, returned, lock, knows>>)

Reconcile(c) ==
    /\ at[c] = "reconcile"
    /\ IF invoice.status \in {"DRAFT", "FINALIZED"} /\ ~invoice.deleted
       THEN invoice' = [invoice EXCEPT !.paid = TRUE] /\ UNCHANGED event
            /\ Goto(c, IF kind \in {"topup", "subscription"} THEN "grant" ELSE "claim")
       ELSE Finish(c, TRUE) /\ UNCHANGED invoice
    /\ Still(<<session, linked, payment, benefit, link, captured, returned, lock, knows>>)

(* The hook of ReconcilePaymentStatus grants a purchase that is pending; of *)
(* one that was failed meanwhile it logs that it cannot.  A subscription is *)
(* activated unless it was deleted, which fails the completion.             *)
Unfiltered == TRUE                                        \* mutant of Published
Published == benefit # "withdrawn"

Grant(c) ==
    /\ at[c] = "grant"
    /\ benefit' = IF Published THEN "given" ELSE benefit
    /\ IF Published \/ kind = "topup"
       THEN Goto(c, "claim") /\ UNCHANGED event
       ELSE Finish(c, TRUE)
    /\ Still(<<session, linked, payment, invoice, link, captured, returned, lock, knows>>)

(* MarkCompleted.  Losing the claim is ErrAlreadyExists as well, whoever    *)
(* won it.                                                                  *)
NotYetCompleted == session # "COMPLETED"                  \* mutant of Claimable
Claimable == Active

Claim(c) ==
    /\ at[c] = "claim"
    /\ session' = IF Claimable THEN "COMPLETED" ELSE session
    /\ Finish(c, FALSE)
    /\ Still(<<linked, payment, invoice, benefit, link, captured, returned, lock, knows>>)

Complete(c) ==
    \/ Get(c) \/ CheckWallet(c) \/ ApplyAddon(c) \/ ApplyChange(c)
    \/ ReadInvoice(c) \/ FinalizeInvoice(c)
    \/ SettlePayment(c) \/ Reconcile(c) \/ Grant(c) \/ Claim(c)

-----------------------------------------------------------------------------
(* Refunding a payment captured after the session ended.                    *)

(* The lock is per payment and not waited for: a second event is skipped.   *)
LockRefund(w) ==
    /\ at[w] = "lock"
    /\ IF lock = None /\ payment.status # "REFUNDED"
       THEN lock' = w /\ Goto(w, "refund") /\ UNCHANGED event
       ELSE Finish(w, FALSE) /\ UNCHANGED lock
    /\ Still(<<rows, link, captured, returned, knows>>)

(* The provider is asked first, so a repeated refund changes nothing there. *)
RefundAtGateway(w) ==
    /\ at[w] = "refund"
    /\ returned' = returned \union {"gateway"}
    /\ Goto(w, "settleLate")
    /\ Still(<<rows, gateway, lock, knows>>)

(* Only a settled payment may become REFUNDED: it is settled first.         *)
SettleLate(w) ==
    /\ at[w] = "settleLate"
    /\ payment' = [payment EXCEPT !.status = "SUCCEEDED"]
    /\ Goto(w, "record")
    /\ Still(<<session, linked, invoice, benefit, gateway, returned, lock, knows>>)

RecordRefund(w) ==
    /\ at[w] = "record"
    /\ payment' = [payment EXCEPT !.status = "REFUNDED"]
    /\ lock' = None
    /\ Finish(w, FALSE)
    /\ Still(<<session, linked, invoice, benefit, link, captured, returned, knows>>)

RefundLate(w) ==
    LockRefund(w) \/ RefundAtGateway(w) \/ SettleLate(w) \/ RecordRefund(w)

(* A holder that died keeps the lock until its time to live is over.        *)
LockExpires ==
    /\ lock # None /\ at[lock] = "idle"
    /\ lock' = None
    /\ Still(<<rows, gateway, returned, at, knows>>)

-----------------------------------------------------------------------------
(* Faults.                                                                  *)

Fault ==
    /\ faults < MaxFaults
    /\ faults' = faults + 1
    /\ UNCHANGED <<kind, prepaid, rows, wallet, link, captured, returned>>

(* The provider refuses the refund: logged, and the event acknowledged.     *)
RefundRefused(w) ==
    /\ at[w] = "refund"
    /\ Fault
    /\ lock' = None
    /\ Finish(w, FALSE)
    /\ UNCHANGED <<knows, logged>>

(* A statement of the completion fails, or loses to a concurrent update of  *)
(* the same payment.  What fails in the hook that grants a purchase does    *)
(* not fail the completion.                                                 *)
CompletionFails(c) ==
    /\ at[c] \in {"wallet", "apply", "invoice", "finalize", "settle", "reconcile", "grant", "claim"}
    /\ at[c] = "grant" => kind = "subscription"
    /\ Fault
    /\ Finish(c, TRUE)
    /\ UNCHANGED <<lock, knows, logged>>

(* Three attempts at granting the purchase failed, for the wallet's lock or *)
(* the database.  "Don't fail the payment, but log the error": the session  *)
(* is claimed next, and the purchase may stay pending for good.             *)
GrantFails(c) ==
    /\ at[c] = "grant" /\ kind = "topup"
    /\ Fault
    /\ logged' = TRUE
    /\ Goto(c, "claim")
    /\ UNCHANGED <<event, lock, knows>>

(* The process dies: open transactions roll back, an event that was not     *)
(* answered is delivered again.                                             *)
Crash(a) ==
    /\ at[a] # "idle"
    /\ Fault
    /\ Goto(a, "idle")
    /\ UNCHANGED <<event, lock, knows, logged>>

-----------------------------------------------------------------------------
Create ==
    \/ Open \/ Refused \/ CreatePayment \/ CannotCreatePayment
    \/ SaveLink \/ EndedBeforeLink
    \/ ProviderOpensLink \/ ProviderAnswers \/ ProviderFails
    \/ RecordHandles \/ SavePending \/ Cleanup(Creator)

Webhook(w) == Deliver(w) \/ Complete(w) \/ RefundLate(w)

Clean(a) == StartCleanup(a) \/ Cleanup(a)

Next ==
    \/ Create
    \/ Capture
    \/ WalletCloses
    \/ \E w \in Webhooks : Webhook(w) \/ RefundRefused(w)
    \/ \E p \in Polls : Poll(p) \/ Complete(p)
    \/ \E a \in Cleaners : Clean(a)
    \/ \E c \in Completers : CompletionFails(c) \/ GrantFails(c)
    \/ \E a \in Actors : Crash(a)
    \/ LockExpires

(* The provider keeps delivering an event that was not acknowledged, and    *)
(* the sweep runs again and again once the session is past its deadline.    *)
Fairness ==
    /\ \A w \in Webhooks : WF_vars(Webhook(w))
    /\ \A a \in Cleaners : WF_vars(Clean(a))

Spec == Init /\ [][Next]_vars /\ Fairness

-----------------------------------------------------------------------------
(* The values every variable keeps to.  A terminal status outside FAILED    *)
(* and EXPIRED would be refused by MarkTerminal.                            *)
TypeOK ==
    /\ kind \in Kinds /\ prepaid \in BOOLEAN
    /\ session \in {"none", "COMPLETED"} \union ActiveStatuses \union EndedStatuses
    /\ linked \in BOOLEAN
    /\ payment \in [status : {"none", "INITIATED", "PENDING", "SUCCEEDED", "REFUNDED"},
                    archived : BOOLEAN]
    /\ invoice \in [status : {"DRAFT", "FINALIZED", "VOIDED"}, paid : BOOLEAN, deleted : BOOLEAN]
    /\ benefit \in {"none", "pending", "given", "withdrawn"}
    /\ wallet \in {"active", "closed"} /\ logged \in BOOLEAN
    /\ link \in BOOLEAN /\ captured \in BOOLEAN
    /\ returned \subseteq Places
    /\ event \in [Webhooks -> {"none", "queued", "acked"}]
    /\ lock \in Webhooks \union {None}
    /\ at \in [Actors -> {"idle", "payment", "link", "provider", "answer", "handles", "save",
                          "inspect", "commit", "get", "wallet", "apply", "invoice", "finalize",
                          "settle", "reconcile", "grant", "claim", "lock", "refund", "settleLate",
                          "record"}]
    /\ knows \in [Actors -> [linked : BOOLEAN, unreturned : BOOLEAN, ends : EndedStatuses,
                             benefit : {"none", "pending", "given", "withdrawn"}]]
    /\ faults \in 0 .. MaxFaults

(* checkout_session.go completes step by step and claims last, so between   *)
(* its steps a cleanup, another completer or a crash can come: a session    *)
(* that says COMPLETED has its invoice finalized, paid and not deleted, its *)
(* payment succeeded and not archived, and what it sold handed over.  Only  *)
(* a top-up may still be owed, its purchase intact and pending, and then    *)
(* the failure is in the log.                                               *)
HandedOver == benefit = (IF kind = "invoice" THEN "none" ELSE "given")

Owed == kind = "topup" /\ benefit = "pending" /\ logged

CompletedMeansDelivered ==
    session = "COMPLETED" =>
        /\ invoice = [status |-> "FINALIZED", paid |-> TRUE, deleted |-> FALSE]
        /\ payment = [status |-> "SUCCEEDED", archived |-> FALSE]
        /\ HandedOver \/ Owed

(* What the client of a top-up is told (docs/design/2026-07-20-payment-     *)
(* gated-wallet-topup.md): "After completed, refetch wallet / transaction   *)
(* for credited balance".                                                   *)
CompletedMeansCredited == session = "COMPLETED" /\ kind = "topup" => benefit = "given"

(* A session that was ended has withdrawn the purchase or the subscription  *)
(* and its invoice, and no completer that was under way brings them back:   *)
(* whoever is refunded does not keep what was bought.  (A payment-gated     *)
(* addon or subscription change is applied before the invoice is finalized  *)
(* and is not covered.)                                                     *)
EndedMeansWithdrawn ==
    session \in EndedStatuses =>
        /\ invoice.deleted
        /\ kind \in {"topup", "subscription"} => benefit = "withdrawn"

(* The session, its payment and the money implement the promise: decided    *)
(* once, delivered only against a captured payment, and nothing sent back   *)
(* unless it was dropped.                                                   *)
Outcome ==
    CASE session = "COMPLETED" -> "delivered"
      [] session \in EndedStatuses -> "dropped"
      [] session = "none" /\ invoice.deleted -> "dropped"
      [] OTHER -> "open"

Promise == INSTANCE CheckoutPromise
    WITH outcome <- Outcome, charged <- captured, back <- returned

ImplementsPromise == Promise!Spec

(* An opened session does not stay open: where the provider redelivers, the *)
(* sweep ends it or, when its purchase was granted already, a redelivered   *)
(* event completes it, whatever crashed in between.  Only when the purchase *)
(* was granted and the wallet closed since can neither.                     *)
Decided == session \in EndedStatuses \union {"COMPLETED"}

GrantedThenClosed == benefit = "given" /\ wallet = "closed"

SessionEnds == Active ~> (Decided \/ GrantedThenClosed)
=============================================================================
