# Flexprice in TLA+

Flexprice is a usage-based billing server: it ingests events, meters them,
computes invoices for subscriptions, collects payments through gateways, and
keeps prepaid credits in wallets. This directory specifies the part of it where
money changes state under concurrency, in TLA+, checks small instances with TLC
and proves the properties that do not depend on the instance with TLAPS.

| module | what it is |
|---|---|
| `WalletAccount` | abstract: what one credit wallet promises |
| `WalletLedger` | the wallet rows and transaction rows, one committed operation a step |
| `WalletTx` | the statements inside those operations: lock, cache, idempotency keys, rollback |
| `InvoicePayment` | one credit-purchase invoice, its payments, gateway reports, void and the purchase it settles |
| `RefundPromise` | abstract: what refunding an invoice promises its customer |
| `Refund` | credit notes and the void of one invoice, the refund rows they plan, the wallet and the gateways that pay them |
| `CheckoutPromise` | abstract: what a pay-first session promises |
| `Checkout` | one checkout session: its creator, webhooks, polls, cleanups and late refunds |
| `CreditSettlement` | prepaid credits on a subscription's cycle drafts: the expiry job, recomputation, finalization |
| `MCWalletLedger`, `MCWalletTx`, `MCInvoicePayment`, `MCRefund`, `MCCheckout`, `MCCreditSettlement` | instances for TLC |
| `WalletAccountProofs`, `WalletLedgerProofs`, `WalletTxProofs`, `InvoicePaymentProofs`, `RefundProofs`, `CheckoutProofs`, `CreditSettlementProofs` | the theorems |
| `SumTheorems` | lemmas about sums over finite sets, for the proofs |

`WalletLedger` and `WalletTx` each implement `WalletAccount` through
`INSTANCE WalletAccount`; the two look at one service from two sides (what an
operation does to the rows, and whether an operation is one step at all).
`InvoicePayment` stands beside them: its `CompletePurchase` and `FailPurchase`
are the `complete` and `fail` jobs of `WalletTx`, whose `PurchaseSettledOnce` is
what lets `InvoicePayment` take each as one step on the purchase's status.
`Refund` starts at a finalized invoice. Its payments are settled and counted as in
`InvoicePayment`, from a copy of the invoice read without a lock, because a copy may be
written over a credit note or a void; how a payment's own status is raced for is left
to `InvoicePayment`.
`Checkout` drives the same invoice and payment from outside, one step per call
into those services. Each of the two implements a small promise to the customer
(`RefundPromise`, `CheckoutPromise`).
`CreditSettlement` fills in what `WalletLedger` leaves open, how much of an
expiring credit goes to which draft, and leaves to it what a debit does to rows
and balances.

Run from this directory, for example

    tlc -workers 2 -config WalletTx.cfg MCWalletTx
    tlapm WalletTxProofs.tla

The leaves of the proofs are kept small: they are developed with a fifth of the
provers' default time (`tlapm --stretch 0.2`), so that a slow machine checks them too.

---------------------------------------------------------------------------

## 1. Inventory

Paths are relative to `src/internal/`. "Hard" names what a test of the code
would hardly reach. The components marked with a module are modelled; section 8
says why the others are not.

### Wallet ledger — `WalletLedger`, `WalletAccount`
*Code*: `ee/service/wallet.go`, `repository/ent/wallet.go`, `domain/wallet/`.
*State*: `wallets` (status, type, `balance`, `credit_balance`, the two rates) and
`wallet_transactions` (type, status, credits, `credits_available`, expiry,
priority, balances before and after, parent, consumption breakdown, idempotency
key). *Operations*: create, top up (at once, with bonus, or as an invoiced
purchase), complete or fail the purchase, debit, manual debit, expire, terminate,
convert to postpaid. *Interacts with*: invoices (a paid invoice completes a
purchase; finalization debits), the credit expiry workflow, credit grants,
refunds and credit notes (credits), alerts. *Hard*: overdrafts met by later
credits, credits computed when a purchase is requested and posted later, expiry
against debits dated in the past, two balances in two units. *Correct when*: no
credit is spent twice or lost; the balance chain has no gap; expired credits go.

### Wallet transactions: lock, cache, keys — `WalletTx`
*Code*: `ee/service/wallet.go`, `postgres/locks.go`, `postgres/client.go`,
`repository/ent/wallet.go`, `cache/`. *State*: `pg_advisory_xact_lock` per
wallet, the Redis entry of a wallet, the unique key index, the open transaction.
*Hard*: a read under the lock that a cache answers, checks outside the
transaction, retries after a lost answer, crashes between statements. *Correct
when*: each operation is atomic, takes effect once, and frees the lock.

### Credits on cycle invoices, and the expiry job — `CreditSettlement`, `WalletLedger`
*Code*: `ee/service/credit_expiry.go`, `ee/service/credit_adjustment.go`,
`temporal/activities/cron/wallet_activities.go`, in `ee/service/invoice.go`
`ComputeInvoice`, `performFinalizeInvoiceActions` and `IsInvoiceFinalizationDue`.
*State*: a draft's lines, when it was computed, the credits applied to it; what is
left of each credit. *Operations*: compute a draft (usage read before the row
lock, lines written under it); list the credits past their grace, plan what each
draft may take, then apply and expire in one transaction; finalize, debiting what
is still owed. *Interacts with*: the wallet's rows, late events, the billing
run, the finalization cron, operators. *Hard*: plans and computations made outside
the transaction that uses them; the job failing; finalization waiting for the job,
but not for ever; boundary dates; the batch cap; the order in which invoice and
wallet locks are taken. *Correct when*: a credit pays usage from before its
expiry, once, before it expires, and no period stays unbilled.

### Invoice payment lifecycle — `InvoicePayment`
*Code*: `ee/service/invoice.go`, `repository/ent/invoice.go`. *State*: an
invoice's status, payment status, amounts paid and refunded, dates. *Operations*:
finalize, void, operator's payment status, reconciliation of a payment.
*Interacts with*: payments, wallets, checkout sessions, webhooks. *Hard*: writers
that hold the row lock racing writers that read without it and write every
column. *Correct when*: the payment state follows the payments, purchased
credits follow the invoice, a void is final.

### Payments, processor and gateway lifecycle — `InvoicePayment`
*Code*: `ee/service/payment.go`, `ee/service/payment_processor.go`,
`integration/payments/lifecycle.go`, `repository/ent/payment.go`. *State*: a
payment's status and attempts. *Operations*: create, confirm, record success or
failure, update with expected status, process. *Hard*: duplicated, reordered and
contradictory webhooks; the first look and the write are apart. *Correct when*:
an outcome is final and counted once.

### Refunds and credit notes — `Refund`, `RefundPromise`
*Code*: `ee/service/refund.go`, `ee/service/creditnote.go`, the void in
`ee/service/invoice.go`, `repository/ent/refund.go`, the gateways' refund
webhooks (`integration/razorpay/`, `integration/chargebee/`). *State*: credit
notes, the invoice's paid, refunded and adjusted amounts, refund rows (status,
amount, destination, gateway id). *Operations*: create, finalize and void a note;
void an invoice; plan rows over the payments; claim, call the gateway, record its
acceptance, settle, fail, replace by a wallet row; retry; webhooks. *Interacts
with*: wallets (a wallet row is credited), payments (what each can still give
back), gateways. *Hard*: a webhook, a retry and a dispatch on one row together;
answers lost after the gateway accepted; planning that sums rows others are
changing; payments counted from copies of the invoice older than a note or a void.
*Correct when*: what was promised is planned once and paid once, within what was
received, and a status never lies about who paid.

### Checkout sessions — `Checkout`, `CheckoutPromise`
*Code*: `ee/service/checkout_session.go`, `_actions.go`, `_poll.go`,
`repository/ent/checkout_session.go`, the payment webhooks of Stripe and
Razorpay, `RefundLateCapturedPayment` of both. *State*: the session's status and
links, its payment, its gated draft invoice, what is being bought (a pending
purchase, a draft subscription, a pending add-on, a described change), the
per-payment refund lock. *Operations*: open, call the provider, complete, clean
up, refund a late capture. *Interacts with*: invoices and payments (finalize,
settle, reconcile), wallets, subscriptions, providers. *Hard*: completion runs
separate statements and claims last, a cleanup is one transaction that withdraws
the same rows and claims too; webhooks outrun the call that made the link; crashes
half-way; a purchase that cannot be granted is only logged; its wallet may be closed. *Correct when*: the session ends once, and product, invoice, payment
and money end the same way.

### Not modelled yet, or not to be
* **Credit grants** (`ee/service/creditgrant.go`): periodic applications with
  retries; at most one per period.
* **Subscriptions and period processing** (`ee/service/subscription.go`, temporal
  subscription activities): one invoice per period, cancellation at period end.
* **Subscription changes, phases, modifications, add-ons**
  (`ee/service/subscription_*.go`).
* **Billing, proration, price tiers** (`ee/service/billing*.go`, `proration.go`,
  `price.go`): arithmetic over usage.
* **Commitments, instalments, minimums** (`ee/service/commitment*.go`).
* **Event deletion gates** (`ee/service/invoice_event_deletion.go`,
  `event_deletion.go`): sorted advisory locks.
* **Entitlements and grants** (`ee/service/entitlement*.go`).
* **Metering and the event pipeline** (`ee/service/*event*.go`, `meter_usage*.go`,
  `kafka/`, `clickhouse/`): at-least-once delivery into deduplicating tables.
* **Webhooks and pubsub** (`webhook/`, `pubsub/`): retried outbound deliveries.
* **Temporal workflows and crons** (`temporal/`).
* **Alerts and auto top-up** (`ee/service/alert*.go`, in `wallet.go`): a pending
  guard and a cooldown.
* **Taxes, coupons** (`tax*.go`, `coupon*.go`); **journal, revenue, performance
  obligations** (`journal/`, `revenue/`, `pob/`); **catalogue CRUD** (plans,
  prices, features, customers, tenants); **integrations** (`integration/`);
  **API, auth, RBAC** (`api/`, `auth/`, `rbac/`); **generated code** (`ent/`,
  `api/` SDKs, `migrations/`).

How they meet: a request or a webhook enters a service; services share the
Postgres rows, wallet operations also the advisory lock and the Redis entry;
what must happen after an invoice is paid or voided (complete or fail the
purchase, complete the checkout session, emit a webhook) runs after the
invoice's commit, in the same goroutine, and is lost if that goroutine dies.
Temporal schedules start the recurring jobs.

---------------------------------------------------------------------------

## 2. How the models correspond to the code

### WalletAccount
Three numbers per wallet: `creditBalance` (`wallets.credit_balance`), `available`
(the sum of `credits_available` of its completed credits) and `overdraft` (a
history sum: what manual debits took beyond what they found). `Grant`, `Spend`
and `Overdraw` are all that can happen to them. `CreditsUsable` is
`ComputeCreditsAvailable`: a credit posted below zero first pays the overdraft.

### WalletLedger
An action is one committed transaction of `walletService`. The rows are a
sequence in creation order; a row keeps the columns the properties need. The
history `posted` lists completed rows in the order their credits entered the
balance, since a purchase is posted long after it was created.

| action | code |
|---|---|
| `CreateWallet` | `CreateWallet`, with its initial credits |
| `CreditWallet` | `TopUpWallet` and `CreditWallet` for free and promotional credits, with a bonus row |
| `RequestPurchase`, `RequestCompletedPurchase` | `handlePurchasedCreditInvoicedTransaction`, without and with the auto-complete setting |
| `CompletePurchase`, `FailPurchase` | `completePurchasedCreditTransaction`, `FailPurchasedCreditTransaction` |
| `DebitWallet`, `ManualBalanceDebit` | `DebitWallet`, `ManualBalanceDebit`, both `processDebitOperation` |
| `ExpireCredits` | `settleExpiringCredit`, for one listed credit |
| `TerminateWallet`, `ConvertToPostpaid` | `TerminateWallet`, `convertToPostpaid` |

*Clock*. `Tick` starts an instant and every operation of that instant happens
after it. A debit "now" therefore uses `ThisInstant == now + 1` as its reference
date, later than the creation dates of this instant and earlier than nothing of
the next; an invoice's debit may use any reference date, past ones included,
because it uses the invoice's period end. The expiry listing is inclusive at its
cutoff, as the query is.

*Consumption*. `Consumptions` is the set of results the loop of `ConsumeCredits`
can reach over any order that `FindEligibleCredits` may return: credits are
emptied one after the other by priority, expiry and size; equal ones come in any
order. It is a relation on the result, not the loop.

*Left out*: decimal fractions (amounts are integers), the effective date a
top-up may be back-dated to, wallets of several currencies, alerts and webhooks.
A credit transferred by `ConvertToPostpaid` never expires, as in the code. How
much of an expiring credit goes to draft invoices is left open (any share): that
is `CreditSettlement`.

### WalletTx
An action is one statement of a transaction on one wallet by process `p`:

    begin --Lock--> locked --ReadWallet--> fill --FillCache--> write --Write*--> commit --Commit*--> idle
                       \--AlreadySettled     (only on a cache miss)      \--Rejected

| action | code |
|---|---|
| `Start`, `StartTerminate` | the checks and reads before `WithTx` |
| `Lock`, `LockTimeout` | `LockWithWait` and its thirty seconds (`postgres/locks.go`) |
| `AlreadySettled`, `StillPending` | the purchase row read again under the lock |
| `ReadWallet`, `FillCache` | `GetWalletByID`: cache first, fill on a miss |
| `WriteCredit`, `WriteDebit`, `WriteFailure` | the inserts, `ConsumeCredits`, `UpdateWalletBalance` and its `DeleteCache`, all before the commit |
| `Rejected` | a duplicate idempotency key, or too few credits |
| `CommitCredit`, `CommitDebit`, `CommitFailure`, `Close` | the commit; the lock goes with it |
| `Rollback` | any error, a crash, a cancelled request |
| `ReaderMiss`, `ReaderFill`, `CacheExpires` | other readers of the wallet and the entry's lifetime |

The balance is written absolutely (as read, plus or minus); credit rows are
written relative to what the database holds. That difference is what the cache
turns into a lost update. `applied` records the credits moved under each
idempotency key, which is what the unique index lets be inserted once. Any request may be started
again at any time: this is the client's retry, with the same key. How many of the
available credits are eligible is open (`taken` may be anything up to what is
available), since it depends on dates that `WalletLedger` has. A termination's
key is the wallet id.

### InvoicePayment
One invoice that bought credits. Operations that take the row with
`SELECT ... FOR UPDATE` and keep it to their commit (`FinalizeInvoice`,
`VoidInvoice`) are one step; `MarkInvoice` is two, because its row copy is written
back at the end of a transaction that others see locked. Those that read without
the lock (`ReconcilePaymentStatus`, `handleInvoicePostProcessing`) are split at every
statement, and write their copy of every column.

| action | code |
|---|---|
| `CreatePayment` | `CreatePayment` for an invoice |
| `Look`, `ReadPayment`, `UpdateWithExpectedStatus` | `RecordPaymentSuccess`, `RecordPaymentFailure`, `ConfirmGatewayPayment`, then `UpdatePayment` and its compare-and-swap |
| `StartProcessing`, `ChargeSucceeds`, `ChargeFails` | `ProcessPayment`, offline and credit payments |
| `ReadInvoiceToReconcile` | `ReconcilePaymentStatus` |
| `ReadInvoiceToSettle`, `ListPayments` | `handleInvoicePostProcessing`, summing up the payments |
| `MarkInvoice` | `UpdatePaymentStatus` by an operator |
| `WriteInvoice` | `InvoiceRepo.Update`: no version check, absent timestamps kept |
| `CompletePurchase`, `FailPurchase` | the wallet calls after the commit |
| `FinalizeInvoice`, `VoidInvoice` | the same |
| `Stop` | an error, a refused step or a crash between two statements |

`counted` and `wasPaid` are history variables. The read of the payment may come
from a stale cache in the code; a stale read can only make the comparison fail,
which is a `Stop`. Failing a guard (a status transition that is refused, an
invoice that no longer accepts payments) is a `Stop` as well. Out of scope here:
checkout sessions (`Checkout` calls these operations from outside), event
deletion, credit notes (`Refund`), whose gates are open for the invoice modelled,
and the voided and refunded reports of gateways.

### Refund
One finalized invoice. A transaction that locks the rows it reads (`FOR UPDATE` on
the invoice, then on the refund) is one step. Planning is two, because it holds
the invoice but sums up refund rows in two queries without locking them
(`allocateAcrossPayments`): what it found settled is read by `BeginPlan`, what is
in flight at the commit. Counting a payment is two as well: `ReconcilePaymentStatus`
reads the invoice with a plain `Get` and writes every column of that copy, waiting only
for whoever holds the row at that moment. What committed in between is overwritten: the
refunded and adjusted amounts go back, and a voided invoice is finalized again, while
the notes and refund rows stay. A row is named by its idempotency key: what planned it
(a note or the void), the payment it draws on (the last slot is what no payment
can cover), and the attempt (1, or 2 for the wallet row that replaces it).

    PENDING --ClaimForGateway--> PROCESSING --Settle--> SUCCEEDED
       |  \--SettleToWallet--> SUCCEEDED  \--Fail--> FAILED --RefundToWallet--> a second row

| action | code |
|---|---|
| `PaymentSucceeds` | the payment's own row settled by `RecordPaymentSuccess`, whatever became of the invoice |
| `ReadInvoice`, `WriteInvoice` | `ReconcilePaymentStatus`: its unlocked read; `InvoiceRepo.Update` of the copy, with no version check. Both may never happen |
| `CreateCreditNote`, `FinalizeAdjustment`, `VoidCreditNote` | `CreateCreditNote`, `FinalizeCreditNote` of an adjustment, `VoidCreditNote` with its recomputation of the invoice |
| `FinalizeCreditNote`, `CommitCreditNote` | `FinalizeCreditNote` of a refund note, `planRefundsForCreditNote` |
| `VoidInvoice`, `CommitVoid` | `VoidInvoice`, its rows credited in the same transaction |
| `VoidConflicts` | a second void of an invoice that was written back: its rows' idempotency keys exist, the transaction is rolled back |
| `Dispatch` | the loop over planned rows after the commit; here in any order |
| `SettleToWallet` | `settleToWallet` |
| `ClaimForGateway`, `NotSupported`, `RefundPayment` | `claimForGateway`, the gateway's capability check, the call |
| `RecordGatewayAcceptance`, `Settle`, `Fail` | the same |
| `RefundToWallet` | the fallback row, minted once |
| `RetryRefund`, `Webhook` | an operator's retry; `handleRefundProcessed`, `handleRefundFailed` and Chargebee's, any number of times |
| `GatewayDecides` | external: an accepted refund is paid or refused by the bank |
| `Fails`, `Crash` | an error the loop over rows survives; the process dies |

`promised` is history: what notes and voids have committed to give back, which the
invoice's `refunded` cannot be trusted with. `overtaken` says that a copy was written
over a later change. A payment is reconciled once here; that two deliveries can count
one twice is finding 3, of `InvoicePayment`.

`unanswered` is history: the requests a gateway accepted while its answer was
lost. The code takes a lost answer for a failure and pays by wallet, so money can
come back twice there; the properties name that case as the exception instead of
hiding it (section 5). Left out: several currencies and converted invoices, a
gateway that settles another amount than was asked, line items and tax reversal
of notes, their numbers.

### Checkout
One session. `at[a]` is the statement an actor takes next, `knows[a]` what it
read; completing is

    get --> [wallet | apply] --> invoice --> finalize --> settle --> reconcile --> [grant] --> claim

and cleaning up is `inspect` (reads without a lock) and `commit` (one transaction:
claim, withdraw, void or delete the invoice, archive the payment) or `RollBack`.

| action | code |
|---|---|
| `Open`, `Refused` | the insert in `StartPayFirstCheckoutSession`; another active session holds the key |
| `CreatePayment`, `CannotCreatePayment`, `SaveLink`, `EndedBeforeLink` | `createCheckoutPayment`, `fulfillCheckoutSession` |
| `ProviderOpensLink`, `ProviderAnswers`, `ProviderFails`, `RecordHandles`, `SavePending` | `callCheckoutProvider`, `recordGatewayHandles`, `savePendingSession` |
| `StartCleanup`, `Inspect`, `Commit`, `RollBack` | `cleanupCheckoutSession`, `terminateCheckoutSession`, `cleanupCheckoutResources` |
| `Deliver`, `Poll` | the webhook handlers; `refreshSessionFromGateway` |
| `Get`, `Claim` | the first look of `CompleteCheckoutSession`; `MarkCompleted` |
| `CheckWallet`, `WalletCloses` | `completeWalletTopupCheckout` demands an active wallet; a termination or conversion of it |
| `ApplyAddon`, `ApplyChange` | `applyAddAddonCheckoutParams`; `applyModifySubscriptionParams`, both safe to repeat |
| `ReadInvoice`, `FinalizeInvoice`, `SettlePayment`, `Reconcile`, `Grant` | `finalizeCheckoutInvoiceAndPayment`, the hook that completes a purchase, `activateDraftSubscription` |
| `LockRefund`, `RefundAtGateway`, `SettleLate`, `RecordRefund`, `LockExpires` | `RefundLateCapturedPayment` under its Redis lock |
| `RefundRefused`, `CompletionFails`, `Crash` | the faults, at most `MaxFaults` |
| `GrantFails` | a fault too: completing the purchase fails in the hook of `ReconcilePaymentStatus`, which logs it and returns no error, and the claim follows |

`returned` records where value went back to: the gateway (a late refund), the
wallet (a void of a paid invoice), credits (a void of an invoice that prepaid
credits covered in part). `logged` is history: a purchase could not be granted and the log says so.
`Reconcile` is one step although `ReconcilePaymentStatus` reads without a lock: a copy read
before a cleanup is not written over it, as the update matches published rows only and a
cleanup deletes the row, and between completers the copies agree in what is modelled.
Only sessions opened with their draft invoice are modelled (`StartPayFirstCheckoutSession`);
a subscription checkout opened directly by `Create` writes its row first and links its draft
later. Left out as well: archiving by Delete, the poll's debounce,
events published, conversion into a billing currency.

### CreditSettlement
One subscription, its billing periods one after the other, and the credits of one
active prepaid wallet. A credit is worth one unit of usage a credit. `lines` is what
a draft bills: the usage received that is dated in its period.

| action | code |
|---|---|
| `Tick`, `ReceiveEvent` | time; external: usage events, some of them late |
| `AddCredit` | a completed credit row with an expiry |
| `RollPeriod` | `CreateDraftInvoicesActivity`, `UpdateCurrentPeriodActivity` |
| `StartCompute`, `FinishCompute` | `ComputeInvoice` before and under the row lock: the billing run's, or anyone's at any time |
| `StartRun` | the listing of `ExpireCreditsActivity` |
| `PlanSettlement` | `ExpireCredits`, `settleExpiringCredit` up to its transaction; drafts it finds out of date are computed again |
| `Settle` | its transaction: `ApplyExpiringCreditToInvoice` for each draft, then `debitExpiredCredits` |
| `SettlementFails` | any error before the commit; the run goes on with the next credit |
| `FinalizeDue` | `IsInvoiceFinalizationDue`, then `FinalizeInvoice` by the cron |
| `FinalizeByHand` | `FinalizeInvoice` by an operator |

`FinalizeDue` checks and finalizes in one step: what the check found (computed after
the period's end, no pending credit) stays true as time goes on, and the status is
looked at again under the row lock. The debits of a finalization are those of the
same transaction. `settled`, `placed`, `expired` and `excused` are history. The
billing run makes a draft and moves the subscription on in two activities; in
between, the draft is the current period's, which `StartCompute` may make as well.
Left out: the locks themselves (waiting for one can fail, which is
`SettlementFails`), several subscriptions, wallets and currencies, drafts with a
recorded payment (skipped by the code), discounts and fixed charges (lines are
usage), rounding to cents, a void that returns credits, manual edits, checkout and
event-deletion gates, the configured finalization delay and finalization switched
off.

---------------------------------------------------------------------------

## 3. Runs

| run | instance | states | what it shows |
|---|---|---|---|
| `wallet_ledger` | a prepaid and a postpaid wallet, rates 2 | 915,669 | no credit is spent twice or lost, the audit trail chains, a bonus shares its purchase's fate, a conversion moves exactly what was held, the currency balance is the credit balance at the rate, every operation is a step of the account, expired credits leave the balance |
| `wallet_tx` | three processes, no cache | 413,026 | every commit is a step of the account, retries count once, a purchase is settled once, the lock is released |
| `wallet_tx_cached` | two processes and a reader, cache | 189,150 | what still holds with the cache: debits stay within the credits granted, purchases are settled once, the lock is released |
| `wallet_tx_stale` | the same, with an overdraft | violation | finding 1 |
| `wallet_terminate` | two processes, no cache | violation | finding 2 |
| `invoice_payment` | two processes, two payments | 1,167,148 | a payment keeps its outcome, only succeeded payments are counted, the purchased credits follow the invoice |
| `invoice_webhooks` | the same | violation | finding 3 |
| `refund` | two processes, a note and a void, payments 2 and 1 | 126,845 | what was promised is planned once and paid once, and a status tells who paid, through lost answers, errors, crashes, retries, webhooks and copies of the invoice written back |
| `refund_race` | the same | violation | finding 4 |
| `credit_settlement` | two periods, credits of 1 and 2, the first invoice possibly finalized by hand | 504,258 | a credit pays usage from before its expiry, once, and expires over no usage that the cron left unpaid; every ended period is billed, even if the job never succeeds |
| `checkout` | five kinds, a webhook, a poll, a cleaner, two faults | 868,557 | a completed session was delivered in full or owes a top-up's purchase it has logged, an ended one withdrawn, money goes back only if it was dropped, and it ends |
| `checkout_credited` | a top-up, a webhook, a cleaner, one fault | violation | finding 5 |

Each passing run ends in two minutes or so.

### Bounds
* `MaxTime = 2`, `Grace = 1`: enough for a credit with `lifetime = 1` to be live,
  to be expired within its grace, and to be due; another never expires
  (`NoExpiry`).
* `MaxRows`: the number of rows beyond which no new request is made (3 while there
  is only the prepaid wallet, 2 otherwise); completions, expiries, terminations and
  conversions go on beyond it, so nothing is stuck half way. Three rows allow a purchase with its bonus and a
  debit, or two credits and a debit over both, or an overdraft followed by the
  credit that pays part of it off.
* `Offers` of 2 and 3 with different priorities and expiries, `Bonuses` of 1,
  `Debits` of 1 and 4: a debit within one credit, one over two credits, one that
  overdraws, a credit that exactly or only partly repays.
* `MaxMove` bounds the amounts of the abstract account and is larger than any
  sum the rows can reach.
* `WalletTx`: one key per kind of request and `Amounts` 1 to 3; the manual debit
  asks for 3, more than one credit or purchase brings. A key may be sent any
  number of times. Three processes let one hold the lock while two others wait
  with checks already made; with the cache, two and a reader, which suffices for
  every order of reading, deleting and refilling the entry around a commit.
* `InvoicePayment`: two processes, a gateway payment of the whole amount due and a
  direct payment of half: together they overpay. `Due = 2` leaves a partial
  amount to mark. Nothing bounds the number of reports.

* `Refund`: an invoice of 3 with payments of 2 and 1, one credit applied, so that
  the last slot (what no payment covers) is used; one payment's gateway can refund
  and the other's cannot, so that rows go to a wallet, to a gateway, and from a
  gateway to a wallet; one note, and the void before or after it. Two payments let
  one be given back while the copy of the other waits to be written. A second note
  beside them (one planned while the rows of the other are in flight, an adjustment
  voided beside a refund) is more than a run of a few minutes holds; what a second
  note could break is proved for any number of them (`NothingPlannedTwice`,
  `RefundedIsCurrent`, `PromiseImplemented`, `StatusIsTrue`). Nothing bounds the
  number of webhooks, retries, errors and crashes.
* `Checkout`: each kind of session; one webhook event, one poll and one cleaner
  besides the creator already put two completers and a cleanup side by side;
  `MaxFaults = 2` is a crash of each side, or a purchase that cannot be granted and a
  completer that fails after it. The violation needs one fault and no poll.
* `CreditSettlement`: periods of two hours; a credit of 1 that expires inside the
  first, one of 2 inside the second, so that the second can pay both drafts and
  compete with the first for one of them. `BusyHours` are the hours before and after
  the first expiry and before the second, `MaxUsage = 1` each. `AddTimes` of 0 and 2:
  the second credit may come after the first period, whose draft it must not pay.
  `Lateness = Grace = 1`, as the grace is meant for events as late as that;
  `Hold = 2`; `MaxTime = 5` is the end of the second credit's hold. `ByHand = {1}`:
  both credits meet that invoice.

Processes, keys and payments are model values. Symmetry is declared in `MCRefund`
only (processes, notes), where no property is a liveness property; elsewhere the
runs check temporal properties, for which TLC's reduction is not sound.

### Fairness
* `WalletLedger`: weak fairness of `Tick` (time passes) and of `ExpiryRun` (the
  Temporal schedule of the expiry cron starts a run again and again; a run settles
  the listed credits earliest first, two hundred at most, more than the rows of
  any instance). Used by `ExpiredCreditsLeaveTheBalance` only. Each listed credit
  is assumed to settle when tried.
* `WalletTx`: weak fairness of `Proceed(p)`: a goroutine that has started a
  request runs on, because a lock wait ends by its thirty seconds, a statement
  by the driver's answer or error. Nothing obliges anyone to start a request, and
  `Rollback` may always come first. Used by `LockIsReleased`.
* `InvoicePayment`: none. The code has no recovery for what dies between an
  invoice's commit and the completion of the purchase, so nothing eventual can be
  claimed.
* `Refund`: none, for the same kind of reason: a row whose process dies after its
  claim stays PROCESSING (section 5).
* `Checkout`: weak fairness of each webhook event's handling, which is the
  provider delivering again an event that was not acknowledged (`Redelivers`:
  Stripe's handler returns the error; Razorpay's logs a failed completion and
  acknowledges, so `SessionEnds` is claimed only where `Redelivers`), and weak
  fairness of the cleaners, which is the expiry sweep's schedule. No fairness of
  clients, polls, the creator or the provider's answer. Used by `SessionEnds`.
* `CreditSettlement`: weak fairness of the clock and the period roll, of computing
  the draft of a period that ended (the billing workflow is retried until it has) and
  of `FinalizeDue` (the finalization cron). None of the expiry job: the hold must end
  without it. Used by `EndedPeriodIsBilled`, which supposes, as the cron does, that
  auto finalization is on.

### Deadlock
Checked for `WalletTx`. Not for `WalletLedger`, where the clock and the number of
rows are bounded and a terminated wallet may leave nothing to do; nor for
`InvoicePayment`, where nothing is left to do with an invoice that was voided
before any payment was made; nor for `Refund` and `Checkout`, which end when all
money is back and when the session is over; nor for `CreditSettlement`, whose clock
stops.

---------------------------------------------------------------------------

## 4. Properties

Each is stated, with the code it is about, above its definition in the module.

| property | kind | what would break it |
|---|---|---|
| `ImplementsAccount` (ledger, tx) | refinement | an operation that moves the balance and the credit rows apart; a lost update; a credit applied to a debt and still spendable |
| `EveryCreditAccountedFor` | invariant | availability kept from the time of request, a debit recorded against another wallet's credit, a shortfall that is not manual |
| `AuditTrailChains` | invariant | a balance before or after taken from the wrong moment, a row posted twice or never |
| `BonusSharesPurchaseFate` | invariant | a purchase completed or failed without its bonus |
| `BalanceMatchesRate` | invariant | the currency balance computed from another rate, or before the bonus |
| `ConversionKeepsTheCredits` | action | credits lost or stuck between the old wallet and the new one |
| `ExpiredCreditsLeaveTheBalance` | liveness | a credit at the boundary that is neither eligible nor due |
| `LockedReadIsCurrent` | invariant | a write between the locked read and the commit; a cached read |
| `BalanceIsSumOfRequests` | invariant | a retry counted twice, a rolled-back request counted |
| `PurchaseSettledOnce` | action | the status not read again under the lock |
| `OrdinaryDebitsAreFunded` | invariant | a debit that trusts the balance instead of the credit rows |
| `LockIsReleased` | liveness | a way out of a transaction that keeps the lock |
| `TerminationEmptiesWallet` | action | finding 2 |
| `PaymentKeepsOutcome` | action | a success and a failure report that both pass the first look |
| `OnlySucceededPaymentsCount` | invariant | an invoice reconciled for a payment that then fails |
| `PurchaseFollowsInvoice` | invariant | credits handed out without a paid invoice, or given up without a void, whoever overwrites whom |
| `PaymentCountedOnce` | invariant | finding 3 |
| `PromisedIsDue` | invariant | planning that drops what no payment covers, a fallback counted beside the row it replaces, a void planned twice over the same keys |
| `RefundedIsPromised` | invariant | a void that returns what a note has returned, a void of a note that forgets the refunds, an invoice that promises more than it was given; as long as no copy was written over it |
| `RefundsAreFunded` | invariant | finding 4 |
| `StatusTellsWhoPaid` | invariant | two fallbacks for one failed row, a webhook that settles a row the wallet paid, a claim that lets two processes ask the gateway |
| `ImplementsPromise` (refund) | refinement | a row paid twice, by two dispatches, or by the wallet and the gateway; money returned that no note or void promised; a promise taken back |
| `CompletedMeansDelivered` | invariant | a claim that overwrites a cleanup, a cleanup that deletes what a completer relies on, a claim without the product that no log entry explains |
| `CompletedMeansCredited` | invariant | finding 5 |
| `EndedMeansWithdrawn` | invariant | a completer that brings an archived subscription or a failed purchase back |
| `ImplementsPromise` (checkout) | refinement | a delivery without a charge, a session decided twice, a refund of a session that was delivered |
| `SessionEnds` | liveness | a failed completion that is acknowledged and a cleanup that can never win |
| `AppliedWasDebited` | invariant | a recomputation that forgets the credits applied, or brings a stale amount back; a credit debited for a draft and expired too |
| `CreditPaysEarlierUsage` | invariant | two credits planned for the same usage; a draft's later usage paid by an expired credit |
| `CreditExpiresOverPaidUsage` | action | an invoice finalized before the job came; a draft the plan overlooks |
| `EndedPeriodIsBilled` | liveness | a hold that waits for a job that keeps failing |

`TypeOK` is the type invariant of each module. Each property of a passing run is
also known to fail when one mapped definition is changed in the way a bug would
change it; these variants stand in the modules just before the definition they
vary, marked as mutants, and are used by no specification.

---------------------------------------------------------------------------

## 5. Findings

1. *A locked read can be stale* (`wallet_tx_stale`). `GetWalletByID` answers from
   Redis also inside a transaction that holds the wallet's lock, and writers
   delete the entry before they commit. A reader that read the row before the
   commit puts the old balance back; the next locked operation computes with it
   and the committed change is lost. The comment at the read says it "ensures we
   read the latest committed state". Only with the cache enabled; without it the
   theorem `ReadUnderLockIsCurrent` says it cannot happen.
2. *A termination can leave credits behind* (`wallet_terminate`). The balance it
   debits was read before its transaction; a credit committed in between stays on
   the closed wallet.
3. *One success can be counted twice* (`invoice_webhooks`). Two deliveries pass
   the first look together; SUCCEEDED to SUCCEEDED is an allowed update, so both
   reconcile. The comment calls the operation idempotent.
4. *The same money can be given back twice* (`refund_race`). `ReconcilePaymentStatus`
   reads without the row lock and writes every column: a second payment is read for, a
   refund note commits, the copy is written and the invoice has forgotten what it
   refunded. A void then returns
   everything that was paid, while the note's rows are paid too. The comment in
   `VoidInvoice` says that it must not. The rows themselves stay right: what was
   promised is planned and returned once (`PromisedIsDue`, `ImplementsPromise`); the
   promise is made twice.
5. *A completed top-up need not be credited* (`checkout_credited`). Three failed attempts
   at completing the purchase are logged ("the transaction can be manually completed
   later"), and the session is marked completed. The design document tells the client
   to refetch the wallet then. `CompletedMeansDelivered` says what does hold: the
   purchase is pending, never failed, and the log names it.

Disagreements that TLC confirms in the models as they stand, without a run of
their own:
* *A void can be undone.* The same copy of finding 4, made before a void, brings the
  invoice back, in `Refund` and in `InvoicePayment` (a step from `VOIDED` to another
  status); `docs/invoice_generation_flow.md:516` calls VOIDED terminal. In `Refund` a
  second void of it, if the first planned rows, finds their keys taken (`VoidConflicts`).
* *Two rates, one balance.* Completing a purchase adds credits at the top-up rate to
  the currency balance (`wallet.go:1517`); everything else sets it to credits at the
  conversion rate, which `Wallet.Validate` demands. With equal rates they agree
  (`wallet_ledger`, `OneRateKeepsBalance`); with `TopupConversionRate = 1` beside a
  `ConversionRate` of 2, `BalanceMatchesRate` fails at the first completed purchase.
* *A session can stay open for good.* A completion granted the purchase and failed
  before its claim; the wallet is closed. A redelivered event now fails at the wallet
  check, and the sweep rolls back at the completed purchase. The comment on `ExpiresAt`
  (`domain/checkout/model.go:198`) says any such session is marked expired.
  `SessionEnds` names this case, and nothing else, as its exception.
* *A claimed refund can be stuck.* An error, a crash, or a webhook that comes
  before the gateway's id is recorded (it matches no row and is acknowledged)
  leaves a row PROCESSING, which `RetryRefund` refuses; the comment at
  `creditnote.go:854` expects "a PENDING row that RetryRefund can pick up".
* *A payment can be asked for more than it has.* Settled and in-flight sums are two
  queries, so a row that settles between them is in neither; the comment at
  `refund.go:127` says what is in flight counts as drawn.
* *REFUNDED becomes SUCCEEDED* when a draft adjustment note is finalized after the
  refunds (`creditnote.go:1094`).
* *A lost answer is paid twice*: the gateway accepts, its answer is lost, the row
  fails and its wallet fallback pays. `StatusTellsWhoPaid` and the refund's promise
  name `unanswered` requests as their exception.
* *Losing the claim to a cleanup reports success* (`checkout_session.go:642`): the
  event is acknowledged, the session ended, and a captured charge is returned only
  if another event comes. The comment in Stripe's handler, "The session is still
  pending", does not hold then.
* *A paid invoice voided by a cleanup* credits the wallet, and a redelivered event
  refunds the same payment at the gateway (`checkout_session.go:538`).
* *A payment-gated add-on or subscription change stays applied* when a cleanup ends
  the session between its apply and the invoice's finalization
  (`checkout_session_actions.go:401`).
* *Lines can drop below what was applied.* `ComputeInvoice` reads usage before its
  lock and does not ask, under it, whether a later computation came first; the
  older one puts fewer lines back. Finalization then gives up the excess with a log
  line. The comment at `credit_adjustment.go:267`, "Only possible if usage dropped
  below what was paid at expiry", misses this case. For the same reason a draft can
  look computed after its period's end (`LastComputedAt` is the time of the write)
  with usage read before it.
* *A later credit can take usage an earlier one could pay*, when the earlier one's
  settlement fails: the run goes on with the next credit. The comment at
  `wallet_activities.go:86` rules it out for the order of the list only.

Noted while modelling, with no promise in the repository to hold them against:
a purchase completes on a closed wallet; the reason of a failed purchase is put in
the row's metadata, which `UpdateTransaction` does not write; a partial payment
reported by a gateway marks the invoice SUCCEEDED; a payment recorded as
SUCCEEDED whose process dies before the invoice is reconciled is never
reconciled, as a redelivery returns early.

---------------------------------------------------------------------------

## 6. Proofs

TLC agrees with each statement on the instances above; TLAPS proves it for every
value of the constants that satisfies the named assumptions of the modules
(`LedgerConstants`, `WalletTxConstants`, `PurchasesAreNotKeys`, `KeysAreOfOneKind`,
`RequestsAreFinite`, `InvoicePaymentConstants`, `RefundConstants`,
`CheckoutAssumption`, `SettlementConstants`: kinds of values, and that the requests,
payments, notes and credits that are added up are finitely many; all evaluated by
TLC in the runs) and the hypotheses in their statements. Two hypotheses exclude
something the code allows, and for both section 5 says why: `~CacheEnabled`
(finding 1) and `TopupConversionRate = ConversionRate`. Two
more exclude nothing real: that the wallets of a database are finitely many, and that
operations stay within the bound a run gives them (`MovesAreBounded`).

Sums. Money invariants compare sums over rows, credits, requests or hours. What
the models write with the folds of the community modules is `SumOver(f, S)` in
`SumTheorems`, which proves what the proofs ask of a sum: its type, one element
more or less, one value changed, two parts of a set, `f <= g`, a part of the
elements. The induction is over the subsets of the finite set: were there one for
which a claim fails there would be a minimal one (`MinimalSubset`, from the
well-foundedness of strict inclusion), and taking one element out of it gives a
smaller one. So no theorem with an operator for a parameter is needed.

* `AccountIsBacked` — `AccountSpec => []AccountSafety`, for positive amounts. The conjunction of type,
  `BalanceBackedByCredits` and `GapIsOverdraft` is inductive as it stands: a grant
  below zero closes the gap it pays off, a spend moves both alike, an overdraft
  widens the gap by what it records.

* `BonusFollowsPurchase` — `[]BonusSharesPurchaseFate` of `WalletLedger`. It needs to
  know more than it says: that only a `BONUS` row has a parent, and that the parent
  is an earlier row without one (`Linked`). Then the purchase a step settles is
  nobody's bonus, and the rows it takes along are exactly its pending bonuses,
  which until now had its own status. The other steps append rows
  (`AppendKeepsLinks`) or lower what rows have available (`ConsumeKeepsFields`).

* `LedgerTypes`, `CreditsAreAccountedFor` — `[]TypeOK` and
  `[]EveryCreditAccountedFor` of `WalletLedger`, for any wallets, offers and rates.
  The inductive invariant is `BooksInv`: `TypeOK` and `Booked(rows)`. That is, every
  consumption is one of a settled credit of the same wallet (`ConsumesSettled`);
  what a credit has left and what all debits took of it are what it could pay when
  it was settled (`CreditsAddUp`); a debit's consumptions are worth its amount, and
  less only if it is manual (`Covered`). The types need this too: a credit's
  availability stays natural because a debit takes what is there. What debits took
  of a credit is a sum over all rows, so each operation is reduced to three moves
  and a lemma for each: a debit is appended and takes its consumptions
  (`DebitIsBooked`), a credit is appended (`CreditIsBooked`), a pending credit is
  settled (`SettledIsBooked`). `TerminateWallet` and `Convert` take everything a
  wallet has, which `BreakdownWorth` shows to be the debit's amount.

* `OneRateKeepsBalance` — `[]BalanceMatchesRate` if credits are bought and spent at
  one rate: every operation moves the balance by the rate times the credits it moves.

* `WalletsAreAccounts`, `LedgerImplementsAccounts`, `BalancesAreBacked` — every
  operation of the ledger moves each wallet by one step of `WalletAccount` or not at
  all. The account's numbers are sums over all rows: what settled credits have left,
  and what manual debits did not find. So an operation is a grant, a spend those
  credits cover, or an overdraft, according to the rows it appends or settles, and the
  proof says for each operation which. Besides `BooksInv` and `Linked` it rests on
  `ShapeInv`: purchases and bonuses are credits, a bonus is the row right after its
  purchase, and a wallet not opened yet has neither rows nor a balance.
  `WalletsAreAccounts` lets an account move by any positive number of credits. The
  accounts that the run checks move by at most `MaxMove`, the run's bound, so
  `ImplementsAccount` of those assumes `MovesAreBounded`. `BalancesAreBacked` draws the
  conclusion: in every wallet the balance is at most what its rows can pay, and what
  it falls short of that is covered by manual overdrafts.

* `ConversionLosesNothing` — `ConversionKeepsTheCredits`, for finitely many wallets,
  as their balances are added up. Only `Convert` closes one wallet and opens another.
  The new one has no rows before it, which is the last part of `ShapeInv`, so what it
  can spend afterwards is exactly the row it was opened with.

* `AuditTrailIsUnbroken` — `[]AuditTrailChains`. `ChainInv` says the same of any rows,
  posting order and balances, so that the lemmas can be about intermediate ones: an
  operation is one or more settled rows, each starting where the wallet's last one
  ended (`ChainGrows`), and changes of other columns, which the trail does not see
  (`ChainStays`). A pending row is in nobody's trail until it is settled, and then
  it is posted at that moment, not at its place among the rows.


* `TypeCorrect` — `[]TypeOK` of `WalletTx`, cache or not. `TypeOK` alone is not
  inductive: that `available` stays a natural number needs to know that the
  credits a debit took are still there at its commit. The strengthening is
  `LockInv`: a process past `Lock` is the lock's holder (`LockHeld`); its request
  and its amount are known (`JobKnown`, `AmountKnown`); a debit about to commit
  takes no more than is available, and less than its amount only if it is manual
  (`CreditsReserved`). The last survives the other processes because only a holder
  commits a change of `available`.

* `ReadUnderLockIsCurrent` — without the cache, what a transaction read is the
  committed balance until it commits: `LockInv` and `LockedReadIsCurrent`
  together are inductive once `BalancesRead` is the database's row. The
  assumption `~CacheEnabled` is needed: the run `wallet_tx_stale` violates the
  statement without it.

* `WalletTxImplementsAccount` — without the cache, `Spec => Account!AccountSpec`.
  A commit of a credit is a `Grant`, of a covered debit a `Spend`, of a short
  manual debit an `Overdraw`; everything else leaves the three numbers alone. It
  rests on the two invariants above. `BalanceIsBacked` is its corollary: the balance
  never exceeds what the credit rows can pay, and only manual debits separate them.

* `BalanceAddsUpRequests` — `[]BalanceIsSumOfRequests`, without the cache. In
  addition to the invariants above it needs `KeyStillNew`: a key that was new at the
  insert is new at the commit, as whoever could have used it meanwhile would have
  needed the lock. Then each commit adds its amount to the balance and to one
  request that had applied nothing, and no other step moves either.

* `OrdinaryDebitsFunded` — `[]OrdinaryDebitsAreFunded`, with or without the cache:
  what ordinary debits and the termination took, with what is still available, is
  no more than what was granted (`FundedInv`): credit rows are read under the lock.

* `PurchasesSettleOnce` — with or without the cache. `SettlementInv` adds to
  `LockInv` that credits have moved under a purchase exactly if it is COMPLETED,
  and that whoever is past the locked re-read of a purchase still finds it
  PENDING. Nothing of it depends on the balance, which is why the cache is harmless here.

* `CountedPaymentsSucceeded`, `OutcomesAreFinal`, `PurchaseIsEarned` — for any processes, payments and
  amounts. `ReportInv` says what a process knows at each label (`KnownAt`): that
  the transition it is about to write is allowed from the status it observed, and
  that whoever reconciles a payment does so for a SUCCEEDED one. `Forward` is the
  step property that keeps this knowledge true whatever the others do: outcomes
  are kept and no payment disappears. The comparison in
  `UpdateWithExpectedStatus` is what makes the step `Forward`. `PurchaseIsEarned`
  (`[]PurchaseFollowsInvoice`) rests on an invariant of its own, `PurchaseInv`:
  whoever is about to complete the purchase has committed a row that earns it, so
  `wasPaid` holds, and whoever is about to fail it has committed a void. It holds
  although row copies overwrite each other, because `wasPaid` and `voidedAt` are
  about what was ever written.
* `InvoiceKeepsTypes` — `[]TypeOK` of `InvoicePayment`; the amount paid is a sum
  over payments.

* `CheckoutTypes`, `CompletedIsDelivered`, `EndedIsWithdrawn` — for any number of
  events, polls, cleaners and faults. Neither property is inductive. `LinkedFirst`
  says nothing is captured, and no completer runs, before the link exists;
  `OpenIsIntact`, that what was prepared is untouched until the session is decided;
  `Established`, what each completer has put in place by the statement it is at, as
  long as the session is active; `StepsFit`, which kinds take which steps. A
  completer's work can only be undone by a cleanup's commit, and that ends the
  session, which is why claiming last, and only an active session, is enough. At the
  claim a completer has handed the product over or has logged that it could not
  (`HandedOver`, `Owed`); the purchase it owes cannot have been withdrawn, as that too
  would have ended the session.
* `CheckoutKeepsPromise`, `NeverProductAndMoney` — `Spec => Promise!Spec`: every
  step is one of the promise's or leaves `Outcome`, `captured` and `returned`
  alone; hence value goes back only for a session that was dropped.

* `StatusIsTrue`, `GatewayAskedOnce` — for any invoice, notes, processes and
  webhooks. `PlannedOnce`: rows exist only for what has been committed, so a
  planner, alone under the invoice's lock, overwrites none. `AskedAfterClaim`: a
  row nobody claimed was never sent to a gateway. `AtWork`: what a process knows of
  the row it is at, for each label. `AskedOnce`: one process at most is at the call
  of a row, and the gateway has not seen it. `Types` is the part of `TypeOK` these
  need.
* `RefundTypes`, `NothingPlannedTwice`, `RefundedIsCurrent` — `[]TypeOK`,
  `[]PromisedIsDue` and `[]RefundedIsPromised`, for any amounts, collected inside or
  outside. `Money` joins the invariants above: what each row is still for adds up to
  what was promised (`DueAddsUp`); a fallback is minted for a gateway row that has
  failed, over the same amount, and replaces it (`Replacing`); unless a copy was
  written over it, the invoice's adjustment and refunds are what the finalized notes
  and the void have put on it. That planning hands out exactly the amount asked for,
  payment after payment and the rest to the wallet, is a lemma about `Share` summed
  over the slots of a reason. `NothingPlannedTwice` needs no such exception: a note
  plans its own amount, and a second void finds its keys taken (`Planned`), whatever
  the invoice says.
* `PromiseImplemented` — `Spec => ImplementsPromise`: every step of `Refund` promises
  or returns what `RefundPromise` allows, or leaves both sums alone; it rests on
  `Money`. The promise does not say that promises are funded, which `refund_race`
  refutes.
* `PromiseWithinMeans` — `RefundPromise` keeps `returned <= promised`.

* `SettlementTypes`, `NoCreditLostOrSpentTwice`, `CreditsPayEarlierUsage`,
  `CreditsExpireOverPaidUsage` — `[]TypeOK`, `[]AppliedWasDebited`,
  `[]CreditPaysEarlierUsage` and the action property `CreditExpiresOverPaidUsage` of
  `CreditSettlement`, for any subscription, credits and schedule of the job. The
  inductive invariant keeps the books of each credit (`BooksBalance`) and each open
  invoice (`OpenInvoices`), and says what the job's plan is still worth when its
  transaction starts: it fits the drafts it was made for, because usage from before
  the expiry cannot change once the grace is over and credits on a draft only grow
  through the job (`PlanFits`, `GraceIsOver`), and it still covers what the credit
  could pay, up to what the plan saw of a draft (`PlanCovers`). The assumption
  `Lateness <= Grace` of `SettlementConstants` is where the first is needed.

Model-checked only, and why: the liveness properties `ExpiredCreditsLeaveTheBalance`
(`WalletLedger`), `LockIsReleased` (`WalletTx`), `SessionEnds` (`Checkout`) and
`EndedPeriodIsBilled` (`CreditSettlement`), as neither ENABLED nor fairness is in the
prover's reach. Every other property of a passing run is stated by a theorem above.

---------------------------------------------------------------------------

## 7. Plan

The order is by how much money is at stake in an order of events nobody tests.

Done: `WalletAccount`, `WalletLedger`, `WalletTx`, `InvoicePayment`, `Refund`,
`Checkout` and their promises, `CreditSettlement`, with the proofs above.

Next, models:
1. `CreditAdjustment` — several wallets paying one invoice line by line: the pool
   computation against a reference definition over bounded inputs. What one wallet
   gives a whole invoice is in `CreditSettlement`.
2. `CreditExpiryLocks` — invoice and wallet locks of the expiry job and of
   finalization in one module, with deadlock checking and lock timeouts; overlapping
   attempts of one run.
3. `CreditGrants` — scheduled applications, retries and catch-up.
4. `SubscriptionPeriods` — the period roll and its invoice under repeated
   workflow runs and cancellation.
5. `EventPipeline`, `WebhookDelivery` — at-least-once delivery into
   deduplicating consumers, with weak fairness of the retrying side.
6. Pure algorithms beside the modules that use them: the loop of `ConsumeCredits`
   against `Consumptions`, proration, price tiers.
7. Auto top-up with its pending guard, cooldown and derived idempotency key;
   `CreateWallet`'s unlocked uniqueness check as statements.

Next, proofs: those of the modules still to be written, and for the credit grants and
the period roll the promises they implement.

Bounds stay in the range used now: two or three processes, one to three items of
each kind, and runs of about a minute.

---------------------------------------------------------------------------

## 8. Not modelled, and why

Planned components are listed in section 7. Beyond them:

* *Billing, proration, tiers, commitments, taxes, coupons*: decimal arithmetic in
  sequential code; the formulas can be compared with references (plan, 6), the
  rounding modes are library behaviour.
* *Subscription changes, phases, modifications*: long sequential rewriting of
  line items inside one transaction.
* *Entitlements, alerts, journal, revenue*: queries and derived rows; they read
  the modelled state and do not change it.
* *Catalogue CRUD, API, authentication*: single rows and request checks, with no
  interplay between actors.
* *Integrations*: clients of external services; what those report enters
  `InvoicePayment`, `Refund` and `Checkout` as answers and deliveries.
* *Generated code, SDKs, migrations.*
* *Card, UPI and payment-link branches of the processor, payment attempts, and
  the charge lock with its fifteen-minute expiry*: listed as a hazard.
* *In modelled components*: a session's archiving by Delete and the debounce of its
  polls, conversion into a billing currency, refunds in several currencies, line
  items, tax reversal and numbers of credit notes.

External to `src/` and modelled by use: the clock (`Tick`) and the loss of a cache
entry in Redis (`CacheExpires`).
