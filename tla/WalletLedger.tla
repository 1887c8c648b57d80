---------------------------- MODULE WalletLedger ----------------------------
(***************************************************************************)
(* The credit wallets of one customer: wallet rows with their balances, and *)
(* the wallet_transactions rows behind them.  Every action is one committed *)
(* database transaction of the wallet service; what happens between the     *)
(* statements of such a transaction is the subject of WalletTx.             *)
(***************************************************************************)
EXTENDS Integers, Sequences, FiniteSets, Functions

CONSTANTS
    Wallets,              \* wallet ids
    Prepaid,              \* those created prepaid; the others are postpaid
    Offers,               \* the [credits, lifetime, priority] a grant may have
    Debits,               \* the credit amounts a debit may ask for
    Bonuses,              \* the offers a purchase may earn as its bonus
    ConversionRate,       \* currency units per credit when spent
    TopupConversionRate,  \* currency units per credit when bought
    MaxTime,              \* bound: the clock stops here
    MaxRows,              \* bound: with these wallets, no request beyond so many rows
    MaxMove,              \* bound: no operation moves more credits than this
    Grace                 \* settlementGracePeriod, in clock ticks

ASSUME LedgerConstants ==
    /\ Prepaid \subseteq Wallets
    /\ MaxTime \in Nat /\ MaxMove \in Nat /\ Grace \in Nat
    /\ MaxRows \in [SUBSET Wallets -> Nat]
    /\ Offers \cup Bonuses \subseteq
           [credits : Nat \ {0}, lifetime : Nat \ {0}, priority : Nat]
    /\ Debits \subseteq Nat \ {0}
    /\ ConversionRate \in Nat \ {0} /\ TopupConversionRate \in Nat \ {0}

VARIABLES
    now,             \* the clock
    walletStatus,    \* "none" until the wallet exists, then active or closed
    balance,         \* wallets.balance, in currency
    creditBalance,   \* wallets.credit_balance, in credits
    rows,            \* wallet_transactions, in creation order
    posted           \* history: the rows whose credits entered the balance, in order

vars == <<now, walletStatus, balance, creditBalance, rows, posted>>

Time == 0 .. MaxTime
NoExpiry == MaxTime + 1          \* a NULL expiry sorts after every date

(* A tick starts at the instant of its number and holds the operations done *)
(* in it, so a reference date of `now` itself falls before those of the     *)
(* next tick and after those of this one.                                   *)
ThisInstant == now + 1
NoParent == 0

Row == [wallet : Wallets, type : {"credit", "debit"},
        reason : {"GRANT", "PURCHASE", "BONUS", "SPEND", "MANUAL",
                  "EXPIRED", "TERMINATION"},
        status : {"PENDING", "COMPLETED", "FAILED"},
        credits : Nat, available : Nat,
        expiry : Nat, priority : Nat, created : Nat,
        before : Int, after : Int,
        parent : Nat,            \* the purchase a bonus was earned by
        consumed : SUBSET [credit : Nat, credits : Nat]]  \* ConsumptionBreakdown

TypeOK ==
    /\ now \in Time
    /\ walletStatus \in [Wallets -> {"none", "active", "closed"}]
    /\ balance \in [Wallets -> Int]
    /\ creditBalance \in [Wallets -> Int]
    /\ rows \in Seq(Row)
    /\ posted \in Seq(DOMAIN rows)

Init ==
    /\ now = 0
    /\ walletStatus = [w \in Wallets |-> "none"]
    /\ balance = [w \in Wallets |-> 0]
    /\ creditBalance = [w \in Wallets |-> 0]
    /\ rows = <<>>
    /\ posted = <<>>

----------------------------------------------------------------------------
(* Credits.                                                                 *)

KeepsNegative(n) == n                                    \* mutant of NonNegative
NonNegative(n) == IF n < 0 THEN 0 ELSE n

AllCreditsAvailable(before, after, credits) == credits    \* mutant of the next

(* A credit posted below zero pays the overdraft off first.                 *)
ComputeCreditsAvailable(before, after, credits) ==
    IF before < 0 THEN NonNegative(after) ELSE credits

ExpiryOf(offer) ==
    IF now + offer.lifetime > MaxTime THEN NoExpiry ELSE now + offer.lifetime

(* A credit row: posted at once, or PENDING with the balance it saw.        *)
CreditRow(w, reason, status, offer, parent, before) ==
    LET after == IF status = "COMPLETED" THEN before + offer.credits ELSE before
    IN  [wallet |-> w, type |-> "credit", reason |-> reason, status |-> status,
         credits |-> offer.credits,
         available |-> ComputeCreditsAvailable(before, after, offer.credits),
         expiry |-> ExpiryOf(offer), priority |-> offer.priority,
         created |-> now, before |-> before, after |-> after,
         parent |-> parent, consumed |-> {}]

(* Mutants of Completed: the availability, or the balances, computed when   *)
(* the purchase was requested are kept.                                     *)
CompletedKeepingAvailable(row, before) ==
    [row EXCEPT !.status = "COMPLETED", !.before = before, !.after = before + row.credits]
CompletedKeepingBalances(row, before) ==
    [row EXCEPT !.status = "COMPLETED", !.after = row.before + row.credits]

(* The row as completePurchasedCreditTransaction settles it.                *)
Completed(row, before) ==
    LET after == before + row.credits
    IN  [row EXCEPT !.status = "COMPLETED", !.before = before, !.after = after,
           !.available = ComputeCreditsAvailable(before, after, row.credits)]

(* The purchase's own row and, if it earned one, its bonus row.             *)
PurchaseRows(w, reason, status, offer, bonus, before) ==
    LET purchase == CreditRow(w, reason, status, offer, NoParent, before)
        Grant(b) == CreditRow(w, "BONUS", status, b, Len(rows) + 1, purchase.after)
    IN  IF bonus = <<>> THEN <<purchase>> ELSE <<purchase, Grant(bonus[1])>>

----------------------------------------------------------------------------
(* Debits.                                                                  *)

(* FindEligibleCredits: what a debit dated `ref` may consume.               *)
EligibleCredits(w, ref) ==
    {i \in DOMAIN rows :
        /\ rows[i].wallet = w
        /\ rows[i].type = "credit"
        /\ rows[i].status = "COMPLETED"
        /\ rows[i].available > 0
        /\ rows[i].expiry >= ref
        /\ rows[i].created < ref}

Available(S) == FoldFunction(+, 0, [i \in S |-> rows[i].available])

(* Priority first, then the earliest expiry, then the largest credit.       *)
ConsumedBefore(i, j) ==
    \/ rows[i].priority < rows[j].priority
    \/ /\ rows[i].priority = rows[j].priority
       /\ \/ rows[i].expiry < rows[j].expiry
          \/ /\ rows[i].expiry = rows[j].expiry
             /\ rows[i].credits > rows[j].credits

(* ConsumeCredits walks the credits in that order and empties each before   *)
(* the next; equal ones come in any order.                                  *)
Consumptions(S, amount) ==
    {take \in [S -> 0 .. amount] :
        /\ \A i \in S : take[i] <= rows[i].available
        /\ LET taken == FoldFunction(+, 0, take)
           IN  taken <= amount /\ (taken = amount \/ taken = Available(S))
        /\ \A i, j \in S :
              take[j] > 0 /\ ConsumedBefore(i, j) => take[i] = rows[i].available
        /\ \A i, j \in S :
              /\ take[i] \in 1 .. rows[i].available - 1
              /\ take[j] \in 1 .. rows[j].available - 1
              => i = j}

DebitRow(w, reason, amount, take, before) ==
    [wallet |-> w, type |-> "debit", reason |-> reason, status |-> "COMPLETED",
     credits |-> amount, available |-> 0, expiry |-> NoExpiry, priority |-> 0,
     created |-> now, before |-> before, after |-> before - amount,
     parent |-> NoParent,
     consumed |-> {[credit |-> i, credits |-> take[i]] : i \in {j \in DOMAIN take : take[j] > 0}}]

Consume(take) ==
    [i \in DOMAIN rows |->
        IF i \in DOMAIN take THEN [rows[i] EXCEPT !.available = @ - take[i]]
                             ELSE rows[i]]

----------------------------------------------------------------------------
(* Operations.                                                              *)

Maybe(S) == {<<>>} \cup {<<e>> : e \in S}

Exists(w) == walletStatus[w] # "none"
Active(w) == walletStatus[w] = "active"
SameType(w, v) == w \in Prepaid <=> v \in Prepaid
HasRoom(w) == Len(rows) < MaxRows[{v \in Wallets : Exists(v) \/ v = w}]

LastAfter(w, added) == IF added = <<>> THEN creditBalance[w] ELSE added[Len(added)].after

(* Mutant of Post: the balance is computed before the bonus.                *)
PostBalanceBeforeBonus(w, kept, added) ==
    /\ rows' = kept \o added
    /\ posted' = posted \o [k \in DOMAIN added |-> Len(rows) + k]
    /\ creditBalance' = [creditBalance EXCEPT ![w] = LastAfter(w, added)]
    /\ balance' = [balance EXCEPT ![w] = IF added = <<>> THEN @
                      ELSE added[1].after * ConversionRate]

(* Completed rows `added` for wallet w enter the ledger and its balances.   *)
Post(w, kept, added) ==
    /\ rows' = kept \o added
    /\ posted' = posted \o [k \in DOMAIN added |-> Len(rows) + k]
    /\ creditBalance' = [creditBalance EXCEPT ![w] = LastAfter(w, added)]
    /\ balance' = [balance EXCEPT ![w] = IF added = <<>> THEN @
                      ELSE LastAfter(w, added) * ConversionRate]

PostDebit(w, reason, amount, take) ==
    Post(w, Consume(take), <<DebitRow(w, reason, amount, take, creditBalance[w])>>)

(* CreateWallet: one active wallet per type, its initial credits with it.   *)
CreateWallet(w, load) ==
    /\ walletStatus[w] = "none"
    /\ \A v \in Wallets : Active(v) => ~SameType(v, w)
    /\ HasRoom(w)
    /\ walletStatus' = [walletStatus EXCEPT ![w] = "active"]
    /\ Post(w, rows, [k \in DOMAIN load |->
                        CreditRow(w, "GRANT", "COMPLETED", load[k], NoParent, 0)])
    /\ UNCHANGED now

(* CreditWallet, and TopUpWallet for every reason but an invoiced purchase. *)
(* A closed wallet is not refused.                                          *)
CreditWallet(w, offer, bonus) ==
    /\ Exists(w) /\ HasRoom(w)
    /\ Post(w, rows, PurchaseRows(w, "GRANT", "COMPLETED", offer, bonus,
                                  creditBalance[w]))
    /\ UNCHANGED <<now, walletStatus>>

(* DebitWallet, for a payment now or for an invoice whose period ends at    *)
(* `ref`; its callers select active wallets.                                *)
DebitWallet(w, amount, ref) ==
    LET eligible == EligibleCredits(w, ref)
    IN  /\ Active(w) /\ HasRoom(w)
        /\ Available(eligible) >= amount
        /\ \E take \in Consumptions(eligible, amount) :
               PostDebit(w, "SPEND", amount, take)
        /\ UNCHANGED <<now, walletStatus>>

(* ManualBalanceDebit goes through when the credits do not cover it.        *)
ManualBalanceDebit(w, amount) ==
    /\ Active(w) /\ HasRoom(w)
    /\ \E take \in Consumptions(EligibleCredits(w, ThisInstant), amount) :
           PostDebit(w, "MANUAL", amount, take)
    /\ UNCHANGED <<now, walletStatus>>

(* An invoiced purchase, left pending until its invoice is paid.            *)
RequestPurchase(w, offer, bonus) ==
    /\ Exists(w) /\ HasRoom(w)
    /\ rows' = rows \o PurchaseRows(w, "PURCHASE", "PENDING", offer, bonus,
                                    creditBalance[w])
    /\ UNCHANGED <<now, walletStatus, balance, creditBalance, posted>>

(* The same with auto_complete_purchased_credit_transaction on: the credits *)
(* enter the balance at the top-up rate.                                    *)
RequestCompletedPurchase(w, offer, bonus) ==
    LET added  == PurchaseRows(w, "PURCHASE", "COMPLETED", offer, bonus, creditBalance[w])
        gained == LastAfter(w, added) - creditBalance[w]
    IN  /\ Exists(w) /\ HasRoom(w)
        /\ rows' = rows \o added
        /\ posted' = posted \o [k \in DOMAIN added |-> Len(rows) + k]
        /\ creditBalance' = [creditBalance EXCEPT ![w] = @ + gained]
        /\ balance' = [balance EXCEPT ![w] = @ + gained * TopupConversionRate]
        /\ UNCHANGED <<now, walletStatus>>

ForgetsBonus(i) == {}                                    \* mutant of PendingBonus

(* GetPendingTransactionByParent.                                           *)
PendingBonus(i) ==
    {j \in DOMAIN rows : rows[j].parent = i /\ rows[j].status = "PENDING"}

IsPendingPurchase(i) == rows[i].reason = "PURCHASE" /\ rows[i].status = "PENDING"

(* completePurchasedCreditTransaction: the invoice is paid, the purchase    *)
(* and its bonus enter the balance, whatever the wallet's status.           *)
CompletePurchase(i) ==
    LET w      == rows[i].wallet
        bonus  == PendingBonus(i)
        paid   == Completed(rows[i], creditBalance[w])
        earned == [j \in bonus |-> Completed(rows[j], paid.after)]
        gained == rows[i].credits + FoldFunction(LAMBDA r, n : r.credits + n, 0, earned)
    IN  /\ IsPendingPurchase(i)
        /\ rows' = [j \in DOMAIN rows |->
                       IF j = i THEN paid ELSE IF j \in bonus THEN earned[j] ELSE rows[j]]
        /\ posted' = posted \o (IF bonus = {} THEN <<i>> ELSE <<i, CHOOSE j \in bonus : TRUE>>)
        /\ creditBalance' = [creditBalance EXCEPT ![w] = @ + gained]
        /\ balance' = [balance EXCEPT ![w] = @ + gained * TopupConversionRate]
        /\ UNCHANGED <<now, walletStatus>>

(* FailPurchasedCreditTransaction: nothing moved, nothing to reverse.       *)
FailPurchase(i) ==
    /\ IsPendingPurchase(i)
    /\ rows' = [j \in DOMAIN rows |->
                   IF j \in {i} \cup PendingBonus(i)
                   THEN [rows[j] EXCEPT !.status = "FAILED"] ELSE rows[j]]
    /\ UNCHANGED <<now, walletStatus, balance, creditBalance, posted>>

(* Mutant of DueForExpiry: the cutoff itself is left out.                   *)
DueAfterCutoff(i) ==
    /\ rows[i].type = "credit" /\ rows[i].status = "COMPLETED"
    /\ rows[i].available > 0
    /\ rows[i].expiry # NoExpiry /\ rows[i].expiry + Grace < now

(* What the expiry job lists: settled credits past the grace period.        *)
DueForExpiry(i) ==
    /\ rows[i].type = "credit" /\ rows[i].status = "COMPLETED"
    /\ rows[i].available > 0
    /\ rows[i].expiry # NoExpiry /\ rows[i].expiry + Grace <= now

(* ExpireCredits: `applied` credits go to draft invoices for usage before   *)
(* the expiry, the rest is debited as expired; both take from credit i.     *)
ExpireCredits(i, applied) ==
    LET w    == rows[i].wallet
        all  == rows[i].available
        Take(n) == [j \in {i} |-> n]
        spent   == DebitRow(w, "SPEND", applied, Take(applied), creditBalance[w])
        expired == DebitRow(w, "EXPIRED", all - applied, Take(all - applied),
                            creditBalance[w] - applied)
        debits  == IF applied = 0 THEN <<expired>>
                   ELSE IF applied = all THEN <<spent>> ELSE <<spent, expired>>
    IN  /\ DueForExpiry(i)
        /\ Post(w, Consume(Take(all)), debits)
        /\ UNCHANGED <<now, walletStatus>>

(* The whole balance leaves the wallet, or the operation fails.             *)
CanEmpty(w) == Available(EligibleCredits(w, ThisInstant)) >= creditBalance[w]

TerminateWallet(w) ==
    /\ Active(w)
    /\ IF creditBalance[w] > 0
       THEN /\ CanEmpty(w)
            /\ \E take \in Consumptions(EligibleCredits(w, ThisInstant), creditBalance[w]) :
                   PostDebit(w, "TERMINATION", creditBalance[w], take)
       ELSE UNCHANGED <<rows, posted, balance, creditBalance>>
    /\ walletStatus' = [walletStatus EXCEPT ![w] = "closed"]
    /\ UNCHANGED now

NoExpiryOffer(held) == [credits |-> held, lifetime |-> NoExpiry, priority |-> 0]

(* Mutant of TransferRow: the transfer waits like a purchase.               *)
TransferPending(v, held) == CreditRow(v, "GRANT", "PENDING", NoExpiryOffer(held), NoParent, 0)

(* What a converted wallet held, credited to the one that replaces it.      *)
TransferRow(v, held) == CreditRow(v, "GRANT", "COMPLETED", NoExpiryOffer(held), NoParent, 0)

(* convertToPostpaid: a prepaid wallet closes and what it held opens a      *)
(* postpaid one.                                                            *)
ConvertToPostpaid(w, v) ==
    LET held == creditBalance[w]
    IN  /\ w \in Prepaid /\ Active(w)
        /\ v \notin Prepaid /\ walletStatus[v] = "none"
        /\ \A u \in Wallets \ Prepaid : ~Active(u)
        /\ walletStatus' = [walletStatus EXCEPT ![w] = "closed", ![v] = "active"]
        /\ IF held > 0
           THEN /\ CanEmpty(w)
                /\ \E take \in Consumptions(EligibleCredits(w, ThisInstant), held) :
                     rows' = Consume(take) \o
                         <<DebitRow(w, "TERMINATION", held, take, held), TransferRow(v, held)>>
                /\ posted' = posted \o <<Len(rows) + 1, Len(rows) + 2>>
                /\ creditBalance' = [creditBalance EXCEPT ![w] = 0, ![v] = held]
                /\ balance' = [balance EXCEPT ![w] = 0, ![v] = held * ConversionRate]
           ELSE UNCHANGED <<rows, posted, balance, creditBalance>>
        /\ UNCHANGED now

Tick ==
    /\ now < MaxTime
    /\ now' = now + 1
    /\ UNCHANGED <<walletStatus, balance, creditBalance, rows, posted>>

(* One run of the expiry job settles a listed credit.                       *)
ExpiryRun ==
    \E i \in DOMAIN rows : \E applied \in 0 .. rows[i].available :
        ExpireCredits(i, applied)

Next ==
    \/ \E w \in Wallets :
        \/ \E load \in Maybe(Offers) : CreateWallet(w, load)
        \/ \E offer \in Offers, bonus \in Maybe(Bonuses) :
              \/ CreditWallet(w, offer, bonus)
              \/ RequestPurchase(w, offer, bonus)
              \/ RequestCompletedPurchase(w, offer, bonus)
        \/ \E amount \in Debits :
              \/ \E ref \in 1 .. MaxTime + 1 : DebitWallet(w, amount, ref)
              \/ ManualBalanceDebit(w, amount)
        \/ TerminateWallet(w)
        \/ \E v \in Wallets : ConvertToPostpaid(w, v)
    \/ \E i \in DOMAIN rows : CompletePurchase(i) \/ FailPurchase(i)
    \/ ExpiryRun
    \/ Tick

(* The clock runs, and the expiry job's schedule keeps starting a run.      *)
Spec == Init /\ [][Next]_vars /\ WF_vars(ExpiryRun) /\ WF_vars(Tick)

----------------------------------------------------------------------------
(* What the rows say, added up.                                             *)

Sum(S, Value(_)) == FoldFunction(+, 0, [i \in S |-> Value(i)])

CompletedCredits(w) ==
    {i \in DOMAIN rows : /\ rows[i].wallet = w
                         /\ rows[i].type = "credit" /\ rows[i].status = "COMPLETED"}
ManualDebits(w) == {d \in DOMAIN rows : rows[d].wallet = w /\ rows[d].reason = "MANUAL"}

TakenBy(d) == Sum(rows[d].consumed, LAMBDA c : c.credits)
TakenFrom(i) ==
    LET uses == UNION {{<<d, c>> : c \in rows[d].consumed} : d \in DOMAIN rows}
    IN  Sum({u \in uses : u[2].credit = i}, LAMBDA u : u[2].credits)
Overdrawn(d) == rows[d].credits - TakenBy(d)

(* Each wallet, with its rows summed up, is an account of WalletAccount.    *)
Account(w) == INSTANCE WalletAccount WITH
    Amounts <- 1 .. MaxMove,
    creditBalance <- creditBalance[w],
    available <- Available(CompletedCredits(w)),
    overdraft <- Sum(ManualDebits(w), Overdrawn)

(* Each wallet behaves as the abstract account: every operation of the      *)
(* service moves the stored balance and the spendable credits of the rows   *)
(* together (processWalletOperation, completePurchasedCreditTransaction).    *)
ImplementsAccount ==
    /\ \A w \in Wallets : Account(w)!AccountInit
    /\ [][\A w \in Wallets : [Account(w)!AccountNext]_(Account(w)!accountVars)]_vars

(* A credit is spent or still available, never both and never neither: what *)
(* it could pay when posted is what is left plus what debits of the same    *)
(* wallet record as consumed, and a debit short of its amount is manual     *)
(* (ConsumeCredits against ConsumptionBreakdown).                            *)
EveryCreditAccountedFor ==
    /\ \A i \in DOMAIN rows :
          rows[i].type = "credit" =>
              rows[i].available + TakenFrom(i) =
                  ComputeCreditsAvailable(rows[i].before, rows[i].after, rows[i].credits)
    /\ \A d \in DOMAIN rows :
          rows[d].type = "debit" =>
              /\ {c.credit : c \in rows[d].consumed} \subseteq CompletedCredits(rows[d].wallet)
              /\ Overdrawn(d) >= 0
              /\ Overdrawn(d) > 0 => rows[d].reason = "MANUAL"

(* The audit trail of a wallet has no gap: its completed rows, in the order *)
(* they were posted, each start at the balance the one before left, and the *)
(* last one left the wallet's balance (CreditBalanceBefore and After).      *)
AuditTrailChains ==
    /\ IsInjective(posted)
    /\ Range(posted) = {i \in DOMAIN rows : rows[i].status = "COMPLETED"}
    /\ \A w \in Wallets :
          LET trail == {k \in DOMAIN posted : rows[posted[k]].wallet = w}
              Left(n, credits) ==
                  LET earlier == {k \in trail : k < n}
                  IN  IF earlier = {} THEN credits = 0
                      ELSE \E last \in earlier :
                               /\ \A k \in earlier : k <= last
                               /\ rows[posted[last]].after = credits
          IN  /\ \A k \in trail : Left(k, rows[posted[k]].before)
              /\ Left(Len(posted) + 1, creditBalance[w])

(* A bonus is granted with the purchase that earned it and never without    *)
(* (the pending bonus row of completePurchasedCreditTransaction and         *)
(* FailPurchasedCreditTransaction).                                          *)
BonusSharesPurchaseFate ==
    \A i \in DOMAIN rows :
        rows[i].parent # NoParent =>
            /\ rows[i].status = rows[rows[i].parent].status
            /\ rows[i].wallet = rows[rows[i].parent].wallet

(* The currency balance is the credit balance at the conversion rate, as    *)
(* Wallet.Validate demands of every wallet.                                  *)
BalanceMatchesRate ==
    \A w \in Wallets : balance[w] = creditBalance[w] * ConversionRate

(* A conversion loses nothing and nobody pays twice: the customer's credit  *)
(* balances add up to the same, and what the old wallet held can be spent   *)
(* from the new one at once (convertToPostpaid moves it in one transaction). *)
ConversionKeepsTheCredits ==
    [][\A w, v \in Wallets :
        LET total == Sum(Wallets, LAMBDA u : creditBalance[u])
        IN  /\ Active(w) /\ ~Active(w)'
            /\ ~Exists(v) /\ Active(v)'
            => /\ total' = total
               /\ Available(EligibleCredits(v, ThisInstant))' = NonNegative(creditBalance[w])
      ]_vars

(* Expired credits do not stay in a balance for ever: again and again, each *)
(* wallet's balance is covered by credits not past their expiry and grace   *)
(* (the expiry job and ExpireCredits).                                       *)
ExpiredCreditsLeaveTheBalance ==
    \A w \in Wallets :
        []<>(creditBalance[w] <=
               Available({i \in CompletedCredits(w) : rows[i].expiry > now - Grace}))
============================================================================
