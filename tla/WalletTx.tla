------------------------------ MODULE WalletTx ------------------------------
(***************************************************************************)
(* The statements inside the wallet service's database transactions, on    *)
(* one wallet and from several server processes: the advisory lock, the    *)
(* wallet read that goes through the Redis cache, the row reads, the        *)
(* uncommitted writes, the commit, and the errors and crashes that roll a   *)
(* transaction back.  Clients retry: any request may be started again.     *)
(***************************************************************************)
EXTENDS Integers, FiniteSets, Functions

CONSTANTS
    Procs,          \* goroutines serving requests
    Readers,        \* goroutines that only read the wallet (GET /wallets/:id, balance checks)
    Credits,        \* idempotency keys of credits: top-ups, grants, refunds
    Debits,         \* keys of debits for invoices and payments
    ManualDebits,   \* keys of manual balance debits
    Purchases,      \* invoiced credit purchases
    AmountOf,       \* the credits each of them moves; a purchase with its bonus
    Amounts,        \* bound: the numbers of credits one operation moves
    CacheEnabled,   \* the Redis cache is configured
    Free            \* the lock's value when nobody holds it

Keys == Credits \cup Debits \cup ManualDebits
Terminate == "terminate"        \* the one job without a key of its own: its key is the wallet id

Jobs == [op : {"credit"}, id : Credits] \cup [op : {"debit"}, id : Debits]
        \cup [op : {"manual"}, id : ManualDebits]
        \cup [op : {"complete", "fail"}, id : Purchases]
        \cup [op : {"terminate"}, id : {Terminate}]

NoJob == [op |-> "none", id |-> Terminate]

ASSUME WalletTxConstants ==
    /\ Free \notin Procs
    /\ Amounts \subseteq Nat \ {0}
    /\ AmountOf \in [Keys \cup Purchases -> Amounts]
    /\ CacheEnabled \in BOOLEAN

(* A purchase row is not an idempotency key.                                *)
ASSUME PurchasesAreNotKeys == Purchases \cap (Keys \cup {Terminate}) = {}

(* A key belongs to one request: the service derives it with the scope of   *)
(* the operation, or the client chose it for one.                           *)
ASSUME KeysAreOfOneKind ==
    /\ Credits \cap (Debits \cup ManualDebits) = {}
    /\ Debits \cap ManualDebits = {}
    /\ Terminate \notin Keys

(* A wallet gets finitely many requests.                                    *)
ASSUME RequestsAreFinite == IsFiniteSet(Keys) /\ IsFiniteSet(Purchases)

VARIABLES
    creditBalance, available, overdraft,   \* the committed rows, as in WalletAccount
    walletStatus,                          \* committed: "active" or "closed"
    purchase,                              \* committed status of each purchase row
    applied,                               \* committed: credits moved under each key so far
    cache,                                 \* {} or the one cached credit balance
    lock,                                  \* the wallet's advisory lock: its holder, or Free
    pc, job,                               \* where each process is, and its request
    seen,                                  \* the credit balance its transaction read
    amount, consumed,                      \* what it moves, and takes from credit rows
    loading                                \* per reader: {} or the balance it will cache

account == <<creditBalance, available, overdraft>>
committed == <<account, walletStatus, purchase, applied>>
vars == <<committed, cache, lock, pc, job, seen, amount, consumed, loading>>

Ids == Keys \cup Purchases \cup {Terminate}

TypeOK ==
    /\ creditBalance \in Int /\ available \in Nat /\ overdraft \in Nat
    /\ walletStatus \in {"active", "closed"}
    /\ purchase \in [Purchases -> {"none", "PENDING", "COMPLETED", "FAILED"}]
    /\ applied \in [Ids -> Nat]
    /\ cache \in SUBSET Int
    /\ lock \in Procs \cup {Free}
    /\ pc \in [Procs -> {"idle", "begin", "locked", "fill", "write", "commit", "close"}]
    /\ job \in [Procs -> Jobs \cup {NoJob}]
    /\ seen \in [Procs -> Int]
    /\ amount \in [Procs -> Int]
    /\ consumed \in [Procs -> Nat]
    /\ loading \in [Readers -> SUBSET Int]

Init ==
    /\ creditBalance = 0 /\ available = 0 /\ overdraft = 0
    /\ walletStatus = "active"
    /\ purchase = [x \in Purchases |-> "none"]
    /\ applied = [k \in Ids |-> 0]
    /\ cache = {}
    /\ lock = Free
    /\ pc = [p \in Procs |-> "idle"]
    /\ job = [p \in Procs |-> NoJob]
    /\ seen = [p \in Procs |-> 0]
    /\ amount = [p \in Procs |-> 0]
    /\ consumed = [p \in Procs |-> 0]
    /\ loading = [r \in Readers |-> {}]

----------------------------------------------------------------------------
Goto(p, label) == pc' = [pc EXCEPT ![p] = label]

(* A finished request leaves nothing behind but what it committed.           *)
Idle(p) ==
    /\ Goto(p, "idle")
    /\ job' = [job EXCEPT ![p] = NoJob]
    /\ seen' = [seen EXCEPT ![p] = 0]
    /\ amount' = [amount EXCEPT ![p] = 0]
    /\ consumed' = [consumed EXCEPT ![p] = 0]

(* A wallet read finds the cached balance if there is one.                  *)
BalancesRead == IF CacheEnabled /\ cache # {} THEN cache ELSE {creditBalance}

(* The row of an invoiced purchase, written without the lock: the balance   *)
(* does not move until it is completed.                                     *)
RequestPurchase(x) ==
    /\ purchase[x] = "none"
    /\ purchase' = [purchase EXCEPT ![x] = "PENDING"]
    /\ UNCHANGED <<account, walletStatus, applied, cache, lock, pc, job, seen,
                   amount, consumed, loading>>

(* A request starts: its checks outside the transaction, which may have     *)
(* been overtaken by the time the lock is there (a completion's first look   *)
(* at the purchase may also come from a lagging replica).                   *)
Start(p, j) ==
    /\ pc[p] = "idle"
    /\ j.op \in {"debit", "manual"} => walletStatus = "active"
    /\ j.op \in {"complete", "fail"} => purchase[j.id] # "none"
    /\ j.op # "terminate"
    /\ job' = [job EXCEPT ![p] = j]
    /\ amount' = [amount EXCEPT ![p] = AmountOf[j.id]]
    /\ Goto(p, "begin")
    /\ UNCHANGED <<committed, cache, lock, seen, consumed, loading>>

(* TerminateWallet reads the wallet before its transaction, and debits what *)
(* it saw; with nothing to debit it takes no lock.                          *)
StartTerminate(p) ==
    /\ pc[p] = "idle"
    /\ walletStatus = "active"
    /\ \E balance \in BalancesRead :
          /\ balance > 0 => balance \in Amounts
          /\ amount' = [amount EXCEPT ![p] = balance]
          /\ Goto(p, IF balance > 0 THEN "begin" ELSE "close")
    /\ job' = [job EXCEPT ![p] = [op |-> "terminate", id |-> Terminate]]
    /\ UNCHANGED <<committed, cache, lock, seen, consumed, loading>>

LockShared(p) ==                                                    \* mutant of Lock
    /\ pc[p] = "begin"
    /\ lock' = p
    /\ Goto(p, "locked")
    /\ UNCHANGED <<committed, cache, job, seen, amount, consumed, loading>>

(* pg_advisory_xact_lock on the wallet id.                                  *)
Lock(p) ==
    /\ pc[p] = "begin"
    /\ lock = Free
    /\ lock' = p
    /\ Goto(p, "locked")
    /\ UNCHANGED <<committed, cache, job, seen, amount, consumed, loading>>

(* Thirty seconds of waiting end the request with an error.                 *)
LockTimeout(p) ==
    /\ pc[p] = "begin"
    /\ lock # Free
    /\ Idle(p)
    /\ UNCHANGED <<committed, cache, lock, loading>>

LeaveKeepingLock(p) == Idle(p) /\ lock' = lock                       \* mutant of Leave

(* Leaving a transaction, by commit or rollback, releases its lock.         *)
Leave(p) == Idle(p) /\ lock' = IF lock = p THEN Free ELSE lock

InTransaction(p) == pc[p] \in {"locked", "fill", "write", "commit", "close"}

(* A database error, a crash, a client gone: nothing is written.  What a    *)
(* crash cannot undo is a deleted or filled cache entry.                    *)
Rollback(p) ==
    /\ InTransaction(p)
    /\ Leave(p)
    /\ UNCHANGED <<committed, cache, loading>>

Settles(p) == job[p].op \in {"complete", "fail"}

TrustsFirstLook(p) == Settles(p) => purchase[job[p].id] # "none"    \* mutant of StillPending
StillPending(p) == Settles(p) => purchase[job[p].id] = "PENDING"

(* The status check is repeated under the lock; another process settled the *)
(* purchase meanwhile.                                                      *)
AlreadySettled(p) ==
    /\ pc[p] = "locked"
    /\ ~StillPending(p)
    /\ Leave(p)
    /\ UNCHANGED <<committed, cache, loading>>

(* The wallet as the transaction sees it.  Only a failure does without it.  *)
ReadWallet(p) ==
    /\ pc[p] = "locked"
    /\ StillPending(p)
    /\ job[p].op # "fail"
    /\ \E balance \in BalancesRead : seen' = [seen EXCEPT ![p] = balance]
    /\ Goto(p, IF CacheEnabled /\ cache = {} THEN "fill" ELSE "write")
    /\ UNCHANGED <<committed, cache, lock, job, amount, consumed, loading>>

(* GetWalletByID caches what it read from the database.                     *)
FillCache(p) ==
    /\ pc[p] = "fill"
    /\ cache' = {seen[p]}
    /\ Goto(p, "write")
    /\ UNCHANGED <<committed, lock, job, seen, amount, consumed, loading>>

IsDebit(j) == j.op \in {"debit", "manual", "terminate"}

(* The unique index on idempotency keys, at the insert.                     *)
KeyNotChecked(j) == TRUE                                            \* mutant of KeyIsNew
KeyIsNew(j) == j.op \in {"credit", "debit", "manual", "terminate"} => applied[j.id] = 0

AnyShortfall(j, taken, wanted) == TRUE                              \* mutant of Funded
Funded(j, taken, wanted) == taken < wanted => j.op = "manual"

(* The eligible credits may be fewer than the available ones (some expired, *)
(* some newer than the invoice's period end).  Fewer than the amount end    *)
(* any debit but a manual one.                                              *)
WriteDebit(p) ==
    /\ pc[p] = "write"
    /\ IsDebit(job[p]) /\ KeyIsNew(job[p])
    /\ \E taken \in 0 .. amount[p] :
          /\ taken <= available
          /\ Funded(job[p], taken, amount[p])
          /\ consumed' = [consumed EXCEPT ![p] = taken]
    /\ cache' = {}
    /\ Goto(p, "commit")
    /\ UNCHANGED <<committed, lock, job, seen, amount, loading>>

WriteCredit(p) ==
    /\ pc[p] = "write"
    /\ job[p].op \in {"credit", "complete"} /\ KeyIsNew(job[p])
    /\ cache' = {}
    /\ Goto(p, "commit")
    /\ UNCHANGED <<committed, lock, job, seen, amount, consumed, loading>>

WriteFailure(p) ==
    /\ pc[p] = "locked"
    /\ StillPending(p) /\ job[p].op = "fail"
    /\ Goto(p, "commit")
    /\ UNCHANGED <<committed, cache, lock, job, seen, amount, consumed, loading>>

(* The insert is refused, or the credits do not suffice.                    *)
Rejected(p) ==
    /\ pc[p] = "write"
    /\ \/ ~KeyIsNew(job[p])
       \/ IsDebit(job[p]) /\ job[p].op # "manual"
    /\ Leave(p)
    /\ UNCHANGED <<committed, cache, loading>>

NonNegative(n) == IF n < 0 THEN 0 ELSE n

(* Mutants of CreditsUsable: debt is not paid off, or only counted.         *)
IgnoresDebt(before, after) == after - before
UsableBelowZero(before, after) == IF before < 0 THEN after ELSE after - before

(* ComputeCreditsAvailable, for a credit posted from before to after.       *)
CreditsUsable(before, after) ==
    IF before < 0 THEN NonNegative(after) ELSE after - before

Moved(p) == applied' = [applied EXCEPT ![job[p].id] = amount[p]]

(* The balance is written as read plus or minus the amount; credit rows are *)
(* written relative to what they held under the lock.                       *)
CommitCredit(p) ==
    /\ pc[p] = "commit"
    /\ job[p].op \in {"credit", "complete"}
    /\ creditBalance' = seen[p] + amount[p]
    /\ available' = available + CreditsUsable(seen[p], seen[p] + amount[p])
    /\ Moved(p)
    /\ purchase' = [x \in Purchases |->
          IF job[p].op = "complete" /\ x = job[p].id THEN "COMPLETED" ELSE purchase[x]]
    /\ Leave(p)
    /\ UNCHANGED <<overdraft, walletStatus, cache, loading>>

CommitDebit(p) ==
    /\ pc[p] = "commit"
    /\ IsDebit(job[p])
    /\ creditBalance' = seen[p] - amount[p]
    /\ available' = available - consumed[p]
    /\ overdraft' = overdraft + (amount[p] - consumed[p])
    /\ Moved(p)
    /\ walletStatus' = IF job[p].op = "terminate" THEN "closed" ELSE walletStatus
    /\ Leave(p)
    /\ UNCHANGED <<purchase, cache, loading>>

CommitFailure(p) ==
    /\ pc[p] = "commit"
    /\ job[p].op = "fail"
    /\ purchase' = [purchase EXCEPT ![job[p].id] = "FAILED"]
    /\ Leave(p)
    /\ UNCHANGED <<account, walletStatus, applied, cache, loading>>

(* A termination that saw nothing to debit.                                 *)
Close(p) ==
    /\ pc[p] = "close"
    /\ walletStatus' = "closed"
    /\ cache' = {}
    /\ Leave(p)
    /\ UNCHANGED <<account, purchase, applied, loading>>

----------------------------------------------------------------------------
(* The cache, as other readers and time change it.                          *)

ReaderMiss(r) ==
    /\ CacheEnabled /\ cache = {} /\ loading[r] = {}
    /\ loading' = [loading EXCEPT ![r] = {creditBalance}]
    /\ UNCHANGED <<committed, cache, lock, pc, job, seen, amount, consumed>>

ReaderFill(r) ==
    /\ loading[r] # {}
    /\ cache' = loading[r]
    /\ loading' = [loading EXCEPT ![r] = {}]
    /\ UNCHANGED <<committed, lock, pc, job, seen, amount, consumed>>

CacheExpires ==
    /\ cache # {}
    /\ cache' = {}
    /\ UNCHANGED <<committed, lock, pc, job, seen, amount, consumed, loading>>

(* What a running process does next, however it goes.                       *)
Proceed(p) ==
    \/ Lock(p) \/ LockTimeout(p) \/ AlreadySettled(p)
    \/ ReadWallet(p) \/ FillCache(p)
    \/ WriteCredit(p) \/ WriteDebit(p) \/ WriteFailure(p) \/ Rejected(p)
    \/ CommitCredit(p) \/ CommitDebit(p) \/ CommitFailure(p) \/ Close(p)

Next ==
    \/ \E x \in Purchases : RequestPurchase(x)
    \/ \E p \in Procs :
          \/ \E j \in Jobs : Start(p, j)
          \/ StartTerminate(p)
          \/ Proceed(p)
          \/ Rollback(p)
    \/ \E r \in Readers : ReaderMiss(r) \/ ReaderFill(r)
    \/ CacheExpires

(* A process that has started keeps running; nobody has to start one.       *)
Spec == Init /\ [][Next]_vars /\ \A p \in Procs : WF_vars(Proceed(p))

----------------------------------------------------------------------------
(* The promise of WalletAccount, kept by every commit.                      *)
Account == INSTANCE WalletAccount

(* Without the cache, whatever the interleaving, the errors and the         *)
(* retries, each commit of the wallet service is one step of the account:   *)
(* no lost update of the balance, no credit taken twice                     *)
(* (processWalletOperation under LockWithWait).                              *)
ImplementsAccount == Account!AccountSpec

(* "This ensures we read the latest committed state": the balance a         *)
(* transaction computes with is the committed one as long as it holds the   *)
(* lock (GetWalletByID after LockWithWait).                                  *)
LockedReadIsCurrent ==
    \A p \in Procs :
        pc[p] \in {"fill", "write", "commit"} /\ job[p].op # "fail" =>
            seen[p] = creditBalance

(* The balance is the sum of the requests that took effect, each counted    *)
(* once however often it was sent, and of the purchases completed           *)
(* (the unique idempotency key and the re-read of the purchase row).         *)
BalanceIsSumOfRequests ==
    LET Total(S) == FoldFunction(+, 0, [k \in S |-> applied[k]])
    IN  creditBalance = Total(Credits) + Total({x \in Purchases : purchase[x] = "COMPLETED"})
                        - Total(Debits \cup ManualDebits \cup {Terminate})

(* "A webhook settling the payment and a cleanup expiring the session       *)
(* cannot both win": a settled purchase keeps its outcome, and its credits  *)
(* have entered the balance exactly if that outcome is completion.          *)
PurchaseSettledOnce ==
    [][\A x \in Purchases :
        /\ purchase[x] \in {"COMPLETED", "FAILED"} => purchase'[x] = purchase[x]
        /\ (applied'[x] # 0) <=> (purchase'[x] = "COMPLETED")]_vars

(* Only a manual debit spends credits nobody was granted: ordinary debits   *)
(* and the termination are paid from credit rows, which are read from the   *)
(* database even when the balance came from a stale cache                   *)
(* (processDebitOperation and FindEligibleCredits).                          *)
OrdinaryDebitsAreFunded ==
    LET Total(S) == FoldFunction(+, 0, [k \in S |-> applied[k]])
    IN  Total(Debits \cup {Terminate}) <= Total(Credits \cup Purchases)

(* The lock does not outlive the transaction that took it: whatever a       *)
(* request runs into, the wallet becomes free for the next one              *)
(* (the advisory lock is released on commit and rollback).                  *)
LockIsReleased == \A p \in Procs : lock = p ~> lock # p

(* Terminating a wallet debits its remaining balance: the step that closes  *)
(* it leaves nothing on it (TerminateWallet).                                *)
TerminationEmptiesWallet ==
    [][walletStatus = "active" /\ walletStatus' = "closed" => creditBalance' <= 0]_vars
=============================================================================
