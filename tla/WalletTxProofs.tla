--------------------------- MODULE WalletTxProofs ---------------------------
(***************************************************************************)
(* The advisory lock makes each wallet transaction one step of the account *)
(* of WalletAccount, for any number of processes and requests, as long as  *)
(* the wallet is not read from a cache.                                     *)
(***************************************************************************)
EXTENDS WalletTx, SumTheorems, TLAPS

UnderLock == {"locked", "fill", "write", "commit"}

LockHeld == \A p \in Procs : pc[p] \in UnderLock => lock = p

JobKnown == \A p \in Procs : pc[p] # "idle" => job[p] \in Jobs

AmountKnown ==
    \A p \in Procs : pc[p] \in UnderLock \cup {"begin"} => amount[p] \in Amounts

CreditsReserved ==
    \A p \in Procs :
        pc[p] = "commit" /\ IsDebit(job[p]) =>
            /\ consumed[p] <= available
            /\ consumed[p] <= amount[p]
            /\ consumed[p] < amount[p] => job[p].op = "manual"

(* What a transaction relies on between taking the lock and its commit.     *)
LockInv == TypeOK /\ LockHeld /\ JobKnown /\ AmountKnown /\ CreditsReserved

LEMMA LockInvInit == Init => LockInv
<1> SUFFICES ASSUME Init PROVE LockInv
    OBVIOUS
<1> USE DEF Init
<1>1. TypeOK
  BY WalletTxConstants DEF TypeOK, Ids, NoJob
<1>2. LockHeld /\ JobKnown /\ AmountKnown /\ CreditsReserved
  BY DEF LockHeld, JobKnown, AmountKnown, CreditsReserved, UnderLock
<1> QED BY <1>1, <1>2 DEF LockInv

(* A process that goes back to idle without having committed, from within   *)
(* its transaction or while it waits for the lock.                          *)
LEMMA LeaveKeepsLockInv ==
    ASSUME LockInv, NEW p \in Procs, UNCHANGED <<committed, cache, loading>>,
           Leave(p) \/ (Idle(p) /\ UNCHANGED lock)
    PROVE  LockInv'
<1> USE DEF Leave, Idle, Goto, committed, account
<1>1. TypeOK'
  <2>1. /\ pc' = [pc EXCEPT ![p] = "idle"] /\ job' = [job EXCEPT ![p] = NoJob]
        /\ seen' = [seen EXCEPT ![p] = 0] /\ amount' = [amount EXCEPT ![p] = 0]
        /\ consumed' = [consumed EXCEPT ![p] = 0] /\ lock' \in {Free, lock}
        /\ UNCHANGED <<committed, cache, loading>>
    OBVIOUS
  <2>2. TypeOK
    BY DEF LockInv
  <2> HIDE DEF Leave, Idle, Goto
  <2>3. pc' \in [Procs -> {"idle", "begin", "locked", "fill", "write", "commit", "close"}]
    BY <2>1, <2>2 DEF TypeOK
  <2>4. job' \in [Procs -> Jobs \cup {NoJob}] /\ lock' \in Procs \cup {Free}
    BY <2>1, <2>2 DEF TypeOK
  <2>5. seen' \in [Procs -> Int] /\ amount' \in [Procs -> Int] /\ consumed' \in [Procs -> Nat]
    BY <2>1, <2>2 DEF TypeOK
  <2> QED BY <2>1, <2>2, <2>3, <2>4, <2>5 DEF TypeOK
<1>2. LockHeld'
  BY WalletTxConstants DEF LockInv, TypeOK, LockHeld, UnderLock
<1>3. JobKnown'
  BY DEF LockInv, TypeOK, JobKnown
<1>4. AmountKnown'
  BY DEF LockInv, TypeOK, AmountKnown, UnderLock
<1>5. CreditsReserved'
  BY DEF LockInv, TypeOK, CreditsReserved, IsDebit
<1> QED BY <1>1, <1>2, <1>3, <1>4, <1>5 DEF LockInv

(* A process that moves on inside its request without committing.           *)
LEMMA MoveKeepsLockInv ==
    ASSUME LockInv, NEW p \in Procs, UNCHANGED committed,
           \/ Lock(p) \/ ReadWallet(p) \/ FillCache(p)
           \/ WriteCredit(p) \/ WriteDebit(p) \/ WriteFailure(p)
    PROVE  LockInv'
<1> USE DEF Goto, committed, account
<1>1. CASE Lock(p)
  BY <1>1, WalletTxConstants
  DEF Lock, LockInv, TypeOK, LockHeld, JobKnown, AmountKnown, CreditsReserved, UnderLock
<1>2. CASE ReadWallet(p)
  BY <1>2 DEF ReadWallet, BalancesRead, LockInv, TypeOK, LockHeld, JobKnown,
              AmountKnown, CreditsReserved, UnderLock
<1>3. CASE FillCache(p)
  BY <1>3 DEF FillCache, LockInv, TypeOK, LockHeld, JobKnown,
              AmountKnown, CreditsReserved, UnderLock
<1>4. CASE WriteCredit(p)
  BY <1>4 DEF WriteCredit, IsDebit, LockInv, TypeOK, LockHeld, JobKnown,
              AmountKnown, CreditsReserved, UnderLock
<1>5. CASE WriteDebit(p)
  <2>1. TypeOK' /\ LockHeld' /\ JobKnown' /\ AmountKnown'
    BY <1>5 DEF WriteDebit, LockInv, TypeOK, LockHeld, JobKnown, AmountKnown, UnderLock
  <2>2. CreditsReserved'
    BY <1>5, WalletTxConstants
    DEF WriteDebit, Funded, LockInv, TypeOK, AmountKnown, CreditsReserved, UnderLock, IsDebit
  <2> QED BY <2>1, <2>2 DEF LockInv
<1>6. CASE WriteFailure(p)
  BY <1>6 DEF WriteFailure, IsDebit, LockInv, TypeOK, LockHeld, JobKnown,
              AmountKnown, CreditsReserved, UnderLock
<1> QED BY <1>1, <1>2, <1>3, <1>4, <1>5, <1>6

(* A request that starts, outside any transaction.                          *)
LEMMA StartKeepsLockInv ==
    ASSUME LockInv, NEW p \in Procs,
           (\E j \in Jobs : Start(p, j)) \/ StartTerminate(p)
    PROVE  LockInv'
<1> USE DEF Goto, committed, account
<1>1. ASSUME NEW j \in Jobs, Start(p, j)
      PROVE  LockInv'
  <2>1. AmountOf[j.id] \in Amounts /\ AmountOf[j.id] \in Int
    BY <1>1, WalletTxConstants DEF Start, Jobs, Keys
  <2>2. TypeOK' /\ LockHeld' /\ JobKnown' /\ AmountKnown'
    BY <1>1, <2>1 DEF Start, LockInv, TypeOK, LockHeld, JobKnown, AmountKnown, UnderLock
  <2>3. CreditsReserved'
    BY <1>1 DEF Start, LockInv, TypeOK, CreditsReserved, IsDebit
  <2> QED BY <2>2, <2>3 DEF LockInv
<1>2. CASE StartTerminate(p)
  <2>1. PICK balance \in Int :
            /\ balance > 0 => balance \in Amounts
            /\ amount' = [amount EXCEPT ![p] = balance]
            /\ Goto(p, IF balance > 0 THEN "begin" ELSE "close")
    <3>1. PICK balance \in BalancesRead :
             /\ balance > 0 => balance \in Amounts
             /\ amount' = [amount EXCEPT ![p] = balance]
             /\ Goto(p, IF balance > 0 THEN "begin" ELSE "close")
      BY <1>2 DEF StartTerminate
    <3>2. BalancesRead \subseteq Int
      BY DEF BalancesRead, LockInv, TypeOK
    <3> QED BY <3>1, <3>2
  <2>2. [op |-> "terminate", id |-> Terminate] \in Jobs
    BY DEF Jobs
  <2>3. TypeOK' /\ LockHeld' /\ JobKnown'
    BY <1>2, <2>1, <2>2
    DEF StartTerminate, LockInv, TypeOK, LockHeld, JobKnown, UnderLock
  <2>4. AmountKnown' /\ CreditsReserved'
    BY <1>2, <2>1
    DEF StartTerminate, LockInv, TypeOK, AmountKnown, CreditsReserved, UnderLock, IsDebit
  <2> QED BY <2>3, <2>4 DEF LockInv
<1> QED BY <1>1, <1>2

(* Credits posted are never worth less than nothing.                        *)
LEMMA UsableIsNat ==
    ASSUME NEW before \in Int, NEW n \in Nat
    PROVE  CreditsUsable(before, before + n) \in Nat
BY DEF CreditsUsable, NonNegative

(* Nobody but the lock's holder is between its lock and its commit.         *)
LEMMA OthersAreOutside ==
    ASSUME LockInv, NEW p \in Procs, pc[p] \in UnderLock,
           NEW q \in Procs, q # p
    PROVE  pc[q] \notin UnderLock
BY DEF LockInv, LockHeld

(* A commit moves the account by what was reserved under the lock.          *)
LEMMA CommitKeepsLockInv ==
    ASSUME LockInv, NEW p \in Procs,
           CommitCredit(p) \/ CommitDebit(p) \/ CommitFailure(p) \/ Close(p)
    PROVE  LockInv'
<1> USE DEF Leave, Idle, Goto, account
<1>1. JobKnown' /\ AmountKnown' /\ LockHeld'
  BY WalletTxConstants
  DEF CommitCredit, CommitDebit, CommitFailure, Close, LockInv, TypeOK, JobKnown,
      AmountKnown, LockHeld, UnderLock
<1>2. CreditsReserved'
  <2> SUFFICES ASSUME NEW q \in Procs, pc'[q] = "commit", IsDebit(job'[q])
               PROVE  /\ consumed'[q] <= available'
                      /\ consumed'[q] <= amount'[q]
                      /\ consumed'[q] < amount'[q] => job'[q].op = "manual"
    BY DEF CreditsReserved, IsDebit
  <2>1. q # p /\ pc[q] = "commit"
    BY DEF CommitCredit, CommitDebit, CommitFailure, Close, LockInv, TypeOK
  <2>2. Close(p)
    BY <2>1, OthersAreOutside
    DEF CommitCredit, CommitDebit, CommitFailure, UnderLock
  <2>3. /\ consumed'[q] = consumed[q] /\ amount'[q] = amount[q]
        /\ job'[q] = job[q] /\ available' = available
    BY <2>1, <2>2 DEF Close, LockInv, TypeOK
  <2> QED BY <2>1, <2>3 DEF LockInv, CreditsReserved, IsDebit
<1>3. /\ pc' \in [Procs -> {"idle", "begin", "locked", "fill", "write", "commit", "close"}]
      /\ job' \in [Procs -> Jobs \cup {NoJob}]
      /\ seen' \in [Procs -> Int] /\ amount' \in [Procs -> Int]
      /\ consumed' \in [Procs -> Nat]
      /\ lock' \in Procs \cup {Free}
  <2>1. Leave(p)
    BY DEF CommitCredit, CommitDebit, CommitFailure, Close
  <2> QED BY <2>1, WalletTxConstants DEF LockInv, TypeOK
<1>4. /\ loading' \in [Readers -> SUBSET Int] /\ cache' \in SUBSET Int
      /\ walletStatus' \in {"active", "closed"}
  BY DEF CommitCredit, CommitDebit, CommitFailure, Close, LockInv, TypeOK
<1>5. pc[p] = "commit" => job[p] \in Jobs /\ amount[p] \in Amounts /\ amount[p] \in Nat
  BY WalletTxConstants DEF LockInv, JobKnown, AmountKnown, UnderLock
<1>6. applied' \in [Ids -> Nat]
  BY <1>5 DEF CommitCredit, CommitDebit, CommitFailure, Close, Moved, LockInv, TypeOK
<1>7. purchase' \in [Purchases -> {"none", "PENDING", "COMPLETED", "FAILED"}]
  BY DEF CommitCredit, CommitDebit, CommitFailure, Close, LockInv, TypeOK
<1>8. creditBalance' \in Int /\ available' \in Nat /\ overdraft' \in Nat
  <2>1. CASE CommitCredit(p)
    <3>1. CreditsUsable(seen[p], seen[p] + amount[p]) \in Nat
      BY <2>1, <1>5, UsableIsNat DEF CommitCredit, LockInv, TypeOK
    <3> QED BY <2>1, <3>1 DEF CommitCredit, LockInv, TypeOK
  <2>2. CASE CommitDebit(p)
    BY <2>2 DEF CommitDebit, LockInv, TypeOK, CreditsReserved
  <2>3. CASE CommitFailure(p)
    BY <2>3 DEF CommitFailure, LockInv, TypeOK
  <2>4. CASE Close(p)
    BY <2>4 DEF Close, LockInv, TypeOK
  <2> QED BY <2>1, <2>2, <2>3, <2>4
<1>9. TypeOK'
  BY <1>3, <1>6, <1>7, <1>8, <1>4 DEF TypeOK
<1> QED BY <1>1, <1>2, <1>9 DEF LockInv

(* The readers, the cache and a new purchase row touch none of it.          *)
LEMMA OutsidersKeepLockInv ==
    ASSUME LockInv,
           \/ \E x \in Purchases : RequestPurchase(x)
           \/ \E r \in Readers : ReaderMiss(r) \/ ReaderFill(r)
           \/ CacheExpires
           \/ UNCHANGED vars
    PROVE  LockInv'
<1> USE DEF committed, account
<1>1. TypeOK'
  <2>1. TypeOK
    BY DEF LockInv
  <2>2. CASE \E x \in Purchases : RequestPurchase(x)
    BY <2>1, <2>2 DEF RequestPurchase, TypeOK
  <2>3. CASE \E r \in Readers : ReaderMiss(r)
    BY <2>1, <2>3 DEF ReaderMiss, TypeOK
  <2>4. CASE \E r \in Readers : ReaderFill(r)
    BY <2>1, <2>4 DEF ReaderFill, TypeOK
  <2>5. CASE CacheExpires \/ UNCHANGED vars
    BY <2>1, <2>5 DEF CacheExpires, vars, TypeOK
  <2> QED BY <2>2, <2>3, <2>4, <2>5
<1>2. UNCHANGED <<pc, job, amount, consumed, available, lock>>
  BY DEF RequestPurchase, ReaderMiss, ReaderFill, CacheExpires, vars
<1>3. LockHeld' /\ JobKnown' /\ AmountKnown' /\ CreditsReserved'
  BY <1>2 DEF LockInv, LockHeld, JobKnown, AmountKnown, CreditsReserved, IsDebit
<1> QED BY <1>1, <1>3 DEF LockInv

LEMMA LockInvStep == LockInv /\ [Next]_vars => LockInv'
<1> SUFFICES ASSUME LockInv, [Next]_vars PROVE LockInv'
    OBVIOUS
<1>1. ASSUME NEW p \in Procs, (\E j \in Jobs : Start(p, j)) \/ StartTerminate(p)
      PROVE  LockInv'
  BY <1>1, StartKeepsLockInv
<1>2. ASSUME NEW p \in Procs,
             LockTimeout(p) \/ AlreadySettled(p) \/ Rejected(p) \/ Rollback(p)
      PROVE  LockInv'
  <2>1. /\ UNCHANGED <<committed, cache, loading>>
        /\ Leave(p) \/ (Idle(p) /\ UNCHANGED lock)
    BY <1>2 DEF LockTimeout, AlreadySettled, Rejected, Rollback
  <2> QED BY <2>1, LeaveKeepsLockInv
<1>3. ASSUME NEW p \in Procs,
             \/ Lock(p) \/ ReadWallet(p) \/ FillCache(p)
             \/ WriteCredit(p) \/ WriteDebit(p) \/ WriteFailure(p)
      PROVE  LockInv'
  <2>1. UNCHANGED committed
    BY <1>3 DEF Lock, ReadWallet, FillCache, WriteCredit, WriteDebit, WriteFailure
  <2> QED BY <1>3, <2>1, MoveKeepsLockInv
<1>4. ASSUME NEW p \in Procs,
             CommitCredit(p) \/ CommitDebit(p) \/ CommitFailure(p) \/ Close(p)
      PROVE  LockInv'
  BY <1>4, CommitKeepsLockInv
<1>5. ASSUME \/ \E x \in Purchases : RequestPurchase(x)
             \/ \E r \in Readers : ReaderMiss(r) \/ ReaderFill(r)
             \/ CacheExpires
             \/ UNCHANGED vars
      PROVE  LockInv'
  BY <1>5, OutsidersKeepLockInv
<1> QED BY <1>1, <1>2, <1>3, <1>4, <1>5 DEF Next, Proceed

(* Type correctness, with or without the cache: in particular credit rows   *)
(* never go below zero, because a debit commits only what it reserved.      *)
THEOREM TypeCorrect == Spec => []TypeOK
<1>1. Init => LockInv
  BY LockInvInit
<1>2. LockInv /\ [Next]_vars => LockInv'
  BY LockInvStep
<1>3. LockInv => TypeOK
  BY DEF LockInv
<1> QED BY <1>1, <1>2, <1>3, PTL DEF Spec

----------------------------------------------------------------------------
(* Without the cache.                                                       *)

(* The committed balance moves only in the hands of the lock's holder, who  *)
(* leaves the transaction with that very step.                              *)
LEMMA CurrentReadStep ==
    ASSUME ~CacheEnabled, LockInv, LockedReadIsCurrent, [Next]_vars
    PROVE  LockedReadIsCurrent'
<1> SUFFICES ASSUME NEW q \in Procs, pc'[q] \in {"fill", "write", "commit"},
                    job'[q].op # "fail"
             PROVE  seen'[q] = creditBalance'
    BY DEF LockedReadIsCurrent
<1> USE DEF Goto, committed, account
<1>1. ASSUME NEW p \in Procs, ReadWallet(p)
      PROVE  seen'[q] = creditBalance'
  <2>1. CASE p = q
    BY <1>1, <2>1 DEF ReadWallet, BalancesRead, LockInv, TypeOK
  <2>2. CASE p # q
    BY <1>1, <2>2 DEF ReadWallet, LockInv, TypeOK, LockedReadIsCurrent
  <2> QED BY <2>1, <2>2
<1>2. ASSUME NEW p \in Procs, CommitCredit(p) \/ CommitDebit(p)
      PROVE  seen'[q] = creditBalance'
  <2>1. p # q /\ pc[q] \in UnderLock
    BY <1>2 DEF CommitCredit, CommitDebit, Leave, Idle, LockInv, TypeOK, UnderLock
  <2> QED BY <1>2, <2>1, OthersAreOutside DEF CommitCredit, CommitDebit, UnderLock
<1>3. ASSUME NEW p \in Procs,
             Lock(p) \/ FillCache(p) \/ WriteCredit(p) \/ WriteDebit(p) \/ WriteFailure(p)
      PROVE  seen'[q] = creditBalance'
  BY <1>3 DEF Lock, FillCache, WriteCredit, WriteDebit, WriteFailure,
              LockInv, TypeOK, LockedReadIsCurrent
<1>4. ASSUME NEW p \in Procs,
             \/ LockTimeout(p) \/ AlreadySettled(p) \/ Rejected(p) \/ Rollback(p)
             \/ CommitFailure(p) \/ Close(p)
      PROVE  seen'[q] = creditBalance'
  <2>1. Idle(p) /\ UNCHANGED creditBalance
    BY <1>4 DEF LockTimeout, AlreadySettled, Rejected, Rollback, CommitFailure, Close, Leave
  <2> QED BY <2>1 DEF Idle, LockInv, TypeOK, LockedReadIsCurrent
<1>5. ASSUME NEW p \in Procs, (\E j \in Jobs : Start(p, j)) \/ StartTerminate(p)
      PROVE  seen'[q] = creditBalance'
  BY <1>5 DEF Start, StartTerminate, LockInv, TypeOK, LockedReadIsCurrent
<1>6. ASSUME \/ \E x \in Purchases : RequestPurchase(x)
             \/ \E r \in Readers : ReaderMiss(r) \/ ReaderFill(r)
             \/ CacheExpires
             \/ UNCHANGED vars
      PROVE  seen'[q] = creditBalance'
  BY <1>6 DEF RequestPurchase, ReaderMiss, ReaderFill, CacheExpires, vars, LockedReadIsCurrent
<1> QED BY <1>1, <1>2, <1>3, <1>4, <1>5, <1>6 DEF Next, Proceed

(* The comment over GetWalletByID in processWalletOperation, true of a      *)
(* deployment without the cache: what is read under the lock is the latest  *)
(* committed state until the transaction ends.                              *)
THEOREM ReadUnderLockIsCurrent ==
    ASSUME ~CacheEnabled
    PROVE  Spec => []LockedReadIsCurrent
<1>1. Init => LockInv /\ LockedReadIsCurrent
  BY LockInvInit DEF Init, LockedReadIsCurrent
<1>2. LockInv /\ LockedReadIsCurrent /\ [Next]_vars => (LockInv /\ LockedReadIsCurrent)'
  BY LockInvStep, CurrentReadStep
<1> QED BY <1>1, <1>2, PTL DEF Spec

(* A commit is one step of the account; nothing else moves it.              *)
LEMMA StepRefines ==
    ASSUME ~CacheEnabled, LockInv, LockedReadIsCurrent, [Next]_vars
    PROVE  [Account!AccountNext]_(Account!accountVars)
<1> USE DEF Account!accountVars
<1>1. ASSUME NEW p \in Procs, CommitCredit(p)
      PROVE  Account!AccountNext
  <2>1. seen[p] = creditBalance /\ amount[p] \in Amounts
    BY <1>1 DEF CommitCredit, LockedReadIsCurrent, LockInv, AmountKnown, UnderLock
  <2>2. Account!Grant(amount[p])
    BY <1>1, <2>1 DEF CommitCredit, Account!Grant, CreditsUsable, NonNegative,
                      Account!CreditsUsable, Account!NonNegative
  <2> QED BY <2>1, <2>2 DEF Account!AccountNext
<1>2. ASSUME NEW p \in Procs, CommitDebit(p)
      PROVE  Account!AccountNext
  <2>1. /\ seen[p] = creditBalance /\ amount[p] \in Amounts
        /\ consumed[p] <= available /\ consumed[p] <= amount[p]
        /\ amount[p] \in Nat /\ consumed[p] \in Nat
    BY <1>2, WalletTxConstants
    DEF CommitDebit, IsDebit, LockedReadIsCurrent, LockInv, TypeOK, AmountKnown,
        CreditsReserved, UnderLock
  <2>2. CASE consumed[p] = amount[p]
    <3>1. Account!Spend(amount[p])
      BY <1>2, <2>1, <2>2 DEF CommitDebit, Account!Spend, LockInv, TypeOK
    <3> QED BY <2>1, <3>1 DEF Account!AccountNext
  <2>3. CASE consumed[p] # amount[p]
    <3>1. consumed[p] \in 0 .. amount[p] - 1
      BY <2>1, <2>3
    <3>2. Account!Overdraw(amount[p], consumed[p])
      BY <1>2, <2>1 DEF CommitDebit, Account!Overdraw
    <3> QED BY <2>1, <3>1, <3>2 DEF Account!AccountNext
  <2> QED BY <2>2, <2>3
<1>3. ASSUME NEW p \in Procs,
             \/ \E j \in Jobs : Start(p, j)
             \/ StartTerminate(p) \/ Lock(p) \/ LockTimeout(p)
             \/ AlreadySettled(p) \/ ReadWallet(p) \/ FillCache(p)
             \/ WriteCredit(p) \/ WriteDebit(p) \/ WriteFailure(p)
             \/ Rejected(p) \/ Rollback(p) \/ CommitFailure(p) \/ Close(p)
      PROVE  UNCHANGED account
  BY <1>3 DEF Start, StartTerminate, Lock, LockTimeout, AlreadySettled, ReadWallet,
              FillCache, WriteCredit, WriteDebit, WriteFailure, Rejected, Rollback,
              CommitFailure, Close, committed
<1>4. ASSUME \/ \E x \in Purchases : RequestPurchase(x)
             \/ \E r \in Readers : ReaderMiss(r) \/ ReaderFill(r)
             \/ CacheExpires
             \/ UNCHANGED vars
      PROVE  UNCHANGED account
  BY <1>4 DEF RequestPurchase, ReaderMiss, ReaderFill, CacheExpires, vars, committed
<1> QED BY <1>1, <1>2, <1>3, <1>4 DEF Next, Proceed, account

(* Every wallet operation, whatever runs beside it, is one atomic step of   *)
(* the account: no update of the balance is lost and no credit is spent     *)
(* twice.                                                                    *)
THEOREM WalletTxImplementsAccount ==
    ASSUME ~CacheEnabled
    PROVE  Spec => ImplementsAccount
<1>1. Init => Account!AccountInit
  BY DEF Init, Account!AccountInit
<1>2. Init => LockInv /\ LockedReadIsCurrent
  BY LockInvInit DEF Init, LockedReadIsCurrent
<1>3. LockInv /\ LockedReadIsCurrent /\ [Next]_vars => (LockInv /\ LockedReadIsCurrent)'
  BY LockInvStep, CurrentReadStep
<1>4. LockInv /\ LockedReadIsCurrent /\ [Next]_vars
          => [Account!AccountNext]_(Account!accountVars)
  BY StepRefines
<1> QED BY <1>1, <1>2, <1>3, <1>4, PTL DEF Spec, ImplementsAccount, Account!AccountSpec

(* Hence the safety of the account, whatever the interleaving: the balance  *)
(* is never more than the credit rows can pay, and only a manual debit      *)
(* separates the two (processWalletOperation under LockWithWait).           *)
THEOREM BalanceIsBacked ==
    ASSUME ~CacheEnabled
    PROVE  Spec => []Account!AccountSafety
<1> USE DEF Account!AccountSafety, Account!AccountTypeOK,
            Account!BalanceBackedByCredits, Account!GapIsOverdraft
<1>1. Init => LockInv /\ LockedReadIsCurrent /\ Account!AccountSafety
  BY LockInvInit DEF Init, LockedReadIsCurrent
<1>2. LockInv /\ LockedReadIsCurrent /\ [Next]_vars => (LockInv /\ LockedReadIsCurrent)'
  BY LockInvStep, CurrentReadStep
<1>3. Account!AccountSafety /\ [Account!AccountNext]_(Account!accountVars)
          => Account!AccountSafety'
  <2> SUFFICES ASSUME Account!AccountSafety, [Account!AccountNext]_(Account!accountVars)
               PROVE  Account!AccountSafety'
    OBVIOUS
  <2>1. CASE UNCHANGED Account!accountVars
    BY <2>1 DEF Account!accountVars
  <2>2. ASSUME NEW n \in Amounts, Account!Grant(n)
        PROVE  Account!AccountSafety'
    BY <2>2, WalletTxConstants
    DEF Account!Grant, Account!CreditsUsable, Account!NonNegative
  <2>3. ASSUME NEW n \in Amounts, Account!Spend(n)
        PROVE  Account!AccountSafety'
    BY <2>3, WalletTxConstants DEF Account!Spend
  <2>4. ASSUME NEW n \in Amounts, NEW taken \in 0 .. n - 1, Account!Overdraw(n, taken)
        PROVE  Account!AccountSafety'
    BY <2>4, WalletTxConstants DEF Account!Overdraw
  <2> QED
    BY <2>1, <2>2, <2>3, <2>4 DEF Account!AccountNext
<1>4. LockInv /\ LockedReadIsCurrent /\ [Next]_vars
          => [Account!AccountNext]_(Account!accountVars)
  BY StepRefines
<1> QED BY <1>1, <1>2, <1>3, <1>4, PTL DEF Spec

----------------------------------------------------------------------------
(* The settlement of a purchase, with or without the cache.                 *)

SettlementInv ==
    /\ \A x \in Purchases : applied[x] # 0 <=> purchase[x] = "COMPLETED"
    /\ \A p \in Procs :
          pc[p] \in {"fill", "write", "commit"} /\ Settles(p) =>
              purchase[job[p].id] = "PENDING"

(* A settled purchase is left alone by everything but a settlement, and a   *)
(* settlement reaches its commit only with the purchase still pending.      *)
SettledStays ==
    \A x \in Purchases :
        purchase[x] \in {"COMPLETED", "FAILED"} => purchase'[x] = purchase[x]

(* The job of a process says what its id is.                                *)
LEMMA JobIds ==
    ASSUME NEW j \in Jobs
    PROVE  /\ j.op \in {"complete", "fail"} => j.id \in Purchases
           /\ j.op \notin {"complete", "fail"} => j.id \notin Purchases
<1>1. CASE j \in [op : {"complete", "fail"}, id : Purchases]
  BY <1>1
<1>2. CASE j \in [op : {"terminate"}, id : {Terminate}]
  BY <1>2, PurchasesAreNotKeys
<1>3. CASE j \in [op : {"credit"}, id : Credits]
  BY <1>3, PurchasesAreNotKeys DEF Keys
<1>4. CASE j \in [op : {"debit"}, id : Debits]
  BY <1>4, PurchasesAreNotKeys DEF Keys
<1>5. CASE j \in [op : {"manual"}, id : ManualDebits]
  BY <1>5, PurchasesAreNotKeys DEF Keys
<1> QED BY <1>1, <1>2, <1>3, <1>4, <1>5 DEF Jobs

LEMMA SettlementStep ==
    ASSUME LockInv, SettlementInv, [Next]_vars
    PROVE  SettlementInv' /\ SettledStays
<1> USE DEF Goto
<1>1. ASSUME NEW p \in Procs, CommitCredit(p) \/ CommitDebit(p) \/ CommitFailure(p)
      PROVE  SettlementInv' /\ SettledStays
  <2>1. /\ job[p] \in Jobs /\ amount[p] # 0 /\ pc[p] = "commit"
        /\ pc' = [pc EXCEPT ![p] = "idle"] /\ job' = [job EXCEPT ![p] = NoJob]
    BY <1>1, WalletTxConstants
    DEF CommitCredit, CommitDebit, CommitFailure, Leave, Idle, LockInv, TypeOK,
        JobKnown, AmountKnown, UnderLock
  <2>2. ASSUME NEW q \in Procs, pc'[q] \in {"fill", "write", "commit"}
        PROVE  FALSE
    <3>1. q # p /\ pc[q] \in UnderLock
      BY <2>1, <2>2 DEF LockInv, TypeOK, UnderLock
    <3> QED BY <2>1, <3>1, OthersAreOutside DEF UnderLock
  <2>3. CASE CommitCredit(p) /\ job[p].op = "complete"
    <3>1. job[p].id \in Purchases /\ purchase[job[p].id] = "PENDING"
      BY <2>1, <2>3, JobIds DEF SettlementInv, Settles
    <3>2. /\ applied' = [applied EXCEPT ![job[p].id] = amount[p]]
          /\ purchase' = [x \in Purchases |->
                IF x = job[p].id THEN "COMPLETED" ELSE purchase[x]]
      BY <2>3 DEF CommitCredit, Moved
    <3>3. \A x \in Purchases : applied'[x] # 0 <=> purchase'[x] = "COMPLETED"
      BY <2>1, <3>1, <3>2 DEF SettlementInv, LockInv, TypeOK, Ids
    <3>4. SettledStays
      BY <3>1, <3>2 DEF SettledStays
    <3> QED BY <2>2, <3>3, <3>4 DEF SettlementInv
  <2>4. CASE CommitFailure(p)
    <3>1. job[p].id \in Purchases /\ purchase[job[p].id] = "PENDING"
      BY <2>1, <2>4, JobIds DEF CommitFailure, SettlementInv, Settles
    <3>2. /\ applied' = applied
          /\ purchase' = [purchase EXCEPT ![job[p].id] = "FAILED"]
      BY <2>4 DEF CommitFailure
    <3>3. \A x \in Purchases : applied'[x] # 0 <=> purchase'[x] = "COMPLETED"
      BY <3>1, <3>2 DEF SettlementInv, LockInv, TypeOK
    <3>4. SettledStays
      BY <3>1, <3>2 DEF SettledStays, LockInv, TypeOK
    <3> QED BY <2>2, <3>3, <3>4 DEF SettlementInv
  <2>5. CASE CommitDebit(p) \/ (CommitCredit(p) /\ job[p].op # "complete")
    <3>1. job[p].id \notin Purchases
      BY <2>1, <2>5, JobIds DEF CommitDebit, CommitCredit, IsDebit
    <3>2. /\ applied' = [applied EXCEPT ![job[p].id] = amount[p]]
          /\ \A x \in Purchases : purchase'[x] = purchase[x]
      BY <2>5 DEF CommitDebit, CommitCredit, Moved
    <3>3. \A x \in Purchases : applied'[x] # 0 <=> purchase'[x] = "COMPLETED"
      BY <3>1, <3>2 DEF SettlementInv, LockInv, TypeOK, Ids
    <3>4. SettledStays
      BY <3>2 DEF SettledStays
    <3> QED BY <2>2, <3>3, <3>4 DEF SettlementInv
  <2> QED BY <1>1, <2>3, <2>4, <2>5
<1>2. ASSUME NEW x \in Purchases, RequestPurchase(x)
      PROVE  SettlementInv' /\ SettledStays
  <2>1. /\ purchase[x] = "none" /\ purchase' = [purchase EXCEPT ![x] = "PENDING"]
        /\ UNCHANGED <<applied, pc, job>>
    BY <1>2 DEF RequestPurchase
  <2>2. SettledStays
    BY <2>1 DEF SettledStays, LockInv, TypeOK
  <2>3. SettlementInv'
    BY <2>1 DEF SettlementInv, Settles, LockInv, TypeOK
  <2> QED BY <2>2, <2>3
<1>3. ASSUME UNCHANGED <<applied, purchase>>,
             \A q \in Procs : pc'[q] \in {"fill", "write", "commit"} /\ Settles(q)'
                 => purchase[job'[q].id] = "PENDING"
      PROVE  SettlementInv' /\ SettledStays
  BY <1>3 DEF SettlementInv, SettledStays
<1>4. ASSUME NEW p \in Procs,
             \/ \E j \in Jobs : Start(p, j)
             \/ StartTerminate(p) \/ Lock(p) \/ LockTimeout(p)
             \/ AlreadySettled(p) \/ ReadWallet(p) \/ FillCache(p)
             \/ WriteCredit(p) \/ WriteDebit(p) \/ WriteFailure(p)
             \/ Rejected(p) \/ Rollback(p) \/ Close(p)
      PROVE  SettlementInv' /\ SettledStays
  <2>1. UNCHANGED <<applied, purchase>>
    BY <1>4 DEF Start, StartTerminate, Lock, LockTimeout, AlreadySettled, ReadWallet,
                FillCache, WriteCredit, WriteDebit, WriteFailure, Rejected, Rollback,
                Close, committed
  <2>2. ASSUME NEW q \in Procs, pc'[q] \in {"fill", "write", "commit"}, Settles(q)'
        PROVE  purchase[job'[q].id] = "PENDING"
    <3>1. CASE q # p
      <4>1. pc'[q] = pc[q] /\ job'[q] = job[q]
        BY <1>4, <3>1 DEF Start, StartTerminate, Lock, LockTimeout, AlreadySettled,
              ReadWallet, FillCache, WriteCredit, WriteDebit, WriteFailure, Rejected,
              Rollback, Close, Leave, Idle, LockInv, TypeOK
      <4> QED BY <2>2, <4>1 DEF SettlementInv, Settles
    <3>2. CASE q = p
      <4>1. /\ job'[q] = job[q]
            /\ \/ pc[q] \in {"fill", "write"}
               \/ pc[q] = "locked" /\ StillPending(q)
        BY <1>4, <2>2, <3>2
        DEF Start, StartTerminate, Lock, LockTimeout, AlreadySettled, ReadWallet,
            FillCache, WriteCredit, WriteDebit, WriteFailure, Rejected, Rollback,
            Close, Leave, Idle, LockInv, TypeOK
      <4> QED BY <2>2, <4>1 DEF SettlementInv, Settles, StillPending
    <3> QED BY <3>1, <3>2
  <2> QED BY <1>3, <2>1, <2>2
<1>5. ASSUME (\E r \in Readers : ReaderMiss(r) \/ ReaderFill(r)) \/ CacheExpires
             \/ UNCHANGED vars
      PROVE  SettlementInv' /\ SettledStays
  <2>1. UNCHANGED <<applied, purchase, pc, job>>
    BY <1>5 DEF ReaderMiss, ReaderFill, CacheExpires, vars, committed
  <2> QED BY <1>3, <2>1 DEF SettlementInv, Settles
<1> QED BY <1>1, <1>2, <1>4, <1>5 DEF Next, Proceed

(* Completion and failure cannot both win, and a purchase enters the        *)
(* balance exactly when it is completed: the status read again under the    *)
(* lock decides, cache or no cache.                                          *)
THEOREM PurchasesSettleOnce == Spec => PurchaseSettledOnce
<1>1. Init => LockInv /\ SettlementInv
  BY LockInvInit DEF Init, SettlementInv, Ids
<1>2. LockInv /\ SettlementInv /\ [Next]_vars => (LockInv /\ SettlementInv)'
  BY LockInvStep, SettlementStep
<1>3. LockInv /\ SettlementInv /\ [Next]_vars
        => [\A x \in Purchases :
              /\ purchase[x] \in {"COMPLETED", "FAILED"} => purchase'[x] = purchase[x]
              /\ (applied'[x] # 0) <=> (purchase'[x] = "COMPLETED")]_vars
  BY SettlementStep DEF SettlementInv, SettledStays
<1> QED BY <1>1, <1>2, <1>3, PTL DEF Spec, PurchaseSettledOnce

----------------------------------------------------------------------------
(* What the requests add up to.                                             *)

Taken == Debits \cup ManualDebits \cup {Terminate}

(* A key that was new at the insert is new at the commit: whoever could     *)
(* have used it meanwhile would have needed the lock.                       *)
KeyStillNew ==
    \A p \in Procs :
        pc[p] = "commit" /\ job[p].op \in {"credit", "debit", "manual", "terminate"} =>
            applied[job[p].id] = 0

LEMMA KeyStillNewStep ==
    ASSUME LockInv, KeyStillNew, [Next]_vars
    PROVE  KeyStillNew'
<1> SUFFICES ASSUME NEW q \in Procs, pc'[q] = "commit",
                    job'[q].op \in {"credit", "debit", "manual", "terminate"}
             PROVE  applied'[job'[q].id] = 0
    BY DEF KeyStillNew
<1> USE DEF Goto, committed
<1>1. ASSUME NEW p \in Procs, CommitCredit(p) \/ CommitDebit(p) \/ CommitFailure(p)
      PROVE  FALSE
  <2>1. q # p /\ pc[q] \in UnderLock /\ pc[p] \in UnderLock
    BY <1>1 DEF CommitCredit, CommitDebit, CommitFailure, Leave, Idle, LockInv, TypeOK,
                UnderLock
  <2> QED BY <2>1, OthersAreOutside
<1>2. ASSUME NEW p \in Procs, WriteCredit(p) \/ WriteDebit(p)
      PROVE  applied'[job'[q].id] = 0
  <2>1. CASE p = q
    BY <1>2, <2>1 DEF WriteCredit, WriteDebit, KeyIsNew
  <2>2. CASE p # q
    BY <1>2, <2>2 DEF WriteCredit, WriteDebit, KeyStillNew, LockInv, TypeOK
  <2> QED BY <2>1, <2>2
<1>3. ASSUME UNCHANGED applied, pc[q] = "commit", job'[q] = job[q]
      PROVE  applied'[job'[q].id] = 0
  BY <1>3 DEF KeyStillNew
<1>4. ASSUME NEW p \in Procs,
             \/ \E j \in Jobs : Start(p, j)
             \/ StartTerminate(p) \/ Lock(p) \/ LockTimeout(p)
             \/ AlreadySettled(p) \/ ReadWallet(p) \/ FillCache(p) \/ WriteFailure(p)
             \/ Rejected(p) \/ Rollback(p) \/ Close(p)
      PROVE  applied'[job'[q].id] = 0
  <2>1. UNCHANGED applied
    BY <1>4 DEF Start, StartTerminate, Lock, LockTimeout, AlreadySettled, ReadWallet,
                FillCache, WriteFailure, Rejected, Rollback, Close
  <2>2. pc[q] = "commit" /\ job'[q] = job[q]
    BY <1>4 DEF Start, StartTerminate, Lock, LockTimeout, AlreadySettled, ReadWallet,
                FillCache, WriteFailure, Rejected, Rollback, Close, Leave, Idle,
                LockInv, TypeOK
  <2> QED BY <1>3, <2>1, <2>2
<1>5. ASSUME \/ \E x \in Purchases : RequestPurchase(x)
             \/ \E r \in Readers : ReaderMiss(r) \/ ReaderFill(r)
             \/ CacheExpires
             \/ UNCHANGED vars
      PROVE  applied'[job'[q].id] = 0
  BY <1>3, <1>5 DEF RequestPurchase, ReaderMiss, ReaderFill, CacheExpires, vars
<1> QED BY <1>1, <1>2, <1>4, <1>5 DEF Next, Proceed

(* The kind of a job tells which sum its id belongs to, and no other.       *)
LEMMA JobKinds ==
    ASSUME NEW j \in Jobs
    PROVE  /\ j.id \in Ids
           /\ j.op = "credit" => j.id \in Credits /\ j.id \notin Purchases /\ j.id \notin Taken
           /\ j.op \in {"complete", "fail"} =>
                 j.id \in Purchases /\ j.id \notin Credits /\ j.id \notin Taken
           /\ j.op \in {"debit", "manual", "terminate"} =>
                 j.id \in Taken /\ j.id \notin Credits /\ j.id \notin Purchases
           /\ j.op \in {"debit", "terminate"} => j.id \in Debits \cup {Terminate}
           /\ j.op = "manual" => j.id \notin Debits \cup {Terminate}
<1> USE KeysAreOfOneKind, PurchasesAreNotKeys DEF Keys, Ids, Taken
<1>1. CASE j \in [op : {"complete", "fail"}, id : Purchases]
  BY <1>1
<1>2. CASE j \in [op : {"terminate"}, id : {Terminate}]
  BY <1>2
<1>3. CASE j \in [op : {"credit"}, id : Credits]
  BY <1>3
<1>4. CASE j \in [op : {"debit"}, id : Debits]
  BY <1>4
<1>5. CASE j \in [op : {"manual"}, id : ManualDebits]
  BY <1>5
<1> QED BY <1>1, <1>2, <1>3, <1>4, <1>5 DEF Jobs

(* A commit that moves credits moves them under an id that had none.        *)
LEMMA CommitIsFirst ==
    ASSUME LockInv, SettlementInv, KeyStillNew, NEW p \in Procs,
           CommitCredit(p) \/ CommitDebit(p)
    PROVE  /\ job[p] \in Jobs /\ amount[p] \in Nat /\ applied[job[p].id] = 0
           /\ applied \in [Ids -> Nat]
           /\ applied' = [applied EXCEPT ![job[p].id] = amount[p]]
<1>1. pc[p] = "commit" /\ job[p] \in Jobs /\ amount[p] \in Nat
  BY WalletTxConstants DEF CommitCredit, CommitDebit, LockInv, JobKnown, AmountKnown, UnderLock
<1>2. CASE job[p].op = "complete"
  <2>1. job[p].id \in Purchases /\ purchase[job[p].id] = "PENDING"
    BY <1>1, <1>2, JobIds DEF SettlementInv, Settles
  <2>2. applied[job[p].id] \in Nat
    BY <2>1 DEF LockInv, TypeOK, Ids
  <2> QED BY <1>1, <2>1, <2>2 DEF SettlementInv, CommitCredit, CommitDebit, Moved, LockInv, TypeOK
<1>3. CASE job[p].op # "complete"
  BY <1>1, <1>3 DEF KeyStillNew, CommitCredit, CommitDebit, Moved, IsDebit, LockInv, TypeOK
<1> QED BY <1>2, <1>3

LEMMA IdsAreFinite ==
    /\ IsFiniteSet(Credits) /\ IsFiniteSet(Purchases) /\ IsFiniteSet(Taken)
    /\ IsFiniteSet(Debits \cup {Terminate}) /\ IsFiniteSet(Credits \cup Purchases)
    /\ Credits \subseteq Ids /\ Purchases \subseteq Ids /\ Taken \subseteq Ids
    /\ Debits \cup {Terminate} \subseteq Ids
<1>1. Credits \subseteq Keys /\ Debits \subseteq Keys /\ Debits \cup ManualDebits \subseteq Keys
  BY DEF Keys
<1>2. IsFiniteSet(Credits) /\ IsFiniteSet(Debits) /\ IsFiniteSet(Debits \cup ManualDebits)
  BY <1>1, RequestsAreFinite, FS_Subset
<1>3. IsFiniteSet(Taken) /\ IsFiniteSet(Debits \cup {Terminate})
  BY <1>2, FS_AddElement DEF Taken
<1>4. IsFiniteSet(Credits \cup Purchases)
  BY <1>2, RequestsAreFinite, FS_Union
<1> QED BY <1>2, <1>3, <1>4, RequestsAreFinite DEF Ids, Keys, Taken

(* A value that was zero is added to whatever sums count it.                *)
LEMMA SumGains ==
    ASSUME NEW S, IsFiniteSet(S), NEW a, NEW f, NEW g,
           \A x \in S : f[x] \in Int /\ g[x] \in Int,
           \A x \in S \ {a} : g[x] = f[x],
           f[a] = 0, g[a] \in Int
    PROVE  SumOver(g, S) = SumOver(f, S) + IF a \in S THEN g[a] ELSE 0
<1>1. SumOver(f, S) \in Int
  BY SumType
<1>2. CASE a \in S
  <2>1. SumOver(g, S) = SumOver(f, S) - f[a] + g[a]
    BY <1>2, SumUpdate
  <2> QED
    BY <1>1, <1>2, <2>1
<1>3. CASE a \notin S
  <2>1. SumOver(f, S) = SumOver(g, S)
    BY <1>3, SumSame
  <2> QED
    BY <1>1, <1>3, <2>1
<1> QED
  BY <1>2, <1>3

(* What a commit does to the sum over a set of ids.                         *)
LEMMA SumMoved ==
    ASSUME NEW S, IsFiniteSet(S), S \subseteq Ids, NEW id \in Ids, NEW n \in Nat,
           applied \in [Ids -> Nat], applied[id] = 0, applied' = [applied EXCEPT ![id] = n]
    PROVE  /\ SumOver(applied, S) \in Nat
           /\ SumOver(applied', S) = SumOver(applied, S) + IF id \in S THEN n ELSE 0
<1> DEFINE f == applied
           g == applied'
<1>1. /\ \A x \in S : f[x] \in Nat /\ f[x] \in Int /\ g[x] \in Int
      /\ \A x \in S \ {id} : g[x] = f[x]
      /\ f[id] = 0 /\ g[id] = n
  OBVIOUS
<1> SUFFICES /\ SumOver(f, S) \in Nat
             /\ SumOver(g, S) = SumOver(f, S) + IF id \in S THEN n ELSE 0
  OBVIOUS
<1> HIDE DEF f, g
<1>2. SumOver(f, S) \in Nat
  BY <1>1, SumNat
<1> QED
  BY <1>1, <1>2, SumGains

BalanceInv ==
    creditBalance = SumOver(applied, Credits) + SumOver(applied, Purchases)
                        - SumOver(applied, Taken)

(* Nothing but these two moves a credit.                                    *)
LEMMA OnlyCommitsMove ==
    ASSUME [Next]_vars
    PROVE  \/ \E p \in Procs : CommitCredit(p) \/ CommitDebit(p)
           \/ UNCHANGED <<creditBalance, available, applied>>
<1>1. ASSUME NEW p \in Procs,
             \/ \E j \in Jobs : Start(p, j)
             \/ StartTerminate(p) \/ Lock(p) \/ LockTimeout(p)
             \/ AlreadySettled(p) \/ ReadWallet(p) \/ FillCache(p)
             \/ WriteCredit(p) \/ WriteDebit(p) \/ WriteFailure(p)
             \/ Rejected(p) \/ Rollback(p) \/ CommitFailure(p) \/ Close(p)
      PROVE  UNCHANGED <<creditBalance, available, applied>>
  BY <1>1 DEF Start, StartTerminate, Lock, LockTimeout, AlreadySettled, ReadWallet,
              FillCache, WriteCredit, WriteDebit, WriteFailure, Rejected, Rollback,
              CommitFailure, Close, committed, account
<1>2. ASSUME \/ \E x \in Purchases : RequestPurchase(x)
             \/ \E r \in Readers : ReaderMiss(r) \/ ReaderFill(r)
             \/ CacheExpires
             \/ UNCHANGED vars
      PROVE  UNCHANGED <<creditBalance, available, applied>>
  BY <1>2 DEF RequestPurchase, ReaderMiss, ReaderFill, CacheExpires, vars, committed, account
<1> QED BY <1>1, <1>2 DEF Next, Proceed

LEMMA BalanceStep ==
    ASSUME LockInv, LockedReadIsCurrent, SettlementInv, KeyStillNew, BalanceInv, [Next]_vars
    PROVE  BalanceInv'
<1>1. CASE UNCHANGED <<creditBalance, available, applied>>
  BY <1>1 DEF BalanceInv
<1>2. ASSUME NEW p \in Procs, CommitCredit(p) \/ CommitDebit(p)
      PROVE  BalanceInv'
  <2> DEFINE id == job[p].id
             n == amount[p]
             Added(S) == IF id \in S THEN n ELSE 0
  <2>1. /\ job[p] \in Jobs /\ n \in Nat /\ applied[id] = 0 /\ id \in Ids
        /\ applied \in [Ids -> Nat] /\ applied' = [applied EXCEPT ![id] = n]
    BY <1>2, CommitIsFirst, JobKinds
  <2>2. /\ SumOver(applied, Credits) \in Nat
        /\ SumOver(applied', Credits) = SumOver(applied, Credits) + Added(Credits)
        /\ SumOver(applied, Purchases) \in Nat
        /\ SumOver(applied', Purchases) = SumOver(applied, Purchases) + Added(Purchases)
        /\ SumOver(applied, Taken) \in Nat
        /\ SumOver(applied', Taken) = SumOver(applied, Taken) + Added(Taken)
    BY <2>1, IdsAreFinite, SumMoved
  <2>3. seen[p] = creditBalance
    BY <1>2 DEF CommitCredit, CommitDebit, IsDebit, LockedReadIsCurrent
  <2>4. CASE CommitCredit(p)
    <3>1. creditBalance' = creditBalance + n
      BY <2>3, <2>4 DEF CommitCredit
    <3>2. Added(Credits) + Added(Purchases) = n /\ Added(Taken) = 0
      BY <2>1, <2>4, JobKinds DEF CommitCredit
    <3>3. Added(Credits) \in Nat /\ Added(Purchases) \in Nat
      BY <2>1
    <3> HIDE DEF id, n, Added
    <3> QED BY <2>1, <2>2, <3>1, <3>2, <3>3 DEF BalanceInv
  <2>5. CASE CommitDebit(p)
    <3>1. creditBalance' = creditBalance - n
      BY <2>3, <2>5 DEF CommitDebit
    <3>2. Added(Credits) = 0 /\ Added(Purchases) = 0 /\ Added(Taken) = n
      BY <2>1, <2>5, JobKinds DEF CommitDebit, IsDebit
    <3> HIDE DEF id, n, Added
    <3> QED BY <2>1, <2>2, <3>1, <3>2 DEF BalanceInv
  <2> QED BY <1>2, <2>4, <2>5
<1> QED BY <1>1, <1>2, OnlyCommitsMove

LEMMA FoldIsSum ==
    ASSUME NEW S, IsFiniteSet(S)
    PROVE  FoldFunction(+, 0, [k \in S |-> applied[k]]) = SumOver(applied, S)
<1> DEFINE f == [k \in S |-> applied[k]]
<1>1. DOMAIN f = S /\ \A k \in S : f[k] = applied[k]
  OBVIOUS
<1> HIDE DEF f
<1>2. FoldFunction(+, 0, f) = SumOver(f, S)
  BY <1>1, FunSum
<1>3. SumOver(f, S) = SumOver(applied, S)
  BY <1>1, SumSame
<1> QED BY <1>2, <1>3 DEF f

(* A purchase that is not completed has moved nothing.                      *)
LEMMA BalanceAddsUp ==
    ASSUME LockInv, SettlementInv, BalanceInv
    PROVE  BalanceIsSumOfRequests
<1> DEFINE Done == {x \in Purchases : purchase[x] = "COMPLETED"}
           Rest == Purchases \ Done
<1>1. IsFiniteSet(Done) /\ IsFiniteSet(Rest) /\ Done \cap Rest = {} /\ Done \cup Rest = Purchases
  BY IdsAreFinite, FS_Subset
<1>2. \A x \in Rest : applied[x] = 0
  BY DEF SettlementInv
<1>3. \A x \in Done \cup Rest : applied[x] \in Int
  BY DEF LockInv, TypeOK, Ids
<1>4. SumOver(applied, Done) \in Int
  BY <1>1, <1>3, SumType
<1>5. SumOver(applied, Purchases) = SumOver(applied, Done)
  <2> HIDE DEF Done, Rest
  <2>1. SumOver(applied, Rest) = 0
    BY <1>1, <1>2, SumZero
  <2>2. SumOver(applied, Done \cup Rest) = SumOver(applied, Done) + SumOver(applied, Rest)
    BY <1>1, <1>3, SumUnion
  <2>3. SumOver(applied, Purchases) = SumOver(applied, Done) + SumOver(applied, Rest)
    BY <1>1, <2>2
  <2> QED BY <1>4, <2>1, <2>3
<1>6. /\ FoldFunction(+, 0, [k \in Credits |-> applied[k]]) = SumOver(applied, Credits)
      /\ FoldFunction(+, 0, [k \in Done |-> applied[k]]) = SumOver(applied, Done)
      /\ FoldFunction(+, 0, [k \in Taken |-> applied[k]]) = SumOver(applied, Taken)
  <2> HIDE DEF Done
  <2> QED BY <1>1, IdsAreFinite, FoldIsSum
<1> QED BY <1>5, <1>6, Zenon DEF BalanceIsSumOfRequests, BalanceInv, Taken

(* Without the cache, the balance is the sum of the requests that took      *)
(* effect, each once however often it was sent, and of the completed        *)
(* purchases: the unique index on idempotency keys and the re-read of the   *)
(* purchase row, both under the lock that keeps the balance read current.   *)
THEOREM BalanceAddsUpRequests ==
    ASSUME ~CacheEnabled
    PROVE  Spec => []BalanceIsSumOfRequests
<1> DEFINE Inv == /\ LockInv /\ LockedReadIsCurrent /\ SettlementInv
                  /\ KeyStillNew /\ BalanceInv
<1>1. Init => LockInv /\ LockedReadIsCurrent /\ SettlementInv /\ KeyStillNew
  BY LockInvInit DEF Init, LockedReadIsCurrent, SettlementInv, KeyStillNew, Ids
<1>2. Init => BalanceInv
  <2> SUFFICES ASSUME Init PROVE BalanceInv
    OBVIOUS
  <2>1. \A k \in Ids : applied[k] = 0
    BY DEF Init
  <2>2. /\ SumOver(applied, Credits) = 0 /\ SumOver(applied, Purchases) = 0
        /\ SumOver(applied, Taken) = 0
    BY <2>1, IdsAreFinite, SumZero
  <2> QED BY <2>2 DEF Init, BalanceInv
<1>3. Inv /\ [Next]_vars => Inv'
  BY LockInvStep, CurrentReadStep, SettlementStep, KeyStillNewStep, BalanceStep
<1>4. Inv => BalanceIsSumOfRequests
  BY BalanceAddsUp
<1> QED BY <1>1, <1>2, <1>3, <1>4, PTL DEF Spec

(* With or without the cache: what ordinary debits and the termination took *)
(* and what is still available was granted.                                 *)
FundedInv ==
    SumOver(applied, Debits \cup {Terminate}) + available
        <= SumOver(applied, Credits \cup Purchases)

(* A credit never makes more available than it posts.                       *)
LEMMA UsableIsAtMostPosted ==
    ASSUME NEW before \in Int, NEW n \in Nat
    PROVE  CreditsUsable(before, before + n) <= n /\ CreditsUsable(before, before + n) \in Nat
BY DEF CreditsUsable, NonNegative

LEMMA FundedStep ==
    ASSUME LockInv, SettlementInv, KeyStillNew, FundedInv, [Next]_vars
    PROVE  FundedInv'
<1>1. CASE UNCHANGED <<creditBalance, available, applied>>
  BY <1>1 DEF FundedInv
<1>2. ASSUME NEW p \in Procs, CommitCredit(p) \/ CommitDebit(p)
      PROVE  FundedInv'
  <2> DEFINE id == job[p].id
             n == amount[p]
             Spent == Debits \cup {Terminate}
             Granted == Credits \cup Purchases
             Added(S) == IF id \in S THEN n ELSE 0
  <2>1. /\ job[p] \in Jobs /\ n \in Nat /\ applied[id] = 0 /\ id \in Ids
        /\ applied \in [Ids -> Nat] /\ applied' = [applied EXCEPT ![id] = n]
    BY <1>2, CommitIsFirst, JobKinds
  <2>2. /\ SumOver(applied, Spent) \in Nat
        /\ SumOver(applied', Spent) = SumOver(applied, Spent) + Added(Spent)
        /\ SumOver(applied, Granted) \in Nat
        /\ SumOver(applied', Granted) = SumOver(applied, Granted) + Added(Granted)
    BY <2>1, IdsAreFinite, SumMoved
  <2>3. available \in Nat /\ seen[p] \in Int /\ consumed[p] \in Nat
    BY DEF LockInv, TypeOK
  <2>4. CASE CommitCredit(p)
    <3>1. available' = available + CreditsUsable(seen[p], seen[p] + n)
      BY <2>4 DEF CommitCredit
    <3>2. CreditsUsable(seen[p], seen[p] + n) <= n /\ CreditsUsable(seen[p], seen[p] + n) \in Nat
      BY <2>1, <2>3, UsableIsAtMostPosted
    <3>3. Added(Granted) = n /\ Added(Spent) = 0
      BY <2>1, <2>4, JobKinds DEF CommitCredit, Taken
    <3> DEFINE usable == CreditsUsable(seen[p], seen[p] + n)
    <3> HIDE DEF id, n, Spent, Granted, Added, usable
    <3>4. SumOver(applied', Spent) + available' <= SumOver(applied', Granted)
      BY <2>1, <2>2, <2>3, <3>1, <3>2, <3>3 DEF FundedInv, Spent, Granted, usable
    <3> QED BY <3>4 DEF FundedInv, Spent, Granted
  <2>5. CASE CommitDebit(p)
    <3>1. available' = available - consumed[p]
      BY <2>5 DEF CommitDebit
    <3>2. Added(Granted) = 0
      BY <2>1, <2>5, JobKinds DEF CommitDebit, IsDebit
    <3>3. Added(Spent) <= consumed[p] /\ Added(Spent) \in Nat
      <4>1. /\ consumed[p] <= n
            /\ consumed[p] < n => job[p].op = "manual"
        BY <2>5 DEF CommitDebit, LockInv, CreditsReserved
      <4>2. job[p].op = "manual" => id \notin Spent
        BY <2>1, JobKinds
      <4> QED BY <2>1, <2>3, <4>1, <4>2
    <3> HIDE DEF id, n, Spent, Granted, Added
    <3>4. SumOver(applied', Spent) + available' <= SumOver(applied', Granted)
      BY <2>1, <2>2, <2>3, <3>1, <3>2, <3>3 DEF FundedInv, Spent, Granted
    <3> QED BY <3>4 DEF FundedInv, Spent, Granted
  <2> QED BY <1>2, <2>4, <2>5
<1> QED BY <1>1, <1>2, OnlyCommitsMove

(* Only a manual debit spends credits nobody was granted, although the      *)
(* balance may come from a stale cache: the credits are taken from rows     *)
(* read under the lock.                                                      *)
THEOREM OrdinaryDebitsFunded == Spec => []OrdinaryDebitsAreFunded
<1> DEFINE Inv == LockInv /\ SettlementInv /\ KeyStillNew /\ FundedInv
<1>1. Init => LockInv /\ SettlementInv /\ KeyStillNew
  BY LockInvInit DEF Init, SettlementInv, KeyStillNew, Ids
<1>2. Init => FundedInv
  <2> SUFFICES ASSUME Init PROVE FundedInv
    OBVIOUS
  <2>1. \A k \in Ids : applied[k] = 0
    BY DEF Init
  <2>2. /\ SumOver(applied, Debits \cup {Terminate}) = 0
        /\ SumOver(applied, Credits \cup Purchases) = 0
    BY <2>1, IdsAreFinite, SumZero
  <2> QED BY <2>2 DEF Init, FundedInv
<1>3. Inv /\ [Next]_vars => Inv'
  BY LockInvStep, SettlementStep, KeyStillNewStep, FundedStep
<1>4. Inv => OrdinaryDebitsAreFunded
  <2> SUFFICES ASSUME Inv PROVE OrdinaryDebitsAreFunded
    OBVIOUS
  <2>1. SumOver(applied, Debits \cup {Terminate}) \in Nat /\ available \in Nat
        /\ SumOver(applied, Credits \cup Purchases) \in Nat
    <3>1. \A S : S \subseteq Ids => \A x \in S : applied[x] \in Nat
      BY DEF LockInv, TypeOK
    <3> QED BY <3>1, IdsAreFinite, SumNat DEF LockInv, TypeOK
  <2>2. SumOver(applied, Debits \cup {Terminate}) <= SumOver(applied, Credits \cup Purchases)
    BY <2>1 DEF FundedInv
  <2>3. /\ FoldFunction(+, 0, [k \in Debits \cup {Terminate} |-> applied[k]])
              = SumOver(applied, Debits \cup {Terminate})
        /\ FoldFunction(+, 0, [k \in Credits \cup Purchases |-> applied[k]])
              = SumOver(applied, Credits \cup Purchases)
    BY IdsAreFinite, FoldIsSum
  <2> QED BY <2>2, <2>3, Zenon DEF OrdinaryDebitsAreFunded
<1> QED BY <1>1, <1>2, <1>3, <1>4, PTL DEF Spec
=============================================================================
