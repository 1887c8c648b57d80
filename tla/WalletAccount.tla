--------------------------- MODULE WalletAccount ---------------------------
(***************************************************************************)
(* What one credit wallet promises, with no rows, locks or time: a credit  *)
(* balance that may be overdrawn, and the credits still available on its   *)
(* completed credit rows.  WalletLedger (the rows, one operation a step)   *)
(* and WalletTx (the locking, caching and rollback under each operation)   *)
(* both implement it.                                                      *)
(***************************************************************************)
EXTENDS Integers

CONSTANT Amounts   \* the numbers of credits one operation can move, none zero

VARIABLES
    creditBalance,   \* wallets.credit_balance
    available,       \* the credits_available of its completed credit rows, summed
    overdraft        \* what manual debits took beyond the credits they found

accountVars == <<creditBalance, available, overdraft>>

NonNegative(n) == IF n < 0 THEN 0 ELSE n

(* What a credit posted from balance `before` to balance `after` leaves    *)
(* spendable: credits that only pay off an overdraft are never available.  *)
CreditsUsable(before, after) ==
    IF before < 0 THEN NonNegative(after) ELSE after - before

AccountTypeOK ==
    /\ creditBalance \in Int
    /\ available \in Nat
    /\ overdraft \in Nat

AccountInit ==
    /\ creditBalance = 0
    /\ available = 0
    /\ overdraft = 0

(* A credit, a completed purchase, or a purchase and its bonus together.   *)
Grant(amount) ==
    /\ creditBalance' = creditBalance + amount
    /\ available' = available
           + CreditsUsable(creditBalance, creditBalance + amount)
    /\ UNCHANGED overdraft

(* A debit, an expiry or a termination covered by the credits it consumes. *)
Spend(amount) ==
    /\ amount <= available
    /\ creditBalance' = creditBalance - amount
    /\ available' = available - amount
    /\ UNCHANGED overdraft

(* A manual debit that finds fewer credits than it takes.                  *)
Overdraw(amount, consumed) ==
    /\ consumed <= available
    /\ creditBalance' = creditBalance - amount
    /\ available' = available - consumed
    /\ overdraft' = overdraft + (amount - consumed)

AccountNext ==
    \E amount \in Amounts :
        \/ Grant(amount)
        \/ Spend(amount)
        \/ \E consumed \in 0 .. amount - 1 : Overdraw(amount, consumed)

AccountSpec == AccountInit /\ [][AccountNext]_accountVars

----------------------------------------------------------------------------
(* The balance never promises more than the credit rows can pay            *)
(* (processWalletOperation and ConsumeCredits move both).                  *)
BalanceBackedByCredits == creditBalance <= available

(* Nothing but a manual overdraft ever separates the two: every other       *)
(* operation neither loses a credit nor counts one twice                    *)
(* (ComputeCreditsAvailable against the balance write).                     *)
GapIsOverdraft == available - creditBalance <= overdraft

AccountSafety == AccountTypeOK /\ BalanceBackedByCredits /\ GapIsOverdraft
============================================================================
