------------------------- MODULE WalletAccountProofs -------------------------
(* The account's balance is backed by its credits in every reachable state. *)
EXTENDS WalletAccount, Integers, TLAPS

(* One step of any kind keeps the balance within the available credits, and *)
(* short of them by no more than the manual overdrafts (a credit posted in  *)
(* debt makes available only what is left after the debt).                  *)
LEMMA AccountStep ==
    ASSUME Amounts \subseteq Nat \ {0}, AccountSafety, [AccountNext]_accountVars
    PROVE  AccountSafety'
<1> USE DEF AccountSafety, AccountTypeOK, BalanceBackedByCredits,
            GapIsOverdraft
<1>1. ASSUME NEW amount \in Amounts, Grant(amount)
      PROVE  AccountSafety'
      BY <1>1
         DEF Grant, CreditsUsable, NonNegative
<1>2. ASSUME NEW amount \in Amounts, Spend(amount)
      PROVE  AccountSafety'
      BY <1>2 DEF Spend
<1>3. ASSUME NEW amount \in Amounts, NEW consumed \in 0 .. amount - 1,
             Overdraw(amount, consumed)
      PROVE  AccountSafety'
      BY <1>3 DEF Overdraw
<1>4. CASE UNCHANGED accountVars
      BY <1>4 DEF accountVars
<1> QED BY <1>1, <1>2, <1>3, <1>4 DEF AccountNext

(* The promise itself, for every amount and every order of operations: what *)
(* the wallet service's balance column says is payable from credit rows.    *)
THEOREM AccountIsBacked ==
    ASSUME Amounts \subseteq Nat \ {0}
    PROVE  AccountSpec => []AccountSafety
<1>1. AccountInit => AccountSafety
      BY DEF AccountInit, AccountSafety, AccountTypeOK,
             BalanceBackedByCredits, GapIsOverdraft
<1>2. AccountSafety /\ [AccountNext]_accountVars => AccountSafety'
      BY AccountStep
<1> QED BY <1>1, <1>2, PTL DEF AccountSpec
==============================================================================
