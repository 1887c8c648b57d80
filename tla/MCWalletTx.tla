----------------------------- MODULE MCWalletTx -----------------------------
(* Small instances of WalletTx.                                             *)
EXTENDS WalletTx

CONSTANTS c1, d1, m1, x1

(* The manual debit asks for more than the credit brings.                   *)
MCAmountOf == [k \in Keys \cup Purchases |->
                  IF k = m1 THEN 3 ELSE IF k = x1 THEN 2 ELSE 1]
=============================================================================
