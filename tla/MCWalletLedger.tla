--------------------------- MODULE MCWalletLedger ---------------------------
(* Small instances of WalletLedger.                                         *)
EXTENDS WalletLedger

(* Two credits that expire at different times and a bonus that never does.  *)
MCOffers == {[credits |-> 2, lifetime |-> 1, priority |-> 1],
             [credits |-> 3, lifetime |-> 9, priority |-> 0]}
MCBonuses == {[credits |-> 1, lifetime |-> 9, priority |-> 0]}

(* One prepaid wallet sees more requests than two wallets do.               *)
MCMaxRows == [S \in SUBSET Wallets |-> IF S \subseteq Prepaid THEN 3 ELSE 2]
=============================================================================
