------------------------- MODULE MCCreditSettlement -------------------------
(* Small instances of CreditSettlement.                                     *)
EXTENDS CreditSettlement

CONSTANTS c1, c2

(* One credit expires inside the first period, one inside the second.       *)
MCAmountOf == [c \in Credits |-> IF c = c1 THEN 1 ELSE 2]
MCExpiryOf == [c \in Credits |-> IF c = c1 THEN 1 ELSE 3]
=============================================================================
