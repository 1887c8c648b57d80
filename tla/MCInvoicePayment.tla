--------------------------- MODULE MCInvoicePayment --------------------------
(* One invoice of 2, a gateway payment of all of it and a direct one of half. *)
EXTENDS InvoicePayment

CONSTANTS g1, d1

MCAmountOf == [x \in {g1, d1} |-> IF x = g1 THEN 2 ELSE 1]
=============================================================================
