--------------------------- MODULE CheckoutPromise ---------------------------
(****************************************************************************)
(* What a checkout session promises the customer who is asked to pay first. *)
(* The session is decided once: delivered, and then only after the customer *)
(* has been charged, or dropped.  What was prepaid in credits comes back    *)
(* only when the session is dropped, and so does the charge itself: to the  *)
(* gateway or, once it was booked on the invoice, to the wallet.            *)
(****************************************************************************)
VARIABLES
    outcome,        \* "open", "delivered" or "dropped"
    charged,        \* whether the customer's money has been taken
    back            \* the places value has been sent back to

vars == <<outcome, charged, back>>

Init == /\ outcome = "open"
        /\ charged = FALSE
        /\ back = {}

Charge == /\ charged' = TRUE
          /\ UNCHANGED <<outcome, back>>

Deliver == /\ outcome = "open" /\ charged
           /\ outcome' = "delivered"
           /\ UNCHANGED <<charged, back>>

Drop == /\ outcome = "open"
        /\ outcome' = "dropped"
        /\ back' \in SUBSET (IF charged THEN {"wallet", "credits"} ELSE {"credits"})
        /\ UNCHANGED charged

Return == /\ outcome = "dropped" /\ charged
          /\ back' = back \union {"gateway"}
          /\ UNCHANGED <<outcome, charged>>

Next == Charge \/ Deliver \/ Drop \/ Return

Spec == Init /\ [][Next]_vars

(* Nothing is sent back before the session is dropped, so a customer never  *)
(* keeps both the product and the money.                                    *)
NeverBoth == back # {} => outcome = "dropped"
=============================================================================
