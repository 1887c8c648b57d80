---------------------------- MODULE RefundPromise ----------------------------
(***************************************************************************)
(* What refunding an invoice promises its customer, whatever moves the      *)
(* money: a promise is never taken back, and no more is given back than was *)
(* promised.                                                                *)
(***************************************************************************)
EXTENDS Integers

VARIABLES
    promised,       \* what credit notes and voids of the invoice give back
    returned        \* what has reached the customer again

vars == <<promised, returned>>

Init == promised = 0 /\ returned = 0

(* A void hands the money back at once, a credit note later.                *)
Promise ==
    /\ promised' \in Nat /\ promised' > promised
    /\ returned' \in {returned, returned + promised' - promised}

Return ==
    /\ returned' \in Nat /\ returned' > returned /\ returned' <= promised
    /\ UNCHANGED promised

Next == Promise \/ Return

Spec == Init /\ [][Next]_vars

(* Never more back than was promised.                                       *)
WithinMeans == returned <= promised
=============================================================================
