----------------------------- MODULE MCCheckout -----------------------------
(* Small instances of Checkout.                                             *)
EXTENDS Checkout
=============================================================================
