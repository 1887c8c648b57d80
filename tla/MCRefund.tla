------------------------------ MODULE MCRefund ------------------------------
(* Payments of 2 and 1, collected by two gateways, of which one can refund. *)
(* Processes are alike, and so are credit notes.                            *)
EXTENDS Refund, TLC

MCAmounts == <<2, 1>>
Alike == Permutations(Procs) \cup Permutations(Notes)
=============================================================================
