----------------------------- MODULE MCPayments -----------------------------
(***************************************************************************)
(* Bounds for Payments: a probability that may fail or pass and one that   *)
(* always fails; two answers that may overtake each other; one failed read *)
(* of either reader.                                                       *)
(***************************************************************************)
EXTENDS Payments

DrawOutcomes == [some |-> BOOLEAN, always |-> {TRUE}]
=============================================================================
