----------------------------- MODULE MCPayments -----------------------------
(* Bounded instances of Payments. *)
EXTENDS Payments, TLC

CONSTANTS o1, q1, q2
=============================================================================
