------------------------- MODULE MCPaymentExamples -------------------------
(* A small instance of PaymentExamples for TLC. *)
EXTENDS PaymentExamples, TLC

CONSTANTS p1, p2, c1, c2
=============================================================================
