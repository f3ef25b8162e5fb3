--------------------------- MODULE MCPriceRequest ---------------------------
(* A small instance of PriceRequest for TLC. *)
EXTENDS PriceRequest, TLC

CONSTANTS c1, c2, d1, d2, d3

\* On both sides of the limit of PriceCalculator
Weights == {9, 10}
=============================================================================
