--------------------------- MODULE MCStandardQueue ---------------------------
(* A small instance of StandardQueue for TLC. *)
EXTENDS StandardQueue, TLC

CONSTANTS p1, p2
=============================================================================
