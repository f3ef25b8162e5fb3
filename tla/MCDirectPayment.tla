-------------------------- MODULE MCDirectPayment --------------------------
(* Small instances of DirectPayment for TLC. *)
EXTENDS DirectPayment

CONSTANTS c1, c2, s1, s2

\* What the two calls post, but for exchanging them: the first a card payment, the
\* second one as well or a body that binds to none.
OneOrBothPay == {b \in [Client -> Body] : b[c1] = "card"}
=============================================================================
