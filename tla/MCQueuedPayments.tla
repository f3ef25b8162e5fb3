-------------------------- MODULE MCQueuedPayments --------------------------
(* Small instances of QueuedPayments for TLC. *)
EXTENDS QueuedPayments, TLC

CONSTANTS c1, c2, w1, w2

OnlyCard == w1 :> "card"

\* One call at least is for a card payment; what two such calls are posted with is
\* considered up to the exchange of the calls.
CardFirst ==
  {f \in [Call -> [kind : Kind, body : Body]] :
     /\ f[c1].kind = "card"
     /\ f[c2].kind = "card" /\ f[c1].body = "null" => f[c2].body = "null"}
=============================================================================
