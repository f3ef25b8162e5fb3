----------------------------- MODULE PaymentCall -----------------------------
(***************************************************************************)
(* What DirectCardPaymentController.MakePayment promises its callers,      *)
(* without queues, connections or processes: a call that ends with an      *)
(* authorisation code has been charged, a call that ends without one never *)
(* is, and of a failed call nothing is known.                              *)
(***************************************************************************)
CONSTANT Client  \* the calls

VARIABLES
  outcome,  \* what has come of each call
  charged   \* the calls whose payment has been made

Outcome == {"none", "open", "paid", "unpaid", "failed"}

Init == outcome = [c \in Client |-> "none"] /\ charged = {}

End(c, o) == outcome' = [outcome EXCEPT ![c] = o] /\ UNCHANGED charged

\* The payment is posted.
Post(c) == outcome[c] = "none" /\ End(c, "open")

\* The payment is made, and again when the request is redelivered: even after
\* the call has ended.
Charge(c) == /\ outcome[c] \in {"open", "paid", "failed"}
             /\ charged' = charged \cup {c}
             /\ UNCHANGED outcome

\* Ok with a code, Ok with an empty code, BadRequest.
Confirm(c) == outcome[c] = "open" /\ c \in charged /\ End(c, "paid")
Refuse(c) == outcome[c] = "open" /\ c \notin charged /\ End(c, "unpaid")
Fail(c) == outcome[c] \in {"none", "open"} /\ End(c, "failed")

Next == \E c \in Client : Post(c) \/ Charge(c) \/ Confirm(c) \/ Refuse(c) \/ Fail(c)

Spec == Init /\ [][Next]_<<outcome, charged>>
=============================================================================
