---------------------------- MODULE OrderWorkflow ----------------------------
(***************************************************************************)
(* What the order process of src/src/eCommerce promises for one order,     *)
(* without messages, queues or sagas: an order is taken once, goes through *)
(* the stages of the business one at a time and never back, and ends with  *)
(* the originator told, with the event published, or lost.                 *)
(***************************************************************************)
CONSTANTS
  Order,    \* the orders
  CanLose   \* the stages at which an order may be lost

VARIABLE stage  \* how far each order has come

Stage == {"none", "accepted", "started", "planned", "dispatched", "processed",
          "published", "lost"}

Init == stage = [o \in Order |-> "none"]

Move(o, from, to) == stage[o] = from /\ stage' = [stage EXCEPT ![o] = to]

\* A front takes the order.
Accept(o) == Move(o, "none", "accepted")

\* The saga starts, the planner plans, eCommerce.Order dispatches and the saga
\* tells the originator.
Start(o) == Move(o, "accepted", "started")
Plan(o) == Move(o, "started", "planned")
Dispatch(o) == Move(o, "planned", "dispatched")
Complete(o) == Move(o, "dispatched", "processed")

\* eCommerce.Order processes the order on its own and publishes the event.
Publish(o) == Move(o, "accepted", "published")

\* A restart loses orders, several at a time: the messages that waited
\* for a delayed retry, or the saga data a reply would have needed.
Lose(lost) ==
  /\ \A o \in lost : stage[o] \in CanLose
  /\ stage' = [o \in Order |-> IF o \in lost THEN "lost" ELSE stage[o]]

Next == \/ \E o \in Order : \/ Accept(o) \/ Start(o) \/ Plan(o) \/ Dispatch(o)
                            \/ Complete(o) \/ Publish(o)
        \/ \E lost \in SUBSET Order : Lose(lost)

Spec == Init /\ [][Next]_stage
=============================================================================
