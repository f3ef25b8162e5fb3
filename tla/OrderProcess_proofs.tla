------------------------- MODULE OrderProcess_proofs -------------------------
(***************************************************************************)
(* Proofs about OrderProcess: the inductive invariant IInv, the safety     *)
(* properties that follow from it, and that the order process implements   *)
(* OrderWorkflow.                                                          *)
(***************************************************************************)
EXTENDS OrderProcess, TLAPS

USE FormAssumption, HostedAssumption, DurableAssumption, RetriesAssumption

\* Nothing has been placed, so nothing is under way.
LEMMA InitInv == Init => IInv
<1> SUFFICES ASSUME Init PROVE IInv
    OBVIOUS
<1>1. TypeOK
    BY DEF Init, TypeOK
<1>2. PlacedOnce /\ SingleToken /\ NoOrderVanishes /\ repeated = {}
    BY DEF Init, PlacedOnce, SingleToken, NoOrderVanishes, Tokens
<1>3. (\A m \in Tokens : TokenAgrees(m)) /\ (\A s \in sagas : SagaAgrees(s))
    BY DEF Init, Tokens
<1>4. {} \in Progress
    BY DEF Progress, Done, MessageType
<1>5. \A o \in Order : LogAgrees(o)
    BY <1>4 DEF Init, LogAgrees
<1>6. RepliesFindTheirSaga
    BY DEF Init, RepliesFindTheirSaga, Tokens
<1> QED
    BY <1>1, <1>2, <1>3, <1>5, <1>6 DEF IInv

\* A handler that replaces the one message of an order by at most one other
\* message of the same order keeps the messages unique, if the new message
\* agrees with the new state.
LEMMA TokenStep ==
  ASSUME SingleToken, \A t \in Tokens : TokenAgrees(t),
         TypeOK,
         NEW m \in Tokens, NEW N,
         \A n \in N : n.order = m.order,
         \A n1, n2 \in N : n1 = n2,
         Tokens' = (Tokens \ {m}) \cup N,
         queues' \cap errorQueue' = {},
         placed \subseteq placed',
         \A o \in Order : o # m.order => log'[o] = log[o],
         \A n \in N : TokenAgrees(n)'
  PROVE  SingleToken' /\ \A t \in Tokens' : TokenAgrees(t)'
<1>1. \A t \in Tokens \ {m} : t.order # m.order /\ t.order \in Order
    BY DEF SingleToken, TypeOK, Tokens, Message
<1>2. SingleToken'
    BY <1>1 DEF SingleToken
<1>3. ASSUME NEW t \in Tokens \ {m} PROVE TokenAgrees(t)'
    BY <1>1, <1>3 DEF TokenAgrees
<1> QED
    BY <1>2, <1>3

\* What is on record while a message of each type is under way.
LEMMA DoneValues ==
  /\ Done("ProcessOrder") = {}
  /\ Done("PlanOrder") = {"started"}
  /\ Done("OrderPlanned") = {"started", "planned"}
  /\ Done("DispatchOrder") = {"started", "planned"}
  /\ Done("OrderDispatched") = {"started", "planned", "dispatched"}
  /\ Done("OrderProcessed") = {"started", "planned", "dispatched", "told"}
  /\ Done("OrderProcessedEvent") = {"published"}
BY DEF Done

\* A message is in its queue or in the error queue, not in both.
LEMMA QueuesDisjoint == SingleToken => queues \cap errorQueue = {}
BY DEF SingleToken

\* What takes the place of a message in a queue is in no error queue.
LEMMA StillDisjoint ==
  ASSUME SingleToken, NEW m \in queues, NEW N, \A n \in N : n.order = m.order,
         queues' = (queues \ {m}) \cup N, errorQueue' = errorQueue
  PROVE  queues' \cap errorQueue' = {}
BY DEF SingleToken, Tokens

LEMMA OneStillDisjoint ==
  ASSUME SingleToken, NEW m \in queues, NEW n, n.order = m.order,
         queues' = (queues \ {m}) \cup {n}, errorQueue' = errorQueue
  PROVE  queues' \cap errorQueue' = {}
BY DEF SingleToken, Tokens

\* An order that a message carries has not been forgotten.
LEMMA NotForgotten ==
  ASSUME TypeOK, NEW m \in Tokens, TokenAgrees(m)
  PROVE  "forgotten" \notin log[m.order]
<1>1. m.type \in MessageType /\ log[m.order] = Done(m.type)
    BY DEF TypeOK, Tokens, Message, TokenAgrees
<1> QED
    BY <1>1, DoneValues DEF MessageType

\* A saga of another order is not disturbed when the message m is replaced.
LEMMA OtherSagas ==
  ASSUME NEW m \in Tokens, NEW s \in sagas, SagaAgrees(s), s.order # m.order,
         Tokens \ {m} \subseteq Tokens', placed \subseteq placed', TypeOK,
         \A o \in Order : o # m.order => log'[o] = log[o]
  PROVE  SagaAgrees(s)'
BY DEF SagaAgrees, TypeOK, SagaData

\* What every handler that ends in Commit preserves: it takes the message m,
\* sends at most one message on and puts one new step on record.
LEMMA CommitStep ==
  ASSUME IInv, NEW m \in queues, NEW N, NEW step \in Step,
         Commit(m, N, step), UNCHANGED <<placed, errorQueue>>,
         \A n \in N : n \in Message /\ n.order = m.order /\ n.retries = 0 /\ ~n.delayed,
         \A n1, n2 \in N : n1 = n2,
         \A n \in N : TokenAgrees(n)',
         step \notin log[m.order],
         log[m.order] \cup {step} \in Progress,
         N = {} => (log[m.order] \cup {step}) \cap Ending # {},
         emailed \subseteq emailed', emailed' \subseteq Order,
         step \in {"dispatched", "published"} => m.order \in emailed'
  PROVE  /\ Tokens' = (Tokens \ {m}) \cup N
         /\ queues' \subseteq Message
         /\ m.order \in Order
         /\ log' \in [Order -> SUBSET Step]
         /\ \A o \in Order : o # m.order => log'[o] = log[o]
         /\ log'[m.order] = log[m.order] \cup {step}
         /\ PlacedOnce'
         /\ SingleToken'
         /\ \A t \in Tokens' : TokenAgrees(t)'
         /\ \A o \in Order : LogAgrees(o)'
         /\ repeated' = {}
         /\ NoOrderVanishes'
<1> USE DEF IInv
<1>1. m \in Tokens /\ m \notin errorQueue /\ m \in Message /\ m.order \in Order
    BY QueuesDisjoint DEF TypeOK, Tokens, Message
<1>2. Tokens' = (Tokens \ {m}) \cup N
    BY <1>1 DEF Tokens, Commit
<1>3. queues' \subseteq Message
    BY DEF Commit, TypeOK
<1>4. /\ log' \in [Order -> SUBSET Step]
      /\ \A o \in Order : o # m.order => log'[o] = log[o]
      /\ log'[m.order] = log[m.order] \cup {step}
    BY <1>1 DEF Commit, TypeOK
<1>5. PlacedOnce'
    BY DEF PlacedOnce
<1>6. SingleToken' /\ \A t \in Tokens' : TokenAgrees(t)'
  <2>1. queues' \cap errorQueue' = {}
      BY StillDisjoint DEF Commit
  <2> QED
      BY <1>1, <1>2, <1>4, <2>1, TokenStep
<1>7. repeated' = {}
    BY DEF Commit
<1>8. TokenAgrees(m)
    BY <1>1
<1>9. \A o \in Order : LogAgrees(o)'
  <2> SUFFICES ASSUME NEW o \in Order PROVE LogAgrees(o)'
      OBVIOUS
  <2>1. CASE o # m.order
      BY <2>1, <1>4 DEF LogAgrees
  <2>2. CASE o = m.order
    <3>1. \E p \in placed : p.order = o
        BY <2>2, <1>8 DEF TokenAgrees
    <3> QED
        BY <2>2, <3>1, <1>4 DEF LogAgrees
  <2> QED
      BY <2>1, <2>2
<1>10. NoOrderVanishes'
  <2> SUFFICES ASSUME NEW p \in placed
               PROVE  \/ \E t \in Tokens' : t.order = p.order
                      \/ log'[p.order] \cap Ending # {}
      BY DEF NoOrderVanishes
  <2>1. CASE p.order = m.order
      BY <2>1, <1>2, <1>4
  <2>2. CASE p.order # m.order
    <3>1. p.order \in Order
        BY DEF TypeOK
    <3> QED
        BY <2>2, <3>1, <1>2, <1>4 DEF NoOrderVanishes
  <2> QED
      BY <2>1, <2>2
<1> QED
    BY <1>1, <1>2, <1>3, <1>4, <1>5, <1>6, <1>7, <1>9, <1>10

\* Sagas are keyed by their order: the placed order determines the saga data.
LEMMA SagaKey ==
  ASSUME PlacedOnce, TypeOK, \A s \in sagas : SagaAgrees(s),
         NEW s1 \in sagas, NEW s2 \in sagas, s1.order = s2.order
  PROVE  s1 = s2
<1>1. /\ [order |-> s1.order, via |-> s1.originator, form |-> s1.form] \in placed
      /\ [order |-> s2.order, via |-> s2.originator, form |-> s2.form] \in placed
    BY DEF SagaAgrees
<1>2. [order |-> s1.order, via |-> s1.originator, form |-> s1.form]
        = [order |-> s2.order, via |-> s2.originator, form |-> s2.form]
    BY <1>1 DEF PlacedOnce
<1>3. s1.originator = s2.originator /\ s1.form = s2.form
    BY <1>2
<1> QED
    BY <1>3 DEF TypeOK, SagaData

\* HomeController.Confirm and RestApiController.Post
LEMMA PlaceInv ==
  ASSUME IInv, NEW front \in {"UI", "Rest"}, NEW o \in Order, NEW f \in Form, Place(front, o, f)
  PROVE  IInv'
<1> DEFINE c == Command(front, "ProcessOrder", o, f)
           p0 == [order |-> o, via |-> front, form |-> f]
<1> USE DEF IInv
<1>1. /\ c \in Message /\ c.retries = 0 /\ ~c.delayed /\ c.order = o /\ c.type = "ProcessOrder"
      /\ c.from = front /\ c.to \in {"Saga", "Order"} /\ c.form = f
    BY DEF Command, Sent, Destination, Message, MessageType, Endpoint
<1>0. p0.order = o /\ p0.via = front /\ p0.form = f
    OBVIOUS
<1>2. /\ placed' = placed \cup {p0} /\ queues' = queues \cup {c}
      /\ UNCHANGED <<errorQueue, sagas, subscribing, subscribed, emailed, log, repeated>>
      /\ \A p \in placed : p.order # o
    BY DEF Place, NewGuid
<1>a. p0 \in [order : Order, via : {"UI", "Rest"}, form : Form]
    OBVIOUS
<1> HIDE DEF c, p0
<1>3. Tokens' = Tokens \cup {c}
    BY <1>2 DEF Tokens
<1>4. TypeOK'
    BY <1>1, <1>2, <1>a DEF TypeOK
<1>5. PlacedOnce'
    BY <1>0, <1>2 DEF PlacedOnce
<1>6. \A m \in Tokens : m.order # o
    BY <1>2 DEF TokenAgrees
<1>7. SingleToken'
  <2>1. queues' \cap errorQueue' = {}
      BY <1>1, <1>2, <1>6 DEF SingleToken, Tokens
  <2> QED
      BY <1>1, <1>3, <1>6, <2>1 DEF SingleToken
<1>8. log[o] = {}
    BY <1>2 DEF LogAgrees
<1>9. \A m \in Tokens' : TokenAgrees(m)'
  <2>1. TokenAgrees(c)'
    <3>1. p0 \in placed' /\ log' = log
        BY <1>2
    <3> QED
        BY <1>0, <1>1, <1>8, <3>1, DoneValues DEF TokenAgrees
  <2>2. \A m \in Tokens : TokenAgrees(m)'
      BY <1>2 DEF TokenAgrees
  <2> QED
      BY <2>1, <2>2, <1>3
<1>10. \A s \in sagas' : SagaAgrees(s)'
    BY <1>2, <1>3 DEF SagaAgrees
<1>11. RepliesFindTheirSaga'
    BY <1>1, <1>2, <1>3 DEF RepliesFindTheirSaga, SagaOf, SagaWork
<1>12. \A q \in Order : LogAgrees(q)'
    BY <1>2 DEF LogAgrees
<1>13. NoOrderVanishes'
    BY <1>0, <1>1, <1>2, <1>3 DEF NoOrderVanishes
<1> QED
    BY <1>2, <1>4, <1>5, <1>7, <1>9, <1>10, <1>11, <1>12, <1>13

\* ProcessOrderSaga.Handle(ProcessOrderCommand)
LEMMA SagaHandlesProcessOrderInv ==
  ASSUME IInv, NEW m \in queues, SagaHandlesProcessOrder(m)
  PROVE  IInv'
<1> DEFINE c == Command("Saga", "PlanOrder", m.order, m.form)
           s0 == [order |-> m.order, originator |-> m.from, form |-> m.form]
<1> USE DEF IInv
<1>1. /\ m \in Tokens /\ m \in Message /\ m.order \in Order /\ m.from \in Endpoint
      /\ m.type = "ProcessOrder" /\ TokenAgrees(m)
    BY DEF Tokens, TypeOK, Message, SagaHandlesProcessOrder, Receives
<1>2. m.form \in Form /\ log[m.order] = {}
    BY <1>1, DoneValues DEF TokenAgrees, Message
<1>3. SagaOf(m) = {}
    BY <1>1, <1>2 DEF SagaOf, SagaAgrees, SagaWork, SingleToken
<1>4. /\ Commit(m, {c}, "started") /\ sagas' = sagas \cup {s0}
      /\ UNCHANGED <<placed, errorQueue, subscribing, subscribed, emailed>>
    BY <1>3 DEF SagaHandlesProcessOrder
<1>5. /\ c \in Message /\ c.retries = 0 /\ ~c.delayed /\ c.order = m.order /\ c.type = "PlanOrder"
      /\ c.from = "Saga" /\ c.to = "Planner" /\ c.form = m.form
    BY <1>1, <1>2 DEF Command, Sent, Destination, Message, MessageType, Endpoint
<1>0. s0.order = m.order /\ s0 \in SagaData
    BY <1>1, <1>2 DEF SagaData
<1> HIDE DEF c
<1>6. log'[m.order] = {"started"}
    BY <1>1, <1>2, <1>4 DEF Commit, TypeOK
<1>7. TokenAgrees(c)'
    BY <1>1, <1>2, <1>4, <1>5, <1>6, DoneValues DEF TokenAgrees
<1>8. {"started"} \in Progress
    BY DoneValues DEF Progress, MessageType
<1>9. emailed \subseteq Order /\ emailed' = emailed
    BY <1>4 DEF TypeOK
<1>10. /\ Tokens' = (Tokens \ {m}) \cup {c}
       /\ queues' \subseteq Message
       /\ log' \in [Order -> SUBSET Step]
       /\ \A o \in Order : o # m.order => log'[o] = log[o]
       /\ PlacedOnce' /\ SingleToken' /\ repeated' = {} /\ NoOrderVanishes'
       /\ \A t \in Tokens' : TokenAgrees(t)'
       /\ \A o \in Order : LogAgrees(o)'
  <2> DEFINE N == {c}
  <2>1. /\ Commit(m, N, "started") /\ UNCHANGED <<placed, errorQueue>>
        /\ \A n \in N : n \in Message /\ n.order = m.order /\ n.retries = 0 /\ ~n.delayed
        /\ \A n1, n2 \in N : n1 = n2
        /\ \A n \in N : TokenAgrees(n)'
        /\ N # {}
      BY <1>4, <1>5, <1>7
  <2>2. /\ "started" \in Step /\ "started" \notin log[m.order]
        /\ log[m.order] \cup {"started"} \in Progress
        /\ emailed \subseteq emailed' /\ emailed' \subseteq Order
      BY <1>2, <1>8, <1>9 DEF Step
  <2> HIDE DEF N
  <2> QED
      BY <2>1, <2>2, CommitStep DEF N
<1>11. TypeOK'
    BY <1>1, <1>2, <1>4, <1>9, <1>10 DEF TypeOK, SagaData
<1>12. \A s \in sagas' : SagaAgrees(s)'
  <2>1. SagaAgrees(s0)'
      BY <1>1, <1>2, <1>4, <1>5, <1>10 DEF SagaAgrees, SagaWork, TokenAgrees, TypeOK
  <2>2. ASSUME NEW s \in sagas PROVE SagaAgrees(s)'
    <3>1. s.order # m.order
        BY <1>3 DEF SagaOf
    <3> QED
        BY <3>1, <1>1, <1>4, <1>10, OtherSagas
  <2> QED
      BY <2>1, <2>2, <1>4
<1>13. RepliesFindTheirSaga'
  <2> SUFFICES ASSUME "Saga" \in Durable PROVE RepliesFindTheirSaga'
      BY DEF RepliesFindTheirSaga
  <2>1. ASSUME NEW t \in Tokens', t.type \in SagaWork PROVE SagaOf(t)' # {}
    <3>1. CASE t = c
        BY <3>1, <1>0, <1>4, <1>5 DEF SagaOf
    <3>2. CASE t \in Tokens
        BY <2>1, <3>2, <1>4 DEF RepliesFindTheirSaga, SagaOf
    <3> QED
        BY <3>1, <3>2, <1>10
  <2>2. \A o \in Order : "dropped" \notin log'[o]
      BY <1>6, <1>10 DEF RepliesFindTheirSaga
  <2> QED
      BY <2>1, <2>2 DEF RepliesFindTheirSaga
<1> QED
    BY <1>10, <1>11, <1>12, <1>13

\* A saga of the order of m exists only while m is a message a saga waits behind.
LEMMA SagaWaitsForToken ==
  ASSUME IInv, NEW m \in Tokens, NEW s \in sagas, s.order = m.order
  PROVE  m.type \in SagaWork
<1>1. "forgotten" \notin log[m.order]
    BY NotForgotten DEF IInv
<1> QED
    BY <1>1 DEF IInv, SagaAgrees, SingleToken

\* A service answers a command of the saga: the sagas stay as they are.
LEMMA ServiceReplies ==
  ASSUME IInv, NEW m \in queues, NEW type \in {"OrderPlanned", "OrderDispatched"},
         NEW step \in {"planned", "dispatched"},
         m.type \in {"PlanOrder", "DispatchOrder"}, m.to \in {"Planner", "Order"},
         Done(type) = Done(m.type) \cup {step}, step \notin Done(m.type),
         Commit(m, {Reply(m, type)}, step),
         emailed \subseteq emailed', emailed' \subseteq Order,
         step = "dispatched" => m.order \in emailed',
         UNCHANGED <<placed, errorQueue, sagas, subscribing, subscribed>>
  PROVE  IInv'
<1> DEFINE r == Reply(m, type)
           N == {r}
<1> USE DEF IInv
<1>1. m \in Tokens /\ m \in Message /\ m.order \in Order /\ TokenAgrees(m)
    BY DEF Tokens, TypeOK, Message
<1>2. /\ r \in Message /\ r.retries = 0 /\ ~r.delayed /\ r.order = m.order /\ r.type = type
      /\ r.to = "Saga" /\ r.form = NoForm
    BY <1>1 DEF Reply, Sent, Message, MessageType, Endpoint, TokenAgrees
<1> HIDE DEF r
<1>3. log[m.order] = Done(m.type) /\ log'[m.order] = Done(type)
    BY <1>1 DEF Commit, TypeOK, TokenAgrees
<1>4. TokenAgrees(r)'
    BY <1>1, <1>2, <1>3 DEF TokenAgrees
<1>5. Done(type) \in Progress
    BY DEF Progress, MessageType
<1>6. /\ Commit(m, N, step)
      /\ \A n \in N : n \in Message /\ n.order = m.order /\ n.retries = 0 /\ ~n.delayed
      /\ \A n1, n2 \in N : n1 = n2
      /\ \A n \in N : TokenAgrees(n)'
      /\ N # {}
    BY <1>2, <1>4 DEF r
<1>7. /\ step \in Step /\ step \notin log[m.order]
      /\ log[m.order] \cup {step} \in Progress
      /\ step \in {"dispatched", "published"} => m.order \in emailed'
    BY <1>3, <1>5 DEF Step
<1> HIDE DEF N
<1>8. /\ Tokens' = (Tokens \ {m}) \cup {r}
      /\ queues' \subseteq Message
      /\ log' \in [Order -> SUBSET Step]
      /\ \A o \in Order : o # m.order => log'[o] = log[o]
      /\ PlacedOnce' /\ SingleToken' /\ repeated' = {} /\ NoOrderVanishes'
      /\ \A t \in Tokens' : TokenAgrees(t)'
      /\ \A o \in Order : LogAgrees(o)'
    BY <1>6, <1>7, CommitStep DEF N
<1>9. TypeOK'
    BY <1>8 DEF TypeOK
<1>10. \A s \in sagas' : SagaAgrees(s)'
  <2> SUFFICES ASSUME NEW s \in sagas PROVE SagaAgrees(s)'
      OBVIOUS
  <2>1. CASE s.order = m.order
      BY <2>1, <1>2, <1>8 DEF SagaAgrees, SagaWork
  <2>2. CASE s.order # m.order
      BY <2>2, <1>1, <1>8, OtherSagas
  <2> QED
      BY <2>1, <2>2
<1>11. RepliesFindTheirSaga'
  <2> SUFFICES ASSUME "Saga" \in Durable PROVE RepliesFindTheirSaga'
      BY DEF RepliesFindTheirSaga
  <2>1. ASSUME NEW t \in Tokens', t.type \in SagaWork PROVE SagaOf(t)' # {}
    <3>1. CASE t = r
        BY <3>1, <1>1, <1>2 DEF RepliesFindTheirSaga, SagaOf, SagaWork
    <3>2. CASE t \in Tokens
        BY <2>1, <3>2 DEF RepliesFindTheirSaga, SagaOf
    <3> QED
        BY <3>1, <3>2, <1>8
  <2>2. \A o \in Order : "dropped" \notin log'[o]
      BY <1>3, <1>8 DEF RepliesFindTheirSaga, Commit, TypeOK
  <2> QED
      BY <2>1, <2>2 DEF RepliesFindTheirSaga
<1> QED
    BY <1>8, <1>9, <1>10, <1>11

\* PlanOrderHandler.Handle
LEMMA PlannerHandlesPlanOrderInv ==
  ASSUME IInv, NEW m \in queues, PlannerHandlesPlanOrder(m)
  PROVE  IInv'
<1>1. m.type = "PlanOrder" /\ m.to = "Planner" /\ Commit(m, {Reply(m, "OrderPlanned")}, "planned")
    BY DEF PlannerHandlesPlanOrder, Receives
<1>2. Done("OrderPlanned") = Done(m.type) \cup {"planned"} /\ "planned" \notin Done(m.type)
    BY <1>1, DoneValues
<1>3. emailed' = emailed /\ emailed \subseteq Order
    BY DEF PlannerHandlesPlanOrder, IInv, TypeOK
<1>4. UNCHANGED <<placed, errorQueue, sagas, subscribing, subscribed>>
    BY DEF PlannerHandlesPlanOrder
<1> QED
    BY <1>1, <1>2, <1>3, <1>4, ServiceReplies

\* DispatchOrderHandler.Handle
LEMMA OrderHandlesDispatchOrderInv ==
  ASSUME IInv, NEW m \in queues, OrderHandlesDispatchOrder(m)
  PROVE  IInv'
<1>1. m.type = "DispatchOrder" /\ m.to = "Order" /\ Commit(m, {Reply(m, "OrderDispatched")}, "dispatched")
    BY DEF OrderHandlesDispatchOrder, Receives
<1>2. Done("OrderDispatched") = Done(m.type) \cup {"dispatched"} /\ "dispatched" \notin Done(m.type)
    BY <1>1, DoneValues
<1>3. emailed' = emailed \cup {m.order} /\ emailed \subseteq Order /\ m.order \in Order
    BY DEF OrderHandlesDispatchOrder, SendEmailToDispatch, IInv, TypeOK, Message
<1>4. UNCHANGED <<placed, errorQueue, sagas, subscribing, subscribed>>
    BY DEF OrderHandlesDispatchOrder
<1> QED
    BY <1>1, <1>2, <1>3, <1>4, ServiceReplies

\* A handler after which the order has no saga and no reply to come.
LEMMA EndingStep ==
  ASSUME IInv, NEW m \in queues, NEW N, NEW step \in Step,
         Commit(m, N, step), UNCHANGED <<placed, errorQueue, subscribing, subscribed>>,
         \A n \in N : n \in Message /\ n.order = m.order /\ n.retries = 0 /\ ~n.delayed,
         \A n1, n2 \in N : n1 = n2,
         \A n \in N : TokenAgrees(n)' /\ n.type \notin SagaWork,
         step \notin log[m.order],
         log[m.order] \cup {step} \in Progress,
         N = {} => (log[m.order] \cup {step}) \cap Ending # {},
         emailed \subseteq emailed', emailed' \subseteq Order,
         step \in {"dispatched", "published"} => m.order \in emailed',
         sagas' = {s \in sagas : s.order # m.order},
         step = "dropped" => "Saga" \notin Durable
  PROVE  IInv'
<1> USE DEF IInv
<1>1. /\ Tokens' = (Tokens \ {m}) \cup N
      /\ queues' \subseteq Message
      /\ m.order \in Order
      /\ log' \in [Order -> SUBSET Step]
      /\ \A o \in Order : o # m.order => log'[o] = log[o]
      /\ log'[m.order] = log[m.order] \cup {step}
      /\ PlacedOnce' /\ SingleToken' /\ repeated' = {} /\ NoOrderVanishes'
      /\ \A t \in Tokens' : TokenAgrees(t)'
      /\ \A o \in Order : LogAgrees(o)'
    BY CommitStep
<1>2. m \in Tokens
    BY DEF Tokens
<1>3. TypeOK'
    BY <1>1 DEF TypeOK
<1>4. \A s \in sagas' : SagaAgrees(s)'
    BY <1>1, <1>2, OtherSagas
<1>5. RepliesFindTheirSaga'
  <2> SUFFICES ASSUME "Saga" \in Durable PROVE RepliesFindTheirSaga'
      BY DEF RepliesFindTheirSaga
  <2>1. ASSUME NEW t \in Tokens', t.type \in SagaWork PROVE SagaOf(t)' # {}
    <3>1. t \in Tokens \ {m} /\ t.order # m.order
        BY <2>1, <1>1, <1>2 DEF SingleToken
    <3> QED
        BY <2>1, <3>1 DEF RepliesFindTheirSaga, SagaOf
  <2>2. \A o \in Order : "dropped" \notin log'[o]
      BY <1>1 DEF RepliesFindTheirSaga
  <2> QED
      BY <2>1, <2>2 DEF RepliesFindTheirSaga
<1> QED
    BY <1>1, <1>3, <1>4, <1>5

\* ProcessOrderSaga.Handle(IOrderDispatchedMessage)
LEMMA SagaHandlesOrderDispatchedInv ==
  ASSUME IInv, NEW m \in queues, SagaHandlesOrderDispatched(m)
  PROVE  IInv'
<1> USE DEF IInv
<1>1. PICK s \in SagaOf(m) : /\ Commit(m, {OrderProcessedMessage(m, s)}, "told")
                             /\ MarkAsComplete(s)
    BY DEF SagaHandlesOrderDispatched
<1>2. /\ m \in Tokens /\ m.order \in Order /\ m.type = "OrderDispatched" /\ TokenAgrees(m)
      /\ s \in sagas /\ s.order = m.order /\ s \in SagaData /\ SagaAgrees(s)
    BY DEF Tokens, TypeOK, Message, SagaHandlesOrderDispatched, Receives, SagaOf
<1> DEFINE n0 == OrderProcessedMessage(m, s)
           N == {n0}
           step == "told"
<1>3. /\ n0 \in Message /\ n0.order = m.order /\ n0.retries = 0 /\ ~n0.delayed /\ n0.type = "OrderProcessed"
      /\ n0.form = s.form /\ n0.to = s.originator /\ n0.form \in Form
    BY <1>2 DEF OrderProcessedMessage, Sent, Message, MessageType, Endpoint, SagaData
<1> HIDE DEF n0
<1>4. /\ log[m.order] = {"started", "planned", "dispatched"}
      /\ log'[m.order] = {"started", "planned", "dispatched", "told"}
    BY <1>1, <1>2, DoneValues DEF Commit, TypeOK, TokenAgrees
<1>5. UNCHANGED <<placed, errorQueue, subscribing, subscribed, emailed>>
    BY DEF SagaHandlesOrderDispatched
<1>6. TokenAgrees(n0)'
  <2>1. PICK p \in placed : p.order = s.order /\ p.form = s.form /\ p.via = s.originator
      BY <1>2 DEF SagaAgrees
  <2> QED
      BY <1>2, <1>3, <1>4, <1>5, <2>1, DoneValues DEF TokenAgrees
<1>7. /\ Commit(m, N, step)
      /\ \A n \in N : n \in Message /\ n.order = m.order /\ n.retries = 0 /\ ~n.delayed
      /\ \A n1, n2 \in N : n1 = n2
      /\ \A n \in N : TokenAgrees(n)' /\ n.type \notin SagaWork
      /\ N # {}
    BY <1>1, <1>3, <1>6 DEF SagaWork, n0
<1>8. /\ step \in Step /\ step \notin log[m.order]
      /\ log[m.order] \cup {step} \in Progress
      /\ step \notin {"dispatched", "published", "dropped"}
    BY <1>4, DoneValues DEF Step, Progress, MessageType
<1>9. emailed \subseteq emailed' /\ emailed' \subseteq Order
    BY <1>5 DEF TypeOK
<1>10. sagas' = {q \in sagas : q.order # m.order}
    BY <1>1, <1>2, SagaKey DEF MarkAsComplete
<1> HIDE DEF N, step
<1> QED
    BY <1>5, <1>7, <1>8, <1>9, <1>10, EndingStep

\* A reply that finds no saga
LEMMA SagaNotFoundInv ==
  ASSUME IInv, NEW m \in queues, SagaNotFound(m)
  PROVE  IInv'
<1> USE DEF IInv
<1> DEFINE N == {}
           step == "dropped"
<1>1. /\ m \in Tokens /\ m.order \in Order /\ TokenAgrees(m) /\ SagaOf(m) = {}
      /\ m.type \in {"OrderPlanned", "OrderDispatched"} /\ Commit(m, N, step)
      /\ UNCHANGED <<placed, errorQueue, sagas, subscribing, subscribed, emailed>>
    BY DEF Tokens, TypeOK, Message, SagaNotFound
<1>2. log[m.order] = Done(m.type) /\ step \notin log[m.order]
    BY <1>1, DoneValues DEF TokenAgrees
<1>3. log[m.order] \cup {step} \in Progress /\ step \in Step
    BY <1>1, <1>2 DEF Progress, Step
<1>4. emailed \subseteq emailed' /\ emailed' \subseteq Order
    BY <1>1 DEF TypeOK
<1>5. sagas' = {q \in sagas : q.order # m.order}
    BY <1>1 DEF SagaOf
<1>6. "Saga" \notin Durable
    BY <1>1 DEF RepliesFindTheirSaga, SagaWork
<1>7. (log[m.order] \cup {step}) \cap Ending # {}
    BY DEF Ending
<1>8. step \notin {"dispatched", "published"}
    OBVIOUS
<1>9. /\ \A n \in N : n \in Message /\ n.order = m.order /\ n.retries = 0 /\ ~n.delayed
      /\ \A n1, n2 \in N : n1 = n2
      /\ \A n \in N : TokenAgrees(n)' /\ n.type \notin SagaWork
    OBVIOUS
<1> HIDE DEF N, step
<1> QED
    BY <1>1, <1>2, <1>3, <1>4, <1>5, <1>6, <1>7, <1>8, <1>9, EndingStep

\* ProcessOrderHandler.Handle
LEMMA OrderHandlesProcessOrderInv ==
  ASSUME IInv, NEW m \in queues, OrderHandlesProcessOrder(m)
  PROVE  IInv'
<1> USE DEF IInv
<1> DEFINE Event(e) == Sent("OrderProcessedEvent", "Order", e, m.order, m.form)
           N == {Event(e) : e \in IF subscribed THEN {"OrderActivity"} ELSE {}}
           step == "published"
<1>1. /\ m \in Tokens /\ m \in Message /\ m.order \in Order /\ TokenAgrees(m)
      /\ m.type = "ProcessOrder" /\ Commit(m, N, step)
      /\ emailed' = emailed \cup {m.order}
      /\ UNCHANGED <<placed, errorQueue, sagas, subscribing, subscribed>>
    BY DEF Tokens, TypeOK, Message, OrderHandlesProcessOrder, Receives, SendEmailToDispatch
<1>2. m.form \in Form /\ log[m.order] = {} /\ log'[m.order] = {"published"}
    BY <1>1, DoneValues DEF TokenAgrees, Message, Commit, TypeOK
<1>3. \A n \in N : n = Event("OrderActivity")
    OBVIOUS
<1>4. /\ Event("OrderActivity") \in Message /\ Event("OrderActivity").order = m.order
      /\ Event("OrderActivity").retries = 0
      /\ ~Event("OrderActivity").delayed /\ Event("OrderActivity").form = m.form
      /\ Event("OrderActivity").type = "OrderProcessedEvent"
      /\ Event("OrderActivity").to = "OrderActivity"
    BY <1>1, <1>2 DEF Sent, Message, MessageType, Endpoint
<1> HIDE DEF Event
<1>5. TokenAgrees(Event("OrderActivity"))'
    BY <1>1, <1>2, <1>4, DoneValues DEF TokenAgrees
<1>6. /\ \A n \in N : n \in Message /\ n.order = m.order /\ n.retries = 0 /\ ~n.delayed
      /\ \A n1, n2 \in N : n1 = n2
      /\ \A n \in N : TokenAgrees(n)' /\ n.type \notin SagaWork
    BY <1>3, <1>4, <1>5 DEF SagaWork
<1>7. /\ step \in Step /\ step \notin log[m.order]
      /\ log[m.order] \cup {step} \in Progress
      /\ (log[m.order] \cup {step}) \cap Ending # {}
      /\ step # "dropped"
    BY <1>2, DoneValues DEF Step, Progress, MessageType, Ending
<1>8. emailed \subseteq emailed' /\ emailed' \subseteq Order /\ m.order \in emailed'
    BY <1>1 DEF TypeOK
<1>9. sagas' = {q \in sagas : q.order # m.order}
    BY <1>1, SagaWaitsForToken DEF SagaWork
<1> HIDE DEF N, step
<1> QED
    BY <1>1, <1>6, <1>7, <1>8, <1>9, EndingStep

\* OrderActivityHandler.Handle
LEMMA ActivityHandlesEventInv ==
  ASSUME IInv, NEW m \in queues, ActivityHandlesEvent(m)
  PROVE  IInv'
<1> USE DEF IInv
<1> DEFINE N == {}
           step == "audited"
<1>1. /\ m \in Tokens /\ m.order \in Order /\ TokenAgrees(m)
      /\ m.type = "OrderProcessedEvent" /\ Commit(m, N, step)
      /\ UNCHANGED <<placed, errorQueue, sagas, subscribing, subscribed, emailed>>
    BY DEF Tokens, TypeOK, Message, ActivityHandlesEvent, Receives
<1>2. log[m.order] = {"published"} /\ step \notin log[m.order]
    BY <1>1, DoneValues DEF TokenAgrees
<1>3. log[m.order] \cup {step} \in Progress /\ step \in Step
  <2>1. log[m.order] \cup {step} = {"published", "audited"}
      BY <1>2
  <2> QED
      BY <2>1 DEF Progress, Step
<1>4. emailed \subseteq emailed' /\ emailed' \subseteq Order
    BY <1>1 DEF TypeOK
<1>5. sagas' = {q \in sagas : q.order # m.order}
    BY <1>1, SagaWaitsForToken DEF SagaWork
<1>6. (log[m.order] \cup {step}) \cap Ending # {}
    BY <1>2 DEF Ending
<1>7. step \notin {"dispatched", "published", "dropped"}
    OBVIOUS
<1>8. /\ \A n \in N : n \in Message /\ n.order = m.order /\ n.retries = 0 /\ ~n.delayed
      /\ \A n1, n2 \in N : n1 = n2
      /\ \A n \in N : TokenAgrees(n)' /\ n.type \notin SagaWork
    OBVIOUS
<1> HIDE DEF N, step
<1> QED
    BY <1>1, <1>2, <1>3, <1>4, <1>5, <1>6, <1>7, <1>8, EndingStep

\* A message is replaced by another of the same order that stands for the same
\* progress: by the saga's next command, by the message with one more retry, or by
\* the message moved between its queue and the error queue.
LEMMA ReplacingStep ==
  ASSUME IInv, NEW m \in Tokens, NEW n,
         n.order = m.order, Done(n.type) = Done(m.type),
         n.type \in SagaWork <=> m.type \in SagaWork,
         TokenAgrees(n),
         queues' \subseteq Message,
         errorQueue' \subseteq {t \in Message : t.retries = MaxRetries /\ ~t.delayed},
         Tokens' = (Tokens \ {m}) \cup {n},
         queues' \cap errorQueue' = {},
         emailed \subseteq emailed', emailed' \subseteq Order,
         UNCHANGED <<placed, sagas, subscribing, subscribed, log, repeated>>
  PROVE  IInv'
<1> USE DEF IInv
<1>1. TypeOK' /\ PlacedOnce' /\ repeated' = {}
    BY DEF TypeOK, PlacedOnce
<1>2. TokenAgrees(n)'
    BY DEF TokenAgrees
<1>3. SingleToken' /\ \A t \in Tokens' : TokenAgrees(t)'
  <2> DEFINE N == {n}
  <2>1. /\ \A k \in N : k.order = m.order /\ TokenAgrees(k)'
        /\ \A k1, k2 \in N : k1 = k2
        /\ Tokens' = (Tokens \ {m}) \cup N
        /\ \A o \in Order : o # m.order => log'[o] = log[o]
      BY <1>2
  <2> HIDE DEF N
  <2> QED
      BY <2>1, TokenStep
<1>4. \A s \in sagas' : SagaAgrees(s)'
  <2> SUFFICES ASSUME NEW s \in sagas PROVE SagaAgrees(s)'
      OBVIOUS
  <2>1. CASE s.order = m.order
      BY <2>1, SagaWaitsForToken DEF SagaAgrees
  <2>2. CASE s.order # m.order
      BY <2>2, OtherSagas
  <2> QED
      BY <2>1, <2>2
<1>5. RepliesFindTheirSaga'
    BY DEF RepliesFindTheirSaga, SagaOf
<1>6. \A o \in Order : LogAgrees(o)'
    BY DEF LogAgrees
<1>7. NoOrderVanishes'
    BY DEF NoOrderVanishes
<1> QED
    BY <1>1, <1>3, <1>4, <1>5, <1>6, <1>7

\* ProcessOrderSaga.Handle(IOrderPlannedMessage)
LEMMA SagaHandlesOrderPlannedInv ==
  ASSUME IInv, NEW m \in queues, SagaHandlesOrderPlanned(m)
  PROVE  IInv'
<1> USE DEF IInv
<1>1. PICK s \in SagaOf(m) :
         queues' = (queues \ {m}) \cup {Command("Saga", "DispatchOrder", s.order, s.form)}
    BY DEF SagaHandlesOrderPlanned
<1> DEFINE n == Command("Saga", "DispatchOrder", s.order, s.form)
<1>2. /\ m \in Tokens /\ m \notin errorQueue /\ m.order \in Order /\ m.type = "OrderPlanned"
      /\ TokenAgrees(m) /\ s \in sagas /\ s.order = m.order /\ s \in SagaData /\ SagaAgrees(s)
    BY QueuesDisjoint DEF Tokens, TypeOK, Message, SagaHandlesOrderPlanned, Receives, SagaOf
<1>3. /\ n \in Message /\ n.retries = 0 /\ ~n.delayed /\ n.order = m.order /\ n.type = "DispatchOrder"
      /\ n.from = "Saga" /\ n.to = "Order" /\ n.form = s.form /\ n.form \in Form
    BY <1>2 DEF Command, Sent, Destination, Message, MessageType, Endpoint, SagaData
<1>4. UNCHANGED <<placed, errorQueue, sagas, subscribing, subscribed, emailed, log, repeated>>
    BY DEF SagaHandlesOrderPlanned
<1> HIDE DEF n
<1>5. TokenAgrees(n)
  <2>1. PICK p \in placed : p.order = s.order /\ p.form = s.form /\ p.via = s.originator
      BY <1>2 DEF SagaAgrees
  <2>2. log[m.order] = Done(m.type)
      BY <1>2 DEF TokenAgrees
  <2>3. Done("OrderPlanned") = Done("DispatchOrder")
      BY DoneValues
  <2>4. log[n.order] = Done(n.type)
      BY <1>2, <1>3, <2>2, <2>3
  <2> QED
      BY <1>2, <1>3, <2>1, <2>4 DEF TokenAgrees
<1>6. queues' = (queues \ {m}) \cup {n}
    BY <1>1 DEF n
<1>7. Tokens' = (Tokens \ {m}) \cup {n}
    BY <1>2, <1>4, <1>6 DEF Tokens
<1>8. /\ queues' \subseteq Message
      /\ errorQueue' \subseteq {t \in Message : t.retries = MaxRetries /\ ~t.delayed}
      /\ emailed \subseteq emailed' /\ emailed' \subseteq Order
      /\ queues' \cap errorQueue' = {}
    BY <1>2, <1>3, <1>4, <1>6, OneStillDisjoint DEF TypeOK
<1>9. Done(n.type) = Done(m.type) /\ n.type \in SagaWork /\ m.type \in SagaWork
    BY <1>2, <1>3, DoneValues DEF SagaWork
<1> QED
    BY <1>2, <1>3, <1>4, <1>5, <1>7, <1>8, <1>9, ReplacingStep

\* E-mails are only ever sent for orders there are.
LEMMA EmailMayHaveGoneType ==
  ASSUME TypeOK, NEW M, M \subseteq queues, EmailMayHaveGone(M)
  PROVE  emailed \subseteq emailed' /\ emailed' \subseteq Order
BY DEF EmailMayHaveGone, TypeOK, Message

\* The retries made and the delay are not part of what a message says of its order.
LEMMA RetriesDoNotMatter ==
  ASSUME NEW m, NEW n, TokenAgrees(m), n.order = m.order, n.type = m.type,
         n.form = m.form, n.from = m.from, n.to = m.to
  PROVE  TokenAgrees(n)
BY DEF TokenAgrees

\* An attempt that fails
LEMMA HandlingFailsInv ==
  ASSUME IInv, NEW m \in queues, HandlingFails(m)
  PROVE  IInv'
<1> USE DEF IInv
<1> DEFINE later == [m EXCEPT !.retries = m.retries + 1, !.delayed = TRUE]
<1>1. /\ m \in Tokens /\ m \notin errorQueue /\ m \in Message /\ TokenAgrees(m)
      /\ m.delayed = FALSE
    BY QueuesDisjoint DEF Tokens, TypeOK, HandlingFails, Message
<1>2. emailed \subseteq emailed' /\ emailed' \subseteq Order
    BY EmailMayHaveGoneType DEF HandlingFails
<1>3. UNCHANGED <<placed, sagas, subscribing, subscribed, log, repeated>>
    BY DEF HandlingFails
<1>4. CASE UNCHANGED <<queues, errorQueue>>
  <2>1. /\ Tokens' = (Tokens \ {m}) \cup {m} /\ queues' \cap errorQueue' = {}
        /\ queues' \subseteq Message
        /\ errorQueue' \subseteq {t \in Message : t.retries = MaxRetries /\ ~t.delayed}
      BY <1>1, <1>4, QueuesDisjoint DEF Tokens, TypeOK
  <2> QED
      BY <1>1, <1>2, <1>3, <2>1, ReplacingStep
<1>5. CASE /\ m.retries < MaxRetries
           /\ queues' = (queues \ {m}) \cup {later}
           /\ UNCHANGED errorQueue
  <2>1. /\ later \in Message /\ later.order = m.order /\ later.type = m.type
        /\ later.form = m.form /\ later.from = m.from /\ later.to = m.to
    <3>1. m.retries + 1 \in 0..MaxRetries
        BY <1>1, <1>5 DEF Message
    <3> QED
        BY <1>1, <3>1 DEF Message
  <2> HIDE DEF later
  <2>2. TokenAgrees(later)
      BY <1>1, <2>1, RetriesDoNotMatter
  <2>3. /\ Tokens' = (Tokens \ {m}) \cup {later} /\ queues' \cap errorQueue' = {}
        /\ queues' \subseteq Message
        /\ errorQueue' \subseteq {t \in Message : t.retries = MaxRetries /\ ~t.delayed}
      BY <1>1, <1>5, <2>1, OneStillDisjoint DEF Tokens, TypeOK
  <2> QED
      BY <1>1, <1>2, <1>3, <2>1, <2>2, <2>3, ReplacingStep
<1>6. CASE /\ m.retries = MaxRetries
           /\ queues' = queues \ {m}
           /\ errorQueue' = errorQueue \cup {m}
  <2>1. /\ Tokens' = (Tokens \ {m}) \cup {m} /\ queues' \cap errorQueue' = {}
        /\ queues' \subseteq Message
        /\ errorQueue' \subseteq {t \in Message : t.retries = MaxRetries /\ ~t.delayed}
      BY <1>1, <1>6, QueuesDisjoint DEF Tokens, TypeOK
  <2> QED
      BY <1>1, <1>2, <1>3, <2>1, ReplacingStep
<1> QED
    BY <1>4, <1>5, <1>6 DEF HandlingFails

\* A delayed retry that is due
LEMMA RetryDueInv ==
  ASSUME IInv, NEW m \in queues, RetryDue(m)
  PROVE  IInv'
<1> USE DEF IInv
<1> DEFINE n == [m EXCEPT !.delayed = FALSE]
<1>1. /\ m \in Tokens /\ m \notin errorQueue /\ m \in Message /\ TokenAgrees(m)
    BY QueuesDisjoint DEF Tokens, TypeOK, Message
<1>2. /\ n \in Message /\ n.order = m.order /\ n.type = m.type
      /\ n.form = m.form /\ n.from = m.from /\ n.to = m.to
    BY <1>1 DEF Message
<1>3. TokenAgrees(n)
  <2> HIDE DEF n
  <2> QED
      BY <1>1, <1>2, RetriesDoNotMatter
<1>4. /\ queues' = (queues \ {m}) \cup {n}
      /\ UNCHANGED <<placed, errorQueue, sagas, subscribing, subscribed, emailed, log, repeated>>
    BY DEF RetryDue
<1> HIDE DEF n
<1>5. Tokens' = (Tokens \ {m}) \cup {n}
    BY <1>1, <1>4 DEF Tokens
<1>6. /\ queues' \subseteq Message
      /\ errorQueue' \subseteq {t \in Message : t.retries = MaxRetries /\ ~t.delayed}
      /\ emailed \subseteq emailed' /\ emailed' \subseteq Order
      /\ queues' \cap errorQueue' = {}
    BY <1>1, <1>2, <1>4, OneStillDisjoint DEF TypeOK
<1> QED
    BY <1>1, <1>2, <1>3, <1>4, <1>5, <1>6, ReplacingStep

\* A message moved back from the error queue
LEMMA ReturnToSourceQueueInv ==
  ASSUME IInv, NEW m \in errorQueue, ReturnToSourceQueue(m)
  PROVE  IInv'
<1> USE DEF IInv
<1> DEFINE n == [m EXCEPT !.retries = 0]
<1>1. /\ m \in Tokens /\ m \notin queues /\ m \in Message /\ TokenAgrees(m)
      /\ m.delayed = FALSE
    BY QueuesDisjoint DEF Tokens, TypeOK, Message
<1>a. /\ n \in Message /\ n.retries = 0 /\ ~n.delayed /\ n.order = m.order /\ n.type = m.type
      /\ n.form = m.form /\ n.from = m.from /\ n.to = m.to
    BY <1>1 DEF Message
<1>2. /\ n \in Message /\ n.retries = 0 /\ ~n.delayed /\ n.order = m.order /\ n.type = m.type
      /\ TokenAgrees(n)
  <2> HIDE DEF n
  <2> QED
      BY <1>1, <1>a, RetriesDoNotMatter
<1>3. /\ errorQueue' = errorQueue \ {m} /\ queues' = queues \cup {n}
      /\ UNCHANGED <<placed, sagas, subscribing, subscribed, emailed, log, repeated>>
    BY DEF ReturnToSourceQueue
<1> HIDE DEF n
<1>4. Tokens' = (Tokens \ {m}) \cup {n}
    BY <1>1, <1>3 DEF Tokens
<1>5. /\ queues' \subseteq Message
      /\ errorQueue' \subseteq {t \in Message : t.retries = MaxRetries /\ ~t.delayed}
      /\ emailed \subseteq emailed' /\ emailed' \subseteq Order
    BY <1>2, <1>3 DEF TypeOK
<1>6. queues' \cap errorQueue' = {}
    BY <1>1, <1>2, <1>3 DEF SingleToken, Tokens
<1> QED
    BY <1>1, <1>2, <1>3, <1>4, <1>5, <1>6, ReplacingStep

\* A restart drops final notices, and of a volatile store delayed retries, which it
\* puts on record, and saga data.
LEMMA RestartInv ==
  ASSUME IInv, NEW e \in Endpoint, Restart(e)
  PROVE  IInv'
<1> USE DEF IInv
<1> DEFINE F == Forgotten(e)
           P == Purged(e)
<1>1. /\ queues' = queues \ (F \cup P) /\ UNCHANGED <<placed, errorQueue, repeated>>
      /\ log' = [o \in Order |-> IF \E m \in F : m.order = o
                                THEN log[o] \cup {"forgotten"} ELSE log[o]]
      /\ sagas' \subseteq sagas /\ ("Saga" \in Durable => sagas' = sagas)
      /\ subscribing' \in BOOLEAN /\ subscribed' \in BOOLEAN
    BY DEF Restart, KeptSubscription, TypeOK
<1>2. emailed \subseteq emailed' /\ emailed' \subseteq Order
  <2>1. {m \in queues : m.to = e /\ ~m.delayed} \subseteq queues
      OBVIOUS
  <2> QED
      BY <2>1, EmailMayHaveGoneType DEF Restart
<1>3. F \subseteq queues /\ P \subseteq queues /\ F \cap P = {}
    BY DEF Forgotten, Purged
<1>4. \A m \in P : m.type = "OrderProcessed"
    BY DEF Purged, Tokens, TokenAgrees
<1> HIDE DEF F, P
<1>5. /\ Tokens' = Tokens \ (F \cup P)
      /\ F \subseteq Tokens /\ P \subseteq Tokens
    BY <1>1, <1>3, QueuesDisjoint DEF Tokens
<1>6. \A m \in F : /\ m.order \in Order /\ m.type \in MessageType
                   /\ log[m.order] = Done(m.type)
                   /\ log'[m.order] = Done(m.type) \cup {"forgotten"}
                   /\ \E p \in placed : p.order = m.order
    BY <1>1, <1>3, <1>5 DEF TypeOK, Message, TokenAgrees
<1>7. \A o \in Order : (\A m \in F : m.order # o) => log'[o] = log[o]
    BY <1>1
<1>8. \A o \in Order : log[o] \subseteq log'[o] /\ log'[o] \subseteq log[o] \cup {"forgotten"}
    BY <1>1
<1>9. TypeOK'
  <2>1. log' \in [Order -> SUBSET Step]
      BY <1>1 DEF TypeOK, Step
  <2> QED
      BY <2>1, <1>1, <1>2 DEF TypeOK
<1>10. PlacedOnce' /\ SingleToken' /\ repeated' = {}
  <2>1. queues' \cap errorQueue' = {}
      BY <1>1, QueuesDisjoint
  <2> QED
      BY <2>1, <1>1, <1>5 DEF PlacedOnce, SingleToken
<1>11. \A m \in Tokens' : TokenAgrees(m)'
  <2> SUFFICES ASSUME NEW m \in Tokens' PROVE TokenAgrees(m)'
      OBVIOUS
  <2>1. m \in Tokens /\ m.order \in Order /\ TokenAgrees(m)
      BY <1>5 DEF TypeOK, Tokens, Message
  <2>2. \A k \in F : k.order # m.order
      BY <2>1, <1>5 DEF SingleToken
  <2>3. log'[m.order] = log[m.order]
      BY <2>1, <2>2, <1>7
  <2> QED
      BY <2>1, <2>3, <1>1 DEF TokenAgrees
<1>12. \A s \in sagas' : SagaAgrees(s)'
  <2> SUFFICES ASSUME NEW s \in sagas, SagaAgrees(s), s.order \in Order PROVE SagaAgrees(s)'
      BY <1>1 DEF TypeOK, SagaData
  <2>1. ASSUME "forgotten" \in log[s.order], "told" \notin log[s.order] PROVE SagaAgrees(s)'
    <3>1. "forgotten" \in log'[s.order] /\ "told" \notin log'[s.order]
        BY <2>1, <1>8
    <3> QED
        BY <3>1, <1>1 DEF SagaAgrees
  <2>2. ASSUME NEW m \in Tokens, m.order = s.order, m.type \in SagaWork PROVE SagaAgrees(s)'
    <3>1. CASE m \in F
      <4>1. "told" \notin log'[s.order] /\ "forgotten" \in log'[s.order]
          BY <3>1, <2>2, <1>6, DoneValues DEF SagaWork
      <4> QED
          BY <4>1, <1>1 DEF SagaAgrees
    <3>2. CASE m \notin F
      <4>1. m \in Tokens'
          BY <3>2, <2>2, <1>4, <1>5 DEF SagaWork
      <4> QED
          BY <4>1, <2>2, <1>1 DEF SagaAgrees
    <3> QED
        BY <3>1, <3>2
  <2> QED
      BY <2>1, <2>2 DEF SagaAgrees
<1>13. RepliesFindTheirSaga'
  <2> SUFFICES ASSUME "Saga" \in Durable PROVE RepliesFindTheirSaga'
      BY DEF RepliesFindTheirSaga
  <2>1. \A o \in Order : "dropped" \notin log'[o]
      BY <1>1 DEF RepliesFindTheirSaga
  <2> QED
      BY <2>1, <1>1, <1>5 DEF RepliesFindTheirSaga, SagaOf
<1>14. \A o \in Order : LogAgrees(o)'
  <2> SUFFICES ASSUME NEW o \in Order PROVE LogAgrees(o)'
      OBVIOUS
  <2>1. CASE \A m \in F : m.order # o
      BY <2>1, <1>1, <1>2, <1>7 DEF LogAgrees
  <2>2. ASSUME NEW m \in F, m.order = o PROVE LogAgrees(o)'
    <3>1. log'[o] \in Progress
        BY <2>2, <1>6 DEF Progress
    <3>2. log'[o] = log[o] \cup {"forgotten"}
        BY <2>2, <1>6
    <3> QED
        BY <3>1, <3>2, <2>2, <1>1, <1>2, <1>6 DEF LogAgrees
  <2> QED
      BY <2>1, <2>2
<1>15. NoOrderVanishes'
  <2> SUFFICES ASSUME NEW p \in placed, p.order \in Order
               PROVE  \/ \E t \in Tokens' : t.order = p.order
                      \/ log'[p.order] \cap Ending # {}
      BY <1>1 DEF NoOrderVanishes, TypeOK
  <2>1. ASSUME NEW t \in F, t.order = p.order PROVE log'[p.order] \cap Ending # {}
      BY <2>1, <1>6 DEF Ending
  <2>2. ASSUME NEW t \in P, t.order = p.order PROVE log'[p.order] \cap Ending # {}
    <3>1. "told" \in log[p.order]
        BY <2>2, <1>4, <1>5, DoneValues DEF TokenAgrees
    <3> QED
        BY <3>1, <1>8 DEF Ending
  <2>3. CASE \A t \in F \cup P : t.order # p.order
      BY <2>3, <1>5, <1>8 DEF NoOrderVanishes
  <2> QED
      BY <2>1, <2>2, <2>3
<1> QED
    BY <1>9, <1>10, <1>11, <1>12, <1>13, <1>14, <1>15

\* A step that changes nothing but the subscription of OrderActivity
LEMMA SubscriptionInv ==
  ASSUME IInv, subscribing' \in BOOLEAN, subscribed' \in BOOLEAN,
         UNCHANGED <<placed, queues, errorQueue, sagas, emailed, log, repeated>>
  PROVE  IInv'
BY DEF IInv, TypeOK, PlacedOnce, SingleToken, Tokens, TokenAgrees, SagaAgrees,
       RepliesFindTheirSaga, SagaOf, LogAgrees, NoOrderVanishes

\* Every step of the order process preserves the inductive invariant.
LEMMA StepInv == IInv /\ [Next]_vars => IInv'
<1> SUFFICES ASSUME IInv, [Next]_vars PROVE IInv'
    OBVIOUS
<1>1. CASE \E o \in Order, f \in Form : Confirm(o, f) \/ Post(o, f)
    BY <1>1, PlaceInv DEF Confirm, Post
<1>7. CASE \E m \in queues : RetryDue(m)
    BY <1>7, RetryDueInv
<1>2. ASSUME NEW m \in queues, Handle(m) PROVE IInv'
    BY <1>2, SagaHandlesProcessOrderInv, PlannerHandlesPlanOrderInv,
       SagaHandlesOrderPlannedInv, OrderHandlesDispatchOrderInv,
       SagaHandlesOrderDispatchedInv, SagaNotFoundInv, OrderHandlesProcessOrderInv,
       ActivityHandlesEventInv, HandlingFailsInv DEF Handle
<1>3. CASE \E m \in errorQueue : ReturnToSourceQueue(m)
    BY <1>3, ReturnToSourceQueueInv
<1>4. CASE \E e \in Endpoint : Restart(e)
    BY <1>4, RestartInv
<1>5. CASE OrderStoresSubscription
    BY <1>5, SubscriptionInv DEF OrderStoresSubscription
<1>6. CASE UNCHANGED vars
    BY <1>6, SubscriptionInv DEF vars, IInv, TypeOK
<1> QED
    BY <1>1, <1>2, <1>3, <1>4, <1>5, <1>6, <1>7 DEF Next

-----------------------------------------------------------------------------
\* The inductive invariant holds in every reachable state, for any number of
\* orders and forms, any set of hosted endpoints, any persistence of the endpoints
\* that configure none, and any number of delayed retries.
THEOREM Invariance == Spec => []IInv
<1>1. Init => IInv
    BY InitInv
<1>2. IInv /\ [Next]_vars => IInv'
    BY StepInv
<1> QED
    BY <1>1, <1>2, PTL DEF Spec

\* The saga never has two messages of one order to handle, so no two handlers
\* race for its data.
THEOREM OneTokenPerOrder == Spec => []SingleToken
<1>1. IInv => SingleToken
    BY DEF IInv
<1> QED
    BY <1>1, Invariance, PTL

\* No saga is stored without a message that leads to its next reply.
THEOREM SagasAreNeverStuck == Spec => []SagaAwaitsWork
<1>1. IInv => SagaAwaitsWork
    BY DEF IInv, SagaAgrees, SagaAwaitsWork
<1> QED
    BY <1>1, Invariance, PTL

\* A durable saga store loses no reply.
THEOREM DurableSagasGetTheirReplies == Spec => []RepliesFindTheirSaga
<1>1. IInv => RepliesFindTheirSaga
    BY DEF IInv
<1> QED
    BY <1>1, Invariance, PTL

\* The steps that can be on record are in the order of the business process.
LEMMA ProgressInOrder ==
  ASSUME NEW L \in Progress
  PROVE  /\ "planned" \in L => "started" \in L
         /\ "dispatched" \in L => "planned" \in L
         /\ "told" \in L => "dispatched" \in L /\ "dropped" \notin L
         /\ "published" \in L => "started" \notin L
         /\ "audited" \in L => "published" \in L
BY DoneValues DEF Progress, MessageType

\* Planned before dispatched before told, none of them twice.
THEOREM SagaStepsInOrder == Spec => []StepsInOrder
<1>1. IInv => StepsInOrder
    BY ProgressInOrder DEF IInv, LogAgrees, StepsInOrder
<1> QED
    BY <1>1, Invariance, PTL

\* What a saga keeps and every message carries is the form of its order.
THEOREM FormsStayIntact == Spec => []FormIntact
<1>1. IInv => FormIntact
    BY DEF IInv, SagaAgrees, TokenAgrees, FormIntact
<1> QED
    BY <1>1, Invariance, PTL

\* Nobody hears that an order is processed before the dispatch e-mail was sent.
THEOREM NoNoticeBeforeEmail == Spec => []NoticeAfterEmail
<1>1. IInv => NoticeAfterEmail
    BY ProgressInOrder DEF IInv, LogAgrees, NoticeAfterEmail
<1> QED
    BY <1>1, Invariance, PTL

\* An accepted order is always accounted for.
THEOREM OrdersNeverVanish == Spec => []NoOrderVanishes
<1>1. IInv => NoOrderVanishes
    BY DEF IInv
<1> QED
    BY <1>1, Invariance, PTL

\* After its completion an order has no saga and no message but its notice.
THEOREM CompletionIsFinal == Spec => []CompletedIsFinal
<1>1. IInv => CompletedIsFinal
  <2> SUFFICES ASSUME IInv, NEW o \in Order, "told" \in log[o]
               PROVE  /\ \A s \in sagas : s.order # o
                      /\ \A m \in Tokens : m.order = o => m.type = "OrderProcessed"
      BY DEF CompletedIsFinal
  <2>1. ASSUME NEW m \in Tokens, m.order = o PROVE m.type = "OrderProcessed"
    <3>1. m.type \in MessageType /\ log[o] = Done(m.type)
        BY <2>1 DEF IInv, TypeOK, Tokens, Message, TokenAgrees
    <3> QED
        BY <3>1, DoneValues DEF MessageType
  <2>2. \A s \in sagas : s.order # o
      BY <2>1 DEF IInv, SagaAgrees, SagaWork
  <2> QED
      BY <2>1, <2>2
<1> QED
    BY <1>1, Invariance, PTL

\* Every variable keeps its type.
THEOREM TypeCorrect == Spec => []TypeOK
<1>1. IInv => TypeOK
    BY DEF IInv
<1> QED
    BY <1>1, Invariance, PTL

-----------------------------------------------------------------------------
(* Every message is where it is handled                                     *)

\* A message that a handler sends has a handler where it goes, but for the notice.
LEMMA SentIsHandled ==
  ASSUME IInv, NEW m \in queues, Handle(m) \/ RetryDue(m), NEW n \in Tokens', n \notin Tokens
  PROVE  \/ n.type \in Handled(n.to) /\ n.type # "OrderProcessed"
         \/ n.type \notin Handled(n.to) /\ n.type = "OrderProcessed"
         \/ n.type = m.type /\ n.to = m.to
<1>0. m \in Tokens /\ m \in Message
    BY DEF IInv, TypeOK, Tokens
<1>1. m.type \in {"PlanOrder", "DispatchOrder"} => m.from = "Saga"
    BY <1>0 DEF IInv, TokenAgrees
<1>2. CASE HandlingFails(m) \/ RetryDue(m)
  <2>1. \/ n = [m EXCEPT !.retries = m.retries + 1, !.delayed = TRUE]
        \/ n = [m EXCEPT !.delayed = FALSE]
      BY <1>2 DEF HandlingFails, RetryDue, Tokens
  <2> QED
      BY <1>0, <2>1 DEF Message
<1>3. CASE SagaHandlesProcessOrder(m)
  <2>1. n = Command("Saga", "PlanOrder", m.order, m.form)
      BY <1>3 DEF SagaHandlesProcessOrder, Commit, Tokens
  <2> QED
      BY <2>1 DEF Command, Sent, Destination, Handled
<1>4. CASE PlannerHandlesPlanOrder(m)
  <2>1. n = Reply(m, "OrderPlanned") /\ m.from = "Saga"
      BY <1>1, <1>4 DEF PlannerHandlesPlanOrder, Receives, Commit, Tokens
  <2> QED
      BY <2>1 DEF Reply, Sent, Handled
<1>5. CASE SagaHandlesOrderPlanned(m)
  <2>1. \E s \in SagaOf(m) : n = Command("Saga", "DispatchOrder", s.order, s.form)
      BY <1>5 DEF SagaHandlesOrderPlanned, Tokens
  <2> QED
      BY <2>1 DEF Command, Sent, Destination, Handled
<1>6. CASE OrderHandlesDispatchOrder(m)
  <2>1. n = Reply(m, "OrderDispatched") /\ m.from = "Saga"
      BY <1>1, <1>6 DEF OrderHandlesDispatchOrder, Receives, Commit, Tokens
  <2> QED
      BY <2>1 DEF Reply, Sent, Handled
<1>7. CASE SagaHandlesOrderDispatched(m)
  <2>1. PICK s \in SagaOf(m) : n = OrderProcessedMessage(m, s)
      BY <1>7 DEF SagaHandlesOrderDispatched, Commit, Tokens
  <2>2. s.originator \in {"UI", "Rest"}
      BY DEF SagaOf, IInv, SagaAgrees, TypeOK
  <2> QED
      BY <2>1, <2>2 DEF OrderProcessedMessage, Sent, Handled
<1>8. CASE OrderHandlesProcessOrder(m)
  <2>1. n = Sent("OrderProcessedEvent", "Order", "OrderActivity", m.order, m.form)
      BY <1>8 DEF OrderHandlesProcessOrder, Commit, Tokens
  <2> QED
      BY <2>1 DEF Sent, Handled
<1>9. CASE SagaNotFound(m) \/ ActivityHandlesEvent(m)
    BY <1>9 DEF SagaNotFound, ActivityHandlesEvent, Commit, Tokens
<1> QED
    BY <1>2, <1>3, <1>4, <1>5, <1>6, <1>7, <1>8, <1>9 DEF Handle

LEMMA HandledStep ==
  ASSUME IInv, HandledWhereItGoes, [Next]_vars
  PROVE  HandledWhereItGoes'
<1> SUFFICES ASSUME NEW n \in Tokens' PROVE n.type \in Handled(n.to) <=> n.type # "OrderProcessed"
    BY DEF HandledWhereItGoes, Handled
<1>1. CASE n \in Tokens
    BY <1>1 DEF HandledWhereItGoes
<1>2. ASSUME n \notin Tokens, NEW m \in queues, Handle(m) \/ RetryDue(m)
      PROVE  n.type \in Handled(n.to) <=> n.type # "OrderProcessed"
  <2>1. m \in Tokens
      BY DEF Tokens
  <2> QED
      BY <1>2, <2>1, SentIsHandled DEF HandledWhereItGoes
<1>3. ASSUME n \notin Tokens, NEW o \in Order, NEW f \in Form, Confirm(o, f) \/ Post(o, f)
      PROVE  n.type \in Handled(n.to) /\ n.type # "OrderProcessed"
  <2>1. PICK front \in {"UI", "Rest"} : n = Command(front, "ProcessOrder", o, f)
      BY <1>3 DEF Confirm, Post, Place, Tokens
  <2> QED
      BY <2>1 DEF Command, Sent, Destination, Handled
<1>4. ASSUME n \notin Tokens, NEW m \in errorQueue, ReturnToSourceQueue(m)
      PROVE  n.type \in Handled(n.to) <=> n.type # "OrderProcessed"
  <2>1. n = [m EXCEPT !.retries = 0] /\ m \in Tokens /\ m \in Message
      BY <1>4 DEF ReturnToSourceQueue, Tokens, IInv, TypeOK
  <2>2. n.type = m.type /\ n.to = m.to
      BY <2>1 DEF Message
  <2> QED
      BY <2>1, <2>2 DEF HandledWhereItGoes
<1>5. CASE (\E e \in Endpoint : Restart(e)) \/ OrderStoresSubscription \/ UNCHANGED vars
    BY <1>1, <1>5 DEF Restart, OrderStoresSubscription, vars, Tokens
<1> QED
    BY <1>1, <1>2, <1>3, <1>4, <1>5 DEF Next

\* The mappings of the configurations and the reply addresses fit the handlers: no
\* message but the notice to the customer fails for want of a handler, and that one,
\* which no front handles, always does.
THEOREM MessagesAreHandledWhereTheyGo == Spec => []HandledWhereItGoes
<1>1. Init => HandledWhereItGoes
    BY DEF Init, HandledWhereItGoes, Tokens
<1>2. IInv /\ HandledWhereItGoes /\ [Next]_vars => HandledWhereItGoes'
    BY HandledStep
<1> QED
    BY <1>1, <1>2, Invariance, PTL DEF Spec

-----------------------------------------------------------------------------
(* The order process implements OrderWorkflow.                               *)

StageBar == [o \in Order |-> StageOf(o)]

\* The stage an order has reached, for every set of steps that can be on record.
LEMMA StageValues ==
  ASSUME NEW b \in BOOLEAN
  PROVE  /\ StageAfter({}, b) = IF b THEN "accepted" ELSE "none"
         /\ StageAfter({"started"}, b) = "started"
         /\ StageAfter({"started", "planned"}, b) = "planned"
         /\ StageAfter({"started", "planned", "dispatched"}, b) = "dispatched"
         /\ StageAfter({"started", "planned", "dispatched", "told"}, b) = "processed"
         /\ StageAfter({"started", "planned", "dropped"}, b) = "lost"
         /\ StageAfter({"started", "planned", "dispatched", "dropped"}, b) = "lost"
         /\ \A t \in {"ProcessOrder", "PlanOrder", "OrderPlanned", "DispatchOrder",
                   "OrderDispatched"} : StageAfter(Done(t) \cup {"forgotten"}, b) = "lost"
         /\ StageAfter({"published"}, b) = "published"
         /\ StageAfter({"published", "audited"}, b) = "published"
BY DoneValues DEF StageAfter, Ending

\* A step that touches the record of one order at most moves one stage at most.
LEMMA StageMoves ==
  ASSUME NEW o \in Order, NEW x,
         \A q \in Order : q # o => StageOf(q)' = StageOf(q),
         StageOf(o)' = x
  PROVE  StageBar' = [StageBar EXCEPT ![o] = x]
BY DEF StageBar

\* Every committed step of a handler is a step of the workflow.
LEMMA CommitStage ==
  ASSUME IInv, NEW m \in queues, NEW N, NEW step \in Step, Commit(m, N, step),
         placed' = placed
  PROVE  /\ m.order \in Order
         /\ log[m.order] = Done(m.type)
         /\ \E p \in placed : p.order = m.order
         /\ StageBar' = [StageBar EXCEPT ![m.order] = StageAfter(Done(m.type) \cup {step}, TRUE)]
         /\ StageBar[m.order] = StageAfter(Done(m.type), TRUE)
<1>1. m \in Tokens /\ m.order \in Order
    BY DEF Tokens, IInv, TypeOK, Message
<1>2. log[m.order] = Done(m.type) /\ \E p \in placed : p.order = m.order
    BY <1>1 DEF IInv, TokenAgrees
<1>3. /\ log'[m.order] = Done(m.type) \cup {step}
      /\ \A q \in Order : q # m.order => log'[q] = log[q]
    BY <1>1, <1>2 DEF Commit, IInv, TypeOK
<1>4. \A q \in Order : q # m.order => StageOf(q)' = StageOf(q)
    BY <1>3 DEF StageOf
<1>5. StageOf(m.order)' = StageAfter(Done(m.type) \cup {step}, TRUE)
    BY <1>2, <1>3 DEF StageOf
<1>6. StageBar[m.order] = StageAfter(Done(m.type), TRUE)
    BY <1>1, <1>2 DEF StageOf, StageBar
<1> QED
    BY <1>1, <1>2, <1>4, <1>5, <1>6, StageMoves

\* What a handler commits moves its order from one stage to the next.
LEMMA CommitMoves ==
  ASSUME IInv, NEW m \in queues, NEW N, NEW step \in Step, Commit(m, N, step),
         placed' = placed, NEW from, NEW to,
         StageAfter(Done(m.type), TRUE) = from,
         StageAfter(Done(m.type) \cup {step}, TRUE) = to
  PROVE  m.order \in Order /\ Workflow!Move(m.order, from, to)
<1>1. /\ m.order \in Order
      /\ StageBar' = [StageBar EXCEPT ![m.order] = to]
      /\ StageBar[m.order] = from
    BY CommitStage
<1> QED
    BY <1>1 DEF Workflow!Move, StageBar

\* The stages before and after each step.
LEMMA StageSteps ==
  /\ StageAfter(Done("ProcessOrder"), TRUE) = "accepted"
  /\ StageAfter(Done("ProcessOrder") \cup {"started"}, TRUE) = "started"
  /\ StageAfter(Done("ProcessOrder") \cup {"published"}, TRUE) = "published"
  /\ StageAfter(Done("PlanOrder"), TRUE) = "started"
  /\ StageAfter(Done("PlanOrder") \cup {"planned"}, TRUE) = "planned"
  /\ StageAfter(Done("OrderPlanned"), TRUE) = "planned"
  /\ StageAfter(Done("OrderPlanned") \cup {"dropped"}, TRUE) = "lost"
  /\ StageAfter(Done("DispatchOrder"), TRUE) = "planned"
  /\ StageAfter(Done("DispatchOrder") \cup {"dispatched"}, TRUE) = "dispatched"
  /\ StageAfter(Done("OrderDispatched"), TRUE) = "dispatched"
  /\ StageAfter(Done("OrderDispatched") \cup {"told"}, TRUE) = "processed"
  /\ StageAfter(Done("OrderDispatched") \cup {"dropped"}, TRUE) = "lost"
  /\ StageAfter(Done("OrderProcessed"), TRUE) = "processed"
  /\ StageAfter(Done("OrderProcessed") \cup {"forgotten"}, TRUE) = "processed"
  /\ StageAfter(Done("OrderProcessedEvent"), TRUE) = "published"
  /\ StageAfter(Done("OrderProcessedEvent") \cup {"forgotten"}, TRUE) = "published"
  /\ StageAfter(Done("OrderProcessedEvent") \cup {"audited"}, TRUE) = "published"
BY DoneValues DEF StageAfter, Ending

\* A step that leaves the records alone is no step of the workflow.
LEMMA StageStutters ==
  ASSUME UNCHANGED <<placed, log>>
  PROVE  UNCHANGED StageBar
BY DEF StageBar, StageOf

\* A restart loses the orders under way whose delayed retry it forgets, each at a stage
\* of the endpoint that restarts.
LEMMA RestartLoses ==
  ASSUME IInv, HandledWhereItGoes, NEW e \in Endpoint, Restart(e)
  PROVE  Workflow!Next \/ UNCHANGED StageBar
<1> USE DEF IInv
<1> DEFINE F == Forgotten(e)
           U == {"accepted", "started", "planned", "dispatched"}
           lost == {o \in Order : StageOf(o) \in U /\ \E m \in F : m.order = o}
<1>1. /\ placed' = placed
      /\ log' = [o \in Order |-> IF \E m \in F : m.order = o
                                THEN log[o] \cup {"forgotten"} ELSE log[o]]
    BY DEF Restart
<1>2. \A m \in F : m \in Tokens /\ m.to = e /\ e \notin Durable
    BY DEF Forgotten, Tokens
<1> HIDE DEF F
<1>3. \A o \in Order : StageOf(o)' = IF o \in lost THEN "lost" ELSE StageOf(o)
  <2> SUFFICES ASSUME NEW o \in Order
               PROVE  StageOf(o)' = IF o \in lost THEN "lost" ELSE StageOf(o)
      OBVIOUS
  <2>1. CASE \A m \in F : m.order # o
      BY <2>1, <1>1 DEF StageOf
  <2>2. ASSUME NEW m \in F, m.order = o
        PROVE  StageOf(o)' = IF o \in lost THEN "lost" ELSE StageOf(o)
    <3>1. /\ m.type \in MessageType /\ log[o] = Done(m.type)
          /\ \E p \in placed : p.order = o
        BY <2>2, <1>2 DEF Tokens, TypeOK, Message, TokenAgrees
    <3>2. /\ StageOf(o) = StageAfter(Done(m.type), TRUE)
          /\ StageOf(o)' = StageAfter(Done(m.type) \cup {"forgotten"}, TRUE)
        BY <2>2, <3>1, <1>1 DEF StageOf
    <3>3. o \in lost <=> StageOf(o) \in U
        BY <2>2
    <3>4. CASE m.type \in {"ProcessOrder", "PlanOrder", "OrderPlanned", "DispatchOrder",
                          "OrderDispatched"}
      <4>1. StageAfter(Done(m.type), TRUE) \in U
          BY <3>4, StageSteps
      <4>2. StageAfter(Done(m.type) \cup {"forgotten"}, TRUE) = "lost"
          BY <3>4, StageValues
      <4> QED
          BY <3>2, <3>3, <4>1, <4>2
    <3>5. CASE m.type \in {"OrderProcessed", "OrderProcessedEvent"}
      <4>1. /\ StageAfter(Done(m.type), TRUE) \notin U
            /\ StageAfter(Done(m.type) \cup {"forgotten"}, TRUE) = StageAfter(Done(m.type), TRUE)
        <5>1. \/ /\ StageAfter(Done(m.type), TRUE) = "processed"
                 /\ StageAfter(Done(m.type) \cup {"forgotten"}, TRUE) = "processed"
              \/ /\ StageAfter(Done(m.type), TRUE) = "published"
                 /\ StageAfter(Done(m.type) \cup {"forgotten"}, TRUE) = "published"
            BY <3>5, StageSteps
        <5> QED
            BY <5>1
      <4> HIDE DEF lost
      <4> QED
          BY <3>2, <3>3, <4>1
    <3> QED
        BY <3>1, <3>4, <3>5 DEF MessageType
  <2> QED
      BY <2>1, <2>2
<1>4. StageBar' = [o \in Order |-> IF o \in lost THEN "lost" ELSE StageBar[o]]
    BY <1>3 DEF StageBar
<1>5. CASE lost = {}
    BY <1>4, <1>5 DEF StageBar
<1>6. CASE lost # {}
  <2>1. e \in Endpoint \ Durable
      BY <1>2, <1>6
  <2>2. ASSUME NEW o \in lost PROVE StageBar[o] \in StagesAt(e)
    <3>1. PICK m \in F : m.order = o
        OBVIOUS
    <3>2. /\ m.type \in MessageType /\ log[o] = Done(m.type) /\ m.to = e
          /\ m.type # "OrderProcessed" => m.type \in Handled(e)
          /\ \E p \in placed : p.order = o
        BY <3>1, <1>2 DEF Tokens, TypeOK, Message, TokenAgrees, HandledWhereItGoes
    <3>3. StageOf(o) = StageAfter(Done(m.type), TRUE) /\ StageOf(o) \in U
        BY <3>2 DEF StageOf
    <3>4. m.type \notin {"OrderProcessed", "OrderProcessedEvent"}
        BY <3>3, StageSteps
    <3>5. StageAfter(Done(m.type), TRUE) \in StagesAt(e)
        BY <3>2, <3>4, StageSteps DEF MessageType, Handled, Endpoint, StagesAt
    <3> QED
        BY <3>3, <3>5 DEF StageBar
  <2>3. Workflow!Lose(lost)
      BY <2>1, <2>2, <1>4 DEF Workflow!Lose, StageBar
  <2>4. lost \in SUBSET Order
      OBVIOUS
  <2> QED
      BY <2>3, <2>4 DEF Workflow!Next
<1> QED
    BY <1>5, <1>6

\* Every step of the order process is a step of the workflow or none at all.
LEMMA StepImplements ==
  IInv /\ HandledWhereItGoes /\ [Next]_vars => [Workflow!Next]_StageBar
<1> SUFFICES ASSUME IInv, HandledWhereItGoes, [Next]_vars
             PROVE  Workflow!Next \/ UNCHANGED StageBar
    OBVIOUS
<1>1. ASSUME NEW front \in {"UI", "Rest"}, NEW o \in Order, NEW f \in Form, Place(front, o, f)
      PROVE  Workflow!Accept(o)
  <2>1. /\ log' = log /\ log[o] = {} /\ \A p \in placed : p.order # o
        /\ placed' = placed \cup {[order |-> o, via |-> front, form |-> f]}
      BY <1>1 DEF Place, NewGuid, IInv, LogAgrees
  <2>2. \A q \in Order : (\E p \in placed' : p.order = q) <=> (q = o \/ \E p \in placed : p.order = q)
    <3> DEFINE p0 == [order |-> o, via |-> front, form |-> f]
    <3>1. p0.order = o /\ placed' = placed \cup {p0}
        BY <2>1
    <3> HIDE DEF p0
    <3> QED
        BY <3>1
  <2>3. StageOf(o) = "none"
      BY <2>1, StageValues DEF StageOf
  <2>4. StageOf(o)' = "accepted"
      BY <2>1, <2>2, StageValues DEF StageOf
  <2>5. \A q \in Order : q # o => StageOf(q)' = StageOf(q)
      BY <2>1, <2>2 DEF StageOf
  <2>6. StageBar' = [StageBar EXCEPT ![o] = "accepted"] /\ StageBar[o] = "none"
      BY <2>3, <2>4, <2>5, StageMoves DEF StageBar
  <2> QED
      BY <2>6 DEF Workflow!Accept, Workflow!Move, StageBar
<1>2. ASSUME NEW m \in queues, Handle(m) PROVE Workflow!Next \/ UNCHANGED StageBar
  <2>1. CASE SagaHandlesProcessOrder(m)
    <3>1. m.type = "ProcessOrder" /\ placed' = placed
          /\ \E N : Commit(m, N, "started")
        BY <2>1 DEF SagaHandlesProcessOrder, Receives
    <3> QED
        BY <3>1, CommitMoves, StageSteps DEF Workflow!Next, Workflow!Start, Step
  <2>2. CASE PlannerHandlesPlanOrder(m)
    <3>1. m.type = "PlanOrder" /\ placed' = placed
          /\ \E N : Commit(m, N, "planned")
        BY <2>2 DEF PlannerHandlesPlanOrder, Receives
    <3> QED
        BY <3>1, CommitMoves, StageSteps DEF Workflow!Next, Workflow!Plan, Step
  <2>3. CASE SagaHandlesOrderPlanned(m)
      BY <2>3, StageStutters DEF SagaHandlesOrderPlanned
  <2>4. CASE OrderHandlesDispatchOrder(m)
    <3>1. m.type = "DispatchOrder" /\ placed' = placed
          /\ \E N : Commit(m, N, "dispatched")
        BY <2>4 DEF OrderHandlesDispatchOrder, Receives
    <3> QED
        BY <3>1, CommitMoves, StageSteps DEF Workflow!Next, Workflow!Dispatch, Step
  <2>5. CASE SagaHandlesOrderDispatched(m)
    <3>1. m.type = "OrderDispatched" /\ placed' = placed
          /\ \E N : Commit(m, N, "told")
        BY <2>5 DEF SagaHandlesOrderDispatched, Receives
    <3> QED
        BY <3>1, CommitMoves, StageSteps DEF Workflow!Next, Workflow!Complete, Step
  <2>6. CASE SagaNotFound(m)
    <3>1. m.type \in {"OrderPlanned", "OrderDispatched"} /\ placed' = placed
          /\ \E N : Commit(m, N, "dropped")
        BY <2>6 DEF SagaNotFound
    <3>2. "Saga" \notin Durable
        BY <2>6 DEF IInv, Tokens, SagaNotFound, RepliesFindTheirSaga, SagaWork
    <3>3. /\ m.order \in Order
          /\ \E from \in {"planned", "dispatched"} : Workflow!Move(m.order, from, "lost")
        BY <3>1, CommitMoves, StageSteps DEF Step
    <3>a. StagesAt("Saga") = {"accepted", "planned", "dispatched"}
        BY DEF StagesAt
    <3>b. {"planned", "dispatched"} \subseteq UNION {StagesAt(e) : e \in Endpoint \ Durable}
        BY <3>2, <3>a DEF Endpoint
    <3>4. Workflow!Lose({m.order})
        BY <3>b, <3>3 DEF Workflow!Lose, Workflow!Move
    <3> QED
        BY <3>3, <3>4 DEF Workflow!Next
  <2>7. CASE OrderHandlesProcessOrder(m)
    <3>1. m.type = "ProcessOrder" /\ placed' = placed
          /\ \E N : Commit(m, N, "published")
        BY <2>7 DEF OrderHandlesProcessOrder, Receives
    <3> QED
        BY <3>1, CommitMoves, StageSteps DEF Workflow!Next, Workflow!Publish, Step
  <2>8. CASE ActivityHandlesEvent(m)
    <3>1. m.type = "OrderProcessedEvent" /\ placed' = placed
          /\ \E N : Commit(m, N, "audited")
        BY <2>8 DEF ActivityHandlesEvent, Receives
    <3>2. PICK N : Commit(m, N, "audited")
        BY <3>1
    <3>a. /\ StageAfter(Done(m.type), TRUE) = "published"
          /\ StageAfter(Done(m.type) \cup {"audited"}, TRUE) = "published"
          /\ "audited" \in Step
        BY <3>1, StageSteps DEF Step
    <3>3. /\ StageBar' = [StageBar EXCEPT ![m.order] = "published"]
          /\ StageBar[m.order] = "published" /\ m.order \in Order
        BY <3>1, <3>2, <3>a, CommitStage
    <3> QED
        BY <3>3 DEF StageBar
  <2>9. CASE HandlingFails(m)
      BY <2>9, StageStutters DEF HandlingFails
  <2> QED
      BY <1>2, <2>1, <2>2, <2>3, <2>4, <2>5, <2>6, <2>7, <2>8, <2>9 DEF Handle
<1>3. CASE \E m \in errorQueue : ReturnToSourceQueue(m)
    BY <1>3, StageStutters DEF ReturnToSourceQueue
<1>4. CASE \E e \in Endpoint : Restart(e)
    BY <1>4, RestartLoses
<1>7. CASE \E m \in queues : RetryDue(m)
    BY <1>7, StageStutters DEF RetryDue
<1>5. CASE OrderStoresSubscription
    BY <1>5, StageStutters DEF OrderStoresSubscription
<1>6. CASE UNCHANGED vars
    BY <1>6, StageStutters DEF vars
<1> QED
    BY <1>1, <1>2, <1>3, <1>4, <1>5, <1>6, <1>7 DEF Next, Confirm, Post, Workflow!Next

\* Whatever is retried, restarted, parked or purged, the order process implements
\* OrderWorkflow, for every value of the constants.
THEOREM OrderProcessImplementsWorkflow == Spec => ImplementsWorkflow
<1>1. Init => Workflow!Init
  <2> SUFFICES ASSUME Init, NEW o \in Order PROVE StageOf(o) = "none"
      BY DEF Workflow!Init
  <2>1. log[o] = {} /\ ~\E p \in placed : p.order = o
      BY DEF Init
  <2> QED
      BY <2>1, StageValues DEF StageOf
<1>2. IInv /\ HandledWhereItGoes /\ [Next]_vars => [Workflow!Next]_StageBar
    BY StepImplements
<1> QED
    BY <1>1, <1>2, Invariance, MessagesAreHandledWhereTheyGo, PTL DEF Spec, ImplementsWorkflow, Workflow!Spec, StageBar

-----------------------------------------------------------------------------
(* The front decides between the saga and eCommerce.Order                   *)

\* The handlers of ProcessOrderCommand are the only ones that record a first step.
LEMMA FirstSteps ==
  ASSUME IInv, [Next]_vars, NEW o \in Order
  PROVE  /\ "started" \in log'[o] \ log[o] =>
              \E m \in queues : m.order = o /\ SagaHandlesProcessOrder(m)
         /\ "published" \in log'[o] \ log[o] =>
              \E m \in queues : m.order = o /\ OrderHandlesProcessOrder(m)
<1>0. log \in [Order -> SUBSET Step] /\ \A m \in queues : m.order \in Order
    BY DEF IInv, TypeOK, Message
<1>1. ASSUME NEW m \in queues, NEW N, NEW step, Commit(m, N, step)
      PROVE  /\ o = m.order => log'[o] = log[o] \cup {step}
             /\ o # m.order => log'[o] = log[o]
    BY <1>0, <1>1 DEF Commit
<1>2. ASSUME NEW m \in queues, Handle(m) \/ RetryDue(m),
             ~SagaHandlesProcessOrder(m), ~OrderHandlesProcessOrder(m)
      PROVE  {"started", "published"} \cap log'[o] \subseteq log[o]
  <2>1. CASE SagaHandlesOrderDispatched(m)
      BY <1>1, <2>1 DEF SagaHandlesOrderDispatched
  <2>2. CASE PlannerHandlesPlanOrder(m)
      BY <1>1, <2>2 DEF PlannerHandlesPlanOrder
  <2>3. CASE OrderHandlesDispatchOrder(m)
      BY <1>1, <2>3 DEF OrderHandlesDispatchOrder
  <2>4. CASE SagaNotFound(m) \/ ActivityHandlesEvent(m)
      BY <1>1, <2>4 DEF SagaNotFound, ActivityHandlesEvent
  <2> QED
      BY <1>2, <2>1, <2>2, <2>3, <2>4 DEF Handle, SagaHandlesOrderPlanned, HandlingFails, RetryDue
<1>3. ASSUME NEW m \in queues, SagaHandlesProcessOrder(m)
      PROVE  /\ "published" \in log'[o] => "published" \in log[o]
             /\ "started" \in log'[o] => "started" \in log[o] \/ m.order = o
    BY <1>1, <1>3 DEF SagaHandlesProcessOrder
<1>4. ASSUME NEW m \in queues, OrderHandlesProcessOrder(m)
      PROVE  /\ "started" \in log'[o] => "started" \in log[o]
             /\ "published" \in log'[o] => "published" \in log[o] \/ m.order = o
    BY <1>1, <1>4 DEF OrderHandlesProcessOrder
<1>5. ASSUME NEW e \in Endpoint, Restart(e)
      PROVE  {"started", "published"} \cap log'[o] \subseteq log[o]
    BY <1>5 DEF Restart
<1>6. CASE \/ \E f \in Form, p \in Order : Confirm(p, f) \/ Post(p, f)
           \/ \E m \in errorQueue : ReturnToSourceQueue(m)
           \/ OrderStoresSubscription \/ UNCHANGED vars
    BY <1>6 DEF Confirm, Post, Place, ReturnToSourceQueue, OrderStoresSubscription, vars
<1> QED
    BY <1>2, <1>3, <1>4, <1>5, <1>6 DEF Next

\* A ProcessOrderCommand is what a front has just sent, or a copy of an earlier one.
LEMMA ProcessOrderIsSent ==
  ASSUME IInv, [Next]_vars, NEW n \in Tokens', n.type = "ProcessOrder"
  PROVE  \/ \E m \in Tokens : m.type = n.type /\ m.from = n.from /\ m.to = n.to
         \/ n.from \in {"UI", "Rest"} /\ n.to = Destination(n.from, "ProcessOrder")
<1>1. \A m \in Tokens : m \in Message
    BY DEF IInv, TypeOK, Tokens
<1>2. ASSUME NEW m \in queues, Handle(m) \/ RetryDue(m), n \notin Tokens
      PROVE  m.type = n.type /\ m.from = n.from /\ m.to = n.to
  <2>1. CASE HandlingFails(m) \/ RetryDue(m)
    <3>1. m \in Message
        BY <1>1 DEF Tokens
    <3>2. \/ n = [m EXCEPT !.retries = m.retries + 1, !.delayed = TRUE]
          \/ n = [m EXCEPT !.delayed = FALSE]
        BY <1>2, <2>1 DEF HandlingFails, RetryDue, Tokens
    <3> QED
        BY <3>1, <3>2 DEF Message
  <2>2. CASE SagaHandlesOrderPlanned(m)
      BY <1>2, <2>2 DEF SagaHandlesOrderPlanned, Command, Sent, Tokens
  <2>3. CASE SagaHandlesOrderDispatched(m)
      BY <1>2, <2>3 DEF SagaHandlesOrderDispatched, OrderProcessedMessage, Commit, Sent, Tokens
  <2> QED
      BY <1>2, <2>1, <2>2, <2>3
      DEF Handle, SagaHandlesProcessOrder, PlannerHandlesPlanOrder, OrderHandlesDispatchOrder,
          SagaNotFound, OrderHandlesProcessOrder, ActivityHandlesEvent, Commit, Command,
          Reply, Sent, Tokens
<1>3. ASSUME NEW o \in Order, NEW f \in Form, Confirm(o, f) \/ Post(o, f), n \notin Tokens
      PROVE  n.from \in {"UI", "Rest"} /\ n.to = Destination(n.from, "ProcessOrder")
    BY <1>3 DEF Confirm, Post, Place, Command, Sent, Tokens
<1>4. ASSUME NEW m \in errorQueue, ReturnToSourceQueue(m), n \notin Tokens
      PROVE  m \in Tokens /\ m.type = n.type /\ m.from = n.from /\ m.to = n.to
  <2>1. n = [m EXCEPT !.retries = 0] /\ m \in Tokens
      BY <1>4 DEF ReturnToSourceQueue, Tokens
  <2> QED
      BY <1>1, <2>1 DEF Message
<1>5. CASE (\E e \in Endpoint : Restart(e)) \/ OrderStoresSubscription \/ UNCHANGED vars
    BY <1>5 DEF Restart, OrderStoresSubscription, vars, Tokens
<1>6. n \in Tokens => n \in Tokens /\ n.type = n.type
    OBVIOUS
<1> QED
  <2>1. CASE n \in Tokens
      BY <2>1
  <2>2. CASE n \notin Tokens
      BY <1>2, <1>3, <1>4, <1>5, <2>2 DEF Next, Tokens
  <2> QED
      BY <2>1, <2>2

\* Orders are placed with nothing on record.
LEMMA NewOrders ==
  ASSUME IInv, [Next]_vars, NEW p \in placed' \ placed
  PROVE  p.order \in Order /\ log'[p.order] = {}
<1>1. PICK o \in Order, f \in Form, front \in {"UI", "Rest"} : Place(front, o, f)
    BY DEF Next, Handle, SagaHandlesProcessOrder, PlannerHandlesPlanOrder,
           SagaHandlesOrderPlanned, OrderHandlesDispatchOrder, SagaHandlesOrderDispatched,
           SagaNotFound, OrderHandlesProcessOrder, ActivityHandlesEvent, HandlingFails,
           RetryDue, ReturnToSourceQueue, Restart, OrderStoresSubscription, vars,
           Confirm, Post
<1>2. p.order = o /\ log' = log /\ \A q \in placed : q.order # o
    BY <1>1 DEF Place, NewGuid
<1> QED
    BY <1>2 DEF IInv, LogAgrees

LEMMA FrontsStep ==
  ASSUME IInv, FrontsAgree, [Next]_vars
  PROVE  FrontsAgree'
<1>1. ASSUME NEW n \in Tokens', n.type = "ProcessOrder"
      PROVE  n.to = IF n.from = "UI" THEN "Saga" ELSE "Order"
    BY <1>1, ProcessOrderIsSent DEF FrontsAgree, Destination
<1>2. ASSUME NEW m \in queues, m.type = "ProcessOrder", NEW p \in placed, p.order = m.order
      PROVE  m.to = IF p.via = "UI" THEN "Saga" ELSE "Order"
  <2>1. m \in Tokens
      BY DEF Tokens
  <2>2. PICK q \in placed : q.order = m.order /\ q.via = m.from
      BY <1>2, <2>1 DEF IInv, TokenAgrees
  <2>3. q = p
      BY <1>2, <2>2 DEF IInv, PlacedOnce
  <2> QED
      BY <1>2, <2>1, <2>2, <2>3 DEF FrontsAgree
<1>3. ASSUME NEW p \in placed'
      PROVE  /\ p.via = "Rest" => "started" \notin log'[p.order]
             /\ p.via = "UI" => "published" \notin log'[p.order]
  <2>1. CASE p \notin placed
      BY <2>1, NewOrders
  <2>2. CASE p \in placed
    <3>0. p.order \in Order
        BY <2>2 DEF IInv, TypeOK
    <3>1. ASSUME p.via = "Rest", "started" \in log'[p.order] PROVE FALSE
      <4>1. PICK m \in queues : m.order = p.order /\ SagaHandlesProcessOrder(m)
          BY <2>2, <3>0, <3>1, FirstSteps DEF FrontsAgree
      <4> QED
          BY <1>2, <2>2, <3>1, <4>1 DEF SagaHandlesProcessOrder, Receives
    <3>2. ASSUME p.via = "UI", "published" \in log'[p.order] PROVE FALSE
      <4>1. PICK m \in queues : m.order = p.order /\ OrderHandlesProcessOrder(m)
          BY <2>2, <3>0, <3>2, FirstSteps DEF FrontsAgree
      <4> QED
          BY <1>2, <2>2, <3>2, <4>1 DEF OrderHandlesProcessOrder, Receives
    <3> QED
        BY <3>1, <3>2
  <2> QED
      BY <2>1, <2>2
<1> QED
    BY <1>1, <1>3 DEF FrontsAgree

\* What is on record for an order of the web front.
LEMMA FrontsDecide == IInv /\ FrontsAgree => FrontDecides
<1> SUFFICES ASSUME IInv, FrontsAgree, NEW p \in placed, p.via = "UI",
                    log[p.order] \cap {"started", "forgotten"} = {}
             PROVE  \E m \in Tokens : m.order = p.order /\ m.type = "ProcessOrder"
    BY DEF FrontsAgree, FrontDecides
<1>1. p.order \in Order /\ "published" \notin log[p.order] /\ log[p.order] \in Progress
    BY DEF IInv, TypeOK, FrontsAgree, LogAgrees
<1>2. log[p.order] = {}
    BY <1>1 DEF Progress, Done, MessageType
<1>3. PICK m \in Tokens : m.order = p.order
    BY <1>2 DEF IInv, NoOrderVanishes
<1>4. log[m.order] = Done(m.type) /\ m.type \in MessageType
    BY DEF IInv, TokenAgrees, TypeOK, Tokens, Message
<1> QED
    BY <1>2, <1>3, <1>4, DoneValues DEF MessageType

\* An order of the REST front never starts a saga, whatever is retried or restarted, and
\* one of the web front is never processed without: the comment of the saga holds of the
\* web front only.
THEOREM FrontsDecideTheWay == Spec => []FrontDecides
<1>1. Init => FrontsAgree
    BY DEF Init, FrontsAgree, Tokens
<1>2. IInv /\ FrontsAgree /\ [Next]_vars => FrontsAgree'
    BY FrontsStep
<1> QED
    BY <1>1, <1>2, FrontsDecide, Invariance, PTL DEF Spec

=============================================================================
