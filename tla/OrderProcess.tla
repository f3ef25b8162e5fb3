---------------------------- MODULE OrderProcess ----------------------------
(***************************************************************************)
(* The order process of src/src/eCommerce: the two web fronts that place   *)
(* orders (eCommerceUI, eCommerce.Rest), the saga that drives an order     *)
(* (eCommerce.Saga), the services it delegates to (eCommerce.Planner,      *)
(* eCommerce.Order), and the listener to order events                      *)
(* (eCommerce.OrderActivity).  They talk over NServiceBus 6 on MSMQ: every *)
(* endpoint has one input queue, a handler runs in a transaction that      *)
(* commits the receive, the saga data and the sends together, a handler    *)
(* that throws is retried, at once and then after delays that the message  *)
(* spends in the timeout store of its endpoint, and a message that keeps   *)
(* failing goes to the error queue.  The endpoints that choose a           *)
(* persistence choose InMemoryPersistence; eCommerce.Saga and              *)
(* eCommerce.Planner configure no endpoint, so theirs is open.             *)
(***************************************************************************)
EXTENDS Naturals

CONSTANTS
  Order,        \* the Guids that Confirm and Post draw for new orders
  Form,         \* what a customer fills in: addresses, weight and price
  NoForm,       \* the body of a message that has no properties
  Hosted,       \* the endpoints that a running process hosts
  Durable,      \* the endpoints whose persistence survives a restart
  MaxRetries    \* the delayed retries of a message

Endpoint == {"UI", "Rest", "Saga", "Planner", "Order", "OrderActivity"}

ASSUME FormAssumption == NoForm \notin Form
ASSUME HostedAssumption == Hosted \subseteq Endpoint
ASSUME DurableAssumption == Durable \subseteq {"Saga", "Planner"}
ASSUME RetriesAssumption == MaxRetries \in Nat

VARIABLES
  placed,      \* the orders the fronts have sent
  queues,      \* the messages in the input queues of the endpoints
  errorQueue,  \* the messages in the queue "error"
  sagas,       \* the saga data of the saga endpoint's store
  subscribing, \* a subscription request waits in the queue of eCommerce.Order
  subscribed,  \* OrderActivity is in the subscription store of eCommerce.Order
  emailed,     \* orders for which SendEmailToDispatch has been called
  log,         \* history: the steps committed for each order
  repeated     \* history: the orders for which some step was committed twice

vars == <<placed, queues, errorQueue, sagas, subscribing, subscribed, emailed, log, repeated>>

-----------------------------------------------------------------------------
(* Messages.  "order" stands for the headers NServiceBus adds (the saga id *)
(* a reply travels back with, the conversation id); only the two commands  *)
(* that have an OrderId property also carry it in the body.  "form" is the *)
(* part of the order form the body copies.  "from" is the ReplyToAddress   *)
(* header, "to" the endpoint whose queue holds the message (for a message  *)
(* in the error queue: the queue it failed in), "retries" the header that  *)
(* counts its delayed retries, the immediate ones are counted nowhere;     *)
(* "delayed": it waits in the timeout store of "to" for a delayed retry.   *)

MessageType == {"ProcessOrder", "PlanOrder", "OrderPlanned", "DispatchOrder",
                "OrderDispatched", "OrderProcessed", "OrderProcessedEvent"}

Message == [type : MessageType, from : Endpoint, to : Endpoint, order : Order,
            form : Form \cup {NoForm}, retries : 0..MaxRetries, delayed : BOOLEAN]

SagaData == [order : Order, originator : Endpoint, form : Form]

\* The steps on record for an order; "dropped": a reply found no saga,
\* "forgotten": a restart lost the message that waited for its delayed retry.
Step == {"started", "planned", "dispatched", "told", "published", "audited",
         "dropped", "forgotten"}

\* The types each endpoint has a handler for.  No front handles
\* OrderProcessedMessage, and eCommerceUI's OrderProcessedEventHandler gets no
\* event because its subscription is commented out of Web.config.
Handled(e) ==
  CASE e = "UI"            -> {"OrderProcessedEvent"}
    [] e = "Rest"          -> {}
    [] e = "Saga"          -> {"ProcessOrder", "OrderPlanned", "OrderDispatched"}
    [] e = "Planner"       -> {"PlanOrder"}
    [] e = "Order"         -> {"ProcessOrder", "DispatchOrder"}
    [] e = "OrderActivity" -> {"OrderProcessedEvent"}

\* Mutant: the mapping of DispatchOrderCommand that App.config has commented out.
DispatchesToRest(sender, type) ==
  CASE type = "DispatchOrder" -> "Rest"
    [] type = "PlanOrder"     -> "Planner"
    [] type = "ProcessOrder"  -> IF sender = "UI" THEN "Saga" ELSE "Order"

\* The destination of a command: the mappings of Web.config and App.config,
\* and the explicit destination of RestApiController.Post.
Destination(sender, type) ==
  CASE sender = "UI"   /\ type = "ProcessOrder"  -> "Saga"
    [] sender = "Rest" /\ type = "ProcessOrder"  -> "Order"
    [] sender = "Saga" /\ type = "PlanOrder"     -> "Planner"
    [] sender = "Saga" /\ type = "DispatchOrder" -> "Order"

Sent(type, from, to, o, f) ==
  [type |-> type, from |-> from, to |-> to, order |-> o, form |-> f,
   retries |-> 0, delayed |-> FALSE]

Command(sender, type, o, f) == Sent(type, sender, Destination(sender, type), o, f)

Reply(m, type) == Sent(type, m.to, m.from, m.order, NoForm)

\* Mutant: Reply in place of ReplyToOriginator.
RepliesToSender(m, s) == Sent("OrderProcessed", "Saga", m.from, s.order, s.form)

\* OrderProcessedMessage as ReplyToOriginator sends it: to the endpoint whose
\* command started the saga, not to the sender of the message m at hand.
OrderProcessedMessage(m, s) == Sent("OrderProcessed", "Saga", s.originator, s.order, s.form)

\* The commit of a handler: the message leaves its queue, the messages the
\* handler sent enter theirs, the step is on record.
Commit(m, sent, step) ==
  /\ queues' = (queues \ {m}) \cup sent
  /\ log' = [log EXCEPT ![m.order] = @ \cup {step}]
  /\ repeated' = IF step \in log[m.order] THEN repeated \cup {m.order} ELSE repeated

\* A message its endpoint has received and has a handler for.
Receives(m, e, type) ==
  /\ m.to = e
  /\ m.type = type
  /\ ~m.delayed
  /\ e \in Hosted
  /\ type \in Handled(e)

\* Mutant: the saga is looked up by a property that is no key.
SagaOfSender(m) == {s \in sagas : s.originator = m.from}

\* The saga data of the saga that m is for: by OrderId for the command
\* (ConfigureHowToFindSaga), by the saga id header for a reply.
SagaOf(m) == {s \in sagas : s.order = m.order}

\* Mutant: the saga is never ended.
ForgetsMarkAsComplete(s) == sagas' = sagas

MarkAsComplete(s) == sagas' = sagas \ {s}

\* Mutant: a handler that does not wait for its e-mail.
ForgetsEmail(m) == emailed' = emailed

SendEmailToDispatch(m) == emailed' = emailed \cup {m.order}

\* Mutant: an OrderId that is drawn once and used again.
ReusedGuid(o) == TRUE

\* Guid.NewGuid: an id no order has.
NewGuid(o) == \A p \in placed : p.order # o

-----------------------------------------------------------------------------
Init ==
  /\ placed = {}
  /\ queues = {}
  /\ errorQueue = {}
  /\ sagas = {}
  /\ subscribing = FALSE
  /\ subscribed = FALSE
  /\ emailed = {}
  /\ log = [o \in Order |-> {}]
  /\ repeated = {}

\* A front sends ProcessOrderCommand under a Guid never used before.
Place(front, o, f) ==
  /\ NewGuid(o)
  /\ placed' = placed \cup {[order |-> o, via |-> front, form |-> f]}
  /\ queues' = queues \cup {Command(front, "ProcessOrder", o, f)}
  /\ UNCHANGED <<errorQueue, sagas, subscribing, subscribed, emailed, log, repeated>>

\* HomeController.Confirm
Confirm(o, f) == Place("UI", o, f)

\* RestApiController.Post
Post(o, f) == Place("Rest", o, f)

\* ProcessOrderSaga.Handle(ProcessOrderCommand): the saga is found by OrderId
\* or created, takes the form over and sends PlanOrderCommand.
SagaHandlesProcessOrder(m) ==
  /\ Receives(m, "Saga", "ProcessOrder")
  /\ LET originator == IF SagaOf(m) = {} THEN m.from
                       ELSE (CHOOSE s \in SagaOf(m) : TRUE).originator
     IN  sagas' = (sagas \ SagaOf(m)) \cup
                    {[order |-> m.order, originator |-> originator, form |-> m.form]}
  /\ Commit(m, {Command("Saga", "PlanOrder", m.order, m.form)}, "started")
  /\ UNCHANGED <<placed, errorQueue, subscribing, subscribed, emailed>>

\* Mutant: the planner answers with the message of the next step.
PlannerRepliesDispatched(m) ==
  /\ Receives(m, "Planner", "PlanOrder")
  /\ Commit(m, {Reply(m, "OrderDispatched")}, "planned")
  /\ UNCHANGED <<placed, errorQueue, sagas, subscribing, subscribed, emailed>>

\* PlanOrderHandler.Handle
PlannerHandlesPlanOrder(m) ==
  /\ Receives(m, "Planner", "PlanOrder")
  /\ Commit(m, {Reply(m, "OrderPlanned")}, "planned")
  /\ UNCHANGED <<placed, errorQueue, sagas, subscribing, subscribed, emailed>>

\* ProcessOrderSaga.Handle(IOrderPlannedMessage)
SagaHandlesOrderPlanned(m) ==
  /\ Receives(m, "Saga", "OrderPlanned")
  /\ \E s \in SagaOf(m) :
        queues' = (queues \ {m}) \cup {Command("Saga", "DispatchOrder", s.order, s.form)}
  /\ UNCHANGED <<placed, errorQueue, sagas, subscribing, subscribed, emailed, log, repeated>>

\* DispatchOrderHandler.Handle
OrderHandlesDispatchOrder(m) ==
  /\ Receives(m, "Order", "DispatchOrder")
  /\ SendEmailToDispatch(m)
  /\ Commit(m, {Reply(m, "OrderDispatched")}, "dispatched")
  /\ UNCHANGED <<placed, errorQueue, sagas, subscribing, subscribed>>

\* ProcessOrderSaga.Handle(IOrderDispatchedMessage): ReplyToOriginator, then
\* MarkAsComplete discards the saga data.
SagaHandlesOrderDispatched(m) ==
  /\ Receives(m, "Saga", "OrderDispatched")
  /\ \E s \in SagaOf(m) :
        /\ Commit(m, {OrderProcessedMessage(m, s)}, "told")
        /\ MarkAsComplete(s)
  /\ UNCHANGED <<placed, errorQueue, subscribing, subscribed, emailed>>

\* NServiceBus finds no saga for a reply and, with no IHandleSagaNotFound,
\* drops it as handled.
SagaNotFound(m) ==
  /\ Receives(m, "Saga", m.type)
  /\ m.type \in {"OrderPlanned", "OrderDispatched"}
  /\ SagaOf(m) = {}
  /\ Commit(m, {}, "dropped")
  /\ UNCHANGED <<placed, errorQueue, sagas, subscribing, subscribed, emailed>>

\* ProcessOrderHandler.Handle: e-mail, then publish to the subscribers known
\* at this moment.
OrderHandlesProcessOrder(m) ==
  /\ Receives(m, "Order", "ProcessOrder")
  /\ SendEmailToDispatch(m)
  /\ Commit(m, {Sent("OrderProcessedEvent", "Order", e, m.order, m.form)
                   : e \in IF subscribed THEN {"OrderActivity"} ELSE {}}, "published")
  /\ UNCHANGED <<placed, errorQueue, sagas, subscribing, subscribed>>

\* OrderActivityHandler.Handle
ActivityHandlesEvent(m) ==
  /\ Receives(m, "OrderActivity", "OrderProcessedEvent")
  /\ Commit(m, {}, "audited")
  /\ UNCHANGED <<placed, errorQueue, sagas, subscribing, subscribed, emailed>>

\* A handler of eCommerce.Order may have sent its e-mail before it was cut short.
EmailMayHaveGone(M) ==
  \/ UNCHANGED emailed
  \/ \E m \in M : /\ m.to = "Order" /\ m.type \in Handled("Order")
                 /\ emailed' = emailed \cup {m.order}

\* Handling fails: the handler throws, or the endpoint has no handler for the type.
\* The transaction rolls back, and the message is retried at once, where nothing but
\* the e-mail is left of the attempt; after a delay, when NServiceBus has given up on
\* retrying at once; or, when it has given up altogether, goes to the error queue.
HandlingFails(m) ==
  /\ m.to \in Hosted
  /\ ~m.delayed
  /\ \/ UNCHANGED <<queues, errorQueue>>
     \/ /\ m.retries < MaxRetries
        /\ queues' = (queues \ {m}) \cup {[m EXCEPT !.retries = @ + 1, !.delayed = TRUE]}
        /\ UNCHANGED errorQueue
     \/ /\ m.retries = MaxRetries
        /\ queues' = queues \ {m}
        /\ errorQueue' = errorQueue \cup {m}
  /\ EmailMayHaveGone({m})
  /\ UNCHANGED <<placed, sagas, subscribing, subscribed, log, repeated>>

\* The delay of a retry is over: the message is back in the queue of its endpoint.
RetryDue(m) ==
  /\ m.to \in Hosted
  /\ m.delayed
  /\ queues' = (queues \ {m}) \cup {[m EXCEPT !.delayed = FALSE]}
  /\ UNCHANGED <<placed, errorQueue, sagas, subscribing, subscribed, emailed, log, repeated>>

\* Somebody moves a message from the error queue back to the queue it failed in.
ReturnToSourceQueue(m) ==
  /\ errorQueue' = errorQueue \ {m}
  /\ queues' = queues \cup {[m EXCEPT !.retries = 0]}
  /\ UNCHANGED <<placed, sagas, subscribing, subscribed, emailed, log, repeated>>

\* The messages that wait for a delayed retry in a store that a restart empties.
Forgotten(e) == {m \in queues : m.to = e /\ m.delayed /\ e \notin Durable}

\* The messages that a front purges from its queue when it starts.
Purged(e) == {m \in queues : m.to = e /\ ~m.delayed /\ e \in {"UI", "Rest"}}

\* The subscription that is left after a restart of endpoint e: eCommerce.Order keeps
\* it in memory.
KeptSubscription(e) == subscribed /\ e # "Order"

\* A process stops or dies, its open transactions roll back, and it starts again.
\* What InMemoryPersistence held is gone: saga data, subscriptions, delayed
\* retries.  The fronts purge their queue; OrderActivity subscribes again.
Restart(e) ==
  /\ e \in Hosted
  /\ queues' = queues \ (Forgotten(e) \cup Purged(e))
  /\ log' = [o \in Order |-> IF \E m \in Forgotten(e) : m.order = o
                             THEN log[o] \cup {"forgotten"} ELSE log[o]]
  /\ sagas' = IF e = "Saga" /\ e \notin Durable THEN {} ELSE sagas
  /\ subscribed' = KeptSubscription(e)
  /\ subscribing' = (subscribing \/ e = "OrderActivity")
  /\ EmailMayHaveGone({m \in queues : m.to = e /\ ~m.delayed})
  /\ UNCHANGED <<placed, errorQueue, repeated>>

\* eCommerce.Order stores the subscription of OrderActivity.
OrderStoresSubscription ==
  /\ "Order" \in Hosted
  /\ subscribing
  /\ subscribing' = FALSE
  /\ subscribed' = TRUE
  /\ UNCHANGED <<placed, queues, errorQueue, sagas, emailed, log, repeated>>

-----------------------------------------------------------------------------
Handle(m) ==
  \/ SagaHandlesProcessOrder(m)
  \/ PlannerHandlesPlanOrder(m)
  \/ SagaHandlesOrderPlanned(m)
  \/ OrderHandlesDispatchOrder(m)
  \/ SagaHandlesOrderDispatched(m)
  \/ SagaNotFound(m)
  \/ OrderHandlesProcessOrder(m)
  \/ ActivityHandlesEvent(m)
  \/ HandlingFails(m)

Next ==
  \/ \E o \in Order, f \in Form : Confirm(o, f) \/ Post(o, f)
  \/ \E m \in queues : Handle(m) \/ RetryDue(m)
  \/ \E m \in errorQueue : ReturnToSourceQueue(m)
  \/ \E e \in Endpoint : Restart(e)
  \/ OrderStoresSubscription

Spec == Init /\ [][Next]_vars

\* An endpoint keeps receiving: it never leaves a message of an order alone for
\* ever, a delayed retry included, and now and then runs for long enough to be done
\* with retrying it at once.  Whether an attempt succeeds is not promised.
Attend(o) == \E m \in queues : m.order = o /\ (Handle(m) \/ RetryDue(m))

FairSpec == Spec /\ \A o \in Order : WF_vars(Attend(o))

-----------------------------------------------------------------------------
TypeOK ==
  /\ placed \subseteq [order : Order, via : {"UI", "Rest"}, form : Form]
  /\ queues \subseteq Message
  /\ errorQueue \subseteq {m \in Message : m.retries = MaxRetries /\ ~m.delayed}
  /\ sagas \subseteq SagaData
  /\ subscribing \in BOOLEAN
  /\ subscribed \in BOOLEAN
  /\ emailed \subseteq Order
  /\ log \in [Order -> SUBSET Step]
  /\ repeated \subseteq Order

-----------------------------------------------------------------------------
(* Properties *)

\* Every message of an order that has not been handled yet.
Tokens == queues \cup errorQueue

\* The messages a saga waits behind, between its start and its end.
SagaWork == {"PlanOrder", "OrderPlanned", "DispatchOrder", "OrderDispatched"}

\* However the queues, retries, error queue and restarts interleave, an order is
\* worked on in one place only: no two messages for the same order exist, so no
\* two handlers can race for its saga data (ProcessOrderSaga checks no state).
SingleToken ==
  /\ queues \cap errorQueue = {}
  /\ \A m1, m2 \in Tokens : m1.order = m2.order => m1 = m2

\* No saga waits for nothing: as long as ProcessOrderSagaData is stored, one of
\* the messages that will bring its next reply is in a queue or the error queue,
\* unless a restart lost it from a store in memory.
SagaAwaitsWork ==
  \A s \in sagas : \/ \E m \in Tokens : m.order = s.order /\ m.type \in SagaWork
                   \/ "forgotten" \in log[s.order]

\* With a store that survives restarts every reply finds its saga, so none of
\* them is dropped; a saga is discarded only when no reply is left to come.
RepliesFindTheirSaga ==
  "Saga" \in Durable => /\ \A m \in Tokens : m.type \in SagaWork => SagaOf(m) # {}
                        /\ \A o \in Order : "dropped" \notin log[o]

\* The saga steps through an order as documented although no handler checks the
\* step: planned before dispatched, dispatched before told, none of them twice,
\* and never an order that eCommerce.Order processed on its own.
StepsInOrder ==
  /\ repeated = {}
  /\ \A o \in Order :
       /\ "planned" \in log[o] => "started" \in log[o]
       /\ "dispatched" \in log[o] => "planned" \in log[o]
       /\ "told" \in log[o] => "dispatched" \in log[o] /\ "dropped" \notin log[o]
       /\ "published" \in log[o] => "started" \notin log[o]
       /\ "audited" \in log[o] => "published" \in log[o]

\* What the saga keeps and what travels for an order is the form its customer
\* confirmed, and the final notice goes to the front that took the order.
FormIntact ==
  /\ \A s \in sagas : [order |-> s.order, via |-> s.originator, form |-> s.form] \in placed
  /\ \A m \in Tokens : m.form # NoForm =>
        \E p \in placed : /\ p.order = m.order /\ p.form = m.form
                          /\ m.type = "OrderProcessed" => m.to = p.via

\* A customer is told that an order is processed, or OrderActivity hears of it,
\* only after eCommerce.Order has mailed the dispatch department about it.
NoticeAfterEmail ==
  \A o \in Order : log[o] \cap {"told", "published"} # {} => o \in emailed

\* The steps after which nothing more has to happen for an order, or can.
Ending == {"told", "published", "dropped", "forgotten"}

\* An order a front accepted never just vanishes: a message still carries it, or
\* its originator was told, or the event was published, or a restart of a store
\* in memory had lost its saga data or its delayed retry.
NoOrderVanishes ==
  \A p \in placed : \/ \E m \in Tokens : m.order = p.order
                    \/ log[p.order] \cap Ending # {}

\* After MarkAsComplete nothing of the order is left but the notice itself: no
\* saga data and no late reply that could be dropped or start something again.
CompletedIsFinal ==
  \A o \in Order : "told" \in log[o] =>
     /\ \A s \in sagas : s.order # o
     /\ \A m \in Tokens : m.order = o => m.type = "OrderProcessed"

\* The event of order o was sent to OrderActivity: it is under way, it was handled,
\* or a restart has lost it.
EventSent(o) ==
  \/ \E m \in Tokens : m.order = o /\ m.type = "OrderProcessedEvent"
  \/ "audited" \in log[o]
  \/ {"published", "forgotten"} \subseteq log[o]

\* What OrderActivity says of itself, that it listens to all order activities: once it
\* has been sent an event, no later order is published to nobody.
NoGapInAudit ==
  [][ (\E o \in Order : EventSent(o)) =>
        \A o \in Order : "published" \in log'[o] \ log[o] => EventSent(o)' ]_vars

\* Whatever is mapped, replied or returned, a message is in the queue of an endpoint that
\* handles its type.  OrderProcessedMessage alone has no handler where it goes, and so
\* fails there.
HandledWhereItGoes ==
  \A m \in Tokens : m.type \in Handled(m.to) <=> m.type # "OrderProcessed"

\* Every order that a front sent is in the end told, published, lost by a restart,
\* or parked in the error queue: no message waits for ever at a hosted endpoint.
OrderSettles ==
  \A o \in Order :
    (\E p \in placed : p.order = o) ~>
       \/ log[o] \cap Ending # {}
       \/ \E m \in errorQueue : m.order = o

\* What ProcessOrderSaga.cs says of its start: a ProcessOrderCommand of either
\* front, once handled, has started a saga.
CommandStartsSaga ==
  \A p \in placed : \/ "started" \in log[p.order]
                    \/ \E m \in Tokens : m.order = p.order /\ m.type = "ProcessOrder"

\* What does hold of it: the front decides.  An order of the REST front never starts a
\* saga; one of the web front does, if no restart lost it before, and eCommerce.Order
\* never processes it on its own.
FrontDecides ==
  \A p \in placed :
    /\ p.via = "Rest" => "started" \notin log[p.order]
    /\ p.via = "UI" => /\ "published" \notin log[p.order]
                       /\ \/ log[p.order] \cap {"started", "forgotten"} # {}
                          \/ \E m \in Tokens : m.order = p.order /\ m.type = "ProcessOrder"

-----------------------------------------------------------------------------
(* The refinement of OrderWorkflow: the stage of an order is the last step    *)
(* committed for it.                                                         *)
StageAfter(steps, isPlaced) ==
  CASE "told" \in steps      -> "processed"
    [] "published" \in steps -> "published"
    [] steps \cap {"told", "published"} = {} /\ steps \cap Ending # {} -> "lost"
    [] steps \cap Ending = {} /\ "dispatched" \in steps               -> "dispatched"
    [] steps \cap Ending = {} /\ "dispatched" \notin steps /\ "planned" \in steps
                              -> "planned"
    [] steps = {"started"}    -> "started"
    [] steps = {}             -> IF isPlaced THEN "accepted" ELSE "none"

StageOf(o) == StageAfter(log[o], \E p \in placed : p.order = o)

\* The stages of the orders whose messages endpoint e may keep for a delayed retry, or
\* whose replies need its saga data
StagesAt(e) ==
  CASE e = "Saga"    -> {"accepted", "planned", "dispatched"}
    [] e = "Planner" -> {"started"}
    [] e = "Order"   -> {"accepted", "planned"}
    [] e \notin {"Saga", "Planner", "Order"} -> {}

Workflow == INSTANCE OrderWorkflow
              WITH stage   <- [o \in Order |-> StageOf(o)],
                   CanLose <- UNION {StagesAt(e) : e \in Endpoint \ Durable}

\* The order process implements OrderWorkflow: whatever is retried, restarted,
\* parked or purged, an order moves through the stages one at a time, none is
\* skipped or repeated, it is lost only at a stage where an endpoint in charge keeps
\* its state in memory, and an order that is told or published is lost no more.
ImplementsWorkflow == Workflow!Spec

-----------------------------------------------------------------------------
(* The inductive invariant behind the safety properties: for every order, the *)
(* one message under way tells what has been done for it.                     *)

\* The steps committed for an order while a message of this type is under way.
Done(type) ==
  CASE type = "ProcessOrder"        -> {}
    [] type = "PlanOrder"           -> {"started"}
    [] type = "OrderPlanned"        -> {"started", "planned"}
    [] type = "DispatchOrder"       -> {"started", "planned"}
    [] type = "OrderDispatched"     -> {"started", "planned", "dispatched"}
    [] type = "OrderProcessed"      -> {"started", "planned", "dispatched", "told"}
    [] type = "OrderProcessedEvent" -> {"published"}

\* The steps that can be on record for an order.
Progress == {Done(t) : t \in MessageType} \cup
            {Done(t) \cup {"forgotten"} : t \in MessageType} \cup
            {Done(t) \cup {"dropped"} : t \in {"OrderPlanned", "OrderDispatched"}} \cup
            {{"published", "audited"}}

PlacedOnce == \A p1, p2 \in placed : p1.order = p2.order => p1 = p2

TokenAgrees(m) ==
  /\ log[m.order] = Done(m.type)
  /\ m.form = NoForm <=> m.type \in {"OrderPlanned", "OrderDispatched"}
  /\ m.type \in {"PlanOrder", "DispatchOrder"} => m.from = "Saga"
  /\ m.to \in {"UI", "Rest"} => m.type = "OrderProcessed"
  /\ \E p \in placed : /\ p.order = m.order
                       /\ m.form # NoForm => p.form = m.form
                       /\ m.type = "ProcessOrder" => p.via = m.from
                       /\ m.type = "OrderProcessed" => p.via = m.to

SagaAgrees(s) ==
  /\ [order |-> s.order, via |-> s.originator, form |-> s.form] \in placed
  /\ \/ \E m \in Tokens : m.order = s.order /\ m.type \in SagaWork
     \/ "forgotten" \in log[s.order] /\ "told" \notin log[s.order]

LogAgrees(o) ==
  /\ log[o] \in Progress
  /\ log[o] # {} => \E p \in placed : p.order = o
  /\ log[o] \cap {"dispatched", "published"} # {} => o \in emailed

\* Every action of the specification preserves this conjunction; the safety
\* properties above follow from it.
IInv ==
  /\ TypeOK
  /\ PlacedOnce
  /\ SingleToken
  /\ \A m \in Tokens : TokenAgrees(m)
  /\ \A s \in sagas : SagaAgrees(s)
  /\ RepliesFindTheirSaga
  /\ \A o \in Order : LogAgrees(o)
  /\ repeated = {}
  /\ NoOrderVanishes

\* A ProcessOrderCommand of the web front is in the queue of the saga endpoint, one of
\* the REST front in that of eCommerce.Order, and the steps of its order follow suit.
FrontsAgree ==
  /\ \A m \in Tokens : m.type = "ProcessOrder" =>
        m.to = IF m.from = "UI" THEN "Saga" ELSE "Order"
  /\ \A p \in placed : /\ p.via = "Rest" => "started" \notin log[p.order]
                       /\ p.via = "UI" => "published" \notin log[p.order]

=============================================================================
