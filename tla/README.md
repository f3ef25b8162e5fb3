# Orders, prices and payments: a verification of the event-sourcing demos

The repository holds two systems. `src/src/eCommerce` takes orders on a web site and a REST
service and drives them through NServiceBus 6 on MSMQ: a saga, a planner, an order service, a
listener. `src/src/RabbitMq/FinSoft` takes card payments and purchase orders on a REST service
and passes them over RabbitMQ (client library 3.6.1) to console programs: a payment whose caller
waits for its authorisation code, and payments that are queued and answered with Ok at once.
`src/src/RabbitMq/Examples` demonstrates one broker feature per pair of programs.

The code of each handler is short; what is hard is everything between them: retries, restarts with
stores in memory, a reply queue that calls share, static fields that requests share, connections
that break, acknowledgements that come late or not at all. The modules here model the handlers
together with that environment, TLC checks them on small instances, and TLAPS proves their safety
properties for every value of the constants.

    OrderWorkflow <- refined by - OrderProcess    - MCOrderProcess,    OrderProcess_proofs
    PriceCall     <- refined by - PriceRequest    - MCPriceRequest,    PriceRequest_proofs
    PaymentCall   <- refined by - DirectPayment   - MCDirectPayment,   DirectPayment_proofs
    TopicQueue    <- refined by - QueuedPayments  - MCQueuedPayments,  QueuedPayments_proofs
    AtMostOnce    <- refined by - PaymentExamples - MCPaymentExamples, PaymentExamples_proofs
    AtMostOnce    <- refined by - StandardQueue   - MCStandardQueue,   StandardQueue_proofs

What every implementation of `AtMostOnce` inherits is proved once, in `AtMostOnce_proofs`.

## Inventory

| Component | State it keeps | Operations | Talks to |
|---|---|---|---|
| `eCommerceUI` | callbacks of pending requests, per application domain; its queue, shared by all domains | `Index` (ask for the price), `Confirm` (place the order), start with purge | request/reply with Order, command to Saga |
| `eCommerce.Rest` | its queue | `Post` (place the order), start with purge | command to **Order** (explicit destination) |
| `eCommerce.Saga` | `ProcessOrderSagaData` per order | three handlers, lookup by `OrderId`, `MarkAsComplete` | commands to Planner and Order, notice to the originator |
| `eCommerce.Planner` | none | `PlanOrderHandler` | reply to Saga |
| `eCommerce.Order` | subscription store, timeout store (in memory) | `DispatchOrderHandler`, `ProcessOrderHandler`, `PriceRequestHandler`, e-mail | replies, event to OrderActivity |
| `eCommerce.OrderActivity` | none | subscribe at start, `OrderActivityHandler` | subscription request to Order |
| `eCommerce.Monitoring` | none | logs what ServiceControl reports; a custom check that always fails | - |
| FinSoft RestApi, direct | one connection, channel and buffering consumer per call | `DirectCardPaymentController.MakePayment` | `rpc_queue`, `rpc_reply` |
| FinSoft RestApi, queued | **static** connection and channel | `QueueCardPaymentController`, `QueuePurchaseOrderController` | `Topic_Exchange` |
| `DirectPaymentCardConsumer` | connection, the unacknowledged request | deserialise, charge, reply, acknowledge | `rpc_queue`, reply queue |
| `PaymentCardConsumer`, `PurchaseOrderConsumer`, `AccountsAuditConsumer` | connection, the unacknowledged message | deserialise, write out, acknowledge | one topic queue each |
| Examples | one queue or exchange each; what a consumer has dequeued | declare, publish, consume with or without acknowledgement | each other, by the broker |
| `StandardQueue` example | connection, the number of messages counted | send, count, subscribe, receive as many | other processes of it, by its queue |

What makes each of them correct, and what makes that hard:

* **Order process.** An order is worked on in one place at a time, its steps come in order and
  once, the form is what was confirmed, nobody is told before the dispatch mail, and an
  accepted order does not vanish. Hard: the saga's handlers check no state, so the order of steps
  rests on there never being two messages for one order; e-mail is outside the transaction;
  restarts empty the stores in memory; failed messages come back hours later from the error queue.
* **Price request.** The price shown is that of the very order; a call that waits has a reason.
  Hard: no time limit; one hard-coded reply queue for all domains; purging at start.
* **Direct payment.** A code means charged, no code means not charged, a second charge only after
  a crash or a lost connection of a server, and a caller that waits waits for something. Hard: all
  calls consume one reply queue and drop what is not theirs; replies are not acknowledged; charge,
  reply and acknowledgement are three steps; a request whose server has lost its connection goes to
  another server while the first still works on it.
* **Queued payments.** Ok means the message is in its queue and in the audit queue; it stays until
  processed; it is processed in order. Hard: static fields under concurrent requests; a message
  nobody can deserialise; redelivery, also while a worker without its connection goes on; an
  exchange that does not survive what its queues survive.
* **Examples.** Workers share a queue without processing anything twice; every subscriber gets
  everything. Hard: the consumers acknowledge before they process; publishers and consumers start
  in any order. `StandardQueue` counts the messages before it subscribes, and stays subscribed.

The hazards, each at its line and with the properties aimed at it, are in `PROJECT.json`.

## Modules and code

One module per component, one action per handler, call or statement that others can interleave
with. Modelled code is named in the comments; `PROJECT.json` maps every definition to its lines.
The environment (NServiceBus, MSMQ, RabbitMQ, IIS, ServicePulse) is external: it is modelled by
the options the code passes to it and by how the code uses it.

### OrderProcess, and OrderWorkflow

State: the orders placed, the messages under way (`queues`, with their destination, their delayed
retries so far and whether they wait for one), the error queue, the saga data, the subscription, the
e-mails sent; `log` and `repeated` are history. A handler is one step because NServiceBus runs it
in a transaction with its receive, its sends and its saga data: `Commit` is that transaction.
`HandlingFails` is the transaction rolled back, with the e-mail possibly gone (`EmailMayHaveGone`).
`Restart(e)` empties what endpoint `e` keeps in memory and purges the queue of a front.
`OrderWorkflow` is what the process promises of one order without any of this: stages, one at a
time, never back, and a loss that only stores in memory can cause.

* Neither `eCommerce.Saga` nor `eCommerce.Planner` configures an endpoint: which endpoints are
  hosted is a constant (`Hosted`), and so is which of these two have a durable store (`Durable`).
  All the others choose `InMemoryPersistence`, and no instance gives them anything else
  (`DurableAssumption`).
* Retries are NServiceBus's defaults (README.md:1058). An immediate retry leaves nothing behind but
  the e-mail, is not counted, and begins afresh with every process; a delayed retry is counted in a
  header of the message, up to `MaxRetries`. Nothing is claimed of this counting, which no code of
  the repository takes part in.
* `Confirm` takes any form and draws a new Guid: it binds whatever its query string carries, weight
  and price included, whether or not a page was reviewed before.
* Queues are sets: MSMQ keeps an order, the code does not rely on one, and retries change it.
* The subscription request is not retried; its loss is the same as its delay.
* `ReturnToSourceQueue` is the retry of ServicePulse (README.md:1067).

### PriceRequest, and PriceCall

State: for each call how far it is and what price it shows, for each application domain whether it
runs and which callbacks it has in memory, the messages under way, and as history which calls lost
theirs to a memory (`forgotten`) or a purge (`purged`) and whether domains overlapped.
`NServiceBus.Callbacks` keeps the callback of a request in the memory of the domain that sent it.
The queue of replies belongs to the discriminator, which is the constant `"uniqueId"`, so all
domains share it and purge it when they start. A reply that a domain has no callback for finds no
handler, fails however often it is retried, and goes to the error queue. IIS starts the next domain
while the last one may still have calls (overlapped recycling): the model allows any overlap, and
ends a domain with its calls aborted. A delayed retry is held by the memory of one process.
`PriceCall` is what is left of this for the customer: a call is answered once, with its own price,
or aborted with its domain, or stuck because its message is lost; and a stuck call is never
answered, whatever is retried or returned from the error queue later.

### DirectPayment, and PaymentCall

State: where each call and each server is, their connections, what each call's consumer has
buffered, the two queues, how often each payment was made. The statements of
`GetMessageFromQueue` are separate steps, since a crash or a lost connection can come between
them. Calls consume `rpc_reply` with `noAck: true`: a delivered reply is gone from the queue and
lives in the buffer of whichever call got it. `PaymentCall` is what the controller promises its
callers: Ok with a code means charged, Ok with an empty code means never charged, of BadRequest
nothing is known.

* RabbitMQ.Client 3.6.1 has no automatic recovery: a lost connection ends a server and fails a call
  at the next use they make of it. A connection is lost with its process (`Crash`), with the broker
  (`BrokerRestart`), or alone (`ServerCut`, `CallCut`): then the broker queues the unacknowledged
  request again, another server may take it while the first is still in `MakePayment`, and the first
  ends when it replies or acknowledges. Replies on their way to a call whose connection is lost are
  lost with it, those it has buffered can still be dequeued.
* What is sent on a connection whose loss has not been noticed yet reaches nobody, and a later
  statement throws; the model has the first one throw, which makes no difference to anybody else.
* An authorisation code is told apart by the charge it was drawn for; that two random codes may be
  equal is left out.
* A body that binds to no payment is null, is published as an empty body and makes the server's
  MakePayment throw: the reply is the empty string.
* Queues are sets: `OneCanAnswer` says that a request is never in `rpc_queue` twice. A broker restart
  is one step; time limits of HTTP and recycling of the API are not modelled.

### QueuedPayments, and TopicQueue

State: where each call is, the static `_connection` and `_model`, the connections and channels
themselves, the exchange with its bindings, the queues, and what each worker has not acknowledged.
A call names its connection and its channel, so that "the one stored last" is a call.
`CreateConnection` is one step per declaration: another call may replace the static fields between
any two. Messages have a number, so that order is checked although the queues are sets.

`TopicQueue` is the promise: a message is published once, to its own queue and to the audit queue
in one step, and a queue keeps it until somebody has processed it there; only a restart of the
broker takes messages away, and after one a message may miss a queue.

* A connection is lost with its worker (`Crash`), with the broker (`BrokerRestart`), or alone
  (`WorkerCut`, `CallCut`). A worker cut off goes on with its message while the next one may take,
  process and acknowledge it; the first ends at its next `Next`. The connection of a call takes the
  channels on it along, whichever calls use them. `PublishLost` is a publication that a breaking
  connection swallows: it is a step of its own, since the caller may still get Ok, when another call
  has meanwhile replaced the connection that Close closes.
* Assumed of RabbitMQ.Client 3.6.1: a second declaration on a channel that waits for one throws
  (`Pipelined`); a publication to a missing exchange closes the channel; `Subscription.Next`
  returns null on a closed connection, which ends the consumer with a null reference; frames of
  publications on one channel are not interleaved.
* Of the broker: a redelivered message keeps its place; a restart loses the exchange and its
  messages (neither is persistent) and keeps the queues (durable). `AcceptedIsRouted` and
  `LoneCallIsSound` speak of runs without a restart for that reason.
* The declaration of the three queues is folded into that of the exchange: they are durable, so
  only the first declaration changes anything. The start of a worker is one step.
* `PaymentCardConsumer` binds `payment.cardpayment`, a key nobody sends; the queue gets its
  messages by the binding of the publishers.

### PaymentExamples

State: where each payment is sent (the worker queue, a routing key of the direct exchange, or the
fanout exchange), which program each consumer is, the queues that exist, what is ready in them, and
for each consumer where it is in its loop, the payment it has dequeued and the one the broker keeps
for it; `missed` and `lost` are history. Three pairs of programs fit one module because they differ
only in who declares which queue (`DeclaredBy`, `QueueOf`), in the routing (`RoutesTo`) and in
`noAck` (`KeptFor`); `reads` and `goes` take every combination. `Ack` comes before `Process`, as in
the code.

* The broker does not restart here, and publishers do not crash: each sends what it has and ends.
* A consumer loses its connection by a crash. That a connection breaks under a running consumer,
  or swallows an acknowledgement, is left out here and in `StandardQueue`, where the broker's
  restart is the other way to lose one.
* The start of a consumer is one step, from its connection to `BasicConsume`.
* Without acknowledgements the broker delivers ahead. What it has delivered to a subscriber of the
  fanout exchange that has not dequeued it is still in the queue here; both end with the subscriber.
* Queues are sets. The order in which a publisher sends is kept where it tells payments apart:
  card payments before purchase orders.

### StandardQueue

State: where each process is in `Main`, how much it has sent, the queue, what the broker has
delivered to each consumer (`buffer`) and what each has dequeued, the number each waits for;
`counted` remembers which messages that number stood for, `lost` those that went with a connection
or the broker. The repository runs one process; its queue is durable and shared by name, so a
second one, or messages left over from an earlier one, are cases the code meets. The count and the
subscription are two steps, and with `noAck: true` the broker delivers to every subscriber, also to
one that has left its loop and waits for Enter.

* A process whose connection is lost works off what was delivered to it, then `Dequeue` throws and
  it ends. A process is not started again under the same name.
* The start (`CreateQueue`) and the ten calls of `SendMessage` are steps; `PerProcess` is the ten.

### AtMostOnce

What the examples promise, and both modules above implement: a copy of a payment in a queue is
unsent, queued, unacknowledged, owned, done or gone, and has one holder from the moment a process
gets it. The constant `Kept` says which copies the broker keeps until they are acknowledged: those
of the shared queues of PaymentExamples, none of StandardQueue, whose consumers and the subscribers
of the fanout exchange use `noAck: true`. Since the acknowledgement comes before the payment is
processed, a failure puts a copy back only while it is unacknowledged and loses it afterwards. In
the code the place of a copy is spread over the queue, the consumers' variables, what they have
processed and the history of losses; `PlaceOf` reads it off.

## Runs

Bounds are constants of the modules and appear in the guards. They are chosen so that each of the
behaviours above happens, and two of them can meet.

| Run | Instance | Distinct states | Shows |
|---|---|---|---|
| `order_durable` | 2 orders, 2 forms, 1 delayed retry, all endpoints hosted, durable stores of saga and planner | 39,204 | the safety properties of the order process, and its refinement |
| `order_volatile` | the same, every store in memory | 96,100 | sagas and orders are lost by a recorded restart only, refinement with losses, `OrderSettles` |
| `order_rest` (violation) | | | an order of the REST front never starts a saga |
| `order_audit` (violation) | | | after a restart of eCommerce.Order its next event goes to nobody |
| `price_fair` | 2 calls, 3 domains, 2 delayed retries, weights 9 and 10 | 103,756 | reasons to wait, replies come home, `ReviewedUnlessLost`, refinement of `PriceCall` and with it own prices |
| `payment_fair` | 2 calls, 2 servers, 1 crash or lost connection of a server, any of calls, 1 broker restart | 807,491 | truthful codes, one server that can answer, second charges only by failures, reasons to wait, `CallsReturnUnlessLost`, refinement of `PaymentCall` |
| `payment_theft` (violation) | | | one call takes the reply of another and drops it |
| `queued_fair` | 2 calls, a card worker, 1 crash or lost connection of it, 1 lost connection of a call, 1 restart | 825,622 | routing, lone calls, repetition, order, blocking, `DrainedWhileRead`, refinement of `TopicQueue` |
| `queued_close` (violation) | | | Ok although the connection of the call is still open, for good |
| `queued_poison` (violation) | | | one unreadable message stops its queue, although it is read again and again |
| `examples_fair` | 2 payments, 2 consumers of any of the programs, 1 crash | 326,940 | refinement of `AtMostOnce`, one loss per crash, subscribers get all, `ProcessedWhileRead` |
| `standard_fair` | 2 processes with 2 payments each, 1 broker restart | 154,264 | refinement of `AtMostOnce`, waiting in vain has a thief, `ReturnsUnlessRobbed` |

Why the bounds are enough: every property speaks of one or two orders, calls, messages, workers or
domains, so two of each meet every case; a crash or a lost connection lets a message be
redelivered, to another server, to the next process or while the first still works on it; one broker
restart splits a behaviour into before and after, and after it everything a second one could find is
there; one delayed retry gives a message that waits, may be forgotten and may still be parked; three
domains let one start while another ends and a third still runs; weights 9 and 10 lie on both sides
of the limit of `PriceCalculator`. In `queued_fair` the audit queue has no worker: its copies are
what `TopicQueue` keeps, and workers of different queues share nothing but the broker; several
workers on one queue, of which one goes on without its connection, are left to the proofs, as are all
other sizes.

`CHECK_DEADLOCK FALSE` is stated where the bounded system stops by itself: all calls have ended
and failures and restarts are used up.

### Fairness

`Spec` of every module has none. `FairSpec` adds what the scheduling of the programs gives: threads
that can run do run (`CallStep`, `ServerStep`, `WorkerStep`), a broker delivers what it can to a
connected consumer, an NServiceBus endpoint keeps receiving from its queue, brings delayed retries
back, and does not retry a message at once for ever (an immediate retry that fails again is no step
in the models, but for the e-mail). It never promises that an attempt succeeds, that a process is
started again, that somebody returns a message from the error queue, or that nothing crashes.
`TendedSpec` of QueuedPayments, for `queued_poison` only, adds somebody who starts an ended consumer
again: the queue is stuck even then. `EventuallyProcessed` is claimed only of payments and of queues
that a process reads again and again; without a message that has no body, it holds in this instance.

The liveness properties are stated with the losses the code really has: an order settles by being
told, published, lost by a restart on record or parked in the error queue; a payment call returns
unless a message of it was lost; a price request ends unless its message is lost or parked; a queue
is drained while a worker reads it without ever ending; a payment of an example's queue is processed
or lost by a crash while some consumer keeps running; a process of StandardQueue gets as many
messages as it has counted, unless one of those was taken by another process or lost.

### Where the code and what is said of it part

The violation runs state a sentence of the repository each and show a behaviour of the code that
contradicts it; `findings` in `PROJECT.json` quotes both. Further disagreements of the same kind
were met while modelling, follow from the models, and have no run of their own:

* `eCommerce.Saga/Program.cs` and `eCommerce.Planner/Program.cs` start no endpoint, although the
  first prints "eCommerce.Saga Started...": with `Hosted` as the programs have it no confirmed
  order is ever started.
* A message waiting for a delayed retry is forgotten by a restart of its endpoint (the timeouts are
  in `InMemoryPersistence`), against README.md:1029; the model records it as "forgotten".
* README.md:516, "each message will only be processed a single time": a crash or a lost connection
  between processing and acknowledgement repeats it, in both payment systems.
  `RechargedByFailureOnly` and `RehandledByFailureOnly` say how far.
* README.md:518, first in, first out: with two workers on a queue and a crash, later messages
  overtake. `HandledInOrder` says what remains true, with one worker.
* `RabbitMQDirectClient.cs:28` says "noAck: false" above a `noAck: true`; replies buffered by a
  connection that closes are lost (`gone` records "closed").
* `RabbitMQDirectClient.cs:63` says "create the RPC queue", which the line does not do; a request
  before the first server has started is dropped ("unrouted").
* `RabbitMQClient.cs:52` says AllTopic_Queue "always" gets its copy: after a broker restart a call
  may publish on a channel of another one that has not bound it yet.
* `ProcessOrderSaga.cs:102-103` wants "to let the APPLICATION that causes saga to instantiate KNOW
  that the order has been processed", but neither front has a handler for `OrderProcessedMessage`:
  every notice fails, however often it is retried, and ends in the error queue (`Handled`).
* `DirectRouting_Subscriber1/Program.cs:38` says "in case of the consumer crashes, the message is put
  back into the queue"; the acknowledgement at line 53 comes before the payment is processed, so a
  crash between the two loses it. The same holds of `DirectRouting_Subscriber2`, and of
  `WorkerQueue_Consumer`, whose line 44 says "and have acted on it". `OneLossPerCrash` says how far.

## Proofs

TLAPS proves, for every value of the constants that meets the named assumptions (finite or not,
any number of orders, calls, workers, servers, domains, retries, failures; process names that
differ), that `IInv` of each of the six component modules is invariant, with the type
invariant `TypeOK` as its first part, and from it:

| Module | Properties proved |
|---|---|
| `OrderProcess_proofs` | `SingleToken`, `SagaAwaitsWork`, `RepliesFindTheirSaga`, `StepsInOrder`, `FormIntact`, `NoticeAfterEmail`, `NoOrderVanishes`, `CompletedIsFinal`, `FrontDecides`, `HandledWhereItGoes`; the refinement `ImplementsWorkflow` |
| `DirectPayment_proofs` | `PaidBeforeConfirmed`, `OneCanAnswer`, `RechargedByFailureOnly`, `WaitingHasReason`; `WaitingIsServed` of calls that take turns; the refinement `ImplementsCalls` |
| `QueuedPayments_proofs` | `AcceptedIsRouted`, `LoneCallIsSound`, `KeptUntilHandled`, `RehandledByFailureOnly`, `HandledInOrder`, `UnreadableBlocks`; the refinement `ImplementsTopicQueue` |
| `PriceRequest_proofs` | `PriceIsOwn`, `WaitingHasReason`, `RepliesComeHome`; the refinement `ImplementsPriceCall` |
| `AtMostOnce_proofs` | `HoldersAgree`; the action property `LetGoForGood` |
| `PaymentExamples_proofs` | `OnePlace`, `OneLossPerCrash`, `EverySubscriberGetsAll`; the refinement `ImplementsAtMostOnce`, and `LetGoForGood` of the code by it |
| `StandardQueue_proofs` | `OnePlace`, `StarvesIfRobbed`; the refinement `ImplementsAtMostOnce`, and `LetGoForGood` of the code by it |

None of the properties is inductive as it stands.

* **Orders.** That steps come in order is true because the one message under way tells what has
  been done. `TokenAgrees` ties the type of the message to the exact set of steps on record
  (`Done`), `SingleToken` says there is one such message per order, `SagaAgrees` that stored saga
  data have the message that leads on, `LogAgrees` which sets of steps exist. Handlers consume one
  message and send one; `Guid.NewGuid` and `PlacedOnce` keep new orders apart from old ones. The
  refinement maps the log of an order to the stage of its last step.
* **Fronts.** `order_rest` shows that what the repository says of both fronts does not hold of the
  REST front. `FrontDecides` is what does hold, of both fronts and in every behaviour: an order of the
  REST front never starts a saga, one of the web front starts one unless a restart loses it, and
  eCommerce.Order never processes it by itself. `FrontsAgree` carries it: the destination of a
  command tells its front, through retries and the error queue. `HandledWhereItGoes` says the same
  of all messages: the explicit destination, the mappings and the replies each lead to an endpoint
  with a handler, but for the notice to the fronts.
* **Direct payments.** `RepliesAreTrue` and `HeldAgrees` say that every code under way or in a
  server's variable was drawn for a charge of its request's own payment. `OneCanAnswer` is what is
  left of reserving a request when connections break: a server without its connection may hold what
  is queued or held elsewhere, but cannot answer any more. The bound on charges is `ChargesAgree`:
  the charges made, the servers about to make one (`Paying`, with or without a connection) and a
  queued request are together at most one more than the failures, since only a failure puts a
  request back. `WaitingHasReason` says why a call waits in vain, and that a failure of a server is
  never why. Its proof carries two parts along: `LossIsRecorded`, each action either hands the
  prospect on or records its loss, and `LossHasCause`, a reply is discarded only by another call, and
  lost in a buffer only when its own call has ended or another one was made. `CallsInTurnAreServed`
  is the positive counterpart of the violation `payment_theft`: as long as no two calls wait at the
  same time (`OneWaits`, the theorem's condition on behaviours), none loses its result to another,
  though replies of earlier calls may still be in the queue.
* **Queued payments.** `CallInv` follows the publisher: bindings only grow without a restart, a
  call has bound what it has declared (`DeclaredIsThere`), and a call that nobody overlaps works on
  its own connection and channel until it loses them (`AloneAgrees`). `QueueInv` follows the message:
  kept while a worker with a connection holds it (`HoldingAgrees`), processed, about to be processed
  and ready together at most once more than the failures (`HandlingAgrees`), held in turn
  (`TurnsAgree`).
* **Prices.** `CallbacksAgree` (a call that waits has its callback in exactly one running domain),
  `OneMessage` (one message per call, and none after a recorded loss) and `MessagesAgree` (its value
  is that call's weight or price) carry the rest; `OneDomain` is what not overlapping means.
* **Examples.** `QueuesAgree` says that a queue exists once its publisher or its exclusive reader
  runs, so that nothing sent to it is dropped; `HoldingAgrees` that the broker keeps exactly what its
  consumer holds before the acknowledgement, and nothing after, so that a crash either puts a payment
  back or loses that one; `LostIsGone` that a loss is final, so that losses can be counted.
* **StandardQueue.** `OnlySent` keeps the next message new, `CountsAgree` ties the number a process
  waits for to the messages it stood for: if none of them is elsewhere or lost, the process has
  read them all, and that is enough of them (`StarvingIsRobbed`, by cardinality).
* **At most once.** The abstract specification knows the place and the holder of each copy and
  nothing else. `OnePlace` makes the place of a copy well defined; for the copies of subscribers
  `SubscribersAgree` is needed besides, that what a subscriber has dequeued has left its queue and
  what it still holds is not yet processed. Then each statement of the loops is one step (`Take`,
  `Acknowledge`, `Finish`) or a stutter, a publication is `Send` of all its copies, and a crash or a
  restart of the broker is `Fail`. `HoldersAgree` and `LetGoForGood` are proved of the abstract
  specification alone, and hold of both programs by `INSTANCE` of its proof module: two processes
  never share a copy, and one the broker has let go of is never anybody else's, whatever crashes.
* **Refinements.** `TopicQueue` keeps what the queues keep, a publication of the code is one step of
  it because `Publish` routes to both queues at once; `PriceCall` has a call stuck when its message
  is on record as lost, and `OneMessage` says that no second message is left to answer it.

Each proof has a lemma per action, or per group of actions with the same effect on a conjunct, a
theorem that collects them by cases on `Next`, and a temporal step.

Only model-checked: the six liveness properties (`OrderSettles`, `CallsReturnUnlessLost`,
`DrainedWhileRead`, `ReviewedUnlessLost`, `ProcessedWhileRead`, `ReturnsUnlessRobbed`), since
fairness and ENABLED are beyond this prover. Of some of them the part without fairness is proved:
the reasons of `WaitingHasReason` and `StarvesIfRobbed` for calls and processes that wait in vain.
Only proved, not listed in a run:
`TypeOK` of each module, which the invariants of the runs rest on; `KeptUntilHandled`, `PriceIsOwn`
and `OnePlace`, which the refinements checked in the runs contain; `FrontDecides`,
`HandledWhereItGoes` and `WaitingIsServed`. The violation runs are counterexamples and need
no proof.

## Not modelled

* `eCommerce.Monitoring`: its handlers change nothing and send nothing.
* The unit tests: each runs one handler once; they were read for what is intended.
* HTTP, views, routes, container set-up, logging, message
  formats.
* The JavaScript of the repository (`eCommerceUI/Scripts`, `eCommerce.Rest/Scripts`,
  `FinSoft/RestApi/scripts`): vendored copies of jQuery, jQuery UI, Bootstrap, Modernizr, Respond and
  Application Insights. The programs are C#; none of their state or control is in those files.
* The second `OrderProcessedEventHandler`, of eCommerceUI, gets no event because its subscription
  is commented out of `Web.config`.
* Whether two confirmations of one form are one order: to every part of the code they are two.
* Whether the price of an order is one that was calculated: `Confirm` takes weight and price from its
  query string, and nothing ties them to the page that showed a price. `PriceIsOwn` and `FormIntact`
  say what holds on either side of that gap.
* How often NServiceBus retries, and how many e-mails an order causes: the first is its own affair,
  of the second nothing is promised anywhere.
* Restarts of the broker in `PaymentExamples`; connections lost alone there and in `StandardQueue`.

## Plan

Done, in this order: OrderProcess with OrderWorkflow, DirectPayment with PaymentCall,
QueuedPayments, PriceRequest, PaymentExamples; StandardQueue, TopicQueue, PriceCall, the audit of
OrderActivity; connections lost alone in DirectPayment and QueuedPayments; a proof module for each.
What could follow:

1. Broker restarts and lost connections for `PaymentExamples`, whose direct and fanout exchanges are
   not durable and whose messages are not persistent, as QueuedPayments has them.
2. Two workers on one queue under fairness, for `DrainedWhileRead`: the instance with a card and an
   audit worker takes longer to check for liveness than the others together.
