--------------------------- MODULE QueuedPayments ---------------------------
(***************************************************************************)
(* The queued payments of src/src/RabbitMq/FinSoft.  Calls of              *)
(* QueueCardPaymentController and QueuePurchaseOrderController publish on  *)
(* Topic_Exchange through a RabbitMQClient each, whose connection and      *)
(* channel are static: concurrent calls share whichever was stored last.   *)
(* PaymentCardConsumer, PurchaseOrderConsumer and AccountsAuditConsumer    *)
(* processes read one queue each.  The RabbitMQ broker (external,          *)
(* RabbitMQ.Client 3.6.1) follows the options the code passes: the queues  *)
(* are durable, the exchange and the messages are not, deliveries are      *)
(* acknowledged one at a time.  Every call publishes at most one message,  *)
(* and the call stands for it, for its connection and for its channel.  A  *)
(* connection may be lost with the broker or alone: the broker then gives  *)
(* what a worker has not acknowledged to the next, and the process at its  *)
(* end finds out at the next use it makes of it.                           *)
(***************************************************************************)
EXTENDS Naturals, FiniteSets

CONSTANTS
  Call,        \* the calls of both controllers
  Worker,      \* the consumer processes
  Reads,       \* the queue of each worker
  None,        \* null
  Posts,       \* what the calls may be posted with: a kind and a body, or none, each
  MaxFailures, \* bound on the crashes and lost connections of workers
  MaxCuts,     \* bound on the lost connections of calls
  MaxRestarts  \* bound on the restarts of the broker

\* CardPaymentTopic_Queue, PurchaseOrderTopic_Queue and AllTopic_Queue
Queue == {"card", "order", "all"}

ASSUME ReadsAssumption == Reads \in [Worker -> Queue]
ASSUME NoneAssumption == None \notin Call
ASSUME BoundsAssumption == MaxFailures \in Nat /\ MaxCuts \in Nat /\ MaxRestarts \in Nat

VARIABLES
  posted,      \* the kind of each call, and its body or the lack of one
  at,          \* where the thread of each call is
  declared,    \* how many declarations of CreateConnection each call has made
  connection,  \* RabbitMQClient._connection, by the call that opened it
  model,       \* RabbitMQClient._model, by the call that created it
  channelOn,   \* the connection the channel of each call belongs to
  connections, \* the calls whose connection is open
  channels,    \* the calls whose channel is open
  exchange,    \* Topic_Exchange exists
  bindings,    \* its bindings: a queue and a pattern each
  published,   \* how many messages have been published
  number,      \* the place of each message in the order of publication, or 0
  routed,      \* the queues each message was put in
  queue,       \* the messages each queue keeps, unacknowledged ones included
  srv,         \* where each worker is in ProcessMessages
  held,        \* the message each worker has not acknowledged yet
  online,      \* the workers with an open connection
  handled,     \* history: how often each message was processed, by queue
  lost,        \* history: the messages that went with a broker restart, by queue
  alone,       \* history: the calls no other call has overlapped
  cut,         \* history: the calls whose connection was lost with the broker up
  failures,    \* the crashes and lost connections of workers so far
  restarts     \* the restarts so far

callVars == <<at, declared, alone>>
staticVars == <<connection, model>>
linkVars == <<channelOn, connections, channels>>
brokerVars == <<exchange, bindings>>
messageVars == <<published, number, routed>>
workerVars == <<srv, held, handled>>
faultVars == <<lost, cut, failures, restarts>>
vars == <<posted, callVars, staticVars, linkVars, brokerVars, messageVars, queue,
          workerVars, online, faultVars>>

-----------------------------------------------------------------------------
Kind == {"card", "order"}
Body == {"payment", "null"}
ASSUME PostsAssumption == Posts \subseteq [Call -> [kind : Kind, body : Body]]

Pattern == {"payment.card", "payment.purchaseorder", "payment.cardpayment", "payment.*"}

\* Mutant: the routing key the card consumer binds.
KeyOfConsumer(kind) == IF kind = "card" THEN "payment.cardpayment" ELSE "payment.purchaseorder"

\* The routing keys of SendPayment and SendPurchaseOrder
RoutingKey(kind) == IF kind = "card" THEN "payment.card" ELSE "payment.purchaseorder"

\* Every key of the code starts with "payment." and one more word.
Matches(pattern, kind) == pattern = "payment.*" \/ pattern = RoutingKey(kind)

\* The queues that get a copy of a message.
Routes(kind) == {q \in Queue : \E p \in Pattern : <<q, p>> \in bindings /\ Matches(p, kind)}

\* What the declarations of CreateConnection bind, one after another; the first
\* is the exchange, with which the queues are declared.
Binds == <<{}, {<<"card", "payment.card">>}, {<<"order", "payment.purchaseorder">>}, {<<"all", "payment.*">>}>>

\* What a worker binds: the key of the card consumer is one nobody sends.
WorkerBinds(q) ==
  CASE q = "card"  -> {<<"card", "payment.cardpayment">>}
    [] q = "order" -> {<<"order", "payment.purchaseorder">>}
    [] q = "all"   -> {<<"all", "payment.*">>}

InProgress == {c \in Call : at[c] \in {"connected", "setup", "sent"}}

\* Mutant: the body is not looked at.
AnyBody(q, c) == TRUE

\* DeSerialize makes null of a message without a body, and writing null out
\* throws; the audit consumer only writes the text.
Readable(q, c) == q = "all" \/ posted[c].body = "payment"

\* Mutant: a message that is redelivered goes to the end of the queue.
AnyNext(q, c) == TRUE

\* Mutant: a message that was processed before is passed over, not acknowledged.
NotRedelivered(q) ==
  {c \in queue[q] : handled[q][c] = 0 /\ \A w \in online : Reads[w] = q => c \notin held[w]}

\* The messages of queue q that are reserved for no worker with a connection, and the
\* first of them: a message that is redelivered has kept its place.
Ready(q) == {c \in queue[q] : \A w \in online : Reads[w] = q => c \notin held[w]}
IsNext(q, c) == \A d \in Ready(q) : number[c] <= number[d]

\* Mutant: noAck: true
RemovedByDelivery(q, c) == queue[q] \ {c}

\* noAck: false leaves a delivered message with the queue until it is acknowledged.
AfterDelivery(q, c) == queue[q]

\* The connection of call d is lost, and the channels on it, while the broker stays up.
Drop(d) ==
  /\ Cardinality(cut) < MaxCuts
  /\ connections' = connections \ {d}
  /\ channels' = {e \in channels : channelOn[e] # d}
  /\ cut' = cut \cup {d}

-----------------------------------------------------------------------------
Init ==
  /\ posted \in Posts
  /\ at = [c \in Call |-> "idle"]
  /\ declared = [c \in Call |-> 0]
  /\ connection = None
  /\ model = None
  /\ channelOn = [c \in Call |-> None]
  /\ connections = {}
  /\ channels = {}
  /\ exchange = FALSE
  /\ bindings = {}
  /\ published = 0
  /\ number = [c \in Call |-> 0]
  /\ routed = [c \in Call |-> {}]
  /\ queue = [q \in Queue |-> {}]
  /\ srv = [w \in Worker |-> "down"]
  /\ held = [w \in Worker |-> {}]
  /\ online = {}
  /\ handled = [q \in Queue |-> [c \in Call |-> 0]]
  /\ lost = [q \in Queue |-> {}]
  /\ alone = {}
  /\ cut = {}
  /\ failures = 0
  /\ restarts = 0

-----------------------------------------------------------------------------
(* The calls                                                               *)

\* _connection = _factory.CreateConnection()
Connect(c) ==
  /\ at[c] = "idle"
  /\ at' = [at EXCEPT ![c] = "connected"]
  /\ connection' = c
  /\ connections' = connections \cup {c}
  /\ alone' = IF InProgress = {} THEN alone \cup {c} ELSE alone \ InProgress
  /\ UNCHANGED <<posted, declared, model, channelOn, channels, brokerVars, messageVars,
                 queue, workerVars, online, faultVars>>

\* The call ends with BadRequest; its connection stays open if it is.
BadRequest(c) ==
  /\ at' = [at EXCEPT ![c] = "badRequest"]
  /\ UNCHANGED <<posted, declared, alone, staticVars, channelOn, connections, brokerVars,
                 messageVars, queue, workerVars, online, faultVars>>

\* The broker cannot be reached.
ConnectionRefused(c) == at[c] = "idle" /\ BadRequest(c) /\ UNCHANGED channels

\* _model = _connection.CreateModel(), on the connection stored last.
CreateModel(c) ==
  /\ at[c] = "connected"
  /\ connection \in connections
  /\ at' = [at EXCEPT ![c] = "setup"]
  /\ model' = c
  /\ channelOn' = [channelOn EXCEPT ![c] = connection]
  /\ channels' = channels \cup {c}
  /\ UNCHANGED <<posted, declared, alone, connection, connections, brokerVars, messageVars,
                 queue, workerVars, online, faultVars>>

\* One of the declarations of CreateConnection, on the channel stored last.
Declare(c) ==
  /\ at[c] = "setup"
  /\ declared[c] < 4
  /\ model \in channels
  /\ declared[c] = 0 \/ exchange
  /\ declared' = [declared EXCEPT ![c] = @ + 1]
  /\ exchange' = TRUE
  /\ bindings' = bindings \cup Binds[declared[c] + 1]
  /\ UNCHANGED <<posted, at, alone, staticVars, linkVars, messageVars, queue, workerVars,
                 online, faultVars>>

\* A binding to an exchange that is gone: the broker closes the channel.
BindRefused(c) ==
  /\ at[c] = "setup"
  /\ declared[c] \in 1..3
  /\ model \in channels
  /\ ~exchange
  /\ channels' = channels \ {model}
  /\ BadRequest(c)

\* RabbitMQ.Client forbids two declarations at a time on one channel.
Pipelined(c) ==
  /\ at[c] = "setup"
  /\ declared[c] < 4
  /\ model \in channels
  /\ \E d \in Call \ {c} : at[d] = "setup" /\ declared[d] < 4
  /\ BadRequest(c)
  /\ UNCHANGED channels

\* SendPayment, SendPurchaseOrder: BasicPublish on the channel stored last.  The
\* line that prints what was sent throws when there is no payment: BadRequest,
\* and no Close.
Publish(c) ==
  /\ at[c] = "setup"
  /\ declared[c] = 4
  /\ model \in channels
  /\ at' = [at EXCEPT ![c] = IF posted[c].body = "payment" THEN "sent" ELSE "badRequest"]
  /\ \/ /\ exchange
        /\ routed' = [routed EXCEPT ![c] = Routes(posted[c].kind)]
        /\ published' = published + 1
        /\ number' = [number EXCEPT ![c] = published + 1]
        /\ queue' = [q \in Queue |-> IF q \in Routes(posted[c].kind) THEN queue[q] \cup {c} ELSE queue[q]]
        /\ UNCHANGED channels
     \/ /\ ~exchange   \* the broker drops the message and closes the channel
        /\ channels' = channels \ {model}
        /\ UNCHANGED <<messageVars, queue>>
  /\ UNCHANGED <<posted, declared, alone, staticVars, channelOn, connections, brokerVars,
                 workerVars, online, faultVars>>

\* BasicPublish hands the message over on a connection that is lost before it arrives.
PublishLost(c) ==
  /\ at[c] = "setup"
  /\ declared[c] = 4
  /\ model \in channels
  /\ at' = [at EXCEPT ![c] = IF posted[c].body = "payment" THEN "sent" ELSE "badRequest"]
  /\ Drop(channelOn[model])
  /\ UNCHANGED <<posted, declared, alone, staticVars, channelOn, brokerVars, messageVars, queue,
                 workerVars, online, lost, failures, restarts>>

\* Mutant: Close is not called.
ClosesNothing(c) == {}

\* The connection that client.Close() closes: the one stored last.
ClosedBy(c) == {connection}

\* client.Close() and Ok
Close(c) ==
  /\ at[c] = "sent"
  /\ connection \in connections
  /\ at' = [at EXCEPT ![c] = "ok"]
  /\ connections' = connections \ ClosedBy(c)
  /\ channels' = {d \in channels : channelOn[d] \notin ClosedBy(c)}
  /\ UNCHANGED <<posted, declared, alone, staticVars, channelOn, brokerVars, messageVars,
                 queue, workerVars, online, faultVars>>

\* The connection of a call is lost, whoever uses it.
CallCut(d) ==
  /\ d \in connections
  /\ Drop(d)
  /\ UNCHANGED <<posted, callVars, staticVars, channelOn, brokerVars, messageVars, queue,
                 workerVars, online, lost, failures, restarts>>

\* Mutant: a call whose Close throws starts over with the same payment.
CallStartsOver(c) ==
  /\ at[c] = "sent"
  /\ connection \notin connections
  /\ at' = [at EXCEPT ![c] = "idle"]
  /\ declared' = [declared EXCEPT ![c] = 0]
  /\ UNCHANGED <<posted, alone, staticVars, linkVars, brokerVars, messageVars, queue,
                 workerVars, online, faultVars>>

\* What the call needs next has been closed: AlreadyClosedException.
CallFails(c) ==
  /\ \/ at[c] = "connected" /\ connection \notin connections
     \/ at[c] = "setup" /\ model \notin channels
     \/ at[c] = "sent" /\ connection \notin connections
  /\ BadRequest(c)
  /\ UNCHANGED channels

-----------------------------------------------------------------------------
(* The workers: ProcessMessages of the three consumers                      *)

\* Up to the loop
WorkerStart(w) ==
  /\ srv[w] = "down"
  /\ srv' = [srv EXCEPT ![w] = "ready"]
  /\ online' = online \cup {w}
  /\ exchange' = TRUE
  /\ bindings' = bindings \cup WorkerBinds(Reads[w])
  /\ UNCHANGED <<posted, callVars, staticVars, linkVars, messageVars, queue, held, handled, faultVars>>

\* subscription.Next(): the one message outstanding (prefetchCount: 1).
Deliver(w, c) ==
  /\ w \in online
  /\ srv[w] = "ready"
  /\ c \in Ready(Reads[w])
  /\ IsNext(Reads[w], c)
  /\ srv' = [srv EXCEPT ![w] = "received"]
  /\ held' = [held EXCEPT ![w] = {c}]
  /\ queue' = [queue EXCEPT ![Reads[w]] = AfterDelivery(Reads[w], c)]
  /\ UNCHANGED <<posted, callVars, staticVars, linkVars, brokerVars, messageVars, handled,
                 online, faultVars>>

\* The message is deserialised and written out.
Process(w) ==
  /\ srv[w] = "received"
  /\ srv' = [srv EXCEPT ![w] = "processed"]
  /\ \E c \in held[w] :
        /\ Readable(Reads[w], c)
        /\ handled' = [handled EXCEPT ![Reads[w]][c] = @ + 1]
  /\ UNCHANGED <<posted, callVars, staticVars, linkVars, brokerVars, messageVars, queue,
                 held, online, faultVars>>

\* subscription.Ack, and the next turn of the loop
Ack(w) ==
  /\ srv[w] = "processed"
  /\ w \in online
  /\ srv' = [srv EXCEPT ![w] = "ready"]
  /\ held' = [held EXCEPT ![w] = {}]
  /\ \E c \in held[w] : queue' = [queue EXCEPT ![Reads[w]] = @ \ {c}]
  /\ UNCHANGED <<posted, callVars, staticVars, linkVars, brokerVars, messageVars, handled,
                 online, faultVars>>

\* The process ends: its queue has kept what it has not acknowledged.
Stop(w) ==
  /\ srv' = [srv EXCEPT ![w] = "down"]
  /\ held' = [held EXCEPT ![w] = {}]
  /\ online' = online \ {w}
  /\ UNCHANGED <<posted, callVars, staticVars, linkVars, brokerVars, messageVars, queue,
                 handled, lost, cut, restarts>>

\* Writing out a message without a body throws, and nothing in Main catches it.
Unreadable(w) ==
  /\ srv[w] = "received"
  /\ \E c \in held[w] : ~Readable(Reads[w], c)
  /\ Stop(w)
  /\ UNCHANGED failures

\* The connection is lost: Next returns null, which ends the process as well.
WorkerFails(w) ==
  /\ w \notin online
  /\ srv[w] \in {"ready", "processed"}
  /\ Stop(w)
  /\ UNCHANGED failures

\* The process is killed, at any point.
Crash(w) ==
  /\ srv[w] # "down"
  /\ failures < MaxFailures
  /\ failures' = failures + 1
  /\ Stop(w)

\* The connection of a worker is lost, the broker stays up: the message it works on is
\* ready for the next worker while it goes on with it.
WorkerCut(w) ==
  /\ w \in online
  /\ failures < MaxFailures
  /\ failures' = failures + 1
  /\ online' = online \ {w}
  /\ UNCHANGED <<posted, callVars, staticVars, linkVars, brokerVars, messageVars, queue,
                 workerVars, lost, cut, restarts>>

-----------------------------------------------------------------------------
\* The broker restarts: connections, the exchange and every message are lost, the
\* durable queues are not.
BrokerRestart ==
  /\ restarts < MaxRestarts
  /\ restarts' = restarts + 1
  /\ connections' = {}
  /\ channels' = {}
  /\ online' = {}
  /\ exchange' = FALSE
  /\ bindings' = {}
  /\ queue' = [q \in Queue |-> {}]
  /\ lost' = [q \in Queue |-> lost[q] \cup queue[q]]
  /\ UNCHANGED <<posted, callVars, staticVars, channelOn, messageVars, workerVars, cut,
                 failures>>

-----------------------------------------------------------------------------
CallStep(c) ==
  \/ CreateModel(c) \/ Declare(c) \/ BindRefused(c) \/ Pipelined(c) \/ Publish(c) \/ PublishLost(c)
  \/ Close(c) \/ CallFails(c)

WorkerStep(w) == Process(w) \/ Ack(w) \/ Unreadable(w) \/ WorkerFails(w)

DeliverSome(q) == \E w \in Worker : Reads[w] = q /\ \E c \in queue[q] : Deliver(w, c)

Next ==
  \/ \E c \in Call : Connect(c) \/ ConnectionRefused(c) \/ CallStep(c) \/ CallCut(c)
  \/ \E w \in Worker : WorkerStart(w) \/ WorkerStep(w) \/ Crash(w) \/ WorkerCut(w)
  \/ \E q \in Queue : DeliverSome(q)
  \/ BrokerRestart

Spec == Init /\ [][Next]_vars

\* Threads keep running and the broker delivers what it can.
FairSpec ==
  /\ Spec
  /\ \A c \in Call : WF_vars(CallStep(c))
  /\ \A w \in Worker : WF_vars(WorkerStep(w))
  /\ \A q \in Queue : WF_vars(DeliverSome(q))

\* Besides, somebody starts a consumer again whenever it has ended.
TendedSpec == FairSpec /\ \A w \in Worker : WF_vars(WorkerStart(w))

-----------------------------------------------------------------------------
Place == {"idle", "connected", "setup", "sent", "ok", "badRequest"}

TypeOK ==
  /\ posted \in [Call -> [kind : Kind, body : Body]]
  /\ at \in [Call -> Place]
  /\ declared \in [Call -> 0..4]
  /\ connection \in Call \cup {None}
  /\ model \in Call \cup {None}
  /\ channelOn \in [Call -> Call \cup {None}]
  /\ connections \subseteq Call
  /\ channels \subseteq Call
  /\ exchange \in BOOLEAN
  /\ bindings \subseteq Queue \X Pattern
  /\ published \in Nat
  /\ number \in [Call -> 0..published]
  /\ routed \in [Call -> SUBSET Queue]
  /\ queue \in [Queue -> SUBSET Call]
  /\ srv \in [Worker -> {"down", "ready", "received", "processed"}]
  /\ held \in [Worker -> SUBSET Call]
  /\ online \subseteq Worker
  /\ handled \in [Queue -> [Call -> Nat]]
  /\ lost \in [Queue -> SUBSET Call]
  /\ alone \subseteq Call
  /\ cut \subseteq Call
  /\ failures \in 0..MaxFailures
  /\ restarts \in 0..MaxRestarts

-----------------------------------------------------------------------------
(* Properties *)

\* The queues a message of this kind is for
Copies(kind) == {kind, "all"}

\* Without a broker restart a message is put in its own queue and in the audit queue or
\* in none, whichever connection and channel the call has used; and Ok is only returned
\* for one that was, if no call has lost its connection.
AcceptedIsRouted ==
  restarts = 0 => \A c \in Call :
    /\ routed[c] \in {{}, Copies(posted[c].kind)}
    /\ at[c] \in {"sent", "ok"} /\ cut = {} => routed[c] # {}

\* A call that no other overlaps does what the controller says: it returns Ok only with a
\* payment, once its message is published and its connection closed, even when messages
\* are lost on the way.  It returns BadRequest only without a payment, its message
\* published all the same, or when its connection was lost.
LoneCallIsSound ==
  restarts = 0 => \A c \in alone :
    /\ at[c] = "ok" => posted[c].body = "payment" /\ c \notin connections /\ routed[c] # {}
    /\ at[c] = "badRequest" /\ c \notin cut => posted[c].body = "null" /\ routed[c] # {}

\* A message is processed once, and once more at most for every time a worker was killed
\* or lost its connection before it had acknowledged it: never for what happens to the
\* calls, a message nobody can read, or a restart of the broker.
RehandledByFailureOnly == \A q \in Queue : \A c \in Call : handled[q][c] <= 1 + failures

\* Of two messages of a queue the later one is processed only after the earlier one,
\* unless a restart has taken that one away.
InOrder(q) ==
  \A c, d \in Call :
    q \in routed[c] /\ number[c] < number[d] /\ handled[q][d] > 0
      => handled[q][c] > 0 \/ c \in lost[q]

OneReader(q) == \A v, w \in Worker : Reads[v] = q /\ Reads[w] = q => v = w

\* With one worker on a queue the order of publication is the order of processing,
\* whatever is redelivered.
HandledInOrder == \A q \in Queue : OneReader(q) => InOrder(q)

\* A message without a body is never acknowledged by the workers of its own queue:
\* it stays, and with one worker on the queue nothing behind it is ever processed.
UnreadableBlocks ==
  \A c \in Call : LET q == posted[c].kind IN
    posted[c].body = "null" /\ q \in routed[c] /\ c \notin lost[q] =>
      /\ c \in queue[q]
      /\ OneReader(q) => \A d \in Call : number[d] > number[c] => handled[q][d] = 0

\* A queue that some worker reads without ever ending is emptied of every message.
DrainedWhileRead ==
  \A q \in Queue :
    (\E w \in Worker : Reads[w] = q /\ <>[](srv[w] # "down")) =>
      \A c \in Call : c \in queue[q] ~> c \notin queue[q]

\* What README.md says of the redundancy of queues: a message is processed eventually so
\* long as a process is reading the queue, here one that somebody starts again whenever
\* it has ended.  It is claimed here of payments only.
EventuallyProcessed ==
  \A q \in Queue :
    (\E w \in Worker : Reads[w] = q /\ []<>(srv[w] # "down")) =>
      \A c \in Call : c \in queue[q] /\ posted[c].body = "payment"
                        ~> handled[q][c] > 0 \/ c \in lost[q]

\* What QueueCardPaymentController says when it calls Close: the connection is closed.
OkClosesConnection == \A c \in Call : at[c] = "ok" => c \notin connections

-----------------------------------------------------------------------------
(* The refinement of TopicQueue                                               *)
Topic == INSTANCE TopicQueue
           WITH Message   <- Call,
                copies    <- [c \in Call |-> Copies(posted[c].kind)],
                published <- {c \in Call : number[c] > 0},
                kept      <- queue,
                processed <- [q \in Queue |-> {c \in Call : handled[q][c] > 0}],
                broken    <- (restarts > 0)

\* Whatever connections and channels the calls share and whichever workers crash, a
\* message is published at most once, to both its queues in one step, and stays in each
\* until a worker has processed it there; only a restart of the broker loses messages.
ImplementsTopicQueue == Topic!Spec

-----------------------------------------------------------------------------
(* The inductive invariant behind the safety properties.                      *)

\* A message leaves a queue only after a worker has processed it there, or by a
\* restart of the broker.
KeptUntilHandled ==
  \A c \in Call : \A q \in routed[c] :
    c \in queue[q] \/ handled[q][c] > 0 \/ c \in lost[q]

\* Bindings are those the programs make, and a message is published once, from
\* the end of CreateConnection on.
PublishingAgrees ==
  /\ bindings \subseteq {<<"card", "payment.card">>, <<"card", "payment.cardpayment">>,
                        <<"order", "payment.purchaseorder">>, <<"all", "payment.*">>}
  /\ \A c \in Call :
       /\ at[c] \in {"idle", "connected", "setup"} => number[c] = 0
       /\ number[c] = 0 => routed[c] = {}
       /\ at[c] \in {"idle", "connected"} => declared[c] = 0
       /\ at[c] \in {"sent", "ok"} => posted[c].body = "payment"

\* Without a restart everything a call has declared is there.
DeclaredIsThere ==
  restarts = 0 => \A c \in Call :
    /\ declared[c] > 0 => exchange
    /\ \A i \in 1..declared[c] : Binds[i] \subseteq bindings

\* A call that no other overlaps works on a connection and a channel of its own, until
\* that connection is lost.
AloneAgrees ==
  restarts = 0 => \A c \in alone :
    /\ at[c] # "idle"
    /\ at[c] \in {"connected", "setup", "sent"} =>
         /\ InProgress = {c}
         /\ connection = c /\ c \in connections \cup cut
    /\ at[c] = "setup" => model = c /\ channelOn[c] = c /\ c \in channels \cup cut
    /\ at[c] = "sent" /\ c \notin cut => routed[c] # {}

\* Connections are those of calls that have opened them, channels are on open connections,
\* and a connection that was lost stays closed.
LinksAgree ==
  /\ \A c \in connections \cup cut : at[c] # "idle"
  /\ connections \cap cut = {}
  /\ \A c \in channels : channelOn[c] \in connections
  /\ \A c \in Call : at[c] \in {"connected", "setup", "sent"} => connection # None
  /\ \A c \in Call : at[c] \in {"setup", "sent"} => model # None

\* A queue keeps what was put in it and was not lost; what was lost was put in it.
QueuesAgree == \A q \in Queue : /\ queue[q] \cap lost[q] = {}
                                /\ \A c \in queue[q] \cup lost[q] : q \in routed[c]

\* A worker holds a message while it works on it.  If it has its connection, no other
\* such worker holds the message and the queue has kept it; otherwise another may have
\* acknowledged it meanwhile, or a restart may have taken it.
HoldingAgrees ==
  /\ \A w \in Worker :
       /\ srv[w] \in {"down", "ready"} <=> held[w] = {}
       /\ \A c, d \in held[w] : c = d
       /\ w \in online => srv[w] # "down"
       /\ \A c \in held[w] :
            /\ Reads[w] \in routed[c]
            /\ w \in online => c \in queue[Reads[w]]
            /\ c \in queue[Reads[w]] \/ c \in lost[Reads[w]] \/ handled[Reads[w]][c] > 0
            /\ srv[w] = "processed" => handled[Reads[w]][c] > 0
  /\ \A v, w \in online : Reads[v] = Reads[w] /\ held[v] \cap held[w] # {} => v = w

\* The workers that are about to process message c of queue q.
Processing(q, c) == {w \in Worker : Reads[w] = q /\ srv[w] = "received" /\ c \in held[w]}

\* The copies of message c that are ready in queue q, one at most.
Waiting(q, c) == IF c \in Ready(q) THEN 1 ELSE 0

\* Every message ready or held before it was processed is a processing to come, and only
\* a crash or a lost connection of a worker adds one.
HandlingAgrees ==
  \A q \in Queue : \A c \in Call :
    /\ handled[q][c] > 0 => q \in routed[c] /\ Readable(q, c)
    /\ IsFiniteSet(Processing(q, c))
    /\ handled[q][c] + Cardinality(Processing(q, c)) + Waiting(q, c) <= 1 + failures

\* The one worker of a queue never holds a message before its turn.
TurnsAgree ==
  \A w \in Worker : OneReader(Reads[w]) =>
    \A c \in Call : \A d \in held[w] :
      Reads[w] \in routed[c] /\ number[c] < number[d]
        => handled[Reads[w]][c] > 0 \/ c \in lost[Reads[w]]

CallInv ==
  /\ PublishingAgrees
  /\ DeclaredIsThere
  /\ LinksAgree
  /\ AloneAgrees
  /\ AcceptedIsRouted
  /\ LoneCallIsSound

QueueInv ==
  /\ QueuesAgree
  /\ HoldingAgrees
  /\ KeptUntilHandled
  /\ HandlingAgrees
  /\ TurnsAgree
  /\ HandledInOrder

\* Every action of the specification preserves this conjunction.
IInv == TypeOK /\ CallInv /\ QueueInv

=============================================================================
