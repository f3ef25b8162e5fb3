--------------------------- MODULE DirectPayment ---------------------------
(***************************************************************************)
(* The direct card payment of src/src/RabbitMq/FinSoft: a call of          *)
(* DirectCardPaymentController.MakePayment posts its payment on rpc_queue  *)
(* through a RabbitMQDirectClient of its own and waits on rpc_reply, the   *)
(* reply queue all calls share; DirectPaymentCardConsumer processes make   *)
(* the payments and answer.  The RabbitMQ broker between them (external,   *)
(* RabbitMQ.Client 3.6.1) is modelled by the options the code passes:      *)
(* rpc_queue is not durable, messages are not persistent, requests are     *)
(* acknowledged one at a time, replies are not acknowledged at all.  A     *)
(* connection may be lost with the broker or alone: the broker then queues *)
(* again what the process at its end has not acknowledged, and the process *)
(* finds out at the next use it makes of the connection.                   *)
(***************************************************************************)
EXTENDS Naturals, FiniteSets

CONSTANTS
  Client,      \* the calls; each draws the correlation id that stands for it
  Server,      \* the DirectPaymentCardConsumer processes
  Bodies,      \* what the calls may post: for each a card payment, or nothing
  NoAuth,      \* the empty response of a payment that failed
  MaxFailures, \* bound on the crashes and lost connections of servers
  MaxRestarts  \* bound on the restarts of the broker

ASSUME ProcessAssumption == Client \cap Server = {}
Body == {"card", "null"}

ASSUME BodiesAssumption == Bodies \subseteq [Client -> Body]
ASSUME NoAuthAssumption == NoAuth \notin Client \X Nat
ASSUME BoundsAssumption == MaxFailures \in Nat /\ MaxRestarts \in Nat

VARIABLES
  posted,      \* the body of each call: a card payment, or nothing that binds to one
  at,          \* where the thread of each call is
  reply,       \* the authCode MakePayment returned to each call
  inbox,       \* the replies buffered in _consumer.Queue of each call
  srv,         \* where each server is in GetMessageFromQueue
  held,        \* the request each server has not acknowledged yet
  response,    \* the local variable response of each server
  connected,   \* the processes with an open connection
  rpcDeclared, \* rpc_queue exists
  rpcQueue,    \* the requests in rpc_queue
  replyQueue,  \* the replies in rpc_reply
  charges,     \* history: how often each payment has been made
  gone,        \* history: how messages were lost that a connected call waits for
  failures,    \* the crashes and lost connections of servers so far
  restarts     \* the restarts so far

clientVars == <<at, reply, inbox>>
serverVars == <<srv, held, response>>
queueVars == <<rpcDeclared, rpcQueue, replyQueue>>
vars == <<posted, at, reply, inbox, srv, held, response, connected, rpcDeclared,
          rpcQueue, replyQueue, charges, gone, failures, restarts>>

-----------------------------------------------------------------------------
\* An authorisation code is told apart by the charge it was drawn for: the n-th
\* of the payment of call c.
Auth == Client \X Nat
Code == Auth \cup {NoAuth}

Request == [corr : Client, body : Body]
Reply == [corr : Client, code : Code]

Loss == {"unrouted", "discarded", "closed"}

\* Messages of the calls in C are lost, which matters to those that can still get them.
Lose(C, how) ==
  gone' = [c \in Client |-> IF c \in C \cap connected /\ at[c] \in {"connected", "waiting"}
                            THEN gone[c] \cup {how} ELSE gone[c]]

Corrs(M) == {m.corr : m \in M}

\* Mutant: the first message off the queue is taken for the answer.
AnyReply(c, r) == TRUE

\* The check of the correlation id in the loop of MakePayment.
OwnReply(c, r) == r.corr = c

\* Mutant: noAck: true on rpc_queue.
NothingRequeued(s) == {}

\* What goes back to rpc_queue when the connection of a server closes.
Unacknowledged(s) == IF s \in connected THEN held[s] ELSE {}

\* Mutant: a failure leaves response null and the finally block replies to nobody.
NoReplyToFailure(s, q) == IF response[s] = NoAuth THEN {} ELSE {[corr |-> q.corr, code |-> response[s]]}

\* The reply of the finally block, with the CorrelationId of the request.
RepliesTo(s, q) == {[corr |-> q.corr, code |-> response[s]]}

-----------------------------------------------------------------------------
Init ==
  /\ posted \in Bodies
  /\ at = [c \in Client |-> "idle"]
  /\ reply = [c \in Client |-> NoAuth]
  /\ inbox = [c \in Client |-> {}]
  /\ srv = [s \in Server |-> "down"]
  /\ held = [s \in Server |-> {}]
  /\ response = [s \in Server |-> NoAuth]
  /\ connected = {}
  /\ rpcDeclared = FALSE
  /\ rpcQueue = {}
  /\ replyQueue = {}
  /\ charges = [c \in Client |-> 0]
  /\ gone = [c \in Client |-> {}]
  /\ failures = 0
  /\ restarts = 0

-----------------------------------------------------------------------------
(* The calls: DirectCardPaymentController.MakePayment                      *)

\* RabbitMQDirectClient.CreateConnection; it also declares rpc_reply, which is
\* durable and consumed from here on.
CreateConnection(c) ==
  /\ at[c] = "idle"
  /\ at' = [at EXCEPT ![c] = "connected"]
  /\ connected' = connected \cup {c}
  /\ UNCHANGED <<posted, reply, inbox, serverVars, queueVars, charges, gone, failures, restarts>>

\* The broker cannot be reached: CreateConnection throws.
ConnectionRefused(c) ==
  /\ at[c] = "idle"
  /\ at' = [at EXCEPT ![c] = "badRequest"]
  /\ UNCHANGED <<posted, reply, inbox, serverVars, connected, queueVars, charges, gone, failures, restarts>>

\* RabbitMQDirectClient.MakePayment up to its loop.  The default exchange drops
\* a message for a queue that does not exist.
PublishRequest(c) ==
  /\ at[c] = "connected"
  /\ c \in connected
  /\ at' = [at EXCEPT ![c] = "waiting"]
  /\ \/ /\ rpcDeclared
        /\ rpcQueue' = rpcQueue \cup {[corr |-> c, body |-> posted[c]]}
        /\ UNCHANGED gone
     \/ /\ ~rpcDeclared
        /\ Lose({c}, "unrouted")
        /\ UNCHANGED rpcQueue
  /\ UNCHANGED <<posted, reply, inbox, serverVars, connected, rpcDeclared, replyQueue, charges, failures, restarts>>

\* One turn of the loop of MakePayment: what is buffered can be dequeued even
\* after the connection is lost.
Dequeue(c) ==
  /\ at[c] = "waiting"
  /\ \E r \in inbox[c] :
        /\ inbox' = [inbox EXCEPT ![c] = @ \ {r}]
        /\ \/ /\ OwnReply(c, r)
              /\ at' = [at EXCEPT ![c] = "returned"]
              /\ reply' = [reply EXCEPT ![c] = r.code]
              /\ UNCHANGED gone
           \/ /\ ~OwnReply(c, r)
              /\ Lose({r.corr}, "discarded")
              /\ UNCHANGED <<at, reply>>
  /\ UNCHANGED <<posted, serverVars, connected, queueVars, charges, failures, restarts>>

\* The connection of a call ends, and with it what its consumer has buffered.
Leave(c, outcome) ==
  /\ at' = [at EXCEPT ![c] = outcome]
  /\ connected' = connected \ {c}
  /\ inbox' = [inbox EXCEPT ![c] = {}]
  /\ Lose(Corrs(inbox[c]), "closed")
  /\ UNCHANGED <<posted, reply, serverVars, queueVars, charges, failures, restarts>>

\* client.Close() and Ok(reply)
Close(c) == at[c] = "returned" /\ c \in connected /\ Leave(c, "ok")

\* The connection of a call is lost, the broker stays up: replies on their way are
\* lost with it (noAck: true), those that arrived can still be dequeued.
CallCut(c) ==
  /\ c \in connected
  /\ connected' = connected \ {c}
  /\ \E L \in SUBSET inbox[c] :
        /\ inbox' = [inbox EXCEPT ![c] = @ \ L]
        /\ Lose(Corrs(L) \ {c}, "closed")
  /\ UNCHANGED <<posted, at, reply, serverVars, queueVars, charges, failures, restarts>>

\* Mutant: a call that lost its connection starts over with the same payment.
CallStartsOver(c) ==
  /\ c \notin connected
  /\ at[c] \in {"connected", "returned"} \/ (at[c] = "waiting" /\ inbox[c] = {})
  /\ Leave(c, "idle")

\* The connection is lost: BasicPublish and Close throw AlreadyClosedException,
\* Dequeue EndOfStreamException once its buffer is empty; BadRequest.
CallFails(c) ==
  /\ c \notin connected
  /\ at[c] \in {"connected", "returned"} \/ (at[c] = "waiting" /\ inbox[c] = {})
  /\ Leave(c, "badRequest")

-----------------------------------------------------------------------------
(* The servers: DirectPaymentCardConsumer                                  *)

\* RabbitMQConsumer.CreateConnection
ServerStart(s) ==
  /\ srv[s] = "down"
  /\ srv' = [srv EXCEPT ![s] = "ready"]
  /\ connected' = connected \cup {s}
  /\ rpcDeclared' = TRUE
  /\ UNCHANGED <<posted, clientVars, held, response, rpcQueue, replyQueue, charges, gone, failures, restarts>>

\* The broker delivers a request, the only one outstanding (prefetchCount: 1) and
\* out of the queue until it is acknowledged, and GetMessageFromQueue dequeues it.
Deliver(s, q) ==
  /\ s \in connected
  /\ srv[s] = "ready"
  /\ srv' = [srv EXCEPT ![s] = "received"]
  /\ held' = [held EXCEPT ![s] = {q}]
  /\ rpcQueue' = rpcQueue \ {q}
  /\ UNCHANGED <<posted, clientVars, response, connected, rpcDeclared, replyQueue, charges, gone, failures, restarts>>

\* MakePayment of the server: the payment is made and a code drawn; without a
\* payment it throws, and the catch clause sets an empty response.
MakePayment(s) ==
  /\ srv[s] = "received"
  /\ srv' = [srv EXCEPT ![s] = "worked"]
  /\ \E q \in held[s] :
        \/ /\ q.body = "card"
           /\ charges' = [charges EXCEPT ![q.corr] = @ + 1]
           /\ response' = [response EXCEPT ![s] = <<q.corr, charges[q.corr] + 1>>]
        \/ /\ q.body = "null"
           /\ response' = [response EXCEPT ![s] = NoAuth]
           /\ UNCHANGED charges
  /\ UNCHANGED <<posted, clientVars, held, connected, queueVars, gone, failures, restarts>>

\* BasicPublish of the finally block
PublishReply(s) ==
  /\ srv[s] = "worked"
  /\ s \in connected
  /\ srv' = [srv EXCEPT ![s] = "replied"]
  /\ \E q \in held[s] : replyQueue' = replyQueue \cup RepliesTo(s, q)
  /\ UNCHANGED <<posted, clientVars, held, response, connected, rpcDeclared, rpcQueue, charges, gone, failures, restarts>>

\* BasicAck of the finally block, and the next turn of ProcessMessages
Ack(s) ==
  /\ srv[s] = "replied"
  /\ s \in connected
  /\ srv' = [srv EXCEPT ![s] = "ready"]
  /\ held' = [held EXCEPT ![s] = {}]
  /\ response' = [response EXCEPT ![s] = NoAuth]
  /\ UNCHANGED <<posted, clientVars, connected, queueVars, charges, gone, failures, restarts>>

\* The process ends; the broker takes back what it has not acknowledged.
Stop(s) ==
  /\ srv' = [srv EXCEPT ![s] = "down"]
  /\ held' = [held EXCEPT ![s] = {}]
  /\ connected' = connected \ {s}
  /\ response' = [response EXCEPT ![s] = NoAuth]
  /\ rpcQueue' = rpcQueue \cup Unacknowledged(s)
  /\ UNCHANGED <<posted, clientVars, rpcDeclared, replyQueue, charges, gone, restarts>>

\* The process is killed, at any point.
Crash(s) ==
  /\ srv[s] # "down"
  /\ failures < MaxFailures
  /\ failures' = failures + 1
  /\ Stop(s)

\* The connection of a server is lost, the broker stays up: what the server has not
\* acknowledged is back in rpc_queue while the server goes on with it.
ServerCut(s) ==
  /\ s \in connected
  /\ failures < MaxFailures
  /\ failures' = failures + 1
  /\ connected' = connected \ {s}
  /\ rpcQueue' = rpcQueue \cup Unacknowledged(s)
  /\ UNCHANGED <<posted, clientVars, serverVars, rpcDeclared, replyQueue, charges, gone, restarts>>

\* Mutant: the server connects again and goes on with the request it has.
ServerReconnects(s) ==
  /\ s \notin connected
  /\ srv[s] \in {"ready", "worked", "replied"}
  /\ connected' = connected \cup {s}
  /\ UNCHANGED <<posted, clientVars, serverVars, queueVars, charges, gone, failures, restarts>>

\* The connection is lost: Dequeue, BasicPublish and BasicAck throw, and nothing
\* in Main catches it.
ServerFails(s) ==
  /\ s \notin connected
  /\ srv[s] \in {"ready", "worked", "replied"}
  /\ UNCHANGED failures
  /\ Stop(s)

-----------------------------------------------------------------------------
(* The broker                                                              *)

\* A reply goes to any of the consumers of rpc_reply, whoever it is for, and is
\* forgotten (noAck: true).
DeliverReply(c, r) ==
  /\ c \in connected
  /\ replyQueue' = replyQueue \ {r}
  /\ inbox' = [inbox EXCEPT ![c] = @ \cup {r}]
  /\ UNCHANGED <<posted, at, reply, serverVars, connected, rpcDeclared, rpcQueue, charges, gone, failures, restarts>>

\* The broker restarts: connections, rpc_queue and every message are lost.
BrokerRestart ==
  /\ restarts < MaxRestarts
  /\ restarts' = restarts + 1
  /\ connected' = {}
  /\ rpcDeclared' = FALSE
  /\ rpcQueue' = {}
  /\ replyQueue' = {}
  /\ UNCHANGED <<posted, clientVars, serverVars, charges, gone, failures>>

-----------------------------------------------------------------------------
CallStep(c) == PublishRequest(c) \/ Dequeue(c) \/ Close(c) \/ CallFails(c)

ServerStep(s) == MakePayment(s) \/ PublishReply(s) \/ Ack(s) \/ ServerFails(s)

DeliverSomeRequest == \E s \in Server : \E q \in rpcQueue : Deliver(s, q)

DeliverSomeReply == \E c \in Client : \E r \in replyQueue : DeliverReply(c, r)

Next ==
  \/ \E c \in Client : CreateConnection(c) \/ ConnectionRefused(c) \/ CallStep(c) \/ CallCut(c)
  \/ \E s \in Server : ServerStart(s) \/ ServerStep(s) \/ Crash(s) \/ ServerCut(s)
  \/ DeliverSomeRequest
  \/ DeliverSomeReply
  \/ BrokerRestart

Spec == Init /\ [][Next]_vars

\* Threads keep running and the broker delivers what it can.  Nothing promises
\* that a server is started.
FairSpec ==
  /\ Spec
  /\ \A c \in Client : WF_vars(CallStep(c))
  /\ \A s \in Server : WF_vars(ServerStep(s))
  /\ WF_vars(DeliverSomeRequest)
  /\ WF_vars(DeliverSomeReply)

-----------------------------------------------------------------------------
TypeOK ==
  /\ posted \in [Client -> Body]
  /\ at \in [Client -> {"idle", "connected", "waiting", "returned", "ok", "badRequest"}]
  /\ reply \in [Client -> Code]
  /\ inbox \in [Client -> SUBSET Reply]
  /\ srv \in [Server -> {"down", "ready", "received", "worked", "replied"}]
  /\ held \in [Server -> SUBSET Request]
  /\ response \in [Server -> Code]
  /\ connected \subseteq Client \cup Server
  /\ rpcDeclared \in BOOLEAN
  /\ rpcQueue \subseteq Request
  /\ replyQueue \subseteq Reply
  /\ charges \in [Client -> Nat]
  /\ gone \in [Client -> SUBSET Loss]
  /\ failures \in 0..MaxFailures
  /\ restarts \in 0..MaxRestarts

-----------------------------------------------------------------------------
(* Properties *)

\* Something is still on its way to call c: its request is queued, a connected
\* server works on it, or a reply is queued or buffered by some call.
Prospect(c) ==
  \/ \E q \in rpcQueue : q.corr = c
  \/ \E s \in Server : /\ s \in connected
                       /\ srv[s] \in {"received", "worked"}
                       /\ \E q \in held[s] : q.corr = c
  \/ \E r \in replyQueue : r.corr = c
  \/ \E d \in Client : \E r \in inbox[d] : r.corr = c

\* Whatever replies the shared queue brings to a call, the code it returns was
\* drawn for a charge of its own payment, and a call without a payment gets none.
PaidBeforeConfirmed ==
  \A c \in Client : at[c] \in {"returned", "ok"} =>
    IF posted[c] = "card"
    THEN \E n \in 1..charges[c] : reply[c] = <<c, n>>
    ELSE reply[c] = NoAuth

\* However connections drop and servers crash, one server at most can still answer a
\* request: of those that work on it only one has its connection, and none of them
\* while the request is queued for another.
OneCanAnswer ==
  \A s \in Server \cap connected :
    /\ held[s] \cap rpcQueue = {}
    /\ \A t \in Server \cap connected : held[s] \cap held[t] # {} => s = t

\* A payment is made once, and once more at most for every time a server crashed or lost
\* its connection before it had acknowledged the request: never for a call that lost its
\* connection, a reply that went to another call, or a restart of the broker.
RechargedByFailureOnly == \A c \in Client : charges[c] <= 1 + failures

\* Another call has been made, which may take replies from the queue all calls share.
OthersCall(c) == \E d \in Client \ {c} : at[d] # "idle"

\* A call with an open connection waits in vain, with no request queued or worked on by
\* a connected server and no reply coming, for one of two reasons: it found no rpc_queue,
\* or another call got its reply.  A server that crashed or was cut off is none.
WaitingHasReason ==
  \A c \in Client \cap connected : at[c] = "waiting" /\ ~Prospect(c) =>
    "unrouted" \in gone[c] \/ (gone[c] # {} /\ OthersCall(c))

\* As long as some server is running in the end, every call that posted its payment
\* returns or fails, if it did not lose its request or reply in one of those two ways.
CallsReturnUnlessLost ==
  <>[](\E s \in Server : srv[s] # "down") =>
    \A c \in Client : at[c] = "waiting" ~> (at[c] \in {"ok", "badRequest"} \/ gone[c] # {})

\* What Program.cs of the consumer says: the result of a payment goes straight
\* back to the user, not to another call that drops it.
ResultsReachTheirCall == \A c \in Client : "discarded" \notin gone[c]

-----------------------------------------------------------------------------
(* The refinement of PaymentCall: a call is open from its request to the      *)
(* return of the controller.                                                 *)
OutcomeOf(c) ==
  CASE at[c] \in {"idle", "connected"}   -> "none"
    [] at[c] \in {"waiting", "returned"} -> "open"
    [] at[c] = "badRequest"              -> "failed"
    [] at[c] = "ok"                      -> IF reply[c] = NoAuth THEN "unpaid" ELSE "paid"

Calls == INSTANCE PaymentCall
           WITH outcome <- [c \in Client |-> OutcomeOf(c)],
                charged <- {c \in Client : charges[c] > 0}

\* Whatever is redelivered, dropped or restarted, the controller keeps the promise
\* of PaymentCall: Ok with a code means charged, Ok without one means never charged.
ImplementsCalls == Calls!Spec

-----------------------------------------------------------------------------
(* The inductive invariant behind the safety properties.                      *)

\* A code that answers call c truthfully.
CodeIsTrue(c, code) ==
  IF posted[c] = "card" THEN \E n \in 1..charges[c] : code = <<c, n>> ELSE code = NoAuth

\* The calls that have posted their payment.
HasPosted(c) == at[c] \notin {"idle", "connected"}

RequestIsTrue(q) == q.body = posted[q.corr] /\ HasPosted(q.corr)

ReplyIsTrue(r) == CodeIsTrue(r.corr, r.code) /\ HasPosted(r.corr)

RepliesAreTrue ==
  /\ \A r \in replyQueue : ReplyIsTrue(r)
  /\ \A c \in Client : \A r \in inbox[c] : ReplyIsTrue(r)

HeldAgrees(s) ==
  /\ srv[s] \in {"down", "ready"} <=> held[s] = {}
  /\ \A q1, q2 \in held[s] : q1 = q2
  /\ \A q \in held[s] : /\ RequestIsTrue(q)
                        /\ srv[s] \in {"worked", "replied"} => CodeIsTrue(q.corr, response[s])

\* The servers that are about to make the payment of call c.
Paying(c) == {s \in Server : srv[s] = "received" /\ \E q \in held[s] : q.corr = c}

\* The requests of call c in rpc_queue, one at most.
Queued(c) == IF \E q \in rpcQueue : q.corr = c THEN 1 ELSE 0

\* Every request queued or held before the payment was made is a charge to come, and
\* only a crash or a lost connection of a server adds one.
ChargesAgree(c) ==
  /\ charges[c] > 0 => posted[c] = "card" /\ HasPosted(c)
  /\ IsFiniteSet(Paying(c))
  /\ charges[c] + Cardinality(Paying(c)) + Queued(c) <= 1 + failures

\* A connected call that waits in vain has lost a message.
LossIsRecorded ==
  \A c \in Client \cap connected : at[c] = "waiting" /\ gone[c] = {} => Prospect(c)

\* Only a call that has begun has a connection.
ConnectedCalls == \A c \in Client \cap connected : at[c] # "idle"

\* Nothing is lost before it is posted, and a reply is discarded by another call, or lost
\* with the connection or the buffer of another call.
LossHasCause ==
  \A c \in Client :
    /\ ~HasPosted(c) => gone[c] = {}
    /\ gone[c] \cap {"discarded", "closed"} # {} => OthersCall(c)

\* Every action of the specification preserves this conjunction.
IInv ==
  /\ TypeOK
  /\ RepliesAreTrue
  /\ \A q \in rpcQueue : RequestIsTrue(q)
  /\ \A s \in Server : HeldAgrees(s)
  /\ OneCanAnswer
  /\ \A c \in Client : ChargesAgree(c)
  /\ PaidBeforeConfirmed
  /\ LossIsRecorded

=============================================================================
