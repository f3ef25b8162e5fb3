-------------------------- MODULE PaymentExamples --------------------------
(***************************************************************************)
(* The examples of src/src/RabbitMq/Examples that share payments among     *)
(* processes.  WorkerQueue_Consumer processes share one queue,             *)
(* DirectRouting_Subscriber1 and _Subscriber2 read one queue per routing   *)
(* key, and every PublishSubscribe_Subscriber reads an exclusive queue of  *)
(* its own that is deleted when it ends.  The first three acknowledge a    *)
(* payment before they process it, the last one never.  The RabbitMQ       *)
(* broker is external and does not restart here.                           *)
(***************************************************************************)
EXTENDS Naturals, FiniteSets

CONSTANTS
  Payment,    \* the payments and purchase orders the publishers send
  Consumer,   \* the consumer processes, each the name of its exclusive queue
  MaxCrashes  \* bound on the crashes of consumers

\* WorkerQueue_Queue, CardPaymentDirectRouting_Queue, PurchaseOrderDirectRouting_Queue
SharedQueue == {"worker", "card", "order"}
Queue == SharedQueue \cup Consumer

\* A consumer reads a shared queue or what is sent to PublishSubscribe_Exchange.
Source == SharedQueue \cup {"fanout"}
Publisher == {"worker", "direct", "fanout"}

ASSUME ConsumerAssumption == Consumer \cap SharedQueue = {}
ASSUME BoundAssumption == MaxCrashes \in Nat

VARIABLES
  goes,       \* where each payment is sent
  reads,      \* which program each consumer is
  publishers, \* the publishers that have a connection
  bound,      \* the queues that exist, with their bindings
  published,  \* the payments sent so far
  queue,      \* the payments ready in each queue
  at,         \* where each consumer is in its loop
  held,       \* the payment each consumer has dequeued and not processed yet
  unacked,    \* the payment the broker keeps for each consumer until it acknowledges
  processed,  \* the payments each consumer has processed
  missed,     \* history: the payments that were sent before each consumer started
  lost,       \* history: the payments that a crash has lost
  crashes     \* the crashes so far

sentVars == <<publishers, published>>
loopVars == <<at, held, unacked>>
historyVars == <<missed, lost, crashes>>
vars == <<goes, reads, sentVars, bound, queue, loopVars, processed, historyVars>>

-----------------------------------------------------------------------------
PublisherOf(s) == IF s \in {"card", "order"} THEN "direct" ELSE s

\* Mutant: DirectRouting_Publisher leaves its queues to the subscribers.
DeclaresWorkerOnly(p) == IF p = "worker" THEN {"worker"} ELSE {}

\* The queues that CreateConnection of a publisher declares and binds.
DeclaredBy(p) == {q \in SharedQueue : PublisherOf(q) = p}

QueueOf(c) == IF reads[c] = "fanout" THEN c ELSE reads[c]

\* Mutant: a direct exchange in place of the fanout one.
RoutesLikeDirect(m) == {q \in bound : q = goes[m]}

\* The queues that get a copy of payment m.
RoutesTo(m) == {q \in bound : IF goes[m] = "fanout" THEN q \in Consumer ELSE q = goes[m]}

\* What BasicConsume makes the broker keep: noAck is true for fanout only.
KeptFor(c, m) == IF reads[c] = "fanout" THEN {} ELSE {m}

\* Mutant: BasicAck is forgotten.
StillUnacked(c) == unacked[c]

\* channel.BasicAck
AfterAck(c) == {}

-----------------------------------------------------------------------------
Init ==
  /\ goes \in [Payment -> Source]
  /\ reads \in [Consumer -> Source]
  /\ publishers = {}
  /\ bound = {}
  /\ published = {}
  /\ queue = [q \in Queue |-> {}]
  /\ at = [c \in Consumer |-> "down"]
  /\ held = [c \in Consumer |-> {}]
  /\ unacked = [c \in Consumer |-> {}]
  /\ processed = [c \in Consumer |-> {}]
  /\ missed = [c \in Consumer |-> {}]
  /\ lost = {}
  /\ crashes = 0

\* CreateConnection of a publisher
CreateConnection(p) ==
  /\ p \notin publishers
  /\ publishers' = publishers \cup {p}
  /\ bound' = bound \cup DeclaredBy(p)
  /\ UNCHANGED <<goes, reads, published, queue, loopVars, processed, historyVars>>

\* SendMessage: DirectRouting_Publisher sends its payments before its orders.
SendMessage(m) ==
  /\ PublisherOf(goes[m]) \in publishers
  /\ m \notin published
  /\ goes[m] = "order" => \A n \in Payment : goes[n] = "card" => n \in published
  /\ published' = published \cup {m}
  /\ queue' = [q \in Queue |-> IF q \in RoutesTo(m) THEN queue[q] \cup {m} ELSE queue[q]]
  /\ UNCHANGED <<goes, reads, publishers, bound, loopVars, processed, historyVars>>

\* Main of a consumer up to its loop: it declares its queue and binds it.
Start(c) ==
  /\ at[c] = "down"
  /\ at' = [at EXCEPT ![c] = "ready"]
  /\ bound' = bound \cup {QueueOf(c)}
  /\ missed' = [missed EXCEPT ![c] = published]
  /\ UNCHANGED <<goes, reads, sentVars, queue, held, unacked, processed, lost, crashes>>

\* consumer.Queue.Dequeue(): the broker has delivered a payment, the next one only
\* after the last was acknowledged (prefetchCount: 1).  What it delivers to a fanout
\* subscriber ahead of time is lost with its queue, and stays in the queue here.
Dequeue(c, m) ==
  /\ at[c] = "ready"
  /\ unacked[c] = {}
  /\ m \in queue[QueueOf(c)]
  /\ at' = [at EXCEPT ![c] = "received"]
  /\ held' = [held EXCEPT ![c] = {m}]
  /\ unacked' = [unacked EXCEPT ![c] = KeptFor(c, m)]
  /\ queue' = [queue EXCEPT ![QueueOf(c)] = @ \ {m}]
  /\ UNCHANGED <<goes, reads, sentVars, bound, processed, historyVars>>

\* channel.BasicAck, before the payment is processed
Ack(c) ==
  /\ at[c] = "received"
  /\ reads[c] # "fanout"
  /\ at' = [at EXCEPT ![c] = "acked"]
  /\ unacked' = [unacked EXCEPT ![c] = AfterAck(c)]
  /\ UNCHANGED <<goes, reads, sentVars, bound, queue, held, processed, historyVars>>

\* The line that prints the payment, and the next turn of the loop.
Process(c) ==
  /\ at[c] = IF reads[c] = "fanout" THEN "received" ELSE "acked"
  /\ at' = [at EXCEPT ![c] = "ready"]
  /\ processed' = [processed EXCEPT ![c] = @ \cup held[c]]
  /\ held' = [held EXCEPT ![c] = {}]
  /\ UNCHANGED <<goes, reads, sentVars, bound, queue, unacked, historyVars>>

\* A consumer ends: the broker puts back what it has kept for it, or deletes its
\* exclusive queue.
Crash(c) ==
  /\ at[c] # "down"
  /\ crashes < MaxCrashes
  /\ crashes' = crashes + 1
  /\ at' = [at EXCEPT ![c] = "down"]
  /\ held' = [held EXCEPT ![c] = {}]
  /\ unacked' = [unacked EXCEPT ![c] = {}]
  /\ bound' = bound \ {c}
  /\ \/ /\ reads[c] = "fanout"
        /\ queue' = [queue EXCEPT ![c] = {}]
        /\ UNCHANGED lost
     \/ /\ reads[c] # "fanout"
        /\ queue' = [queue EXCEPT ![reads[c]] = @ \cup unacked[c]]
        /\ lost' = lost \cup (held[c] \ unacked[c])
  /\ UNCHANGED <<goes, reads, sentVars, processed, missed>>

-----------------------------------------------------------------------------
ConsumerStep(c) == Ack(c) \/ Process(c)

Deliver(s) == \E c \in Consumer : reads[c] = s /\ \E m \in Payment : Dequeue(c, m)

Next ==
  \/ \E p \in Publisher : CreateConnection(p)
  \/ \E m \in Payment : SendMessage(m)
  \/ \E c \in Consumer : Start(c) \/ ConsumerStep(c) \/ Crash(c)
  \/ \E s \in Source : Deliver(s)

Spec == Init /\ [][Next]_vars

\* Consumers keep running and the broker delivers what it can.
FairSpec ==
  /\ Spec
  /\ \A c \in Consumer : WF_vars(ConsumerStep(c))
  /\ \A s \in SharedQueue : WF_vars(Deliver(s))

-----------------------------------------------------------------------------
TypeOK ==
  /\ goes \in [Payment -> Source]
  /\ reads \in [Consumer -> Source]
  /\ publishers \subseteq Publisher
  /\ bound \subseteq Queue
  /\ published \subseteq Payment
  /\ queue \in [Queue -> SUBSET Payment]
  /\ at \in [Consumer -> {"down", "ready", "received", "acked"}]
  /\ held \in [Consumer -> SUBSET Payment]
  /\ unacked \in [Consumer -> SUBSET Payment]
  /\ processed \in [Consumer -> SUBSET Payment]
  /\ missed \in [Consumer -> SUBSET Payment]
  /\ lost \subseteq Payment
  /\ crashes \in 0..MaxCrashes

-----------------------------------------------------------------------------
(* Properties *)

\* Whoever works on payment m, or has processed it.
TakenBy(c) == held[c] \cup processed[c]

\* A payment of a shared queue is in one place: because it is acknowledged first, no
\* crash makes a second process work on it, and none processes it twice.
OnePlace ==
  \A c \in Consumer : reads[c] # "fanout" =>
    /\ held[c] \cap processed[c] = {}
    /\ TakenBy(c) \cap queue[reads[c]] = {}
    /\ \A d \in Consumer : reads[d] # "fanout" /\ TakenBy(c) \cap TakenBy(d) # {} => c = d

\* A payment sent to a shared queue is in it, taken or lost, whoever was started
\* first; and each crash loses one payment at most.
OneLossPerCrash ==
  /\ \A m \in published : goes[m] # "fanout" =>
       \/ m \in queue[goes[m]]
       \/ \E c \in Consumer : reads[c] = goes[m] /\ m \in TakenBy(c)
       \/ m \in lost
  /\ IsFiniteSet(lost)
  /\ Cardinality(lost) <= crashes

\* A running PublishSubscribe_Subscriber has or gets everything that was sent to the
\* exchange since it started, whatever the other subscribers take.
EverySubscriberGetsAll ==
  \A c \in Consumer : reads[c] = "fanout" /\ at[c] # "down" =>
    \A m \in published \ missed[c] : goes[m] = "fanout" => m \in queue[c] \cup TakenBy(c)

\* As long as some consumer of a shared queue keeps running in the end, a payment in
\* that queue is processed, or lost by a crash.
ProcessedWhileRead ==
  \A s \in SharedQueue :
    (\E c \in Consumer : reads[c] = s /\ <>[](at[c] # "down")) =>
      \A m \in Payment :
        m \in queue[s] ~> (m \in lost \/ \E c \in Consumer : m \in processed[c])

-----------------------------------------------------------------------------
(* The refinement of AtMostOnce: every queue may have a copy of a payment.    *)

\* Who works on the copy of payment m that queue q had, or has processed it
UsersOf(m, q) == {c \in Consumer : QueueOf(c) = q /\ m \in TakenBy(c)}

PlaceOf(m, q) ==
  IF m \notin published THEN "unsent"
  ELSE IF m \in queue[q] THEN "queued"
  ELSE IF \E c \in UsersOf(m, q) : m \in unacked[c] THEN "unacked"
  ELSE IF \E c \in UsersOf(m, q) : m \in held[c] THEN "owned"
  ELSE IF UsersOf(m, q) # {} THEN "done" ELSE "gone"

Copies == INSTANCE AtMostOnce
            WITH Copy    <- Payment \X Queue,
                 Kept    <- Payment \X SharedQueue,
                 Worker  <- Consumer,
                 place   <- [x \in Payment \X Queue |-> PlaceOf(x[1], x[2])],
                 holder  <- [x \in Payment \X Queue |-> UsersOf(x[1], x[2])]

\* In every queue, shared or exclusive, the copy of a payment is processed once at
\* most and by one consumer, after the broker has let go of it; a crash sets it back
\* only before that, and loses it only after.
ImplementsAtMostOnce == Copies!Spec

-----------------------------------------------------------------------------
(* The inductive invariant behind the safety properties.                      *)

\* Queues hold what was sent to them.
QueuesAgree ==
  /\ \A q \in Queue : \A m \in queue[q] :
       /\ m \in published
       /\ goes[m] = IF q \in Consumer THEN "fanout" ELSE q
  /\ \A s \in SharedQueue : PublisherOf(s) \in publishers => s \in bound
  /\ \A c \in Consumer : reads[c] = "fanout" /\ at[c] # "down" => c \in bound

\* A consumer holds one payment, of its own source, while it works on it, and the
\* broker keeps it until the acknowledgement.
HoldingAgrees ==
  \A c \in Consumer :
    /\ at[c] \in {"down", "ready"} => held[c] = {} /\ unacked[c] = {}
    /\ at[c] \in {"received", "acked"} => held[c] # {}
    /\ at[c] = "received" /\ reads[c] # "fanout" => unacked[c] = held[c]
    /\ at[c] = "acked" \/ reads[c] = "fanout" => unacked[c] = {}
    /\ \A m, n \in held[c] : m = n
    /\ \A m \in TakenBy(c) : m \in published /\ goes[m] = reads[c]

\* What a crash has lost is nowhere else.
LostIsGone ==
  \A m \in lost : /\ m \in published
                  /\ goes[m] # "fanout" /\ m \notin queue[goes[m]]
                  /\ \A c \in Consumer : m \notin TakenBy(c)

\* What a PublishSubscribe_Subscriber has dequeued has left its queue, and it has not
\* processed what it still holds.
SubscribersAgree ==
  \A c \in Consumer : reads[c] = "fanout" =>
    /\ held[c] \cap processed[c] = {}
    /\ TakenBy(c) \cap queue[c] = {}

\* Every action of the specification preserves this conjunction.
IInv ==
  /\ TypeOK
  /\ QueuesAgree
  /\ HoldingAgrees
  /\ LostIsGone
  /\ SubscribersAgree
  /\ OnePlace
  /\ OneLossPerCrash
  /\ EverySubscriberGetsAll
=============================================================================
