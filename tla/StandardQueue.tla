---------------------------- MODULE StandardQueue ----------------------------
(***************************************************************************)
(* The program StandardQueue of src/src/RabbitMq/Examples, run by several  *)
(* processes.  Each of them sends its payments to one queue, asks the      *)
(* broker how many messages the queue has, subscribes, and then waits for  *)
(* that many messages, its own or those of others.  After that it stays    *)
(* connected until somebody presses Enter, and the broker goes on          *)
(* delivering to it.  The RabbitMQ broker is external: the queue is        *)
(* durable, the messages are not, and with noAck: true a delivered message *)
(* is gone from the queue.                                                 *)
(***************************************************************************)
EXTENDS Naturals, FiniteSets

CONSTANTS
  Process,     \* the processes that run the program
  PerProcess,  \* how many payments each of them sends
  MaxRestarts  \* bound on the restarts of the broker

ASSUME PerProcessAssumption == PerProcess \in Nat
ASSUME BoundAssumption == MaxRestarts \in Nat

VARIABLES
  at,        \* where each process is in Main
  sent,      \* how many payments each process has sent
  queue,     \* the messages ready in the queue
  buffer,    \* what the broker has delivered to each consumer
  received,  \* what each process has dequeued
  msgCount,  \* the number of messages each process waits for
  online,    \* the processes whose connection is open
  counted,   \* history: the messages that were in the queue when it was counted
  lost,      \* history: the messages that went with a connection or the broker
  restarts   \* the restarts so far

ownVars == <<at, sent, received, msgCount, counted>>
brokerVars == <<queue, buffer, online, lost, restarts>>
vars == <<ownVars, brokerVars>>

-----------------------------------------------------------------------------
\* The i-th payment of each process
Payment == Process \X (1..PerProcess)
SentBy(p) == {p} \X (1..sent[p])

\* Mutant: a process waits for as many messages as it has sent.
CountsItsOwn(p) == sent[p]

\* GetMessageCount: QueueDeclare returns the number of messages that are ready.
MessageCount(p) == Cardinality(queue)

\* Mutant: noAck: false, without an acknowledgement.
StaysInQueue(m) == queue

\* What BasicConsume with noAck: true leaves in the queue after a delivery.
AfterDelivery(m) == queue \ {m}

\* Mutant: count <= msgCount
OneMore(p) == Cardinality(received[p]) > msgCount[p]

\* The condition of the loop does not hold any more.
HasAll(p) == Cardinality(received[p]) >= msgCount[p]

-----------------------------------------------------------------------------
Init ==
  /\ at = [p \in Process |-> "idle"]
  /\ sent = [p \in Process |-> 0]
  /\ queue = {}
  /\ buffer = [p \in Process |-> {}]
  /\ received = [p \in Process |-> {}]
  /\ msgCount = [p \in Process |-> 0]
  /\ online = {}
  /\ counted = [p \in Process |-> {}]
  /\ lost = {}
  /\ restarts = 0

CreateQueue(p) ==
  /\ at[p] = "idle"
  /\ at' = [at EXCEPT ![p] = "sending"]
  /\ online' = online \cup {p}
  /\ UNCHANGED <<sent, received, msgCount, counted, queue, buffer, lost, restarts>>

SendMessage(p) ==
  /\ at[p] = "sending"
  /\ p \in online
  /\ sent[p] < PerProcess
  /\ sent' = [sent EXCEPT ![p] = @ + 1]
  /\ queue' = queue \cup {<<p, sent[p] + 1>>}
  /\ UNCHANGED <<at, received, msgCount, counted, buffer, online, lost, restarts>>

\* The first half of Receive: GetMessageCount
CountMessages(p) ==
  /\ at[p] = "sending"
  /\ p \in online
  /\ sent[p] = PerProcess
  /\ at' = [at EXCEPT ![p] = "counted"]
  /\ msgCount' = [msgCount EXCEPT ![p] = MessageCount(p)]
  /\ counted' = [counted EXCEPT ![p] = queue]
  /\ UNCHANGED <<sent, received, brokerVars>>

BasicConsume(p) ==
  /\ at[p] = "counted"
  /\ p \in online
  /\ at' = [at EXCEPT ![p] = "receiving"]
  /\ UNCHANGED <<sent, received, msgCount, counted, brokerVars>>

\* The broker delivers to whichever consumer it likes, also to one that has left
\* its loop.
Deliver(p, m) ==
  /\ p \in online
  /\ at[p] \in {"receiving", "done"}
  /\ m \in queue
  /\ buffer' = [buffer EXCEPT ![p] = @ \cup {m}]
  /\ queue' = AfterDelivery(m)
  /\ UNCHANGED <<ownVars, online, lost, restarts>>

\* consumer.Queue.Dequeue(), which works off what it has although the connection
\* may be lost
Dequeue(p) ==
  /\ at[p] = "receiving"
  /\ ~HasAll(p)
  /\ \E m \in buffer[p] :
       /\ buffer' = [buffer EXCEPT ![p] = @ \ {m}]
       /\ received' = [received EXCEPT ![p] = @ \cup {m}]
  /\ UNCHANGED <<at, sent, msgCount, counted, queue, online, lost, restarts>>

\* Receive returns, and Main waits at Console.ReadLine.
Return(p) ==
  /\ at[p] = "receiving"
  /\ HasAll(p)
  /\ at' = [at EXCEPT ![p] = "done"]
  /\ UNCHANGED <<sent, received, msgCount, counted, brokerVars>>

\* The process ends, and what was delivered to it and not read is lost.
Stop(p) ==
  /\ at' = [at EXCEPT ![p] = "ended"]
  /\ online' = online \ {p}
  /\ buffer' = [buffer EXCEPT ![p] = {}]
  /\ lost' = lost \cup buffer[p]
  /\ UNCHANGED <<sent, received, msgCount, counted, queue, restarts>>

\* The connection is lost: the next call on it throws, and nothing catches that.
Fails(p) ==
  /\ p \notin online
  /\ \/ at[p] \in {"sending", "counted"}
     \/ at[p] = "receiving" /\ ~HasAll(p) /\ buffer[p] = {}
  /\ Stop(p)

\* Somebody presses Enter, or kills the process.
End(p) == at[p] \notin {"idle", "ended"} /\ Stop(p)

\* The broker restarts: connections and messages are lost, the queue is not.
BrokerRestart ==
  /\ restarts < MaxRestarts
  /\ restarts' = restarts + 1
  /\ online' = {}
  /\ queue' = {}
  /\ lost' = lost \cup queue
  /\ UNCHANGED <<ownVars, buffer>>

-----------------------------------------------------------------------------
ProcessStep(p) ==
  \/ SendMessage(p)
  \/ CountMessages(p)
  \/ BasicConsume(p)
  \/ Dequeue(p)
  \/ Return(p)
  \/ Fails(p)

DeliverSome == \E p \in Process : \E m \in queue : Deliver(p, m)

Next ==
  \/ \E p \in Process : CreateQueue(p) \/ ProcessStep(p) \/ End(p)
  \/ DeliverSome
  \/ BrokerRestart

Spec == Init /\ [][Next]_vars

\* Processes keep running and the broker delivers what it can.
FairSpec ==
  /\ Spec
  /\ \A p \in Process : WF_vars(ProcessStep(p))
  /\ WF_vars(DeliverSome)

-----------------------------------------------------------------------------
TypeOK ==
  /\ at \in [Process -> {"idle", "sending", "counted", "receiving", "done", "ended"}]
  /\ sent \in [Process -> 0..PerProcess]
  /\ queue \subseteq Payment
  /\ buffer \in [Process -> SUBSET Payment]
  /\ received \in [Process -> SUBSET Payment]
  /\ msgCount \in [Process -> Nat]
  /\ online \subseteq Process
  /\ counted \in [Process -> SUBSET Payment]
  /\ lost \subseteq Payment
  /\ restarts \in 0..MaxRestarts

-----------------------------------------------------------------------------
(* Properties *)

\* What process p has, read or not
Has(p) == buffer[p] \cup received[p]

\* Message m is in the queue, lost, or with some process.
Somewhere(m) == m \in queue \cup lost \/ \E p \in Process : m \in Has(p)

\* A payment that was sent is in the queue, with one process, or lost with a
\* connection or the broker, and never in two of these places: what one process
\* gets, no other does.
OnePlace ==
  /\ \A p \in Process : \A m \in SentBy(p) : Somewhere(m)
  /\ queue \cap lost = {}
  /\ \A p \in Process :
       /\ buffer[p] \cap received[p] = {}
       /\ Has(p) \cap (queue \cup lost) = {}
       /\ \A q \in Process : Has(p) \cap Has(q) # {} => p = q

\* Process p waits in Dequeue, and neither the queue nor its buffer has a message.
Starves(p) == at[p] = "receiving" /\ ~HasAll(p) /\ queue \cup buffer[p] = {}

\* A message that process p has counted is with another process, or lost.
Robbed(p) ==
  \E m \in counted[p] : m \in lost \/ \E q \in Process \ {p} : m \in Has(q)

\* A process waits in vain only when a message it had counted before it subscribed
\* was taken by another process, which may have read enough already, or was lost.
StarvesIfRobbed == \A p \in Process : Starves(p) => Robbed(p)

\* A process gets as many messages as it has counted, unless it is robbed.
ReturnsUnlessRobbed ==
  \A p \in Process : at[p] = "receiving" ~> at[p] \in {"done", "ended"} \/ Robbed(p)

-----------------------------------------------------------------------------
(* The refinement of AtMostOnce                                               *)

PlaceOf(m) ==
  IF m \in queue THEN "queued"
  ELSE IF \E p \in Process : m \in buffer[p] THEN "owned"
  ELSE IF \E p \in Process : m \in received[p] THEN "done"
  ELSE IF m \in lost THEN "gone" ELSE "unsent"

\* With noAck: true the broker keeps no copy of what it delivers.
Payments == INSTANCE AtMostOnce
              WITH Copy <- Payment, Kept <- {}, Worker <- Process,
                   place  <- [m \in Payment |-> PlaceOf(m)],
                   holder <- [m \in Payment |-> {p \in Process : m \in Has(p)}]

\* Whoever subscribes, ends or restarts, a payment goes to one process at most, is
\* received once, and comes back neither to the queue nor to anybody when it is lost.
ImplementsAtMostOnce == Payments!Spec

-----------------------------------------------------------------------------
(* The inductive invariant behind the safety properties.                      *)

\* Every message was sent, so that a new one is in no place yet.
OnlySent == \A m \in Payment : Somewhere(m) => m[2] <= sent[m[1]]

\* The number a process waits for is that of the messages it has counted.
CountsAgree ==
  /\ IsFiniteSet(queue)
  /\ \A p \in Process :
       /\ IsFiniteSet(received[p])
       /\ IsFiniteSet(counted[p])
       /\ msgCount[p] = Cardinality(counted[p])
       /\ \A m \in counted[p] : Somewhere(m)

\* Every action of the specification preserves this conjunction.
IInv ==
  /\ TypeOK
  /\ OnlySent
  /\ OnePlace
  /\ CountsAgree
=============================================================================
