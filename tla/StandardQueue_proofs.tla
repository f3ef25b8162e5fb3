----------------------- MODULE StandardQueue_proofs -------------------------
(***************************************************************************)
(* Proofs about StandardQueue: the inductive invariant IInv, one lemma per *)
(* action that touches a message, and the safety properties that follow.   *)
(***************************************************************************)
EXTENDS StandardQueue, FiniteSetTheorems, TLAPS

USE PerProcessAssumption, BoundAssumption

\* A payment that process p has sent, and the one it sends next.
LEMMA SentFacts ==
  ASSUME IInv, NEW p \in Process
  PROVE  /\ sent[p] \in 0..PerProcess
         /\ \A m : m \in SentBy(p) <=> m \in Payment /\ m[1] = p /\ m[2] <= sent[p]
<1>1. sent[p] \in 0..PerProcess
    BY DEF IInv, TypeOK
<1> QED
    BY <1>1 DEF SentBy, Payment

LEMMA InitInv == Init => IInv
<1> SUFFICES ASSUME Init PROVE IInv
    OBVIOUS
<1>1. TypeOK
    BY DEF Init, TypeOK
<1>2. OnlySent
    BY DEF Init, OnlySent, Somewhere, Has
<1>3. OnePlace
    BY DEF Init, OnePlace, Somewhere, Has, SentBy
<1>4. CountsAgree
    BY FS_EmptySet DEF Init, CountsAgree
<1> QED
    BY <1>1, <1>2, <1>3, <1>4 DEF IInv

\* An action that moves no message and changes neither what is sent nor what is
\* counted keeps everything but the types.
LEMMA NothingMoves ==
  ASSUME IInv, UNCHANGED <<sent, queue, buffer, received, msgCount, counted, lost>>
  PROVE  OnlySent' /\ OnePlace' /\ CountsAgree'
<1>1. \A m : Somewhere(m)' <=> Somewhere(m)
    BY DEF Somewhere, Has
<1>2. \A p : SentBy(p)' = SentBy(p) /\ Has(p)' = Has(p)
    BY DEF SentBy, Has
<1>3. OnlySent'
    BY <1>1 DEF IInv, OnlySent, Payment
<1>4. OnePlace'
    BY <1>1, <1>2 DEF IInv, OnePlace
<1>5. CountsAgree'
    BY <1>1 DEF IInv, CountsAgree
<1> QED
    BY <1>3, <1>4, <1>5

LEMMA StutterInv == IInv /\ UNCHANGED vars => IInv'
<1> SUFFICES ASSUME IInv, UNCHANGED vars PROVE IInv'
    OBVIOUS
<1> USE DEF vars, ownVars, brokerVars
<1>1. TypeOK'
    BY DEF IInv, TypeOK, Payment
<1> QED
    BY <1>1, NothingMoves DEF IInv

LEMMA CreateQueueInv ==
  ASSUME IInv, NEW p \in Process, CreateQueue(p)
  PROVE  IInv'
<1> USE DEF CreateQueue
<1>1. TypeOK'
    BY DEF IInv, TypeOK, Payment
<1> QED
    BY <1>1, NothingMoves DEF IInv

LEMMA SendMessageInv ==
  ASSUME IInv, NEW p \in Process, SendMessage(p)
  PROVE  IInv'
<1> DEFINE new == <<p, sent[p] + 1>>
<1>1. /\ sent[p] \in Nat /\ sent[p] < PerProcess
      /\ queue' = queue \cup {new}
      /\ sent' = [sent EXCEPT ![p] = sent[p] + 1]
      /\ UNCHANGED <<at, received, msgCount, counted, buffer, online, lost, restarts>>
    BY SentFacts DEF SendMessage
<1>2. /\ new \in Payment /\ new[1] = p /\ new[2] = sent[p] + 1
      /\ \A m \in Payment : m[1] = p /\ m[2] = sent[p] + 1 => m = new
    BY <1>1 DEF Payment
<1>3. ~Somewhere(new)
    BY <1>1, <1>2 DEF IInv, OnlySent
<1> HIDE DEF new
<1>4. \A m : Somewhere(m)' <=> Somewhere(m) \/ m = new
    BY <1>1 DEF Somewhere, Has
<1>5. \A q \in Process : sent'[q] = (IF q = p THEN sent[q] + 1 ELSE sent[q]) /\ sent[q] \in Nat
    BY <1>1, SentFacts DEF IInv, TypeOK
<1>6. TypeOK'
    BY <1>1, <1>2 DEF IInv, TypeOK, Payment
<1>7. OnlySent'
  <2> SUFFICES ASSUME NEW m \in Payment, Somewhere(m)' PROVE m[2] <= sent'[m[1]]
      BY DEF OnlySent, Payment
  <2>1. m[1] \in Process /\ m[2] \in Nat
      BY DEF Payment
  <2>2. CASE m = new
      BY <1>2, <1>5, <2>2
  <2>3. CASE Somewhere(m)
      BY <1>5, <2>1, <2>3 DEF IInv, OnlySent
  <2> QED
      BY <1>4, <2>2, <2>3
<1>8. OnePlace'
  <2>1. ASSUME NEW q \in Process, NEW m \in SentBy(q)' PROVE Somewhere(m)'
    <3>1. m \in Payment /\ m[1] = q /\ m[2] <= sent'[q] /\ m[2] \in Nat
        BY <1>6 DEF SentBy, Payment, TypeOK
    <3>2. m \in SentBy(q) \/ m = new
        BY <1>2, <1>5, <3>1, SentFacts
    <3> QED
        BY <1>4, <3>2 DEF IInv, OnePlace
  <2>2. new \notin lost /\ \A q \in Process : new \notin Has(q)
      BY <1>3 DEF Somewhere
  <2>3. \A q : Has(q)' = Has(q)
      BY <1>1 DEF Has
  <2>4. queue' \cap lost' = {}
      BY <1>1, <2>2 DEF IInv, OnePlace
  <2>5. \A q \in Process : Has(q)' \cap (queue \cup lost)' = {}
      BY <1>1, <2>2, <2>3 DEF IInv, OnePlace
  <2>6. \A q \in Process : buffer'[q] \cap received'[q] = {}
      BY <1>1 DEF IInv, OnePlace
  <2>7. \A q, r \in Process : Has(q)' \cap Has(r)' # {} => q = r
      BY <2>3 DEF IInv, OnePlace
  <2> QED
      BY <2>1, <2>4, <2>5, <2>6, <2>7 DEF OnePlace
<1>9. CountsAgree'
  <2>1. IsFiniteSet(queue')
      BY <1>1, FS_AddElement DEF IInv, CountsAgree
  <2> QED
      BY <1>1, <1>4, <2>1 DEF IInv, CountsAgree
<1> QED
    BY <1>6, <1>7, <1>8, <1>9 DEF IInv

LEMMA CountMessagesInv ==
  ASSUME IInv, NEW p \in Process, CountMessages(p)
  PROVE  IInv'
<1> USE DEF CountMessages, brokerVars
<1>1. IsFiniteSet(queue) /\ Cardinality(queue) \in Nat
    BY FS_CardinalityType DEF IInv, CountsAgree
<1>2. TypeOK'
    BY <1>1 DEF IInv, TypeOK, Payment, MessageCount
<1>3. \A m : Somewhere(m)' <=> Somewhere(m)
    BY DEF Somewhere, Has
<1>4. \A q : SentBy(q)' = SentBy(q) /\ Has(q)' = Has(q)
    BY DEF SentBy, Has
<1>5. OnlySent'
    BY <1>3 DEF IInv, OnlySent, Payment
<1>6. OnePlace'
    BY <1>3, <1>4 DEF IInv, OnePlace
<1>7. \A m \in queue : Somewhere(m)
    BY DEF Somewhere
<1>8. CountsAgree'
    BY <1>1, <1>3, <1>7 DEF IInv, TypeOK, CountsAgree, MessageCount
<1> QED
    BY <1>2, <1>5, <1>6, <1>8 DEF IInv

LEMMA BasicConsumeInv ==
  ASSUME IInv, NEW p \in Process, BasicConsume(p)
  PROVE  IInv'
<1> USE DEF BasicConsume, brokerVars
<1>1. TypeOK'
    BY DEF IInv, TypeOK, Payment
<1> QED
    BY <1>1, NothingMoves DEF IInv

LEMMA DeliverInv ==
  ASSUME IInv, NEW p \in Process, NEW m \in queue, Deliver(p, m)
  PROVE  IInv'
<1>1. /\ queue' = queue \ {m}
      /\ buffer' = [buffer EXCEPT ![p] = buffer[p] \cup {m}]
      /\ UNCHANGED <<at, sent, received, msgCount, counted, online, lost, restarts>>
    BY DEF Deliver, AfterDelivery, ownVars
<1>2. /\ m \notin lost
      /\ \A q \in Process : m \notin Has(q)
    BY DEF IInv, OnePlace
<1>3. \A q \in Process : Has(q)' = IF q = p THEN Has(q) \cup {m} ELSE Has(q)
    BY <1>1 DEF IInv, TypeOK, Has
<1>4. TypeOK'
    BY <1>1 DEF IInv, TypeOK, Payment
<1>5. \A n : Somewhere(n)' <=> Somewhere(n)
    BY <1>1, <1>3 DEF Somewhere
<1>6. OnlySent'
    BY <1>1, <1>5 DEF IInv, OnlySent, Payment
<1>7. OnePlace'
  <2>1. \A q \in Process : \A n \in SentBy(q)' : Somewhere(n)'
      BY <1>1, <1>5 DEF IInv, OnePlace, SentBy
  <2>2. queue' \cap lost' = {}
      BY <1>1 DEF IInv, OnePlace
  <2>3. \A q \in Process : buffer'[q] \cap received'[q] = {}
      BY <1>1, <1>2 DEF IInv, TypeOK, OnePlace, Has
  <2>4. \A q \in Process : Has(q)' \cap (queue \cup lost)' = {}
      BY <1>1, <1>2, <1>3 DEF IInv, OnePlace
  <2>5. \A q, r \in Process : Has(q)' \cap Has(r)' # {} => q = r
      BY <1>2, <1>3 DEF IInv, OnePlace
  <2> QED
      BY <2>1, <2>2, <2>3, <2>4, <2>5 DEF OnePlace
<1>8. CountsAgree'
  <2>1. IsFiniteSet(queue')
      BY <1>1, FS_RemoveElement DEF IInv, CountsAgree
  <2> QED
      BY <1>1, <1>5, <2>1 DEF IInv, CountsAgree
<1> QED
    BY <1>4, <1>6, <1>7, <1>8 DEF IInv

LEMMA DequeueInv ==
  ASSUME IInv, NEW p \in Process, Dequeue(p)
  PROVE  IInv'
<1>1. PICK m \in buffer[p] :
        /\ buffer' = [buffer EXCEPT ![p] = buffer[p] \ {m}]
        /\ received' = [received EXCEPT ![p] = received[p] \cup {m}]
    BY DEF Dequeue
<1>2. UNCHANGED <<at, sent, msgCount, counted, queue, online, lost, restarts>>
    BY DEF Dequeue
<1>3. \A q \in Process : Has(q)' = Has(q) /\ buffer'[q] \cap received'[q] = {}
    BY <1>1 DEF IInv, TypeOK, OnePlace, Has
<1>4. TypeOK'
    BY <1>1, <1>2 DEF IInv, TypeOK, Payment
<1>5. \A n : Somewhere(n)' <=> Somewhere(n)
    BY <1>2, <1>3 DEF Somewhere
<1>6. OnlySent'
    BY <1>2, <1>5 DEF IInv, OnlySent, Payment
<1>7. OnePlace'
    BY <1>2, <1>3, <1>5 DEF IInv, OnePlace, SentBy
<1>8. CountsAgree'
  <2>1. IsFiniteSet(received[p] \cup {m})
      BY FS_AddElement DEF IInv, CountsAgree
  <2>2. \A q \in Process : IsFiniteSet(received'[q])
      BY <1>1, <2>1 DEF IInv, TypeOK, CountsAgree
  <2> QED
      BY <1>2, <1>5, <2>2 DEF IInv, CountsAgree
<1> QED
    BY <1>4, <1>6, <1>7, <1>8 DEF IInv

LEMMA ReturnInv ==
  ASSUME IInv, NEW p \in Process, Return(p)
  PROVE  IInv'
<1> USE DEF Return, brokerVars
<1>1. TypeOK'
    BY DEF IInv, TypeOK, Payment
<1> QED
    BY <1>1, NothingMoves DEF IInv

\* The end of a process, by an exception or by somebody
LEMMA StopInv ==
  ASSUME IInv, NEW p \in Process, Stop(p)
  PROVE  IInv'
<1>1. /\ buffer' = [buffer EXCEPT ![p] = {}]
      /\ lost' = lost \cup buffer[p]
      /\ at' = [at EXCEPT ![p] = "ended"]
      /\ online' = online \ {p}
      /\ UNCHANGED <<sent, received, msgCount, counted, queue, restarts>>
    BY DEF Stop
<1>2. \A q \in Process : Has(q)' = IF q = p THEN received[q] ELSE Has(q)
    BY <1>1 DEF IInv, TypeOK, Has
<1>3. TypeOK'
    BY <1>1 DEF IInv, TypeOK, Payment
<1>4. \A n : Somewhere(n)' <=> Somewhere(n)
    BY <1>1, <1>2 DEF Somewhere, Has
<1>5. OnlySent'
    BY <1>1, <1>4 DEF IInv, OnlySent, Payment
<1>6. OnePlace'
  <2>1. \A q \in Process : \A n \in SentBy(q)' : Somewhere(n)'
      BY <1>1, <1>4 DEF IInv, OnePlace, SentBy
  <2>2. queue' \cap lost' = {}
      BY <1>1 DEF IInv, OnePlace, Has
  <2>3. \A q \in Process : buffer'[q] \cap received'[q] = {}
      BY <1>1 DEF IInv, TypeOK, OnePlace
  <2>4. \A q \in Process : Has(q)' \subseteq Has(q)
      BY <1>2 DEF Has
  <2>5. \A q \in Process : Has(q)' \cap buffer[p] = {}
      BY <1>2 DEF IInv, OnePlace, Has
  <2>6. \A q \in Process : Has(q)' \cap (queue \cup lost)' = {}
      BY <1>1, <2>4, <2>5 DEF IInv, OnePlace
  <2>7. \A q, r \in Process : Has(q)' \cap Has(r)' # {} => q = r
      BY <2>4 DEF IInv, OnePlace
  <2> QED
      BY <2>1, <2>2, <2>3, <2>6, <2>7 DEF OnePlace
<1>7. CountsAgree'
    BY <1>1, <1>4 DEF IInv, CountsAgree
<1> QED
    BY <1>3, <1>5, <1>6, <1>7 DEF IInv

LEMMA BrokerRestartInv ==
  ASSUME IInv, BrokerRestart
  PROVE  IInv'
<1> USE DEF BrokerRestart, ownVars
<1>1. TypeOK'
    BY DEF IInv, TypeOK, Payment
<1>2. \A n : Somewhere(n)' <=> Somewhere(n)
    BY DEF Somewhere, Has
<1>3. OnlySent'
    BY <1>2 DEF IInv, OnlySent, Payment
<1>4. OnePlace'
    BY <1>2 DEF IInv, OnePlace, SentBy, Has
<1>5. CountsAgree'
    BY <1>2, FS_EmptySet DEF IInv, CountsAgree
<1> QED
    BY <1>1, <1>3, <1>4, <1>5 DEF IInv

LEMMA StepInv == IInv /\ [Next]_vars => IInv'
<1> SUFFICES ASSUME IInv, [Next]_vars PROVE IInv'
    OBVIOUS
<1>1. ASSUME NEW p \in Process, CreateQueue(p) PROVE IInv'
    BY <1>1, CreateQueueInv
<1>2. ASSUME NEW p \in Process, ProcessStep(p) PROVE IInv'
  <2>1. CASE SendMessage(p)
      BY <2>1, SendMessageInv
  <2>2. CASE CountMessages(p)
      BY <2>2, CountMessagesInv
  <2>3. CASE BasicConsume(p)
      BY <2>3, BasicConsumeInv
  <2>4. CASE Dequeue(p)
      BY <2>4, DequeueInv
  <2>5. CASE Return(p)
      BY <2>5, ReturnInv
  <2>6. CASE Fails(p)
      BY <2>6, StopInv DEF Fails
  <2> QED
      BY <1>2, <2>1, <2>2, <2>3, <2>4, <2>5, <2>6 DEF ProcessStep
<1>3. ASSUME NEW p \in Process, End(p) PROVE IInv'
    BY <1>3, StopInv DEF End
<1>4. CASE DeliverSome
    BY <1>4, DeliverInv DEF DeliverSome
<1>5. CASE BrokerRestart
    BY <1>5, BrokerRestartInv
<1>6. CASE UNCHANGED vars
    BY <1>6, StutterInv
<1> QED
    BY <1>1, <1>2, <1>3, <1>4, <1>5, <1>6 DEF Next

\* IInv holds in every reachable state, for any processes, any number of payments
\* and any number of restarts of the broker.
THEOREM Invariance == Spec => []IInv
<1> QED
    BY InitInv, StepInv, PTL DEF Spec

\* Every variable keeps to its type.
THEOREM TypeCorrect == Spec => []TypeOK
<1>1. IInv => TypeOK
    BY DEF IInv
<1> QED
    BY <1>1, Invariance, PTL

\* A payment that was sent is in one place and never in two: with noAck: true no two
\* processes get the same one, and none disappears but with a connection or the broker.
THEOREM OnePlaceForEach == Spec => []OnePlace
<1>1. IInv => OnePlace
    BY DEF IInv
<1> QED
    BY <1>1, Invariance, PTL

\* A process that has read everything it counted has read enough: if it waits with
\* nothing to read, another process has a message that it counted, or it was lost.
LEMMA StarvingIsRobbed == IInv => StarvesIfRobbed
<1> SUFFICES ASSUME IInv, NEW p \in Process, Starves(p), ~Robbed(p) PROVE FALSE
    BY DEF StarvesIfRobbed
<1>1. counted[p] \subseteq received[p]
  <2> SUFFICES ASSUME NEW m \in counted[p] PROVE m \in received[p]
      OBVIOUS
  <2>1. Somewhere(m)
      BY DEF IInv, CountsAgree
  <2>2. m \notin lost /\ \A q \in Process \ {p} : m \notin Has(q)
      BY DEF Robbed
  <2>3. m \notin queue /\ m \notin buffer[p]
      BY DEF Starves
  <2> QED
      BY <2>1, <2>2, <2>3 DEF Somewhere, Has
<1>2. Cardinality(counted[p]) <= Cardinality(received[p])
    BY <1>1, FS_Subset DEF IInv, CountsAgree
<1>3. msgCount[p] = Cardinality(counted[p])
    BY DEF IInv, CountsAgree
<1> QED
    BY <1>2, <1>3 DEF Starves, HasAll

\* The wait of StandardQueue in vain always has a thief or a loss as its cause.
THEOREM StarvingHasThief == Spec => []StarvesIfRobbed
<1> QED
    BY Invariance, StarvingIsRobbed, PTL

-----------------------------------------------------------------------------
(* The refinement of AtMostOnce                                             *)

\* Who has payment m, or has received it.
HolderOf(m) == {p \in Process : m \in Has(p)}
PlaceBar == [m \in Payment |-> PlaceOf(m)]
HolderBar == [m \in Payment |-> HolderOf(m)]
AtMostBar == <<PlaceBar, HolderBar>>

\* A payment is in one place, whose name says which.
LEMMA PlaceFacts ==
  ASSUME IInv, NEW m \in Payment
  PROVE  /\ PlaceOf(m) \in {"unsent", "queued", "owned", "done", "gone"}
         /\ PlaceOf(m) = "queued" <=> m \in queue
         /\ PlaceOf(m) = "owned" <=> \E p \in Process : m \in buffer[p]
         /\ PlaceOf(m) = "done" <=> \E p \in Process : m \in received[p]
         /\ PlaceOf(m) = "gone" <=> m \in lost
         /\ PlaceOf(m) = "unsent" <=> ~Somewhere(m)
<1>1. \A p, q \in Process : m \in buffer[p] => m \notin received[q]
    BY DEF IInv, OnePlace, Has
<1>2. \A p \in Process : m \in Has(p) => m \notin queue \cup lost
    BY DEF IInv, OnePlace
<1>3. ~(m \in queue /\ m \in lost)
    BY DEF IInv, OnePlace
<1> QED
    BY <1>1, <1>2, <1>3 DEF PlaceOf, Somewhere, Has

LEMMA AtMostOnceInit == Init => Payments!Init
<1> SUFFICES ASSUME Init PROVE Payments!Init
    OBVIOUS
<1>1. \A m \in Payment : PlaceOf(m) = "unsent" /\ HolderOf(m) = {}
    BY DEF Init, PlaceOf, HolderOf, Has
<1> QED
    BY <1>1 DEF Payments!Init, HolderOf

\* What moves no payment moves no copy.
LEMMA NoPaymentMoves ==
  ASSUME UNCHANGED <<queue, buffer, received, lost>>
  PROVE  UNCHANGED AtMostBar
BY DEF AtMostBar, PlaceBar, HolderBar, PlaceOf, HolderOf, Has

\* Moves of one payment, seen in both functions.
LEMMA OneMoves ==
  ASSUME NEW m \in Payment, \A n \in Payment \ {m} : PlaceOf(n)' = PlaceOf(n) /\ HolderOf(n)' = HolderOf(n)
  PROVE  /\ PlaceBar' = [PlaceBar EXCEPT ![m] = PlaceOf(m)']
         /\ HolderBar' = [HolderBar EXCEPT ![m] = HolderOf(m)']
BY DEF PlaceBar, HolderBar, Payment

LEMMA SendMessageSends ==
  ASSUME IInv, IInv', NEW p \in Process, SendMessage(p)
  PROVE  Payments!Send
<1>1. /\ sent[p] \in Nat /\ sent[p] < PerProcess /\ queue' = queue \cup {<<p, sent[p] + 1>>}
      /\ UNCHANGED <<buffer, received, lost>>
    BY SentFacts DEF SendMessage
<1>2. PICK new \in Payment : queue' = queue \cup {new} /\ new[1] = p /\ new[2] = sent[p] + 1
  <2>1. <<p, sent[p] + 1>> \in Payment
      BY <1>1 DEF Payment
  <2>2. <<p, sent[p] + 1>>[1] = p /\ <<p, sent[p] + 1>>[2] = sent[p] + 1
      OBVIOUS
  <2> QED
      BY <1>1, <2>1, <2>2
<1>3. ~Somewhere(new)
    BY <1>1, <1>2 DEF IInv, OnlySent
<1>4. \A m \in Payment : HolderOf(m)' = HolderOf(m)
    BY <1>1 DEF HolderOf, Has
<1>5. \A m \in Payment : m # new => PlaceOf(m)' = PlaceOf(m)
    BY <1>1, <1>2 DEF PlaceOf
<1>6. PlaceOf(new) = "unsent"
    BY <1>3, PlaceFacts
<1>7. PlaceOf(new)' = "queued"
    BY <1>2 DEF PlaceOf
<1>8. \A m \in Payment : PlaceOf(m)' \in Payments!Place
    BY DEF Payments!Place, PlaceOf
<1>9. Payment' = Payment
    BY DEF Payment
<1>10. /\ PlaceBar' \in [Payment -> Payments!Place] /\ HolderBar' = HolderBar
       /\ \A m \in Payment : \/ PlaceBar'[m] = PlaceBar[m]
                             \/ PlaceBar[m] = "unsent" /\ PlaceBar'[m] \in {"queued", "gone"}
    BY <1>4, <1>5, <1>6, <1>7, <1>8, <1>9 DEF PlaceBar, HolderBar
<1> QED
    BY <1>10 DEF Payments!Send, PlaceBar, HolderBar, HolderOf

LEMMA DeliverTakes ==
  ASSUME IInv, NEW p \in Process, NEW m \in queue, Deliver(p, m)
  PROVE  m \in Payment /\ Payments!Take(p, m)
<1>1. /\ queue' = queue \ {m}
      /\ buffer' = [buffer EXCEPT ![p] = buffer[p] \cup {m}]
      /\ UNCHANGED <<received, lost>>
    BY DEF Deliver, AfterDelivery, ownVars
<1>2. /\ m \in Payment /\ m \notin lost /\ \A q \in Process : m \notin Has(q)
      /\ buffer \in [Process -> SUBSET Payment]
    BY DEF IInv, TypeOK, OnePlace
<1>3. \A q \in Process, n \in Payment : n # m => (n \in buffer'[q] <=> n \in buffer[q])
    BY <1>1, <1>2
<1>4. m \in buffer'[p] /\ \A q \in Process \ {p} : buffer'[q] = buffer[q]
    BY <1>1, <1>2
<1>5. ASSUME NEW n \in Payment \ {m} PROVE PlaceOf(n)' = PlaceOf(n) /\ HolderOf(n)' = HolderOf(n)
    BY <1>1, <1>3, <1>5 DEF PlaceOf, HolderOf, Has
<1>6. PlaceOf(m) = "queued" /\ PlaceOf(m)' = "owned"
    BY <1>1, <1>4 DEF PlaceOf
<1>7. HolderOf(m)' = {p}
    BY <1>1, <1>2, <1>4 DEF HolderOf, Has
<1>8. /\ PlaceBar' = [PlaceBar EXCEPT ![m] = "owned"]
      /\ HolderBar' = [HolderBar EXCEPT ![m] = {p}]
      /\ PlaceBar[m] = "queued"
  <2>1. \A n \in Payment \ {m} : PlaceOf(n)' = PlaceOf(n) /\ HolderOf(n)' = HolderOf(n)
      BY <1>5
  <2> QED
      BY <2>1, <1>2, <1>6, <1>7, OneMoves DEF PlaceBar
<1> QED
    BY <1>2, <1>8 DEF Payments!Take, PlaceBar, HolderBar, HolderOf

LEMMA DequeueFinishes ==
  ASSUME IInv, NEW p \in Process, Dequeue(p)
  PROVE  \E m \in Payment : Payments!Finish(m)
<1>1. PICK m \in buffer[p] :
        /\ buffer' = [buffer EXCEPT ![p] = buffer[p] \ {m}]
        /\ received' = [received EXCEPT ![p] = received[p] \cup {m}]
    BY DEF Dequeue
<1>2. UNCHANGED <<queue, lost>>
    BY DEF Dequeue
<1>3. /\ buffer \in [Process -> SUBSET Payment] /\ received \in [Process -> SUBSET Payment]
      /\ m \in Payment /\ m \notin queue /\ \A q \in Process \ {p} : m \notin buffer[q]
    BY DEF IInv, TypeOK, OnePlace, Has
<1>4. \A q \in Process, n \in Payment : n # m =>
        (n \in buffer'[q] <=> n \in buffer[q]) /\ (n \in received'[q] <=> n \in received[q])
    BY <1>1, <1>3
<1>5. ASSUME NEW n \in Payment \ {m} PROVE PlaceOf(n)' = PlaceOf(n) /\ HolderOf(n)' = HolderOf(n)
    BY <1>2, <1>4, <1>5 DEF PlaceOf, HolderOf, Has
<1>6. /\ m \in received'[p] /\ \A q \in Process : m \notin buffer'[q]
      /\ \A q \in Process \ {p} : received'[q] = received[q] /\ buffer'[q] = buffer[q]
    BY <1>1, <1>3
<1>7. PlaceOf(m) = "owned" /\ PlaceOf(m)' = "done"
    BY <1>2, <1>3, <1>6 DEF PlaceOf
<1>8. HolderOf(m)' = HolderOf(m)
    BY <1>1, <1>6 DEF HolderOf, Has
<1>9. PlaceBar' = [PlaceBar EXCEPT ![m] = "done"] /\ PlaceBar[m] = "owned" /\ HolderBar' = HolderBar
  <2>1. \A n \in Payment \ {m} : PlaceOf(n)' = PlaceOf(n) /\ HolderOf(n)' = HolderOf(n)
      BY <1>5
  <2>2. HolderBar' = HolderBar
      BY <2>1, <1>8 DEF HolderBar, Payment
  <2> QED
      BY <2>1, <2>2, <1>3, <1>7, OneMoves DEF PlaceBar
<1>10. Payments!Finish(m)
    BY <1>9 DEF Payments!Finish, Payments!Move, PlaceBar, HolderBar, HolderOf
<1> QED
    BY <1>3, <1>10

\* The end of a process, or of the broker, loses what was unread or in the queue.
LEMMA LossFails ==
  ASSUME IInv, IInv', NEW gone \in SUBSET Payment, lost' = lost \cup gone,
         UNCHANGED received,
         \A m \in Payment \ gone :
           /\ m \in queue' <=> m \in queue
           /\ \A q \in Process : m \in buffer'[q] <=> m \in buffer[q],
         \A m \in gone : PlaceOf(m) \in {"queued", "owned"}
  PROVE  Payments!Fail
<1>1. \A m \in Payment : PlaceOf(m)' \in Payments!Place
    BY PlaceFacts DEF Payments!Place, PlaceOf
<1>2. \A m \in Payment : HolderOf(m)' \in SUBSET Process
    BY DEF HolderOf
<1>3. ASSUME NEW m \in Payment \ gone
      PROVE  PlaceOf(m)' = PlaceOf(m) /\ HolderOf(m)' = HolderOf(m)
    BY <1>3 DEF PlaceOf, HolderOf, Has
<1>4. ASSUME NEW m \in gone
      PROVE  <<PlaceOf(m), PlaceOf(m)'>> \in Payments!Harm(m) /\ HolderOf(m)' = {}
  <2>1. m \in Payment /\ m \in lost'
      OBVIOUS
  <2>2. m \notin queue' /\ \A q \in Process : m \notin Has(q)'
      BY <2>1 DEF IInv, OnePlace
  <2>3. PlaceOf(m)' = "gone"
      BY <2>1, <2>2 DEF PlaceOf, Has
  <2> QED
      BY <2>2, <2>3 DEF Payments!Harm, HolderOf
<1>5. Payment' = Payment
    BY DEF Payment
<1>6. /\ PlaceBar' \in [Payment -> Payments!Place] /\ HolderBar' \in [Payment -> SUBSET Process]
      /\ \A m \in Payment : \/ PlaceBar'[m] = PlaceBar[m] /\ HolderBar'[m] = HolderBar[m]
                            \/ <<PlaceBar[m], PlaceBar'[m]>> \in Payments!Harm(m) /\ HolderBar'[m] = {}
    BY <1>1, <1>2, <1>3, <1>4, <1>5 DEF PlaceBar, HolderBar
<1> QED
    BY <1>6 DEF Payments!Fail, PlaceBar, HolderBar, HolderOf

LEMMA StopFails ==
  ASSUME IInv, IInv', NEW p \in Process, Stop(p)
  PROVE  Payments!Fail
<1>1. /\ buffer' = [buffer EXCEPT ![p] = {}] /\ lost' = lost \cup buffer[p]
      /\ UNCHANGED <<received, queue>>
    BY DEF Stop
<1>2. buffer \in [Process -> SUBSET Payment]
    BY DEF IInv, TypeOK
<1>3. \A m \in Payment \ buffer[p] : \A q \in Process : m \in buffer'[q] <=> m \in buffer[q]
    BY <1>1, <1>2
<1>4. \A m \in buffer[p] : PlaceOf(m) \in {"queued", "owned"}
    BY DEF PlaceOf
<1> QED
    BY <1>1, <1>2, <1>3, <1>4, LossFails

LEMMA BrokerRestartFails ==
  ASSUME IInv, IInv', BrokerRestart
  PROVE  Payments!Fail
<1>1. queue' = {} /\ lost' = lost \cup queue /\ UNCHANGED <<received, buffer>>
    BY DEF BrokerRestart, ownVars
<1>2. queue \in SUBSET Payment /\ \A m \in queue : PlaceOf(m) \in {"queued", "owned"}
    BY DEF IInv, TypeOK, PlaceOf
<1> QED
    BY <1>1, <1>2, LossFails

\* Every step of the processes and the broker is a step of AtMostOnce or leaves it alone.
LEMMA AtMostOnceStep == IInv /\ IInv' /\ [Next]_vars => [Payments!Next]_AtMostBar
<1> SUFFICES ASSUME IInv, IInv', [Next]_vars
             PROVE  Payments!Next \/ UNCHANGED AtMostBar
    OBVIOUS
<1>1. ASSUME NEW p \in Process, CreateQueue(p) PROVE UNCHANGED AtMostBar
    BY <1>1, NoPaymentMoves DEF CreateQueue
<1>2. ASSUME NEW p \in Process, ProcessStep(p) PROVE Payments!Next \/ UNCHANGED AtMostBar
  <2>1. CASE SendMessage(p)
      BY <2>1, SendMessageSends DEF Payments!Next
  <2>2. CASE CountMessages(p) \/ BasicConsume(p) \/ Return(p)
      BY <2>2, NoPaymentMoves DEF CountMessages, BasicConsume, Return, brokerVars
  <2>3. CASE Dequeue(p)
      BY <2>3, DequeueFinishes DEF Payments!Next
  <2>4. CASE Fails(p)
      BY <2>4, StopFails DEF Fails, Payments!Next
  <2> QED
      BY <1>2, <2>1, <2>2, <2>3, <2>4 DEF ProcessStep
<1>3. ASSUME NEW p \in Process, End(p) PROVE Payments!Next
    BY <1>3, StopFails DEF End, Payments!Next
<1>4. CASE DeliverSome
    BY <1>4, DeliverTakes DEF DeliverSome, Payments!Next
<1>5. CASE BrokerRestart
    BY <1>5, BrokerRestartFails DEF Payments!Next
<1>6. CASE UNCHANGED vars
    BY <1>6, NoPaymentMoves DEF vars, ownVars, brokerVars
<1> QED
    BY <1>1, <1>2, <1>3, <1>4, <1>5, <1>6 DEF Next

\* For any processes, payments and restarts of the broker a payment goes to one process
\* at most, is received once, and never comes back when it is lost.
THEOREM StandardQueueImplementsAtMostOnce == Spec => ImplementsAtMostOnce
<1>1. [Payments!Next]_AtMostBar <=> [Payments!Next]_<<PlaceBar, HolderBar>>
    BY DEF AtMostBar
<1>2. IInv /\ IInv' /\ [Next]_vars => [Payments!Next]_<<PlaceBar, HolderBar>>
    BY <1>1, AtMostOnceStep
<1> QED
    BY <1>2, AtMostOnceInit, Invariance, PTL
       DEF Spec, ImplementsAtMostOnce, Payments!Spec, PlaceBar, HolderBar, HolderOf

\* What follows from AtMostOnce
Promise == INSTANCE AtMostOnce_proofs
             WITH Copy <- Payment, Kept <- {}, Worker <- Process,
                  place <- PlaceBar, holder <- HolderBar

\* A payment that the broker has delivered is read by the process that got it, or by
\* nobody: no restart and no end of a process brings it back.
THEOREM DeliveredForGood == Spec => [][Promise!LetGoForGood]_<<PlaceBar, HolderBar>>
<1>1. Payments!Init <=> Promise!Init
    BY DEF Payments!Init, Promise!Init, PlaceBar, HolderBar, HolderOf
<1>2. Payments!Next <=> Promise!Next
    BY DEF Payments!Next, Payments!Send, Payments!Acknowledge, Payments!Finish, Payments!Move,
           Payments!Take, Payments!Fail, Payments!Harm, Payments!Place,
           Promise!Next, Promise!Send, Promise!Acknowledge, Promise!Finish, Promise!Move,
           Promise!Take, Promise!Fail, Promise!Harm, Promise!Place, PlaceBar, HolderBar, HolderOf
<1>3. [Payments!Next]_<<PlaceBar, HolderBar>> <=> [Promise!Next]_<<PlaceBar, HolderBar>>
    BY <1>2
<1>4. Spec => Promise!Spec
    BY <1>1, <1>3, StandardQueueImplementsAtMostOnce, PTL
       DEF ImplementsAtMostOnce, Payments!Spec, Promise!Spec, PlaceBar, HolderBar, HolderOf
<1> QED
    BY <1>4, Promise!LetGoIsForGood, PTL
=============================================================================
