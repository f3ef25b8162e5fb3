----------------------- MODULE PaymentExamples_proofs -----------------------
(***************************************************************************)
(* Proofs about PaymentExamples: the inductive invariant IInv, one lemma   *)
(* per action, and the safety properties that follow from it.              *)
(***************************************************************************)
EXTENDS PaymentExamples, FiniteSetTheorems, TLAPS

USE ConsumerAssumption, BoundAssumption

\* A consumer of a shared queue, and the one payment it may hold.
LEMMA ConsumerFacts ==
  ASSUME IInv, NEW c \in Consumer
  PROVE  /\ reads[c] \in Source /\ QueueOf(c) \in Queue
         /\ reads[c] # "fanout" => reads[c] \in SharedQueue /\ QueueOf(c) = reads[c]
         /\ reads[c] = "fanout" => QueueOf(c) = c
         /\ held[c] \subseteq Payment /\ unacked[c] \subseteq held[c]
         /\ c \in Queue /\ c \notin SharedQueue
<1>1. /\ reads[c] \in Source
      /\ at[c] \in {"down", "ready", "received", "acked"}
      /\ held[c] \subseteq Payment
    BY DEF IInv, TypeOK
<1>2. unacked[c] \subseteq held[c]
    BY <1>1 DEF IInv, HoldingAgrees
<1> QED
    BY <1>1, <1>2 DEF QueueOf, Source, Queue, SharedQueue

LEMMA InitInv == Init => IInv
<1> SUFFICES ASSUME Init PROVE IInv
    OBVIOUS
<1>1. TypeOK
    BY DEF Init, TypeOK
<1>2. QueuesAgree /\ HoldingAgrees /\ LostIsGone
    BY DEF Init, QueuesAgree, HoldingAgrees, LostIsGone, TakenBy, PublisherOf, SharedQueue
<1>3. OnePlace /\ SubscribersAgree
    BY DEF Init, OnePlace, SubscribersAgree, TakenBy
<1>4. OneLossPerCrash
    BY FS_EmptySet DEF Init, OneLossPerCrash
<1>5. EverySubscriberGetsAll
    BY DEF Init, EverySubscriberGetsAll
<1> QED
    BY <1>1, <1>2, <1>3, <1>4, <1>5 DEF IInv

LEMMA CreateConnectionInv ==
  ASSUME IInv, NEW p \in Publisher, CreateConnection(p)
  PROVE  IInv'
<1> USE DEF CreateConnection, loopVars, historyVars
<1>1. DeclaredBy(p) \subseteq SharedQueue
    BY DEF DeclaredBy
<1>2. TypeOK'
    BY <1>1 DEF IInv, TypeOK, Queue
<1>3. QueuesAgree'
  <2>1. \A s \in SharedQueue : PublisherOf(s) = p => s \in bound'
      BY DEF DeclaredBy
  <2> QED
      BY <2>1 DEF IInv, QueuesAgree
<1>4. HoldingAgrees' /\ LostIsGone' /\ SubscribersAgree' /\ OnePlace'
    BY DEF IInv, HoldingAgrees, LostIsGone, SubscribersAgree, OnePlace, TakenBy
<1>5. OneLossPerCrash' /\ EverySubscriberGetsAll'
    BY DEF IInv, OneLossPerCrash, EverySubscriberGetsAll, TakenBy
<1> QED
    BY <1>2, <1>3, <1>4, <1>5 DEF IInv

LEMMA SendMessageInv ==
  ASSUME IInv, NEW m \in Payment, SendMessage(m)
  PROVE  IInv'
<1> USE DEF SendMessage, loopVars, historyVars
<1>0. /\ goes[m] \in Source /\ m \notin published
      /\ \A q \in Queue : queue[q] \in SUBSET Payment
    BY DEF IInv, TypeOK
<1>1. TypeOK'
    BY <1>0 DEF IInv, TypeOK
<1>2. \A q \in Queue : queue'[q] = IF q \in RoutesTo(m) THEN queue[q] \cup {m} ELSE queue[q]
    OBVIOUS
<1>3. \A q \in RoutesTo(m) : goes[m] = IF q \in Consumer THEN "fanout" ELSE q
    BY <1>0 DEF RoutesTo, Source, SharedQueue
<1>4. QueuesAgree'
    BY <1>2, <1>3 DEF IInv, QueuesAgree
<1>5. HoldingAgrees'
    BY DEF IInv, HoldingAgrees, TakenBy
<1>6. \A c \in Consumer : m \notin TakenBy(c)
    BY <1>0 DEF IInv, HoldingAgrees
<1>7. OnePlace'
  <2> SUFFICES ASSUME NEW c \in Consumer, reads[c] # "fanout"
               PROVE  TakenBy(c) \cap queue'[reads[c]] = {}
      BY DEF IInv, OnePlace, TakenBy
  <2>1. reads[c] \in Queue /\ TakenBy(c) \cap queue[reads[c]] = {}
      BY ConsumerFacts DEF IInv, OnePlace, Queue
  <2> QED
      BY <1>2, <1>6, <2>1
<1>8. LostIsGone'
  <2> SUFFICES ASSUME NEW n \in lost, goes[n] # "fanout"
               PROVE  n \notin queue'[goes[n]]
      BY DEF IInv, LostIsGone, TakenBy
  <2>1. n # m /\ n \notin queue[goes[n]] /\ goes[n] \in Queue
      BY <1>0 DEF IInv, LostIsGone, TypeOK, Source, Queue
  <2> QED
      BY <1>2, <2>1
<1>9. OneLossPerCrash'
  <2> SUFFICES ASSUME NEW n \in published', goes[n] # "fanout"
               PROVE  \/ n \in queue'[goes[n]]
                      \/ \E c \in Consumer : reads[c] = goes[n] /\ n \in TakenBy(c)
                      \/ n \in lost
      BY DEF IInv, OneLossPerCrash, TakenBy
  <2>1. goes[n] \in SharedQueue /\ goes[n] \in Queue
      BY DEF IInv, TypeOK, Source, Queue
  <2>2. CASE n = m
    <3>1. goes[m] \in bound /\ goes[m] \notin Consumer
        BY <2>1, <2>2 DEF IInv, QueuesAgree
    <3> QED
        BY <1>2, <2>1, <2>2, <3>1 DEF RoutesTo
  <2>3. CASE n # m
    <3>1. n \in queue[goes[n]] => n \in queue'[goes[n]]
        BY <1>2, <2>1
    <3> QED
        BY <2>3, <3>1 DEF IInv, OneLossPerCrash
  <2> QED
      BY <2>2, <2>3
<1>10. EverySubscriberGetsAll'
  <2> SUFFICES ASSUME NEW c \in Consumer, reads[c] = "fanout", at[c] # "down",
                      NEW n \in published' \ missed[c], goes[n] = "fanout"
               PROVE  n \in queue'[c] \cup TakenBy(c)
      BY DEF EverySubscriberGetsAll, TakenBy
  <2>1. c \in bound /\ c \in Queue
      BY DEF IInv, QueuesAgree, Queue
  <2>2. CASE n = m
      BY <1>2, <2>1, <2>2 DEF RoutesTo
  <2>3. CASE n # m
    <3>1. n \in queue[c] \cup TakenBy(c)
        BY <2>3 DEF IInv, EverySubscriberGetsAll
    <3> QED
        BY <1>2, <2>1, <3>1
  <2> QED
      BY <2>2, <2>3
<1>11. SubscribersAgree'
    BY <1>2, <1>6 DEF IInv, SubscribersAgree, TakenBy, Queue
<1> QED
    BY <1>1, <1>4, <1>5, <1>7, <1>8, <1>9, <1>10, <1>11 DEF IInv

LEMMA StartInv ==
  ASSUME IInv, NEW c \in Consumer, Start(c)
  PROVE  IInv'
<1> USE DEF Start, sentVars
<1>0. /\ QueueOf(c) \in Queue
      /\ reads[c] = "fanout" => QueueOf(c) = c
      /\ published \subseteq Payment
    BY ConsumerFacts DEF IInv, TypeOK
<1>1. TypeOK'
    BY <1>0 DEF IInv, TypeOK
<1>2. \A d \in Consumer : /\ at'[d] = IF d = c THEN "ready" ELSE at[d]
                          /\ missed'[d] = IF d = c THEN published ELSE missed[d]
    BY DEF IInv, TypeOK
<1>3. QueuesAgree'
    BY <1>0, <1>2 DEF IInv, QueuesAgree
<1>4. HoldingAgrees'
    BY <1>2 DEF IInv, HoldingAgrees, TakenBy
<1>5. LostIsGone' /\ SubscribersAgree' /\ OnePlace' /\ OneLossPerCrash'
    BY DEF IInv, LostIsGone, SubscribersAgree, OnePlace, OneLossPerCrash, TakenBy
<1>6. EverySubscriberGetsAll'
    BY <1>2 DEF IInv, EverySubscriberGetsAll, TakenBy
<1> QED
    BY <1>1, <1>3, <1>4, <1>5, <1>6 DEF IInv

LEMMA DequeueInv ==
  ASSUME IInv, NEW c \in Consumer, NEW m \in Payment, Dequeue(c, m)
  PROVE  IInv'
<1> USE DEF Dequeue, sentVars, historyVars
<1>0. /\ QueueOf(c) \in Queue /\ m \in queue[QueueOf(c)]
      /\ reads[c] # "fanout" => reads[c] \in SharedQueue /\ QueueOf(c) = reads[c]
      /\ reads[c] = "fanout" => QueueOf(c) = c
      /\ held[c] = {}
    BY ConsumerFacts DEF IInv, HoldingAgrees
<1>1. KeptFor(c, m) = IF reads[c] = "fanout" THEN {} ELSE {m}
    BY DEF KeptFor
<1>2. TypeOK'
    BY <1>1 DEF IInv, TypeOK
<1>3. \A d \in Consumer : /\ at'[d] = IF d = c THEN "received" ELSE at[d]
                          /\ held'[d] = IF d = c THEN {m} ELSE held[d]
                          /\ unacked'[d] = IF d = c THEN KeptFor(c, m) ELSE unacked[d]
                          /\ TakenBy(d)' = IF d = c THEN TakenBy(c) \cup {m} ELSE TakenBy(d)
    BY <1>0 DEF IInv, TypeOK, TakenBy
<1>4. \A q \in Queue : queue'[q] = IF q = QueueOf(c) THEN queue[q] \ {m} ELSE queue[q]
    BY DEF IInv, TypeOK
<1>5. m \in published /\ goes[m] = reads[c]
    BY <1>0 DEF IInv, QueuesAgree
<1>6. QueuesAgree'
    BY <1>3, <1>4 DEF IInv, QueuesAgree
<1>7. HoldingAgrees'
    BY <1>1, <1>3, <1>5 DEF IInv, HoldingAgrees
<1>8. reads[c] # "fanout" => /\ m \notin lost
                             /\ \A d \in Consumer : reads[d] # "fanout" => m \notin TakenBy(d)
  <2> SUFFICES ASSUME reads[c] # "fanout"
               PROVE  m \notin lost /\ \A d \in Consumer : reads[d] # "fanout" => m \notin TakenBy(d)
      OBVIOUS
  <2>1. m \notin lost
      BY <1>0, <1>5 DEF IInv, LostIsGone
  <2>2. ASSUME NEW d \in Consumer, reads[d] # "fanout", m \in TakenBy(d) PROVE FALSE
    <3>1. reads[d] = reads[c]
        BY <1>5, <2>2 DEF IInv, HoldingAgrees
    <3> QED
        BY <1>0, <2>2, <3>1 DEF IInv, OnePlace
  <2> QED
      BY <2>1, <2>2
<1>9. LostIsGone'
  <2> SUFFICES ASSUME NEW n \in lost
               PROVE  /\ n \in published /\ goes[n] # "fanout" /\ n \notin queue'[goes[n]]
                      /\ \A d \in Consumer : n \notin TakenBy(d)'
      BY DEF LostIsGone
  <2>1. /\ n \in published /\ goes[n] # "fanout" /\ n \notin queue[goes[n]]
        /\ \A d \in Consumer : n \notin TakenBy(d)
        /\ goes[n] \in Queue
      BY DEF IInv, LostIsGone, TypeOK, Source, Queue
  <2>2. n # m
      BY <1>5, <1>8, <2>1
  <2> QED
      BY <1>3, <1>4, <2>1, <2>2
<1>10. OnePlace'
  <2> SUFFICES ASSUME NEW d \in Consumer, reads[d] # "fanout"
               PROVE  /\ held'[d] \cap processed[d] = {}
                      /\ TakenBy(d)' \cap queue'[reads[d]] = {}
                      /\ \A e \in Consumer :
                           reads[e] # "fanout" /\ TakenBy(d)' \cap TakenBy(e)' # {} => d = e
      BY DEF OnePlace
  <2>1. /\ reads[d] \in Queue /\ reads[d] \in SharedQueue
        /\ held[d] \cap processed[d] = {} /\ TakenBy(d) \cap queue[reads[d]] = {}
        /\ \A e \in Consumer : reads[e] # "fanout" /\ TakenBy(d) \cap TakenBy(e) # {} => d = e
      BY ConsumerFacts DEF IInv, OnePlace, Queue
  <2>2. held'[d] \cap processed[d] = {}
      BY <1>3, <1>8, <2>1 DEF TakenBy
  <2>3. TakenBy(d)' \cap queue'[reads[d]] = {}
      BY <1>0, <1>3, <1>4, <2>1
  <2>4. ASSUME NEW e \in Consumer, reads[e] # "fanout", TakenBy(d)' \cap TakenBy(e)' # {}
        PROVE  d = e
      BY <1>3, <1>8, <2>1, <2>4
  <2> QED
      BY <2>2, <2>3, <2>4
<1>11. OneLossPerCrash'
  <2> SUFFICES ASSUME NEW n \in published, goes[n] # "fanout"
               PROVE  \/ n \in queue'[goes[n]]
                      \/ \E d \in Consumer : reads[d] = goes[n] /\ n \in TakenBy(d)'
                      \/ n \in lost
      BY DEF IInv, OneLossPerCrash
  <2>1. goes[n] \in Queue
      BY DEF IInv, TypeOK, Source, Queue
  <2>2. CASE n = m
      BY <1>3, <1>5, <2>2
  <2>3. CASE n # m
    <3>1. \/ n \in queue[goes[n]]
          \/ \E d \in Consumer : reads[d] = goes[n] /\ n \in TakenBy(d)
          \/ n \in lost
        BY DEF IInv, OneLossPerCrash
    <3> QED
        BY <1>3, <1>4, <2>1, <2>3, <3>1
  <2> QED
      BY <2>2, <2>3
<1>12. EverySubscriberGetsAll'
  <2> SUFFICES ASSUME NEW d \in Consumer, reads[d] = "fanout", at'[d] # "down",
                      NEW n \in published \ missed[d], goes[n] = "fanout"
               PROVE  n \in queue'[d] \cup TakenBy(d)'
      BY DEF EverySubscriberGetsAll
  <2>1. d \in Queue /\ at[d] # "down"
      BY <1>3 DEF Queue
  <2>2. n \in queue[d] \cup TakenBy(d)
      BY <2>1 DEF IInv, EverySubscriberGetsAll
  <2>3. CASE d = c
      BY <1>0, <1>3, <1>4, <2>1, <2>2, <2>3
  <2>4. CASE d # c
    <3>1. d # QueueOf(c)
        BY <1>0, <2>4
    <3> QED
        BY <1>3, <1>4, <2>1, <2>2, <2>4, <3>1
  <2> QED
      BY <2>3, <2>4
<1>13. SubscribersAgree'
  <2> SUFFICES ASSUME NEW d \in Consumer, reads[d] = "fanout"
               PROVE  held'[d] \cap processed[d] = {} /\ TakenBy(d)' \cap queue'[d] = {}
      BY DEF SubscribersAgree
  <2>1. /\ held[d] \cap processed[d] = {} /\ TakenBy(d) \cap queue[d] = {}
        /\ d \in Queue /\ processed[d] \subseteq TakenBy(d)
      BY DEF IInv, SubscribersAgree, Queue, TakenBy
  <2>2. CASE d = c
      BY <1>0, <1>3, <1>4, <2>1, <2>2
  <2>3. CASE d # c
      BY <1>3, <1>4, <2>1, <2>3
  <2> QED
      BY <2>2, <2>3
<1> QED
    BY <1>2, <1>6, <1>7, <1>9, <1>10, <1>11, <1>12, <1>13 DEF IInv

LEMMA AckInv ==
  ASSUME IInv, NEW c \in Consumer, Ack(c)
  PROVE  IInv'
<1> USE DEF Ack, sentVars, historyVars
<1>1. \A d \in Consumer : /\ at'[d] = IF d = c THEN "acked" ELSE at[d]
                          /\ unacked'[d] = IF d = c THEN {} ELSE unacked[d]
                          /\ TakenBy(d)' = TakenBy(d)
    BY DEF IInv, TypeOK, TakenBy, AfterAck
<1>2. TypeOK'
    BY DEF IInv, TypeOK, AfterAck
<1>3. QueuesAgree'
    BY <1>1 DEF IInv, QueuesAgree
<1>4. HoldingAgrees'
    BY <1>1 DEF IInv, HoldingAgrees
<1>5. LostIsGone' /\ OnePlace' /\ OneLossPerCrash' /\ EverySubscriberGetsAll'
    BY <1>1 DEF IInv, LostIsGone, OnePlace, OneLossPerCrash, EverySubscriberGetsAll
<1>6. SubscribersAgree'
    BY <1>1 DEF IInv, SubscribersAgree
<1> QED
    BY <1>2, <1>3, <1>4, <1>5, <1>6 DEF IInv

LEMMA ProcessInv ==
  ASSUME IInv, NEW c \in Consumer, Process(c)
  PROVE  IInv'
<1> USE DEF Process, sentVars, historyVars
<1>1. \A d \in Consumer : /\ at'[d] = IF d = c THEN "ready" ELSE at[d]
                          /\ held'[d] = IF d = c THEN {} ELSE held[d]
                          /\ TakenBy(d)' = TakenBy(d)
    BY DEF IInv, TypeOK, TakenBy
<1>2. TypeOK'
    BY DEF IInv, TypeOK
<1>3. QueuesAgree'
    BY <1>1 DEF IInv, QueuesAgree
<1>4. unacked[c] = {}
    BY DEF IInv, HoldingAgrees
<1>5. HoldingAgrees'
    BY <1>1, <1>4 DEF IInv, HoldingAgrees
<1>6. \A d \in Consumer : held[d] \cap processed[d] = {} => held'[d] \cap processed'[d] = {}
    BY <1>1 DEF IInv, TypeOK
<1>7. OnePlace' /\ SubscribersAgree'
    BY <1>1, <1>6 DEF IInv, OnePlace, SubscribersAgree
<1>8. LostIsGone' /\ OneLossPerCrash' /\ EverySubscriberGetsAll'
    BY <1>1 DEF IInv, LostIsGone, OneLossPerCrash, EverySubscriberGetsAll
<1> QED
    BY <1>2, <1>3, <1>5, <1>7, <1>8 DEF IInv

LEMMA CrashInv ==
  ASSUME IInv, NEW c \in Consumer, Crash(c)
  PROVE  IInv'
<1> USE DEF Crash, sentVars
<1> DEFINE back == IF reads[c] = "fanout" THEN {} ELSE unacked[c]
           gone == IF reads[c] = "fanout" THEN {} ELSE held[c] \ unacked[c]
<1>0. /\ reads[c] # "fanout" => reads[c] \in SharedQueue
      /\ held[c] \subseteq Payment /\ unacked[c] \subseteq held[c]
      /\ c \in Queue /\ c \notin SharedQueue
      /\ \A m \in held[c] : m \in TakenBy(c) /\ m \in published /\ goes[m] = reads[c]
      /\ \A m, n \in held[c] : m = n
    BY ConsumerFacts DEF IInv, HoldingAgrees, TakenBy
<1>1. /\ lost' = lost \cup gone
      /\ \A s \in SharedQueue :
           queue'[s] = IF s = reads[c] THEN queue[s] \cup back ELSE queue[s]
      /\ \A d \in Consumer :
           queue'[d] = IF d = c /\ reads[c] = "fanout" THEN {} ELSE queue[d]
    BY <1>0 DEF IInv, TypeOK, Queue
<1>2. /\ back \subseteq held[c] /\ gone \subseteq held[c] /\ back \cap gone = {}
      /\ reads[c] # "fanout" => held[c] = back \cup gone
      /\ back \cup gone # {} => reads[c] # "fanout"
    BY <1>0
<1> HIDE DEF back, gone
<1>3. \A d \in Consumer : /\ at'[d] = IF d = c THEN "down" ELSE at[d]
                          /\ held'[d] = IF d = c THEN {} ELSE held[d]
                          /\ unacked'[d] = IF d = c THEN {} ELSE unacked[d]
                          /\ TakenBy(d)' = IF d = c THEN processed[c] ELSE TakenBy(d)
    BY DEF IInv, TypeOK, TakenBy
<1>4. \A d \in Consumer : TakenBy(d)' \subseteq TakenBy(d)
    BY <1>3 DEF TakenBy
<1>5. TypeOK'
  <2>1. queue' \in [Queue -> SUBSET Payment]
      BY <1>0 DEF IInv, TypeOK
  <2>2. lost' \subseteq Payment /\ crashes' \in 0..MaxCrashes
      BY <1>0 DEF IInv, TypeOK
  <2> QED
      BY <2>1, <2>2 DEF IInv, TypeOK
<1>6. QueuesAgree'
  <2>1. ASSUME NEW q \in Queue, NEW m \in queue'[q]
        PROVE  m \in published /\ goes[m] = IF q \in Consumer THEN "fanout" ELSE q
    <3>1. CASE m \in queue[q]
        BY <3>1 DEF IInv, QueuesAgree
    <3>2. CASE m \notin queue[q]
      <4>1. q = reads[c] /\ m \in back /\ q \in SharedQueue
          BY <1>1, <2>1, <3>2 DEF Queue
      <4> QED
          BY <1>0, <1>2, <4>1
    <3> QED
        BY <3>1, <3>2
  <2>2. \A s \in SharedQueue : PublisherOf(s) \in publishers => s \in bound'
      BY <1>0 DEF IInv, QueuesAgree
  <2>3. \A d \in Consumer : reads[d] = "fanout" /\ at'[d] # "down" => d \in bound'
      BY <1>3 DEF IInv, QueuesAgree
  <2> QED
      BY <2>1, <2>2, <2>3 DEF QueuesAgree
<1>7. HoldingAgrees'
    BY <1>3, <1>4 DEF IInv, HoldingAgrees
<1>8. LostIsGone'
  <2> SUFFICES ASSUME NEW m \in lost'
               PROVE  /\ m \in published /\ goes[m] # "fanout" /\ m \notin queue'[goes[m]]
                      /\ \A d \in Consumer : m \notin TakenBy(d)'
      BY DEF LostIsGone
  <2>1. CASE m \in lost
    <3>1. /\ m \in published /\ goes[m] # "fanout" /\ m \notin queue[goes[m]]
          /\ \A d \in Consumer : m \notin TakenBy(d)
          /\ goes[m] \in SharedQueue
        BY <2>1 DEF IInv, LostIsGone, TypeOK, Source
    <3>2. m \notin back
        BY <1>0, <1>2, <3>1
    <3> QED
        BY <1>1, <1>4, <3>1, <3>2
  <2>2. CASE m \in gone
    <3>1. m \in held[c] /\ m \notin back /\ reads[c] # "fanout" /\ m \in TakenBy(c)
          /\ m \in published /\ goes[m] = reads[c]
        BY <1>0, <1>2, <2>2
    <3>2. m \notin queue[reads[c]] /\ m \notin processed[c]
        BY <3>1 DEF IInv, OnePlace
    <3>3. m \notin queue'[goes[m]]
        BY <1>0, <1>1, <3>1, <3>2
    <3>4. ASSUME NEW d \in Consumer, m \in TakenBy(d)' PROVE FALSE
      <4>1. m \in TakenBy(d) /\ d # c
          BY <1>3, <1>4, <3>2, <3>4
      <4>2. reads[d] = reads[c]
          BY <3>1, <4>1 DEF IInv, HoldingAgrees
      <4> QED
          BY <3>1, <4>1, <4>2 DEF IInv, OnePlace
    <3> QED
        BY <3>1, <3>3, <3>4
  <2> QED
      BY <1>1, <2>1, <2>2
<1>9. OnePlace'
  <2> SUFFICES ASSUME NEW d \in Consumer, reads[d] # "fanout"
               PROVE  /\ held'[d] \cap processed[d] = {}
                      /\ TakenBy(d)' \cap queue'[reads[d]] = {}
                      /\ \A e \in Consumer :
                           reads[e] # "fanout" /\ TakenBy(d)' \cap TakenBy(e)' # {} => d = e
      BY DEF OnePlace
  <2>1. /\ reads[d] \in SharedQueue
        /\ held[d] \cap processed[d] = {} /\ TakenBy(d) \cap queue[reads[d]] = {}
        /\ \A e \in Consumer : reads[e] # "fanout" /\ TakenBy(d) \cap TakenBy(e) # {} => d = e
      BY ConsumerFacts DEF IInv, OnePlace
  <2>2. held'[d] \cap processed[d] = {}
      BY <1>3, <2>1
  <2>3. TakenBy(d)' \cap back = {}
    <3> SUFFICES ASSUME NEW m \in back, m \in TakenBy(d)' PROVE FALSE
        OBVIOUS
    <3>1. m \in held[c] /\ m \in TakenBy(c) /\ reads[c] # "fanout" /\ m \in TakenBy(d)
        BY <1>0, <1>2, <1>4
    <3>2. d = c
        BY <2>1, <3>1
    <3> QED
        BY <1>3, <2>1, <3>1, <3>2
  <2>4. TakenBy(d)' \cap queue'[reads[d]] = {}
      BY <1>1, <1>4, <2>1, <2>3
  <2> QED
      BY <1>4, <2>1, <2>2, <2>4
<1>10. OneLossPerCrash'
  <2>1. ASSUME NEW n \in published, goes[n] # "fanout"
        PROVE  \/ n \in queue'[goes[n]]
               \/ \E d \in Consumer : reads[d] = goes[n] /\ n \in TakenBy(d)'
               \/ n \in lost'
    <3>1. goes[n] \in SharedQueue
        BY <2>1 DEF IInv, TypeOK, Source
    <3>2. CASE n \in queue[goes[n]] \cup lost
        BY <1>1, <3>1, <3>2
    <3>3. CASE n \notin queue[goes[n]] \cup lost
      <4>1. PICK d \in Consumer : reads[d] = goes[n] /\ n \in TakenBy(d)
          BY <2>1, <3>3 DEF IInv, OneLossPerCrash
      <4>2. CASE d = c /\ n \notin processed[c]
        <5>1. n \in back \cup gone
            BY <1>2, <2>1, <4>1, <4>2 DEF TakenBy
        <5> QED
            BY <1>1, <3>1, <4>1, <4>2, <5>1
      <4>3. CASE ~(d = c /\ n \notin processed[c])
          BY <1>3, <4>1, <4>3
      <4> QED
          BY <4>2, <4>3
    <3> QED
        BY <3>2, <3>3
  <2>2. IsFiniteSet(lost') /\ Cardinality(lost') <= crashes'
    <3>1. IsFiniteSet(lost) /\ Cardinality(lost) <= crashes /\ crashes \in Nat
        BY DEF IInv, OneLossPerCrash, TypeOK
    <3>2. Cardinality(lost) \in Nat
        BY <3>1, FS_CardinalityType
    <3>3. CASE gone = {}
        BY <1>1, <3>1, <3>2, <3>3
    <3>4. CASE gone # {}
      <4>1. PICK m \in gone : TRUE
          BY <3>4
      <4>2. lost' = lost \cup {m}
          BY <1>0, <1>1, <1>2, <4>1
      <4>3. /\ IsFiniteSet(lost \cup {m})
            /\ \/ Cardinality(lost \cup {m}) = Cardinality(lost)
               \/ Cardinality(lost \cup {m}) = Cardinality(lost) + 1
          BY <3>1, FS_AddElement
      <4> QED
          BY <3>1, <3>2, <4>2, <4>3
    <3> QED
        BY <3>3, <3>4
  <2> QED
      BY <2>1, <2>2 DEF OneLossPerCrash
<1>11. EverySubscriberGetsAll'
    BY <1>1, <1>3 DEF IInv, EverySubscriberGetsAll
<1>12. SubscribersAgree'
    BY <1>1, <1>3, <1>4 DEF IInv, SubscribersAgree
<1> QED
    BY <1>5, <1>6, <1>7, <1>8, <1>9, <1>10, <1>11, <1>12 DEF IInv

LEMMA NextInv == IInv /\ [Next]_vars => IInv'
<1> SUFFICES ASSUME IInv, [Next]_vars PROVE IInv'
    OBVIOUS
<1>1. ASSUME NEW p \in Publisher, CreateConnection(p) PROVE IInv'
    BY <1>1, CreateConnectionInv
<1>2. ASSUME NEW m \in Payment, SendMessage(m) PROVE IInv'
    BY <1>2, SendMessageInv
<1>3. ASSUME NEW c \in Consumer, Start(c) \/ ConsumerStep(c) \/ Crash(c) PROVE IInv'
    BY <1>3, StartInv, AckInv, ProcessInv, CrashInv DEF ConsumerStep
<1>4. ASSUME NEW s \in Source, Deliver(s) PROVE IInv'
    BY <1>4, DequeueInv DEF Deliver
<1>5. CASE UNCHANGED vars
  <2> USE <1>5 DEF vars, sentVars, loopVars, historyVars
  <2>1. TypeOK' /\ QueuesAgree' /\ HoldingAgrees' /\ LostIsGone'
      BY DEF IInv, TypeOK, QueuesAgree, HoldingAgrees, LostIsGone, TakenBy
  <2>2. SubscribersAgree' /\ OnePlace' /\ OneLossPerCrash' /\ EverySubscriberGetsAll'
      BY DEF IInv, SubscribersAgree, OnePlace, OneLossPerCrash, EverySubscriberGetsAll, TakenBy
  <2> QED
      BY <2>1, <2>2 DEF IInv
<1> QED
    BY <1>1, <1>2, <1>3, <1>4, <1>5 DEF Next

-----------------------------------------------------------------------------
\* The inductive invariant holds in every reachable state: what the consumers
\* hold, the broker keeps and the queues contain fit together at every moment.
THEOREM Invariance == Spec => []IInv
  BY InitInv, NextInv, PTL DEF Spec

\* Every variable keeps its type.
THEOREM TypeCorrect == Spec => []TypeOK
<1>1. IInv => TypeOK
    BY DEF IInv
<1> QED
    BY <1>1, Invariance, PTL

\* A payment of a shared queue is worked on in one place and never twice, for any
\* number of consumers and crashes: the loop acknowledges before it processes.
THEOREM NothingTwice == Spec => []OnePlace
<1>1. IInv => OnePlace
    BY DEF IInv
<1> QED
    BY <1>1, Invariance, PTL

\* Payments of shared queues are all accounted for, and a crash of a consumer loses
\* one of them at most, the one it has acknowledged and not processed yet.
THEOREM LossesAreBounded == Spec => []OneLossPerCrash
<1>1. IInv => OneLossPerCrash
    BY DEF IInv
<1> QED
    BY <1>1, Invariance, PTL

\* A fanout subscriber gets all that was sent since it has bound its queue.
THEOREM SubscribersGetAll == Spec => []EverySubscriberGetsAll
<1>1. IInv => EverySubscriberGetsAll
    BY DEF IInv
<1> QED
    BY <1>1, Invariance, PTL

-----------------------------------------------------------------------------
(* The refinement of AtMostOnce                                             *)

Copy == Payment \X Queue
PlaceBar == [x \in Copy |-> PlaceOf(x[1], x[2])]
HolderBar == [x \in Copy |-> UsersOf(x[1], x[2])]
CopiesBar == <<PlaceBar, HolderBar>>

\* A copy has one user at most, which keeps it out of its queue; the name of its place
\* says what the consumers do with it.
LEMMA CopyFacts ==
  ASSUME IInv, NEW m \in Payment, NEW q \in Queue
  PROVE  /\ \A c, d \in UsersOf(m, q) : c = d
         /\ m \in queue[q] => UsersOf(m, q) = {} /\ m \in published
         /\ m \notin published => UsersOf(m, q) = {}
         /\ \A c \in UsersOf(m, q) : reads[c] # "fanout" => q \in SharedQueue /\ q = reads[c]
         /\ \A c \in UsersOf(m, q) : reads[c] = "fanout" => q = c /\ q \notin SharedQueue
<1>1. \A c \in UsersOf(m, q) :
        /\ c \in Consumer /\ m \in TakenBy(c) /\ m \in published
        /\ reads[c] # "fanout" => q \in SharedQueue /\ q = reads[c]
        /\ reads[c] = "fanout" => q = c /\ q \notin SharedQueue
    BY ConsumerFacts DEF UsersOf, IInv, HoldingAgrees
<1>2. ASSUME NEW c \in UsersOf(m, q), NEW d \in UsersOf(m, q) PROVE c = d
  <2>1. CASE q \in SharedQueue
      BY <1>1, <2>1 DEF IInv, OnePlace
  <2>2. CASE q \notin SharedQueue
      BY <1>1, <2>2
  <2> QED
      BY <2>1, <2>2
<1>3. ASSUME m \in queue[q], NEW c \in UsersOf(m, q) PROVE FALSE
    BY <1>1, <1>3 DEF IInv, OnePlace, SubscribersAgree
<1>4. m \in queue[q] => m \in published
    BY DEF IInv, QueuesAgree
<1> QED
    BY <1>1, <1>2, <1>3, <1>4

\* A copy whose user is c is where c has it.
LEMMA UserFacts ==
  ASSUME IInv, NEW m \in Payment, NEW q \in Queue, NEW c \in UsersOf(m, q)
  PROVE  /\ PlaceOf(m, q) = IF m \in unacked[c] THEN "unacked"
                            ELSE IF m \in held[c] THEN "owned" ELSE "done"
         /\ UsersOf(m, q) = {c}
<1>1. m \in published /\ m \notin queue[q] /\ \A d \in UsersOf(m, q) : d = c
    BY CopyFacts
<1> QED
    BY <1>1 DEF PlaceOf

LEMMA CopiesInit == Init => Copies!Init
<1> SUFFICES ASSUME Init PROVE Copies!Init
    OBVIOUS
<1>1. \A m \in Payment, q \in Queue : PlaceOf(m, q) = "unsent" /\ UsersOf(m, q) = {}
    BY DEF Init, PlaceOf, UsersOf, TakenBy
<1> QED
    BY <1>1 DEF Copies!Init

\* What leaves the queues and the consumers alone moves no copy.
LEMMA NoCopyMoves ==
  ASSUME UNCHANGED <<reads, published, queue, held, unacked, processed>>
  PROVE  UNCHANGED CopiesBar
<1>1. \A m, q : UsersOf(m, q)' = UsersOf(m, q) /\ PlaceOf(m, q)' = PlaceOf(m, q)
    BY DEF UsersOf, PlaceOf, QueueOf, TakenBy
<1> QED
    BY <1>1 DEF CopiesBar, PlaceBar, HolderBar, Copy, Queue

\* A move of one copy, seen in both functions.
LEMMA OneMoves ==
  ASSUME NEW m \in Payment, NEW q \in Queue,
         \A n \in Payment, r \in Queue : <<n, r>> # <<m, q>> =>
           PlaceOf(n, r)' = PlaceOf(n, r) /\ UsersOf(n, r)' = UsersOf(n, r)
  PROVE  \E x \in Copy : /\ x[1] = m /\ x[2] = q
                         /\ x \in Payment \X SharedQueue <=> q \in SharedQueue
                         /\ PlaceBar[x] = PlaceOf(m, q)
                         /\ PlaceBar' = [PlaceBar EXCEPT ![x] = PlaceOf(m, q)']
                         /\ HolderBar' = [HolderBar EXCEPT ![x] = UsersOf(m, q)']
<1>1. PICK y \in Copy : y = <<m, q>> /\ y[1] = m /\ y[2] = q
  <2>1. <<m, q>> \in Copy
      BY DEF Copy
  <2>2. <<m, q>>[1] = m /\ <<m, q>>[2] = q
      OBVIOUS
  <2> QED
      BY <2>1, <2>2
<1>2. ASSUME NEW x \in Copy, x # y
      PROVE  PlaceOf(x[1], x[2])' = PlaceOf(x[1], x[2]) /\ UsersOf(x[1], x[2])' = UsersOf(x[1], x[2])
    BY <1>1, <1>2 DEF Copy
<1>3. Copy' = Copy
    BY DEF Copy, Queue
<1>4. PlaceBar' = [PlaceBar EXCEPT ![y] = PlaceOf(m, q)']
    BY <1>1, <1>2, <1>3 DEF PlaceBar
<1>5. HolderBar' = [HolderBar EXCEPT ![y] = UsersOf(m, q)']
    BY <1>1, <1>2, <1>3 DEF HolderBar
<1>6. y \in Payment \X SharedQueue <=> q \in SharedQueue
    BY <1>1
<1> QED
    BY <1>1, <1>4, <1>5, <1>6 DEF PlaceBar

\* The copies that both states of a step know are the same.
LEMMA SameCopies == Copy' = Copy
BY DEF Copy, Queue

LEMMA SendMessageSends ==
  ASSUME IInv, NEW m \in Payment, SendMessage(m)
  PROVE  Copies!Send
<1>1. /\ m \notin published /\ published' = published \cup {m}
      /\ queue' = [q \in Queue |-> IF q \in RoutesTo(m) THEN queue[q] \cup {m} ELSE queue[q]]
      /\ UNCHANGED <<reads, held, unacked, processed>>
    BY DEF SendMessage, loopVars, historyVars
<1>2. \A n, q : UsersOf(n, q)' = UsersOf(n, q)
    BY <1>1 DEF UsersOf, QueueOf, TakenBy
<1>3. \A n \in Payment, q \in Queue : n # m => PlaceOf(n, q)' = PlaceOf(n, q)
    BY <1>1, <1>2 DEF PlaceOf
<1>4. \A q \in Queue : PlaceOf(m, q) = "unsent" /\ UsersOf(m, q) = {}
    BY <1>1, CopyFacts DEF PlaceOf
<1>5. \A q \in Queue : PlaceOf(m, q)' \in {"queued", "gone"}
    BY <1>1, <1>2, <1>4 DEF PlaceOf
<1>6. \A n, q : PlaceOf(n, q)' \in Copies!Place
    BY DEF PlaceOf, Copies!Place
<1>7. \A x \in Copy : x[1] \in Payment /\ x[2] \in Queue
    BY DEF Copy
<1>8. /\ PlaceBar' \in [Copy -> Copies!Place] /\ HolderBar' = HolderBar
      /\ \A x \in Copy : \/ PlaceBar'[x] = PlaceBar[x]
                         \/ PlaceBar[x] = "unsent" /\ PlaceBar'[x] \in {"queued", "gone"}
    BY <1>2, <1>3, <1>4, <1>5, <1>6, <1>7, SameCopies DEF PlaceBar, HolderBar
<1> QED
    BY <1>8 DEF Copies!Send, PlaceBar, HolderBar, Copy

LEMMA DequeueTakes ==
  ASSUME IInv, IInv', NEW c \in Consumer, NEW m \in Payment, Dequeue(c, m)
  PROVE  \E x \in Copy : Copies!Take(c, x)
<1>1. /\ m \in queue[QueueOf(c)] /\ at[c] = "ready"
      /\ held' = [held EXCEPT ![c] = {m}]
      /\ unacked' = [unacked EXCEPT ![c] = KeptFor(c, m)]
      /\ queue' = [queue EXCEPT ![QueueOf(c)] = queue[QueueOf(c)] \ {m}]
      /\ UNCHANGED <<reads, published, processed>>
    BY DEF Dequeue, sentVars
<1>2. /\ held \in [Consumer -> SUBSET Payment] /\ unacked \in [Consumer -> SUBSET Payment]
      /\ queue \in [Queue -> SUBSET Payment]
      /\ held[c] = {} /\ unacked[c] = {}
    BY <1>1 DEF IInv, TypeOK, HoldingAgrees
<1>3. PICK q \in Queue : /\ q = QueueOf(c)
                         /\ reads[c] # "fanout" => q \in SharedQueue
                         /\ reads[c] = "fanout" => q \notin SharedQueue
    BY ConsumerFacts
<1>4. /\ held'[c] = {m} /\ unacked'[c] = KeptFor(c, m)
      /\ \A d \in Consumer \ {c} : held'[d] = held[d] /\ unacked'[d] = unacked[d]
      /\ \A r \in Queue : queue'[r] = IF r = q THEN queue[r] \ {m} ELSE queue[r]
      /\ KeptFor(c, m) \subseteq {m}
    BY <1>1, <1>2, <1>3 DEF KeptFor
<1>5. \A d : QueueOf(d)' = QueueOf(d)
    BY <1>1 DEF QueueOf
<1>6. \A n \in Payment, r \in Queue : <<n, r>> # <<m, q>> =>
        \A d \in Consumer : d \in UsersOf(n, r)' <=> d \in UsersOf(n, r)
    BY <1>1, <1>2, <1>3, <1>4, <1>5 DEF UsersOf, TakenBy
<1>7. ASSUME NEW n \in Payment, NEW r \in Queue, <<n, r>> # <<m, q>>
      PROVE  PlaceOf(n, r)' = PlaceOf(n, r) /\ UsersOf(n, r)' = UsersOf(n, r)
  <2>1. UsersOf(n, r)' = UsersOf(n, r)
      BY <1>6, <1>7 DEF UsersOf
  <2>2. n \in queue'[r] <=> n \in queue[r]
      BY <1>4, <1>7
  <2>3. \A d \in UsersOf(n, r) : (n \in held'[d] <=> n \in held[d])
                                 /\ (n \in unacked'[d] <=> n \in unacked[d])
      BY <1>1, <1>2, <1>3, <1>4, <1>7 DEF UsersOf
  <2> QED
      BY <1>1, <2>1, <2>2, <2>3 DEF PlaceOf
<1>8. m \in queue[q] /\ UsersOf(m, q) = {} /\ m \in published
    BY <1>1, <1>3, CopyFacts
<1>9. PlaceOf(m, q) = "queued"
    BY <1>8 DEF PlaceOf
<1>10. c \in UsersOf(m, q)'
    BY <1>3, <1>4, <1>5 DEF UsersOf, TakenBy
<1>11. UsersOf(m, q)' = {c}
  <2>1. \A d \in Consumer \ {c} : d \in UsersOf(m, q)' <=> d \in UsersOf(m, q)
      BY <1>1, <1>4, <1>5 DEF UsersOf, TakenBy
  <2> QED
      BY <1>8, <1>10, <2>1 DEF UsersOf
<1>12. PlaceOf(m, q)' = IF q \in SharedQueue THEN "unacked" ELSE "owned"
    BY <1>1, <1>3, <1>4, <1>8, <1>11 DEF PlaceOf, KeptFor
<1>13. PICK x \in Copy :
         /\ PlaceBar[x] = "queued"
         /\ PlaceBar' = [PlaceBar EXCEPT ![x] = IF x \in Payment \X SharedQueue THEN "unacked" ELSE "owned"]
         /\ HolderBar' = [HolderBar EXCEPT ![x] = {c}]
    BY <1>7, <1>9, <1>11, <1>12, OneMoves
<1> QED
    BY <1>13 DEF Copies!Take, PlaceBar, HolderBar, Copy

LEMMA AckAcknowledges ==
  ASSUME IInv, IInv', NEW c \in Consumer, Ack(c)
  PROVE  \E x \in Copy : Copies!Acknowledge(x)
<1>1. /\ at[c] = "received" /\ reads[c] # "fanout"
      /\ unacked' = [unacked EXCEPT ![c] = {}]
      /\ UNCHANGED <<reads, published, queue, held, processed>>
    BY DEF Ack, AfterAck, sentVars
<1>2. PICK m \in held[c] : held[c] = {m}
    BY <1>1 DEF IInv, HoldingAgrees
<1>3. PICK q \in Queue : q = reads[c] /\ q = QueueOf(c)
    BY <1>1, ConsumerFacts
<1>4. /\ m \in Payment /\ unacked[c] = {m} /\ unacked \in [Consumer -> SUBSET Payment]
      /\ c \in UsersOf(m, q)
    BY <1>1, <1>2, <1>3 DEF IInv, TypeOK, HoldingAgrees, UsersOf, TakenBy
<1>5. \A n, r : UsersOf(n, r)' = UsersOf(n, r)
    BY <1>1 DEF UsersOf, QueueOf, TakenBy
<1>6. /\ \A d \in Consumer \ {c} : unacked'[d] = unacked[d]
      /\ \A n \in Payment \ {m} : n \notin unacked[c] /\ n \notin unacked'[c]
      /\ m \notin unacked'[c]
    BY <1>1, <1>4
<1>7. ASSUME NEW n \in Payment, NEW r \in Queue, <<n, r>> # <<m, q>>
      PROVE  PlaceOf(n, r)' = PlaceOf(n, r) /\ UsersOf(n, r)' = UsersOf(n, r)
  <2>1. \A d \in UsersOf(n, r) : n \in unacked'[d] <=> n \in unacked[d]
      BY <1>3, <1>6, <1>7 DEF UsersOf
  <2> QED
      BY <1>1, <1>5, <2>1 DEF PlaceOf
<1>8. UsersOf(m, q) = {c} /\ PlaceOf(m, q) = "unacked"
    BY <1>4, UserFacts
<1>9. PlaceOf(m, q)' = "owned"
    BY <1>1, <1>2, <1>5, <1>6, <1>8, CopyFacts, <1>4 DEF PlaceOf
<1>10. PICK x \in Copy : /\ PlaceBar[x] = "unacked"
                         /\ PlaceBar' = [PlaceBar EXCEPT ![x] = "owned"]
    BY <1>4, <1>7, <1>8, <1>9, OneMoves
<1>11. HolderBar' = HolderBar
    BY <1>5, SameCopies DEF HolderBar
<1> QED
    BY <1>10, <1>11 DEF Copies!Acknowledge, Copies!Move, PlaceBar, HolderBar, Copy

LEMMA ProcessFinishes ==
  ASSUME IInv, IInv', NEW c \in Consumer, Process(c)
  PROVE  \E x \in Copy : Copies!Finish(x)
<1>1. /\ at[c] \in {"received", "acked"}
      /\ at[c] = "received" => reads[c] = "fanout"
      /\ processed' = [processed EXCEPT ![c] = processed[c] \cup held[c]]
      /\ held' = [held EXCEPT ![c] = {}]
      /\ UNCHANGED <<reads, published, queue, unacked>>
    BY DEF Process, sentVars
<1>2. PICK m \in held[c] : held[c] = {m}
    BY <1>1 DEF IInv, HoldingAgrees
<1>3. PICK q \in Queue : q = QueueOf(c)
    BY <1>1, ConsumerFacts
<1>4. /\ m \in Payment /\ unacked[c] = {} /\ c \in UsersOf(m, q)
      /\ held \in [Consumer -> SUBSET Payment] /\ processed \in [Consumer -> SUBSET Payment]
    BY <1>1, <1>2, <1>3 DEF IInv, TypeOK, HoldingAgrees, UsersOf, TakenBy
<1>5. /\ \A d \in Consumer \ {c} : held'[d] = held[d] /\ processed'[d] = processed[d]
      /\ \A n \in Payment \ {m} : n \notin held[c]
      /\ held'[c] = {} /\ processed'[c] = processed[c] \cup {m}
    BY <1>1, <1>2, <1>4
<1>6. \A n, r : UsersOf(n, r)' = UsersOf(n, r)
    BY <1>1, <1>2, <1>5 DEF UsersOf, QueueOf, TakenBy
<1>7. ASSUME NEW n \in Payment, NEW r \in Queue, <<n, r>> # <<m, q>>
      PROVE  PlaceOf(n, r)' = PlaceOf(n, r) /\ UsersOf(n, r)' = UsersOf(n, r)
  <2>1. \A d \in UsersOf(n, r) : n \in held'[d] <=> n \in held[d]
      BY <1>3, <1>5, <1>7 DEF UsersOf
  <2> QED
      BY <1>1, <1>6, <2>1 DEF PlaceOf
<1>8. UsersOf(m, q) = {c} /\ PlaceOf(m, q) = "owned"
    BY <1>4, UserFacts
<1>9. PlaceOf(m, q)' = "done"
    BY <1>1, <1>4, <1>5, <1>6, <1>8, CopyFacts DEF PlaceOf
<1>10. PICK x \in Copy : /\ PlaceBar[x] = "owned"
                         /\ PlaceBar' = [PlaceBar EXCEPT ![x] = "done"]
    BY <1>4, <1>7, <1>8, <1>9, OneMoves
<1>11. HolderBar' = HolderBar
    BY <1>6, SameCopies DEF HolderBar
<1> QED
    BY <1>10, <1>11 DEF Copies!Finish, Copies!Move, PlaceBar, HolderBar, Copy

\* A crash strikes what the consumer works on, and what is in its exclusive queue.
LEMMA CrashFails ==
  ASSUME IInv, IInv', NEW c \in Consumer, Crash(c)
  PROVE  Copies!Fail
<1>1. /\ held' = [held EXCEPT ![c] = {}] /\ unacked' = [unacked EXCEPT ![c] = {}]
      /\ \/ reads[c] = "fanout" /\ queue' = [queue EXCEPT ![c] = {}]
         \/ reads[c] # "fanout" /\ queue' = [queue EXCEPT ![reads[c]] = queue[reads[c]] \cup unacked[c]]
      /\ UNCHANGED <<reads, published, processed>>
    BY DEF Crash, sentVars
<1>2. /\ held \in [Consumer -> SUBSET Payment] /\ unacked \in [Consumer -> SUBSET Payment]
      /\ queue \in [Queue -> SUBSET Payment]
      /\ unacked[c] \subseteq held[c]
      /\ reads[c] = "fanout" => unacked[c] = {}
      /\ held[c] \cap processed[c] = {}
    BY ConsumerFacts DEF IInv, TypeOK, HoldingAgrees, OnePlace, SubscribersAgree
<1>3. /\ reads[c] # "fanout" => QueueOf(c) = reads[c] /\ QueueOf(c) \in SharedQueue
      /\ reads[c] = "fanout" => QueueOf(c) = c /\ c \notin SharedQueue
      /\ c \in Queue /\ QueueOf(c) \in Queue
    BY ConsumerFacts
<1>4. /\ held'[c] = {} /\ unacked'[c] = {}
      /\ \A d \in Consumer \ {c} : held'[d] = held[d] /\ unacked'[d] = unacked[d]
      /\ \A r \in Queue \ {QueueOf(c)} : queue'[r] = queue[r]
      /\ reads[c] = "fanout" => queue'[QueueOf(c)] = {}
      /\ reads[c] # "fanout" => queue'[QueueOf(c)] = queue[QueueOf(c)] \cup unacked[c]
    BY <1>1, <1>2, <1>3
<1>5. \A d : QueueOf(d)' = QueueOf(d)
    BY <1>1 DEF QueueOf
<1>6. ASSUME NEW n \in Payment, NEW r \in Queue
      PROVE  \/ PlaceOf(n, r)' = PlaceOf(n, r) /\ UsersOf(n, r)' = UsersOf(n, r)
             \/ <<PlaceOf(n, r), PlaceOf(n, r)'>> \in Copies!Harm(<<n, r>>) /\ UsersOf(n, r)' = {}
  <2>0. <<n, r>> \in Payment \X SharedQueue <=> r \in SharedQueue
      OBVIOUS
  <2>1. CASE r = QueueOf(c) /\ n \in held[c]
    <3>1. c \in UsersOf(n, r)
        BY <2>1 DEF UsersOf, TakenBy
    <3>2. /\ UsersOf(n, r) = {c} /\ n \in published /\ n \notin queue[r]
          /\ PlaceOf(n, r) = IF n \in unacked[c] THEN "unacked" ELSE "owned"
        BY <2>1, <3>1, UserFacts, CopyFacts
    <3>3. UsersOf(n, r)' = {}
      <4>1. \A d \in Consumer \ {c} : d \notin UsersOf(n, r)'
          BY <1>1, <1>4, <1>5, <3>2 DEF UsersOf, TakenBy
      <4>2. c \notin UsersOf(n, r)'
          BY <1>1, <1>2, <1>4, <2>1 DEF UsersOf, TakenBy
      <4> QED
          BY <4>1, <4>2 DEF UsersOf
    <3>4. PlaceOf(n, r)' = IF n \in unacked[c] THEN "queued" ELSE "gone"
      <4>1. n \in queue'[r] <=> n \in unacked[c]
          BY <1>2, <1>4, <2>1, <3>2
      <4> QED
          BY <1>1, <3>2, <3>3, <4>1 DEF PlaceOf
    <3>5. n \in unacked[c] => r \in SharedQueue
        BY <1>2, <1>3, <2>1
    <3> QED
        BY <2>0, <3>2, <3>3, <3>4, <3>5 DEF Copies!Harm
  <2>2. CASE r = QueueOf(c) /\ reads[c] = "fanout" /\ n \in queue[r]
    <3>1. UsersOf(n, r) = {} /\ n \in published /\ PlaceOf(n, r) = "queued"
        BY <2>2, CopyFacts DEF PlaceOf
    <3>2. UsersOf(n, r)' = {}
      <4>1. \A d \in Consumer : d \in UsersOf(n, r)' => d \in UsersOf(n, r)
          BY <1>1, <1>4, <1>5 DEF UsersOf, TakenBy
      <4> QED
          BY <3>1, <4>1 DEF UsersOf
    <3>3. PlaceOf(n, r)' = "gone"
        BY <1>1, <1>4, <2>2, <3>1, <3>2 DEF PlaceOf
    <3> QED
        BY <1>3, <2>0, <2>2, <3>1, <3>2, <3>3 DEF Copies!Harm
  <2>3. CASE /\ ~(r = QueueOf(c) /\ n \in held[c])
             /\ ~(r = QueueOf(c) /\ reads[c] = "fanout" /\ n \in queue[r])
    <3>1. n \in queue'[r] <=> n \in queue[r]
        BY <1>2, <1>4, <2>3
    <3>2. \A d \in Consumer : d \in UsersOf(n, r)' <=> d \in UsersOf(n, r)
        BY <1>1, <1>4, <1>5, <2>3 DEF UsersOf, TakenBy
    <3>3. UsersOf(n, r)' = UsersOf(n, r)
        BY <3>2 DEF UsersOf
    <3>4. \A d \in UsersOf(n, r) : (n \in held'[d] <=> n \in held[d])
                                   /\ (n \in unacked'[d] <=> n \in unacked[d])
        BY <1>2, <1>4, <2>3 DEF UsersOf
    <3>5. PlaceOf(n, r)' = PlaceOf(n, r)
        BY <1>1, <3>1, <3>3, <3>4 DEF PlaceOf
    <3> QED
        BY <3>3, <3>5
  <2> QED
      BY <2>1, <2>2, <2>3
<1>7. \A n, r : PlaceOf(n, r)' \in Copies!Place /\ UsersOf(n, r)' \in SUBSET Consumer
    BY DEF PlaceOf, UsersOf, Copies!Place
<1>8. \A x \in Copy : x[1] \in Payment /\ x[2] \in Queue /\ x = <<x[1], x[2]>>
    BY DEF Copy
<1>9. /\ PlaceBar' \in [Copy -> Copies!Place] /\ HolderBar' \in [Copy -> SUBSET Consumer]
      /\ \A x \in Copy : \/ PlaceBar'[x] = PlaceBar[x] /\ HolderBar'[x] = HolderBar[x]
                         \/ <<PlaceBar[x], PlaceBar'[x]>> \in Copies!Harm(x) /\ HolderBar'[x] = {}
  <2>1. PlaceBar' \in [Copy -> Copies!Place] /\ HolderBar' \in [Copy -> SUBSET Consumer]
      BY <1>7, SameCopies DEF PlaceBar, HolderBar
  <2>2. ASSUME NEW x \in Copy
        PROVE  \/ PlaceBar'[x] = PlaceBar[x] /\ HolderBar'[x] = HolderBar[x]
               \/ <<PlaceBar[x], PlaceBar'[x]>> \in Copies!Harm(x) /\ HolderBar'[x] = {}
    <3>1. /\ PlaceBar[x] = PlaceOf(x[1], x[2]) /\ PlaceBar'[x] = PlaceOf(x[1], x[2])'
          /\ HolderBar[x] = UsersOf(x[1], x[2]) /\ HolderBar'[x] = UsersOf(x[1], x[2])'
        BY SameCopies DEF PlaceBar, HolderBar
    <3>2. Copies!Harm(x) = Copies!Harm(<<x[1], x[2]>>)
        BY <1>8
    <3> QED
        BY <1>6, <1>8, <3>1, <3>2
  <2> QED
      BY <2>1, <2>2
<1> QED
    BY <1>9 DEF Copies!Fail, PlaceBar, HolderBar, Copy

\* Every step of the publishers, the consumers and the broker is a step of AtMostOnce
\* or leaves it alone.
LEMMA CopiesStep == IInv /\ IInv' /\ [Next]_vars => [Copies!Next]_CopiesBar
<1> SUFFICES ASSUME IInv, IInv', [Next]_vars PROVE Copies!Next \/ UNCHANGED CopiesBar
    OBVIOUS
<1>1. ASSUME NEW p \in Publisher, CreateConnection(p) PROVE UNCHANGED CopiesBar
    BY <1>1, NoCopyMoves DEF CreateConnection, loopVars
<1>2. ASSUME NEW m \in Payment, SendMessage(m) PROVE Copies!Next
    BY <1>2, SendMessageSends DEF Copies!Next
<1>3. ASSUME NEW c \in Consumer, Start(c) \/ ConsumerStep(c) \/ Crash(c)
      PROVE  Copies!Next \/ UNCHANGED CopiesBar
  <2>1. CASE Start(c)
      BY <2>1, NoCopyMoves DEF Start, sentVars
  <2>2. CASE Ack(c)
      BY <2>2, AckAcknowledges DEF Copies!Next, Copy
  <2>3. CASE Process(c)
      BY <2>3, ProcessFinishes DEF Copies!Next, Copy
  <2>4. CASE Crash(c)
      BY <2>4, CrashFails DEF Copies!Next
  <2> QED
      BY <1>3, <2>1, <2>2, <2>3, <2>4 DEF ConsumerStep
<1>4. ASSUME NEW s \in Source, Deliver(s) PROVE Copies!Next
  <2>1. PICK c \in Consumer, m \in Payment : Dequeue(c, m)
      BY <1>4 DEF Deliver
  <2> QED
      BY <2>1, DequeueTakes DEF Copies!Next, Copy
<1>5. CASE UNCHANGED vars
    BY <1>5, NoCopyMoves DEF vars, sentVars, loopVars
<1> QED
    BY <1>1, <1>2, <1>3, <1>4, <1>5 DEF Next

\* For any publishers, consumers and crashes the copy of a payment that a queue gets is
\* processed once at most, by one consumer, after the broker has let go of it.
THEOREM ExamplesImplementAtMostOnce == Spec => ImplementsAtMostOnce
<1>1. [Copies!Next]_CopiesBar <=> [Copies!Next]_<<PlaceBar, HolderBar>>
    BY DEF CopiesBar
<1>2. IInv /\ IInv' /\ [Next]_vars => [Copies!Next]_<<PlaceBar, HolderBar>>
    BY <1>1, CopiesStep
<1> QED
    BY <1>2, CopiesInit, Invariance, PTL
       DEF Spec, ImplementsAtMostOnce, Copies!Spec, PlaceBar, HolderBar, Copy

\* What follows from AtMostOnce
Promise == INSTANCE AtMostOnce_proofs
             WITH Kept <- Payment \X SharedQueue, Worker <- Consumer,
                  place <- PlaceBar, holder <- HolderBar

\* Once a consumer has acknowledged its copy of a payment, or read it from its exclusive
\* queue, it processes the copy or nobody does: no crash brings it back to anybody.
THEOREM AcknowledgedForGood == Spec => [][Promise!LetGoForGood]_<<PlaceBar, HolderBar>>
<1>1. Copies!Init <=> Promise!Init
    BY DEF Copies!Init, Promise!Init, PlaceBar, HolderBar, Copy
<1>2. Copies!Next <=> Promise!Next
    BY DEF Copies!Next, Copies!Send, Copies!Acknowledge, Copies!Finish, Copies!Move,
           Copies!Take, Copies!Fail, Copies!Harm, Copies!Place,
           Promise!Next, Promise!Send, Promise!Acknowledge, Promise!Finish, Promise!Move,
           Promise!Take, Promise!Fail, Promise!Harm, Promise!Place, PlaceBar, HolderBar, Copy
<1>3. [Copies!Next]_<<PlaceBar, HolderBar>> <=> [Promise!Next]_<<PlaceBar, HolderBar>>
    BY <1>2
<1>4. Spec => Promise!Spec
    BY <1>1, <1>3, ExamplesImplementAtMostOnce, PTL
       DEF ImplementsAtMostOnce, Copies!Spec, Promise!Spec, PlaceBar, HolderBar, Copy
<1> QED
    BY <1>4, Promise!LetGoIsForGood, PTL
=============================================================================
