------------------------ MODULE PriceRequest_proofs ------------------------
(***************************************************************************)
(* Proofs about PriceRequest: the inductive invariant IInv, one lemma per  *)
(* action, and the safety properties that follow from it.                  *)
(***************************************************************************)
EXTENDS PriceRequest, TLAPS

USE WeightAssumption, RetriesAssumption, ProcessAssumption

\* Messages do not change but for their retries and who holds them.
LEMMA Retried ==
  ASSUME NEW m \in Message, NEW t \in 0..MaxRetries, NEW h,
         m.kind = "request" => h \in {Nobody, Order},
         m.kind = "reply" => h \in Domain \cup {Nobody}
  PROVE  /\ Put(m, t, h) \in Message
         /\ Put(m, t, h).call = m.call
         /\ Put(m, t, h).kind = m.kind
         /\ Put(m, t, h).value = m.value
         /\ Put(m, t, h).retries = t
         /\ Put(m, t, h).holder = h
BY DEF Message, Request, Reply, Put

\* What the messages are made of.
LEMMA MessageFacts ==
  ASSUME NEW m \in Message
  PROVE  /\ m.kind \in {"request", "reply"}
         /\ m.call \in Call
         /\ m.retries \in 0..MaxRetries
         /\ m.kind = "request" => m.value \in Weight /\ m.holder \in {Nobody, Order}
         /\ m.kind = "reply" => m.value \in {6, 10} /\ m.holder \in Domain \cup {Nobody}
BY DEF Message, Request, Reply

LEMMA InitInv == Init => IInv
<1> SUFFICES ASSUME Init PROVE IInv
    OBVIOUS
<1>1. TypeOK
    BY DEF Init, TypeOK
<1>2. PriceIsOwn /\ WaitingHasReason /\ RepliesComeHome /\ MessagesAgree /\ OneDomain
    BY DEF Init, PriceIsOwn, WaitingHasReason, RepliesComeHome, MessagesAgree, OneDomain, Waiting
<1>3. CallbacksAgree /\ OneMessage
    BY DEF Init, CallbacksAgree, OneMessage, Waiting
<1> QED
    BY <1>1, <1>2, <1>3 DEF IInv

\* Putting n in the place of a message m of the same call and content, wherever
\* both are, keeps the invariant.  Retries and the error queue do nothing else.
LEMMA ReplacedInv ==
  ASSUME IInv, NEW m \in messages \cup errorQueue, NEW n \in Message,
         n.call = m.call, n.kind = m.kind, n.value = m.value,
         messages' \cup errorQueue' = ((messages \cup errorQueue) \ {m}) \cup {n},
         messages' \cap errorQueue' = {},
         messages' \subseteq messages \cup {n}, errorQueue' \subseteq errorQueue \cup {n},
         n \in errorQueue' => n.retries = MaxRetries /\ n.holder = Nobody,
         n.holder \in Domain => n.holder \in running,
         m.kind = "reply" /\ Waiting(m.call) /\ ~overlapped => n.retries = 0 /\ n \in messages',
         UNCHANGED <<callVars, domainVars, callbacks, lossVars>>
  PROVE  IInv'
<1> USE DEF callVars, domainVars, lossVars
<1>0. m \in Message /\ m.call \in Call
    BY MessageFacts DEF IInv, TypeOK
<1>1. TypeOK'
    BY DEF IInv, TypeOK
<1>2. PriceIsOwn' /\ CallbacksAgree' /\ OneDomain'
    BY DEF IInv, PriceIsOwn, CallbacksAgree, OneDomain, Waiting
<1>3. \A c \in Call : (MessagesOf(c) = {}) <=> (MessagesOf(c)' = {})
    BY DEF MessagesOf
<1>4. WaitingHasReason'
    BY <1>3 DEF IInv, WaitingHasReason, Waiting
<1>5. \A k \in messages' \cup errorQueue' : k = n \/ k \in (messages \cup errorQueue) \ {m}
    OBVIOUS
<1>6. OneMessage'
    BY <1>5 DEF IInv, OneMessage
<1>7. MessagesAgree'
    BY <1>5 DEF IInv, MessagesAgree
<1>8. RepliesComeHome'
  <2> SUFFICES ASSUME ~overlapped, NEW c \in Call, Waiting(c),
                      NEW k \in messages' \cup errorQueue', k.call = c, k.kind = "reply"
               PROVE  k.retries = 0 /\ k \in messages'
      BY DEF IInv, RepliesComeHome, MessagesOf, Waiting
  <2>1. CASE k = n
      BY <2>1
  <2>2. CASE k \in (messages \cup errorQueue) \ {m}
    <3>1. k \in MessagesOf(c)
        BY <2>2 DEF MessagesOf
    <3>2. k.retries = 0 /\ k \in messages
        BY <3>1 DEF IInv, RepliesComeHome
    <3>3. k # n
        BY <2>2 DEF IInv, OneMessage
    <3>4. k \notin errorQueue'
        BY <3>2, <3>3 DEF IInv, OneMessage
    <3> QED
        BY <3>2, <3>4
  <2> QED
      BY <1>5, <2>1, <2>2
<1> QED
    BY <1>1, <1>2, <1>4, <1>6, <1>7, <1>8 DEF IInv

\* A message that takes the place of another of its call is not in the error queue.
LEMMA ReplacementIsNew ==
  ASSUME IInv, NEW m \in messages, NEW n, n.call = m.call,
         messages' = (messages \ {m}) \cup {n}, errorQueue' = errorQueue
  PROVE  /\ n \notin errorQueue /\ m \notin errorQueue
         /\ messages' \cap errorQueue' = {}
BY DEF IInv, OneMessage

LEMMA FailsInv ==
  ASSUME IInv, NEW m \in messages, NEW p \in Domain \cup {Order}, Fails(m, p),
         m.kind = "request" => p = Order,
         m.kind = "reply" => p \in running,
         m.kind = "reply" /\ Waiting(m.call) => overlapped,
         m.holder = Nobody
  PROVE  IInv'
<1>0. m \in Message /\ m.retries \in 0..MaxRetries /\ m \notin errorQueue
    BY MessageFacts DEF IInv, TypeOK, OneMessage
<1>1. CASE /\ m.retries = MaxRetries
           /\ messages' = messages \ {m}
           /\ errorQueue' = errorQueue \cup {m}
  <2>1. /\ messages' \cap errorQueue' = {} /\ m \notin messages'
        /\ messages' \cup errorQueue' = ((messages \cup errorQueue) \ {m}) \cup {m}
      BY <1>0, <1>1 DEF IInv, OneMessage
  <2> QED
      BY <1>0, <1>1, <2>1, ReplacedInv, ProcessAssumption DEF Fails
<1>2. CASE /\ m.retries < MaxRetries
           /\ messages' = (messages \ {m}) \cup {Put(m, m.retries + 1, p)}
           /\ UNCHANGED errorQueue
  <2> DEFINE n == Put(m, m.retries + 1, p)
  <2>1. /\ n \in Message /\ n.call = m.call /\ n.kind = m.kind /\ n.value = m.value
        /\ n.holder = p
    <3>1. m.retries + 1 \in 0..MaxRetries
        BY <1>0, <1>2
    <3>2. PICK t \in 0..MaxRetries : t = m.retries + 1
        BY <3>1
    <3>3. m.kind = "reply" => p \in Domain \cup {Nobody}
        BY DEF IInv, TypeOK
    <3>4. /\ Put(m, t, p) \in Message
          /\ Put(m, t, p).call = m.call /\ Put(m, t, p).kind = m.kind
          /\ Put(m, t, p).value = m.value /\ Put(m, t, p).holder = p
        BY <1>0, <3>3, Retried
    <3> QED
        BY <3>2, <3>4
  <2>2. n.holder \in Domain => n.holder \in running
      BY <1>0, <2>1, MessageFacts
  <2>3. messages' = (messages \ {m}) \cup {n} /\ errorQueue' = errorQueue
      BY <1>2
  <2> HIDE DEF n
  <2>4. n \notin errorQueue' /\ messages' \cap errorQueue' = {}
      BY <2>1, <2>3, ReplacementIsNew
  <2> QED
      BY <1>0, <2>1, <2>2, <2>3, <2>4, ReplacedInv DEF Fails
<1> QED
    BY <1>1, <1>2 DEF Fails

LEMMA RequestFailsInv ==
  ASSUME IInv, NEW m \in messages, RequestFails(m)
  PROVE  IInv'
BY FailsInv DEF RequestFails

LEMMA ReplyFailsInv ==
  ASSUME IInv, NEW d \in Domain, NEW m \in messages, ReplyFails(d, m)
  PROVE  IInv'
<1>1. m \in Message /\ m.call \in Call /\ m.kind = "reply" /\ d \in running
    BY MessageFacts DEF ReplyFails, IInv, TypeOK
<1>2. Waiting(m.call) => overlapped
  <2> SUFFICES ASSUME Waiting(m.call), ~overlapped PROVE FALSE
      BY DEF IInv, TypeOK
  <2>1. PICK e \in Domain : m.call \in callbacks[e]
      BY <1>1 DEF IInv, CallbacksAgree
  <2>2. e \in running
      BY <2>1 DEF IInv, CallbacksAgree
  <2> QED
      BY <1>1, <2>1, <2>2 DEF ReplyFails, IInv, OneDomain
<1> QED
    BY <1>1, <1>2, FailsInv DEF ReplyFails

LEMMA RetryDueInv ==
  ASSUME IInv, NEW m \in messages, RetryDue(m)
  PROVE  IInv'
<1>0. m \in Message /\ m.retries \in 0..MaxRetries
    BY MessageFacts DEF IInv, TypeOK
<1> DEFINE n == Put(m, m.retries, Nobody)
<1>1. n = Put(m, m.retries, Nobody)
    OBVIOUS
<1>2. /\ n \in Message /\ n.call = m.call /\ n.kind = m.kind /\ n.value = m.value
      /\ n.retries = m.retries /\ n.holder = Nobody
    BY <1>0, Retried
<1> HIDE DEF n
<1>4. messages' = (messages \ {m}) \cup {n} /\ errorQueue' = errorQueue
    BY <1>1 DEF RetryDue
<1>3. n \notin errorQueue /\ m \notin errorQueue
    BY <1>2, <1>4, ReplacementIsNew
<1>5. messages' \cap errorQueue' = {}
    BY <1>2, <1>4, ReplacementIsNew
<1>6. m.kind = "reply" /\ Waiting(m.call) /\ ~overlapped => m.retries = 0
    BY <1>0, MessageFacts DEF IInv, RepliesComeHome, MessagesOf
<1> QED
    BY <1>0, <1>2, <1>3, <1>4, <1>5, <1>6, ReplacedInv DEF RetryDue

LEMMA ReturnToSourceQueueInv ==
  ASSUME IInv, NEW m \in errorQueue, ReturnToSourceQueue(m)
  PROVE  IInv'
<1>0. m \in Message /\ m.holder = Nobody /\ m \notin messages
    BY MessageFacts DEF IInv, TypeOK, OneMessage
<1> DEFINE n == Put(m, 0, Nobody)
<1>1. n = Put(m, 0, Nobody)
    OBVIOUS
<1>2. /\ n \in Message /\ n.call = m.call /\ n.kind = m.kind /\ n.value = m.value
      /\ n.retries = 0 /\ n.holder = Nobody
    BY <1>0, Retried, RetriesAssumption
<1> HIDE DEF n
<1>4. messages' = messages \cup {n} /\ errorQueue' = errorQueue \ {m}
    BY <1>1 DEF ReturnToSourceQueue
<1>3. n \notin errorQueue'
    BY <1>2, <1>4 DEF IInv, OneMessage
<1>5. messages' \cap errorQueue' = {}
    BY <1>3, <1>4 DEF IInv, OneMessage
<1> QED
    BY <1>0, <1>2, <1>3, <1>4, <1>5, ReplacedInv DEF ReturnToSourceQueue

LEMMA IndexInv ==
  ASSUME IInv, NEW d \in Domain, NEW c \in Call, Index(d, c)
  PROVE  IInv'
<1> USE DEF callVars, domainVars, lossVars
<1> DEFINE n == [kind |-> "request", call |-> c, value |-> weight[c], retries |-> 0, holder |-> Nobody]
<1>1. /\ n \in Message /\ n.kind = "request" /\ n.call = c /\ n.value = weight[c]
      /\ n.retries = 0 /\ n.holder = Nobody
    BY DEF IInv, TypeOK, Message, Request
<1>2. messages' = messages \cup {n} /\ errorQueue' = errorQueue
    BY DEF Index
<1> HIDE DEF n
<1>3. \A m \in messages \cup errorQueue : m.call # c
    BY DEF IInv, OneMessage, Index
<1>4. c \notin forgotten \cup purged
    BY DEF IInv, OneMessage, Index
<1>5. /\ \A e \in Call : Waiting(e)' <=> (Waiting(e) \/ e = c)
      /\ \A e \in Call \ {c} : MessagesOf(e)' = MessagesOf(e)
      /\ MessagesOf(c)' = {n}
    BY <1>1, <1>2, <1>3 DEF Index, Waiting, MessagesOf, IInv, TypeOK
<1>6. TypeOK'
    BY <1>1, <1>2 DEF Index, IInv, TypeOK, Registered
<1>7. PriceIsOwn' /\ OneDomain'
    BY DEF Index, IInv, TypeOK, PriceIsOwn, OneDomain
<1>8. WaitingHasReason'
    BY <1>4, <1>5 DEF Index, IInv, WaitingHasReason
<1>9. RepliesComeHome'
    BY <1>1, <1>2, <1>4, <1>5 DEF Index, IInv, RepliesComeHome
<1>10. CallbacksAgree'
  <2>1. \A e \in Domain : c \notin callbacks[e]
      BY DEF Index, IInv, CallbacksAgree, Waiting
  <2>2. callbacks' = [callbacks EXCEPT ![d] = callbacks[d] \cup {c}]
      BY DEF Index, Registered
  <2> QED
      BY <1>5, <2>1, <2>2 DEF Index, IInv, TypeOK, CallbacksAgree
<1>11. OneMessage'
  <2>1. \A m \in messages' \cup errorQueue' : m = n \/ m \in messages \cup errorQueue
      BY <1>2
  <2>2. \A m \in messages' \cup errorQueue' :
          at'[m.call] \in {"waiting", "aborted"} /\ m.call \notin forgotten' \cup purged'
      BY <1>1, <1>3, <1>4, <2>1 DEF Index, IInv, TypeOK, OneMessage
  <2>3. \A e \in forgotten' \cup purged' : at'[e] \in {"waiting", "aborted"}
      BY <1>4 DEF Index, IInv, TypeOK, OneMessage
  <2> QED
      BY <1>1, <1>2, <1>3, <2>1, <2>2, <2>3 DEF IInv, OneMessage
<1>12. MessagesAgree'
    BY <1>1, <1>2 DEF Index, IInv, TypeOK, MessagesAgree
<1> QED
    BY <1>6, <1>7, <1>8, <1>9, <1>10, <1>11, <1>12 DEF IInv

LEMMA HandlePriceRequestInv ==
  ASSUME IInv, NEW m \in messages, HandlePriceRequest(m)
  PROVE  IInv'
<1> USE DEF callVars, domainVars, lossVars
<1>0. m \in Message /\ m.call \in Call /\ m.kind = "request" /\ m.value \in Weight
    BY MessageFacts DEF IInv, TypeOK, HandlePriceRequest
<1> DEFINE n == [kind |-> "reply", call |-> m.call, value |-> Price(m.value),
                 retries |-> 0, holder |-> Nobody]
<1>1. /\ n \in Message /\ n.kind = "reply" /\ n.call = m.call /\ n.value = Price(m.value)
      /\ n.retries = 0 /\ n.holder = Nobody
    BY <1>0 DEF Message, Reply, Price
<1>2. messages' = (messages \ {m}) \cup {n} /\ errorQueue' = errorQueue
    BY DEF HandlePriceRequest, RepliesTo
<1> HIDE DEF n
<1>3. n \notin errorQueue /\ m \notin errorQueue
    BY <1>1, <1>2, ReplacementIsNew
<1>4. TypeOK'
    BY <1>1, <1>2 DEF HandlePriceRequest, IInv, TypeOK
<1>5. PriceIsOwn' /\ CallbacksAgree' /\ OneDomain'
    BY DEF HandlePriceRequest, IInv, PriceIsOwn, CallbacksAgree, OneDomain, Waiting
<1>6. \A c \in Call : (MessagesOf(c) = {}) <=> (MessagesOf(c)' = {})
    BY <1>1, <1>2 DEF MessagesOf
<1>7. WaitingHasReason'
    BY <1>6 DEF HandlePriceRequest, IInv, WaitingHasReason, Waiting
<1>8. \A k \in messages' \cup errorQueue' : k = n \/ k \in (messages \cup errorQueue) \ {m}
    BY <1>2, <1>3
<1>9. OneMessage'
  <2>1. messages' \cap errorQueue' = {}
      BY <1>2, <1>3 DEF IInv, OneMessage
  <2> QED
      BY <1>1, <1>8, <2>1 DEF HandlePriceRequest, IInv, OneMessage
<1>10. MessagesAgree'
    BY <1>0, <1>1, <1>8 DEF HandlePriceRequest, IInv, MessagesAgree
<1>11. RepliesComeHome'
    BY <1>1, <1>2, <1>8 DEF HandlePriceRequest, IInv, RepliesComeHome, MessagesOf, Waiting
<1> QED
    BY <1>4, <1>5, <1>7, <1>9, <1>10, <1>11 DEF IInv

LEMMA ReviewInv ==
  ASSUME IInv, NEW d \in Domain, NEW m \in messages, Review(d, m)
  PROVE  IInv'
<1> USE DEF callVars, domainVars, lossVars
<1>0. m \in Message /\ m.call \in Call /\ m.kind = "reply" /\ m.value \in {6, 10}
    BY MessageFacts DEF IInv, TypeOK, Review
<1> DEFINE c == m.call
<1>1. /\ c \in callbacks[d]
      /\ at' = [at EXCEPT ![c] = "reviewed"]
      /\ shown' = [shown EXCEPT ![c] = m.value]
      /\ callbacks' = [callbacks EXCEPT ![d] = callbacks[d] \ {c}]
    BY DEF Review, Completed
<1>2. messages' = messages \ {m} /\ errorQueue' = errorQueue
    BY DEF Review
<1>3. \A k \in messages' \cup errorQueue' : k \in messages \cup errorQueue /\ k.call # c
    BY <1>2 DEF IInv, OneMessage
<1>4. c \notin forgotten \cup purged
    BY DEF IInv, OneMessage
<1>5. /\ \A e \in Call : Waiting(e)' <=> (Waiting(e) /\ e # c)
      /\ \A e \in Call \ {c} : MessagesOf(e)' = MessagesOf(e)
    BY <1>0, <1>1, <1>2 DEF Waiting, MessagesOf, IInv, TypeOK
<1>6. TypeOK'
    BY <1>0, <1>1, <1>2 DEF Review, IInv, TypeOK
<1>7. PriceIsOwn'
    BY <1>0, <1>1 DEF Review, IInv, TypeOK, PriceIsOwn, MessagesAgree
<1>8. WaitingHasReason' /\ OneDomain'
    BY <1>5 DEF Review, IInv, WaitingHasReason, OneDomain
<1>9. RepliesComeHome'
    BY <1>2, <1>5, <1>3 DEF Review, IInv, RepliesComeHome, MessagesOf
<1>10. CallbacksAgree'
    BY <1>0, <1>1, <1>5 DEF Review, IInv, TypeOK, CallbacksAgree
<1>11. OneMessage'
    BY <1>0, <1>1, <1>2, <1>3, <1>4 DEF Review, IInv, TypeOK, OneMessage
<1>12. MessagesAgree'
    BY <1>3 DEF Review, IInv, MessagesAgree
<1> QED
    BY <1>6, <1>7, <1>8, <1>9, <1>10, <1>11, <1>12 DEF IInv

LEMMA RestartOrderInv == IInv /\ RestartOrder => IInv'
<1> USE DEF callVars, domainVars, lossVars
<1> SUFFICES ASSUME IInv, RestartOrder PROVE IInv'
    OBVIOUS
<1>0. \A m \in messages \cup errorQueue : m \in Message /\ m.call \in Call
    BY MessageFacts DEF IInv, TypeOK
<1>1. /\ messages' \subseteq messages /\ errorQueue' = errorQueue
      /\ \A m \in messages : m \in messages' \/ m.call \in forgotten'
      /\ \A c \in forgotten' : c \in forgotten \/ \E m \in messages \ messages' : m.call = c
    BY DEF RestartOrder, HeldBy, CallsOf
<1>2. TypeOK'
    BY <1>0, <1>1 DEF RestartOrder, IInv, TypeOK
<1>3. PriceIsOwn' /\ CallbacksAgree' /\ OneDomain'
    BY DEF RestartOrder, IInv, PriceIsOwn, CallbacksAgree, OneDomain, Waiting
<1>4. WaitingHasReason'
    BY <1>0, <1>1 DEF RestartOrder, IInv, WaitingHasReason, Waiting, MessagesOf, OneMessage
<1>5. RepliesComeHome'
    BY <1>1 DEF RestartOrder, IInv, RepliesComeHome, Waiting, MessagesOf, OneMessage
<1>6. OneMessage'
    BY <1>1 DEF RestartOrder, IInv, OneMessage
<1>7. MessagesAgree'
    BY <1>1 DEF RestartOrder, IInv, MessagesAgree
<1> QED
    BY <1>2, <1>3, <1>4, <1>5, <1>6, <1>7 DEF IInv

LEMMA StartDomainInv ==
  ASSUME IInv, NEW d \in Domain, StartDomain(d)
  PROVE  IInv'
<1> USE DEF callVars, domainVars, lossVars
<1>0. \A m \in messages \cup errorQueue : m \in Message /\ m.call \in Call
    BY MessageFacts DEF IInv, TypeOK
<1>1. /\ messages' \subseteq messages /\ errorQueue' = errorQueue
      /\ \A m \in messages : m \in messages' \/ m.call \in purged'
      /\ \A c \in purged' : c \in purged \/ \E m \in messages \ messages' : m.call = c
    BY DEF StartDomain, Purged, CallsOf
<1>2. TypeOK'
    BY <1>0, <1>1 DEF StartDomain, IInv, TypeOK
<1>3. PriceIsOwn' /\ CallbacksAgree' /\ OneDomain'
    BY DEF StartDomain, IInv, TypeOK, PriceIsOwn, CallbacksAgree, OneDomain, Waiting
<1>4. WaitingHasReason'
    BY <1>0, <1>1 DEF StartDomain, IInv, WaitingHasReason, Waiting, MessagesOf, OneMessage
<1>5. RepliesComeHome'
  <2> SUFFICES ASSUME ~overlapped' PROVE RepliesComeHome'
      BY DEF RepliesComeHome
  <2>1. running = {}
      BY DEF StartDomain
  <2>2. \A c \in Call : ~Waiting(c)
      BY <2>1 DEF IInv, CallbacksAgree
  <2> QED
      BY <2>2 DEF StartDomain, RepliesComeHome, Waiting
<1>6. OneMessage'
    BY <1>1 DEF StartDomain, IInv, OneMessage
<1>7. MessagesAgree'
    BY <1>1 DEF StartDomain, IInv, MessagesAgree
<1> QED
    BY <1>2, <1>3, <1>4, <1>5, <1>6, <1>7 DEF IInv

LEMMA EndDomainInv ==
  ASSUME IInv, NEW d \in Domain, EndDomain(d)
  PROVE  IInv'
<1> USE DEF callVars, domainVars, lossVars
<1>0. \A m \in messages \cup errorQueue : m \in Message /\ m.call \in Call
    BY MessageFacts DEF IInv, TypeOK
<1>1. /\ messages' \subseteq messages /\ errorQueue' = errorQueue
      /\ \A m \in messages : m \in messages' \/ m.call \in forgotten'
      /\ \A c \in forgotten' : c \in forgotten \/ \E m \in messages \ messages' : m.call = c
    BY DEF EndDomain, HeldBy, CallsOf
<1>2. /\ at' \in [Call -> {"idle", "waiting", "reviewed", "aborted"}]
      /\ \A c \in Call : at'[c] = IF c \in callbacks[d] THEN "aborted" ELSE at[c]
      /\ callbacks' \in [Domain -> SUBSET Call]
      /\ \A e \in Domain : callbacks'[e] = IF e = d THEN {} ELSE callbacks[e]
    BY DEF EndDomain, IInv, TypeOK
<1>3. TypeOK'
    BY <1>0, <1>1, <1>2 DEF EndDomain, IInv, TypeOK
<1>4. \A c \in Call : Waiting(c)' => Waiting(c)
    BY <1>2 DEF Waiting
<1>5. PriceIsOwn'
    BY <1>2 DEF EndDomain, IInv, PriceIsOwn
<1>6. OneDomain'
    BY DEF EndDomain, IInv, OneDomain
<1>7. CallbacksAgree'
    BY <1>2 DEF EndDomain, IInv, CallbacksAgree, Waiting
<1>8. WaitingHasReason'
    BY <1>0, <1>1, <1>4 DEF EndDomain, IInv, WaitingHasReason, MessagesOf, OneMessage
<1>9. RepliesComeHome'
  <2> SUFFICES ASSUME ~overlapped, NEW c \in Call, Waiting(c)'
               PROVE  /\ c \notin purged'
                      /\ \A m \in MessagesOf(c)' : m.kind = "reply" => m.retries = 0 /\ m \in messages'
      BY DEF EndDomain, RepliesComeHome
  <2>1. PICK e \in Domain : c \in callbacks[e] /\ e # d
      BY <1>2, <1>4 DEF IInv, CallbacksAgree, Waiting
  <2>2. e \in running /\ d \in running
      BY <2>1 DEF EndDomain, IInv, CallbacksAgree
  <2> QED
      BY <2>1, <2>2 DEF IInv, OneDomain
<1>10. OneMessage'
    BY <1>0, <1>1, <1>2 DEF EndDomain, IInv, TypeOK, OneMessage
<1>11. MessagesAgree'
  <2>1. \A m \in messages' \cup errorQueue' : m \in messages \cup errorQueue /\ m.holder # d
      BY <1>1 DEF EndDomain, HeldBy, IInv, TypeOK
  <2> QED
      BY <2>1 DEF EndDomain, IInv, MessagesAgree
<1> QED
    BY <1>3, <1>5, <1>6, <1>7, <1>8, <1>9, <1>10, <1>11 DEF IInv

LEMMA StepInv == IInv /\ [Next]_vars => IInv'
<1> SUFFICES ASSUME IInv, [Next]_vars PROVE IInv'
    OBVIOUS
<1>1. CASE \E d \in Domain : StartDomain(d) \/ EndDomain(d) \/ \E c \in Call : Index(d, c)
    BY <1>1, StartDomainInv, EndDomainInv, IndexInv
<1>2. CASE \E m \in messages : Receive(m)
    BY <1>2, HandlePriceRequestInv, RequestFailsInv, ReviewInv, ReplyFailsInv, RetryDueInv DEF Receive
<1>3. CASE \E m \in errorQueue : ReturnToSourceQueue(m)
    BY <1>3, ReturnToSourceQueueInv
<1>4. CASE RestartOrder
    BY <1>4, RestartOrderInv
<1>5. CASE UNCHANGED vars
    BY <1>5 DEF vars, callVars, domainVars, queueVars, lossVars, IInv, TypeOK, PriceIsOwn,
                WaitingHasReason, RepliesComeHome, CallbacksAgree, OneMessage, MessagesAgree,
                OneDomain, Waiting, MessagesOf
<1> QED
    BY <1>1, <1>2, <1>3, <1>4, <1>5 DEF Next

\* Whatever the calls, domains and weights, every reachable state satisfies the
\* inductive invariant.
THEOREM Invariance == Spec => []IInv
<1> QED
    BY InitInv, StepInv, PTL DEF Spec

\* Every variable keeps its type, however often messages are retried.
THEOREM TypeCorrect == Spec => []TypeOK
<1>1. IInv => TypeOK
    BY DEF IInv
<1> QED
    BY <1>1, Invariance, PTL

\* Index never shows a customer the price of another order.
THEOREM PricesAreOwn == Spec => []PriceIsOwn
<1>1. IInv => PriceIsOwn
    BY DEF IInv
<1> QED
    BY <1>1, Invariance, PTL

\* A call of Index that waits has its message somewhere, or the loss of it is on
\* record.
THEOREM WaitingIsExplained == Spec => []WaitingHasReason
<1>1. IInv => WaitingHasReason
    BY DEF IInv
<1> QED
    BY <1>1, Invariance, PTL

\* Unless application domains overlap, replies reach the domain that waits.
THEOREM RepliesAreReceived == Spec => []RepliesComeHome
<1>1. IInv => RepliesComeHome
    BY DEF IInv
<1> QED
    BY <1>1, Invariance, PTL

-----------------------------------------------------------------------------
(* The refinement of PriceCall                                              *)

\* How far call c is, for its customer
StateOf(c) == IF Stuck(c) THEN "stuck" ELSE at[c]
StateBar == [c \in Call |-> StateOf(c)]
PriceBar == <<weight, StateBar, shown>>

LEMMA PriceCallInit == Init => PriceCalls!Init
BY DEF Init, PriceCalls!Init, Stuck, Waiting

\* A step that completes no call and starts none does to each call what a failure may.
LEMMA OnlyFails ==
  ASSUME IInv, IInv', UNCHANGED <<weight, shown>>,
         forgotten \cup purged \subseteq forgotten' \cup purged',
         \A c \in Call : at'[c] = at[c] \/ (Waiting(c) /\ at'[c] = "aborted")
  PROVE  PriceCalls!Fail
<1>1. \A c \in Call : at[c] \in {"idle", "waiting", "reviewed", "aborted"}
                     /\ at'[c] \in {"idle", "waiting", "reviewed", "aborted"}
    BY DEF IInv, TypeOK
<1>2. StateBar' \in [Call -> PriceCalls!State]
    BY <1>1 DEF StateBar, StateOf, Stuck, Waiting, PriceCalls!State
<1>3. ASSUME NEW c \in Call
      PROVE  StateOf(c)' = StateOf(c) \/ <<StateOf(c), StateOf(c)'>> \in PriceCalls!Harm
    BY <1>1, <1>3 DEF StateOf, Stuck, Waiting, PriceCalls!Harm
<1> QED
    BY <1>2, <1>3 DEF PriceCalls!Fail, StateBar, StateOf

LEMMA IndexAsks ==
  ASSUME IInv, NEW d \in Domain, NEW c \in Call, Index(d, c)
  PROVE  PriceCalls!Ask(c)
<1>1. /\ at[c] = "idle" /\ at' = [at EXCEPT ![c] = "waiting"]
      /\ UNCHANGED <<weight, shown, forgotten, purged>>
    BY DEF Index, lossVars
<1>2. at \in [Call -> {"idle", "waiting", "reviewed", "aborted"}]
    BY DEF IInv, TypeOK
<1>3. ~Stuck(c) /\ ~Stuck(c)'
    BY <1>1, <1>2 DEF IInv, OneMessage, Stuck, Waiting
<1>4. \A e \in Call \ {c} : StateOf(e)' = StateOf(e)
    BY <1>1, <1>2 DEF StateOf, Stuck, Waiting
<1>5. StateOf(c) = "idle" /\ StateOf(c)' = "waiting"
    BY <1>1, <1>2, <1>3 DEF StateOf
<1>6. StateBar' = [StateBar EXCEPT ![c] = "waiting"]
    BY <1>4, <1>5 DEF StateBar
<1> QED
    BY <1>1, <1>5, <1>6 DEF PriceCalls!Ask, StateBar, StateOf

LEMMA ReviewAnswers ==
  ASSUME IInv, NEW d \in Domain, NEW m \in messages, Review(d, m)
  PROVE  PriceCalls!Answer(m.call)
<1>0. m.call \in Call /\ m.kind = "reply"
    BY MessageFacts DEF IInv, TypeOK, Review
<1>1. PICK c \in Call : c = m.call
    BY <1>0
<1>2. /\ at' = [at EXCEPT ![c] = "reviewed"]
      /\ shown' = [shown EXCEPT ![c] = m.value]
      /\ c \in callbacks[d]
      /\ UNCHANGED <<weight, forgotten, purged>>
    BY <1>1 DEF Review, Completed, lossVars
<1>3. at \in [Call -> {"idle", "waiting", "reviewed", "aborted"}] /\ weight \in [Call -> Weight]
    BY DEF IInv, TypeOK
<1>4. Waiting(c) /\ ~Stuck(c) /\ ~Stuck(c)'
    BY <1>1, <1>2, <1>3 DEF IInv, OneMessage, CallbacksAgree, Stuck, Waiting
<1>5. m.value = [w \in Weight |-> Price(w)][weight[c]]
    BY <1>0, <1>1, <1>3 DEF IInv, MessagesAgree
<1>6. \A e \in Call \ {c} : StateOf(e)' = StateOf(e)
    BY <1>2, <1>3 DEF StateOf, Stuck, Waiting
<1>7. StateOf(c) = "waiting" /\ StateOf(c)' = "reviewed"
    BY <1>2, <1>3, <1>4 DEF StateOf, Waiting
<1>8. StateBar' = [StateBar EXCEPT ![c] = "reviewed"]
    BY <1>6, <1>7 DEF StateBar
<1>9. shown' = [shown EXCEPT ![c] = [w \in Weight |-> Price(w)][weight[c]]]
    BY <1>2, <1>5
<1>10. PriceCalls!Answer(c)
    BY <1>2, <1>7, <1>8, <1>9 DEF PriceCalls!Answer, StateBar, StateOf
<1> QED
    BY <1>1, <1>10

\* Every step of the price requests is a step of PriceCall or leaves it alone.
LEMMA PriceCallStep == IInv /\ IInv' /\ [Next]_vars => [PriceCalls!Next]_PriceBar
<1> SUFFICES ASSUME IInv, IInv', [Next]_vars
             PROVE  PriceCalls!Next \/ UNCHANGED PriceBar
    OBVIOUS
<1>1. ASSUME UNCHANGED <<callVars, lossVars>> PROVE UNCHANGED PriceBar
    BY <1>1 DEF callVars, lossVars, PriceBar, StateBar, StateOf, Stuck, Waiting
<1>2. ASSUME NEW m \in messages, Receive(m) PROVE PriceCalls!Next \/ UNCHANGED PriceBar
  <2>1. ASSUME NEW d \in Domain, Review(d, m) PROVE PriceCalls!Next
    <3>1. m.call \in Call
        BY MessageFacts DEF IInv, TypeOK
    <3> QED
        BY <2>1, <3>1, ReviewAnswers DEF PriceCalls!Next
  <2>2. ASSUME \/ HandlePriceRequest(m) \/ RequestFails(m) \/ RetryDue(m)
               \/ \E d \in Domain : ReplyFails(d, m)
        PROVE  UNCHANGED PriceBar
      BY <1>1, <2>2 DEF HandlePriceRequest, RequestFails, RetryDue, ReplyFails, Fails
  <2> QED
      BY <1>2, <2>1, <2>2 DEF Receive
<1>3. ASSUME NEW m \in errorQueue, ReturnToSourceQueue(m) PROVE UNCHANGED PriceBar
    BY <1>1, <1>3 DEF ReturnToSourceQueue
<1>4. ASSUME NEW d \in Domain, NEW c \in Call, Index(d, c) PROVE PriceCalls!Next
    BY <1>4, IndexAsks DEF PriceCalls!Next
<1>5. ASSUME NEW d \in Domain, StartDomain(d) PROVE PriceCalls!Fail
    BY <1>5, OnlyFails DEF StartDomain, callVars
<1>6. ASSUME RestartOrder PROVE PriceCalls!Fail
    BY <1>6, OnlyFails DEF RestartOrder, callVars
<1>7. ASSUME NEW d \in Domain, EndDomain(d) PROVE PriceCalls!Fail
  <2>1. \A c \in Call : at'[c] = at[c] \/ (Waiting(c) /\ at'[c] = "aborted")
      BY <1>7 DEF EndDomain, IInv, CallbacksAgree
  <2> QED
      BY <1>7, <2>1, OnlyFails DEF EndDomain
<1>8. ASSUME UNCHANGED vars PROVE UNCHANGED PriceBar
    BY <1>1, <1>8 DEF vars
<1> QED
    BY <1>2, <1>3, <1>4, <1>5, <1>6, <1>7, <1>8 DEF Next, PriceCalls!Next

\* However domains overlap, requests are retried and replies purged, calls of Index
\* are answered once, with their own price, and never after their message was lost.
THEOREM PriceRequestImplementsCalls == Spec => ImplementsPriceCall
<1>1. [PriceCalls!Next]_PriceBar <=> [PriceCalls!Next]_<<weight, StateBar, shown>>
    BY DEF PriceBar
<1>2. IInv /\ IInv' /\ [Next]_vars => [PriceCalls!Next]_<<weight, StateBar, shown>>
    BY <1>1, PriceCallStep
<1> QED
    BY <1>2, PriceCallInit, Invariance, PTL
       DEF Spec, ImplementsPriceCall, PriceCalls!Spec, StateBar, StateOf
=============================================================================
