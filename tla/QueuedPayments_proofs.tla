----------------------- MODULE QueuedPayments_proofs -----------------------
(***************************************************************************)
(* Proofs about QueuedPayments: the inductive invariant IInv, one lemma    *)
(* per action, and the safety properties that follow from it.              *)
(***************************************************************************)
EXTENDS QueuedPayments, FiniteSetTheorems, TLAPS

USE ReadsAssumption, NoneAssumption, PostsAssumption, BoundsAssumption
USE DEF callVars, staticVars, linkVars, brokerVars, messageVars, workerVars, faultVars

\* The part of the invariant about calls depends on nothing else.
LEMMA CallInvUnchanged ==
  ASSUME CallInv, UNCHANGED <<posted, callVars, staticVars, linkVars, brokerVars, messageVars, cut, restarts>>
  PROVE  CallInv'
BY DEF CallInv, PublishingAgrees, DeclaredIsThere, LinksAgree, AloneAgrees, InProgress,
       AcceptedIsRouted, LoneCallIsSound

\* The part about queues and workers depends on nothing else.
LEMMA QueueInvUnchanged ==
  ASSUME QueueInv, UNCHANGED <<posted, messageVars, queue, workerVars, online, lost, failures>>
  PROVE  QueueInv'
<1>1. QueuesAgree' /\ KeptUntilHandled' /\ TurnsAgree' /\ HandledInOrder'
    BY DEF QueueInv, QueuesAgree, KeptUntilHandled, TurnsAgree, HandledInOrder, InOrder
<1>2. HoldingAgrees'
    BY DEF QueueInv, HoldingAgrees
<1>3. HandlingAgrees'
  <2>1. ASSUME NEW q \in Queue, NEW c \in Call
        PROVE  Processing(q, c)' = Processing(q, c) /\ Waiting(q, c)' = Waiting(q, c)
      BY DEF Processing, Waiting, Ready
  <2> QED
      BY <2>1 DEF QueueInv, HandlingAgrees, Readable
<1> QED
    BY <1>1, <1>2, <1>3 DEF QueueInv

\* What HandlingAgrees says of message c in queue q
LEMMA HandlingFacts ==
  ASSUME IInv, NEW q \in Queue, NEW c \in Call
  PROVE  /\ handled[q][c] \in Nat /\ failures \in Nat /\ Waiting(q, c) \in {0, 1}
         /\ handled[q][c] > 0 => q \in routed[c] /\ Readable(q, c)
         /\ IsFiniteSet(Processing(q, c)) /\ Cardinality(Processing(q, c)) \in Nat
         /\ handled[q][c] + Cardinality(Processing(q, c)) + Waiting(q, c) <= 1 + failures
         /\ routed[c] = {} => handled[q][c] = 0 /\ Processing(q, c) = {} /\ Waiting(q, c) = 0
<1>1. /\ handled[q][c] > 0 => q \in routed[c] /\ Readable(q, c)
      /\ IsFiniteSet(Processing(q, c))
      /\ handled[q][c] + Cardinality(Processing(q, c)) + Waiting(q, c) <= 1 + failures
    BY DEF IInv, QueueInv, HandlingAgrees
<1>2. handled[q][c] \in Nat /\ failures \in Nat /\ Waiting(q, c) \in {0, 1}
    BY DEF IInv, TypeOK, Waiting
<1>3. Cardinality(Processing(q, c)) \in Nat
    BY <1>1, FS_CardinalityType
<1>4. ASSUME routed[c] = {} PROVE handled[q][c] = 0 /\ Processing(q, c) = {} /\ Waiting(q, c) = 0
  <2>1. handled[q][c] = 0
      BY <1>1, <1>2, <1>4
  <2>2. Processing(q, c) = {}
      BY <1>4 DEF Processing, IInv, QueueInv, HoldingAgrees
  <2>3. Waiting(q, c) = 0
      BY <1>4 DEF Waiting, Ready, IInv, QueueInv, QueuesAgree
  <2> QED
      BY <2>1, <2>2, <2>3
<1> QED
    BY <1>1, <1>2, <1>3, <1>4

\* A step that changes neither what is ready nor what is about to be processed
LEMMA SameHandling ==
  ASSUME IInv, UNCHANGED <<posted, routed, handled, failures>>,
         \A q \in Queue : \A c \in Call : Processing(q, c)' = Processing(q, c),
         \A q \in Queue : \A c \in Call : Waiting(q, c)' = Waiting(q, c)
  PROVE  HandlingAgrees'
BY DEF HandlingAgrees, IInv, QueueInv, Readable

\* Nothing is open, published, queued or held yet.
LEMMA InitInv == Init => IInv
<1> SUFFICES ASSUME Init PROVE IInv
    OBVIOUS
<1>0. failures \in 0..MaxFailures /\ restarts \in 0..MaxRestarts
    BY DEF Init
<1>1. TypeOK
  <2>1. handled \in [Queue -> [Call -> Nat]] /\ number \in [Call -> 0..published]
      BY DEF Init
  <2>2. /\ at \in [Call -> Place] /\ declared \in [Call -> 0..4]
        /\ srv \in [Worker -> {"down", "ready", "received", "processed"}]
      BY DEF Init, Place
  <2> QED
      BY <1>0, <2>1, <2>2 DEF Init, TypeOK
<1>2. CallInv
    BY DEF Init, CallInv, PublishingAgrees, DeclaredIsThere, LinksAgree, AloneAgrees,
           AcceptedIsRouted, LoneCallIsSound
<1>3. QueuesAgree /\ KeptUntilHandled /\ TurnsAgree /\ HandledInOrder
    BY DEF Init, QueuesAgree, KeptUntilHandled, TurnsAgree, HandledInOrder, InOrder
<1>4. HoldingAgrees
    BY DEF Init, HoldingAgrees
<1>5. HandlingAgrees
  <2>1. failures = 0
      BY DEF Init
  <2> SUFFICES ASSUME NEW q \in Queue, NEW c \in Call
               PROVE  /\ handled[q][c] = 0
                      /\ IsFiniteSet(Processing(q, c)) /\ Cardinality(Processing(q, c)) = 0
                      /\ Waiting(q, c) = 0
      BY <2>1 DEF HandlingAgrees
  <2>2. handled[q][c] = 0 /\ Processing(q, c) = {} /\ Waiting(q, c) = 0
      BY DEF Init, Processing, Waiting, Ready
  <2> QED
      BY <2>2, FS_EmptySet
<1> QED
    BY <1>1, <1>2, <1>3, <1>4, <1>5 DEF IInv, QueueInv

\* What CreateConnection binds, in any of its declarations.
LEMMA BindsFacts ==
  \A i \in 1..4 : Binds[i] \subseteq {<<"card", "payment.card">>,
                        <<"order", "payment.purchaseorder">>, <<"all", "payment.*">>}
BY DEF Binds

\* With every declaration in place a message goes to its own queue and to the audit
\* queue.
LEMMA RoutesFacts ==
  ASSUME IInv, restarts = 0, NEW c \in Call, declared[c] = 4, NEW kind \in Kind
  PROVE  Routes(kind) = Copies(kind)
<1>1. /\ <<"card", "payment.card">> \in bindings
      /\ <<"order", "payment.purchaseorder">> \in bindings
      /\ <<"all", "payment.*">> \in bindings
  <2>1. Binds[2] \subseteq bindings /\ Binds[3] \subseteq bindings /\ Binds[4] \subseteq bindings
      BY DEF IInv, CallInv, DeclaredIsThere
  <2> QED
      BY <2>1 DEF Binds
<1>2. /\ <<"card", "payment.purchaseorder">> \notin bindings
      /\ <<"order", "payment.card">> \notin bindings
      /\ \A q \in {"card", "order"} : <<q, "payment.*">> \notin bindings
    BY DEF IInv, CallInv, PublishingAgrees
<1>3. CASE kind = "card"
    BY <1>1, <1>2, <1>3 DEF Routes, Copies, Matches, RoutingKey, Queue, Pattern
<1>4. CASE kind = "order"
    BY <1>1, <1>2, <1>4 DEF Routes, Copies, Matches, RoutingKey, Queue, Pattern
<1> QED
    BY <1>3, <1>4 DEF Kind

\* A message gets the highest number so far in every queue it is put in.
LEMMA PublishFacts ==
  ASSUME IInv, NEW c \in Call, Publish(c)
  PROVE  \E R \in SUBSET Queue :
           /\ routed[c] = {} /\ number[c] = 0
           /\ routed' = [routed EXCEPT ![c] = R]
           /\ queue' = [q \in Queue |-> IF q \in R THEN queue[q] \cup {c} ELSE queue[q]]
           /\ published' \in Nat /\ published <= published'
           /\ number' \in [Call -> 0..published']
           /\ \A d \in Call : d # c => number'[d] = number[d]
           /\ R # {} => number'[c] > published
           /\ restarts = 0 => R = Copies(posted[c].kind)
<1>1. routed[c] = {} /\ number[c] = 0 /\ declared[c] = 4
    BY DEF IInv, CallInv, PublishingAgrees, Publish
<1>2. CASE exchange
  <2> DEFINE R == Routes(posted[c].kind)
  <2>1. R \subseteq Queue
      BY DEF Routes
  <2>2. restarts = 0 => R = Copies(posted[c].kind)
      BY <1>1, RoutesFacts DEF IInv, TypeOK
  <2>3. /\ routed' = [routed EXCEPT ![c] = R]
        /\ queue' = [q \in Queue |-> IF q \in R THEN queue[q] \cup {c} ELSE queue[q]]
        /\ published' = published + 1 /\ number' = [number EXCEPT ![c] = published + 1]
      BY <1>2 DEF Publish
  <2> HIDE DEF R
  <2>4. /\ published' \in Nat /\ published <= published' /\ number'[c] > published
        /\ number' \in [Call -> 0..published']
        /\ \A d \in Call : d # c => number'[d] = number[d]
      BY <2>3 DEF IInv, TypeOK
  <2> QED
      BY <1>1, <2>1, <2>2, <2>3, <2>4
<1>3. CASE ~exchange
  <2>1. UNCHANGED <<routed, number, published, queue>>
      BY <1>3 DEF Publish
  <2>2. restarts # 0
      BY <1>1, <1>3 DEF IInv, CallInv, DeclaredIsThere
  <2> DEFINE R == {}
  <2>3. /\ routed' = [routed EXCEPT ![c] = R]
        /\ queue' = [q \in Queue |-> IF q \in R THEN queue[q] \cup {c} ELSE queue[q]]
      BY <1>1, <2>1 DEF IInv, TypeOK
  <2>4. published' \in Nat /\ published <= published' /\ number' \in [Call -> 0..published']
      BY <2>1 DEF IInv, TypeOK
  <2>5. R \subseteq Queue /\ ~(R # {})
      OBVIOUS
  <2> HIDE DEF R
  <2> QED
      BY <1>1, <2>1, <2>2, <2>3, <2>4, <2>5
<1> QED
    BY <1>2, <1>3

-----------------------------------------------------------------------------
(* Every action preserves IInv: one step per conjunct the action can disturb,  *)
(* and one for the rest.                                                       *)

\* A new connection: the calls in progress are alone no longer.
LEMMA ConnectInv ==
  ASSUME IInv, NEW c \in Call, Connect(c)
  PROVE  IInv'
<1>1. TypeOK'
    BY DEF IInv, TypeOK, Connect, Place
<1>2. CallInv'
  <2>1. PublishingAgrees'
      BY DEF IInv, TypeOK, Connect, CallInv, PublishingAgrees
  <2>2. DeclaredIsThere'
      BY DEF IInv, TypeOK, Connect, CallInv, DeclaredIsThere
  <2>3. LinksAgree'
      BY DEF IInv, TypeOK, Connect, CallInv, LinksAgree
  <2>4. AloneAgrees'
      BY DEF IInv, TypeOK, Connect, CallInv, AloneAgrees, InProgress
  <2>5. AcceptedIsRouted'
      BY DEF IInv, TypeOK, Connect, CallInv, AcceptedIsRouted, Copies
  <2>6. LoneCallIsSound'
      BY DEF IInv, TypeOK, Connect, CallInv, LoneCallIsSound, AcceptedIsRouted, Copies
  <2> QED
      BY <2>1, <2>2, <2>3, <2>4, <2>5, <2>6 DEF CallInv
<1>3. QueueInv'
    BY QueueInvUnchanged DEF IInv, Connect
<1> QED
    BY <1>1, <1>2, <1>3 DEF IInv

\* A call that ends without having been published.
LEMMA ConnectionRefusedInv ==
  ASSUME IInv, NEW c \in Call, ConnectionRefused(c)
  PROVE  IInv'
<1>1. TypeOK'
    BY DEF IInv, TypeOK, ConnectionRefused, BadRequest, Place
<1>2. CallInv'
  <2>1. PublishingAgrees'
      BY DEF IInv, TypeOK, ConnectionRefused, BadRequest, CallInv, PublishingAgrees
  <2>2. DeclaredIsThere'
      BY DEF IInv, TypeOK, ConnectionRefused, BadRequest, CallInv, DeclaredIsThere
  <2>3. LinksAgree'
      BY DEF IInv, TypeOK, ConnectionRefused, BadRequest, CallInv, LinksAgree
  <2>4. AloneAgrees'
      BY DEF IInv, TypeOK, ConnectionRefused, BadRequest, CallInv, AloneAgrees,
             InProgress
  <2>5. AcceptedIsRouted'
      BY DEF IInv, TypeOK, ConnectionRefused, BadRequest, CallInv, AcceptedIsRouted,
             Copies
  <2>6. LoneCallIsSound'
      BY DEF IInv, TypeOK, ConnectionRefused, BadRequest, CallInv, LoneCallIsSound, AloneAgrees
  <2> QED
      BY <2>1, <2>2, <2>3, <2>4, <2>5, <2>6 DEF CallInv
<1>3. QueueInv'
    BY QueueInvUnchanged DEF IInv, ConnectionRefused, BadRequest
<1> QED
    BY <1>1, <1>2, <1>3 DEF IInv

\* The channel is on the connection stored last.
LEMMA CreateModelInv ==
  ASSUME IInv, NEW c \in Call, CreateModel(c)
  PROVE  IInv'
<1>1. TypeOK'
    BY DEF IInv, TypeOK, CreateModel, Place
<1>2. CallInv'
  <2>1. PublishingAgrees'
      BY DEF IInv, TypeOK, CreateModel, CallInv, PublishingAgrees
  <2>2. DeclaredIsThere'
      BY DEF IInv, TypeOK, CreateModel, CallInv, DeclaredIsThere
  <2>3. LinksAgree'
      BY DEF IInv, TypeOK, CreateModel, CallInv, LinksAgree
  <2>4. AloneAgrees'
      BY DEF IInv, TypeOK, CreateModel, CallInv, AloneAgrees, InProgress
  <2>5. AcceptedIsRouted'
      BY DEF IInv, TypeOK, CreateModel, CallInv, AcceptedIsRouted, Copies
  <2>6. LoneCallIsSound'
      BY DEF IInv, TypeOK, CreateModel, CallInv, LoneCallIsSound, AcceptedIsRouted,
             Copies
  <2> QED
      BY <2>1, <2>2, <2>3, <2>4, <2>5, <2>6 DEF CallInv
<1>3. QueueInv'
    BY QueueInvUnchanged DEF IInv, CreateModel
<1> QED
    BY <1>1, <1>2, <1>3 DEF IInv

\* One more declaration is there.
LEMMA DeclareInv ==
  ASSUME IInv, NEW c \in Call, Declare(c)
  PROVE  IInv'
<1>1. TypeOK'
  <2>2. declared[c] \in 0..4 /\ declared[c] < 4
      BY DEF IInv, TypeOK, Declare
  <2>3. declared[c] + 1 \in 0..4 /\ declared[c] + 1 \in 1..4
      BY <2>2
  <2>4. declared' \in [Call -> 0..4]
      BY <2>3 DEF IInv, TypeOK, Declare
  <2>5. Binds[declared[c] + 1] \subseteq Queue \X Pattern
      BY <2>3, BindsFacts DEF Queue, Pattern
  <2> QED
      BY <2>4, <2>5 DEF IInv, TypeOK, Declare
<1>2. CallInv'
  <2>1. PublishingAgrees'
    <3>0. declared[c] \in 0..4 /\ declared[c] < 4
        BY DEF IInv, TypeOK, Declare
    <3>1. declared[c] + 1 \in 1..4
        BY <3>0
    <3>2. bindings' = bindings \cup Binds[declared[c] + 1]
        BY DEF Declare
    <3>3. bindings' \subseteq {<<"card", "payment.card">>, <<"card", "payment.cardpayment">>,
                              <<"order", "payment.purchaseorder">>, <<"all", "payment.*">>}
        BY <3>1, <3>2, BindsFacts DEF IInv, CallInv, PublishingAgrees
    <3> QED
        BY <3>3 DEF IInv, TypeOK, Declare, CallInv, PublishingAgrees
  <2>2. DeclaredIsThere'
    <3> SUFFICES ASSUME restarts' = 0, NEW d \in Call
                 PROVE  /\ declared'[d] > 0 => exchange'
                        /\ \A i \in 1..declared'[d] : Binds[i] \subseteq bindings'
        BY DEF DeclaredIsThere
    <3>1. /\ declared[d] \in 0..4 /\ bindings' = bindings \cup Binds[declared[c] + 1]
          /\ exchange' /\ restarts = 0
        BY DEF IInv, TypeOK, Declare
    <3>2. declared'[d] = IF d = c THEN declared[c] + 1 ELSE declared[d]
        BY DEF IInv, TypeOK, Declare
    <3>3. \A i \in 1..declared[d] : Binds[i] \subseteq bindings
        BY <3>1 DEF IInv, CallInv, DeclaredIsThere
    <3>4. \A i \in 1..declared'[d] : i \in 1..declared[d] \/ (d = c /\ i = declared[c] + 1)
        BY <3>1, <3>2
    <3> QED
        BY <3>1, <3>3, <3>4
  <2>3. LinksAgree'
      BY DEF IInv, TypeOK, Declare, CallInv, LinksAgree
  <2>4. AloneAgrees'
      BY DEF IInv, TypeOK, Declare, CallInv, AloneAgrees, InProgress
  <2>5. AcceptedIsRouted'
      BY DEF IInv, TypeOK, Declare, CallInv, AcceptedIsRouted, Copies
  <2>6. LoneCallIsSound'
      BY DEF IInv, TypeOK, Declare, CallInv, LoneCallIsSound, AcceptedIsRouted, Copies
  <2> QED
      BY <2>1, <2>2, <2>3, <2>4, <2>5, <2>6 DEF CallInv
<1>3. QueueInv'
    BY QueueInvUnchanged DEF IInv, Declare
<1> QED
    BY <1>1, <1>2, <1>3 DEF IInv

\* Only after a restart is a binding refused.
LEMMA BindRefusedInv ==
  ASSUME IInv, NEW c \in Call, BindRefused(c)
  PROVE  IInv'
<1>1. TypeOK'
    BY DEF IInv, TypeOK, BindRefused, BadRequest, Place
<1>2. CallInv'
  <2>1. PublishingAgrees'
      BY DEF IInv, TypeOK, BindRefused, BadRequest, CallInv, PublishingAgrees
  <2>2. DeclaredIsThere'
      BY DEF IInv, TypeOK, BindRefused, BadRequest, CallInv, DeclaredIsThere
  <2>3. LinksAgree'
      BY DEF IInv, TypeOK, BindRefused, BadRequest, CallInv, LinksAgree
  <2>4. AloneAgrees'
      BY DEF IInv, TypeOK, BindRefused, BadRequest, CallInv, DeclaredIsThere,
             AloneAgrees, InProgress
  <2>5. AcceptedIsRouted'
      BY DEF IInv, TypeOK, BindRefused, BadRequest, CallInv, AcceptedIsRouted, Copies
  <2>6. LoneCallIsSound'
      BY DEF IInv, TypeOK, BindRefused, BadRequest, CallInv, AloneAgrees,
             DeclaredIsThere, LoneCallIsSound, AcceptedIsRouted, Copies
  <2> QED
      BY <2>1, <2>2, <2>3, <2>4, <2>5, <2>6 DEF CallInv
<1>3. QueueInv'
    BY QueueInvUnchanged DEF IInv, BindRefused, BadRequest
<1> QED
    BY <1>1, <1>2, <1>3 DEF IInv

\* Only a call that is not alone shares its channel.
LEMMA PipelinedInv ==
  ASSUME IInv, NEW c \in Call, Pipelined(c)
  PROVE  IInv'
<1>1. TypeOK'
    BY DEF IInv, TypeOK, Pipelined, BadRequest, Place
<1>2. CallInv'
  <2>1. PublishingAgrees'
      BY DEF IInv, TypeOK, Pipelined, BadRequest, CallInv, PublishingAgrees
  <2>2. DeclaredIsThere'
      BY DEF IInv, TypeOK, Pipelined, BadRequest, CallInv, DeclaredIsThere
  <2>3. LinksAgree'
      BY DEF IInv, TypeOK, Pipelined, BadRequest, CallInv, LinksAgree
  <2>4. AloneAgrees'
      BY DEF IInv, TypeOK, Pipelined, BadRequest, CallInv, AloneAgrees, InProgress
  <2>5. AcceptedIsRouted'
      BY DEF IInv, TypeOK, Pipelined, BadRequest, CallInv, AcceptedIsRouted, Copies
  <2>6. LoneCallIsSound'
      BY DEF IInv, TypeOK, Pipelined, BadRequest, CallInv, AloneAgrees, InProgress,
             LoneCallIsSound, AcceptedIsRouted, Copies
  <2> QED
      BY <2>1, <2>2, <2>3, <2>4, <2>5, <2>6 DEF CallInv
<1>3. QueueInv'
    BY QueueInvUnchanged DEF IInv, Pipelined, BadRequest
<1> QED
    BY <1>1, <1>2, <1>3 DEF IInv

\* The message is the last of every queue it is put in.
LEMMA PublishInv ==
  ASSUME IInv, NEW c \in Call, Publish(c)
  PROVE  IInv'
<1>0. PICK R \in SUBSET Queue :
         /\ routed[c] = {} /\ number[c] = 0
         /\ routed' = [routed EXCEPT ![c] = R]
         /\ queue' = [q \in Queue |-> IF q \in R THEN queue[q] \cup {c} ELSE queue[q]]
         /\ published' \in Nat /\ published <= published'
         /\ number' \in [Call -> 0..published']
         /\ \A d \in Call : d # c => number'[d] = number[d]
         /\ R # {} => number'[c] > published
         /\ restarts = 0 => R = Copies(posted[c].kind)
    BY PublishFacts
<1>1. TypeOK'
  <2>1. at' \in [Call -> Place]
      BY DEF IInv, TypeOK, Publish, Place
  <2>2. /\ published' \in Nat /\ number' \in [Call -> 0..published']
        /\ routed' \in [Call -> SUBSET Queue] /\ queue' \in [Queue -> SUBSET Call]
      BY <1>0 DEF IInv, TypeOK
  <2> QED
      BY <2>1, <2>2 DEF IInv, TypeOK, Publish
<1>2. CallInv'
  <2>1. PublishingAgrees'
      BY <1>0 DEF IInv, TypeOK, Publish, CallInv, PublishingAgrees
  <2>2. DeclaredIsThere'
      BY DEF IInv, TypeOK, Publish, CallInv, DeclaredIsThere
  <2>3. LinksAgree'
      BY DEF IInv, TypeOK, Publish, CallInv, LinksAgree
  <2>4. AloneAgrees'
    <3>1. restarts = 0 => routed'[c] # {}
        BY <1>0 DEF IInv, TypeOK, Copies
    <3>2. \A d \in Call : d # c => routed'[d] = routed[d] /\ at'[d] = at[d]
        BY <1>0 DEF IInv, TypeOK, Publish
    <3>3. at[c] = "setup" /\ at'[c] \in {"sent", "badRequest"}
        BY DEF IInv, TypeOK, Publish
    <3>4. InProgress' \subseteq InProgress
        BY <3>2, <3>3 DEF InProgress
    <3>5. \A d \in Call : d \in InProgress' <=> at'[d] \in {"connected", "setup", "sent"}
        BY DEF InProgress
    <3>6. channels' \subseteq channels /\ (restarts = 0 => channels' = channels)
        BY DEF Publish, IInv, CallInv, DeclaredIsThere
    <3>7. UNCHANGED <<alone, connection, connections, cut, model, channelOn, restarts>>
        BY DEF Publish
    <3> QED
        BY <3>1, <3>2, <3>3, <3>4, <3>5, <3>6, <3>7 DEF IInv, TypeOK, CallInv, AloneAgrees
  <2>5. AcceptedIsRouted'
      BY <1>0 DEF IInv, TypeOK, Publish, CallInv, AcceptedIsRouted, Copies
  <2>6. LoneCallIsSound'
    <3>1. ASSUME restarts' = 0, NEW d \in alone', at'[d] \in {"ok", "badRequest"}, d # c
          PROVE  routed'[d] = routed[d] /\ at'[d] = at[d]
        BY <3>1, <1>0 DEF IInv, TypeOK, Publish
    <3>2. restarts' = 0 => routed'[c] # {}
        BY <1>0 DEF IInv, TypeOK, Publish, Copies
    <3> QED
        BY <3>1, <3>2 DEF IInv, TypeOK, Publish, CallInv, LoneCallIsSound, Body
  <2> QED
      BY <2>1, <2>2, <2>3, <2>4, <2>5, <2>6 DEF CallInv
<1>3. QueueInv'
  <2>1. QueuesAgree'
      BY <1>0 DEF IInv, TypeOK, Publish, QueueInv, QueuesAgree, KeptUntilHandled
  <2>2. HoldingAgrees'
    <3>1. \A d \in Call : d # c => routed'[d] = routed[d]
        BY <1>0 DEF IInv, TypeOK
    <3>2. \A w \in Worker : c \notin held[w]
        BY <1>0 DEF IInv, TypeOK, QueueInv, HoldingAgrees
    <3>3. \A q \in Queue : queue[q] \subseteq queue'[q]
        BY <1>0 DEF IInv, TypeOK
    <3>4. UNCHANGED <<srv, held, handled, online, lost>>
        BY DEF Publish
    <3> QED
        BY <3>1, <3>2, <3>3, <3>4 DEF IInv, TypeOK, QueueInv, HoldingAgrees
  <2>3. KeptUntilHandled'
      BY <1>0 DEF IInv, TypeOK, Publish, QueueInv, KeptUntilHandled
  <2>4. HandlingAgrees'
    <3>1. UNCHANGED <<posted, handled, failures, srv, held, online>>
        BY DEF Publish
    <3>2. ASSUME NEW q \in Queue, NEW d \in Call
          PROVE  /\ handled[q][d] > 0 => q \in routed'[d] /\ Readable(q, d)
                 /\ IsFiniteSet(Processing(q, d))
                 /\ handled[q][d] + Cardinality(Processing(q, d)) + Waiting(q, d)' <= 1 + failures
      <4>1. CASE d = c
        <5>1. handled[q][d] = 0 /\ Processing(q, d) = {} /\ failures \in Nat
            BY <1>0, <4>1, HandlingFacts
        <5>2. IsFiniteSet(Processing(q, d)) /\ Cardinality(Processing(q, d)) = 0
            BY <5>1, FS_EmptySet
        <5>3. Waiting(q, d)' \in {0, 1}
            BY DEF Waiting
        <5> QED
            BY <5>1, <5>2, <5>3
      <4>2. CASE d # c
        <5>1. routed'[d] = routed[d]
            BY <1>0, <4>2 DEF IInv, TypeOK
        <5>2. Waiting(q, d)' = Waiting(q, d)
            BY <1>0, <3>1, <4>2 DEF Waiting, Ready
        <5> QED
            BY <5>1, <5>2, HandlingFacts
      <4> QED
          BY <4>1, <4>2
    <3>3. \A q \in Queue : \A d \in Call : Processing(q, d)' = Processing(q, d)
        BY <3>1 DEF Processing
    <3> QED
        BY <3>1, <3>2, <3>3 DEF HandlingAgrees, Readable
  <2>5. TurnsAgree'
    <3>1. ASSUME NEW w \in Worker, NEW d \in held[w] PROVE d \in Call /\ d # c /\ number'[d] = number[d] /\ number[d] <= published
        BY <1>0 DEF IInv, TypeOK, QueueInv, HoldingAgrees
    <3>2. \A d \in Call : number[d] \in 0..published
        BY DEF IInv, TypeOK
    <3>3. ASSUME NEW w \in Worker, OneReader(Reads[w]), NEW d \in Call, NEW e \in held[w],
                 Reads[w] \in routed'[d], number'[d] < number'[e]
          PROVE  d # c /\ Reads[w] \in routed[d] /\ number[d] < number[e]
        BY <1>0, <3>1, <3>2, <3>3 DEF IInv, TypeOK
    <3> QED
        BY <3>1, <3>3 DEF IInv, TypeOK, Publish, QueueInv, TurnsAgree, OneReader
  <2>6. HandledInOrder'
    <3>1. \A q \in Queue : handled[q][c] = 0
        BY <1>0, HandlingFacts
    <3>2. \A d \in Call : number[d] \in 0..published
        BY DEF IInv, TypeOK
    <3>3. ASSUME NEW q \in Queue, NEW d \in Call, NEW e \in Call,
                 q \in routed'[d], number'[d] < number'[e], handled[q][e] > 0
          PROVE  q \in routed[d] /\ number[d] < number[e]
      <4>1. e # c /\ number'[e] = number[e] /\ number[e] <= published
          BY <1>0, <3>1, <3>2, <3>3 DEF IInv, TypeOK
      <4>2. d # c
          BY <1>0, <3>2, <3>3, <4>1 DEF IInv, TypeOK
      <4> QED
          BY <1>0, <3>3, <4>1, <4>2 DEF IInv, TypeOK
    <3>4. ASSUME NEW q \in Queue, OneReader(q) PROVE InOrder(q)'
        BY <3>3, <3>4 DEF IInv, QueueInv, HandledInOrder, InOrder, Publish
    <3> QED
        BY <3>4 DEF HandledInOrder, OneReader
  <2> QED
      BY <2>1, <2>2, <2>3, <2>4, <2>5, <2>6 DEF QueueInv
<1> QED
    BY <1>1, <1>2, <1>3 DEF IInv

\* The message never arrives; the connection it was handed to is lost.
LEMMA PublishLostInv ==
  ASSUME IInv, NEW c \in Call, PublishLost(c)
  PROVE  IInv'
<1>0. PICK d \in connections : d = channelOn[model] /\ Drop(d) /\ d \in Call /\ at[d] # "idle"
    BY DEF PublishLost, IInv, TypeOK, CallInv, LinksAgree
<1>00. /\ at[c] = "setup" /\ declared[c] = 4 /\ model \in channels
       /\ at' = [at EXCEPT ![c] = IF posted[c].body = "payment" THEN "sent" ELSE "badRequest"]
       /\ UNCHANGED <<posted, declared, alone, staticVars, channelOn, brokerVars, messageVars,
                      queue, workerVars, online, lost, failures, restarts>>
    BY DEF PublishLost
<1>1. TypeOK'
    BY <1>0, <1>00 DEF IInv, TypeOK, Drop, Place
<1>2. CallInv'
  <2>1. PublishingAgrees'
      BY <1>00 DEF IInv, TypeOK, CallInv, PublishingAgrees
  <2>2. DeclaredIsThere'
      BY <1>00 DEF IInv, TypeOK, CallInv, DeclaredIsThere
  <2>3. LinksAgree'
      BY <1>0, <1>00 DEF IInv, TypeOK, Drop, CallInv, LinksAgree
  <2>4. restarts = 0 /\ c \in alone => c \in cut'
      BY <1>0, <1>00 DEF IInv, CallInv, AloneAgrees, Drop
  <2>5. AloneAgrees'
      BY <1>0, <1>00, <2>4 DEF IInv, TypeOK, Drop, CallInv, AloneAgrees, InProgress
  <2>6. AcceptedIsRouted'
      BY <1>0, <1>00 DEF IInv, TypeOK, Drop, CallInv, AcceptedIsRouted
  <2>7. LoneCallIsSound'
      BY <1>0, <1>00, <2>4 DEF IInv, TypeOK, Drop, CallInv, LoneCallIsSound
  <2> QED
      BY <2>1, <2>2, <2>3, <2>5, <2>6, <2>7 DEF CallInv
<1>3. QueueInv'
    BY <1>00, QueueInvUnchanged DEF IInv
<1> QED
    BY <1>1, <1>2, <1>3 DEF IInv

\* A lost connection is noted.
LEMMA CallCutInv ==
  ASSUME IInv, NEW d \in Call, CallCut(d)
  PROVE  IInv'
<1>0. /\ d \in connections /\ Drop(d)
      /\ UNCHANGED <<posted, callVars, staticVars, channelOn, brokerVars, messageVars, queue,
                     workerVars, online, lost, failures, restarts>>
    BY DEF CallCut
<1>1. TypeOK'
    BY <1>0 DEF IInv, TypeOK, Drop
<1>2. CallInv'
  <2>1. PublishingAgrees' /\ DeclaredIsThere'
      BY <1>0 DEF IInv, CallInv, PublishingAgrees, DeclaredIsThere
  <2>2. LinksAgree'
      BY <1>0 DEF IInv, TypeOK, Drop, CallInv, LinksAgree
  <2>3. AloneAgrees'
      BY <1>0 DEF IInv, TypeOK, Drop, CallInv, AloneAgrees, InProgress
  <2>4. AcceptedIsRouted'
      BY <1>0 DEF IInv, TypeOK, Drop, CallInv, AcceptedIsRouted
  <2>5. LoneCallIsSound'
      BY <1>0 DEF IInv, TypeOK, Drop, CallInv, LoneCallIsSound
  <2> QED
      BY <2>1, <2>2, <2>3, <2>4, <2>5 DEF CallInv
<1>3. QueueInv'
    BY <1>0, QueueInvUnchanged DEF IInv
<1> QED
    BY <1>1, <1>2, <1>3 DEF IInv

\* A call that is alone closes its own connection.
LEMMA CloseInv ==
  ASSUME IInv, NEW c \in Call, Close(c)
  PROVE  IInv'
<1>1. TypeOK'
    BY DEF IInv, TypeOK, Close, ClosedBy, Place
<1>2. CallInv'
  <2>1. PublishingAgrees'
      BY DEF IInv, TypeOK, Close, ClosedBy, CallInv, PublishingAgrees
  <2>2. DeclaredIsThere'
      BY DEF IInv, TypeOK, Close, ClosedBy, CallInv, DeclaredIsThere
  <2>3. LinksAgree'
      BY DEF IInv, TypeOK, Close, ClosedBy, CallInv, LinksAgree
  <2>4. AloneAgrees'
    <3> SUFFICES ASSUME restarts' = 0, NEW d \in alone'
                 PROVE  /\ at'[d] # "idle"
                        /\ at'[d] \notin {"connected", "setup", "sent"}
        BY DEF AloneAgrees
    <3>1. restarts = 0 /\ d \in alone /\ d \in Call /\ at[c] = "sent"
        BY DEF IInv, TypeOK, Close
    <3>2. at[d] # "idle" /\ (at[d] \in {"connected", "setup", "sent"} => InProgress = {d})
        BY <3>1 DEF IInv, CallInv, AloneAgrees
    <3>3. c \in InProgress
        BY <3>1 DEF InProgress
    <3> QED
        BY <3>1, <3>2, <3>3 DEF IInv, TypeOK, Close
  <2>5. AcceptedIsRouted'
      BY DEF IInv, TypeOK, Close, ClosedBy, CallInv, AcceptedIsRouted, Copies
  <2>6. LoneCallIsSound'
    <3> SUFFICES ASSUME restarts' = 0, NEW d \in alone'
                 PROVE  /\ at'[d] = "ok" => /\ posted[d].body = "payment" /\ d \notin connections'
                                            /\ routed[d] # {}
                        /\ at'[d] = "badRequest" /\ d \notin cut
                             => posted[d].body = "null" /\ routed[d] # {}
        BY DEF LoneCallIsSound, Close
    <3>1. restarts = 0 /\ d \in alone /\ d \in Call /\ connections' \subseteq connections
        BY DEF IInv, TypeOK, Close
    <3>2. CASE d # c
        BY <3>1, <3>2 DEF IInv, TypeOK, Close, CallInv, LoneCallIsSound
    <3>3. CASE d = c
      <4>1. at[c] = "sent" /\ at'[c] = "ok" /\ connections' = connections \ {connection}
          BY DEF IInv, TypeOK, Close, ClosedBy
      <4>2. connection = c /\ c \notin cut
          BY <3>1, <3>3, <4>1 DEF Close, IInv, CallInv, AloneAgrees, LinksAgree
      <4>3. posted[c].body = "payment" /\ routed[c] # {}
          BY <3>1, <3>3, <4>1, <4>2 DEF IInv, CallInv, AloneAgrees, PublishingAgrees
      <4> QED
          BY <3>3, <4>1, <4>2, <4>3
    <3> QED
        BY <3>2, <3>3
  <2> QED
      BY <2>1, <2>2, <2>3, <2>4, <2>5, <2>6 DEF CallInv
<1>3. QueueInv'
    BY QueueInvUnchanged DEF IInv, Close, ClosedBy
<1> QED
    BY <1>1, <1>2, <1>3 DEF IInv

\* A call that is alone finds its connection and channel open.
LEMMA CallFailsInv ==
  ASSUME IInv, NEW c \in Call, CallFails(c)
  PROVE  IInv'
<1>1. TypeOK'
    BY DEF IInv, TypeOK, CallFails, BadRequest, Place
<1>2. CallInv'
  <2>1. PublishingAgrees'
      BY DEF IInv, TypeOK, CallFails, BadRequest, CallInv, PublishingAgrees
  <2>2. DeclaredIsThere'
      BY DEF IInv, TypeOK, CallFails, BadRequest, CallInv, DeclaredIsThere
  <2>3. LinksAgree'
      BY DEF IInv, TypeOK, CallFails, BadRequest, CallInv, LinksAgree
  <2>4. AloneAgrees'
      BY DEF IInv, TypeOK, CallFails, BadRequest, CallInv, AloneAgrees, InProgress
  <2>5. AcceptedIsRouted'
      BY DEF IInv, TypeOK, CallFails, BadRequest, CallInv, AcceptedIsRouted, Copies
  <2>6. LoneCallIsSound'
      BY DEF IInv, TypeOK, CallFails, BadRequest, CallInv, AloneAgrees, LoneCallIsSound,
             AcceptedIsRouted, Copies
  <2> QED
      BY <2>1, <2>2, <2>3, <2>4, <2>5, <2>6 DEF CallInv
<1>3. QueueInv'
    BY QueueInvUnchanged DEF IInv, CallFails, BadRequest
<1> QED
    BY <1>1, <1>2, <1>3 DEF IInv

\* A worker that starts holds nothing; what it binds is harmless.
LEMMA WorkerStartInv ==
  ASSUME IInv, NEW w \in Worker, WorkerStart(w)
  PROVE  IInv'
<1>1. TypeOK'
  <2>1. WorkerBinds(Reads[w]) \subseteq Queue \X Pattern
      BY DEF WorkerBinds, Queue, Pattern
  <2> QED
      BY <2>1 DEF IInv, TypeOK, WorkerStart
<1>2. CallInv'
  <2>1. PublishingAgrees'
    <3>1. WorkerBinds(Reads[w]) \subseteq {<<"card", "payment.cardpayment">>,
            <<"order", "payment.purchaseorder">>, <<"all", "payment.*">>}
        BY DEF WorkerBinds, Queue
    <3> QED
        BY <3>1 DEF IInv, TypeOK, WorkerStart, CallInv, PublishingAgrees
  <2>2. DeclaredIsThere'
      BY DEF IInv, TypeOK, WorkerStart, WorkerBinds, CallInv, DeclaredIsThere
  <2>3. LinksAgree'
      BY DEF IInv, TypeOK, WorkerStart, WorkerBinds, CallInv, LinksAgree
  <2>4. AloneAgrees'
      BY DEF IInv, TypeOK, WorkerStart, WorkerBinds, CallInv, AloneAgrees, InProgress
  <2>5. AcceptedIsRouted'
      BY DEF IInv, TypeOK, WorkerStart, WorkerBinds, CallInv, AcceptedIsRouted, Copies
  <2>6. LoneCallIsSound'
      BY DEF IInv, TypeOK, WorkerStart, WorkerBinds, CallInv, LoneCallIsSound,
             AcceptedIsRouted, Copies
  <2> QED
      BY <2>1, <2>2, <2>3, <2>4, <2>5, <2>6 DEF CallInv
<1>3. QueueInv'
  <2>1. QueuesAgree'
      BY DEF IInv, TypeOK, WorkerStart, WorkerBinds, QueueInv, QueuesAgree
  <2>2. HoldingAgrees'
      BY DEF IInv, TypeOK, WorkerStart, WorkerBinds, QueueInv, HoldingAgrees
  <2>3. KeptUntilHandled'
      BY DEF IInv, TypeOK, WorkerStart, WorkerBinds, QueueInv, KeptUntilHandled
  <2>4. HandlingAgrees'
    <3>1. UNCHANGED <<posted, routed, queue, handled, failures, held>> /\ held[w] = {}
        BY DEF WorkerStart, IInv, QueueInv, HoldingAgrees
    <3>2. \A v \in Worker : v # w => srv'[v] = srv[v] /\ (v \in online' <=> v \in online)
        BY DEF WorkerStart, IInv, TypeOK
    <3>3. \A q \in Queue : Ready(q)' = Ready(q)
        BY <3>1, <3>2 DEF Ready, IInv, TypeOK, WorkerStart
    <3>4. \A q \in Queue : \A c \in Call : Processing(q, c)' = Processing(q, c)
        BY <3>1, <3>2 DEF Processing
    <3> QED
        BY <3>1, <3>3, <3>4, SameHandling DEF Waiting
  <2>5. TurnsAgree'
      BY DEF IInv, TypeOK, WorkerStart, WorkerBinds, QueueInv, TurnsAgree, OneReader
  <2>6. HandledInOrder'
      BY DEF IInv, TypeOK, WorkerStart, WorkerBinds, QueueInv, HandledInOrder, InOrder
  <2> QED
      BY <2>1, <2>2, <2>3, <2>4, <2>5, <2>6 DEF QueueInv
<1> QED
    BY <1>1, <1>2, <1>3 DEF IInv

\* The worker reserves the first message that nobody has reserved.
LEMMA DeliverInv ==
  ASSUME IInv, NEW w \in Worker, NEW c \in queue[Reads[w]], Deliver(w, c)
  PROVE  IInv'
<1>0. /\ srv[w] = "ready" /\ w \in online /\ c \in Call
      /\ srv' = [srv EXCEPT ![w] = "received"] /\ held' = [held EXCEPT ![w] = {c}]
      /\ queue' = queue /\ UNCHANGED <<posted, published, number, routed, handled, online, lost, failures>>
      /\ \A v \in online : Reads[v] = Reads[w] => c \notin held[v]
      /\ \A d \in Ready(Reads[w]) : number[c] <= number[d]
    BY DEF IInv, TypeOK, Deliver, AfterDelivery, IsNext, Ready
<1>1. TypeOK'
    BY DEF IInv, TypeOK, Deliver, AfterDelivery, Place
<1>2. CallInv'
    BY CallInvUnchanged DEF IInv, Deliver, AfterDelivery
<1>3. QueueInv'
  <2>1. QueuesAgree'
      BY DEF IInv, TypeOK, Deliver, AfterDelivery, QueueInv, QueuesAgree
  <2>2. HoldingAgrees'
    <3>1. Reads[w] \in Queue /\ Reads[w] \in routed[c]
        BY DEF IInv, QueueInv, QueuesAgree
    <3>2. \A v \in Worker : v # w => held'[v] = held[v] /\ srv'[v] = srv[v]
        BY <1>0 DEF IInv, TypeOK
    <3>3. held'[w] = {c} /\ srv'[w] = "received"
        BY <1>0 DEF IInv, TypeOK
    <3>4. ASSUME NEW v \in Worker
          PROVE  /\ srv'[v] \in {"down", "ready"} <=> held'[v] = {}
                 /\ \A d, e \in held'[v] : d = e
                 /\ v \in online => srv'[v] # "down"
                 /\ \A d \in held'[v] :
                      /\ Reads[v] \in routed[d]
                      /\ v \in online => d \in queue[Reads[v]]
                      /\ d \in queue[Reads[v]] \/ d \in lost[Reads[v]] \/ handled[Reads[v]][d] > 0
                      /\ srv'[v] = "processed" => handled[Reads[v]][d] > 0
        BY <1>0, <3>1, <3>2, <3>3 DEF IInv, QueueInv, HoldingAgrees
    <3>5. ASSUME NEW u \in online, NEW v \in online, Reads[u] = Reads[v], held'[u] \cap held'[v] # {}
          PROVE  u = v
        BY <1>0, <3>2, <3>3, <3>5 DEF IInv, TypeOK, QueueInv, HoldingAgrees
    <3> QED
        BY <1>0, <3>4, <3>5 DEF HoldingAgrees
  <2>3. KeptUntilHandled'
      BY DEF IInv, TypeOK, Deliver, AfterDelivery, QueueInv, KeptUntilHandled
  <2>4. HandlingAgrees'
    <3>0. \A v \in Worker : v # w => held'[v] = held[v] /\ srv'[v] = srv[v]
        BY <1>0 DEF IInv, TypeOK
    <3>1. held'[w] = {c} /\ held[w] = {} /\ srv'[w] = "received"
        BY <1>0 DEF IInv, TypeOK, QueueInv, HoldingAgrees
    <3>2. ASSUME NEW q \in Queue, NEW d \in Call
          PROVE  /\ IsFiniteSet(Processing(q, d)')
                 /\ handled[q][d] + Cardinality(Processing(q, d)') + Waiting(q, d)' <= 1 + failures
      <4>1. CASE q = Reads[w] /\ d = c
        <5>1. Processing(q, d)' = Processing(q, d) \cup {w} /\ w \notin Processing(q, d)
            BY <1>0, <3>0, <3>1, <4>1 DEF Processing
        <5>2. /\ IsFiniteSet(Processing(q, d)')
              /\ Cardinality(Processing(q, d)') = Cardinality(Processing(q, d)) + 1
            BY <5>1, HandlingFacts, FS_AddElement
        <5>3. Waiting(q, d) = 1 /\ Waiting(q, d)' = 0
            BY <1>0, <3>1, <4>1 DEF Waiting, Ready
        <5> QED
            BY <5>2, <5>3, HandlingFacts
      <4>2. CASE q # Reads[w] \/ d # c
        <5>1. Processing(q, d)' = Processing(q, d)
            BY <1>0, <3>0, <3>1, <4>2 DEF Processing
        <5>2. d \in Ready(q)' <=> d \in Ready(q)
            BY <1>0, <3>0, <3>1, <4>2 DEF Ready, IInv, TypeOK
        <5> QED
            BY <5>1, <5>2, HandlingFacts DEF Waiting
      <4> QED
          BY <4>1, <4>2
    <3>3. \A q \in Queue : \A d \in Call : handled[q][d] > 0 => q \in routed[d] /\ Readable(q, d)
        BY HandlingFacts
    <3> QED
        BY <1>0, <3>2, <3>3 DEF HandlingAgrees, Readable
  <2>5. TurnsAgree'
    <3> SUFFICES ASSUME NEW v \in Worker, OneReader(Reads[v]), NEW d \in Call, NEW e \in held'[v],
                        Reads[v] \in routed[d], number[d] < number[e]
                 PROVE  handled[Reads[v]][d] > 0 \/ d \in lost[Reads[v]]
        BY <1>0 DEF TurnsAgree, OneReader
    <3>1. CASE v # w
        BY <1>0, <3>1 DEF IInv, TypeOK, QueueInv, TurnsAgree
    <3>2. CASE v = w
      <4>1. e = c /\ Reads[w] \in Queue /\ number[c] \in Nat /\ number[d] \in Nat
          BY <1>0, <3>2 DEF IInv, TypeOK
      <4>2. \A u \in online : Reads[u] = Reads[w] => held[u] = {}
          BY <1>0, <3>2 DEF IInv, TypeOK, QueueInv, HoldingAgrees, OneReader
      <4>3. d \notin queue[Reads[w]]
        <5>1. d \notin Ready(Reads[w])
            BY <1>0, <3>2, <4>1
        <5> QED
            BY <4>2, <5>1 DEF Ready
      <4> QED
          BY <3>2, <4>1, <4>3 DEF IInv, QueueInv, KeptUntilHandled
    <3> QED
        BY <3>1, <3>2
  <2>6. HandledInOrder'
      BY DEF IInv, TypeOK, Deliver, AfterDelivery, QueueInv, HandledInOrder, InOrder
  <2> QED
      BY <2>1, <2>2, <2>3, <2>4, <2>5, <2>6 DEF QueueInv
<1> QED
    BY <1>1, <1>2, <1>3 DEF IInv

\* The one processing that the message still allowed.
LEMMA ProcessInv ==
  ASSUME IInv, NEW w \in Worker, Process(w)
  PROVE  IInv'
<1>0. PICK c \in held[w] :
         /\ Readable(Reads[w], c)
         /\ handled' = [handled EXCEPT ![Reads[w]][c] = @ + 1]
    BY DEF Process
<1>00. /\ srv[w] = "received" /\ srv' = [srv EXCEPT ![w] = "processed"] /\ c \in Call
       /\ Reads[w] \in Queue /\ held[w] = {c}
       /\ UNCHANGED <<posted, published, number, routed, queue, held, online, lost, failures>>
    BY <1>0 DEF Process, IInv, TypeOK, QueueInv, HoldingAgrees
<1>01. /\ handled' \in [Queue -> [Call -> Nat]]
       /\ \A q \in Queue : \A d \in Call :
            handled'[q][d] = IF q = Reads[w] /\ d = c THEN handled[q][d] + 1 ELSE handled[q][d]
    BY <1>0, <1>00 DEF IInv, TypeOK
<1>02. \A q \in Queue : \A d \in Call : handled[q][d] > 0 => handled'[q][d] > 0
  <2> SUFFICES ASSUME NEW q \in Queue, NEW d \in Call, handled[q][d] > 0 PROVE handled'[q][d] > 0
      OBVIOUS
  <2>1. handled[q][d] \in Nat
      BY DEF IInv, TypeOK
  <2> QED
      BY <1>01, <2>1
<1>1. TypeOK'
    BY <1>01 DEF IInv, TypeOK, Process
<1>2. CallInv'
    BY CallInvUnchanged DEF IInv, Process
<1>3. QueueInv'
  <2>1. QueuesAgree'
      BY DEF IInv, TypeOK, Process, QueueInv, QueuesAgree
  <2>2. HoldingAgrees'
    <3>2. handled'[Reads[w]][c] > 0
        BY <1>00, <1>01 DEF IInv, TypeOK
    <3> QED
        BY <1>00, <1>02, <3>2 DEF IInv, TypeOK, QueueInv, HoldingAgrees
  <2>3. KeptUntilHandled'
      BY <1>00, <1>02 DEF IInv, TypeOK, QueueInv, KeptUntilHandled
  <2>4. HandlingAgrees'
    <3>1. ASSUME NEW q \in Queue, NEW d \in Call PROVE Waiting(q, d)' = Waiting(q, d)
        BY <1>00 DEF Waiting, Ready
    <3>2. Reads[w] \in routed[c]
        BY <1>00 DEF IInv, QueueInv, HoldingAgrees
    <3>3. ASSUME NEW q \in Queue, NEW d \in Call
          PROVE  /\ handled'[q][d] > 0 => q \in routed[d] /\ Readable(q, d)
                 /\ IsFiniteSet(Processing(q, d)')
                 /\ handled'[q][d] + Cardinality(Processing(q, d)') + Waiting(q, d)' <= 1 + failures
      <4>1. CASE q = Reads[w] /\ d = c
        <5>1. Processing(q, d)' = Processing(q, d) \ {w} /\ w \in Processing(q, d)
            BY <1>00, <4>1 DEF Processing, IInv, TypeOK
        <5>2. /\ IsFiniteSet(Processing(q, d)')
              /\ Cardinality(Processing(q, d)') = Cardinality(Processing(q, d)) - 1
            BY <5>1, HandlingFacts, FS_RemoveElement
        <5>3. handled'[q][d] = handled[q][d] + 1
            BY <1>01, <4>1
        <5> QED
            BY <1>0, <3>1, <3>2, <4>1, <5>2, <5>3, HandlingFacts
      <4>2. CASE q # Reads[w] \/ d # c
        <5>1. Processing(q, d)' = Processing(q, d)
            BY <1>00, <4>2 DEF Processing, IInv, TypeOK
        <5>2. handled'[q][d] = handled[q][d]
            BY <1>01, <4>2
        <5> QED
            BY <3>1, <5>1, <5>2, HandlingFacts
      <4> QED
          BY <4>1, <4>2
    <3> QED
        BY <1>00, <3>3 DEF HandlingAgrees, Readable
  <2>5. TurnsAgree'
      BY <1>00, <1>02 DEF IInv, TypeOK, QueueInv, TurnsAgree, OneReader
  <2>6. HandledInOrder'
    <3> SUFFICES ASSUME NEW q \in Queue, OneReader(q), NEW d \in Call, NEW e \in Call,
                        q \in routed[d], number[d] < number[e], handled'[q][e] > 0
                 PROVE  handled'[q][d] > 0 \/ d \in lost[q]
        BY <1>00 DEF HandledInOrder, InOrder, OneReader
    <3>1. handled[q][d] > 0 => handled'[q][d] > 0
        BY <1>02
    <3>2. CASE handled[q][e] > 0
        BY <3>1, <3>2 DEF IInv, QueueInv, HandledInOrder, InOrder
    <3>3. CASE q = Reads[w] /\ e = c
        BY <1>00, <3>1, <3>3 DEF IInv, QueueInv, TurnsAgree
    <3> QED
        BY <1>01, <3>2, <3>3
  <2> QED
      BY <2>1, <2>2, <2>3, <2>4, <2>5, <2>6 DEF QueueInv
<1> QED
    BY <1>1, <1>2, <1>3 DEF IInv

\* The message has been processed and leaves the queue.
LEMMA AckInv ==
  ASSUME IInv, NEW w \in Worker, Ack(w)
  PROVE  IInv'
<1>0. PICK c \in held[w] : queue' = [queue EXCEPT ![Reads[w]] = queue[Reads[w]] \ {c}]
    BY DEF Ack
<1>00. /\ srv[w] = "processed" /\ w \in online /\ c \in Call /\ Reads[w] \in Queue /\ held[w] = {c}
       /\ srv' = [srv EXCEPT ![w] = "ready"] /\ held' = [held EXCEPT ![w] = {}]
       /\ UNCHANGED <<posted, published, number, routed, handled, online, lost, failures>>
    BY <1>0 DEF Ack, IInv, TypeOK, QueueInv, HoldingAgrees
<1>01. /\ queue' \in [Queue -> SUBSET Call]
       /\ \A q \in Queue : queue'[q] = IF q = Reads[w] THEN queue[q] \ {c} ELSE queue[q]
    BY <1>0 DEF IInv, TypeOK
<1>1. TypeOK'
    BY <1>01 DEF IInv, TypeOK, Ack
<1>2. CallInv'
    BY CallInvUnchanged DEF IInv, Ack
<1>3. QueueInv'
  <2>1. QueuesAgree'
      BY <1>00, <1>01 DEF IInv, TypeOK, QueueInv, QueuesAgree
  <2>2. HoldingAgrees'
    <3>1. \A v \in Worker : v # w => held'[v] = held[v] /\ srv'[v] = srv[v]
        BY <1>00 DEF IInv, TypeOK
    <3>2. held'[w] = {} /\ srv'[w] = "ready"
        BY <1>00 DEF IInv, TypeOK
    <3>3. \A v \in online : v # w /\ Reads[v] = Reads[w] => c \notin held[v]
        BY <1>00 DEF IInv, QueueInv, HoldingAgrees
    <3>4. \A v \in Worker : \A d \in held[v] :
            d \in queue[Reads[v]] => d \in queue'[Reads[v]] \/ (d = c /\ Reads[v] = Reads[w])
        BY <1>01
    <3>7. handled[Reads[w]][c] > 0
        BY <1>00 DEF IInv, QueueInv, HoldingAgrees
    <3>5. ASSUME NEW v \in Worker
          PROVE  /\ srv'[v] \in {"down", "ready"} <=> held'[v] = {}
                 /\ \A d, e \in held'[v] : d = e
                 /\ v \in online => srv'[v] # "down"
                 /\ \A d \in held'[v] :
                      /\ Reads[v] \in routed[d]
                      /\ v \in online => d \in queue'[Reads[v]]
                      /\ d \in queue'[Reads[v]] \/ d \in lost[Reads[v]] \/ handled[Reads[v]][d] > 0
                      /\ srv'[v] = "processed" => handled[Reads[v]][d] > 0
        BY <3>1, <3>2, <3>3, <3>4, <3>7 DEF IInv, QueueInv, HoldingAgrees
    <3>6. ASSUME NEW u \in online, NEW v \in online, Reads[u] = Reads[v], held'[u] \cap held'[v] # {}
          PROVE  u = v
      <4>1. u \in Worker /\ v \in Worker /\ u # w /\ v # w
          BY <3>2, <3>6 DEF IInv, TypeOK
      <4>2. held[u] \cap held[v] # {}
          BY <3>1, <3>6, <4>1
      <4> QED
          BY <3>6, <4>2 DEF IInv, QueueInv, HoldingAgrees
    <3> QED
        BY <1>00, <3>5, <3>6 DEF HoldingAgrees
  <2>3. KeptUntilHandled'
    <3>1. handled[Reads[w]][c] > 0
        BY <1>00 DEF IInv, QueueInv, HoldingAgrees
    <3> QED
        BY <1>00, <1>01, <3>1 DEF IInv, TypeOK, QueueInv, KeptUntilHandled
  <2>4. HandlingAgrees'
    <3>1. ASSUME NEW q \in Queue, NEW d \in Call PROVE d \in Ready(q)' <=> d \in Ready(q)
      <4>1. CASE q = Reads[w] /\ d = c
          BY <1>00, <1>01, <4>1 DEF Ready
      <4>2. CASE q # Reads[w] \/ d # c
          BY <1>00, <1>01, <4>2 DEF Ready, IInv, TypeOK
      <4> QED
          BY <4>1, <4>2
    <3>2. \A q \in Queue : \A d \in Call : Processing(q, d)' = Processing(q, d)
        BY <1>00 DEF Processing, IInv, TypeOK
    <3> QED
        BY <1>00, <3>1, <3>2, SameHandling DEF Waiting
  <2>5. TurnsAgree'
      BY <1>00 DEF IInv, TypeOK, QueueInv, TurnsAgree, OneReader
  <2>6. HandledInOrder'
      BY <1>00 DEF IInv, QueueInv, HandledInOrder, InOrder, OneReader
  <2> QED
      BY <2>1, <2>2, <2>3, <2>4, <2>5, <2>6 DEF QueueInv
<1> QED
    BY <1>1, <1>2, <1>3 DEF IInv

\* The message has not been processed and stays where it is.
LEMMA UnreadableInv ==
  ASSUME IInv, NEW w \in Worker, Unreadable(w)
  PROVE  IInv'
<1>1. TypeOK'
    BY DEF IInv, TypeOK, Unreadable, Stop, Place
<1>2. CallInv'
    BY CallInvUnchanged DEF IInv, Unreadable, Stop
<1>3. QueueInv'
  <2>1. QueuesAgree'
      BY DEF IInv, TypeOK, Unreadable, Stop, QueueInv, QueuesAgree
  <2>2. HoldingAgrees'
      BY DEF IInv, TypeOK, Unreadable, Stop, QueueInv, HoldingAgrees
  <2>3. KeptUntilHandled'
      BY DEF IInv, TypeOK, Unreadable, Stop, QueueInv, KeptUntilHandled
  <2>4. HandlingAgrees'
    <3>1. /\ UNCHANGED <<posted, routed, queue, handled, failures>> /\ online' = online \ {w}
          /\ srv' = [srv EXCEPT ![w] = "down"] /\ held' = [held EXCEPT ![w] = {}]
        BY DEF Unreadable, Stop
    <3>2. \A v \in Worker : v # w => held'[v] = held[v] /\ srv'[v] = srv[v]
        BY <3>1 DEF IInv, TypeOK
    <3>3. held'[w] = {} /\ srv'[w] = "down" /\ srv[w] = "received"
        BY <3>1 DEF Unreadable, IInv, TypeOK
    <3>4. ASSUME NEW q \in Queue, NEW d \in Call
          PROVE  /\ IsFiniteSet(Processing(q, d)')
                 /\ handled[q][d] + Cardinality(Processing(q, d)') + Waiting(q, d)' <= 1 + failures
      <4>1. CASE q = Reads[w] /\ d \in held[w]
        <5>1. Processing(q, d)' = Processing(q, d) \ {w} /\ w \in Processing(q, d)
            BY <3>2, <3>3, <4>1 DEF Processing
        <5>2. /\ IsFiniteSet(Processing(q, d)')
              /\ Cardinality(Processing(q, d)') = Cardinality(Processing(q, d)) - 1
            BY <5>1, HandlingFacts, FS_RemoveElement
        <5>3. Waiting(q, d)' \in {0, 1} /\ (w \in online => Waiting(q, d) = 0)
            BY <4>1 DEF Waiting, Ready
        <5>4. w \notin online => (d \in Ready(q)' <=> d \in Ready(q))
            BY <3>1, <3>2 DEF Ready, IInv, TypeOK
        <5> QED
            BY <5>2, <5>3, <5>4, HandlingFacts DEF Waiting
      <4>2. CASE q # Reads[w] \/ d \notin held[w]
        <5>1. Processing(q, d)' = Processing(q, d)
            BY <3>2, <3>3, <4>2 DEF Processing
        <5>2. d \in Ready(q)' <=> d \in Ready(q)
            BY <3>1, <3>2, <4>2 DEF Ready, IInv, TypeOK
        <5> QED
            BY <5>1, <5>2, HandlingFacts DEF Waiting
      <4> QED
          BY <4>1, <4>2
    <3>5. \A q \in Queue : \A d \in Call : handled[q][d] > 0 => q \in routed[d] /\ Readable(q, d)
        BY HandlingFacts
    <3> QED
        BY <3>1, <3>4, <3>5 DEF HandlingAgrees, Readable
  <2>5. TurnsAgree'
      BY DEF IInv, TypeOK, Unreadable, Stop, QueueInv, TurnsAgree, OneReader
  <2>6. HandledInOrder'
      BY DEF IInv, TypeOK, Unreadable, Stop, QueueInv, HandledInOrder, InOrder
  <2> QED
      BY <2>1, <2>2, <2>3, <2>4, <2>5, <2>6 DEF QueueInv
<1> QED
    BY <1>1, <1>2, <1>3 DEF IInv

\* The broker knows since the connection was lost that the message is for another.
LEMMA WorkerFailsInv ==
  ASSUME IInv, NEW w \in Worker, WorkerFails(w)
  PROVE  IInv'
<1>1. TypeOK'
    BY DEF IInv, TypeOK, WorkerFails, Stop, Place
<1>2. CallInv'
    BY CallInvUnchanged DEF IInv, WorkerFails, Stop
<1>3. QueueInv'
  <2>1. QueuesAgree'
      BY DEF IInv, TypeOK, WorkerFails, Stop, QueueInv, QueuesAgree
  <2>2. HoldingAgrees'
      BY DEF IInv, TypeOK, WorkerFails, Stop, QueueInv, HoldingAgrees
  <2>3. KeptUntilHandled'
      BY DEF IInv, TypeOK, WorkerFails, Stop, QueueInv, KeptUntilHandled
  <2>4. HandlingAgrees'
    <3>1. /\ UNCHANGED <<posted, routed, queue, handled, failures>> /\ online' = online \ {w}
          /\ srv' = [srv EXCEPT ![w] = "down"] /\ held' = [held EXCEPT ![w] = {}]
          /\ w \notin online /\ srv[w] # "received"
        BY DEF WorkerFails, Stop
    <3>2. \A v \in Worker : v # w => held'[v] = held[v] /\ srv'[v] = srv[v]
        BY <3>1 DEF IInv, TypeOK
    <3>3. \A q \in Queue : Ready(q)' = Ready(q)
        BY <3>1, <3>2 DEF Ready, IInv, TypeOK
    <3>4. \A q \in Queue : \A d \in Call : Processing(q, d)' = Processing(q, d)
        BY <3>1, <3>2 DEF Processing, IInv, TypeOK
    <3> QED
        BY <3>1, <3>3, <3>4, SameHandling DEF Waiting
  <2>5. TurnsAgree'
      BY DEF IInv, TypeOK, WorkerFails, Stop, QueueInv, TurnsAgree, OneReader
  <2>6. HandledInOrder'
      BY DEF IInv, TypeOK, WorkerFails, Stop, QueueInv, HandledInOrder, InOrder
  <2> QED
      BY <2>1, <2>2, <2>3, <2>4, <2>5, <2>6 DEF QueueInv
<1> QED
    BY <1>1, <1>2, <1>3 DEF IInv

\* A message that was processed may be delivered once more, and one more crash is
\* counted.
LEMMA CrashInv ==
  ASSUME IInv, NEW w \in Worker, Crash(w)
  PROVE  IInv'
<1>1. TypeOK'
    BY DEF IInv, TypeOK, Crash, Stop, Place
<1>2. CallInv'
    BY CallInvUnchanged DEF IInv, Crash, Stop
<1>3. QueueInv'
  <2>1. QueuesAgree'
      BY DEF IInv, TypeOK, Crash, Stop, QueueInv, QueuesAgree
  <2>2. HoldingAgrees'
      BY DEF IInv, TypeOK, Crash, Stop, QueueInv, HoldingAgrees
  <2>3. KeptUntilHandled'
      BY DEF IInv, TypeOK, Crash, Stop, QueueInv, KeptUntilHandled
  <2>4. HandlingAgrees'
    <3>1. /\ UNCHANGED <<posted, routed, queue, handled>> /\ failures' = failures + 1
          /\ srv' = [srv EXCEPT ![w] = "down"]
        BY DEF Crash, Stop
    <3>2. \A v \in Worker : held'[v] \subseteq held[v] /\ (srv'[v] = "received" => srv[v] = "received")
        BY DEF Crash, Stop, IInv, TypeOK
    <3>3. ASSUME NEW q \in Queue, NEW d \in Call
          PROVE  /\ IsFiniteSet(Processing(q, d)')
                 /\ handled[q][d] + Cardinality(Processing(q, d)') + Waiting(q, d)' <= 2 + failures
      <4>1. Processing(q, d)' \subseteq Processing(q, d)
          BY <3>2 DEF Processing
      <4>2. /\ IsFiniteSet(Processing(q, d)') /\ Cardinality(Processing(q, d)') \in Nat
            /\ Cardinality(Processing(q, d)') <= Cardinality(Processing(q, d))
          BY <4>1, HandlingFacts, FS_Subset, FS_CardinalityType
      <4>3. Waiting(q, d)' \in {0, 1}
          BY DEF Waiting
      <4> QED
          BY <4>2, <4>3, HandlingFacts
    <3>4. \A q \in Queue : \A d \in Call : handled[q][d] > 0 => q \in routed[d] /\ Readable(q, d)
        BY HandlingFacts
    <3>5. 1 + failures' = 2 + failures
        BY <3>1 DEF IInv, TypeOK
    <3> QED
        BY <3>1, <3>3, <3>4, <3>5 DEF HandlingAgrees, Readable
  <2>5. TurnsAgree'
      BY DEF IInv, TypeOK, Crash, Stop, QueueInv, TurnsAgree, OneReader
  <2>6. HandledInOrder'
      BY DEF IInv, TypeOK, Crash, Stop, QueueInv, HandledInOrder, InOrder
  <2> QED
      BY <2>1, <2>2, <2>3, <2>4, <2>5, <2>6 DEF QueueInv
<1> QED
    BY <1>1, <1>2, <1>3 DEF IInv

\* After a restart nothing is promised of calls, and all queued messages are lost.
\* A message that is held may be delivered once more while it is, and one more failure is
\* counted.
LEMMA WorkerCutInv ==
  ASSUME IInv, NEW w \in Worker, WorkerCut(w)
  PROVE  IInv'
<1>0. /\ failures' = failures + 1 /\ online' = online \ {w}
      /\ UNCHANGED <<posted, callVars, staticVars, linkVars, brokerVars, messageVars, queue,
                     workerVars, lost, cut, restarts>>
    BY DEF WorkerCut
<1>1. TypeOK'
    BY DEF IInv, TypeOK, WorkerCut
<1>2. CallInv'
    BY <1>0, CallInvUnchanged DEF IInv
<1>3. QueueInv'
  <2>1. QueuesAgree' /\ KeptUntilHandled' /\ TurnsAgree' /\ HandledInOrder'
      BY <1>0 DEF IInv, QueueInv, QueuesAgree, KeptUntilHandled, TurnsAgree, HandledInOrder, InOrder
  <2>2. HoldingAgrees'
      BY <1>0 DEF IInv, QueueInv, HoldingAgrees
  <2>3. HandlingAgrees'
    <3>1. ASSUME NEW q \in Queue, NEW d \in Call
          PROVE  /\ Processing(q, d)' = Processing(q, d)
                 /\ Waiting(q, d)' \in {0, 1}
        BY <1>0 DEF Processing, Waiting
    <3>2. ASSUME NEW q \in Queue, NEW d \in Call
          PROVE  handled[q][d] + Cardinality(Processing(q, d)) + Waiting(q, d)' <= 1 + failures'
        BY <1>0, <3>1, HandlingFacts
    <3> QED
        BY <1>0, <3>1, <3>2, HandlingFacts DEF HandlingAgrees, Readable
  <2> QED
      BY <2>1, <2>2, <2>3 DEF QueueInv
<1> QED
    BY <1>1, <1>2, <1>3 DEF IInv

LEMMA BrokerRestartInv ==
  ASSUME IInv, BrokerRestart
  PROVE  IInv'
<1>1. TypeOK'
  <2>1. /\ queue' \in [Queue -> SUBSET Call] /\ lost' \in [Queue -> SUBSET Call]
        /\ restarts' \in 0..MaxRestarts
      BY DEF IInv, TypeOK, BrokerRestart
  <2> QED
      BY <2>1 DEF IInv, TypeOK, BrokerRestart
<1>2. CallInv'
  <2>1. PublishingAgrees'
      BY DEF IInv, TypeOK, BrokerRestart, CallInv, PublishingAgrees
  <2>2. DeclaredIsThere'
      BY DEF IInv, TypeOK, BrokerRestart, CallInv, DeclaredIsThere
  <2>3. LinksAgree'
      BY DEF IInv, TypeOK, BrokerRestart, CallInv, LinksAgree
  <2>4. AloneAgrees'
      BY DEF IInv, TypeOK, BrokerRestart, CallInv, AloneAgrees, InProgress
  <2>5. AcceptedIsRouted'
      BY DEF IInv, TypeOK, BrokerRestart, CallInv, AcceptedIsRouted, Copies
  <2>6. LoneCallIsSound'
      BY DEF IInv, TypeOK, BrokerRestart, CallInv, LoneCallIsSound, AcceptedIsRouted,
             Copies
  <2> QED
      BY <2>1, <2>2, <2>3, <2>4, <2>5, <2>6 DEF CallInv
<1>3. QueueInv'
  <2>1. QueuesAgree'
      BY DEF IInv, TypeOK, BrokerRestart, QueueInv, QueuesAgree
  <2>2. HoldingAgrees'
      BY DEF IInv, TypeOK, BrokerRestart, QueueInv, HoldingAgrees
  <2>3. KeptUntilHandled'
      BY DEF IInv, TypeOK, BrokerRestart, QueueInv, KeptUntilHandled
  <2>4. HandlingAgrees'
    <3>1. /\ UNCHANGED <<posted, routed, srv, held, handled, failures>>
          /\ queue' = [q \in Queue |-> {}]
        BY DEF BrokerRestart
    <3>2. ASSUME NEW q \in Queue, NEW d \in Call
          PROVE  Processing(q, d)' = Processing(q, d) /\ Waiting(q, d)' = 0
        BY <3>1 DEF Processing, Waiting, Ready
    <3> QED
        BY <3>1, <3>2, HandlingFacts DEF HandlingAgrees, Readable
  <2>5. TurnsAgree'
      BY DEF IInv, TypeOK, BrokerRestart, QueueInv, TurnsAgree, OneReader
  <2>6. HandledInOrder'
      BY DEF IInv, TypeOK, BrokerRestart, QueueInv, HandledInOrder, InOrder
  <2> QED
      BY <2>1, <2>2, <2>3, <2>4, <2>5, <2>6 DEF QueueInv
<1> QED
    BY <1>1, <1>2, <1>3 DEF IInv

\* Every step preserves IInv.
LEMMA NextInv == IInv /\ [Next]_vars => IInv'
<1> SUFFICES ASSUME IInv, [Next]_vars PROVE IInv'
    OBVIOUS
<1>1. CASE UNCHANGED vars
  <2>1. CallInv' /\ QueueInv'
      BY <1>1, CallInvUnchanged, QueueInvUnchanged DEF IInv, vars
  <2>2. TypeOK'
      BY <1>1 DEF IInv, TypeOK, vars
  <2> QED
      BY <2>1, <2>2 DEF IInv
<1>2. ASSUME NEW c \in Call, Connect(c) \/ ConnectionRefused(c) \/ CallStep(c) \/ CallCut(c) PROVE IInv'
    BY <1>2, ConnectInv, ConnectionRefusedInv, CreateModelInv, DeclareInv, BindRefusedInv,
       PipelinedInv, PublishInv, PublishLostInv, CloseInv, CallFailsInv, CallCutInv DEF CallStep
<1>3. ASSUME NEW w \in Worker, WorkerStart(w) \/ WorkerStep(w) \/ Crash(w) \/ WorkerCut(w)
      PROVE  IInv'
    BY <1>3, WorkerStartInv, ProcessInv, AckInv, UnreadableInv, WorkerFailsInv, CrashInv,
       WorkerCutInv
       DEF WorkerStep
<1>4. ASSUME NEW q \in Queue, DeliverSome(q) PROVE IInv'
    BY <1>4, DeliverInv DEF DeliverSome
<1>5. CASE BrokerRestart
    BY <1>5, BrokerRestartInv
<1> QED
    BY <1>1, <1>2, <1>3, <1>4, <1>5 DEF Next

-----------------------------------------------------------------------------
\* The inductive invariant holds for all calls, workers, queues read and bounds.
THEOREM Invariance == Spec => []IInv
BY InitInv, NextInv, PTL DEF Spec

\* Every variable keeps its type.
THEOREM TypeCorrect == Spec => []TypeOK
BY Invariance, PTL DEF IInv

\* Without a restart, Ok means that the message was put in its queue and in the
\* audit queue, whichever connection and channel the call has used.
THEOREM OkMeansRouted == Spec => []AcceptedIsRouted
<1>1. IInv => AcceptedIsRouted
    BY DEF IInv, CallInv
<1> QED
    BY <1>1, Invariance, PTL

\* The shared connection harms only calls that overlap.
THEOREM LoneCallsAreSound == Spec => []LoneCallIsSound
<1>1. IInv => LoneCallIsSound
    BY DEF IInv, CallInv
<1> QED
    BY <1>1, Invariance, PTL

\* Without a restart no message leaves a queue unprocessed.
THEOREM MessagesAreKept == Spec => []KeptUntilHandled
<1>1. IInv => KeptUntilHandled
    BY DEF IInv, QueueInv
<1> QED
    BY <1>1, Invariance, PTL

\* A message is processed at most once more than workers have been killed or have lost
\* their connections.
THEOREM RehandlingNeedsFailures == Spec => []RehandledByFailureOnly
<1>1. IInv => RehandledByFailureOnly
  <2> SUFFICES ASSUME IInv, NEW q \in Queue, NEW c \in Call PROVE handled[q][c] <= 1 + failures
      BY DEF RehandledByFailureOnly
  <2> QED
      BY HandlingFacts
<1> QED
    BY <1>1, Invariance, PTL

\* One worker processes its queue in the order of publication.
THEOREM OneWorkerKeepsOrder == Spec => []HandledInOrder
<1>1. IInv => HandledInOrder
    BY DEF IInv, QueueInv
<1> QED
    BY <1>1, Invariance, PTL

\* A message without a body stays in its queue and holds back all that follow.
THEOREM UnreadableMessagesBlock == Spec => []UnreadableBlocks
<1>1. IInv => UnreadableBlocks
  <2> SUFFICES ASSUME IInv, NEW c \in Call, NEW q, q = posted[c].kind, posted[c].body = "null",
                      q \in routed[c], c \notin lost[q]
               PROVE  /\ c \in queue[q]
                      /\ OneReader(q) => \A d \in Call : number[d] > number[c] => handled[q][d] = 0
      BY DEF UnreadableBlocks
  <2>1. q \in Queue /\ q # "all"
      BY DEF IInv, TypeOK, Kind, Queue
  <2>2. ~(handled[q][c] > 0)
      BY <2>1 DEF IInv, QueueInv, HandlingAgrees, Readable
  <2>3. c \in queue[q]
      BY <2>2 DEF IInv, QueueInv, KeptUntilHandled
  <2>4. ASSUME OneReader(q), NEW d \in Call, number[d] > number[c] PROVE handled[q][d] = 0
    <3>1. number[c] < number[d] /\ handled[q][d] \in Nat
        BY <2>1, <2>4 DEF IInv, TypeOK
    <3> QED
        BY <2>1, <2>2, <2>4, <3>1 DEF IInv, QueueInv, HandledInOrder, InOrder
  <2> QED
      BY <2>3, <2>4
<1> QED
    BY <1>1, Invariance, PTL

-----------------------------------------------------------------------------
(* The refinement of TopicQueue                                             *)

\* The state of TopicQueue that a state of the queued payments stands for
PublishedBar == {c \in Call : number[c] > 0}
ProcessedBar == [q \in Queue |-> {c \in Call : handled[q][c] > 0}]
TopicBar == <<[c \in Call |-> Copies(posted[c].kind)], PublishedBar, queue, ProcessedBar,
              lost, restarts > 0>>

LEMMA TopicInit == Init => Topic!Init
<1> SUFFICES ASSUME Init PROVE Topic!Init
    OBVIOUS
<1>1. [c \in Call |-> Copies(posted[c].kind)] \in [Call -> SUBSET Queue]
    BY DEF Init, Kind, Copies, Queue
<1>2. {c \in Call : number[c] > 0} = {}
    BY DEF Init
<1>3. [q \in Queue |-> {c \in Call : handled[q][c] > 0}] = [q \in Queue |-> {}]
    BY DEF Init
<1> QED
    BY <1>1, <1>2, <1>3 DEF Init, Topic!Init

\* A step that publishes, processes, removes and loses nothing
LEMMA TopicStutters ==
  ASSUME UNCHANGED <<posted, number, queue, handled, lost, restarts>>
  PROVE  UNCHANGED TopicBar
BY DEF TopicBar, PublishedBar, ProcessedBar

LEMMA PublishImplements ==
  ASSUME IInv, NEW c \in Call, Publish(c)
  PROVE  Topic!Next \/ UNCHANGED TopicBar
<1> USE DEF Publish
<1>0. /\ routed[c] = {} /\ number[c] = 0 /\ declared[c] = 4
      /\ number \in [Call -> 0..published] /\ published \in Nat
      /\ UNCHANGED <<posted, handled, lost, restarts>>
    BY DEF IInv, TypeOK, CallInv, PublishingAgrees, faultVars, workerVars
<1>1. CASE ~exchange
    BY <1>1, <1>0, TopicStutters DEF messageVars
<1>2. CASE exchange
  <2>1. PICK R \in SUBSET Queue : R = Routes(posted[c].kind)
      BY DEF Routes
  <2>2. ~(restarts > 0) => R = Copies(posted[c].kind)
      BY <1>0, <2>1, RoutesFacts DEF IInv, TypeOK
  <2>3. /\ queue' = [q \in Queue |-> IF q \in R THEN queue[q] \cup {c} ELSE queue[q]]
        /\ number' = [number EXCEPT ![c] = published + 1]
      BY <1>2, <2>1
  <2>4. PublishedBar' = PublishedBar \cup {c} /\ c \notin PublishedBar
      BY <1>0, <2>3 DEF PublishedBar
  <2>5. Topic!Publish(c, R)
      BY <1>0, <2>2, <2>3, <2>4 DEF Topic!Publish, PublishedBar
  <2> QED
      BY <2>5 DEF Topic!Next
<1> QED
    BY <1>1, <1>2

LEMMA ProcessImplements ==
  ASSUME IInv, NEW w \in Worker, Process(w)
  PROVE  Topic!Next \/ UNCHANGED TopicBar
<1>1. PICK c \in held[w] : handled' = [handled EXCEPT ![Reads[w]][c] = @ + 1]
    BY DEF Process
<1>2. /\ c \in Call /\ Reads[w] \in Queue
      /\ c \in queue[Reads[w]] \cup lost[Reads[w]] \/ handled[Reads[w]][c] > 0
      /\ handled[Reads[w]][c] \in Nat
      /\ UNCHANGED <<posted, number, queue, lost, restarts>>
    BY DEF Process, IInv, TypeOK, QueueInv, HoldingAgrees, messageVars, faultVars
<1>3. \A q \in Queue : \A d \in Call :
        handled'[q][d] = IF q = Reads[w] /\ d = c THEN handled[q][d] + 1 ELSE handled[q][d]
    BY <1>1, <1>2 DEF IInv, TypeOK
<1>4. \A q \in Queue : \A d \in Call : handled[q][d] \in Nat
    BY DEF IInv, TypeOK
<1>5. \A q \in Queue : ProcessedBar'[q] =
        IF q = Reads[w] THEN ProcessedBar[q] \cup {c} ELSE ProcessedBar[q]
    BY <1>2, <1>3, <1>4 DEF ProcessedBar
<1>6. ProcessedBar' = [ProcessedBar EXCEPT ![Reads[w]] = @ \cup {c}]
    BY <1>2, <1>5 DEF ProcessedBar
<1>7. CASE c \in queue[Reads[w]] \cup lost[Reads[w]]
  <2>1. Topic!Process(Reads[w], c)
      BY <1>2, <1>6, <1>7 DEF Topic!Process, ProcessedBar
  <2> QED
      BY <1>2, <2>1 DEF Topic!Next
<1>8. CASE handled[Reads[w]][c] > 0
  <2>1. c \in ProcessedBar[Reads[w]]
      BY <1>2, <1>8 DEF ProcessedBar
  <2>2. ProcessedBar' = ProcessedBar
      BY <1>5, <2>1 DEF ProcessedBar
  <2> QED
      BY <1>2, <2>2 DEF TopicBar, PublishedBar
<1> QED
    BY <1>2, <1>7, <1>8

LEMMA AckImplements ==
  ASSUME IInv, NEW w \in Worker, Ack(w)
  PROVE  Topic!Next
<1>1. PICK c \in held[w] : queue' = [queue EXCEPT ![Reads[w]] = queue[Reads[w]] \ {c}]
    BY DEF Ack
<1>2. /\ c \in Call /\ Reads[w] \in Queue
      /\ c \in queue[Reads[w]] /\ handled[Reads[w]][c] > 0
      /\ UNCHANGED <<posted, number, handled, lost, restarts>>
    BY DEF Ack, IInv, TypeOK, QueueInv, HoldingAgrees, messageVars, faultVars
<1>3. Topic!Remove(Reads[w], c)
    BY <1>1, <1>2 DEF Topic!Remove
<1> QED
    BY <1>2, <1>3 DEF Topic!Next

LEMMA BrokerRestartImplements ==
  ASSUME IInv, BrokerRestart
  PROVE  Topic!Lose
<1>1. restarts' > 0
    BY DEF BrokerRestart, IInv, TypeOK
<1> QED
    BY <1>1 DEF BrokerRestart, Topic!Lose, workerVars, messageVars

LEMMA StepImplements == IInv /\ [Next]_vars => [Topic!Next]_TopicBar
<1> SUFFICES ASSUME IInv, [Next]_vars PROVE Topic!Next \/ UNCHANGED TopicBar
    OBVIOUS
<1> USE DEF staticVars, linkVars, brokerVars, messageVars, workerVars, faultVars, callVars
<1>1. ASSUME NEW c \in Call, Connect(c) \/ ConnectionRefused(c) \/ CallStep(c) \/ CallCut(c)
      PROVE  Topic!Next \/ UNCHANGED TopicBar
  <2>1. CASE Publish(c)
      BY <2>1, PublishImplements
  <2>2. CASE ~Publish(c)
    <3>1. UNCHANGED <<posted, number, queue, handled, lost, restarts>>
        BY <1>1, <2>2 DEF Connect, ConnectionRefused, CallStep, CreateModel, Declare,
                          BindRefused, Pipelined, PublishLost, Close, CallFails, CallCut,
                          Drop, BadRequest
    <3> QED
        BY <3>1, TopicStutters
  <2> QED
      BY <2>1, <2>2
<1>2. ASSUME NEW w \in Worker, WorkerStart(w) \/ WorkerStep(w) \/ Crash(w) \/ WorkerCut(w)
      PROVE  Topic!Next \/ UNCHANGED TopicBar
  <2>1. CASE Process(w)
      BY <2>1, ProcessImplements
  <2>2. CASE Ack(w)
      BY <2>2, AckImplements
  <2>3. CASE ~Process(w) /\ ~Ack(w)
    <3>1. UNCHANGED <<posted, number, queue, handled, lost, restarts>>
        BY <1>2, <2>3 DEF WorkerStart, WorkerStep, Unreadable, WorkerFails, Crash,
                          WorkerCut, Stop
    <3> QED
        BY <3>1, TopicStutters
  <2> QED
      BY <2>1, <2>2, <2>3
<1>3. ASSUME NEW q \in Queue, DeliverSome(q) PROVE UNCHANGED TopicBar
  <2>1. PICK w \in Worker, c \in Call : Deliver(w, c) /\ Reads[w] \in Queue
      BY <1>3 DEF DeliverSome, IInv, TypeOK
  <2>2. UNCHANGED <<posted, number, queue, handled, lost, restarts>>
      BY <2>1 DEF Deliver, AfterDelivery, IInv, TypeOK
  <2> QED
      BY <2>2, TopicStutters
<1>4. CASE BrokerRestart
    BY <1>4, BrokerRestartImplements DEF Topic!Next
<1>5. CASE UNCHANGED vars
    BY <1>5, TopicStutters DEF vars
<1> QED
    BY <1>1, <1>2, <1>3, <1>4, <1>5 DEF Next

\* Calls that share connections and channels, workers that crash and deliveries that are
\* repeated implement the topic queue, for every value of the constants.
THEOREM QueuedPaymentsImplementTopicQueue == Spec => ImplementsTopicQueue
<1>1. [Topic!Next]_TopicBar <=> [Topic!Next]_(Topic!vars)
    BY DEF TopicBar, PublishedBar, ProcessedBar, Topic!vars
<1>2. IInv /\ [Next]_vars => [Topic!Next]_(Topic!vars)
    BY <1>1, StepImplements
<1> QED
    BY <1>2, TopicInit, Invariance, PTL DEF Spec, ImplementsTopicQueue, Topic!Spec
=============================================================================
