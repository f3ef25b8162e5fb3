------------------------ MODULE DirectPayment_proofs ------------------------
(***************************************************************************)
(* Proofs about DirectPayment: the inductive invariant IInv, one lemma per *)
(* action, the safety properties that follow from it, and that the direct  *)
(* card payment implements PaymentCall.                                    *)
(***************************************************************************)
EXTENDS DirectPayment, FiniteSetTheorems, TLAPS

USE ProcessAssumption, BodiesAssumption, NoAuthAssumption, BoundsAssumption

\* Losing a message of the calls in C leaves a trace at each of them that still waits
\* with an open connection, and takes no earlier trace away.
LEMMA LoseFacts ==
  ASSUME TypeOK, NEW C, NEW how \in Loss, Lose(C, how)
  PROVE  /\ gone' \in [Client -> SUBSET Loss]
         /\ \A c \in Client : gone[c] \subseteq gone'[c]
         /\ \A c \in Client : c \notin C => gone'[c] = gone[c]
         /\ \A c \in Client \cap C \cap connected :
               at[c] \in {"connected", "waiting"} => gone'[c] # {}
BY DEF TypeOK, Lose

\* The payments made and still to be made of a call are as many as before if the servers
\* about to pay, its queued request, the charges and the failures are.
LEMMA SameCharges ==
  ASSUME NEW d \in Client, ChargesAgree(d), UNCHANGED <<posted, charges, failures>>,
         HasPosted(d) => HasPosted(d)', Paying(d)' = Paying(d), Queued(d)' = Queued(d)
  PROVE  ChargesAgree(d)'
BY DEF ChargesAgree

\* What the bound of ChargesAgree speaks of are numbers; a call that has posted nothing has
\* no request; and a queue holds one request of a call at most.
LEMMA ChargeFacts ==
  ASSUME IInv, NEW d \in Client
  PROVE  /\ charges[d] \in Nat /\ failures \in Nat /\ Queued(d) \in {0, 1}
         /\ IsFiniteSet(Paying(d)) /\ Cardinality(Paying(d)) \in Nat
         /\ charges[d] + Cardinality(Paying(d)) + Queued(d) <= 1 + failures
         /\ ~HasPosted(d) => charges[d] = 0 /\ Paying(d) = {} /\ Queued(d) = 0
         /\ \A q1, q2 \in rpcQueue : q1.corr = q2.corr => q1 = q2
<1>1. ChargesAgree(d) /\ charges[d] \in Nat /\ failures \in Nat
    BY DEF IInv, TypeOK
<1>2. Queued(d) \in {0, 1}
    BY DEF Queued
<1>3. Cardinality(Paying(d)) \in Nat
    BY <1>1, FS_CardinalityType DEF ChargesAgree
<1>4. ~HasPosted(d) => charges[d] = 0 /\ Paying(d) = {} /\ Queued(d) = 0
  <2>1. ~HasPosted(d) => charges[d] = 0
      BY <1>1 DEF ChargesAgree
  <2>2. ~HasPosted(d) => Paying(d) = {}
      BY DEF IInv, Paying, HeldAgrees, RequestIsTrue
  <2>3. ~HasPosted(d) => Queued(d) = 0
      BY DEF IInv, Queued, RequestIsTrue
  <2> QED
      BY <2>1, <2>2, <2>3
<1>5. ASSUME NEW q1 \in rpcQueue, NEW q2 \in rpcQueue, q1.corr = q2.corr PROVE q1 = q2
    BY <1>5 DEF IInv, TypeOK, Request, RequestIsTrue
<1> QED
    BY <1>1, <1>2, <1>3, <1>4, <1>5 DEF ChargesAgree

\* A call that leaves takes replies of other calls with it, but marks them.
LEMMA LeaveKeepsReason ==
  ASSUME IInv, NEW c \in Client, NEW outcome \in {"ok", "badRequest"}, Leave(c, outcome)
  PROVE  LossIsRecorded'
<1> SUFFICES ASSUME NEW d \in Client, d \in connected', at'[d] = "waiting", gone'[d] = {}
             PROVE  Prospect(d)'
    BY DEF LossIsRecorded
<1>1. d \in connected /\ at[d] = "waiting" /\ gone[d] = {} /\ d \notin Corrs(inbox[c])
    BY LoseFacts DEF Leave, IInv, Loss, TypeOK
<1>2. \A r \in inbox[c] : r.corr # d
    BY <1>1 DEF Corrs
<1>3. Prospect(d)
    BY <1>1 DEF IInv, LossIsRecorded
<1> QED
    BY <1>2, <1>3 DEF Prospect, Leave, serverVars, queueVars, IInv, TypeOK

\* Nothing has been posted, so nothing is held, queued or charged.
LEMMA InitInv == Init => IInv
<1> SUFFICES ASSUME Init PROVE IInv
    OBVIOUS
<1>0. failures \in 0..MaxFailures /\ restarts \in 0..MaxRestarts
    BY DEF Init
<1>1. TypeOK
    BY <1>0 DEF Init, TypeOK, Code
<1>2. RepliesAreTrue /\ OneCanAnswer /\ PaidBeforeConfirmed /\ LossIsRecorded
    BY DEF Init, RepliesAreTrue, ReplyIsTrue, HasPosted, OneCanAnswer, PaidBeforeConfirmed, LossIsRecorded
<1>3. (\A q \in rpcQueue : RequestIsTrue(q)) /\ (\A s \in Server : HeldAgrees(s))
    BY DEF Init, HeldAgrees
<1>4. \A c \in Client : ChargesAgree(c)
  <2> SUFFICES ASSUME NEW c \in Client PROVE ChargesAgree(c)
      OBVIOUS
  <2>1. Paying(c) = {} /\ Queued(c) = 0
      BY DEF Init, Paying, Queued
  <2>2. charges[c] = 0 /\ failures = 0
      BY DEF Init
  <2>3. IsFiniteSet(Paying(c)) /\ Cardinality(Paying(c)) = 0
      BY <2>1, FS_EmptySet
  <2> QED
      BY <2>1, <2>2, <2>3 DEF ChargesAgree
<1> QED
    BY <1>1, <1>2, <1>3, <1>4 DEF IInv

-----------------------------------------------------------------------------
(* Every action preserves IInv: one step per conjunct the action can disturb,  *)
(* and one for the rest.                                                       *)

\* The connection of a new call joins the consumers of rpc_reply.
LEMMA CreateConnectionInv ==
  ASSUME IInv, NEW c \in Client, CreateConnection(c)
  PROVE  IInv'
<1>1. TypeOK'
    BY DEF IInv, CreateConnection, serverVars, queueVars, TypeOK, Request, Reply, Code,
           Auth, Body, Loss
<1>2. (\A p \in rpcQueue : RequestIsTrue(p))'
    BY DEF IInv, CreateConnection, serverVars, queueVars, RequestIsTrue, HasPosted, TypeOK, Request
<1>3. (\A t \in Server : HeldAgrees(t))'
    BY DEF IInv, CreateConnection, serverVars, queueVars, HeldAgrees, RequestIsTrue, HasPosted,
           CodeIsTrue, TypeOK, Request
<1>4. (\A d \in Client : ChargesAgree(d))'
  <2> SUFFICES ASSUME NEW d \in Client PROVE ChargesAgree(d)'
      OBVIOUS
  <2>1. /\ ChargesAgree(d) /\ UNCHANGED <<posted, charges, failures>>
        /\ HasPosted(d) => HasPosted(d)'
      BY DEF IInv, TypeOK, HasPosted, CreateConnection, serverVars, queueVars
  <2>2. Paying(d)' = Paying(d) /\ Queued(d)' = Queued(d)
      BY DEF IInv, TypeOK, Paying, Queued, CreateConnection, serverVars, queueVars
  <2> QED
      BY <2>1, <2>2, SameCharges
<1>5. PaidBeforeConfirmed'
    BY DEF IInv, CreateConnection, serverVars, queueVars, PaidBeforeConfirmed, TypeOK,
           RepliesAreTrue, ReplyIsTrue, HasPosted, CodeIsTrue, Reply
<1>6. LossIsRecorded'
    BY DEF IInv, CreateConnection, serverVars, queueVars, LossIsRecorded, Prospect,
           TypeOK, HeldAgrees, Corrs, Request, Reply
<1>7. RepliesAreTrue' /\ OneCanAnswer'
    BY DEF IInv, CreateConnection, serverVars, queueVars, RepliesAreTrue, ReplyIsTrue, HasPosted, CodeIsTrue,
           OneCanAnswer
<1> QED
    BY <1>1, <1>2, <1>3, <1>4, <1>5, <1>6, <1>7 DEF IInv

\* A call that finds no broker ends without having posted anything.
LEMMA ConnectionRefusedInv ==
  ASSUME IInv, NEW c \in Client, ConnectionRefused(c)
  PROVE  IInv'
<1>1. TypeOK'
    BY DEF IInv, ConnectionRefused, serverVars, queueVars, TypeOK, Request, Reply, Code,
           Auth, Body, Loss
<1>2. (\A p \in rpcQueue : RequestIsTrue(p))'
    BY DEF IInv, ConnectionRefused, serverVars, queueVars, RequestIsTrue, HasPosted, TypeOK,
           Request
<1>3. (\A t \in Server : HeldAgrees(t))'
    BY DEF IInv, ConnectionRefused, serverVars, queueVars, HeldAgrees, RequestIsTrue, HasPosted,
           CodeIsTrue, TypeOK, Request
<1>4. (\A d \in Client : ChargesAgree(d))'
  <2> SUFFICES ASSUME NEW d \in Client PROVE ChargesAgree(d)'
      OBVIOUS
  <2>1. /\ ChargesAgree(d) /\ UNCHANGED <<posted, charges, failures>>
        /\ HasPosted(d) => HasPosted(d)'
      BY DEF IInv, TypeOK, HasPosted, ConnectionRefused, serverVars, queueVars
  <2>2. Paying(d)' = Paying(d) /\ Queued(d)' = Queued(d)
      BY DEF IInv, TypeOK, Paying, Queued, ConnectionRefused, serverVars, queueVars
  <2> QED
      BY <2>1, <2>2, SameCharges
<1>5. PaidBeforeConfirmed'
    BY DEF IInv, ConnectionRefused, serverVars, queueVars, PaidBeforeConfirmed, TypeOK,
           RepliesAreTrue, ReplyIsTrue, HasPosted, CodeIsTrue, Reply
<1>6. LossIsRecorded'
    BY DEF IInv, ConnectionRefused, serverVars, queueVars, LossIsRecorded, Prospect,
           TypeOK, HeldAgrees, Corrs, Request, Reply
<1>7. RepliesAreTrue' /\ OneCanAnswer'
    BY DEF IInv, ConnectionRefused, serverVars, queueVars, RepliesAreTrue, ReplyIsTrue, HasPosted, CodeIsTrue,
           OneCanAnswer
<1> QED
    BY <1>1, <1>2, <1>3, <1>4, <1>5, <1>6, <1>7 DEF IInv

\* The request of a call is new to rpc_queue; if there is none, the loss is marked.
LEMMA PublishRequestInv ==
  ASSUME IInv, NEW c \in Client, PublishRequest(c)
  PROVE  IInv'
<1>1. TypeOK'
    BY DEF IInv, PublishRequest, Lose, serverVars, TypeOK, Request, Reply, Code, Auth,
           Body, Loss
<1>2. (\A p \in rpcQueue : RequestIsTrue(p))'
    BY DEF IInv, PublishRequest, Lose, serverVars, RequestIsTrue, HasPosted, TypeOK, Request
<1>3. (\A t \in Server : HeldAgrees(t))'
    BY DEF IInv, PublishRequest, Lose, serverVars, HeldAgrees, RequestIsTrue, HasPosted,
           CodeIsTrue, TypeOK, Request
<1>4. OneCanAnswer'
    BY DEF IInv, PublishRequest, Lose, serverVars, OneCanAnswer, TypeOK, RequestIsTrue, HasPosted,
           HeldAgrees, Request
<1>5. (\A d \in Client : ChargesAgree(d))'
  <2> SUFFICES ASSUME NEW d \in Client PROVE ChargesAgree(d)'
      OBVIOUS
  <2>1. UNCHANGED <<posted, charges, failures>> /\ Paying(d)' = Paying(d) /\ ChargesAgree(d)
      BY DEF IInv, PublishRequest, Paying, serverVars
  <2>2. CASE d # c
    <3>1. Queued(d)' = Queued(d)
        BY <2>2 DEF PublishRequest, Queued
    <3>2. HasPosted(d) => HasPosted(d)'
        BY <2>2 DEF PublishRequest, HasPosted, IInv, TypeOK
    <3> QED
        BY <2>1, <3>1, <3>2, SameCharges
  <2>3. CASE d = c
    <3>1. charges[d] = 0 /\ Paying(d) = {}
        BY <2>3, ChargeFacts DEF PublishRequest, HasPosted
    <3>2. Queued(d)' \in {0, 1} /\ failures \in Nat
        BY ChargeFacts DEF Queued
    <3>3. Cardinality(Paying(d)') = 0 /\ IsFiniteSet(Paying(d)')
        BY <2>1, <3>1, FS_EmptySet
    <3>4. charges'[d] + Cardinality(Paying(d)') + Queued(d)' <= 1 + failures'
        BY <2>1, <3>1, <3>2, <3>3
    <3> QED
        BY <2>1, <3>1, <3>3, <3>4 DEF ChargesAgree
  <2> QED
      BY <2>2, <2>3
<1>6. PaidBeforeConfirmed'
    BY DEF IInv, PublishRequest, Lose, serverVars, PaidBeforeConfirmed, TypeOK,
           RepliesAreTrue, ReplyIsTrue, HasPosted, CodeIsTrue, Reply
<1>7. LossIsRecorded'
  <2> SUFFICES ASSUME NEW d \in Client, d \in connected', at'[d] = "waiting", gone'[d] = {}
               PROVE  Prospect(d)'
      BY DEF LossIsRecorded
  <2>1. CASE d = c
    <3> DEFINE q == [corr |-> c, body |-> posted[c]]
    <3>1. q \in rpcQueue' /\ q.corr = d
        BY <2>1, LoseFacts DEF PublishRequest, IInv, Loss
    <3> QED
        BY <3>1 DEF Prospect
  <2>2. CASE d # c
    <3>1. d \in connected /\ at[d] = "waiting" /\ gone[d] = {}
        BY <2>2, LoseFacts DEF PublishRequest, IInv, TypeOK, Loss
    <3>2. Prospect(d)
        BY <3>1 DEF IInv, LossIsRecorded
    <3> QED
        BY <3>2 DEF Prospect, PublishRequest, serverVars
  <2> QED
      BY <2>1, <2>2
<1>8. RepliesAreTrue'
    BY DEF IInv, PublishRequest, serverVars, RepliesAreTrue, ReplyIsTrue, HasPosted, CodeIsTrue
<1> QED
    BY <1>1, <1>2, <1>3, <1>4, <1>5, <1>6, <1>7, <1>8 DEF IInv

\* A call takes its own reply, or drops that of another call and marks the loss.
LEMMA DequeueInv ==
  ASSUME IInv, NEW c \in Client, Dequeue(c)
  PROVE  IInv'
<1>1. TypeOK'
    BY DEF IInv, Dequeue, Lose, OwnReply, serverVars, queueVars, TypeOK, Request, Reply,
           Code, Auth, Body, Loss
<1>2. RepliesAreTrue'
    BY DEF IInv, Dequeue, Lose, OwnReply, serverVars, queueVars, RepliesAreTrue, ReplyIsTrue, HasPosted,
           CodeIsTrue, TypeOK, Reply
<1>3. (\A p \in rpcQueue : RequestIsTrue(p))'
    BY DEF IInv, Dequeue, Lose, OwnReply, serverVars, queueVars, RequestIsTrue, HasPosted, TypeOK,
           Request
<1>4. (\A t \in Server : HeldAgrees(t))'
    BY DEF IInv, Dequeue, Lose, OwnReply, serverVars, queueVars, HeldAgrees,
           RequestIsTrue, HasPosted, CodeIsTrue, TypeOK, Request
<1>5. (\A d \in Client : ChargesAgree(d))'
  <2> SUFFICES ASSUME NEW d \in Client PROVE ChargesAgree(d)'
      OBVIOUS
  <2>1. /\ ChargesAgree(d) /\ UNCHANGED <<posted, charges, failures>>
        /\ HasPosted(d) => HasPosted(d)'
      BY DEF IInv, TypeOK, HasPosted, Dequeue, serverVars, queueVars
  <2>2. Paying(d)' = Paying(d) /\ Queued(d)' = Queued(d)
      BY DEF IInv, TypeOK, Paying, Queued, Dequeue, serverVars, queueVars
  <2> QED
      BY <2>1, <2>2, SameCharges
<1>6. PaidBeforeConfirmed'
    BY DEF IInv, Dequeue, Lose, OwnReply, serverVars, queueVars, PaidBeforeConfirmed,
           TypeOK, RepliesAreTrue, ReplyIsTrue, HasPosted, CodeIsTrue, Reply
<1>7. LossIsRecorded'
  <2> SUFFICES ASSUME NEW d \in Client, d \in connected', at'[d] = "waiting", gone'[d] = {}
               PROVE  Prospect(d)'
      BY DEF LossIsRecorded
  <2>1. PICK r \in inbox[c] :
           /\ inbox' = [inbox EXCEPT ![c] = @ \ {r}]
           /\ \/ /\ r.corr = c
                 /\ at' = [at EXCEPT ![c] = "returned"]
                 /\ UNCHANGED gone
              \/ /\ Lose({r.corr}, "discarded")
                 /\ UNCHANGED at
      BY DEF Dequeue, OwnReply
  <2>2. d \in connected /\ at[d] = "waiting"
      BY <2>1 DEF IInv, TypeOK, Dequeue
  <2>3. gone[d] = {} /\ r.corr # d
    <3>1. CASE Lose({r.corr}, "discarded")
        BY <2>2, <3>1, LoseFacts DEF IInv, Loss
    <3>2. CASE r.corr = c /\ at' = [at EXCEPT ![c] = "returned"] /\ UNCHANGED gone
        BY <3>2 DEF IInv, TypeOK
    <3> QED
        BY <2>1, <3>1, <3>2
  <2>4. Prospect(d)
      BY <2>2, <2>3 DEF IInv, LossIsRecorded
  <2> QED
      BY <2>1, <2>3, <2>4 DEF Prospect, Dequeue, serverVars, queueVars, IInv, TypeOK
<1>8. OneCanAnswer'
    BY DEF IInv, Dequeue, serverVars, queueVars, OneCanAnswer
<1> QED
    BY <1>1, <1>2, <1>3, <1>4, <1>5, <1>6, <1>7, <1>8 DEF IInv

\* A call ends and hands its reply on unchanged.
LEMMA CloseInv ==
  ASSUME IInv, NEW c \in Client, Close(c)
  PROVE  IInv'
<1>1. TypeOK'
    BY DEF IInv, Close, Leave, Lose, Corrs, serverVars, queueVars, TypeOK, Request,
           Reply, Code, Auth, Body, Loss
<1>2. RepliesAreTrue'
    BY DEF IInv, Close, Leave, Lose, Corrs, serverVars, queueVars, RepliesAreTrue, ReplyIsTrue, HasPosted,
           CodeIsTrue, TypeOK, Reply
<1>3. (\A p \in rpcQueue : RequestIsTrue(p))'
    BY DEF IInv, Close, Leave, Lose, Corrs, serverVars, queueVars, RequestIsTrue, HasPosted,
           TypeOK, Request
<1>4. (\A t \in Server : HeldAgrees(t))'
    BY DEF IInv, Close, Leave, Lose, Corrs, serverVars, queueVars, HeldAgrees,
           RequestIsTrue, HasPosted, CodeIsTrue, TypeOK, Request
<1>5. (\A d \in Client : ChargesAgree(d))'
  <2> SUFFICES ASSUME NEW d \in Client PROVE ChargesAgree(d)'
      OBVIOUS
  <2>1. /\ ChargesAgree(d) /\ UNCHANGED <<posted, charges, failures>>
        /\ HasPosted(d) => HasPosted(d)'
      BY DEF IInv, TypeOK, HasPosted, Close, Leave, serverVars, queueVars
  <2>2. Paying(d)' = Paying(d) /\ Queued(d)' = Queued(d)
      BY DEF IInv, TypeOK, Paying, Queued, Close, Leave, serverVars, queueVars
  <2> QED
      BY <2>1, <2>2, SameCharges
<1>6. PaidBeforeConfirmed'
    BY DEF IInv, Close, Leave, Lose, Corrs, serverVars, queueVars, PaidBeforeConfirmed,
           TypeOK, RepliesAreTrue, ReplyIsTrue, HasPosted, CodeIsTrue, Reply
<1>7. LossIsRecorded'
    BY LeaveKeepsReason DEF Close
<1>8. OneCanAnswer'
    BY DEF IInv, Close, Leave, serverVars, queueVars, OneCanAnswer
<1> QED
    BY <1>1, <1>2, <1>3, <1>4, <1>5, <1>6, <1>7, <1>8 DEF IInv

\* A call without a connection ends without a reply.
LEMMA CallFailsInv ==
  ASSUME IInv, NEW c \in Client, CallFails(c)
  PROVE  IInv'
<1>1. TypeOK'
    BY DEF IInv, CallFails, Leave, Lose, Corrs, serverVars, queueVars, TypeOK, Request,
           Reply, Code, Auth, Body, Loss
<1>2. RepliesAreTrue'
    BY DEF IInv, CallFails, Leave, Lose, Corrs, serverVars, queueVars, RepliesAreTrue, ReplyIsTrue, HasPosted,
           CodeIsTrue, TypeOK, Reply
<1>3. (\A p \in rpcQueue : RequestIsTrue(p))'
    BY DEF IInv, CallFails, Leave, Lose, Corrs, serverVars, queueVars, RequestIsTrue, HasPosted,
           TypeOK, Request
<1>4. (\A t \in Server : HeldAgrees(t))'
    BY DEF IInv, CallFails, Leave, Lose, Corrs, serverVars, queueVars, HeldAgrees,
           RequestIsTrue, HasPosted, CodeIsTrue, TypeOK, Request
<1>5. (\A d \in Client : ChargesAgree(d))'
  <2> SUFFICES ASSUME NEW d \in Client PROVE ChargesAgree(d)'
      OBVIOUS
  <2>1. /\ ChargesAgree(d) /\ UNCHANGED <<posted, charges, failures>>
        /\ HasPosted(d) => HasPosted(d)'
      BY DEF IInv, TypeOK, HasPosted, CallFails, Leave, serverVars, queueVars
  <2>2. Paying(d)' = Paying(d) /\ Queued(d)' = Queued(d)
      BY DEF IInv, TypeOK, Paying, Queued, CallFails, Leave, serverVars, queueVars
  <2> QED
      BY <2>1, <2>2, SameCharges
<1>6. PaidBeforeConfirmed'
    BY DEF IInv, CallFails, Leave, Lose, Corrs, serverVars, queueVars,
           PaidBeforeConfirmed, TypeOK, RepliesAreTrue, ReplyIsTrue, HasPosted, CodeIsTrue, Reply
<1>7. LossIsRecorded'
    BY LeaveKeepsReason DEF CallFails
<1>8. OneCanAnswer'
    BY DEF IInv, CallFails, Leave, serverVars, queueVars, OneCanAnswer
<1> QED
    BY <1>1, <1>2, <1>3, <1>4, <1>5, <1>6, <1>7, <1>8 DEF IInv

\* A server that starts holds nothing.
LEMMA ServerStartInv ==
  ASSUME IInv, NEW s \in Server, ServerStart(s)
  PROVE  IInv'
<1>1. TypeOK'
    BY DEF IInv, ServerStart, clientVars, TypeOK, Request, Reply, Code, Auth, Body, Loss
<1>2. (\A t \in Server : HeldAgrees(t))'
    BY DEF IInv, ServerStart, clientVars, HeldAgrees, RequestIsTrue, HasPosted, CodeIsTrue, TypeOK,
           Request
<1>3. (\A d \in Client : ChargesAgree(d))'
  <2> SUFFICES ASSUME NEW d \in Client PROVE ChargesAgree(d)'
      OBVIOUS
  <2>1. /\ ChargesAgree(d) /\ UNCHANGED <<posted, charges, failures>>
        /\ HasPosted(d) => HasPosted(d)'
      BY DEF IInv, TypeOK, HasPosted, ServerStart, clientVars
  <2>2. Paying(d)' = Paying(d) /\ Queued(d)' = Queued(d)
      BY DEF IInv, TypeOK, Paying, Queued, ServerStart, clientVars
  <2> QED
      BY <2>1, <2>2, SameCharges
<1>4. LossIsRecorded'
    BY DEF IInv, ServerStart, clientVars, LossIsRecorded, Prospect, TypeOK,
           HeldAgrees, Corrs, Request, Reply
<1>5. RepliesAreTrue' /\ (\A p \in rpcQueue : RequestIsTrue(p))' /\ PaidBeforeConfirmed'
    BY DEF IInv, ServerStart, clientVars, RepliesAreTrue, ReplyIsTrue, HasPosted, CodeIsTrue,
           RequestIsTrue, PaidBeforeConfirmed
<1>6. OneCanAnswer'
  <2>1. held[s] = {}
      BY DEF IInv, HeldAgrees, ServerStart
  <2> QED
      BY <2>1 DEF IInv, OneCanAnswer, ServerStart
<1> QED
    BY <1>1, <1>2, <1>3, <1>4, <1>5, <1>6 DEF IInv

\* The request moves from the queue to the one server that reserves it.
LEMMA DeliverInv ==
  ASSUME IInv, NEW s \in Server, NEW q \in rpcQueue, Deliver(s, q)
  PROVE  IInv'
<1>1. TypeOK'
    BY DEF IInv, Deliver, clientVars, TypeOK, Request, Reply, Code, Auth, Body,
           Loss
<1>2. (\A p \in rpcQueue : RequestIsTrue(p))'
    BY DEF IInv, Deliver, clientVars, RequestIsTrue, HasPosted, TypeOK, Request
<1>3. (\A t \in Server : HeldAgrees(t))'
    BY DEF IInv, Deliver, clientVars, HeldAgrees, RequestIsTrue, HasPosted, CodeIsTrue,
           TypeOK, Request
<1>4. OneCanAnswer'
    BY DEF IInv, Deliver, clientVars, OneCanAnswer, TypeOK, RequestIsTrue, HasPosted,
           HeldAgrees, Request
<1>5. (\A d \in Client : ChargesAgree(d))'
  <2> SUFFICES ASSUME NEW d \in Client PROVE ChargesAgree(d)'
      OBVIOUS
  <2>1. /\ UNCHANGED <<posted, at, charges, failures>> /\ ChargesAgree(d)
        /\ HasPosted(d)' = HasPosted(d)
      BY DEF IInv, Deliver, clientVars, HasPosted
  <2>2. CASE d # q.corr
    <3>1. Queued(d)' = Queued(d) /\ Paying(d)' = Paying(d)
        BY <2>2 DEF Deliver, Queued, Paying, IInv, TypeOK, HeldAgrees
    <3> QED
        BY <2>1, <3>1, SameCharges
  <2>3. CASE d = q.corr
    <3>1. Queued(d) = 1 /\ Queued(d)' = 0
        BY <2>3, ChargeFacts DEF Deliver, Queued
    <3>2. s \notin Paying(d) /\ Paying(d)' = Paying(d) \cup {s}
        BY <2>3 DEF Deliver, Paying, IInv, TypeOK
    <3>3. /\ IsFiniteSet(Paying(d)')
          /\ Cardinality(Paying(d)') = Cardinality(Paying(d)) + 1
        BY <3>2, ChargeFacts, FS_AddElement
    <3>4. charges'[d] + Cardinality(Paying(d)') + Queued(d)' <= 1 + failures'
        BY <2>1, <3>1, <3>3, ChargeFacts
    <3> QED
        BY <2>1, <3>3, <3>4 DEF ChargesAgree
  <2> QED
      BY <2>2, <2>3
<1>6. LossIsRecorded'
    BY DEF IInv, Deliver, clientVars, LossIsRecorded, Prospect, TypeOK,
           HeldAgrees, Corrs, Request, Reply
<1>7. RepliesAreTrue' /\ PaidBeforeConfirmed'
    BY DEF IInv, Deliver, clientVars, RepliesAreTrue, ReplyIsTrue, HasPosted, CodeIsTrue, PaidBeforeConfirmed
<1> QED
    BY <1>1, <1>2, <1>3, <1>4, <1>5, <1>6, <1>7 DEF IInv

\* The one charge that the request still allowed is made; older codes stay true.
LEMMA MakePaymentInv ==
  ASSUME IInv, NEW s \in Server, MakePayment(s)
  PROVE  IInv'
<1>1. TypeOK'
    BY DEF IInv, MakePayment, clientVars, queueVars, TypeOK, Request, Reply, Code, Auth,
           Body, Loss
<1>2. RepliesAreTrue'
    BY DEF IInv, MakePayment, clientVars, queueVars, RepliesAreTrue, ReplyIsTrue, HasPosted, CodeIsTrue, TypeOK,
           Reply
<1>3. (\A t \in Server : HeldAgrees(t))'
    BY DEF IInv, MakePayment, clientVars, queueVars, HeldAgrees, RequestIsTrue, HasPosted,
           CodeIsTrue, TypeOK, Request
<1>4. (\A d \in Client : ChargesAgree(d))'
  <2> SUFFICES ASSUME NEW d \in Client PROVE ChargesAgree(d)'
      OBVIOUS
  <2>1. PICK q \in held[s] :
           \/ /\ q.body = "card"
              /\ charges' = [charges EXCEPT ![q.corr] = @ + 1]
           \/ q.body = "null" /\ UNCHANGED charges
      BY DEF MakePayment
  <2>2. /\ UNCHANGED <<posted, at, failures>> /\ ChargesAgree(d)
        /\ HasPosted(d)' = HasPosted(d) /\ Queued(d)' = Queued(d)
      BY DEF IInv, MakePayment, clientVars, queueVars, HasPosted, Queued
  <2>3. q \in Request /\ RequestIsTrue(q) /\ \A q2 \in held[s] : q2 = q
      BY DEF IInv, TypeOK, HeldAgrees
  <2>4. CASE d # q.corr
    <3>1. Paying(d)' = Paying(d)
        BY <2>3, <2>4 DEF MakePayment, Paying, IInv, TypeOK
    <3>2. charges'[d] = charges[d]
        BY <2>1, <2>4 DEF IInv, TypeOK
    <3> QED
        BY <2>2, <3>1, <3>2 DEF ChargesAgree
  <2>5. CASE d = q.corr
    <3>1. s \in Paying(d) /\ Paying(d)' = Paying(d) \ {s}
        BY <2>3, <2>5 DEF MakePayment, Paying, IInv, TypeOK
    <3>2. /\ IsFiniteSet(Paying(d)')
          /\ Cardinality(Paying(d)') = Cardinality(Paying(d)) - 1
        BY <3>1, ChargeFacts, FS_RemoveElement
    <3>3. charges'[d] \in {charges[d], charges[d] + 1}
        BY <2>1, <2>5 DEF IInv, TypeOK
    <3>4. charges'[d] + Cardinality(Paying(d)') + Queued(d)' <= 1 + failures'
        BY <2>2, <3>2, <3>3, ChargeFacts
    <3>5. charges'[d] > 0 => posted[d] = "card" /\ HasPosted(d)
        BY <2>1, <2>2, <2>3, <2>5 DEF RequestIsTrue, HasPosted, ChargesAgree
    <3> QED
        BY <2>2, <3>2, <3>4, <3>5 DEF ChargesAgree
  <2> QED
      BY <2>4, <2>5
<1>5. PaidBeforeConfirmed'
    BY DEF IInv, MakePayment, clientVars, queueVars, PaidBeforeConfirmed, TypeOK,
           RepliesAreTrue, ReplyIsTrue, HasPosted, CodeIsTrue, Reply
<1>6. LossIsRecorded'
    BY DEF IInv, MakePayment, clientVars, queueVars, LossIsRecorded, Prospect, TypeOK,
           HeldAgrees, Corrs, Request, Reply
<1>7. (\A p \in rpcQueue : RequestIsTrue(p))' /\ OneCanAnswer'
    BY DEF IInv, MakePayment, clientVars, queueVars, RequestIsTrue, HasPosted, OneCanAnswer
<1> QED
    BY <1>1, <1>2, <1>3, <1>4, <1>5, <1>6, <1>7 DEF IInv

\* The reply carries the code drawn for its call and gives the call its prospect.
LEMMA PublishReplyInv ==
  ASSUME IInv, NEW s \in Server, PublishReply(s)
  PROVE  IInv'
<1>1. TypeOK'
    BY DEF IInv, PublishReply, RepliesTo, clientVars, TypeOK, Request, Reply, Code,
           Auth, Body, Loss
<1>2. RepliesAreTrue'
  <2>1. PICK q \in held[s] : replyQueue' = replyQueue \cup RepliesTo(s, q)
      BY DEF PublishReply
  <2>2. CodeIsTrue(q.corr, response[s]) /\ HasPosted(q.corr)
      BY DEF PublishReply, IInv, HeldAgrees, RequestIsTrue
  <2>3. \A r \in RepliesTo(s, q) : ReplyIsTrue(r)
      BY <2>2 DEF RepliesTo, ReplyIsTrue
  <2>4. \A r \in replyQueue' : ReplyIsTrue(r)
      BY <2>1, <2>3 DEF IInv, RepliesAreTrue
  <2> QED
      BY <2>4 DEF PublishReply, IInv, RepliesAreTrue, ReplyIsTrue, HasPosted, CodeIsTrue,
                  clientVars
<1>3. (\A t \in Server : HeldAgrees(t))'
    BY DEF IInv, PublishReply, RepliesTo, clientVars, HeldAgrees, RequestIsTrue, HasPosted,
           CodeIsTrue, TypeOK, Request
<1>4. (\A d \in Client : ChargesAgree(d))'
  <2> SUFFICES ASSUME NEW d \in Client PROVE ChargesAgree(d)'
      OBVIOUS
  <2>1. /\ ChargesAgree(d) /\ UNCHANGED <<posted, charges, failures>>
        /\ HasPosted(d) => HasPosted(d)'
      BY DEF IInv, TypeOK, HasPosted, PublishReply, clientVars
  <2>2. Paying(d)' = Paying(d) /\ Queued(d)' = Queued(d)
      BY DEF IInv, TypeOK, Paying, Queued, PublishReply, clientVars
  <2> QED
      BY <2>1, <2>2, SameCharges
<1>5. LossIsRecorded'
  <2> SUFFICES ASSUME NEW d \in Client, d \in connected', at'[d] = "waiting", gone'[d] = {}
               PROVE  Prospect(d)'
      BY DEF LossIsRecorded
  <2>1. PICK q \in held[s] : replyQueue' = replyQueue \cup RepliesTo(s, q)
      BY DEF PublishReply
  <2>2. \E r \in replyQueue' : r.corr = q.corr
    <3> DEFINE r == [corr |-> q.corr, code |-> response[s]]
    <3>1. r \in replyQueue' /\ r.corr = q.corr
        BY <2>1 DEF RepliesTo
    <3> QED
        BY <3>1
  <2>3. \A p \in held[s] : p = q
      BY DEF IInv, HeldAgrees
  <2>4. Prospect(d)
      BY DEF IInv, LossIsRecorded, PublishReply, clientVars
  <2> QED
      BY <2>1, <2>2, <2>3, <2>4 DEF Prospect, PublishReply, clientVars, IInv, TypeOK
<1>6. (\A p \in rpcQueue : RequestIsTrue(p))' /\ OneCanAnswer' /\ PaidBeforeConfirmed'
    BY DEF IInv, PublishReply, clientVars, RequestIsTrue, HasPosted, OneCanAnswer, PaidBeforeConfirmed
<1> QED
    BY <1>1, <1>2, <1>3, <1>4, <1>5, <1>6 DEF IInv

\* An answered request leaves the server; its reply is already under way.
LEMMA AckInv ==
  ASSUME IInv, NEW s \in Server, Ack(s)
  PROVE  IInv'
<1>1. TypeOK'
    BY DEF IInv, Ack, clientVars, queueVars, TypeOK, Request, Reply, Code, Auth, Body,
           Loss
<1>2. (\A t \in Server : HeldAgrees(t))'
    BY DEF IInv, Ack, clientVars, queueVars, HeldAgrees, RequestIsTrue, HasPosted, CodeIsTrue,
           TypeOK, Request
<1>3. OneCanAnswer'
    BY DEF IInv, Ack, clientVars, queueVars, OneCanAnswer, TypeOK, RequestIsTrue, HasPosted,
           HeldAgrees, Request
<1>4. (\A d \in Client : ChargesAgree(d))'
  <2> SUFFICES ASSUME NEW d \in Client PROVE ChargesAgree(d)'
      OBVIOUS
  <2>1. /\ ChargesAgree(d) /\ UNCHANGED <<posted, charges, failures>>
        /\ HasPosted(d) => HasPosted(d)'
      BY DEF IInv, TypeOK, HasPosted, Ack, clientVars, queueVars
  <2>2. Paying(d)' = Paying(d) /\ Queued(d)' = Queued(d)
      BY DEF IInv, TypeOK, Paying, Queued, Ack, clientVars, queueVars
  <2> QED
      BY <2>1, <2>2, SameCharges
<1>5. LossIsRecorded'
    BY DEF IInv, Ack, clientVars, queueVars, LossIsRecorded, Prospect, TypeOK,
           HeldAgrees, Corrs, Request, Reply
<1>6. RepliesAreTrue' /\ (\A p \in rpcQueue : RequestIsTrue(p))' /\ PaidBeforeConfirmed'
    BY DEF IInv, Ack, clientVars, queueVars, RepliesAreTrue, ReplyIsTrue, HasPosted, CodeIsTrue, RequestIsTrue, HasPosted,
           PaidBeforeConfirmed
<1> QED
    BY <1>1, <1>2, <1>3, <1>4, <1>5, <1>6 DEF IInv

\* An unacknowledged request returns to the queue: one more charge is possible,
\* and one more crash is counted.
LEMMA CrashInv ==
  ASSUME IInv, NEW s \in Server, Crash(s)
  PROVE  IInv'
<1>1. TypeOK'
    BY DEF IInv, Crash, Stop, Unacknowledged, clientVars, TypeOK, Request, Reply, Code,
           Auth, Body, Loss
<1>2. (\A p \in rpcQueue : RequestIsTrue(p))'
  <2>1. \A q \in held[s] : RequestIsTrue(q)
      BY DEF IInv, HeldAgrees
  <2> QED
      BY <2>1 DEF IInv, Crash, Stop, Unacknowledged, RequestIsTrue, HasPosted, clientVars
<1>3. (\A t \in Server : HeldAgrees(t))'
    BY DEF IInv, Crash, Stop, Unacknowledged, clientVars, HeldAgrees, RequestIsTrue, HasPosted,
           CodeIsTrue, TypeOK, Request
<1>4. OneCanAnswer'
    BY DEF IInv, Crash, Stop, Unacknowledged, clientVars, OneCanAnswer, TypeOK,
           RequestIsTrue, HasPosted, HeldAgrees, Request
<1>5. (\A d \in Client : ChargesAgree(d))'
  <2> SUFFICES ASSUME NEW d \in Client PROVE ChargesAgree(d)'
      OBVIOUS
  <2>1. /\ UNCHANGED <<posted, at, charges>> /\ failures' = failures + 1 /\ ChargesAgree(d)
        /\ HasPosted(d)' = HasPosted(d)
      BY DEF IInv, Crash, Stop, clientVars, HasPosted
  <2>2. Paying(d)' = Paying(d) \ {s}
      BY DEF Crash, Stop, Paying, IInv, TypeOK
  <2>3. IsFiniteSet(Paying(d)') /\ Cardinality(Paying(d)') <= Cardinality(Paying(d))
    <3>1. Paying(d)' \in SUBSET Paying(d)
        BY <2>2
    <3> QED
        BY <3>1, ChargeFacts, FS_Subset
  <2>4. Cardinality(Paying(d)') \in Nat
      BY <2>3, FS_CardinalityType
  <2>5. Queued(d)' \in {0, 1}
      BY DEF Queued
  <2>6. charges'[d] + Cardinality(Paying(d)') + Queued(d)' <= 1 + failures'
      BY <2>1, <2>3, <2>4, <2>5, ChargeFacts
  <2> QED
      BY <2>1, <2>3, <2>6 DEF ChargesAgree
<1>6. LossIsRecorded'
    BY DEF IInv, Crash, Stop, Unacknowledged, clientVars, LossIsRecorded, Prospect,
           TypeOK, HeldAgrees, Corrs, Request, Reply
<1>7. RepliesAreTrue' /\ PaidBeforeConfirmed'
    BY DEF IInv, Crash, Stop, clientVars, RepliesAreTrue, ReplyIsTrue, HasPosted, CodeIsTrue,
           PaidBeforeConfirmed
<1> QED
    BY <1>1, <1>2, <1>3, <1>4, <1>5, <1>6, <1>7 DEF IInv

\* The broker took back nothing: the request had gone with the connection.
LEMMA ServerFailsInv ==
  ASSUME IInv, NEW s \in Server, ServerFails(s)
  PROVE  IInv'
<1>1. TypeOK'
    BY DEF IInv, ServerFails, Stop, Unacknowledged, clientVars, TypeOK, Request, Reply,
           Code, Auth, Body, Loss
<1>2. (\A p \in rpcQueue : RequestIsTrue(p))'
  <2>1. \A q \in held[s] : RequestIsTrue(q)
      BY DEF IInv, HeldAgrees
  <2> QED
      BY <2>1 DEF IInv, ServerFails, Stop, Unacknowledged, RequestIsTrue, HasPosted, clientVars
<1>3. (\A t \in Server : HeldAgrees(t))'
    BY DEF IInv, ServerFails, Stop, Unacknowledged, clientVars, HeldAgrees,
           RequestIsTrue, HasPosted, CodeIsTrue, TypeOK, Request
<1>4. OneCanAnswer'
    BY DEF IInv, ServerFails, Stop, Unacknowledged, clientVars, OneCanAnswer, TypeOK,
           RequestIsTrue, HasPosted, HeldAgrees, Request
<1>5. (\A d \in Client : ChargesAgree(d))'
  <2> SUFFICES ASSUME NEW d \in Client PROVE ChargesAgree(d)'
      OBVIOUS
  <2>1. /\ ChargesAgree(d) /\ UNCHANGED <<posted, charges, failures>>
        /\ HasPosted(d) => HasPosted(d)'
      BY DEF IInv, TypeOK, HasPosted, ServerFails, Stop, Unacknowledged, clientVars
  <2>2. Paying(d)' = Paying(d) /\ Queued(d)' = Queued(d)
      BY DEF IInv, TypeOK, Paying, Queued, ServerFails, Stop, Unacknowledged, clientVars
  <2> QED
      BY <2>1, <2>2, SameCharges
<1>6. LossIsRecorded'
    BY DEF IInv, ServerFails, Stop, Unacknowledged, clientVars, LossIsRecorded,
           Prospect, TypeOK, HeldAgrees, Corrs, Request, Reply
<1>7. RepliesAreTrue' /\ PaidBeforeConfirmed'
    BY DEF IInv, ServerFails, Stop, clientVars, RepliesAreTrue, ReplyIsTrue, HasPosted, CodeIsTrue,
           PaidBeforeConfirmed
<1> QED
    BY <1>1, <1>2, <1>3, <1>4, <1>5, <1>6, <1>7 DEF IInv

\* The request of a server that is cut off is queued again: one more charge is possible,
\* and one more failure is counted; the server itself can no longer answer it.
LEMMA ServerCutInv ==
  ASSUME IInv, NEW s \in Server, ServerCut(s)
  PROVE  IInv'
<1>1. TypeOK'
    BY DEF IInv, ServerCut, Unacknowledged, clientVars, serverVars, TypeOK
<1>2. (\A p \in rpcQueue : RequestIsTrue(p))'
  <2>1. \A q \in held[s] : RequestIsTrue(q)
      BY DEF IInv, HeldAgrees
  <2> QED
      BY <2>1 DEF IInv, ServerCut, Unacknowledged, RequestIsTrue, HasPosted, clientVars
<1>3. OneCanAnswer'
    BY DEF IInv, ServerCut, Unacknowledged, serverVars, OneCanAnswer
<1>4. (\A d \in Client : ChargesAgree(d))'
  <2> SUFFICES ASSUME NEW d \in Client PROVE ChargesAgree(d)'
      OBVIOUS
  <2>1. /\ UNCHANGED <<posted, charges>> /\ failures' = failures + 1 /\ ChargesAgree(d)
        /\ HasPosted(d)' = HasPosted(d) /\ Paying(d)' = Paying(d)
      BY DEF IInv, ServerCut, clientVars, serverVars, HasPosted, Paying
  <2>2. Queued(d)' \in {0, 1}
      BY DEF Queued
  <2>3. charges'[d] + Cardinality(Paying(d)') + Queued(d)' <= 1 + failures'
      BY <2>1, <2>2, ChargeFacts
  <2> QED
      BY <2>1, <2>3 DEF ChargesAgree
<1>5. LossIsRecorded'
    BY DEF IInv, ServerCut, Unacknowledged, clientVars, serverVars, LossIsRecorded, Prospect,
           TypeOK
<1>6. RepliesAreTrue' /\ (\A t \in Server : HeldAgrees(t))' /\ PaidBeforeConfirmed'
    BY DEF IInv, ServerCut, clientVars, serverVars, RepliesAreTrue, ReplyIsTrue, HasPosted, HeldAgrees, RequestIsTrue, HasPosted,
           CodeIsTrue, PaidBeforeConfirmed
<1> QED
    BY <1>1, <1>2, <1>3, <1>4, <1>5, <1>6 DEF IInv

\* A call that is cut off takes replies of other calls with it, but marks them.
LEMMA CallCutInv ==
  ASSUME IInv, NEW c \in Client, CallCut(c)
  PROVE  IInv'
<1> PICK L \in SUBSET inbox[c] : /\ inbox' = [inbox EXCEPT ![c] = @ \ L]
                                 /\ Lose(Corrs(L) \ {c}, "closed")
    BY DEF CallCut
<1>1. TypeOK'
  <2>1. gone' \in [Client -> SUBSET Loss]
      BY LoseFacts DEF IInv, Loss
  <2>2. inbox' \in [Client -> SUBSET Reply] /\ connected' \subseteq Client \cup Server
      BY DEF IInv, TypeOK, CallCut
  <2> QED
      BY <2>1, <2>2 DEF IInv, TypeOK, CallCut, serverVars, queueVars
<1>2. RepliesAreTrue'
    BY DEF IInv, CallCut, serverVars, queueVars, RepliesAreTrue, ReplyIsTrue, HasPosted, CodeIsTrue, TypeOK
<1>3. LossIsRecorded'
  <2> SUFFICES ASSUME NEW d \in Client, d \in connected', at'[d] = "waiting", gone'[d] = {}
               PROVE  Prospect(d)'
      BY DEF LossIsRecorded
  <2>1. d # c /\ d \in connected /\ at[d] = "waiting" /\ gone[d] = {} /\ d \notin Corrs(L)
      BY LoseFacts DEF CallCut, IInv, Loss, TypeOK
  <2>2. \A r \in L : r.corr # d
      BY <2>1 DEF Corrs
  <2>3. Prospect(d)
      BY <2>1 DEF IInv, LossIsRecorded
  <2> QED
      BY <2>2, <2>3 DEF Prospect, CallCut, serverVars, queueVars, IInv, TypeOK
<1>4. (\A d \in Client : ChargesAgree(d))'
  <2> SUFFICES ASSUME NEW d \in Client PROVE ChargesAgree(d)'
      OBVIOUS
  <2>1. /\ ChargesAgree(d) /\ UNCHANGED <<posted, charges, failures>>
        /\ HasPosted(d) => HasPosted(d)'
      BY DEF IInv, TypeOK, HasPosted, CallCut, serverVars, queueVars
  <2>2. Paying(d)' = Paying(d) /\ Queued(d)' = Queued(d)
      BY DEF IInv, TypeOK, Paying, Queued, CallCut, serverVars, queueVars
  <2> QED
      BY <2>1, <2>2, SameCharges
<1>5. (\A p \in rpcQueue : RequestIsTrue(p))' /\ (\A t \in Server : HeldAgrees(t))' /\ OneCanAnswer' /\ PaidBeforeConfirmed'
    BY DEF IInv, CallCut, serverVars, queueVars, RequestIsTrue, HasPosted, HeldAgrees, CodeIsTrue,
           OneCanAnswer, PaidBeforeConfirmed, TypeOK
<1> QED
    BY <1>1, <1>2, <1>3, <1>4, <1>5 DEF IInv

\* A reply moves from the queue to the buffer of some call.
LEMMA DeliverReplyInv ==
  ASSUME IInv, NEW c \in Client, NEW r \in replyQueue, DeliverReply(c, r)
  PROVE  IInv'
<1>1. TypeOK'
    BY DEF IInv, DeliverReply, serverVars, TypeOK, Request, Reply, Code, Auth, Body,
           Loss
<1>2. RepliesAreTrue'
    BY DEF IInv, DeliverReply, serverVars, RepliesAreTrue, ReplyIsTrue, HasPosted, CodeIsTrue, TypeOK, Reply
<1>3. LossIsRecorded'
    BY DEF IInv, DeliverReply, serverVars, LossIsRecorded, Prospect, TypeOK,
           HeldAgrees, Corrs, Request, Reply
<1>4. (\A p \in rpcQueue : RequestIsTrue(p))' /\ (\A t \in Server : HeldAgrees(t))' /\ OneCanAnswer' /\ PaidBeforeConfirmed'
    BY DEF IInv, DeliverReply, serverVars, RequestIsTrue, HasPosted, HeldAgrees, CodeIsTrue,
           OneCanAnswer, PaidBeforeConfirmed
<1>5. (\A d \in Client : ChargesAgree(d))'
  <2> SUFFICES ASSUME NEW d \in Client PROVE ChargesAgree(d)'
      OBVIOUS
  <2>1. /\ ChargesAgree(d) /\ UNCHANGED <<posted, charges, failures>>
        /\ HasPosted(d) => HasPosted(d)'
      BY DEF IInv, TypeOK, HasPosted, DeliverReply, serverVars
  <2>2. Paying(d)' = Paying(d) /\ Queued(d)' = Queued(d)
      BY DEF IInv, TypeOK, Paying, Queued, DeliverReply, serverVars
  <2> QED
      BY <2>1, <2>2, SameCharges
<1> QED
    BY <1>1, <1>2, <1>3, <1>4, <1>5 DEF IInv

\* Nothing is left at the broker, and no call has a connection to wait on.
LEMMA BrokerRestartInv ==
  ASSUME IInv, BrokerRestart
  PROVE  IInv'
<1>1. TypeOK'
  <2>1. restarts' \in 0..MaxRestarts
      BY DEF BrokerRestart, IInv, TypeOK
  <2>2. /\ connected' \subseteq Client \cup Server
        /\ rpcQueue' \subseteq Request
        /\ replyQueue' \subseteq Reply
        /\ rpcDeclared' \in BOOLEAN
      BY DEF BrokerRestart
  <2>3. UNCHANGED <<posted, at, reply, inbox, srv, held, response, charges, gone, failures>>
      BY DEF BrokerRestart, clientVars, serverVars
  <2> QED
      BY <2>1, <2>2, <2>3 DEF IInv, TypeOK
<1>2. RepliesAreTrue'
    BY DEF IInv, BrokerRestart, clientVars, RepliesAreTrue, ReplyIsTrue, HasPosted, CodeIsTrue
<1>3. (\A p \in rpcQueue : RequestIsTrue(p))' /\ OneCanAnswer' /\ LossIsRecorded'
    BY DEF BrokerRestart, OneCanAnswer, LossIsRecorded
<1>5. (\A d \in Client : ChargesAgree(d))'
  <2> SUFFICES ASSUME NEW d \in Client PROVE ChargesAgree(d)'
      OBVIOUS
  <2>1. /\ UNCHANGED <<posted, at, charges, failures>> /\ ChargesAgree(d)
        /\ HasPosted(d)' = HasPosted(d) /\ Paying(d)' = Paying(d) /\ Queued(d)' = 0
      BY DEF IInv, BrokerRestart, clientVars, serverVars, HasPosted, Paying, Queued
  <2>2. charges'[d] + Cardinality(Paying(d)') + Queued(d)' <= 1 + failures'
      BY <2>1, ChargeFacts
  <2> QED
      BY <2>1, <2>2 DEF ChargesAgree
<1>6. (\A t \in Server : HeldAgrees(t))' /\ PaidBeforeConfirmed'
    BY DEF IInv, BrokerRestart, clientVars, serverVars, HeldAgrees, RequestIsTrue, HasPosted,
           CodeIsTrue, PaidBeforeConfirmed
<1> QED
    BY <1>1, <1>2, <1>3, <1>5, <1>6 DEF IInv

\* IInv is preserved by every step.
LEMMA NextInv == IInv /\ [Next]_vars => IInv'
<1> SUFFICES ASSUME IInv, [Next]_vars PROVE IInv'
    OBVIOUS
<1>1. CASE UNCHANGED vars
  <2>1. TypeOK' /\ RepliesAreTrue' /\ (\A q \in rpcQueue : RequestIsTrue(q))'
      BY <1>1 DEF vars, IInv, TypeOK, RepliesAreTrue, ReplyIsTrue, HasPosted, RequestIsTrue,
                  CodeIsTrue
  <2>2. (\A s \in Server : HeldAgrees(s))' /\ OneCanAnswer'
      BY <1>1 DEF vars, IInv, HeldAgrees, RequestIsTrue, HasPosted, CodeIsTrue, OneCanAnswer
  <2>3. (\A d \in Client : ChargesAgree(d))'
    <3> SUFFICES ASSUME NEW d \in Client PROVE ChargesAgree(d)'
        OBVIOUS
    <3>1. /\ ChargesAgree(d) /\ UNCHANGED <<posted, charges, failures>>
          /\ HasPosted(d) => HasPosted(d)'
        BY <1>1 DEF IInv, TypeOK, HasPosted, vars
    <3>2. Paying(d)' = Paying(d) /\ Queued(d)' = Queued(d)
        BY <1>1 DEF IInv, TypeOK, Paying, Queued, vars
    <3> QED
        BY <3>1, <3>2, SameCharges
  <2>4. PaidBeforeConfirmed' /\ LossIsRecorded'
      BY <1>1 DEF vars, IInv, PaidBeforeConfirmed, LossIsRecorded, Prospect
  <2> QED
      BY <2>1, <2>2, <2>3, <2>4 DEF IInv
<1>2. ASSUME NEW c \in Client,
             CreateConnection(c) \/ ConnectionRefused(c) \/ CallStep(c) \/ CallCut(c)
      PROVE  IInv'
    BY <1>2, CreateConnectionInv, ConnectionRefusedInv, PublishRequestInv, DequeueInv,
       CloseInv, CallFailsInv, CallCutInv DEF CallStep
<1>3. ASSUME NEW s \in Server, ServerStart(s) \/ ServerStep(s) \/ Crash(s) \/ ServerCut(s)
      PROVE  IInv'
    BY <1>3, ServerStartInv, MakePaymentInv, PublishReplyInv, AckInv, ServerFailsInv,
       CrashInv, ServerCutInv DEF ServerStep
<1>4. CASE DeliverSomeRequest
    BY <1>4, DeliverInv DEF DeliverSomeRequest
<1>5. CASE DeliverSomeReply
    BY <1>5, DeliverReplyInv DEF DeliverSomeReply
<1>6. CASE BrokerRestart
    BY <1>6, BrokerRestartInv
<1> QED
    BY <1>1, <1>2, <1>3, <1>4, <1>5, <1>6 DEF Next

\* IInv holds in every state: whatever the calls, servers and bounds.
THEOREM Invariance == Spec => []IInv
<1>1. Init => IInv
    BY InitInv
<1>2. IInv /\ [Next]_vars => IInv'
    BY NextInv
<1> QED
    BY <1>1, <1>2, PTL DEF Spec

\* The variables keep their types: every code in any buffer was drawn for a call.
THEOREM TypeCorrect == Spec => []TypeOK
<1>1. IInv => TypeOK
    BY DEF IInv
<1> QED
    BY <1>1, Invariance, PTL

\* A call confirms its payment with a code of a charge of its own.
THEOREM ConfirmationsArePaid == Spec => []PaidBeforeConfirmed
<1>1. IInv => PaidBeforeConfirmed
    BY DEF IInv
<1> QED
    BY <1>1, Invariance, PTL

\* Of the servers that work on a request one at most can answer it, however often
\* connections drop and servers crash.
THEOREM RequestsHaveOneAnswerer == Spec => []OneCanAnswer
<1>1. IInv => OneCanAnswer
    BY DEF IInv
<1> QED
    BY <1>1, Invariance, PTL

\* A payment is made at most once more than servers have crashed or were cut off: the
\* charges made, those about to be made and the request still queued are no more.
THEOREM RechargesNeedFailures == Spec => []RechargedByFailureOnly
<1>1. IInv => RechargedByFailureOnly
  <2> SUFFICES ASSUME IInv, NEW c \in Client PROVE charges[c] <= 1 + failures
      BY DEF RechargedByFailureOnly
  <2> QED
      BY ChargeFacts
<1> QED
    BY <1>1, Invariance, PTL

\* A call connects as it begins, and never goes back to where it was before.
LEMMA ConnectedStep ==
  ASSUME TypeOK, ConnectedCalls, [Next]_vars
  PROVE  ConnectedCalls'
<1> USE DEF ConnectedCalls
<1>1. at \in [Client -> {"idle", "connected", "waiting", "returned", "ok", "badRequest"}]
    BY DEF TypeOK
<1>2. ASSUME NEW c \in Client, CreateConnection(c) PROVE ConnectedCalls'
    BY <1>1, <1>2 DEF CreateConnection
<1>3. ASSUME NEW c \in Client, ConnectionRefused(c) \/ CallStep(c) \/ CallCut(c)
      PROVE  ConnectedCalls'
    BY <1>1, <1>3 DEF ConnectionRefused, CallStep, PublishRequest, Dequeue, Close, CallFails,
                      Leave, CallCut
<1>4. ASSUME NEW s \in Server, ServerStart(s) \/ ServerStep(s) \/ Crash(s) \/ ServerCut(s)
      PROVE  ConnectedCalls'
    BY <1>4 DEF ServerStart, ServerStep, MakePayment, PublishReply, Ack, ServerFails, Crash,
                Stop, ServerCut, clientVars
<1>5. CASE DeliverSomeRequest \/ DeliverSomeReply \/ BrokerRestart
    BY <1>5 DEF DeliverSomeRequest, Deliver, DeliverSomeReply, DeliverReply, BrokerRestart,
                clientVars
<1>6. CASE UNCHANGED vars
    BY <1>6 DEF vars
<1> QED
    BY <1>2, <1>3, <1>4, <1>5, <1>6 DEF Next

\* How the messages of a call get lost: nothing before it is posted, and its reply only
\* with another call that discards it, ends, or is cut off.
LEMMA CausesStep ==
  ASSUME IInv, ConnectedCalls, LossHasCause, [Next]_vars
  PROVE  LossHasCause'
<1> USE DEF LossHasCause, OthersCall, HasPosted
<1>0. /\ gone \in [Client -> SUBSET Loss]
      /\ at \in [Client -> {"idle", "connected", "waiting", "returned", "ok", "badRequest"}]
    BY DEF IInv, TypeOK
<1>1. ASSUME \A c \in Client : HasPosted(c) => HasPosted(c)',
             \A c \in Client : at[c] # "idle" => at'[c] # "idle",
             UNCHANGED gone
      PROVE  LossHasCause'
    BY <1>0, <1>1
<1>2. ASSUME NEW d \in Client, at[d] # "idle", at'[d] # "idle",
             \A c \in Client \ {d} : at'[c] = at[c],
             HasPosted(d) => HasPosted(d)',
             NEW C, NEW how \in Loss, Lose(C, how),
             \A c \in C \cap Client : HasPosted(c) /\ c # d
      PROVE  LossHasCause'
  <2> SUFFICES ASSUME NEW c \in Client
               PROVE  /\ ~HasPosted(c)' => gone'[c] = {}
                      /\ gone'[c] \cap {"discarded", "closed"} # {} => OthersCall(c)'
      OBVIOUS
  <2>1. CASE c \in C
      BY <1>2, <2>1
  <2>2. CASE c \notin C
    <3>1. gone'[c] = gone[c]
        BY <2>2, <1>2, LoseFacts DEF IInv
    <3>2. HasPosted(c) => HasPosted(c)'
        BY <1>2
    <3>3. OthersCall(c) => OthersCall(c)'
        BY <1>2
    <3> QED
        BY <3>1, <3>2, <3>3
  <2> QED
      BY <2>1, <2>2
<1>3. ASSUME NEW d \in Client, NEW r \in inbox[d]
      PROVE  r.corr \in Client /\ HasPosted(r.corr)
    BY DEF IInv, RepliesAreTrue, ReplyIsTrue, TypeOK, Reply
<1>4. ASSUME NEW d \in Client, PublishRequest(d) PROVE LossHasCause'
  <2>1. /\ \A c \in Client \ {d} : at'[c] = at[c] /\ gone'[c] = gone[c]
        /\ at'[d] = "waiting"
        /\ gone[d] = {} /\ gone'[d] \subseteq {"unrouted"}
      BY <1>0, <1>4 DEF PublishRequest, Lose
  <2> QED
      BY <2>1
<1>5. ASSUME NEW d \in Client, Dequeue(d) PROVE LossHasCause'
  <2>1. PICK r \in inbox[d] :
           \/ /\ at' = [at EXCEPT ![d] = "returned"]
              /\ UNCHANGED gone
           \/ /\ r.corr # d
              /\ Lose({r.corr}, "discarded")
              /\ UNCHANGED at
      BY <1>5 DEF Dequeue, OwnReply
  <2>2. at[d] = "waiting"
      BY <1>5 DEF Dequeue
  <2>3. CASE at' = [at EXCEPT ![d] = "returned"] /\ UNCHANGED gone
      BY <1>0, <1>1, <2>2, <2>3
  <2>4. CASE r.corr # d /\ Lose({r.corr}, "discarded") /\ UNCHANGED at
      BY <1>2, <1>3, <2>2, <2>4 DEF Loss
  <2> QED
      BY <2>1, <2>3, <2>4
<1>6. ASSUME NEW d \in Client, Close(d) \/ CallFails(d) PROVE LossHasCause'
  <2>1. PICK outcome \in {"ok", "badRequest"} : Leave(d, outcome)
      BY <1>6 DEF Close, CallFails
  <2>2. at[d] # "idle" /\ at'[d] = outcome /\ \A c \in Client \ {d} : at'[c] = at[c]
      BY <1>0, <1>6, <2>1 DEF Close, CallFails, Leave
  <2>3. UNCHANGED gone \/ Lose(Corrs(inbox[d]) \ {d}, "closed")
    <3>1. d \in connected => at[d] \notin {"connected", "waiting"}
        BY <1>6 DEF Close, CallFails
    <3>2. \A c \in Client : c = d => ~(c \in connected /\ at[c] \in {"connected", "waiting"})
        BY <3>1
    <3> QED
        BY <2>1, <3>2 DEF Leave, Lose
  <2>4. \A c \in (Corrs(inbox[d]) \ {d}) \cap Client : HasPosted(c) /\ c # d
      BY <1>3 DEF Corrs
  <2> QED
      BY <1>1, <1>2, <2>2, <2>3, <2>4 DEF Loss
<1>7. ASSUME NEW d \in Client, CallCut(d) PROVE LossHasCause'
  <2>1. PICK L \in SUBSET inbox[d] : Lose(Corrs(L) \ {d}, "closed")
      BY <1>7 DEF CallCut
  <2>2. UNCHANGED at
      BY <1>7 DEF CallCut
  <2>3. \A c \in (Corrs(L) \ {d}) \cap Client : HasPosted(c) /\ c # d
      BY <1>3 DEF Corrs
  <2>4. at[d] # "idle"
      BY <1>7 DEF CallCut, ConnectedCalls
  <2> QED
      BY <1>2, <2>1, <2>2, <2>3, <2>4 DEF Loss
<1>8. ASSUME NEW d \in Client, CreateConnection(d) \/ ConnectionRefused(d) PROVE LossHasCause'
    BY <1>0, <1>1, <1>8 DEF CreateConnection, ConnectionRefused
<1>9. ASSUME NEW s \in Server, ServerStart(s) \/ ServerStep(s) \/ Crash(s) \/ ServerCut(s)
      PROVE  UNCHANGED <<at, gone>>
    BY <1>9 DEF ServerStart, ServerStep, MakePayment, PublishReply, Ack, ServerFails, Crash,
                Stop, ServerCut, clientVars
<1>10. CASE DeliverSomeRequest \/ DeliverSomeReply \/ BrokerRestart
    BY <1>1, <1>10 DEF DeliverSomeRequest, Deliver, DeliverSomeReply, DeliverReply,
                       BrokerRestart, clientVars
<1>11. CASE UNCHANGED vars
    BY <1>1, <1>11 DEF vars
<1> QED
    BY <1>1, <1>4, <1>5, <1>6, <1>7, <1>8, <1>9, <1>10, <1>11 DEF Next, CallStep

\* A loss that holds a waiting call up is one of those the property names.
LEMMA CauseExplains == IInv /\ LossHasCause => WaitingHasReason
<1> SUFFICES ASSUME IInv, LossHasCause, NEW c \in Client, c \in connected,
                    at[c] = "waiting", ~Prospect(c), "unrouted" \notin gone[c]
             PROVE  gone[c] # {} /\ OthersCall(c)
    BY DEF WaitingHasReason
<1>1. gone[c] # {} /\ gone[c] \subseteq Loss
    BY DEF IInv, LossIsRecorded, TypeOK
<1> QED
    BY <1>1 DEF LossHasCause, Loss

\* A connected call that waits in vain found no rpc_queue, or shares the queue of replies
\* with another call: no crash and no lost connection of a server holds up a lone call.
THEOREM WaitingIsExplained == Spec => []WaitingHasReason
<1>1. Init => LossHasCause /\ ConnectedCalls
    BY DEF Init, LossHasCause, ConnectedCalls
<1>2. IInv /\ ConnectedCalls /\ LossHasCause /\ [Next]_vars => LossHasCause' /\ ConnectedCalls'
    BY CausesStep, ConnectedStep DEF IInv
<1> QED
    BY <1>1, <1>2, CauseExplains, Invariance, PTL DEF Spec

\* No two calls wait for their results at the same time.
OneWaits == \A c, d \in Client : at[c] = "waiting" /\ at[d] = "waiting" => c = d

\* No call that waits has lost its result to another call while it was connected.
WaitingIsServed == \A c \in Client : at[c] = "waiting" => "discarded" \notin gone[c]

\* A call that is alone in waiting keeps its result, and one that begins to wait has not
\* lost any.
LEMMA ServedStep ==
  ASSUME IInv, LossHasCause, OneWaits, WaitingIsServed, [Next]_vars
  PROVE  WaitingIsServed'
<1> USE DEF WaitingIsServed
<1>1. /\ gone \in [Client -> SUBSET Loss]
      /\ at \in [Client -> {"idle", "connected", "waiting", "returned", "ok", "badRequest"}]
    BY DEF IInv, TypeOK
<1>2. ASSUME \A c \in Client : /\ at'[c] = "waiting" => at[c] = "waiting"
                               /\ "discarded" \in gone'[c] => "discarded" \in gone[c]
      PROVE  WaitingIsServed'
    BY <1>2
<1>3. ASSUME NEW d \in Client, PublishRequest(d) PROVE WaitingIsServed'
  <2>1. gone[d] = {}
      BY <1>3 DEF PublishRequest, LossHasCause, HasPosted
  <2>2. \A c \in Client : "discarded" \in gone'[c] => "discarded" \in gone[c]
      BY <1>1, <1>3 DEF PublishRequest, Lose
  <2>3. \A c \in Client \ {d} : at'[c] = at[c]
      BY <1>1, <1>3 DEF PublishRequest
  <2> QED
      BY <2>1, <2>2, <2>3
<1>4. ASSUME NEW d \in Client, Dequeue(d) PROVE WaitingIsServed'
  <2>1. PICK r \in inbox[d] :
           \/ /\ at' = [at EXCEPT ![d] = "returned"]
              /\ UNCHANGED gone
           \/ /\ r.corr # d
              /\ Lose({r.corr}, "discarded")
              /\ UNCHANGED at
      BY <1>4 DEF Dequeue, OwnReply
  <2>2. CASE at' = [at EXCEPT ![d] = "returned"] /\ UNCHANGED gone
      BY <1>1, <1>2, <2>2
  <2>3. CASE r.corr # d /\ Lose({r.corr}, "discarded") /\ UNCHANGED at
    <3>1. at[d] = "waiting" /\ r.corr \in Client
        BY <1>4 DEF Dequeue, IInv, TypeOK, Reply
    <3>2. at[r.corr] # "waiting"
        BY <2>3, <3>1 DEF OneWaits
    <3>3. \A c \in Client : c # r.corr => gone'[c] = gone[c]
        BY <2>3, <1>1 DEF Lose
    <3> QED
        BY <2>3, <3>2, <3>3
  <2> QED
      BY <2>1, <2>2, <2>3
<1>5. ASSUME NEW d \in Client,
             CreateConnection(d) \/ ConnectionRefused(d) \/ Close(d) \/ CallFails(d) \/ CallCut(d)
      PROVE  WaitingIsServed'
    BY <1>1, <1>2, <1>5 DEF CreateConnection, ConnectionRefused, Close, CallFails, Leave,
                            CallCut, Lose
<1>6. ASSUME NEW s \in Server, ServerStart(s) \/ ServerStep(s) \/ Crash(s) \/ ServerCut(s)
      PROVE  UNCHANGED <<at, gone>>
    BY <1>6 DEF ServerStart, ServerStep, MakePayment, PublishReply, Ack, ServerFails, Crash,
                Stop, ServerCut, clientVars
<1>7. CASE DeliverSomeRequest \/ DeliverSomeReply \/ BrokerRestart
    BY <1>7 DEF DeliverSomeRequest, Deliver, DeliverSomeReply, DeliverReply, BrokerRestart,
                clientVars
<1> QED
    BY <1>3, <1>4, <1>5, <1>6, <1>7 DEF Next, CallStep, vars

\* What the consumer says of results, that they go straight back to the user, holds of calls
\* that take turns in waiting, however many there are, and whatever of earlier calls is still
\* under way: to lose a result to another call, two of them must wait at once.
THEOREM CallsInTurnAreServed == Spec /\ []OneWaits => []WaitingIsServed
<1>1. Init => LossHasCause /\ ConnectedCalls /\ WaitingIsServed
    BY DEF Init, LossHasCause, ConnectedCalls, WaitingIsServed
<1>2. IInv /\ ConnectedCalls /\ LossHasCause /\ [Next]_vars => LossHasCause' /\ ConnectedCalls'
    BY CausesStep, ConnectedStep DEF IInv
<1>3. IInv /\ LossHasCause /\ OneWaits /\ WaitingIsServed /\ [Next]_vars => WaitingIsServed'
    BY ServedStep
<1> QED
    BY <1>1, <1>2, <1>3, Invariance, PTL DEF Spec

-----------------------------------------------------------------------------
(* The direct card payment implements PaymentCall.                            *)

\* A step that leaves the calls' positions, replies and charges alone is invisible.
LEMMA InvisibleStep ==
  ASSUME UNCHANGED <<at, reply, charges>>
  PROVE  UNCHANGED <<[c \in Client |-> OutcomeOf(c)], {c \in Client : charges[c] > 0}>>
BY DEF OutcomeOf

\* A step that moves one call without charging moves its outcome only.
LEMMA OutcomeStep ==
  ASSUME TypeOK, NEW c \in Client, NEW place, NEW code,
         at' = [at EXCEPT ![c] = place], reply' = [reply EXCEPT ![c] = code],
         UNCHANGED charges
  PROVE  /\ [d \in Client |-> OutcomeOf(d)]' =
              [[d \in Client |-> OutcomeOf(d)] EXCEPT ![c] = OutcomeOf(c)']
         /\ UNCHANGED {d \in Client : charges[d] > 0}
<1>1. \A d \in Client : d # c => OutcomeOf(d)' = OutcomeOf(d)
    BY DEF TypeOK, OutcomeOf
<1> QED
    BY <1>1

\* Every step is a step of PaymentCall or invisible to it.
LEMMA RefineStep == IInv /\ [Next]_vars => Calls!Next \/ UNCHANGED
                      <<[c \in Client |-> OutcomeOf(c)], {c \in Client : charges[c] > 0}>>
<1> SUFFICES ASSUME IInv, [Next]_vars
             PROVE  Calls!Next \/ UNCHANGED
                      <<[c \in Client |-> OutcomeOf(c)], {c \in Client : charges[c] > 0}>>
    OBVIOUS
<1>0. TypeOK
    BY DEF IInv
<1>1. CASE UNCHANGED vars
    BY <1>1, InvisibleStep DEF vars
<1>2. ASSUME NEW c \in Client, CreateConnection(c)
      PROVE  UNCHANGED <<[d \in Client |-> OutcomeOf(d)], {d \in Client : charges[d] > 0}>>
    BY <1>0, <1>2 DEF CreateConnection, OutcomeOf, TypeOK
<1>3. ASSUME NEW c \in Client, ConnectionRefused(c) PROVE Calls!Fail(c)
  <2>1. OutcomeOf(c) = "none" /\ OutcomeOf(c)' = "failed"
      BY <1>0, <1>3 DEF ConnectionRefused, OutcomeOf, TypeOK
  <2>2. /\ at' = [at EXCEPT ![c] = "badRequest"]
        /\ reply' = [reply EXCEPT ![c] = reply[c]]
        /\ UNCHANGED charges
      BY <1>0, <1>3 DEF ConnectionRefused, TypeOK
  <2> QED
      BY <1>0, <2>1, <2>2, OutcomeStep DEF Calls!Fail, Calls!End
<1>4. ASSUME NEW c \in Client, PublishRequest(c) PROVE Calls!Post(c)
  <2>1. OutcomeOf(c) = "none" /\ OutcomeOf(c)' = "open"
      BY <1>0, <1>4 DEF PublishRequest, OutcomeOf, TypeOK
  <2>2. /\ at' = [at EXCEPT ![c] = "waiting"]
        /\ reply' = [reply EXCEPT ![c] = reply[c]]
        /\ UNCHANGED charges
      BY <1>0, <1>4 DEF PublishRequest, TypeOK
  <2> QED
      BY <1>0, <2>1, <2>2, OutcomeStep DEF Calls!Post, Calls!End
<1>5. ASSUME NEW c \in Client, Dequeue(c)
      PROVE  UNCHANGED <<[d \in Client |-> OutcomeOf(d)], {d \in Client : charges[d] > 0}>>
    BY <1>0, <1>5 DEF Dequeue, OutcomeOf, TypeOK
<1>6. ASSUME NEW c \in Client, Close(c) PROVE Calls!Confirm(c) \/ Calls!Refuse(c)
  <2>1. OutcomeOf(c) = "open" /\ at'[c] = "ok" /\ reply' = reply
      BY <1>0, <1>6 DEF Close, Leave, OutcomeOf, TypeOK
  <2>2. /\ at' = [at EXCEPT ![c] = "ok"]
        /\ reply' = [reply EXCEPT ![c] = reply[c]]
        /\ UNCHANGED charges
      BY <1>0, <1>6 DEF Close, Leave, TypeOK
  <2>3. PaidBeforeConfirmed /\ at[c] = "returned"
      BY <1>6 DEF IInv, Close
  <2>4. CASE posted[c] = "card"
    <3>1. PICK n \in 1..charges[c] : reply[c] = <<c, n>>
        BY <2>3, <2>4 DEF PaidBeforeConfirmed
    <3>2. reply[c] # NoAuth /\ charges[c] > 0
        BY <1>0, <3>1 DEF TypeOK
    <3>3. OutcomeOf(c)' = "paid"
        BY <2>1, <3>2 DEF OutcomeOf
    <3> QED
        BY <1>0, <2>1, <2>2, <3>2, <3>3, OutcomeStep DEF Calls!Confirm, Calls!End
  <2>5. CASE posted[c] # "card"
    <3>1. reply[c] = NoAuth
        BY <2>3, <2>5 DEF PaidBeforeConfirmed
    <3>2. ~(charges[c] > 0)
        BY <2>5 DEF IInv, ChargesAgree
    <3>3. OutcomeOf(c)' = "unpaid"
        BY <2>1, <3>1 DEF OutcomeOf
    <3> QED
        BY <1>0, <2>1, <2>2, <3>2, <3>3, OutcomeStep DEF Calls!Refuse, Calls!End
  <2> QED
      BY <2>4, <2>5
<1>7. ASSUME NEW c \in Client, CallFails(c) PROVE Calls!Fail(c)
  <2>1. OutcomeOf(c) \in {"none", "open"} /\ OutcomeOf(c)' = "failed"
      BY <1>0, <1>7 DEF CallFails, Leave, OutcomeOf, TypeOK
  <2>2. /\ at' = [at EXCEPT ![c] = "badRequest"]
        /\ reply' = [reply EXCEPT ![c] = reply[c]]
        /\ UNCHANGED charges
      BY <1>0, <1>7 DEF CallFails, Leave, TypeOK
  <2> QED
      BY <1>0, <2>1, <2>2, OutcomeStep DEF Calls!Fail, Calls!End
<1>8. ASSUME NEW s \in Server, MakePayment(s)
      PROVE  Calls!Next \/ UNCHANGED
               <<[c \in Client |-> OutcomeOf(c)], {c \in Client : charges[c] > 0}>>
  <2>1. PICK q \in held[s] :
           \/ /\ q.body = "card"
              /\ charges' = [charges EXCEPT ![q.corr] = @ + 1]
           \/ UNCHANGED charges
      BY <1>8 DEF MakePayment
  <2>2. UNCHANGED <<at, reply>>
      BY <1>8 DEF MakePayment, clientVars
  <2>3. CASE UNCHANGED charges
      BY <2>2, <2>3, InvisibleStep
  <2>4. CASE q.body = "card" /\ charges' = [charges EXCEPT ![q.corr] = @ + 1]
    <3> DEFINE c == q.corr
    <3>1. c \in Client /\ at[c] \notin {"idle", "connected"} /\ posted[c] = "card"
        BY <2>4, <1>0 DEF IInv, HeldAgrees, RequestIsTrue, HasPosted, TypeOK, Request
    <3>2. at[c] = "ok" => reply[c] # NoAuth
      <4> SUFFICES ASSUME at[c] = "ok" PROVE reply[c] # NoAuth
          OBVIOUS
      <4>1. PICK n \in 1..charges[c] : reply[c] = <<c, n>>
          BY <3>1 DEF IInv, PaidBeforeConfirmed
      <4>2. <<c, n>> \in Client \X Nat
          BY <1>0, <3>1 DEF TypeOK
      <4> QED
          BY <4>1, <4>2
    <3>3. OutcomeOf(c) \in {"open", "paid", "failed"}
        BY <1>0, <3>1, <3>2 DEF OutcomeOf, TypeOK
    <3>4. {d \in Client : charges[d] > 0}' = {d \in Client : charges[d] > 0} \cup {c}
        BY <1>0, <2>4, <3>1 DEF TypeOK
    <3>5. UNCHANGED [d \in Client |-> OutcomeOf(d)]
        BY <2>2 DEF OutcomeOf
    <3>6. Calls!Charge(c)
        BY <3>1, <3>3, <3>4, <3>5 DEF Calls!Charge
    <3> QED
        BY <3>1, <3>6 DEF Calls!Next
  <2> QED
      BY <2>1, <2>3, <2>4
<1>9. ASSUME NEW s \in Server,
             ServerStart(s) \/ PublishReply(s) \/ Ack(s) \/ ServerFails(s) \/ Crash(s) \/
             ServerCut(s)
      PROVE  UNCHANGED <<at, reply, charges>>
    BY <1>9 DEF ServerStart, PublishReply, Ack, ServerFails, Crash, Stop, ServerCut, clientVars
<1>10. DeliverSomeRequest \/ DeliverSomeReply \/ BrokerRestart \/ (\E c \in Client : CallCut(c))
         => UNCHANGED <<at, reply, charges>>
    BY DEF DeliverSomeRequest, DeliverSomeReply, Deliver, DeliverReply, BrokerRestart, CallCut, clientVars
<1> QED
    BY <1>1, <1>2, <1>3, <1>4, <1>5, <1>6, <1>7, <1>8, <1>9, <1>10, InvisibleStep
       DEF Next, CallStep, ServerStep, Calls!Next

\* The direct card payment implements PaymentCall, whatever is lost or redelivered.
THEOREM DirectPaymentImplementsCalls == Spec => ImplementsCalls
<1>1. Init => Calls!Init
    BY DEF Init, Calls!Init, OutcomeOf
<1>2. IInv /\ [Next]_vars => [Calls!Next]_<<[c \in Client |-> OutcomeOf(c)],
                                           {c \in Client : charges[c] > 0}>>
    BY RefineStep
<1> QED
    BY <1>1, <1>2, Invariance, PTL DEF Spec, ImplementsCalls, Calls!Spec
=============================================================================
