---------------------------- MODULE PriceRequest ----------------------------
(***************************************************************************)
(* The price requests of src/src/eCommerce: HomeController.Index asks      *)
(* eCommerce.Order for the price of an order and awaits the answer without *)
(* a time limit.  The answer comes to one queue that all application       *)
(* domains of eCommerceUI share ("uniqueId"), and the callback that        *)
(* completes the call lives in the memory of the domain that has sent the  *)
(* request.  IIS may start the next domain while the last one still has    *)
(* calls to finish.  Retries, the error queue and what InMemoryPersistence *)
(* forgets are those of OrderProcess.                                      *)
(***************************************************************************)
EXTENDS Integers

CONSTANTS
  Call,        \* the calls of HomeController.Index
  Domain,      \* the application domains of eCommerceUI, one per Application_Start
  Weight,      \* the weights customers enter
  MaxRetries,  \* the delayed retries of a message
  Order,       \* the process of eCommerce.Order
  Nobody       \* no process

ASSUME WeightAssumption == Weight \subseteq Int
ASSUME RetriesAssumption == MaxRetries \in Nat
ASSUME ProcessAssumption == Order \notin Domain /\ Nobody \notin Domain \cup {Order}

VARIABLES
  weight,     \* the weight of the order of each call
  at,         \* how far each call is
  shown,      \* the price each call has put in its Review view, or 0
  started,    \* the domains that have been started
  running,    \* the domains that have not ended
  callbacks,  \* the calls each domain keeps a callback for
  messages,   \* the requests and replies under way
  errorQueue, \* those that have failed
  forgotten,  \* history: the calls whose message was in a memory that is gone
  purged,     \* history: the calls whose reply was purged
  overlapped  \* history: a domain was started before the last one had ended

callVars == <<weight, at, shown>>
domainVars == <<started, running, overlapped>>
queueVars == <<messages, errorQueue>>
lossVars == <<forgotten, purged>>
vars == <<callVars, domainVars, callbacks, queueVars, lossVars>>

-----------------------------------------------------------------------------
\* PriceCalculator.GetPrice
Price(w) == IF w < 10 THEN 6 ELSE 10

\* A message carries the call it correlates to.  It is in its queue unless a
\* process holds it in memory for a delayed retry; "retries" counts those.
Request == [kind : {"request"}, call : Call, value : Weight, retries : 0..MaxRetries,
            holder : {Nobody, Order}]
Reply == [kind : {"reply"}, call : Call, value : {6, 10}, retries : 0..MaxRetries,
          holder : Domain \cup {Nobody}]
Message == Request \cup Reply

\* Mutant: PriceRequestHandler does not reply.
NoReply(m) == {}

\* Mutant: the reply is sent at once and the request fails its attempt.
NotConsumed(m) == {m, [kind |-> "reply", call |-> m.call, value |-> Price(m.value),
                       retries |-> 0, holder |-> Nobody]}

\* context.Reply(new PriceResponse { ... })
RepliesTo(m) == {[kind |-> "reply", call |-> m.call, value |-> Price(m.value),
                  retries |-> 0, holder |-> Nobody]}

\* Mutant: the request is sent without a callback.
NotRegistered(d, c) == callbacks[d]

\* endpoint.Request keeps a callback in memory before it sends the message.
Registered(d, c) == callbacks[d] \cup {c}

\* The call that domain d completes with reply m, if it is one of its own.
Completed(d, m) == callbacks[d] \cap {m.call}

\* Message m after so many delayed retries, in its queue or with a process.
Put(m, retries, holder) == [m EXCEPT !.retries = retries, !.holder = holder]

\* What the memory of process p held, and what a new domain purges.
HeldBy(p) == {m \in messages : m.holder = p}
Purged == {m \in messages : m.kind = "reply" /\ m.holder = Nobody}
CallsOf(lost) == {m.call : m \in lost}

-----------------------------------------------------------------------------
Init ==
  /\ weight \in [Call -> Weight]
  /\ at = [c \in Call |-> "idle"]
  /\ shown = [c \in Call |-> 0]
  /\ started = {}
  /\ running = {}
  /\ callbacks = [d \in Domain |-> {}]
  /\ messages = {}
  /\ errorQueue = {}
  /\ forgotten = {}
  /\ purged = {}
  /\ overlapped = FALSE

\* Index sends PriceRequest and awaits the reply.
Index(d, c) ==
  /\ d \in running
  /\ at[c] = "idle"
  /\ at' = [at EXCEPT ![c] = "waiting"]
  /\ callbacks' = [callbacks EXCEPT ![d] = Registered(d, c)]
  /\ messages' = messages \cup {[kind |-> "request", call |-> c, value |-> weight[c],
                                 retries |-> 0, holder |-> Nobody]}
  /\ UNCHANGED <<weight, shown, domainVars, errorQueue, lossVars>>

\* PriceRequestHandler.Handle, within the transaction of the message.
HandlePriceRequest(m) ==
  /\ m.kind = "request"
  /\ m.holder = Nobody
  /\ messages' = (messages \ {m}) \cup RepliesTo(m)
  /\ UNCHANGED <<callVars, domainVars, callbacks, errorQueue, lossVars>>

\* The rest of Index: order.Price = priceResponse.Price, and the Review view.
Review(d, m) ==
  /\ d \in running
  /\ m.kind = "reply"
  /\ m.holder = Nobody
  /\ \E c \in Completed(d, m) :
       /\ at' = [at EXCEPT ![c] = "reviewed"]
       /\ shown' = [shown EXCEPT ![c] = m.value]
       /\ callbacks' = [callbacks EXCEPT ![d] = @ \ {c}]
  /\ messages' = messages \ {m}
  /\ UNCHANGED <<weight, domainVars, errorQueue, lossVars>>

\* Handling a message fails, and goes on failing when it is retried at once, which
\* leaves nothing behind.  Process p, which has received the message, keeps it for a
\* delayed retry, or parks it in the error queue after the last of them.
Fails(m, p) ==
  /\ \/ /\ m.retries < MaxRetries
        /\ messages' = (messages \ {m}) \cup {Put(m, m.retries + 1, p)}
        /\ UNCHANGED errorQueue
     \/ /\ m.retries = MaxRetries
        /\ messages' = messages \ {m}
        /\ errorQueue' = errorQueue \cup {m}
  /\ UNCHANGED <<callVars, domainVars, callbacks, lossVars>>

\* The transaction of a request is rolled back.
RequestFails(m) == m.kind = "request" /\ m.holder = Nobody /\ Fails(m, Order)

\* Domain d has no callback for a reply it receives, and no handler either.
ReplyFails(d, m) ==
  /\ d \in running
  /\ m.kind = "reply"
  /\ m.holder = Nobody
  /\ m.call \notin callbacks[d]
  /\ Fails(m, d)

RetryDue(m) ==
  /\ m.holder # Nobody
  /\ messages' = (messages \ {m}) \cup {Put(m, m.retries, Nobody)}
  /\ UNCHANGED <<callVars, domainVars, callbacks, errorQueue, lossVars>>

ReturnToSourceQueue(m) ==
  /\ errorQueue' = errorQueue \ {m}
  /\ messages' = messages \cup {Put(m, 0, Nobody)}
  /\ UNCHANGED <<callVars, domainVars, callbacks, lossVars>>

\* eCommerce.Order ends and starts again: what waits in its memory is gone.
RestartOrder ==
  /\ messages' = messages \ HeldBy(Order)
  /\ forgotten' = forgotten \cup CallsOf(HeldBy(Order))
  /\ UNCHANGED <<callVars, domainVars, callbacks, errorQueue, purged>>

\* ConfigureEndpoint: the queue of replies is purged, whoever waits for them.
StartDomain(d) ==
  /\ d \notin started
  /\ started' = started \cup {d}
  /\ running' = running \cup {d}
  /\ overlapped' = (overlapped \/ running # {})
  /\ messages' = messages \ Purged
  /\ purged' = purged \cup CallsOf(Purged)
  /\ UNCHANGED <<callVars, callbacks, errorQueue, forgotten>>

\* A domain ends with its calls, its callbacks and the retries in its memory.
EndDomain(d) ==
  /\ d \in running
  /\ running' = running \ {d}
  /\ at' = [c \in Call |-> IF c \in callbacks[d] THEN "aborted" ELSE at[c]]
  /\ callbacks' = [callbacks EXCEPT ![d] = {}]
  /\ messages' = messages \ HeldBy(d)
  /\ forgotten' = forgotten \cup CallsOf(HeldBy(d))
  /\ UNCHANGED <<weight, shown, started, overlapped, errorQueue, purged>>

-----------------------------------------------------------------------------
\* A process receives message m, or gets it back for its delayed retry.
Receive(m) ==
  \/ HandlePriceRequest(m)
  \/ RequestFails(m)
  \/ \E d \in Domain : Review(d, m) \/ ReplyFails(d, m)
  \/ RetryDue(m)

Next ==
  \/ \E d \in Domain : StartDomain(d) \/ EndDomain(d) \/ \E c \in Call : Index(d, c)
  \/ \E m \in messages : Receive(m)
  \/ \E m \in errorQueue : ReturnToSourceQueue(m)
  \/ RestartOrder

Spec == Init /\ [][Next]_vars

\* Endpoints keep receiving: no message is left alone for ever, nor retried at once
\* for ever.
FairSpec == Spec /\ \A c \in Call : WF_vars(\E m \in messages : m.call = c /\ Receive(m))

-----------------------------------------------------------------------------
TypeOK ==
  /\ weight \in [Call -> Weight]
  /\ at \in [Call -> {"idle", "waiting", "reviewed", "aborted"}]
  /\ shown \in [Call -> {0, 6, 10}]
  /\ started \subseteq Domain
  /\ running \subseteq started
  /\ callbacks \in [Domain -> SUBSET Call]
  /\ messages \subseteq Message
  /\ errorQueue \subseteq {m \in Message : m.retries = MaxRetries /\ m.holder = Nobody}
  /\ forgotten \subseteq Call
  /\ purged \subseteq Call
  /\ overlapped \in BOOLEAN

Waiting(c) == at[c] = "waiting"

\* The request or reply of call c, wherever it is.
MessagesOf(c) == {m \in messages \cup errorQueue : m.call = c}

\* The price a customer reviews is that of the weight of the very order, whatever
\* other calls and domains share the queue of replies.
PriceIsOwn == \A c \in Call : at[c] = "reviewed" => shown[c] = Price(weight[c])

\* A call that waits has one request or reply under way or in the error queue, or
\* it is on record why it never returns: a memory was lost or its reply purged.
WaitingHasReason ==
  \A c \in Call : Waiting(c) =>
    (MessagesOf(c) = {}) <=> (c \in forgotten \cup purged)

\* As long as domains never overlap, the reply of a call that waits is handled by its
\* own domain: it is never delayed, parked or purged.
RepliesComeHome ==
  ~overlapped => \A c \in Call : Waiting(c) =>
    /\ c \notin purged
    /\ \A m \in MessagesOf(c) : m.kind = "reply" => m.retries = 0 /\ m \in messages

\* A call ends, or its message is lost, or its message reaches the error queue.
ReviewedUnlessLost ==
  \A c \in Call : Waiting(c) ~>
    \/ ~Waiting(c)
    \/ c \in forgotten \cup purged
    \/ \E m \in errorQueue : m.call = c

-----------------------------------------------------------------------------
(* The refinement of PriceCall                                                *)

\* The request or reply of call c, which still waits, is lost.
Stuck(c) == Waiting(c) /\ c \in forgotten \cup purged

PriceCalls == INSTANCE PriceCall
                WITH Tariff <- [w \in Weight |-> Price(w)],
                     state  <- [c \in Call |-> IF Stuck(c) THEN "stuck" ELSE at[c]],
                     answer <- shown

\* Whatever domains overlap and whichever messages are retried, returned or purged,
\* a call is answered at most once, with its own price, and never after its message
\* was lost.
ImplementsPriceCall == PriceCalls!Spec

-----------------------------------------------------------------------------
(* The inductive invariant behind the safety properties.                      *)

\* A call that waits does so in one running domain, which has its callback.
CallbacksAgree ==
  /\ \A d \in Domain : d \notin running => callbacks[d] = {}
  /\ \A c \in Call : Waiting(c) <=> \E d \in Domain : c \in callbacks[d]
  /\ \A d, e \in Domain : callbacks[d] \cap callbacks[e] # {} => d = e

\* No two messages of one call exist, and what has one has no loss on record.
OneMessage ==
  /\ messages \cap errorQueue = {}
  /\ \A m, n \in messages \cup errorQueue : m.call = n.call => m = n
  /\ \A m \in messages \cup errorQueue :
       at[m.call] \in {"waiting", "aborted"} /\ m.call \notin forgotten \cup purged
  /\ \A c \in forgotten \cup purged : at[c] \in {"waiting", "aborted"}

\* Messages carry the weight of their call or its price, and domains that have
\* ended hold none.
MessagesAgree ==
  \A m \in messages \cup errorQueue :
    /\ m.value = IF m.kind = "request" THEN weight[m.call] ELSE Price(weight[m.call])
    /\ m.holder \in Domain => m.holder \in running

OneDomain == ~overlapped => \A d, e \in running : d = e

\* Every action of the specification preserves this conjunction.
IInv ==
  /\ TypeOK
  /\ PriceIsOwn
  /\ WaitingHasReason
  /\ RepliesComeHome
  /\ CallbacksAgree
  /\ OneMessage
  /\ MessagesAgree
  /\ OneDomain
=============================================================================
