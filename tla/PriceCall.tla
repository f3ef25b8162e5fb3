----------------------------- MODULE PriceCall ------------------------------
(***************************************************************************)
(* What HomeController.Index promises of a price, without messages, queues *)
(* or processes: a call is answered once, with the price of its own order, *)
(* and what a failure has left without an answer never gets one, whatever  *)
(* is retried or returned later.  Such a call waits until its process ends.*)
(***************************************************************************)
CONSTANTS
  Call,    \* the calls
  Weight,  \* the weights customers enter
  Tariff   \* the price of each weight

VARIABLES
  weight,  \* the weight of the order of each call
  state,   \* how far each call is
  answer   \* the price each call has returned, or 0

State == {"idle", "waiting", "stuck", "reviewed", "aborted"}

\* What a failure may do to a call.
Harm == {<<"waiting", "stuck">>, <<"waiting", "aborted">>, <<"stuck", "aborted">>}

Init ==
  /\ weight \in [Call -> Weight]
  /\ state = [c \in Call |-> "idle"]
  /\ answer = [c \in Call |-> 0]

Ask(c) ==
  /\ state[c] = "idle"
  /\ state' = [state EXCEPT ![c] = "waiting"]
  /\ UNCHANGED <<weight, answer>>

Answer(c) ==
  /\ state[c] = "waiting"
  /\ state' = [state EXCEPT ![c] = "reviewed"]
  /\ answer' = [answer EXCEPT ![c] = Tariff[weight[c]]]
  /\ UNCHANGED weight

\* A failure strikes any number of calls, each in its own way.
Fail ==
  /\ state' \in [Call -> State]
  /\ \A c \in Call : state'[c] = state[c] \/ <<state[c], state'[c]>> \in Harm
  /\ UNCHANGED <<weight, answer>>

Next == Fail \/ \E c \in Call : Ask(c) \/ Answer(c)

Spec == Init /\ [][Next]_<<weight, state, answer>>
=============================================================================
