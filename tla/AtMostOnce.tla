----------------------------- MODULE AtMostOnce ------------------------------
(***************************************************************************)
(* What the example programs of src/src/RabbitMq/Examples promise of the   *)
(* payments they share, without channels, loops or the order of events at  *)
(* the broker.  Every queue a payment is routed to has a copy of it.  A    *)
(* copy is processed at most once, by the one process that got it, and     *)
(* only after the broker has let go of it: from then on nobody else can    *)
(* get it, and it is gone if its process fails first.                      *)
(***************************************************************************)
CONSTANTS
  Copy,     \* the copies of payments that may be made
  Kept,     \* those that the broker keeps until they are acknowledged
  Worker    \* the processes

VARIABLES
  place,    \* where each copy is
  holder    \* who works on each copy, or has processed it

Place == {"unsent", "queued", "unacked", "owned", "done", "gone"}

\* What a failure does to a copy: its process ends before or after the broker let go
\* of it, or it was in a queue that does not survive.
Harm(c) == IF c \in Kept THEN {<<"unacked", "queued">>, <<"owned", "gone">>}
                         ELSE {<<"owned", "gone">>, <<"queued", "gone">>}

Init ==
  /\ place = [c \in Copy |-> "unsent"]
  /\ holder = [c \in Copy |-> {}]

\* The copies of a payment are made at once, or never.
Send ==
  /\ place' \in [Copy -> Place]
  /\ \A c \in Copy : \/ place'[c] = place[c]
                     \/ place[c] = "unsent" /\ place'[c] \in {"queued", "gone"}
  /\ UNCHANGED holder

Take(w, c) ==
  /\ place[c] = "queued"
  /\ place' = [place EXCEPT ![c] = IF c \in Kept THEN "unacked" ELSE "owned"]
  /\ holder' = [holder EXCEPT ![c] = {w}]

Move(c, from, to) == place[c] = from /\ place' = [place EXCEPT ![c] = to] /\ UNCHANGED holder

Acknowledge(c) == Move(c, "unacked", "owned")
Finish(c) == Move(c, "owned", "done")

\* A failure strikes any number of copies, which are nobody's from then on.
Fail ==
  /\ place' \in [Copy -> Place]
  /\ holder' \in [Copy -> SUBSET Worker]
  /\ \A c \in Copy : \/ place'[c] = place[c] /\ holder'[c] = holder[c]
                     \/ <<place[c], place'[c]>> \in Harm(c) /\ holder'[c] = {}

Next ==
  \/ Send
  \/ \E c \in Copy : Acknowledge(c) \/ Finish(c) \/ \E w \in Worker : Take(w, c)
  \/ Fail

Spec == Init /\ [][Next]_<<place, holder>>
=============================================================================
