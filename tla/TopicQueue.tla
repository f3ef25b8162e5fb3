----------------------------- MODULE TopicQueue -----------------------------
(***************************************************************************)
(* What the queued payments promise of a message, without connections,     *)
(* channels, workers or acknowledgements: it is published once, to its own *)
(* queue and to the audit queue in one step, and a queue keeps it until    *)
(* somebody has processed it there.  Only the loss of everything at once   *)
(* takes it away, and after such a loss a message may miss a queue.        *)
(***************************************************************************)
CONSTANTS
  Message,  \* the messages
  Queue     \* the queues

VARIABLES
  copies,     \* the queues each message is for
  published,  \* the messages published
  kept,       \* the messages each queue keeps
  processed,  \* the messages that were processed, by queue
  lost,       \* the messages that were lost, by queue
  broken      \* there was a loss

vars == <<copies, published, kept, processed, lost, broken>>

Init ==
  /\ copies \in [Message -> SUBSET Queue]
  /\ published = {}
  /\ kept = [q \in Queue |-> {}]
  /\ processed = [q \in Queue |-> {}]
  /\ lost = [q \in Queue |-> {}]
  /\ broken = FALSE

Publish(m, Q) ==
  /\ m \notin published
  /\ ~broken => Q = copies[m]
  /\ published' = published \cup {m}
  /\ kept' = [q \in Queue |-> IF q \in Q THEN kept[q] \cup {m} ELSE kept[q]]
  /\ UNCHANGED <<copies, processed, lost, broken>>

\* Somebody who has got a message may process it after it was lost.
Process(q, m) ==
  /\ m \in kept[q] \cup lost[q]
  /\ processed' = [processed EXCEPT ![q] = @ \cup {m}]
  /\ UNCHANGED <<copies, published, kept, lost, broken>>

Remove(q, m) ==
  /\ m \in kept[q] \cap processed[q]
  /\ kept' = [kept EXCEPT ![q] = @ \ {m}]
  /\ UNCHANGED <<copies, published, processed, lost, broken>>

Lose ==
  /\ broken' = TRUE
  /\ kept' = [q \in Queue |-> {}]
  /\ lost' = [q \in Queue |-> lost[q] \cup kept[q]]
  /\ UNCHANGED <<copies, published, processed>>

Next ==
  \/ \E m \in Message : \E Q \in SUBSET Queue : Publish(m, Q)
  \/ \E q \in Queue : \E m \in Message : Process(q, m) \/ Remove(q, m)
  \/ Lose

Spec == Init /\ [][Next]_vars
=============================================================================
