-------------------------- MODULE AtMostOnce_proofs --------------------------
(***************************************************************************)
(* What follows from the promise of AtMostOnce, and so for every program   *)
(* that is shown to implement it: a copy has one holder at most, and who   *)
(* has got a copy from the broker for good shares it with nobody, ever.    *)
(***************************************************************************)
EXTENDS AtMostOnce, TLAPS

\* Somebody has a copy just as long as it is out of its queue and not lost, and the
\* broker keeps none but those it has to.
HoldersAgree ==
  /\ place \in [Copy -> Place]
  /\ holder \in [Copy -> SUBSET Worker]
  /\ \A c \in Copy :
       /\ place[c] \in {"unsent", "queued", "gone"} => holder[c] = {}
       /\ place[c] \in {"unacked", "owned", "done"} => \E w \in Worker : holder[c] = {w}
       /\ place[c] = "unacked" => c \in Kept

\* Once a copy is processed, or gone, nothing happens to it any more; and once the
\* broker has let go of it, nobody gets it but the one who has it.
LetGoForGood ==
  \A c \in Copy :
    /\ place[c] \in {"done", "gone"} => place'[c] = place[c] /\ holder'[c] = holder[c]
    /\ place[c] = "owned" => \/ place'[c] \in {"owned", "done"} /\ holder'[c] = holder[c]
                             \/ place'[c] = "gone"

LEMMA HoldersInit == Init => HoldersAgree
BY DEF Init, HoldersAgree, Place

\* A move to a place with the same holder
LEMMA MoveStep ==
  ASSUME HoldersAgree, NEW c \in Copy, Acknowledge(c) \/ Finish(c)
  PROVE  HoldersAgree' /\ LetGoForGood
<1>1. ASSUME NEW from \in {"unacked", "owned"}, NEW to \in {"owned", "done"},
             from # to, Move(c, from, to)
      PROVE  HoldersAgree' /\ LetGoForGood
  <2>1. /\ place' = [place EXCEPT ![c] = to] /\ place[c] = from /\ holder' = holder
        /\ from = "owned" => to = "done"
      BY <1>1 DEF Move
  <2> QED
      BY <1>1, <2>1 DEF HoldersAgree, LetGoForGood, Place
<1>2. Move(c, "unacked", "owned") \/ Move(c, "owned", "done")
    BY DEF Acknowledge, Finish
<1> QED
    BY <1>1, <1>2

LEMMA SendStep ==
  ASSUME HoldersAgree, Send
  PROVE  HoldersAgree' /\ LetGoForGood
BY DEF Send, HoldersAgree, LetGoForGood

LEMMA TakeStep ==
  ASSUME HoldersAgree, NEW w \in Worker, NEW c \in Copy, Take(w, c)
  PROVE  HoldersAgree' /\ LetGoForGood
<1>1. /\ place[c] = "queued"
      /\ place' = [place EXCEPT ![c] = IF c \in Kept THEN "unacked" ELSE "owned"]
      /\ holder' = [holder EXCEPT ![c] = {w}]
    BY DEF Take
<1>2. HoldersAgree'
    BY <1>1 DEF HoldersAgree, Place
<1>3. LetGoForGood
    BY <1>1 DEF HoldersAgree, LetGoForGood
<1> QED
    BY <1>2, <1>3

LEMMA FailStep ==
  ASSUME HoldersAgree, Fail
  PROVE  HoldersAgree' /\ LetGoForGood
<1>1. /\ place' \in [Copy -> Place] /\ holder' \in [Copy -> SUBSET Worker]
      /\ \A c \in Copy : \/ place'[c] = place[c] /\ holder'[c] = holder[c]
                         \/ <<place[c], place'[c]>> \in Harm(c) /\ holder'[c] = {}
    BY DEF Fail
<1>2. \A c \in Copy : <<place[c], place'[c]>> \in Harm(c) =>
                        \/ place[c] \in {"owned", "queued"} /\ place'[c] = "gone"
                        \/ place[c] = "unacked" /\ place'[c] = "queued"
    BY DEF Harm
<1>3. HoldersAgree'
    BY <1>1, <1>2 DEF HoldersAgree
<1>4. LetGoForGood
    BY <1>1, <1>2 DEF LetGoForGood
<1> QED
    BY <1>3, <1>4

LEMMA PromiseStep ==
  HoldersAgree /\ [Next]_<<place, holder>> => HoldersAgree' /\ LetGoForGood
<1> SUFFICES ASSUME HoldersAgree, [Next]_<<place, holder>>
             PROVE  HoldersAgree' /\ LetGoForGood
    OBVIOUS
<1>1. CASE UNCHANGED <<place, holder>>
    BY <1>1 DEF HoldersAgree, LetGoForGood
<1>2. CASE Next
    BY <1>2, SendStep, MoveStep, TakeStep, FailStep DEF Next
<1> QED
    BY <1>1, <1>2

-----------------------------------------------------------------------------
\* A copy has one holder while somebody works on it or has processed it, and none
\* otherwise: no two processes ever have the same copy.
THEOREM OneHolderForEach == Spec => []HoldersAgree
  BY HoldersInit, PromiseStep, PTL DEF Spec

\* What the broker has let go of is processed by the one who has it, or by nobody: it is
\* in no queue again, and no failure passes it on.
THEOREM LetGoIsForGood == Spec => [][LetGoForGood]_<<place, holder>>
<1>1. HoldersAgree /\ [Next]_<<place, holder>> => LetGoForGood
    BY PromiseStep
<1> QED
    BY <1>1, OneHolderForEach, PTL DEF Spec
=============================================================================
