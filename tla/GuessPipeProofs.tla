--------------------------- MODULE GuessPipeProofs --------------------------
(***************************************************************************)
(* Theorems about GuessPipe, for any range of the numbers and any winning  *)
(* score: the parent judges the two guesses, in the first round and in all *)
(* the others, and child 2 never leads.                                    *)
(***************************************************************************)
EXTENDS GuessPipe, TLAPS

Messages == \A p \in Children : Message(p)
Inv == TypeOK /\ Messages /\ Verdicts

LEMMA InitInv == Init => Inv
  BY GuessPipeAssumption
     DEF Init, Inv, TypeOK, Messages, Message, Verdicts, Written, NobodyKilled, Winners, Distance,
         Garbage, None, Children, MyRandom, ParStates, ChildStates

\* The scores are judged by messages that do not change in this step.
LEMMA VerdictsKept ==
  ASSUME Verdicts, score' = score, msg' = msg, secret' = secret,
         par' \in {"wait1", "wait2", "done"} <=> par \in {"wait1", "wait2", "done"}
  PROVE  Verdicts'
  BY DEF Verdicts, Winners, Distance

LEMMA ForkInv == ASSUME Inv, NEW p \in Children, ParFork(p) PROVE Inv'
<1>1. TypeOK'
  BY DEF Inv, TypeOK, ParFork, ParAt, Children, numbers, ParStates, ChildStates
<1>2. Messages'
  <2>1. CASE UNCHANGED child
    BY <2>1 DEF Inv, TypeOK, Messages, Message, Written, NobodyKilled, ParFork, ParAt, Children, numbers
  <2>2. CASE child' = [child EXCEPT ![p] = "start"]
    BY <2>2 DEF Inv, TypeOK, Messages, Message, Written, NobodyKilled, ParFork, ParAt, Children, numbers
  <2> QED BY <2>1, <2>2 DEF ParFork
<1>3. Verdicts'
  BY VerdictsKept DEF Inv, ParFork, ParAt, numbers
<1> QED BY <1>1, <1>2, <1>3 DEF Inv

LEMMA CloseInv == ASSUME Inv, ParClose PROVE Inv'
<1>1. TypeOK' /\ Messages'
  BY DEF Inv, TypeOK, Messages, Message, Written, NobodyKilled, ParClose, numbers, ParStates
<1>2. Verdicts'
  BY VerdictsKept DEF Inv, ParClose, numbers
<1> QED BY <1>1, <1>2 DEF Inv

LEMMA KillInv == ASSUME Inv, NEW p \in Children, ParKill(p) PROVE Inv'
<1>1. TypeOK' /\ Messages'
  BY DEF Inv, TypeOK, Messages, Message, Written, NobodyKilled, ParKill, ParAt, Children, numbers,
         ParStates
<1>2. Verdicts'
  BY VerdictsKept DEF Inv, ParKill, ParAt, numbers
<1> QED BY <1>1, <1>2 DEF Inv

\* A read returns the one message of the child, or leaves an older one as it
\* is; only a read that finds nothing, ever, makes up a message, and then the
\* child has been killed.
LEMMA ReadInv == ASSUME Inv, NEW p \in Children, ParRead(p) PROVE Inv'
<1>1. TypeOK'
  BY GuessPipeAssumption
     DEF Inv, TypeOK, ParRead, ParAt, Children, numbers, ParStates, Garbage
<1>2. Messages'
  <2>1. \A q \in Children : q # p => msg'[q] = msg[q] /\ (q \in pipe' <=> q \in pipe)
    BY DEF Inv, TypeOK, ParRead
  <2>2. msg'[p] # None
    BY GuessPipeAssumption DEF Inv, TypeOK, ParRead, None, Garbage
  <2>3. Written(p) /\ p \notin pipe'
    BY DEF Inv, TypeOK, Messages, Message, Written, ParRead, ParAt, WriterLeft, Alive, Children, ChildStates
  <2>4. msg'[p] # guess[p] => ~NobodyKilled
    BY DEF Inv, TypeOK, Messages, Message, NobodyKilled, ParRead, ParAt, WriterLeft, Alive, Children,
           ChildStates
  <2> QED
    BY <2>1, <2>2, <2>3, <2>4
       DEF Inv, TypeOK, Messages, Message, Written, NobodyKilled, ParRead, ParAt, Children, numbers
<1>3. Verdicts'
  <2>1. CASE msg[p] = None
    <3>1. \A q \in Children : score'[q] = 0
      BY <2>1 DEF Inv, Verdicts, ParRead
    <3> QED BY <3>1, GuessPipeAssumption DEF Inv, Verdicts, ParRead, ParAt, Children, numbers
  <2>2. CASE msg[p] # None
    <3>1. msg' = msg
      BY <2>2 DEF Inv, TypeOK, Messages, Message, ParRead
    <3> QED BY <3>1, VerdictsKept DEF Inv, ParRead, ParAt, numbers
  <2> QED BY <2>1, <2>2
<1> QED BY <1>1, <1>2, <1>3 DEF Inv

\* A verdict adds a point to child 1, to both or to nobody.
LEMMA JudgeInv == ASSUME Inv, ParJudge PROVE Inv'
<1>1. TypeOK' /\ Messages'
  BY GuessPipeAssumption
     DEF Inv, TypeOK, Messages, Message, Verdicts, Written, NobodyKilled, ParJudge, Children, numbers,
         ParStates
<1>2. Winners' = Winners /\ (2 \in Winners => 1 \in Winners) /\ Winners \subseteq Children
  BY DEF Winners, Distance, ParJudge, numbers, Children
<1>3. msg[1] # None /\ msg[2] # None /\ msg' = msg
  BY DEF Inv, Messages, Message, ParJudge, Children
<1>4. \A p \in Children : score'[p] = IF p \in Winners THEN score[p] + 1 ELSE score[p]
  BY DEF ParJudge
<1>5. Verdicts'
  BY <1>2, <1>3, <1>4, GuessPipeAssumption DEF Inv, TypeOK, Verdicts, ParJudge, Children
<1> QED BY <1>1, <1>5 DEF Inv

LEMMA WaitInv == ASSUME Inv, ParWait PROVE Inv'
<1>1. TypeOK' /\ Messages'
  BY DEF Inv, TypeOK, Messages, Message, Written, NobodyKilled, ParWait, Children, numbers,
         ParStates, ChildStates
<1>2. Verdicts'
  BY VerdictsKept DEF Inv, ParWait, numbers
<1> QED BY <1>1, <1>2 DEF Inv

LEMMA ChildInv == ASSUME Inv, NEW p \in Children, ChildStep(p) PROVE Inv'
<1>1. TypeOK'
  <2>1. PICK s \in ChildStates : child' = [child EXCEPT ![p] = s]
    <3>1. PICK from \in ChildStates, s \in ChildStates : Goes(p, from, s)
      BY Zenon DEF ChildStep, ChildStates
    <3> QED BY <3>1 DEF Goes
  <2>2. child' \in [Children -> ChildStates]
    BY <2>1 DEF Inv, TypeOK
  <2>3. pipe' \subseteq Children /\ got' \subseteq Children
    BY DEF Inv, TypeOK, ChildStep
  <2> QED BY <2>2, <2>3 DEF Inv, TypeOK, ChildStep, numbers
<1>2. Messages'
  <2>1. \A q \in Children : q # p => child'[q] = child[q] /\ (q \in pipe' <=> q \in pipe)
    BY DEF Inv, TypeOK, ChildStep, Goes
  <2>2. child'[p] \notin {"unborn", "killed", "reaped"} /\ child[p] \notin {"unborn", "killed", "reaped"}
    BY DEF Inv, TypeOK, ChildStep, Goes
  <2>3. Written(p) => Written(p)'
    BY DEF Inv, TypeOK, ChildStep, Goes, Written
  <2>4. p \in pipe' => p \in pipe \/ (child[p] = "write" /\ child'[p] = "exit")
    BY DEF Inv, TypeOK, ChildStep, Goes
  <2>5. p \in pipe => p \in pipe'
    BY DEF ChildStep, Goes
  <2>6. child'[p] \in {"exit", "exited"} => child[p] = "exit" \/ p \in pipe'
    BY DEF Inv, TypeOK, ChildStep, Goes
  <2>7. UNCHANGED <<par, msg, guess>>
    BY DEF ChildStep, numbers
  <2>8. NobodyKilled' <=> NobodyKilled
    BY <2>1, <2>2 DEF NobodyKilled, Children
  <2>9. ASSUME NEW q \in Children PROVE Message(q)'
    BY <2>1, <2>2, <2>3, <2>4, <2>5, <2>6, <2>7, <2>8
       DEF Inv, Messages, Message, Written
  <2> QED BY <2>9 DEF Messages, Children
<1>3. Verdicts'
  BY VerdictsKept DEF Inv, ChildStep, numbers
<1> QED BY <1>1, <1>2, <1>3 DEF Inv

LEMMA DeliverInv == ASSUME Inv, NEW p \in Children, Deliver(p) PROVE Inv'
<1>1. TypeOK' /\ Messages'
  BY DEF Inv, TypeOK, Messages, Message, Written, NobodyKilled, Deliver, Alive, Children, numbers,
         ChildStates
<1>2. Verdicts'
  BY VerdictsKept DEF Inv, Deliver, numbers
<1> QED BY <1>1, <1>2 DEF Inv

LEMMA Stutter == ASSUME Inv, UNCHANGED vars PROVE Inv'
  BY DEF vars, Inv, TypeOK, Messages, Message, Verdicts, Written, NobodyKilled, Winners, Distance

\* The inductive invariant holds in every reachable state.
THEOREM RaceInvariant == Spec => []Inv
<1>1. Inv /\ [Next]_vars => Inv'
  BY ForkInv, CloseInv, KillInv, ReadInv, JudgeInv, WaitInv, ChildInv, DeliverInv, Stutter
     DEF Next, ParStep
<1> QED BY InitInv, <1>1, PTL DEF Spec

\* For any range and any winning score, what is judged are the two guesses,
\* unless SIGUSR1 has killed a child (04-pipe-guess-race.c:95-107).
THEOREM GuessesJudged == Spec => []JudgesGuesses
<1>1. Inv => JudgesGuesses
  BY DEF Inv, TypeOK, Messages, Message, JudgesGuesses, Children
<1> QED BY RaceInvariant, <1>1, PTL

\* For any range and any winning score, child 2 is level with child 1 or has
\* no point, and child 1 has the winning score when the game is over
\* (04-pipe-guess-race.c:81 and 102-107).
THEOREM SecondNeverLeads == Spec => []NeverLeads
<1>1. Inv => NeverLeads
  BY DEF Inv, TypeOK, Verdicts, NeverLeads, Children
<1> QED BY RaceInvariant, <1>1, PTL
=============================================================================
