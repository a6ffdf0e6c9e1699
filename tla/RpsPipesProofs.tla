--------------------------- MODULE RpsPipesProofs ---------------------------
(***************************************************************************)
(* Theorems about RpsPipes, for every WIN_SCORE: as long as no child dies  *)
(* the parent scores the two moves of the round it has started.            *)
(***************************************************************************)
EXTENDS RpsPipes, SequenceTheorems, TLAPS

\* The two players
LEMMA Pair ==
    ASSUME NEW p \in Players
    PROVE  /\ Other(p) \in Players /\ Other(p) # p /\ Other(Other(p)) = p
           /\ Players = {p, Other(p)}
           /\ p \in Procs /\ 0 \in Procs /\ p # 0
BY DEF Players, Other, Procs

\* The result is one of the three codes.
LEMMA CheckWinnerType == \A m, h : CheckWinner(m, h) \in Results
BY DEF CheckWinner, Results, LOST, WON, TIE

\* The ends are those of the four pipes.
LEMMA EndsOfPipes ==
    ASSUME NEW p \in Players
    PROVE  /\ KeptByChild(p) \subseteq Ends
           /\ ParentKeeps \subseteq Ends
           /\ W(ParentPipe[p]) \in KeptByChild(p)
           /\ W(ChildPipe[p]) \in KeptByChild(p)
BY DEF Players, Other, KeptByChild, ParentKeeps, Ends, Pipes, R, W, ParentPipe, ChildPipe

\* A pipe with one message, and what is left of it when it is read
LEMMA OneMessage ==
    ASSUME NEW S, NEW m \in S
    PROVE  /\ <<m>> \in Seq(S) /\ <<m>> # <<>>
           /\ Head(<<m>>) = m /\ Tail(<<m>>) = <<>>
           /\ Append(<<>>, m) = <<m>>
OBVIOUS

LEMMA FirstMessage ==
    ASSUME NEW S, NEW s \in Seq(S), s # <<>>
    PROVE  Head(s) \in S /\ Tail(s) \in Seq(S)
OBVIOUS

LEMMA LastMessage ==
    ASSUME NEW S, NEW s \in Seq(S), NEW m \in S
    PROVE  Append(s, m) \in Seq(S)
OBVIOUS
-----------------------------------------------------------------------------
(***************************************************************************)
(* Types, pipe ends and births                                             *)
(***************************************************************************)
Ground == TypeOK /\ Inheritance /\ Births

\* A move is no None: a hand that holds a move has played.
LEMMA MoveIsSome == \A m \in Moves : m # None
BY NoneAssumption

LEMMA InitGround == Init => Ground
<1> SUFFICES ASSUME Init PROVE Ground
  OBVIOUS
<1>1. TypeOK
  BY WinScoreAssumption DEF Init, TypeOK, ParStates, ChildStates, Procs, Players
<1>2. Inheritance
  BY DEF Init, Inheritance, Alive, Procs
<1>3. Births
  BY WinScoreAssumption DEF Init, Births, Players
<1> QED BY <1>1, <1>2, <1>3 DEF Ground

LEMMA ParForkGround == ASSUME Ground, NEW p \in Players, ParFork(p) PROVE Ground'
<1>1. TypeOK'
  <2>1. fds' \in [Procs -> SUBSET Ends]
    BY Pair DEF Ground, ParFork, TypeOK
  <2>2. child' \in [Players -> ChildStates]
    BY DEF Ground, ParFork, TypeOK, ChildStates
  <2> QED BY <2>1, <2>2 DEF Ground, ParFork, TypeOK, ParStates, pipes
<1>2. Inheritance'
  BY Pair, EndsOfPipes DEF Ground, ParFork, ParAt, TypeOK, Inheritance, Alive
<1>3. Births'
  BY DEF Ground, ParFork, ParAt, TypeOK, Births, RoundStates, Players
<1> QED BY <1>1, <1>2, <1>3 DEF Ground

\* A step of the parent that neither forks nor reaps, and may close its ends
LEMMA ParentGround ==
    ASSUME Ground, TypeOK', child' = child, cause' = cause,
           \A x \in Players : fds'[x] = fds[x],
           par' \notin {"fork1", "fork2", "close"},
           par' \in RoundStates =>
               /\ par \in RoundStates \ {"fork1", "fork2"}
               /\ \A x \in Players : score'[x] < WinScore
    PROVE  Ground'
<1>1. Inheritance'
  BY DEF Ground, Inheritance, Alive
<1>2. Births'
  BY DEF Ground, Births
<1> QED BY <1>1, <1>2 DEF Ground

LEMMA ParentStepGround ==
    ASSUME Ground,
           \/ ParClose \/ ParPrompt \/ ParKilled
           \/ \E p \in Players : ParSignal(p) \/ ParTerminate(p)
    PROVE  Ground'
<1>1. TypeOK'
  <2>1. CASE ParClose \/ ParPrompt \/ ParKilled
    <3>1. fds' \in [Procs -> SUBSET Ends]
      BY <2>1, Pair, EndsOfPipes DEF Ground, ParClose, ParPrompt, ParKilled, TypeOK, Players
    <3> QED BY <2>1, <3>1
            DEF Ground, ParClose, ParPrompt, ParKilled, TypeOK, ParStates, parVars, childVars, pipes
  <2>2. ASSUME NEW p \in Players, ParSignal(p) \/ ParTerminate(p) PROVE TypeOK'
    <3>1. pend' \in [Players -> SUBSET Signals]
      <4>1. pend \in [Players -> SUBSET Signals] /\ "SIGUSR1" \in Signals /\ "SIGTERM" \in Signals
        BY DEF Ground, TypeOK, Signals
      <4> QED BY <2>2, <4>1 DEF ParSignal, ParTerminate, Kill
    <3>2. par' \in ParStates
      BY <2>2 DEF ParSignal, ParTerminate, ParStates
    <3>3. UNCHANGED <<score, res, fds, toDad, toPeer, child, cause, start, term, hand, his>>
      BY <2>2 DEF ParSignal, ParTerminate, pipes
    <3> QED BY <3>1, <3>2, <3>3 DEF Ground, TypeOK
  <2> QED BY <2>1, <2>2
<1>2. /\ child' = child /\ cause' = cause /\ score' = score
      /\ \A x \in Players : fds'[x] = fds[x]
      /\ par' \notin {"fork1", "fork2", "close"}
      /\ par' \in RoundStates => par \in RoundStates \ {"fork1", "fork2"}
  BY Pair
     DEF Ground, ParClose, ParPrompt, ParKilled, ParSignal, ParTerminate, ParAt, TypeOK,
         RoundStates, parVars, childVars
<1>3. par' \in RoundStates => \A x \in Players : score'[x] < WinScore
  BY <1>2 DEF Ground, Births
<1> QED BY <1>1, <1>2, <1>3, ParentGround

LEMMA ParReadGround == ASSUME Ground, NEW p \in Players, ParRead(p) PROVE Ground'
<1>1. toDad[p] # <<>> => Head(toDad[p]) \in Results /\ Tail(toDad[p]) \in Seq(Results)
  BY FirstMessage DEF Ground, TypeOK
<1>2. TypeOK'
  <2>0. toDad \in [Players -> Seq(Results)] /\ res \in [Players -> Results \cup {Garbage}]
    BY DEF Ground, TypeOK
  <2>1. toDad' \in [Players -> Seq(Results)]
    BY <1>1, <2>0 DEF ParRead
  <2>2. res' \in [Players -> Results \cup {Garbage}]
    BY <1>1, <2>0 DEF ParRead
  <2> QED BY <2>1, <2>2 DEF Ground, ParRead, AfterRead, TypeOK, ParStates, childVars
<1>3. /\ child' = child /\ cause' = cause /\ score' = score /\ fds' = fds
      /\ par' \in {"read2", "score"} /\ par \in {"read1", "read2"}
  BY DEF ParRead, AfterRead, ParAt, childVars
<1>4. par' \in RoundStates => \A x \in Players : score'[x] < WinScore
  BY <1>3 DEF Ground, Births, RoundStates
<1> QED BY <1>2, <1>3, <1>4, ParentGround DEF RoundStates

\* A point is given below WIN_SCORE, and the loop test follows.
LEMMA ParScoreGround == ASSUME Ground, ParScore PROVE Ground'
<1>1. \A x \in Players : score[x] \in 0..WinScore /\ score[x] < WinScore
  BY DEF Ground, ParScore, TypeOK, Births, RoundStates
<1>2. score' \in [Players -> 0..WinScore]
  BY <1>1, WinScoreAssumption DEF Ground, ParScore, TypeOK, Players
<1>3. TypeOK'
  BY <1>2 DEF Ground, ParScore, TypeOK, ParStates, pipes
<1>4. par' \in RoundStates => \A x \in Players : score'[x] < WinScore
  BY DEF ParScore, GoesOn, RoundStates
<1>5. par = "score" /\ par' \in {"prompt", "term1"} /\ UNCHANGED <<child, cause, fds>>
  BY DEF ParScore
<1> QED BY <1>3, <1>4, <1>5, ParentGround DEF RoundStates

LEMMA ParWaitGround == ASSUME Ground, NEW p \in Players, ParWait(p) PROVE Ground'
<1>1. TypeOK'
  BY Pair DEF Ground, ParWait, ParAt, TypeOK, ParStates, ChildStates, pipes
<1>2. Inheritance'
  BY Pair DEF Ground, ParWait, TypeOK, Inheritance, Alive
<1>3. Births'
  BY DEF Ground, ParWait, TypeOK, Births, RoundStates
<1> QED BY <1>1, <1>2, <1>3 DEF Ground

\* A step of child p: it lives on with its ends, or it ends for some reason.
LEMMA ChildGround ==
    ASSUME Ground, TypeOK', NEW p \in Players, UNCHANGED parVars, Alive(p),
           \/ /\ child'[p] \notin {"unborn", "zombie", "reaped"}
              /\ cause' = cause /\ fds' = fds
           \/ \E why \in {"exit", "SIGPIPE", "SIGKILL"} \cup Signals : End(p, why),
           \A x \in Players : x # p => child'[x] = child[x]
    PROVE  Ground'
<1>1. CASE /\ child'[p] \notin {"unborn", "zombie", "reaped"}
           /\ cause' = cause /\ fds' = fds
  <2>1. \A x \in Players : Alive(x)' => Alive(x)
    BY DEF Alive
  <2>2. Inheritance'
    BY <1>1, <2>1 DEF Ground, Inheritance, parVars
  <2>3. Births'
    BY <1>1 DEF Ground, Births, Alive, parVars
  <2> QED BY <2>2, <2>3 DEF Ground
<1>2. ASSUME NEW why \in {"exit", "SIGPIPE", "SIGKILL"} \cup Signals, End(p, why) PROVE Ground'
  <2>1. /\ child'[p] = "zombie" /\ cause'[p] # "none"
        /\ \A x \in Players : x # p => cause'[x] = cause[x]
        /\ \A x \in Procs : x # p => fds'[x] = fds[x]
    BY <1>2 DEF Ground, TypeOK, End, Signals
  <2>2. \A x \in Players : Alive(x)' => Alive(x) /\ x # p
    BY <2>1 DEF Alive
  <2>3. Inheritance'
    BY <2>1, <2>2, Pair DEF Ground, Inheritance, parVars
  <2>4. Births'
    BY <2>1 DEF Ground, Births, Alive, parVars
  <2> QED BY <2>3, <2>4 DEF Ground
<1> QED BY <1>1, <1>2

LEMMA ChildSetupGround == ASSUME Ground, NEW p \in Players, ChildSetup(p) PROVE Ground'
<1>1. TypeOK'
  BY Pair, EndsOfPipes DEF Ground, ChildSetup, TypeOK, ChildStates, parVars, pipes
<1>2. Inheritance'
  BY Pair DEF Ground, ChildSetup, TypeOK, Inheritance, Alive, parVars
<1>3. Births'
  BY DEF Ground, ChildSetup, TypeOK, Births, parVars
<1> QED BY <1>1, <1>2, <1>3 DEF Ground

\* What ends a child keeps the types.
LEMMA EndType ==
    ASSUME Ground, NEW p \in Players, NEW why \in {"exit", "SIGPIPE", "SIGKILL"} \cup Signals, End(p, why)
    PROVE  /\ child' \in [Players -> ChildStates]
           /\ cause' \in [Players -> {"none", "exit", "SIGPIPE", "SIGKILL"} \cup Signals]
           /\ pend' \in [Players -> SUBSET Signals]
           /\ fds' \in [Procs -> SUBSET Ends]
           /\ \A x \in Players : x # p => child'[x] = child[x]
           /\ cause'[p] # "none"
BY Pair DEF Ground, End, TypeOK, ChildStates, Signals

LEMMA DeliverGround ==
    ASSUME Ground, NEW p \in Players, NEW sig \in Signals, Deliver(p, sig)
    PROVE  Ground'
<1>1. UNCHANGED parVars /\ UNCHANGED pipes /\ hand' = hand /\ pend[p] # {}
  BY DEF Deliver
<1>2. CASE NoHandlerYet(p, sig) /\ End(p, sig) /\ UNCHANGED <<start, term, his>>
  <2>1. TypeOK'
    BY <1>1, <1>2, EndType DEF Ground, TypeOK, parVars, pipes
  <2>2. Alive(p) /\ \A x \in Players : x # p => child'[x] = child[x]
    BY <1>2, EndType DEF NoHandlerYet, Alive
  <2> QED BY <1>1, <1>2, <2>1, <2>2, ChildGround
<1>3. CASE ~NoHandlerYet(p, sig) /\ Handle(p, sig) /\ UNCHANGED <<cause, fds>>
  <2>1. his' \in [Players -> Moves \cup {None, Garbage}]
    BY <1>3 DEF Ground, TypeOK, Handle
  <2>2. /\ child' \in [Players -> ChildStates] /\ start' \in [Players -> BOOLEAN]
        /\ term' \in [Players -> BOOLEAN] /\ pend' \in [Players -> SUBSET Signals]
    BY <1>3 DEF Ground, TypeOK, Handle, ChildStates
  <2>3. TypeOK'
    BY <1>1, <1>3, <2>1, <2>2 DEF Ground, TypeOK, parVars, pipes
  <2>4. Inheritance'
    BY <1>1, <1>3 DEF Ground, TypeOK, Inheritance, Handle, BlockedInRead, Alive, parVars
  <2>5. Births'
    BY <1>1, <1>3 DEF Ground, TypeOK, Births, Handle, BlockedInRead, parVars
  <2> QED BY <2>3, <2>4, <2>5 DEF Ground
<1> QED BY <1>2, <1>3 DEF Deliver

LEMMA ChildKilledGround == ASSUME Ground, NEW p \in Players, ChildKilled(p) PROVE Ground'
<1>1. TypeOK'
  BY EndType DEF Ground, ChildKilled, TypeOK, parVars, pipes
<1>2. Alive(p) /\ UNCHANGED parVars /\ \A x \in Players : x # p => child'[x] = child[x]
  BY EndType DEF ChildKilled
<1> QED BY <1>1, <1>2, ChildGround DEF ChildKilled

LEMMA ChildQuietGround ==
    ASSUME Ground, NEW p \in Players, ChildReady(p) \/ ChildPause(p)
    PROVE  Ground'
<1>1. TypeOK'
  BY DEF Ground, ChildReady, ChildPause, TypeOK, ChildStates, parVars, pipes
<1>2. /\ UNCHANGED parVars /\ Alive(p) /\ cause' = cause /\ fds' = fds
      /\ child'[p] \notin {"unborn", "zombie", "reaped"}
      /\ \A x \in Players : x # p => child'[x] = child[x]
  BY DEF Ground, ChildReady, ChildPause, TypeOK, Alive
<1> QED BY <1>1, <1>2, ChildGround

LEMMA ChildCheckGround == ASSUME Ground, NEW p \in Players, ChildCheck(p) PROVE Ground'
<1>1. UNCHANGED <<parVars, pipes, term, hand, his>> /\ Alive(p)
  BY DEF ChildCheck, Alive
<1>2. CASE End(p, "exit") /\ UNCHANGED start
  <2>1. TypeOK' /\ \A x \in Players : x # p => child'[x] = child[x]
    BY <1>1, <1>2, EndType DEF Ground, TypeOK, parVars, pipes
  <2> QED BY <1>1, <1>2, <2>1, ChildGround
<1>3. CASE /\ child' = [child EXCEPT ![p] = IF start[p] THEN "send" ELSE "top"]
           /\ start' = [start EXCEPT ![p] = FALSE]
           /\ UNCHANGED <<cause, pend, fds>>
  <2>1. TypeOK' /\ child'[p] \in {"send", "top"} /\ \A x \in Players : x # p => child'[x] = child[x]
    BY <1>1, <1>3 DEF Ground, TypeOK, ChildStates, parVars, pipes
  <2> QED BY <1>1, <1>3, <2>1, ChildGround
<1> QED BY <1>2, <1>3 DEF ChildCheck

LEMMA ChildSendGround == ASSUME Ground, NEW p \in Players, ChildSend(p) PROVE Ground'
<1>1. UNCHANGED <<parVars, toDad, start, term, his>> /\ Alive(p)
  BY DEF ChildSend, Alive
<1>2. hand' \in [Players -> Moves \cup {None}] /\ hand'[p] \in Moves
  BY DEF ChildSend, Ground, TypeOK
<1>3. CASE /\ toPeer' = [toPeer EXCEPT ![p] = Append(@, hand'[p])]
           /\ child' = [child EXCEPT ![p] = "recv"]
           /\ UNCHANGED <<cause, pend, fds>>
  <2>1. toPeer' \in [Players -> Seq(Moves)]
    BY <1>2, <1>3, LastMessage DEF Ground, TypeOK
  <2>2. TypeOK' /\ child'[p] = "recv" /\ \A x \in Players : x # p => child'[x] = child[x]
    BY <1>1, <1>2, <1>3, <2>1 DEF Ground, TypeOK, ChildStates, parVars
  <2> QED BY <1>1, <1>3, <2>2, ChildGround
<1>4. CASE End(p, "SIGPIPE") /\ UNCHANGED toPeer
  <2>1. TypeOK' /\ \A x \in Players : x # p => child'[x] = child[x]
    BY <1>1, <1>2, <1>4, EndType DEF Ground, TypeOK, parVars
  <2> QED BY <1>1, <1>4, <2>1, ChildGround
<1> QED BY <1>3, <1>4 DEF ChildSend

LEMMA ChildRecvGround == ASSUME Ground, NEW p \in Players, ChildRecv(p) PROVE Ground'
<1>1. /\ UNCHANGED <<parVars, fds, toDad, cause, pend, start, term, hand>>
      /\ child' = [child EXCEPT ![p] = "report"] /\ Alive(p)
  BY DEF ChildRecv, Alive
<1>2. toPeer[Other(p)] # <<>> =>
          Head(toPeer[Other(p)]) \in Moves /\ Tail(toPeer[Other(p)]) \in Seq(Moves)
  BY Pair, FirstMessage DEF Ground, TypeOK
<1>3. toPeer' \in [Players -> Seq(Moves)] /\ his' \in [Players -> Moves \cup {None, Garbage}]
  <2>1. Other(p) \in Players
    BY Pair
  <2>2. /\ toPeer \in [Players -> Seq(Moves)]
        /\ his \in [Players -> Moves \cup {None, Garbage}]
    BY DEF Ground, TypeOK
  <2> QED BY <1>2, <2>1, <2>2 DEF ChildRecv
<1>4. TypeOK' /\ child'[p] = "report" /\ \A x \in Players : x # p => child'[x] = child[x]
  BY <1>1, <1>3 DEF Ground, TypeOK, ChildStates, parVars
<1> QED BY <1>1, <1>4, ChildGround

LEMMA ChildReportGround == ASSUME Ground, NEW p \in Players, ChildReport(p) PROVE Ground'
<1>1. UNCHANGED <<parVars, toPeer, start, term, hand, his>> /\ Alive(p)
  BY DEF ChildReport, Alive
<1>2. CASE /\ toDad' = [toDad EXCEPT ![p] = Append(@, CheckWinner(hand[p], his[p]))]
           /\ child' = [child EXCEPT ![p] = "top"]
           /\ UNCHANGED <<cause, pend, fds>>
  <2>1. toDad' \in [Players -> Seq(Results)]
    BY <1>2, CheckWinnerType, LastMessage DEF Ground, TypeOK
  <2>2. TypeOK' /\ child'[p] = "top" /\ \A x \in Players : x # p => child'[x] = child[x]
    BY <1>1, <1>2, <2>1 DEF Ground, TypeOK, ChildStates, parVars
  <2> QED BY <1>1, <1>2, <2>2, ChildGround
<1>3. CASE End(p, "SIGPIPE") /\ UNCHANGED toDad
  <2>1. TypeOK' /\ \A x \in Players : x # p => child'[x] = child[x]
    BY <1>1, <1>3, EndType DEF Ground, TypeOK, parVars
  <2> QED BY <1>1, <1>3, <2>1, ChildGround
<1> QED BY <1>2, <1>3 DEF ChildReport
-----------------------------------------------------------------------------
(***************************************************************************)
(* The rounds                                                              *)
(***************************************************************************)

\* Where a child can be in a round in which nobody has died
LEMMA RoundsNow ==
    ASSUME PipesInv, NobodyDied, par \in RoundStates, NEW p \in Players
    PROVE  /\ Round(p) /\ Round(Other(p))
           /\ p = 1 \/ p = 2
           /\ par # "fork1" /\ ~(par = "fork2" /\ p = 2) => Alive(p)
BY Pair DEF PipesInv, Rounds, Births, Alive, NobodyDied, Players

\* The stages of a round are disjoint, and there is no other.
LEMMA Stages ==
    ASSUME par \in RoundStates, NEW p \in Players
    PROVE  /\ NotCalled(p) \/ Awaited(p) \/ Answered(p)
           /\ ~(NotCalled(p) /\ Awaited(p))
           /\ ~(NotCalled(p) /\ Answered(p))
           /\ ~(Awaited(p) /\ Answered(p))
BY DEF RoundStates, Players, NotCalled, Awaited, Answered, ParAt

\* A step that leaves children and messages alone
LEMMA NothingMoves ==
    ASSUME Rounds, UNCHANGED <<toDad, toPeer, child, cause, pend, start, term, hand, his, res>>,
           par' \in RoundStates =>
               /\ par \in RoundStates
               /\ \A p \in Players : /\ NotCalled(p)' <=> NotCalled(p)
                                     /\ Awaited(p)' <=> Awaited(p)
                                     /\ Answered(p)' <=> Answered(p)
    PROVE  Rounds'
BY DEF Rounds, NobodyDied, Round, InPipe, Heard, Idle, Called, Playing, Finished, Result

LEMMA InitRounds == Init => Rounds
BY MoveIsSome DEF Init, Rounds, Round, InPipe, Idle, NotCalled, Awaited, Answered, ParAt, Players

LEMMA ParForkRounds == ASSUME PipesInv, NEW p \in Players, ParFork(p) PROVE Rounds'
<1>1. CASE par' = "failed"
  BY <1>1 DEF Rounds, RoundStates
<1>2. CASE par' # "failed" /\ NobodyDied'
  <2>1. /\ par \in {"fork1", "fork2"} /\ par' \in {"fork2", "close"}
        /\ child' = [child EXCEPT ![p] = "forked"]
        /\ UNCHANGED <<toDad, toPeer, cause, pend, start, term, hand, his, res>>
    BY <1>2 DEF ParFork, ParAt, pipes
  <2>2. \A x \in Players : Round(x) /\ Idle(x)
    BY <1>2, <2>1 DEF PipesInv, Rounds, RoundStates, NobodyDied, Round, NotCalled
  <2>3. child \in [Players -> ChildStates]
    BY DEF PipesInv, TypeOK
  <2>4. ASSUME NEW x \in Players PROVE Round(x)'
    <3>1. Idle(x)' /\ hand'[x] = None /\ toPeer'[x] = <<>> /\ ~term'[x]
      BY <2>1, <2>2, <2>3 DEF Idle, Round, InPipe
    <3> QED BY <2>1, <3>1 DEF Round, InPipe, Awaited, Answered, ParAt
  <2> QED BY <2>4 DEF Rounds
<1> QED BY <1>1, <1>2 DEF Rounds

LEMMA ParentStepRounds == ASSUME PipesInv, ParClose \/ ParPrompt \/ ParKilled PROVE Rounds'
<1>1. /\ par' \in RoundStates => par \in {"close", "prompt"} /\ par' \in {"prompt", "kill1"}
      /\ UNCHANGED <<toDad, toPeer, child, cause, pend, start, term, hand, his, res>>
  BY DEF ParClose, ParPrompt, ParKilled, RoundStates, parVars, childVars, pipes
<1>2. par' \in RoundStates =>
          /\ par \in RoundStates
          /\ \A p \in Players : /\ NotCalled(p)' <=> NotCalled(p)
                                /\ Awaited(p)' <=> Awaited(p)
                                /\ Answered(p)' <=> Answered(p)
  BY <1>1 DEF RoundStates, NotCalled, Awaited, Answered, ParAt
<1> QED BY <1>1, <1>2, NothingMoves DEF PipesInv

\* SIGUSR1 is sent to a child that has not been told to play.
LEMMA ParSignalRounds == ASSUME PipesInv, NEW p \in Players, ParSignal(p) PROVE Rounds'
<1> SUFFICES ASSUME NobodyDied', NEW x \in Players PROVE Round(x)'
  BY DEF Rounds
<1>1. /\ par = (IF p = 1 THEN "kill1" ELSE "kill2")
      /\ par' = (IF p = 1 THEN "kill2" ELSE "read1")
      /\ UNCHANGED <<toDad, toPeer, child, cause, start, term, hand, his, res>>
  BY DEF ParSignal, ParAt, pipes
<1>2. NobodyDied /\ par \in RoundStates
  BY <1>1 DEF NobodyDied, RoundStates
<1>3. Round(x) /\ Round(p) /\ Alive(p) /\ Idle(p)
  BY <1>1, <1>2, RoundsNow DEF Round, NotCalled, Players
<1>4. pend' = [pend EXCEPT ![p] = @ \cup {"SIGUSR1"}] /\ pend \in [Players -> SUBSET Signals]
  BY <1>3 DEF ParSignal, Kill, PipesInv, TypeOK
<1>5. CASE x = p
  <2>1. Called(p)'
    BY <1>1, <1>3, <1>4 DEF Idle, Called, Alive
  <2>2. ~NotCalled(p)' /\ ~Answered(p)' /\ InPipe(p)' /\ ~term'[p]
    BY <1>1, <1>3 DEF NotCalled, Answered, Round, InPipe, Heard
  <2> QED BY <1>5, <2>1, <2>2 DEF Round
<1>6. CASE x # p
  <2>1. /\ NotCalled(x)' <=> NotCalled(x)
        /\ Awaited(x)' <=> Awaited(x)
        /\ Answered(x)' <=> Answered(x)
    BY <1>1, <1>6 DEF NotCalled, Awaited, Answered, ParAt, Players
  <2> QED BY <1>1, <1>3, <1>4, <1>6, <2>1
          DEF Round, InPipe, Heard, Idle, Called, Playing, Finished, Result
<1> QED BY <1>5, <1>6

\* The result that is read is that of this round: the pipe of a living child
\* is never at its end.
LEMMA ParReadRounds == ASSUME PipesInv, NEW p \in Players, ParRead(p) PROVE Rounds'
<1> SUFFICES ASSUME NobodyDied', NEW x \in Players PROVE Round(x)'
  BY DEF Rounds
<1>1. /\ par = (IF p = 1 THEN "read1" ELSE "read2")
      /\ par' = (IF p = 1 THEN "read2" ELSE "score")
      /\ UNCHANGED <<toPeer, child, cause, pend, start, term, hand, his>>
  BY DEF ParRead, ParAt, AfterRead, childVars
<1>2. NobodyDied /\ par \in RoundStates
  BY <1>1 DEF NobodyDied, RoundStates
<1>3. Round(x) /\ Round(p) /\ Alive(p) /\ Awaited(p)
  BY <1>1, <1>2, RoundsNow DEF Awaited, ParAt, Players
<1>4. Held(W(ParentPipe[p]))
  BY <1>3, Pair, EndsOfPipes DEF PipesInv, Inheritance, Held
<1>5. /\ toDad[p] # <<>>
      /\ res' = [res EXCEPT ![p] = Head(toDad[p])]
      /\ toDad' = [toDad EXCEPT ![p] = Tail(@)]
      /\ res \in [Players -> Results \cup {Garbage}] /\ toDad \in [Players -> Seq(Results)]
  BY <1>4 DEF ParRead, PipesInv, TypeOK
<1>6. Finished(p, <<Result(p)>>)
  BY <1>3, <1>5 DEF Round, Called, Playing
<1>7. CASE x = p
  <2>1. Head(toDad[p]) = Result(p) /\ Tail(toDad[p]) = <<>>
    BY <1>6, CheckWinnerType, OneMessage DEF Finished, Result
  <2>2. Finished(p, <<>>)' /\ res'[p] = Result(p)'
    BY <1>1, <1>5, <1>6, <2>1 DEF Finished, Result
  <2>3. ~NotCalled(p)' /\ ~Awaited(p)' /\ InPipe(p)' /\ ~term'[p]
    BY <1>1, <1>3 DEF NotCalled, Awaited, ParAt, Round, InPipe, Heard, Players
  <2> QED BY <1>7, <2>2, <2>3 DEF Round
<1>8. CASE x # p
  <2>1. /\ NotCalled(x)' <=> NotCalled(x)
        /\ Awaited(x)' <=> Awaited(x)
        /\ Answered(x)' <=> Answered(x)
    BY <1>1, <1>8 DEF NotCalled, Awaited, Answered, ParAt, Players
  <2>2. toDad'[x] = toDad[x] /\ res'[x] = res[x]
    BY <1>5, <1>8
  <2> QED BY <1>1, <1>3, <2>1, <2>2
          DEF Round, InPipe, Heard, Idle, Called, Playing, Finished, Result
<1> QED BY <1>7, <1>8

\* After a round the pipes are empty and nobody has been called.
LEMMA ParScoreRounds == ASSUME PipesInv, ParScore PROVE Rounds'
<1> SUFFICES ASSUME NobodyDied', NEW x \in Players PROVE Round(x)'
  BY DEF Rounds
<1>1. /\ par = "score" /\ par' \in {"prompt", "term1"}
      /\ hand' = [p \in Players |-> None]
      /\ UNCHANGED <<toPeer, toDad, child, cause, pend, start, term>>
  BY DEF ParScore, pipes
<1>2. NobodyDied /\ par \in RoundStates
  BY <1>1 DEF NobodyDied, RoundStates
<1>3. Round(x) /\ Round(Other(x)) /\ Answered(x) /\ Answered(Other(x))
  BY <1>1, <1>2, RoundsNow DEF Answered
<1>4. Finished(x, <<>>) /\ Finished(Other(x), <<>>) /\ InPipe(x) /\ ~term[x]
  BY <1>3 DEF Round
<1>5. toPeer[x] = <<>> /\ Idle(x)'
  BY <1>1, <1>4 DEF Finished, InPipe, Heard, Idle
<1>6. ~Awaited(x)' /\ ~Answered(x)'
  BY <1>1 DEF Awaited, Answered, ParAt
<1> QED BY <1>1, <1>4, <1>5, <1>6 DEF Round, InPipe, Idle

\* A child that ends is a death.
LEMMA DeathRounds ==
    ASSUME Ground, NEW p \in Players, NEW why \in {"exit", "SIGPIPE", "SIGKILL"} \cup Signals, End(p, why)
    PROVE  Rounds'
BY EndType DEF Rounds, NobodyDied

\* A step of child p that keeps its place in the round and its messages
LEMMA PlaceKept ==
    ASSUME PipesInv, NEW p \in Players, UNCHANGED <<parVars, pipes, cause, term, hand>>,
           \A x \in Players : x # p =>
               /\ child'[x] = child[x] /\ pend'[x] = pend[x]
               /\ start'[x] = start[x] /\ his'[x] = his[x],
           child[p] # "recv" /\ child'[p] # "recv",
           NobodyDied /\ par \in RoundStates =>
               /\ Idle(p) => Idle(p)'
               /\ Called(p) => Called(p)'
               /\ Playing(p) => Playing(p)'
               /\ \A r \in Seq(Results) : Finished(p, r) => Finished(p, r)'
    PROVE  Rounds'
<1> SUFFICES ASSUME NobodyDied', par' \in RoundStates, NEW x \in Players PROVE Round(x)'
  BY DEF Rounds
<1>1. NobodyDied /\ par \in RoundStates
  BY DEF NobodyDied, parVars
<1>2. Round(x)
  BY <1>1, RoundsNow
<1>3. /\ NotCalled(x)' <=> NotCalled(x)
      /\ Awaited(x)' <=> Awaited(x)
      /\ Answered(x)' <=> Answered(x)
  BY DEF NotCalled, Awaited, Answered, ParAt, parVars
<1>4. InPipe(x)' /\ ~term'[x] /\ res'[x] = res[x] /\ Result(x)' = Result(x)
  <2>1. Heard(Other(x))' <=> Heard(Other(x))
    BY Pair DEF Heard
  <2> QED BY <1>2, <2>1 DEF Round, InPipe, Result, parVars, pipes
<1>5. CASE x = p
  <2>1. <<Result(p)>> \in Seq(Results) /\ <<>> \in Seq(Results)
    BY CheckWinnerType DEF Result
  <2> QED BY <1>1, <1>2, <1>3, <1>4, <1>5, <2>1 DEF Round
<1>6. CASE x # p
  BY <1>2, <1>3, <1>4, <1>6 DEF Round, Idle, Called, Playing, Finished, pipes
<1> QED BY <1>5, <1>6

\* The handlers are installed, or the child goes to sleep.
LEMMA ChildQuietRounds ==
    ASSUME PipesInv, NEW p \in Players, ChildSetup(p) \/ ChildReady(p) \/ ChildPause(p)
    PROVE  Rounds'
<1>1. /\ UNCHANGED <<parVars, pipes, cause, pend, start, term, hand, his>>
      /\ \/ child[p] = "forked" /\ child' = [child EXCEPT ![p] = "usr1"]
         \/ child[p] = "usr1" /\ child' = [child EXCEPT ![p] = "top"]
         \/ child[p] = "top" /\ child' = [child EXCEPT ![p] = "paused"]
      /\ child \in [Players -> ChildStates]
  BY DEF ChildSetup, ChildReady, ChildPause, PipesInv, TypeOK
<1>2. /\ Idle(p) => Idle(p)'
      /\ Called(p) => Called(p)'
      /\ Playing(p) => Playing(p)'
      /\ \A r \in Seq(Results) : Finished(p, r) => Finished(p, r)'
  BY <1>1 DEF Idle, Called, Playing, Finished, pipes
<1>3. \A x \in Players : x # p => child'[x] = child[x]
  BY <1>1
<1>4. child[p] # "recv" /\ child'[p] # "recv"
  BY <1>1
<1> QED BY <1>1, <1>2, <1>3, <1>4, PlaceKept

\* In a round only SIGUSR1 can be pending, for a child that has not played.
LEMMA DeliverRounds ==
    ASSUME PipesInv, NEW p \in Players, NEW sig \in Signals, Deliver(p, sig)
    PROVE  Rounds'
<1>1. CASE NoHandlerYet(p, sig) /\ End(p, sig)
  BY <1>1, DeathRounds DEF PipesInv, Ground
<1>2. CASE ~NoHandlerYet(p, sig) /\ Handle(p, sig) /\ UNCHANGED <<cause, fds>>
  <2> SUFFICES ASSUME NobodyDied', par' \in RoundStates PROVE Rounds'
    BY DEF Rounds
  <2>1. /\ UNCHANGED <<parVars, pipes, hand, cause>> /\ sig \in pend[p]
        /\ NobodyDied /\ par \in RoundStates
    BY <1>2 DEF Deliver, NobodyDied, parVars
  <2>2. Round(p)
    BY <2>1, RoundsNow
  <2>3. Called(p)
    BY <2>1, <2>2, Stages DEF Round, Idle, Playing, Finished
  <2>4. /\ sig = "SIGUSR1" /\ pend[p] = {"SIGUSR1"} /\ ~start[p]
        /\ child[p] \in {"usr1", "top", "paused"} /\ ~BlockedInRead(p)
    BY <1>2, <2>1, <2>3 DEF Called, NoHandlerYet, BlockedInRead
  <2>5. /\ child' = IF child[p] = "paused" THEN [child EXCEPT ![p] = "check"] ELSE child
        /\ start' = [start EXCEPT ![p] = TRUE] /\ pend' = [pend EXCEPT ![p] = {}]
        /\ term' = term
    BY <1>2, <2>4 DEF Handle
  <2>6. \E m \in {his[p]} : his' = [his EXCEPT ![p] = m]
    BY <1>2, <2>4 DEF Handle
  <2>7. /\ child \in [Players -> ChildStates] /\ start \in [Players -> BOOLEAN]
        /\ pend \in [Players -> SUBSET Signals]
        /\ his \in [Players -> Moves \cup {None, Garbage}]
    BY DEF PipesInv, TypeOK
  <2>8. Called(p)' /\ ~Idle(p) /\ ~Playing(p) /\ \A r : ~Finished(p, r)
    BY <2>1, <2>3, <2>4, <2>5, <2>7 DEF Called, Idle, Playing, Finished, pipes
  <2>9. /\ child[p] # "recv" /\ child'[p] # "recv"
        /\ \A x \in Players : x # p =>
              /\ child'[x] = child[x] /\ pend'[x] = pend[x]
              /\ start'[x] = start[x] /\ his'[x] = his[x]
    BY <2>4, <2>5, <2>6, <2>7
  <2> QED BY <2>1, <2>5, <2>8, <2>9, PlaceKept
<1> QED BY <1>1, <1>2 DEF Deliver

\* pause() has returned: the token is in the flag, and it is spent.
LEMMA ChildCheckRounds == ASSUME PipesInv, NEW p \in Players, ChildCheck(p) PROVE Rounds'
<1>1. CASE End(p, "exit")
  BY <1>1, DeathRounds DEF PipesInv, Ground
<1>2. CASE /\ child' = [child EXCEPT ![p] = IF start[p] THEN "send" ELSE "top"]
           /\ start' = [start EXCEPT ![p] = FALSE]
           /\ UNCHANGED <<cause, pend, fds>>
  <2>1. child[p] = "check" /\ UNCHANGED <<parVars, pipes, cause, term, hand, his, pend>>
    BY <1>2 DEF ChildCheck
  <2>2. child \in [Players -> ChildStates] /\ start \in [Players -> BOOLEAN]
    BY DEF PipesInv, TypeOK
  <2>3. /\ ~Idle(p) /\ ~Playing(p) /\ \A r : ~Finished(p, r)
        /\ Called(p) => Called(p)'
    BY <1>2, <2>1, <2>2 DEF Called, Idle, Playing, Finished, pipes
  <2>4. /\ child[p] # "recv" /\ child'[p] # "recv"
        /\ \A x \in Players : x # p => child'[x] = child[x] /\ start'[x] = start[x]
    BY <1>2, <2>1, <2>2
  <2> QED BY <2>1, <2>3, <2>4, PlaceKept
<1> QED BY <1>1, <1>2 DEF ChildCheck

\* Nobody has answered a child that has not played, and the brother's move,
\* if there is one, waits for it.
LEMMA NotHeard ==
    ASSUME NEW p \in Players, NEW q \in Players, q # p, hand[p] = None,
           Other(q) = p, Round(q), par \in RoundStates
    PROVE  ~Heard(q)
<1>1. Idle(q) \/ Called(q) \/ Playing(q) \/ \E r \in Seq(Results) : Finished(q, r)
  <2>1. <<Result(q)>> \in Seq(Results) /\ <<>> \in Seq(Results)
    BY CheckWinnerType DEF Result
  <2> QED BY <2>1, Stages DEF Round
<1> QED BY <1>1 DEF Idle, Called, Playing, Finished, Heard

LEMMA ChildSendRounds == ASSUME PipesInv, NEW p \in Players, ChildSend(p) PROVE Rounds'
<1>1. CASE End(p, "SIGPIPE")
  BY <1>1, DeathRounds DEF PipesInv, Ground
<1>2. CASE /\ toPeer' = [toPeer EXCEPT ![p] = Append(@, hand'[p])]
           /\ child' = [child EXCEPT ![p] = "recv"]
           /\ UNCHANGED <<cause, pend, fds>>
  <2> SUFFICES ASSUME NobodyDied', par' \in RoundStates, NEW x \in Players PROVE Round(x)'
    BY DEF Rounds
  <2> DEFINE q == Other(p)
  <2>0. q \in Players /\ q # p /\ Other(q) = p /\ (x = p \/ x = q)
    BY Pair
  <2>1. /\ child[p] = "send"
        /\ UNCHANGED <<par, score, res, toDad, cause, pend, start, term, his>>
        /\ NobodyDied /\ par \in RoundStates
    BY <1>2 DEF ChildSend, NobodyDied, parVars
  <2>2. PICK m \in Moves : hand' = [hand EXCEPT ![p] = m]
    BY DEF ChildSend
  <2>3. /\ child \in [Players -> ChildStates] /\ hand \in [Players -> Moves \cup {None}]
        /\ toPeer \in [Players -> Seq(Moves)]
    BY DEF PipesInv, TypeOK
  <2>4. Round(p) /\ Round(q)
    BY <2>1, RoundsNow
  <2>5. Called(p) /\ Awaited(p) /\ ~NotCalled(p) /\ ~Answered(p)
    BY <2>1, <2>4, Stages DEF Round, Idle, Playing, Finished
  <2>6. hand[p] = None /\ toPeer[p] = <<>> /\ hand'[p] = m /\ hand'[q] = hand[q] /\ m # None
    BY <2>0, <2>2, <2>3, <2>4, <2>5, MoveIsSome DEF Called, Round, InPipe
  <2>7. ~Heard(q) /\ ~Heard(q)'
    <3>1. ~Heard(q)
      BY <2>0, <2>1, <2>4, <2>6, NotHeard
    <3> QED BY <1>2, <2>0, <2>3, <2>6, <3>1 DEF Heard
  <2>8. ~Heard(p) /\ ~Heard(p)'
    BY <1>2, <2>3, <2>6 DEF Heard
  <2>9. CASE x = p
    <3>1. toPeer'[p] = <<m>>
      BY <1>2, <2>3, <2>6, OneMessage
    <3>2. InPipe(p)'
      BY <2>6, <2>7, <3>1 DEF InPipe
    <3>3. Playing(p)'
      BY <1>2, <2>1, <2>3, <2>5, <2>6 DEF Playing, Called
    <3>4. Awaited(p)' /\ ~NotCalled(p)' /\ ~Answered(p)'
      BY <2>1, <2>5 DEF Awaited, NotCalled, Answered, ParAt
    <3> QED BY <2>1, <2>4, <2>9, <3>2, <3>3, <3>4 DEF Round
  <2>10. CASE x = q
    <3>1. toPeer'[q] = toPeer[q] /\ child'[q] = child[q]
      BY <1>2, <2>0, <2>3
    <3>2. InPipe(q)'
      BY <2>0, <2>4, <2>6, <2>8, <3>1 DEF InPipe, Round
    <3>3. /\ Idle(q) => Idle(q)'
          /\ Called(q) => Called(q)'
          /\ Playing(q) => Playing(q)'
          /\ \A r : ~Finished(q, r)
      BY <2>0, <2>1, <2>6, <3>1 DEF Idle, Called, Playing, Finished
    <3>4. /\ Awaited(q)' <=> Awaited(q)
          /\ NotCalled(q)' <=> NotCalled(q)
          /\ Answered(q)' <=> Answered(q)
      BY <2>1 DEF Awaited, NotCalled, Answered, ParAt
    <3> QED BY <2>1, <2>4, <2>10, <3>2, <3>3, <3>4 DEF Round
  <2> QED BY <2>0, <2>9, <2>10
<1> QED BY <1>1, <1>2 DEF ChildSend

\* The brother's move of this round is read: the pipe of a living child is
\* never at its end.
LEMMA ChildRecvRounds == ASSUME PipesInv, NEW p \in Players, ChildRecv(p) PROVE Rounds'
<1> SUFFICES ASSUME NobodyDied', par' \in RoundStates, NEW x \in Players PROVE Round(x)'
  BY DEF Rounds
<1> DEFINE q == Other(p)
<1>0. q \in Players /\ q # p /\ Other(q) = p /\ (x = p \/ x = q)
  BY Pair
<1>1. /\ child[p] = "recv" /\ child' = [child EXCEPT ![p] = "report"]
      /\ UNCHANGED <<par, score, res, toDad, cause, pend, start, term, hand>>
      /\ NobodyDied /\ par \in RoundStates
  BY DEF ChildRecv, NobodyDied, parVars
<1>2. /\ child \in [Players -> ChildStates] /\ hand \in [Players -> Moves \cup {None}]
      /\ toPeer \in [Players -> Seq(Moves)]
      /\ his \in [Players -> Moves \cup {None, Garbage}]
  BY DEF PipesInv, TypeOK
<1>3. Round(p) /\ Round(q)
  BY <1>1, RoundsNow
<1>4. Playing(p) /\ Awaited(p) /\ ~NotCalled(p) /\ ~Answered(p)
  BY <1>1, <1>3, Stages DEF Round, Idle, Called, Finished
<1>5. Alive(q) /\ Held(W(ChildPipe[q]))
  <2>1. par # "fork1" /\ par # "fork2"
    BY <1>4 DEF NotCalled
  <2>2. Alive(q)
    BY <1>0, <1>1, <2>1, RoundsNow
  <2> QED BY <1>0, <2>2, Pair, EndsOfPipes DEF PipesInv, Inheritance, Held
<1>6. /\ toPeer[q] # <<>>
      /\ his' = [his EXCEPT ![p] = Head(toPeer[q])]
      /\ toPeer' = [toPeer EXCEPT ![q] = Tail(@)]
  BY <1>5 DEF ChildRecv
<1>7. hand[q] # None /\ toPeer[q] = <<hand[q]>> /\ hand[q] \in Moves
  BY <1>0, <1>2, <1>3, <1>6 DEF Round, InPipe
<1>8. his'[p] = hand[q] /\ toPeer'[q] = <<>> /\ toPeer'[p] = toPeer[p] /\ his'[q] = his[q]
  BY <1>0, <1>2, <1>6, <1>7, OneMessage
<1>9. child'[p] = "report" /\ child'[q] = child[q] /\ hand[p] # None
  BY <1>0, <1>1, <1>2, <1>4 DEF Playing
<1>10. CASE x = p
  <2>1. Playing(p)'
    BY <1>1, <1>4, <1>7, <1>8, <1>9 DEF Playing
  <2>2. InPipe(p)'
    BY <1>1, <1>3, <1>8, <1>9 DEF Round, InPipe, Heard
  <2>3. Awaited(p)' /\ ~NotCalled(p)' /\ ~Answered(p)'
    BY <1>1, <1>4 DEF Awaited, NotCalled, Answered, ParAt
  <2> QED BY <1>1, <1>3, <1>10, <2>1, <2>2, <2>3 DEF Round
<1>11. CASE x = q
  <2>1. InPipe(q)'
    BY <1>0, <1>1, <1>8, <1>9 DEF InPipe, Heard
  <2>2. /\ Idle(q) => Idle(q)'
        /\ Called(q) => Called(q)'
        /\ Playing(q) => Playing(q)'
        /\ \A r \in Seq(Results) : Finished(q, r) => Finished(q, r)'
    BY <1>0, <1>1, <1>8, <1>9 DEF Idle, Called, Playing, Finished
  <2>3. /\ Awaited(q)' <=> Awaited(q)
        /\ NotCalled(q)' <=> NotCalled(q)
        /\ Answered(q)' <=> Answered(q)
    BY <1>1 DEF Awaited, NotCalled, Answered, ParAt
  <2>4. <<Result(q)>> \in Seq(Results) /\ <<>> \in Seq(Results) /\ Result(q)' = Result(q)
    BY <1>1, CheckWinnerType DEF Result
  <2> QED BY <1>1, <1>3, <1>11, <2>1, <2>2, <2>3, <2>4 DEF Round
<1> QED BY <1>0, <1>10, <1>11

\* The result that is sent is that of the two moves of the round.
LEMMA ChildReportRounds == ASSUME PipesInv, NEW p \in Players, ChildReport(p) PROVE Rounds'
<1>1. CASE End(p, "SIGPIPE")
  BY <1>1, DeathRounds DEF PipesInv, Ground
<1>2. CASE /\ toDad' = [toDad EXCEPT ![p] = Append(@, CheckWinner(hand[p], his[p]))]
           /\ child' = [child EXCEPT ![p] = "top"]
           /\ UNCHANGED <<cause, pend, fds>>
  <2> SUFFICES ASSUME NobodyDied', par' \in RoundStates, NEW x \in Players PROVE Round(x)'
    BY DEF Rounds
  <2> DEFINE q == Other(p)
  <2>0. q \in Players /\ q # p /\ Other(q) = p /\ (x = p \/ x = q)
    BY Pair
  <2>1. /\ child[p] = "report"
        /\ UNCHANGED <<par, score, res, toPeer, cause, pend, start, term, hand, his>>
        /\ NobodyDied /\ par \in RoundStates
    BY <1>2 DEF ChildReport, NobodyDied, parVars
  <2>2. child \in [Players -> ChildStates] /\ toDad \in [Players -> Seq(Results)]
    BY DEF PipesInv, TypeOK
  <2>3. Round(p) /\ Round(q)
    BY <2>1, RoundsNow
  <2>4. Playing(p) /\ Awaited(p) /\ ~NotCalled(p) /\ ~Answered(p)
    BY <2>1, <2>3, Stages DEF Round, Idle, Called, Finished
  <2>5. /\ hand[p] # None /\ hand[q] # None /\ his[p] = hand[q] /\ toDad[p] = <<>>
        /\ child'[p] = "top" /\ child'[q] = child[q] /\ toDad'[q] = toDad[q]
    BY <1>2, <2>0, <2>1, <2>2, <2>4 DEF Playing
  <2>6. toDad'[p] = <<Result(p)>> /\ Result(p)' = Result(p) /\ Result(q)' = Result(q)
    <3>1. toDad'[p] = Append(<<>>, Result(p))
      BY <1>2, <2>2, <2>5 DEF Result
    <3> QED BY <2>1, <3>1, CheckWinnerType, OneMessage DEF Result
  <2>7. /\ InPipe(p)' /\ InPipe(q)'
    BY <2>0, <2>1, <2>3, <2>5 DEF Round, InPipe, Heard
  <2>8. /\ Awaited(x)' <=> Awaited(x)
        /\ NotCalled(x)' <=> NotCalled(x)
        /\ Answered(x)' <=> Answered(x)
    BY <2>1 DEF Awaited, NotCalled, Answered, ParAt
  <2>9. CASE x = p
    <3>1. Finished(p, <<Result(p)>>)'
      BY <2>1, <2>4, <2>5, <2>6 DEF Finished, Playing
    <3> QED BY <2>1, <2>3, <2>4, <2>7, <2>8, <2>9, <3>1 DEF Round
  <2>10. CASE x = q
    <3>1. /\ Idle(q) => Idle(q)'
          /\ Called(q) => Called(q)'
          /\ Playing(q) => Playing(q)'
          /\ \A r : Finished(q, r) => Finished(q, r)'
      BY <2>0, <2>1, <2>5 DEF Idle, Called, Playing, Finished
    <3> QED BY <2>1, <2>3, <2>6, <2>7, <2>8, <2>10, <3>1 DEF Round
  <2> QED BY <2>0, <2>9, <2>10
<1> QED BY <1>1, <1>2 DEF ChildReport
-----------------------------------------------------------------------------
(***************************************************************************)
(* The theorems                                                            *)
(***************************************************************************)
LEMMA InitInv == Init => PipesInv
BY InitGround, InitRounds DEF PipesInv, Ground

LEMMA NextInv == ASSUME PipesInv, [Next]_vars PROVE PipesInv'
<1> SUFFICES Ground' /\ Rounds'
  BY DEF PipesInv, Ground
<1>1. Ground
  BY DEF PipesInv, Ground
<1>2. CASE UNCHANGED vars
  BY <1>1, <1>2
     DEF vars, PipesInv, Ground, TypeOK, Inheritance, Births, Alive, Rounds, NobodyDied, Round,
         InPipe, Heard, NotCalled, Awaited, Answered, ParAt, Idle, Called, Playing, Finished, Result
<1>3. CASE ParStep
  <2>1. CASE ParClose \/ ParScore
    BY <1>1, <2>1, ParentStepGround, ParentStepRounds, ParScoreGround, ParScoreRounds
  <2>2. ASSUME NEW p \in Players,
               ParFork(p) \/ ParSignal(p) \/ ParRead(p) \/ ParTerminate(p) \/ ParWait(p)
        PROVE  Ground' /\ Rounds'
    <3>1. CASE ParFork(p) \/ ParSignal(p) \/ ParRead(p)
      BY <1>1, <3>1, ParForkGround, ParForkRounds, ParentStepGround, ParSignalRounds,
         ParReadGround, ParReadRounds
    <3>2. CASE ParTerminate(p) \/ ParWait(p)
      <4>1. Ground'
        BY <1>1, <3>2, ParentStepGround, ParWaitGround
      <4>2. par' \notin RoundStates
        BY <3>2 DEF ParTerminate, ParWait, RoundStates
      <4> QED BY <4>1, <4>2 DEF Rounds
    <3> QED BY <2>2, <3>1, <3>2
  <2> QED BY <1>3, <2>1, <2>2 DEF ParStep
<1>4. ASSUME NEW p \in Players, ChildStep(p) PROVE Ground' /\ Rounds'
  <2>1. CASE ChildSetup(p) \/ ChildReady(p) \/ ChildPause(p)
    BY <1>1, <2>1, ChildSetupGround, ChildQuietGround, ChildQuietRounds
  <2>2. CASE ChildCheck(p) \/ ChildSend(p)
    BY <1>1, <2>2, ChildCheckGround, ChildCheckRounds, ChildSendGround, ChildSendRounds
  <2>3. CASE ChildRecv(p) \/ ChildReport(p)
    BY <1>1, <2>3, ChildRecvGround, ChildRecvRounds, ChildReportGround, ChildReportRounds
  <2>4. ASSUME NEW sig \in Signals, Deliver(p, sig) PROVE Ground' /\ Rounds'
    BY <1>1, <2>4, DeliverGround, DeliverRounds
  <2> QED BY <1>4, <2>1, <2>2, <2>3, <2>4 DEF ChildStep
<1>5. CASE User
  <2>1. CASE ParPrompt \/ ParKilled
    BY <1>1, <2>1, ParentStepGround, ParentStepRounds
  <2>2. ASSUME NEW p \in Players, ChildKilled(p) PROVE Ground' /\ Rounds'
    BY <1>1, <2>2, ChildKilledGround, DeathRounds DEF ChildKilled
  <2> QED BY <1>5, <2>1, <2>2 DEF User
<1> QED BY <1>2, <1>3, <1>4, <1>5 DEF Next

\* At each step of the parent: who has been told to play, who has played and
\* where the messages are; a living child holds the pipe ends it needs
\* (my_rps.c:79-110, 138-237).
THEOREM RoundsInStep == Spec => []PipesInv
<1> QED BY InitInv, NextInv, PTL DEF Spec

\* Every variable keeps the type of its C declaration and the scores never
\* pass WIN_SCORE, whichever processes die (my_rps.c:179-246).
THEOREM TypesKept == Spec => []TypeOK
<1>1. PipesInv => TypeOK
  BY DEF PipesInv
<1> QED BY <1>1, RoundsInStep, PTL

\* When the parent scores a round and no child has died, the results are those
\* of the two moves of this very round, for any WIN_SCORE and however signals,
\* pipes and processes interleave (my_rps.c:200-237).
THEOREM ScoredThisRound == Spec => []ResultsOfThisRound
<1>1. PipesInv => ResultsOfThisRound
  <2> SUFFICES ASSUME PipesInv, par = "score", NobodyDied, NEW p \in Players
               PROVE  hand[p] # None /\ res[p] = CheckWinner(hand[p], hand[Other(p)])
    BY DEF ResultsOfThisRound
  <2>1. Round(p) /\ Answered(p)
    BY RoundsNow DEF RoundStates, Answered
  <2> QED BY <2>1 DEF Round, Finished, Result
<1> QED BY <1>1, RoundsInStep, PTL
=============================================================================
