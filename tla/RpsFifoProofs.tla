--------------------------- MODULE RpsFifoProofs ----------------------------
(***************************************************************************)
(* Theorems about RpsFifo for every WIN_SCORE and any number of restarts   *)
(* of the clients.                                                         *)
(***************************************************************************)
EXTENDS RpsFifo, SequenceTheorems, TLAPS

\* The result is one of the three codes.
LEMMA CheckWinnerType ==
    \A m, h : CheckWinner(m, h) \in Results
BY DEF CheckWinner, Results, LOST, WON, TIE

\* The two ends of a round compute complementary results.
LEMMA CheckWinnerPair ==
    ASSUME NEW m \in Moves, NEW h \in Moves
    PROVE  Verdict(CheckWinner(m, h), CheckWinner(h, m)) # "cheating"
BY SMT DEF Verdict, CheckWinner, Winning, Moves, ROCK, PAPER, SCISSORS, LOST, WON, TIE

\* Words and sequences of words survive what the processes do to the fifos.
LEMMA WordsType ==
    /\ Results \subseteq Words
    /\ \A k \in 1..MaxInc : PidOf(k) \in Words
BY DEF Words

\* The first word of a fifo and what is left when it has been read.
LEMMA TailType ==
    ASSUME NEW S, NEW s \in Seq(S), s # <<>>
    PROVE  Head(s) \in S /\ Tail(s) \in Seq(S)
OBVIOUS

\* A pid is added to a fifo.
LEMMA AppendType ==
    ASSUME NEW S, NEW s \in Seq(S), NEW x \in S
    PROVE  Append(s, x) \in Seq(S)
OBVIOUS

\* A ResultMsg is added to a fifo: two words.
LEMMA ConcatType ==
    ASSUME NEW S, NEW s \in Seq(S), NEW x \in S, NEW y \in S
    PROVE  s \o <<x, y>> \in Seq(S)
OBVIOUS

\* A ResultMsg is taken from a fifo: the second word is the result.
LEMMA DropType ==
    ASSUME NEW S, NEW s \in Seq(S), Len(s) >= 2
    PROVE  s[2] \in S /\ SubSeq(s, 3, Len(s)) \in Seq(S)
<1>1. s[2] \in S
  BY LenProperties
<1>2. SubSeq(s, 3, Len(s)) \in Seq(S)
  BY LenProperties, SubSeqProperties
<1> QED BY <1>1, <1>2
-----------------------------------------------------------------------------
(***************************************************************************)
(* Types, and the scores                                                   *)
(***************************************************************************)

\* TypeOK alone is not inductive: a point is given only below WIN_SCORE.
TypeInv == TypeOK /\ ScoreInv

USE DEF Players, Other

\* The declarations initialise every variable with a value of its type.
LEMMA InitTypeInv == Init => TypeInv
<1> SUFFICES ASSUME Init PROVE TypeInv
  OBVIOUS
<1>1. TypeOK
  BY WinScoreAssumption, MaxIncAssumption
  DEF Init, TypeOK, SrvStates, CliStates, Words, Results, LOST
<1>2. ScoreInv
  BY WinScoreAssumption DEF Init, ScoreInv
<1> QED BY <1>1, <1>2 DEF TypeInv

\* Closing a fifo empties it or leaves it alone.
LEMMA RetainType ==
    ASSUME TypeOK, NEW server \in BOOLEAN, NEW clients, Retain(server, clients)
    PROVE  toSrv' \in [Players -> Seq(Words)] /\ toPeer' \in [Players -> Seq(Moves)]
BY DEF TypeOK, Retain

\* A client that leaves main() keeps the types.
LEMMA ExitType ==
    ASSUME TypeOK, NEW p \in Players, Exit(p)
    PROVE  /\ toSrv' \in [Players -> Seq(Words)] /\ toPeer' \in [Players -> Seq(Moves)]
           /\ cli' \in [Players -> CliStates]
           /\ pend' \in [Players -> SUBSET Signals]
<1>1. SrvOpen \in BOOLEAN
  BY DEF SrvOpen
<1>2. toSrv' \in [Players -> Seq(Words)] /\ toPeer' \in [Players -> Seq(Moves)]
  BY <1>1, RetainType DEF Exit
<1>3. cli' \in [Players -> CliStates] /\ pend' \in [Players -> SUBSET Signals]
  BY DEF Exit, TypeOK, CliStates
<1> QED BY <1>2, <1>3

\* kill() adds a signal to those pending, or does nothing.
LEMMA KillType ==
    ASSUME TypeOK, NEW p \in Players, NEW sig \in Signals, Kill(p, sig)
    PROVE  pend' \in [Players -> SUBSET Signals]
BY DEF TypeOK, Kill

\* Every step of the server keeps the types and the bound on the scores.
LEMMA SrvStepType == TypeInv /\ SrvStep => TypeInv'
<1> SUFFICES ASSUME TypeInv, SrvStep PROVE TypeInv'
  OBVIOUS
<1> USE DEF TypeInv
<1>1. CASE SrvSetup
  BY <1>1 DEF SrvSetup, TypeOK, ScoreInv, Ending, SrvStates, fifos, cliVars
<1>2. ASSUME NEW p \in Players, SrvRegister(p) PROVE TypeInv'
  <2>1. Head(toSrv[p]) \in Words /\ Tail(toSrv[p]) \in Seq(Words)
    BY <1>2, TailType DEF SrvRegister, TypeOK
  <2>2. TypeOK'
    BY <1>2, <2>1 DEF SrvRegister, TypeOK, SrvStates, cliVars
  <2>3. ScoreInv'
    BY <1>2 DEF SrvRegister, ScoreInv, Ending
  <2> QED BY <2>2, <2>3
<1>3. ASSUME NEW p \in Players, SrvSignal(p) PROVE TypeInv'
  <2>1. pend' \in [Players -> SUBSET Signals]
    BY <1>3, KillType DEF SrvSignal, Signals
  <2>2. TypeOK'
    BY <1>3, <2>1 DEF SrvSignal, TypeOK, SrvStates, fifos
  <2>3. ScoreInv'
    BY <1>3 DEF SrvSignal, ScoreInv, Ending
  <2> QED BY <2>2, <2>3
<1>4. ASSUME NEW p \in Players, SrvRead(p) PROVE TypeInv'
  <2>1. CASE Len(toSrv[p]) = 1 /\ toSrv' = [toSrv EXCEPT ![p] = <<>>]
             /\ srv' = "term1" /\ UNCHANGED res
    BY <1>4, <2>1 DEF SrvRead, TypeOK, ScoreInv, Ending, SrvStates, cliVars
  <2>2. CASE /\ Len(toSrv[p]) >= 2
             /\ res' = [res EXCEPT ![p] = toSrv[p][2]]
             /\ toSrv' = [toSrv EXCEPT ![p] = SubSeq(@, 3, Len(@))]
             /\ srv' = AfterResult(p)
    <3>1. toSrv[p][2] \in Words /\ SubSeq(toSrv[p], 3, Len(toSrv[p])) \in Seq(Words)
      BY <2>2, DropType DEF TypeOK
    <3>2. TypeOK'
      BY <1>4, <2>2, <3>1 DEF SrvRead, AfterResult, TypeOK, SrvStates, cliVars
    <3>3. ScoreInv'
      BY <1>4, <2>2 DEF SrvRead, AfterResult, ScoreInv, Ending
    <3> QED BY <3>2, <3>3
  <2> QED BY <1>4, <2>1, <2>2 DEF SrvRead
<1>5. ASSUME NEW p \in Players, SrvTerminate(p) PROVE TypeInv'
  <2>1. pend' \in [Players -> SUBSET Signals]
    BY <1>5, KillType DEF SrvTerminate, Signals
  <2>2. TypeOK'
    BY <1>5, <2>1 DEF SrvTerminate, TypeOK, SrvStates, fifos
  <2>3. ScoreInv'
    BY <1>5 DEF SrvTerminate, ScoreInv, Ending
  <2> QED BY <2>2, <2>3
<1>6. CASE SrvJudge
  <2>1. \A p \in Players : score[p] \in 0..WinScore /\ score[p] < WinScore
    BY <1>6 DEF SrvJudge, TypeOK, ScoreInv, Ending
  <2>2. score' = score \/ \E p \in Players : score' = [score EXCEPT ![p] = @ + 1]
    BY <1>6 DEF SrvJudge
  <2>3. score' \in [Players -> 0..WinScore]
    BY <2>1, <2>2, WinScoreAssumption DEF TypeOK
  <2>4. TypeOK'
    BY <1>6, <2>3 DEF SrvJudge, TypeOK, SrvStates, fifos
  <2>5. ScoreInv'
    BY <1>6, <2>1 DEF SrvJudge, GoesOn, ScoreInv, Ending
  <2> QED BY <2>4, <2>5
<1>7. CASE SrvClose
  <2>1. toSrv' \in [Players -> Seq(Words)] /\ toPeer' \in [Players -> Seq(Moves)]
    BY <1>7, RetainType DEF SrvClose
  <2>2. TypeOK'
    BY <1>7, <2>1 DEF SrvClose, TypeOK, SrvStates, cliVars
  <2>3. ScoreInv'
    BY <1>7 DEF SrvClose, ScoreInv, Ending
  <2> QED BY <2>2, <2>3
<1> QED BY <1>1, <1>2, <1>3, <1>4, <1>5, <1>6, <1>7 DEF SrvStep

\* Every step of a client keeps the types.
LEMMA CliStepType ==
    ASSUME TypeInv, NEW p \in Players, CliStep(p)
    PROVE  TypeInv'
<1> USE DEF TypeInv
<1>1. UNCHANGED srvVars
  BY DEF CliStep, CliRegister, CliPause, CliCheck, CliSend, CliRecv, CliReport, Deliver
<1>2. ScoreInv'
  BY <1>1 DEF ScoreInv, Ending, srvVars
<1> SUFFICES TypeOK'
  BY <1>2
<1>3. CASE CliRegister(p)
  <2>1. inc[p] \in 1..MaxInc
    BY DEF TypeOK
  <2>2. PidOf(inc[p]) \in Words
    BY <2>1, WordsType
  <2>3. Append(toSrv[p], PidOf(inc[p])) \in Seq(Words)
    BY <2>2, AppendType DEF TypeOK
  <2>4. CASE ~SrvOpen /\ Exit(p)
    BY <1>3, <2>4, ExitType DEF CliRegister, TypeOK, srvVars
  <2>5. CASE /\ toSrv' = [toSrv EXCEPT ![p] = Append(@, PidOf(inc[p]))]
             /\ cli' = [cli EXCEPT ![p] = "top"]
             /\ UNCHANGED <<toPeer, pend>>
    BY <1>3, <2>3, <2>5 DEF CliRegister, TypeOK, srvVars, CliStates
  <2> QED BY <1>3, <2>4, <2>5 DEF CliRegister
<1>4. CASE CliPause(p)
  BY <1>4 DEF CliPause, TypeOK, srvVars, fifos, CliStates
<1>5. CASE CliCheck(p)
  <2>1. CASE term[p] /\ Exit(p) /\ UNCHANGED start
    BY <1>5, <2>1, ExitType DEF CliCheck, TypeOK, srvVars
  <2>2. CASE ~term[p]
    <3>1. cli' = [cli EXCEPT ![p] = "send"] \/ cli' = [cli EXCEPT ![p] = "top"]
      BY <1>5, <2>2, Zenon DEF CliCheck
    <3>2. cli' \in [Players -> CliStates]
      BY <3>1 DEF TypeOK, CliStates
    <3>3. start' = [start EXCEPT ![p] = FALSE] /\ UNCHANGED <<fifos, pend>>
      BY <1>5, <2>2 DEF CliCheck
    <3>4. UNCHANGED <<srvVars, inc, term, hand, his>>
      BY <1>5 DEF CliCheck
    <3> QED BY <3>2, <3>3, <3>4 DEF TypeOK, srvVars, fifos
  <2> QED BY <1>5, <2>1, <2>2 DEF CliCheck
<1>6. CASE CliSend(p)
  <2>1. PICK m \in Moves :
          /\ hand' = [hand EXCEPT ![p] = m]
          /\ \/ /\ PeerReader(p)
                /\ toPeer' = [toPeer EXCEPT ![p] = Append(@, m)]
                /\ cli' = [cli EXCEPT ![p] = "recv"]
                /\ UNCHANGED <<toSrv, pend>>
             \/ ~PeerReader(p) /\ Exit(p)
    BY <1>6 DEF CliSend
  <2>2. Append(toPeer[p], m) \in Seq(Moves)
    BY AppendType DEF TypeOK
  <2>3. CASE ~PeerReader(p) /\ Exit(p)
    BY <1>6, <2>1, <2>3, ExitType DEF CliSend, TypeOK, srvVars
  <2>4. CASE /\ toPeer' = [toPeer EXCEPT ![p] = Append(@, m)]
             /\ cli' = [cli EXCEPT ![p] = "recv"]
             /\ UNCHANGED <<toSrv, pend>>
    BY <1>6, <2>1, <2>2, <2>4 DEF CliSend, TypeOK, srvVars, CliStates
  <2> QED BY <2>1, <2>3, <2>4
<1>7. CASE CliRecv(p)
  <2>1. CASE toPeer[Other(p)] = <<>> /\ Exit(p) /\ UNCHANGED his
    BY <1>7, <2>1, ExitType DEF CliRecv, TypeOK, srvVars
  <2>2. CASE /\ toPeer[Other(p)] # <<>>
             /\ his' = [his EXCEPT ![p] = Head(toPeer[Other(p)])]
             /\ toPeer' = [toPeer EXCEPT ![Other(p)] = Tail(@)]
             /\ cli' = [cli EXCEPT ![p] = "report"]
             /\ UNCHANGED <<toSrv, pend>>
    <3>1. Head(toPeer[Other(p)]) \in Moves /\ Tail(toPeer[Other(p)]) \in Seq(Moves)
      BY <2>2, TailType DEF TypeOK
    <3> QED BY <1>7, <2>2, <3>1 DEF CliRecv, TypeOK, srvVars, CliStates
  <2> QED BY <1>7, <2>1, <2>2 DEF CliRecv
<1>8. CASE CliReport(p)
  <2>1. inc[p] \in 1..MaxInc
    BY DEF TypeOK
  <2>2. PidOf(inc[p]) \in Words /\ CheckWinner(hand[p], his[p]) \in Words
    BY <2>1, WordsType, CheckWinnerType
  <2>3. toSrv[p] \o <<PidOf(inc[p]), CheckWinner(hand[p], his[p])>> \in Seq(Words)
    BY <2>2, ConcatType DEF TypeOK
  <2>4. CASE ~SrvOpen /\ Exit(p)
    BY <1>8, <2>4, ExitType DEF CliReport, TypeOK, srvVars
  <2>5. CASE /\ toSrv' = [toSrv EXCEPT ![p] =
                   @ \o <<PidOf(inc[p]), CheckWinner(hand[p], his[p])>>]
             /\ cli' = [cli EXCEPT ![p] = "top"]
             /\ UNCHANGED <<toPeer, pend>>
    BY <1>8, <2>3, <2>5 DEF CliReport, TypeOK, srvVars, CliStates
  <2> QED BY <1>8, <2>4, <2>5 DEF CliReport
<1>9. ASSUME NEW sig \in Signals, Deliver(p, sig) PROVE TypeOK'
  <2>1. start' \in [Players -> BOOLEAN] /\ term' \in [Players -> BOOLEAN]
    BY <1>9 DEF Deliver, TypeOK
  <2>2. CASE BlockedInRead(p) /\ Exit(p)
    BY <1>9, <2>1, <2>2, ExitType DEF Deliver, TypeOK, srvVars
  <2>3. CASE ~BlockedInRead(p)
    BY <1>9, <2>1, <2>3 DEF Deliver, TypeOK, srvVars, fifos, CliStates
  <2> QED BY <1>9, <2>2, <2>3 DEF Deliver
<1> QED BY <1>3, <1>4, <1>5, <1>6, <1>7, <1>8, <1>9 DEF CliStep

\* What the users do keeps the types.
LEMMA UserType == TypeInv /\ User => TypeInv'
<1> SUFFICES ASSUME TypeInv, User PROVE TypeInv'
  OBVIOUS
<1> USE DEF TypeInv
<1>1. CASE SrvEnter
  BY <1>1 DEF SrvEnter, TypeOK, ScoreInv, Ending, SrvStates, fifos, cliVars
<1>2. CASE SrvCrash
  <2>1. toSrv' \in [Players -> Seq(Words)] /\ toPeer' \in [Players -> Seq(Moves)]
    BY <1>2, RetainType DEF SrvCrash
  <2>2. TypeOK' /\ ScoreInv'
    BY <1>2, <2>1 DEF SrvCrash, TypeOK, ScoreInv, SrvStates, cliVars
  <2> QED BY <2>2
<1>3. ASSUME NEW p \in Players, CliOpen(p) PROVE TypeInv'
  BY <1>3 DEF CliOpen, TypeOK, ScoreInv, Ending, CliStates, fifos, srvVars
<1>4. ASSUME NEW p \in Players, CliCrash(p) PROVE TypeInv'
  <2>1. SrvOpen \in BOOLEAN
    BY DEF SrvOpen
  <2>2. toSrv' \in [Players -> Seq(Words)] /\ toPeer' \in [Players -> Seq(Moves)]
    BY <1>4, <2>1, RetainType DEF CliCrash
  <2>3. inc' \in [Players -> 1..MaxInc]
    BY <1>4, MaxIncAssumption DEF CliCrash, TypeOK
  <2>4. TypeOK'
    BY <1>4, <2>2, <2>3 DEF CliCrash, TypeOK, srvVars, CliStates
  <2>5. ScoreInv'
    BY <1>4 DEF CliCrash, ScoreInv, Ending, srvVars
  <2> QED BY <2>4, <2>5
<1> QED BY <1>1, <1>2, <1>3, <1>4 DEF User

\* The variables of the server and of both clients always have the types of
\* the C declarations, and no score ever passes WIN_SCORE, whoever is killed
\* and however often the clients are started again.
THEOREM TypeCorrect == Spec => [](TypeOK /\ ScoreInv)
<1>1. Init => TypeInv
  BY InitTypeInv
<1>2. TypeInv /\ [Next]_vars => TypeInv'
  <2> SUFFICES ASSUME TypeInv, [Next]_vars PROVE TypeInv'
    OBVIOUS
  <2>1. CASE Next
    BY <2>1, SrvStepType, CliStepType, UserType DEF Next
  <2>2. CASE UNCHANGED vars
    BY <2>2 DEF vars, TypeInv, TypeOK, ScoreInv, Ending
  <2> QED BY <2>1, <2>2
<1> QED BY <1>1, <1>2, PTL DEF Spec, TypeInv
-----------------------------------------------------------------------------
(***************************************************************************)
(* A match in which nobody is killed                                       *)
(***************************************************************************)

ClientInv(p) == Registering(p) /\ Waiting(p) /\ Playing(p) /\ Exchange(p)

\* The sequences that occur in the fifos of such a match.
LEMMA ShortSeqs ==
    /\ Len(<<>>) = 0
    /\ \A a : <<a>> # <<>> /\ Head(<<a>>) = a /\ Tail(<<a>>) = <<>> /\ Append(<<>>, a) = <<a>>
    /\ \A a : Len(<<a>>) = 1
    /\ \A a, b : Len(<<a, b>>) = 2 /\ <<a, b>>[2] = b /\ <<a, b>> # <<>>
    /\ \A a, b : SubSeq(<<a, b>>, 3, Len(<<a, b>>)) = <<>>
    /\ \A a, b : <<>> \o <<a, b>> = <<a, b>>
<1>1. \A a, b : SubSeq(<<a, b>>, 3, Len(<<a, b>>)) = <<>>
  <2> TAKE a, b
  <2>1. Len(<<a, b>>) = 2
    OBVIOUS
  <2> QED BY <2>1, SubSeqEmpty
<1>2. \A a, b : <<>> \o <<a, b>> = <<a, b>>
  <2> TAKE a, b
  <2>1. <<a, b>> \in Seq({a, b})
    OBVIOUS
  <2> QED BY <2>1, ConcatEmptySeq
<1> QED BY <1>1, <1>2

\* Who has been killed stays killed.
LEMMA NoCrashBefore ==
    ASSUME TypeOK, [Next]_vars, NoCrash'
    PROVE  NoCrash
<1> SUFFICES srv # "crashed" /\ \A p \in Players : inc[p] = inc'[p]
  BY DEF NoCrash
<1>1. CASE SrvStep
  <2>1. srv # "crashed"
    BY <1>1 DEF SrvStep, SrvSetup, SrvRegister, SrvSignal, SrvRead, SrvJudge, SrvTerminate, SrvClose
  <2>2. inc' = inc
    BY <1>1 DEF SrvStep, SrvSetup, SrvRegister, SrvSignal, SrvRead, SrvJudge, SrvTerminate,
       SrvClose, cliVars
  <2> QED BY <2>1, <2>2
<1>2. ASSUME NEW p \in Players, CliStep(p)
      PROVE  srv # "crashed" /\ inc' = inc
  <2>1. srv' = srv /\ inc' = inc
    BY <1>2 DEF CliStep, CliRegister, CliPause, CliCheck, CliSend, CliRecv, CliReport, Deliver,
       srvVars
  <2> QED BY <2>1 DEF NoCrash
<1>3. ASSUME NEW p \in Players, CliCrash(p) PROVE FALSE
  <2>1. inc[p] \in 1..MaxInc /\ inc'[p] = inc[p] + 1
    BY <1>3 DEF CliCrash, TypeOK
  <2>2. inc'[p] = 1
    BY DEF NoCrash
  <2> QED BY <2>1, <2>2, MaxIncAssumption
<1>4. ASSUME NEW p \in Players, CliOpen(p) PROVE srv # "crashed" /\ inc' = inc
  BY <1>4 DEF CliOpen, SrvOpen
<1>5. CASE SrvEnter
  BY <1>5 DEF SrvEnter, cliVars
<1>6. ~SrvCrash
  BY DEF SrvCrash, NoCrash
<1>7. CASE UNCHANGED vars
  <2>1. srv' = srv /\ inc' = inc
    BY <1>7 DEF vars
  <2> QED BY <2>1 DEF NoCrash
<1> QED BY <1>1, <1>2, <1>3, <1>4, <1>5, <1>6, <1>7 DEF Next, User

\* Before the server has started no client has done anything.
LEMMA InitClientInv ==
    ASSUME Init, NEW p \in Players
    PROVE  ClientInv(p)
BY DEF Init, ClientInv, Registering, Waiting, Playing, Exchange, PidRead, InRound, Consumed,
   Ending, Played, Told, Reported

\* Opening the three fifos, before the server knows the pid.
LEMMA OpenClientInv ==
    ASSUME TypeOK, NoCrash, \A q \in Players : ClientInv(q), NEW p \in Players, CliOpen(p)
    PROVE  \A q \in Players : ClientInv(q)'
<1> SUFFICES ASSUME NEW q \in Players PROVE ClientInv(q)'
  OBVIOUS
<1>1. /\ \A r \in Players : cli'[r] = IF r = p THEN "register" ELSE cli[r]
      /\ cli[p] = "off" /\ srv \notin {"setup", "failed"}
      /\ UNCHANGED <<srv, pid, res, score, toSrv, toPeer, inc, pend, start, term, hand, his>>
  BY DEF CliOpen, SrvOpen, TypeOK, srvVars, fifos
<1> USE DEF PidRead, InRound, Consumed, Ending, Played, Told, Reported
<1>2. Registering(q)'
  BY <1>1 DEF ClientInv, Registering
<1>3. Waiting(q)'
  BY <1>1 DEF ClientInv, Waiting
<1>4. Playing(q)'
  BY <1>1 DEF ClientInv, Playing
<1>5. Exchange(q)'
  BY <1>1 DEF ClientInv, Exchange
<1> QED BY <1>2, <1>3, <1>4, <1>5 DEF ClientInv

\* A client registers only while the server is there to read its pid.
LEMMA RegisterClientInv ==
    ASSUME TypeOK, NoCrash, \A q \in Players : ClientInv(q), NEW p \in Players, CliRegister(p)
    PROVE  \A q \in Players : ClientInv(q)'
<1> SUFFICES ASSUME NEW q \in Players PROVE ClientInv(q)'
  OBVIOUS
<1>1. ~PidRead(p) /\ srv \notin {"setup", "failed"} /\ toSrv[p] = <<>>
  BY DEF CliRegister, ClientInv, Registering, Waiting, Playing, PidRead, InRound, Consumed, Ending, Played, Told, Reported
<1>2. SrvOpen
  BY <1>1 DEF SrvOpen, NoCrash, PidRead
<1>3. /\ \A r \in Players : cli'[r] = IF r = p THEN "top" ELSE cli[r]
      /\ \A r \in Players : toSrv'[r] = IF r = p THEN <<PidOf(inc[p])>> ELSE toSrv[r]
      /\ cli[p] = "register"
      /\ UNCHANGED <<srv, pid, res, score, toPeer, inc, pend, start, term, hand, his>>
  BY <1>1, <1>2, ShortSeqs DEF CliRegister, TypeOK, srvVars
<1> USE DEF PidRead, InRound, Consumed, Ending, Played, Told, Reported
<1>4. Registering(q)'
  BY <1>1, <1>2, <1>3 DEF ClientInv, Registering
<1>5. Waiting(q)'
  BY <1>1, <1>2, <1>3 DEF ClientInv, Waiting
<1>6. Playing(q)'
  BY <1>1, <1>2, <1>3 DEF ClientInv, Playing
<1>7. Exchange(q)'
  BY <1>1, <1>2, <1>3 DEF ClientInv, Exchange
<1> QED BY <1>4, <1>5, <1>6, <1>7 DEF ClientInv

\* Entering pause() changes nothing that is shared.
LEMMA PauseClientInv ==
    ASSUME TypeOK, NoCrash, \A q \in Players : ClientInv(q), NEW p \in Players, CliPause(p)
    PROVE  \A q \in Players : ClientInv(q)'
<1> SUFFICES ASSUME NEW q \in Players PROVE ClientInv(q)'
  OBVIOUS
<1>1. /\ \A r \in Players : cli'[r] = IF r = p THEN "paused" ELSE cli[r]
      /\ cli[p] = "top"
      /\ UNCHANGED <<srv, pid, res, score, toSrv, toPeer, inc, pend, start, term, hand, his>>
  BY DEF CliPause, TypeOK, srvVars, fifos
<1> USE DEF PidRead, InRound, Consumed, Ending, Played, Told, Reported
<1>2. Registering(q)'
  BY <1>1 DEF ClientInv, Registering
<1>3. Waiting(q)'
  BY <1>1 DEF ClientInv, Waiting
<1>4. Playing(q)'
  BY <1>1 DEF ClientInv, Playing
<1>5. Exchange(q)'
  BY <1>1 DEF ClientInv, Exchange
<1> QED BY <1>2, <1>3, <1>4, <1>5 DEF ClientInv

\* When the match is over the fifos are empty, so closing one loses nothing.
LEMMA EndingEmpty ==
    ASSUME \A q \in Players : ClientInv(q), Ending
    PROVE  \A q \in Players : toSrv[q] = <<>> /\ toPeer[q] = <<>>
BY DEF ClientInv, Waiting, Exchange, PidRead, InRound, Consumed, Ending, Played, Told, Reported

\* A close() of empty fifos.
LEMMA RetainEmpty ==
    ASSUME TypeOK, \A q \in Players : toSrv[q] = <<>> /\ toPeer[q] = <<>>,
           NEW server \in BOOLEAN, NEW clients, Retain(server, clients)
    PROVE  toSrv' = toSrv /\ toPeer' = toPeer
BY DEF Retain, TypeOK

\* A client leaves main() only when the match is over.
LEMMA ExitClientInv ==
    ASSUME TypeOK, NoCrash, \A q \in Players : ClientInv(q), NEW p \in Players, term[p], CliCheck(p)
    PROVE  \A q \in Players : ClientInv(q)'
<1> SUFFICES ASSUME NEW q \in Players PROVE ClientInv(q)'
  OBVIOUS
<1>1. Ending
  BY DEF CliCheck, ClientInv, Registering, Waiting, Playing, PidRead, InRound, Consumed, Ending, Played, Told, Reported
<1>2. toSrv' = toSrv /\ toPeer' = toPeer
  <2>1. SrvOpen \in BOOLEAN /\ Exit(p)
    BY DEF CliCheck, SrvOpen
  <2> QED BY <1>1, <2>1, EndingEmpty, RetainEmpty DEF Exit
<1>3. /\ \A r \in Players : cli'[r] = IF r = p THEN "gone" ELSE cli[r]
      /\ \A r \in Players : pend'[r] = IF r = p THEN {} ELSE pend[r]
      /\ UNCHANGED <<srv, pid, res, score, inc, start, term, hand, his>>
  BY DEF CliCheck, Exit, TypeOK, srvVars
<1> USE DEF PidRead, InRound, Consumed, Ending, Played, Told, Reported
<1>4. Registering(q)'
  BY <1>1, <1>2, <1>3 DEF ClientInv, Registering
<1>5. Waiting(q)'
  BY <1>1, <1>2, <1>3 DEF ClientInv, Waiting
<1>6. Playing(q)'
  BY <1>1, <1>2, <1>3 DEF ClientInv, Playing
<1>7. Exchange(q)'
  BY <1>1, <1>2, <1>3 DEF ClientInv, Exchange
<1> QED BY <1>4, <1>5, <1>6, <1>7 DEF ClientInv

\* The flags are tested: on to the move, or back to pause().
LEMMA CheckClientInv ==
    ASSUME TypeOK, NoCrash, \A q \in Players : ClientInv(q), NEW p \in Players, ~term[p], CliCheck(p)
    PROVE  \A q \in Players : ClientInv(q)'
<1> SUFFICES ASSUME NEW q \in Players PROVE ClientInv(q)'
  OBVIOUS
<1>1. /\ \A r \in Players : cli'[r] = IF r = p THEN IF start[p] THEN "send" ELSE "top" ELSE cli[r]
      /\ \A r \in Players : start'[r] = IF r = p THEN FALSE ELSE start[r]
      /\ cli[p] = "check"
      /\ UNCHANGED <<srv, pid, res, score, toSrv, toPeer, inc, pend, term, hand, his>>
  BY DEF CliCheck, TypeOK, srvVars, fifos
<1> USE DEF PidRead, InRound, Consumed, Ending, Played, Told, Reported
<1>2. Registering(q)'
  BY <1>1 DEF ClientInv, Registering
<1>3. Waiting(q)'
  BY <1>1 DEF ClientInv, Waiting
<1>4. Playing(q)'
  BY <1>1 DEF ClientInv, Playing
<1>5. Exchange(q)'
  BY <1>1 DEF ClientInv, Exchange
<1> QED BY <1>2, <1>3, <1>4, <1>5 DEF ClientInv

\* The other client cannot have read a move that is not sent yet.
LEMMA SendClientInv ==
    ASSUME TypeOK, NoCrash, \A q \in Players : ClientInv(q), NEW p \in Players, CliSend(p)
    PROVE  \A q \in Players : ClientInv(q)'
<1> SUFFICES ASSUME NEW q \in Players PROVE ClientInv(q)'
  OBVIOUS
<1>1. InRound(p) /\ ~Played(p) /\ ~Told(p) /\ ~Told(Other(p))
  BY DEF CliSend, ClientInv, Registering, Waiting, Playing, Exchange, PidRead, InRound, Consumed, Ending, Played, Told, Reported
<1>2. toPeer[p] = <<>>
  BY <1>1 DEF ClientInv, Exchange
<1>3. PeerReader(p)
  BY <1>1 DEF PeerReader, SrvOpen, InRound
<1>4. PICK m \in Moves : hand' = [hand EXCEPT ![p] = m] /\ toPeer' = [toPeer EXCEPT ![p] = Append(@, m)]
        /\ cli' = [cli EXCEPT ![p] = "recv"] /\ UNCHANGED <<toSrv, pend>>
  BY <1>3 DEF CliSend
<1>5. /\ \A r \in Players : hand'[r] = IF r = p THEN m ELSE hand[r]
      /\ \A r \in Players : toPeer'[r] = IF r = p THEN <<m>> ELSE toPeer[r]
      /\ \A r \in Players : cli'[r] = IF r = p THEN "recv" ELSE cli[r]
      /\ m # None /\ cli[p] = "send"
      /\ UNCHANGED <<srv, pid, res, score, toSrv, inc, pend, start, term, his>>
  BY <1>2, <1>4, ShortSeqs, NoneAssumption DEF CliSend, TypeOK, srvVars
<1> USE DEF PidRead, InRound, Consumed, Ending, Played, Told, Reported
<1>6. Registering(q)'
  BY <1>1, <1>2, <1>3, <1>4, <1>5 DEF ClientInv, Registering
<1>7. Waiting(q)'
  BY <1>1, <1>2, <1>3, <1>4, <1>5 DEF ClientInv, Waiting
<1>8. Playing(q)'
  BY <1>1, <1>2, <1>3, <1>4, <1>5 DEF ClientInv, Playing
<1>9. Exchange(q)'
  BY <1>1, <1>2, <1>3, <1>4, <1>5 DEF ClientInv, Exchange
<1> QED BY <1>6, <1>7, <1>8, <1>9 DEF ClientInv

\* The move read is the one the other client played in this round.
LEMMA RecvClientInv ==
    ASSUME TypeOK, NoCrash, \A q \in Players : ClientInv(q), NEW p \in Players, CliRecv(p)
    PROVE  \A q \in Players : ClientInv(q)'
<1> SUFFICES ASSUME NEW q \in Players PROVE ClientInv(q)'
  OBVIOUS
<1>1. InRound(p) /\ Played(p) /\ ~Told(p)
  BY DEF CliRecv, ClientInv, Registering, Waiting, Playing, PidRead, InRound, Consumed, Ending, Played, Told, Reported
<1>2. PeerReader(p)
  BY <1>1 DEF PeerReader, SrvOpen, InRound
<1>3. Played(Other(p)) /\ toPeer[Other(p)] = <<hand[Other(p)]>>
  BY <1>1, <1>2 DEF CliRecv, ClientInv, Exchange
<1>4. /\ \A r \in Players : his'[r] = IF r = p THEN hand[Other(p)] ELSE his[r]
      /\ \A r \in Players : toPeer'[r] = IF r = p THEN toPeer[r] ELSE <<>>
      /\ \A r \in Players : cli'[r] = IF r = p THEN "report" ELSE cli[r]
      /\ cli[p] = "recv"
      /\ UNCHANGED <<srv, pid, res, score, toSrv, inc, pend, start, term, hand>>
  BY <1>2, <1>3, ShortSeqs DEF CliRecv, TypeOK, srvVars
<1> USE DEF PidRead, InRound, Consumed, Ending, Played, Told, Reported
<1>5. Registering(q)'
  BY <1>1, <1>2, <1>3, <1>4 DEF ClientInv, Registering
<1>6. Waiting(q)'
  BY <1>1, <1>2, <1>3, <1>4 DEF ClientInv, Waiting
<1>7. Playing(q)'
  BY <1>1, <1>2, <1>3, <1>4 DEF ClientInv, Playing
<1>8. Exchange(q)'
  BY <1>1, <1>2, <1>3, <1>4 DEF ClientInv, Exchange
<1> QED BY <1>5, <1>6, <1>7, <1>8 DEF ClientInv

\* The result is written to the server once, after both moves are known.
LEMMA ReportClientInv ==
    ASSUME TypeOK, NoCrash, \A q \in Players : ClientInv(q), NEW p \in Players, CliReport(p)
    PROVE  \A q \in Players : ClientInv(q)'
<1> SUFFICES ASSUME NEW q \in Players PROVE ClientInv(q)'
  OBVIOUS
<1>1. InRound(p) /\ Told(p) /\ ~Reported(p) /\ ~Consumed(p) /\ his[p] = hand[Other(p)]
  BY DEF CliReport, ClientInv, Registering, Waiting, Playing, Exchange, PidRead, InRound, Consumed, Ending, Played, Told, Reported
<1>2. SrvOpen /\ toSrv[p] = <<>>
  BY <1>1 DEF SrvOpen, InRound, ClientInv, Playing
<1>3. toSrv[p] \o <<PidOf(inc[p]), CheckWinner(hand[p], his[p])>>
        = <<PidOf(inc[p]), CheckWinner(hand[p], hand[Other(p)])>>
  BY <1>1, <1>2, ShortSeqs
<1>4. /\ \A r \in Players : cli'[r] = IF r = p THEN "top" ELSE cli[r]
      /\ \A r \in Players : toSrv'[r] =
            IF r = p THEN <<PidOf(inc[p]), CheckWinner(hand[p], hand[Other(p)])>> ELSE toSrv[r]
      /\ cli[p] = "report"
      /\ UNCHANGED <<srv, pid, res, score, toPeer, inc, pend, start, term, hand, his>>
  BY <1>2, <1>3 DEF CliReport, TypeOK, srvVars
<1> USE DEF PidRead, InRound, Consumed, Ending, Played, Told, Reported
<1>5. Registering(q)'
  BY <1>1, <1>2, <1>3, <1>4 DEF ClientInv, Registering
<1>6. Waiting(q)'
  BY <1>1, <1>2, <1>3, <1>4 DEF ClientInv, Waiting
<1>7. Playing(q)'
  BY <1>1, <1>2, <1>3, <1>4 DEF ClientInv, Playing
<1>8. Exchange(q)'
  BY <1>1, <1>2, <1>3, <1>4 DEF ClientInv, Exchange
<1> QED BY <1>5, <1>6, <1>7, <1>8 DEF ClientInv

\* No signal interrupts the read of a move: SIGUSR1 came before it, SIGTERM
\* comes after it.
LEMMA DeliverClientInv ==
    ASSUME TypeOK, NoCrash, \A q \in Players : ClientInv(q), NEW p \in Players, NEW sig \in Signals, Deliver(p, sig)
    PROVE  \A q \in Players : ClientInv(q)'
<1> SUFFICES ASSUME NEW q \in Players PROVE ClientInv(q)'
  OBVIOUS
<1>1. ~BlockedInRead(p)
  BY DEF Deliver, BlockedInRead, ClientInv, Registering, Waiting, Playing, PidRead, InRound, Consumed, Ending, Played, Told, Reported
<1>2. /\ \A r \in Players : cli'[r] = IF r = p /\ cli[p] = "paused" THEN "check" ELSE cli[r]
      /\ \A r \in Players : pend'[r] = IF r = p THEN pend[r] \ {sig} ELSE pend[r]
      /\ \A r \in Players : start'[r] = (start[r] \/ (r = p /\ sig = "SIGUSR1"))
      /\ \A r \in Players : term'[r] = (term[r] \/ (r = p /\ sig = "SIGTERM"))
      /\ sig \in pend[p]
      /\ UNCHANGED <<srv, pid, res, score, toSrv, toPeer, inc, hand, his>>
  BY <1>1 DEF Deliver, TypeOK, srvVars, fifos
<1> USE DEF PidRead, InRound, Consumed, Ending, Played, Told, Reported
<1>3. Registering(q)'
  BY <1>1, <1>2 DEF ClientInv, Registering, Signals
<1>4. Waiting(q)'
  BY <1>1, <1>2 DEF ClientInv, Waiting, Signals
<1>5. Playing(q)'
  BY <1>1, <1>2 DEF ClientInv, Playing, Signals
<1>6. Exchange(q)'
  BY <1>1, <1>2 DEF ClientInv, Exchange, Signals
<1> QED BY <1>3, <1>4, <1>5, <1>6 DEF ClientInv

\* The four fifos are created and opened while they are empty.
LEMMA SetupClientInv ==
    ASSUME TypeOK, NoCrash, \A q \in Players : ClientInv(q), SrvSetup
    PROVE  \A q \in Players : ClientInv(q)'
<1> SUFFICES ASSUME NEW q \in Players PROVE ClientInv(q)'
  OBVIOUS
<1>1. srv = "setup" /\ srv' \in {"reg1", "failed"}
      /\ UNCHANGED <<pid, res, score, toSrv, toPeer, cli, inc, pend, start, term, hand, his>>
  BY DEF SrvSetup, fifos, cliVars
<1> USE DEF PidRead, InRound, Consumed, Ending, Played, Told, Reported
<1>2. Registering(q)'
  BY <1>1 DEF ClientInv, Registering
<1>3. Waiting(q)'
  BY <1>1 DEF ClientInv, Waiting
<1>4. Playing(q)'
  BY <1>1 DEF ClientInv, Playing
<1>5. Exchange(q)'
  BY <1>1 DEF ClientInv, Exchange
<1> QED BY <1>2, <1>3, <1>4, <1>5 DEF ClientInv

\* The server reads the pid, after which it can signal the client.
LEMMA SrvRegisterClientInv ==
    ASSUME TypeOK, NoCrash, \A q \in Players : ClientInv(q), NEW p \in Players, SrvRegister(p)
    PROVE  \A q \in Players : ClientInv(q)'
<1> SUFFICES ASSUME NEW q \in Players PROVE ClientInv(q)'
  OBVIOUS
<1>1. ~PidRead(p) /\ ~InRound(Other(p))
  BY DEF SrvRegister, PidRead, InRound
<1>2. /\ cli[p] \in {"top", "paused"} /\ toSrv[p] = <<PidOf(inc[p])>>
      /\ pend[p] = {} /\ ~start[p] /\ ~term[p]
  BY <1>1 DEF SrvRegister, ClientInv, Registering
<1>3. /\ \A r \in Players : toSrv'[r] = IF r = p THEN <<>> ELSE toSrv[r]
      /\ srv = (IF p = 1 THEN "reg1" ELSE "reg2") /\ srv' = (IF p = 1 THEN "reg2" ELSE "prompt")
      /\ UNCHANGED <<res, score, toPeer, cli, inc, pend, start, term, hand, his>>
  BY <1>2, ShortSeqs DEF SrvRegister, TypeOK, cliVars
<1> USE DEF PidRead, InRound, Consumed, Ending, Played, Told, Reported
<1>4. Registering(q)'
  BY <1>1, <1>2, <1>3 DEF ClientInv, Registering
<1>5. Waiting(q)'
  BY <1>1, <1>2, <1>3 DEF ClientInv, Waiting
<1>6. Playing(q)'
  BY <1>1, <1>2, <1>3 DEF ClientInv, Playing
<1>7. Exchange(q)'
  BY <1>1, <1>2, <1>3 DEF ClientInv, Exchange
<1> QED BY <1>4, <1>5, <1>6, <1>7 DEF ClientInv

\* ENTER opens no round yet: nobody has been signalled.
LEMMA EnterClientInv ==
    ASSUME TypeOK, NoCrash, \A q \in Players : ClientInv(q), SrvEnter
    PROVE  \A q \in Players : ClientInv(q)'
<1> SUFFICES ASSUME NEW q \in Players PROVE ClientInv(q)'
  OBVIOUS
<1>1. srv = "prompt" /\ srv' = "kill1"
      /\ UNCHANGED <<pid, res, score, toSrv, toPeer, cli, inc, pend, start, term, hand, his>>
  BY DEF SrvEnter, fifos, cliVars
<1> USE DEF PidRead, InRound, Consumed, Ending, Played, Told, Reported
<1>2. Registering(q)'
  BY <1>1 DEF ClientInv, Registering
<1>3. Waiting(q)'
  BY <1>1 DEF ClientInv, Waiting
<1>4. Playing(q)'
  BY <1>1 DEF ClientInv, Playing
<1>5. Exchange(q)'
  BY <1>1 DEF ClientInv, Exchange
<1> QED BY <1>2, <1>3, <1>4, <1>5 DEF ClientInv

\* A client that is signalled has played its last round to the end.
LEMMA SignalClientInv ==
    ASSUME TypeOK, NoCrash, \A q \in Players : ClientInv(q), NEW p \in Players, SrvSignal(p)
    PROVE  \A q \in Players : ClientInv(q)'
<1> SUFFICES ASSUME NEW q \in Players PROVE ClientInv(q)'
  OBVIOUS
<1>1. /\ \A r \in Players : pend'[r] = pend[r] \/ (r = p /\ pend'[r] = pend[r] \cup {"SIGUSR1"})
      /\ srv = (IF p = 1 THEN "kill1" ELSE "kill2") /\ srv' = (IF p = 1 THEN "kill2" ELSE "read1")
      /\ UNCHANGED <<pid, res, score, toSrv, toPeer, cli, inc, start, term, hand, his>>
  BY DEF SrvSignal, Kill, TypeOK, fifos
<1>2. /\ PidRead(p) /\ ~InRound(p) /\ ~Ending /\ pend[p] = {} /\ ~start[p] /\ ~term[p]
      /\ cli[p] \in {"top", "paused"} /\ toSrv[p] = <<>> /\ ~Played(p)
  BY <1>1 DEF ClientInv, Waiting, Exchange, PidRead, InRound, Ending
<1>3. q # p => pend'[q] = pend[q] /\ (InRound(q)' <=> InRound(q))
  BY <1>1 DEF InRound
<1> USE DEF PidRead, InRound, Consumed, Ending, Played, Told, Reported
<1>4. Registering(q)'
  BY <1>1, <1>2, <1>3 DEF ClientInv, Registering
<1>5. Waiting(q)'
  BY <1>1, <1>2, <1>3 DEF ClientInv, Waiting
<1>6. Playing(q)'
  BY <1>1, <1>2, <1>3 DEF ClientInv, Playing
<1>7. Exchange(q)'
  BY <1>1, <1>2, <1>3 DEF ClientInv, Exchange
<1> QED BY <1>4, <1>5, <1>6, <1>7 DEF ClientInv

\* The server never reads half a result: what it reads is what the client wrote
\* in this round.
LEMMA ReadClientInv ==
    ASSUME TypeOK, NoCrash, \A q \in Players : ClientInv(q), NEW p \in Players, SrvRead(p)
    PROVE  \A q \in Players : ClientInv(q)'
<1> SUFFICES ASSUME NEW q \in Players PROVE ClientInv(q)'
  OBVIOUS
<1>1. InRound(p) /\ ~Consumed(p)
  BY DEF SrvRead, InRound, Consumed
<1>2. toSrv[p] # <<>>
  <2>1. Len(toSrv[p]) = 1 \/ Len(toSrv[p]) >= 2
    BY DEF SrvRead
  <2>2. Len(<<>>) = 0
    OBVIOUS
  <2> QED BY <2>1, <2>2
<1>3. Reported(p) /\ toSrv[p] = <<PidOf(inc[p]), CheckWinner(hand[p], hand[Other(p)])>>
  BY <1>1, <1>2, ShortSeqs DEF ClientInv, Playing
<1>4. /\ res' = [res EXCEPT ![p] = CheckWinner(hand[p], hand[Other(p)])]
      /\ toSrv' = [toSrv EXCEPT ![p] = <<>>]
      /\ srv' = AfterResult(p)
  BY <1>3, ShortSeqs DEF SrvRead
<1>5. /\ \A r \in Players : res'[r] = IF r = p THEN CheckWinner(hand[p], hand[Other(p)]) ELSE res[r]
      /\ \A r \in Players : toSrv'[r] = IF r = p THEN <<>> ELSE toSrv[r]
      /\ srv = (IF p = 1 THEN "read1" ELSE "read2") /\ srv' = (IF p = 1 THEN "read2" ELSE "judge")
      /\ UNCHANGED <<score, toPeer, cli, inc, pend, start, term, hand, his>>
  BY <1>4 DEF SrvRead, AfterResult, TypeOK, cliVars
<1> USE DEF PidRead, InRound, Consumed, Ending, Played, Told, Reported
<1>6. Registering(q)'
  BY <1>1, <1>2, <1>3, <1>4, <1>5 DEF ClientInv, Registering
<1>7. Waiting(q)'
  BY <1>1, <1>2, <1>3, <1>4, <1>5 DEF ClientInv, Waiting
<1>8. Playing(q)'
  BY <1>1, <1>2, <1>3, <1>4, <1>5 DEF ClientInv, Playing
<1>9. Exchange(q)'
  BY <1>1, <1>2, <1>3, <1>4, <1>5 DEF ClientInv, Exchange
<1> QED BY <1>6, <1>7, <1>8, <1>9 DEF ClientInv

\* Both results the server holds are those of the two hands on the table, so
\* they are complementary.
LEMMA JudgeFair ==
    ASSUME TypeOK, \A q \in Players : ClientInv(q), srv = "judge"
    PROVE  ~Accuses
<1>1. \A q \in Players : Reported(q) /\ res[q] = CheckWinner(hand[q], hand[Other(q)])
  BY DEF ClientInv, Exchange, Consumed
<1>2. hand[1] \in Moves /\ hand[2] \in Moves
  BY <1>1 DEF Reported, Played, TypeOK
<1>3. res[1] = CheckWinner(hand[1], hand[2]) /\ res[2] = CheckWinner(hand[2], hand[1])
  BY <1>1
<1> QED BY <1>2, <1>3, CheckWinnerPair DEF Accuses

\* Both results are read, so both clients have done with the round.
LEMMA JudgeClientInv ==
    ASSUME TypeOK, NoCrash, \A q \in Players : ClientInv(q), SrvJudge
    PROVE  \A q \in Players : ClientInv(q)'
<1> SUFFICES ASSUME NEW q \in Players PROVE ClientInv(q)'
  OBVIOUS
<1>1. ~Accuses
  BY JudgeFair DEF SrvJudge
<1>2. \A r \in Players : Reported(r) /\ cli[r] \in {"top", "paused"} /\ pend[r] = {}
                           /\ ~start[r] /\ ~term[r] /\ toSrv[r] = <<>> /\ toPeer[r] = <<>>
  BY DEF SrvJudge, ClientInv, Playing, Exchange, InRound, Consumed, Reported, Told, Played
<1>3. /\ \A r \in Players : hand'[r] = None
      /\ srv' \in {"prompt", "term1"}
      /\ UNCHANGED <<res, toSrv, toPeer, cli, inc, pend, start, term, his>>
  BY <1>1 DEF SrvJudge, fifos
<1> USE DEF PidRead, InRound, Consumed, Ending, Played, Told, Reported
<1>4. Registering(q)'
  BY <1>1, <1>2, <1>3 DEF ClientInv, Registering
<1>5. Waiting(q)'
  BY <1>1, <1>2, <1>3 DEF ClientInv, Waiting
<1>6. Playing(q)'
  BY <1>1, <1>2, <1>3 DEF ClientInv, Playing
<1>7. Exchange(q)'
  BY <1>1, <1>2, <1>3 DEF ClientInv, Exchange
<1> QED BY <1>4, <1>5, <1>6, <1>7 DEF ClientInv

\* SIGTERM reaches clients that wait in pause() or are about to.
LEMMA TerminateClientInv ==
    ASSUME TypeOK, NoCrash, \A q \in Players : ClientInv(q), NEW p \in Players, SrvTerminate(p)
    PROVE  \A q \in Players : ClientInv(q)'
<1> SUFFICES ASSUME NEW q \in Players PROVE ClientInv(q)'
  OBVIOUS
<1>1. /\ \A r \in Players : pend'[r] = pend[r] \/ (r = p /\ pend'[r] = pend[r] \cup {"SIGTERM"})
      /\ srv \in {"term1", "term2"} /\ srv' \in {"term2", "close"}
      /\ UNCHANGED <<res, score, toSrv, toPeer, cli, inc, start, term, hand, his>>
  BY DEF SrvTerminate, Kill, TypeOK, fifos
<1> USE DEF PidRead, InRound, Consumed, Ending, Played, Told, Reported
<1>2. Registering(q)'
  BY <1>1 DEF ClientInv, Registering
<1>3. Waiting(q)'
  BY <1>1 DEF ClientInv, Waiting
<1>4. Playing(q)'
  BY <1>1 DEF ClientInv, Playing
<1>5. Exchange(q)'
  BY <1>1 DEF ClientInv, Exchange
<1> QED BY <1>2, <1>3, <1>4, <1>5 DEF ClientInv

\* The fifos the server closes are empty.
LEMMA CloseClientInv ==
    ASSUME TypeOK, NoCrash, \A q \in Players : ClientInv(q), SrvClose
    PROVE  \A q \in Players : ClientInv(q)'
<1> SUFFICES ASSUME NEW q \in Players PROVE ClientInv(q)'
  OBVIOUS
<1>1. Ending
  BY DEF SrvClose, Ending
<1>2. toSrv' = toSrv /\ toPeer' = toPeer
  BY <1>1, EndingEmpty, RetainEmpty DEF SrvClose
<1>3. /\ srv = "close" /\ srv' = "done"
      /\ UNCHANGED <<res, score, cli, inc, pend, start, term, hand, his>>
  BY DEF SrvClose, cliVars
<1> USE DEF PidRead, InRound, Consumed, Ending, Played, Told, Reported
<1>4. Registering(q)'
  BY <1>1, <1>2, <1>3 DEF ClientInv, Registering
<1>5. Waiting(q)'
  BY <1>1, <1>2, <1>3 DEF ClientInv, Waiting
<1>6. Playing(q)'
  BY <1>1, <1>2, <1>3 DEF ClientInv, Playing
<1>7. Exchange(q)'
  BY <1>1, <1>2, <1>3 DEF ClientInv, Exchange
<1> QED BY <1>4, <1>5, <1>6, <1>7 DEF ClientInv

\* The invariant is inductive: every step of a match in which nobody is killed
\* keeps every client in step with the server.
LEMMA RoundInvStep == TypeInv /\ RoundInv /\ [Next]_vars => RoundInv'
<1> SUFFICES ASSUME TypeInv, RoundInv, [Next]_vars, NoCrash'
             PROVE  \A q \in Players : ClientInv(q)'
  BY DEF RoundInv, ClientInv
<1>1. TypeOK /\ NoCrash /\ \A q \in Players : ClientInv(q)
  BY NoCrashBefore DEF TypeInv, RoundInv, ClientInv
<1>2. CASE SrvStep
  BY <1>1, <1>2, SetupClientInv, SrvRegisterClientInv, SignalClientInv, ReadClientInv,
     JudgeClientInv, TerminateClientInv, CloseClientInv DEF SrvStep
<1>3. ASSUME NEW p \in Players, CliStep(p) PROVE \A q \in Players : ClientInv(q)'
  BY <1>1, <1>3, RegisterClientInv, PauseClientInv, ExitClientInv, CheckClientInv,
     SendClientInv, RecvClientInv, ReportClientInv, DeliverClientInv DEF CliStep
<1>4. CASE User
  <2>1. ~SrvCrash
    BY DEF SrvCrash, NoCrash
  <2>2. \A p \in Players : ~CliCrash(p)
    <3> SUFFICES ASSUME NEW p \in Players, CliCrash(p) PROVE FALSE
      OBVIOUS
    <3>1. inc[p] = 1 /\ inc'[p] = 1 /\ inc'[p] = inc[p] + 1
      BY <1>1 DEF CliCrash, NoCrash, TypeOK
    <3> QED BY <3>1
  <2> QED BY <1>1, <1>4, <2>1, <2>2, EnterClientInv, OpenClientInv DEF User
<1>5. CASE UNCHANGED vars
  BY <1>1, <1>5 DEF vars, ClientInv, Registering, Waiting, Playing, Exchange, PidRead, InRound,
     Consumed, Ending, Played, Told, Reported
<1> QED BY <1>2, <1>3, <1>4, <1>5 DEF Next

\* In a match in which nobody is killed, every client is where the server
\* thinks it is, in every round, whatever the order of signals, reads and
\* writes and however many rounds are played.
THEOREM RoundsInStep == Spec => []RoundInv
<1>1. Init => RoundInv
  BY InitClientInv DEF RoundInv, ClientInv
<1>2. TypeInv /\ RoundInv /\ [Next]_vars => RoundInv'
  BY RoundInvStep
<1> QED BY <1>1, <1>2, TypeCorrect, PTL DEF Spec, TypeInv

\* Clients that follow the code are never told "Someone is cheating!".
THEOREM NeverAccused == Spec => []NoFalseAccusation
<1>1. TypeOK /\ RoundInv => NoFalseAccusation
  BY JudgeFair DEF NoFalseAccusation, RoundInv, ClientInv
<1> QED BY <1>1, TypeCorrect, RoundsInStep, PTL

\* The server never has more than one unread message of a client, a client
\* never more than one unread move, and between rounds there is none.
THEOREM FifosInStep == Spec => []OneMessageInFlight
<1>1. RoundInv => OneMessageInFlight
  <2> SUFFICES ASSUME RoundInv, NoCrash, NEW p \in Players
               PROVE  /\ Len(toPeer[p]) <= 1 /\ Len(toSrv[p]) <= 2
                      /\ srv \in {"prompt", "kill1", "judge"} =>
                            toSrv[p] = <<>> /\ toPeer[p] = <<>>
    BY DEF OneMessageInFlight
  <2>1. \A q \in Players : ClientInv(q)
    BY DEF RoundInv, ClientInv
  <2>2. Len(toPeer[p]) <= 1
    <3>1. toPeer[p] = <<>> \/ toPeer[p] = <<hand[p]>>
      BY <2>1 DEF ClientInv, Exchange
    <3>2. Len(<<>>) = 0 /\ Len(<<hand[p]>>) = 1
      OBVIOUS
    <3>3. Len(toPeer[p]) \in {0, 1}
      BY <3>1, <3>2, Zenon
    <3>4. \A n \in {0, 1} : n <= 1
      OBVIOUS
    <3> QED BY <3>3, <3>4, Zenon
  <2>3. Len(toSrv[p]) <= 2
    <3>1. \/ toSrv[p] = <<>> \/ toSrv[p] = <<PidOf(inc[p])>>
          \/ toSrv[p] = <<PidOf(inc[p]), CheckWinner(hand[p], hand[Other(p)])>>
      BY <2>1 DEF ClientInv, Registering, Waiting, Playing
    <3>2. \A a, b : Len(<<>>) = 0 /\ Len(<<a>>) = 1 /\ Len(<<a, b>>) = 2
      OBVIOUS
    <3>3. Len(toSrv[p]) \in {0, 1, 2}
      BY <3>1, <3>2, Zenon
    <3>4. \A n \in {0, 1, 2} : n <= 2
      OBVIOUS
    <3> QED BY <3>3, <3>4, Zenon
  <2>4. srv \in {"prompt", "kill1", "judge"} => toSrv[p] = <<>> /\ toPeer[p] = <<>>
    BY <2>1 DEF ClientInv, Waiting, Playing, Exchange, PidRead, InRound, Consumed, Reported,
       Played, Told
  <2> QED BY <2>2, <2>3, <2>4
<1> QED BY <1>1, RoundsInStep, PTL
-----------------------------------------------------------------------------
(***************************************************************************)
(* A match in which processes are killed and started again                 *)
(***************************************************************************)

RInv(p) == Acquainted(p) /\ OneToken(p) /\ OneMove(p) /\ OneResult(p)

\* Words are numbers; a pid is none of the results.
LEMMA PidNumbers ==
    ASSUME TypeOK
    PROVE  /\ \A p \in Players : inc[p] \in Nat /\ PidOf(inc[p]) \in Nat /\ PidOf(inc[p]) > 100
           /\ \A p \in Players : \A i \in DOMAIN toSrv[p] : toSrv[p][i] \in Int
           /\ \A p \in Players : pid[p] \in Int
<1>1. \A w \in Words : w \in Int
  BY MaxIncAssumption DEF Words, PidOf, Results, LOST, WON, TIE
<1>2. \A p \in Players : inc[p] \in Nat /\ PidOf(inc[p]) \in Nat /\ PidOf(inc[p]) > 100
  BY MaxIncAssumption DEF TypeOK, PidOf
<1>3. \A p \in Players : \A i \in DOMAIN toSrv[p] : toSrv[p][i] \in Int
  <2> TAKE p \in Players
  <2> TAKE i \in DOMAIN toSrv[p]
  <2>1. toSrv[p] \in Seq(Words)
    BY DEF TypeOK
  <2>2. toSrv[p][i] \in Words
    BY <2>1
  <2> QED BY <2>2, <1>1
<1>4. \A p \in Players : pid[p] \in Int
  BY <1>1 DEF TypeOK
<1> QED BY <1>2, <1>3, <1>4

\* A step that writes no word and no move, hands out no SIGUSR1, and moves the
\* server along no further than to its first signal or to its end.
Quiet ==
    /\ pid' = pid /\ res' = res /\ inc' = inc /\ hand' = hand /\ his' = his
    /\ \A r \in Players :
          /\ toSrv'[r] \in {toSrv[r], <<>>} /\ toPeer'[r] \in {toPeer[r], <<>>}
          /\ start'[r] => start[r]
          /\ pend'[r] \in {pend[r], {}} \/ (Known(r) /\ pend'[r] = pend[r] \cup {"SIGTERM"})
          /\ \/ cli'[r] \in {cli[r], "gone"}
             \/ cli[r] = "off" /\ cli'[r] = "register"
             \/ cli[r] \in {"top", "check"} /\ cli'[r] \in {"top", "paused"}
    /\ \/ srv' = srv
       \/ srv = "setup" /\ srv' = "reg1"
       \/ srv = "prompt" /\ srv' = "kill1"
       \/ srv' \in {"failed", "term1", "term2", "close", "done", "crashed"}

LEMMA QuietRInv ==
    ASSUME TypeOK, \A q \in Players : RInv(q), Quiet
    PROVE  \A q \in Players : RInv(q)'
<1> SUFFICES ASSUME NEW q \in Players PROVE RInv(q)'
  OBVIOUS
<1>1. Len(<<>>) = 0 /\ DOMAIN <<>> = {}
  OBVIOUS
<1>2. Known(q)' <=> Known(q)
  BY DEF Quiet, Known
<1>3. /\ BeforeRound(q)' => BeforeRound(q)
      /\ Consumed(q)' => Consumed(q)
  BY DEF Quiet, BeforeRound, Consumed
<1>4. Acquainted(q)'
  BY <1>1, <1>2 DEF Quiet, RInv, Acquainted
<1>5. OneToken(q)'
  BY <1>2, <1>3 DEF Quiet, RInv, OneToken, Acquainted
<1>6. OneMove(q)'
  BY <1>3 DEF Quiet, RInv, OneMove
<1>7. Settled(q) => Settled(q)'
  BY DEF Quiet, Settled
<1>8. OneResult(q)'
  BY <1>1, <1>2, <1>3, <1>7 DEF Quiet, RInv, OneResult
<1> QED BY <1>4, <1>5, <1>6, <1>8 DEF RInv

\* Closing a fifo empties it or leaves it alone.
LEMMA RetainQuiet ==
    ASSUME TypeOK, NEW server, NEW clients, Retain(server, clients)
    PROVE  \A r \in Players : toSrv'[r] \in {toSrv[r], <<>>} /\ toPeer'[r] \in {toPeer[r], <<>>}
BY DEF Retain, TypeOK

\* Most steps are quiet.
LEMMA ServerQuiet ==
    ASSUME TypeOK,
           \/ SrvSetup \/ SrvEnter \/ SrvClose \/ SrvCrash
           \/ \E p \in Players : SrvTerminate(p)
    PROVE  Quiet
<1>1. CASE SrvSetup
  BY <1>1 DEF SrvSetup, Quiet, fifos, cliVars
<1>2. CASE SrvEnter
  BY <1>2 DEF SrvEnter, Quiet, fifos, cliVars
<1>3. CASE SrvClose
  BY <1>3, RetainQuiet DEF SrvClose, Quiet, cliVars
<1>4. CASE SrvCrash
  BY <1>4, RetainQuiet DEF SrvCrash, Quiet, cliVars
<1>5. ASSUME NEW p \in Players, SrvTerminate(p) PROVE Quiet
  <2>1. \A r \in Players : pend'[r] = pend[r] \/ (Known(r) /\ pend'[r] = pend[r] \cup {"SIGTERM"})
    BY <1>5 DEF SrvTerminate, Kill, TypeOK, Known
  <2> QED BY <1>5, <2>1 DEF SrvTerminate, Quiet, fifos
<1> QED BY <1>1, <1>2, <1>3, <1>4, <1>5

LEMMA ExitQuiet ==
    ASSUME TypeOK, NEW p \in Players, Exit(p)
    PROVE  \A r \in Players :
             /\ toSrv'[r] \in {toSrv[r], <<>>} /\ toPeer'[r] \in {toPeer[r], <<>>}
             /\ pend'[r] \in {pend[r], {}}
             /\ cli'[r] \in {cli[r], "gone"}
<1>1. \A r \in Players : toSrv'[r] \in {toSrv[r], <<>>} /\ toPeer'[r] \in {toPeer[r], <<>>}
  BY RetainQuiet DEF Exit
<1>2. \A r \in Players : pend'[r] \in {pend[r], {}} /\ cli'[r] \in {cli[r], "gone"}
  BY DEF Exit, TypeOK
<1> QED BY <1>1, <1>2

LEMMA ClientQuiet ==
    ASSUME TypeOK, NEW p \in Players,
           \/ CliOpen(p) \/ CliPause(p)
           \/ CliRegister(p) /\ ~SrvOpen
           \/ CliCheck(p) /\ (term[p] \/ ~start[p])
           \/ CliRecv(p) /\ toPeer[Other(p)] = <<>>
           \/ CliReport(p) /\ ~SrvOpen
    PROVE  Quiet
<1>1. CASE CliOpen(p)
  BY <1>1 DEF CliOpen, Quiet, TypeOK, srvVars, fifos
<1>2. CASE CliPause(p)
  BY <1>2 DEF CliPause, Quiet, TypeOK, srvVars, fifos
<1>3. CASE CliRegister(p) /\ ~SrvOpen
  BY <1>3, ExitQuiet DEF CliRegister, Quiet, srvVars
<1>4. CASE CliCheck(p) /\ term[p]
  BY <1>4, ExitQuiet DEF CliCheck, Quiet, srvVars
<1>5. CASE CliCheck(p) /\ ~term[p] /\ ~start[p]
  BY <1>5 DEF CliCheck, Quiet, srvVars, fifos, TypeOK
<1>6. CASE CliRecv(p) /\ toPeer[Other(p)] = <<>>
  BY <1>6, ExitQuiet DEF CliRecv, Quiet, srvVars
<1>7. CASE CliReport(p) /\ ~SrvOpen
  BY <1>7, ExitQuiet DEF CliReport, Quiet, srvVars
<1> QED BY <1>1, <1>2, <1>3, <1>4, <1>5, <1>6, <1>7

\* A pid that is the first word of the fifo is all there is in it, if it is
\* the one of the client that runs now.
LEMMA SrvRegisterRInv ==
    ASSUME TypeOK, \A q \in Players : RInv(q), NEW p \in Players, SrvRegister(p)
    PROVE  \A q \in Players : RInv(q)'
<1> SUFFICES ASSUME NEW q \in Players PROVE RInv(q)'
  OBVIOUS
<1>1. /\ toSrv[p] \in Seq(Words) /\ toSrv[p] # <<>>
      /\ Len(toSrv[p]) \in Nat \ {0} /\ DOMAIN toSrv[p] = 1..Len(toSrv[p])
  BY DEF SrvRegister, TypeOK
<1>2. /\ Head(toSrv[p]) = toSrv[p][1] /\ Tail(toSrv[p]) \in Seq(Words)
      /\ Len(Tail(toSrv[p])) = Len(toSrv[p]) - 1
      /\ DOMAIN Tail(toSrv[p]) = 1..(Len(toSrv[p]) - 1)
      /\ \A i \in 1..(Len(toSrv[p]) - 1) : Tail(toSrv[p])[i] = toSrv[p][i + 1]
  BY <1>1
<1>3. /\ pid[p] = 0 /\ ~Known(p) /\ BeforeRound(p) /\ ~Consumed(q)' /\ (BeforeRound(q)' <=> BeforeRound(q))
      /\ hand[p] = None /\ pid[p] < PidOf(inc[p])
  BY PidNumbers DEF SrvRegister, RInv, Acquainted, OneMove, Known, BeforeRound, Consumed
<1>4. \A i \in DOMAIN toSrv[p] : toSrv[p][i] \notin Results
  BY <1>3 DEF RInv, OneResult, Settled
<1>5. /\ \A r \in Players : pid'[r] = IF r = p THEN toSrv[p][1] ELSE pid[r]
      /\ \A r \in Players : toSrv'[r] = IF r = p THEN Tail(toSrv[p]) ELSE toSrv[r]
      /\ srv = (IF p = 1 THEN "reg1" ELSE "reg2") /\ srv' = (IF p = 1 THEN "reg2" ELSE "prompt")
      /\ UNCHANGED <<res, score, toPeer, cli, inc, pend, start, term, hand, his>>
  BY <1>2 DEF SrvRegister, TypeOK, cliVars
<1>6. CASE q = p
  <2>1. Known(p)' => Len(toSrv[p]) = 1 /\ cli[p] \notin {"off", "register"}
    <3>1. Known(p)' => toSrv[p][1] = PidOf(inc[p])
      BY <1>5 DEF Known, PidOf
    <3>2. 1 \in DOMAIN toSrv[p]
      BY <1>1
    <3> QED BY <3>1, <3>2, <1>3 DEF RInv, Acquainted
  <2>2. Known(p)' => Tail(toSrv[p]) = <<>>
    <3>1. ASSUME NEW s \in Seq(Words), Len(s) = 0 PROVE s = <<>>
      BY <3>1, EmptySeq
    <3>2. Known(p)' => Tail(toSrv[p]) \in Seq(Words) /\ Len(Tail(toSrv[p])) = 0
      BY <1>1, <1>2, <2>1
    <3> QED BY <3>1, <3>2, Zenon
  <2>3. Acquainted(p)'
    <3>1. ~(srv' \in {"setup", "reg1"} \/ (srv' = "reg2" /\ p = 2)) /\ pid'[p] <= PidOf(inc'[p])
      BY <1>1, <1>5 DEF RInv, Acquainted
    <3>2. ~Known(p)' => /\ pend'[p] = {} /\ ~start'[p]
                       /\ cli'[p] \in {"off", "register", "top", "paused", "gone"}
      BY <1>3, <1>5 DEF RInv, Acquainted
    <3>3. \A i \in DOMAIN toSrv'[p] :
             /\ toSrv'[p][i] <= PidOf(inc'[p])
             /\ toSrv'[p][i] = PidOf(inc'[p]) => i = Len(toSrv'[p]) /\ cli'[p] \notin {"off", "register"}
      <4> SUFFICES ASSUME NEW i \in 1..(Len(toSrv[p]) - 1)
                   PROVE  /\ toSrv[p][i + 1] <= PidOf(inc[p])
                          /\ toSrv[p][i + 1] = PidOf(inc[p]) =>
                               i = Len(toSrv[p]) - 1 /\ cli[p] \notin {"off", "register"}
        BY <1>2, <1>5
      <4>1. i + 1 \in DOMAIN toSrv[p]
        BY <1>1
      <4>2. toSrv[p][i + 1] = PidOf(inc[p]) => i + 1 = Len(toSrv[p])
        BY <4>1, <1>3 DEF RInv, Acquainted
      <4> QED BY <4>1, <4>2, <1>1, <1>3 DEF RInv, Acquainted
    <3> QED BY <3>1, <3>2, <3>3, <2>1, <1>5 DEF Acquainted, Known
  <2>4. OneToken(p)'
    BY <1>3, <1>5, <1>6 DEF RInv, OneToken
  <2>5. OneMove(p)'
    BY <1>3, <1>5, <1>6 DEF RInv, OneMove
  <2>6. OneResult(p)'
    <3>1. ASSUME NEW i \in 1..(Len(toSrv[p]) - 1)
          PROVE  i + 1 \in DOMAIN toSrv[p] /\ Tail(toSrv[p])[i] \notin Results
      BY <1>1, <1>2, <1>4
    <3>2. \A i \in DOMAIN toSrv'[p] : toSrv'[p][i] \notin Results
      BY <3>1, <1>2, <1>5
    <3> QED BY <3>2, <2>2, <1>3, <1>5, <1>6 DEF OneResult
  <2> QED BY <1>6, <2>3, <2>4, <2>5, <2>6 DEF RInv
<1>7. CASE q # p
  <2>1. /\ pid'[q] = pid[q] /\ toSrv'[q] = toSrv[q] /\ (Known(q)' <=> Known(q))
    BY <1>5, <1>7 DEF Known
  <2>2. Acquainted(q)'
    BY <1>5, <1>7, <2>1 DEF RInv, Acquainted
  <2>3. OneToken(q)' /\ OneMove(q)'
    BY <1>3, <1>5, <1>7, <2>1 DEF RInv, OneToken, OneMove
  <2>4. OneResult(q)'
    BY <1>3, <1>5, <1>7, <2>1 DEF RInv, OneResult, Settled
  <2> QED BY <2>2, <2>3, <2>4 DEF RInv
<1> QED BY <1>6, <1>7

\* A client that is signalled holds no token yet.
LEMMA SignalRInv ==
    ASSUME TypeOK, \A q \in Players : RInv(q), NEW p \in Players, SrvSignal(p)
    PROVE  \A q \in Players : RInv(q)'
<1> SUFFICES ASSUME NEW q \in Players PROVE RInv(q)'
  OBVIOUS
<1>1. /\ \A r \in Players : pend'[r] = pend[r]
                            \/ (r = p /\ Known(p) /\ pend'[r] = pend[r] \cup {"SIGUSR1"})
      /\ srv = (IF p = 1 THEN "kill1" ELSE "kill2") /\ srv' = (IF p = 1 THEN "kill2" ELSE "read1")
      /\ UNCHANGED <<pid, res, score, toSrv, toPeer, cli, inc, start, term, hand, his>>
  BY DEF SrvSignal, Kill, TypeOK, fifos, Known
<1>2. /\ BeforeRound(p) /\ ~BeforeRound(p)' /\ hand[p] = None
      /\ "SIGUSR1" \notin pend[p] /\ ~start[p] /\ cli[p] # "send"
  BY <1>1 DEF BeforeRound, RInv, OneToken, OneMove
<1>3. /\ q # p => (BeforeRound(q)' <=> BeforeRound(q))
      /\ (Known(q)' <=> Known(q)) /\ ~Consumed(q) /\ ~Consumed(q)' /\ (Settled(q)' <=> Settled(q))
  BY <1>1 DEF BeforeRound, Known, Consumed, Settled
<1>4. Acquainted(q)'
  BY <1>1, <1>3 DEF RInv, Acquainted
<1>5. OneToken(q)'
  BY <1>1, <1>2, <1>3 DEF RInv, OneToken
<1>6. OneMove(q)'
  BY <1>1, <1>2, <1>3 DEF RInv, OneMove
<1>7. OneResult(q)'
  BY <1>1, <1>3 DEF RInv, OneResult
<1> QED BY <1>4, <1>5, <1>6, <1>7 DEF RInv

\* What the server takes for a result is one, unless the client was killed.
LEMMA ReadRInv ==
    ASSUME TypeOK, \A q \in Players : RInv(q), NEW p \in Players, SrvRead(p)
    PROVE  \A q \in Players : RInv(q)'
<1> SUFFICES ASSUME NEW q \in Players PROVE RInv(q)'
  OBVIOUS
<1>1. UNCHANGED <<pid, toPeer, cli, inc, pend, start, term, hand, his>>
      /\ srv = (IF p = 1 THEN "read1" ELSE "read2")
  BY DEF SrvRead, cliVars
<1>2. /\ (Known(q)' <=> Known(q)) /\ (Settled(q)' <=> Settled(q)) /\ ~Consumed(p)
  BY <1>1 DEF Known, Settled, Consumed
<1>3. CASE /\ Len(toSrv[p]) = 1 /\ toSrv' = [toSrv EXCEPT ![p] = <<>>]
           /\ srv' = "term1" /\ res' = res
  <2>1. /\ \A r \in Players : toSrv'[r] \in {toSrv[r], <<>>}
        /\ ~Consumed(q)' /\ ~BeforeRound(q)'
    BY <1>3 DEF TypeOK, Consumed, BeforeRound
  <2>2. Len(<<>>) = 0 /\ DOMAIN <<>> = {}
    OBVIOUS
  <2>3. Acquainted(q)'
    BY <1>1, <1>2, <1>3, <2>1, <2>2 DEF RInv, Acquainted
  <2>4. OneToken(q)' /\ OneMove(q)'
    BY <1>1, <1>2, <2>1 DEF RInv, OneToken, OneMove
  <2>5. OneResult(q)'
    BY <1>1, <1>2, <2>1, <2>2 DEF RInv, OneResult
  <2> QED BY <2>3, <2>4, <2>5 DEF RInv
<1>4. CASE /\ Len(toSrv[p]) >= 2 /\ res' = [res EXCEPT ![p] = toSrv[p][2]]
           /\ toSrv' = [toSrv EXCEPT ![p] = SubSeq(@, 3, Len(@))]
           /\ srv' = AfterResult(p)
  <2> DEFINE rest == SubSeq(toSrv[p], 3, Len(toSrv[p]))
  <2>1. /\ toSrv[p] \in Seq(Words) /\ Len(toSrv[p]) \in Nat /\ DOMAIN toSrv[p] = 1..Len(toSrv[p])
        /\ 2 \in DOMAIN toSrv[p]
    BY <1>4 DEF TypeOK
  <2>2. /\ Len(rest) = Len(toSrv[p]) - 2 /\ DOMAIN rest = 1..(Len(toSrv[p]) - 2)
        /\ \A i \in 1..(Len(toSrv[p]) - 2) : rest[i] = toSrv[p][i + 2] /\ i + 2 \in DOMAIN toSrv[p]
    <3>1. Len(rest) = Len(toSrv[p]) - 2 /\ DOMAIN rest = 1..(Len(toSrv[p]) - 2)
      BY <1>4, <2>1, SubSeqProperties
    <3>2. ASSUME NEW i \in 1..(Len(toSrv[p]) - 2) PROVE rest[i] = toSrv[p][i + 2]
      BY <1>4, <2>1, SubSeqProperties
    <3> QED BY <2>1, <3>1, <3>2
  <2>3. /\ \A r \in Players : toSrv'[r] = IF r = p THEN rest ELSE toSrv[r]
        /\ \A r \in Players : res'[r] = IF r = p THEN toSrv[p][2] ELSE res[r]
        /\ srv' = (IF p = 1 THEN "read2" ELSE "judge")
    BY <1>4 DEF TypeOK, AfterResult
  <2> HIDE DEF rest
  <2>4. q # p => (Consumed(q)' <=> Consumed(q))
    BY <1>1, <2>3 DEF Consumed
  <2>5. ~BeforeRound(q)' /\ (~BeforeRound(q) \/ "SIGUSR1" \notin pend[q])
    BY <1>1, <2>3 DEF BeforeRound
  <2>6. toSrv[p][2] \in Results =>
           Settled(p) /\ toSrv[p][2] = CheckWinner(hand[p], hand[Other(p)])
    BY <2>1 DEF RInv, OneResult
  <2>7. \A i \in DOMAIN rest : rest[i] \notin Results
    BY <2>1, <2>2 DEF RInv, OneResult
  <2>8. Known(p) => toSrv[p][2] \in Results /\ rest = <<>>
    <3>1. Len(<<>>) = 0
      OBVIOUS
    <3>2. Known(p) => Len(toSrv[p]) = 2 /\ toSrv[p][2] \in Results
      BY <3>1, <1>4 DEF RInv, OneResult
    <3>3. rest \in Seq(Words)
      BY <2>1, <1>4, SubSeqProperties DEF rest
    <3> QED BY <3>2, <3>3, <2>2
  <2>9. Acquainted(q)'
    <3>1. ASSUME q = p, NEW i \in DOMAIN rest
          PROVE  /\ rest[i] <= PidOf(inc[p])
                 /\ ~Known(p) /\ rest[i] = PidOf(inc[p]) =>
                       i = Len(rest) /\ cli[p] \notin {"off", "register"}
      <4>1. i \in 1..(Len(toSrv[p]) - 2) /\ rest[i] = toSrv[p][i + 2] /\ i + 2 \in DOMAIN toSrv[p]
        BY <2>2, <3>1
      <4>2. ~Known(p) /\ rest[i] = PidOf(inc[p]) =>
               i + 2 = Len(toSrv[p]) /\ cli[p] \notin {"off", "register"}
        BY <4>1 DEF RInv, Acquainted
      <4>3. rest[i] <= PidOf(inc[p])
        BY <4>1 DEF RInv, Acquainted
      <4> QED BY <4>1, <4>2, <4>3, <2>1, <2>2
    <3> QED BY <3>1, <1>1, <1>2, <2>3 DEF RInv, Acquainted
  <2>10. OneToken(q)' /\ OneMove(q)'
    BY <1>1, <1>2, <2>5 DEF RInv, OneToken, OneMove
  <2>11. OneResult(q)'
    <3>1. CASE q = p
      BY <3>1, <1>1, <1>2, <2>3, <2>6, <2>7, <2>8 DEF OneResult
    <3>2. CASE q # p
      BY <3>2, <1>1, <1>2, <2>3, <2>4 DEF RInv, OneResult
    <3> QED BY <3>1, <3>2
  <2> QED BY <2>9, <2>10, <2>11 DEF RInv
<1> QED BY <1>3, <1>4 DEF SrvRead

\* A point or a tie is given for two results of this round, so both clients
\* have settled it; an accusation ends the match.
LEMMA JudgeSettled ==
    ASSUME TypeOK, \A q \in Players : RInv(q), srv = "judge", ~Accuses
    PROVE  \A q \in Players : Settled(q) /\ res[q] = CheckWinner(hand[q], hand[Other(q)])
<1>1. res[1] \in Results /\ res[2] \in Results
  BY DEF Accuses, Verdict, Results
<1>2. Consumed(1) /\ Consumed(2)
  BY DEF Consumed
<1> QED BY <1>1, <1>2 DEF RInv, OneResult

LEMMA JudgeRInv ==
    ASSUME TypeOK, \A q \in Players : RInv(q), SrvJudge
    PROVE  \A q \in Players : RInv(q)'
<1>1. UNCHANGED <<pid, res, toSrv, toPeer, cli, inc, pend, start, term, his>> /\ srv = "judge"
  BY DEF SrvJudge, fifos
<1>2. CASE Accuses
  <2>1. Quiet
    BY <1>1, <1>2 DEF Quiet, SrvJudge
  <2> QED BY <2>1, QuietRInv
<1>3. CASE ~Accuses
  <2> SUFFICES ASSUME NEW q \in Players PROVE RInv(q)'
    OBVIOUS
  <2>1. /\ \A r \in Players : hand'[r] = None
        /\ srv' \in {"prompt", "term1"}
    BY <1>3 DEF SrvJudge
  <2>2. /\ \A r \in Players : Settled(r)
        /\ ~Consumed(q)' /\ Consumed(q) /\ (Known(q)' <=> Known(q))
    BY <1>1, <1>3, <2>1, JudgeSettled DEF Consumed, Known
  <2>3. /\ hand[q] # None /\ cli[q] \notin {"send", "recv", "report"}
        /\ toPeer[q] = <<>>
    BY <2>2 DEF Settled
  <2>4. Acquainted(q)'
    BY <1>1, <2>1, <2>2 DEF RInv, Acquainted
  <2>5. OneToken(q)' /\ OneMove(q)'
    BY <1>1, <2>1, <2>3 DEF RInv, OneToken, OneMove
  <2>6. \A i \in DOMAIN toSrv[q] : toSrv[q][i] \notin Results
    BY <2>2 DEF RInv, OneResult
  <2>7. Known(q) => toSrv[q] = <<>>
    <3>1. toSrv[q] \in Seq(Words)
      BY DEF TypeOK
    <3>2. Len(toSrv[q]) = 2 => 2 \in DOMAIN toSrv[q]
      BY <3>1
    <3> QED BY <3>2, <2>6 DEF RInv, OneResult
  <2>8. OneResult(q)'
    BY <1>1, <2>2, <2>6, <2>7 DEF OneResult
  <2> QED BY <2>4, <2>5, <2>8 DEF RInv
<1> QED BY <1>2, <1>3

\* The pid is the last word of the fifo.
LEMMA RegisterRInv ==
    ASSUME TypeOK, \A q \in Players : RInv(q), NEW p \in Players, CliRegister(p), SrvOpen
    PROVE  \A q \in Players : RInv(q)'
<1> SUFFICES ASSUME NEW q \in Players PROVE RInv(q)'
  OBVIOUS
<1> DEFINE more == Append(toSrv[p], PidOf(inc[p]))
<1>1. /\ cli[p] = "register"
      /\ \A r \in Players : cli'[r] = IF r = p THEN "top" ELSE cli[r]
      /\ \A r \in Players : toSrv'[r] = IF r = p THEN more ELSE toSrv[r]
      /\ UNCHANGED <<srv, pid, res, toPeer, inc, pend, start, term, hand, his>>
  BY DEF CliRegister, TypeOK, srvVars, Exit
<1>2. /\ toSrv[p] \in Seq(Words) /\ Len(toSrv[p]) \in Nat /\ DOMAIN toSrv[p] = 1..Len(toSrv[p])
      /\ Len(more) = Len(toSrv[p]) + 1 /\ DOMAIN more = 1..(Len(toSrv[p]) + 1)
      /\ \A i \in DOMAIN toSrv[p] : more[i] = toSrv[p][i]
      /\ more[Len(toSrv[p]) + 1] = PidOf(inc[p])
  BY WordsType DEF TypeOK
<1> HIDE DEF more
<1>3. /\ ~Known(p) /\ (Known(q)' <=> Known(q)) /\ (BeforeRound(q)' <=> BeforeRound(q))
      /\ (Consumed(q)' <=> Consumed(q)) /\ (Settled(q)' <=> Settled(q))
  BY <1>1 DEF RInv, Acquainted, Known, BeforeRound, Consumed, Settled
<1>4. CASE q = p
  <2>1. ASSUME NEW i \in DOMAIN more
        PROVE  \/ i \in DOMAIN toSrv[p] /\ more[i] = toSrv[p][i]
               \/ i = Len(more) /\ more[i] = PidOf(inc[p])
    BY <1>2
  <2>2. Acquainted(p)'
    <3>1. \A i \in DOMAIN more : /\ more[i] <= PidOf(inc[p])
                                 /\ more[i] = PidOf(inc[p]) => i = Len(more)
      <4> TAKE i \in DOMAIN more
      <4>1. CASE i \in DOMAIN toSrv[p] /\ more[i] = toSrv[p][i]
        BY <4>1, <1>1, <1>3 DEF RInv, Acquainted
      <4>2. CASE i = Len(more) /\ more[i] = PidOf(inc[p])
        BY <4>2, PidNumbers
      <4> QED BY <4>1, <4>2, <2>1
    <3> QED BY <3>1, <1>1, <1>3 DEF RInv, Acquainted
  <2>3. OneToken(p)' /\ OneMove(p)'
    BY <1>1, <1>3, <1>4 DEF RInv, OneToken, OneMove
  <2>4. OneResult(p)'
    <3>1. PidOf(inc[p]) \notin Results
      BY PidNumbers DEF Results, LOST, WON, TIE
    <3>2. \A i \in DOMAIN more : more[i] \in Results => i \in DOMAIN toSrv[p] /\ more[i] = toSrv[p][i]
      BY <2>1, <3>1
    <3> QED BY <3>2, <1>1, <1>3, <1>4 DEF RInv, OneResult
  <2> QED BY <1>4, <2>2, <2>3, <2>4 DEF RInv
<1>5. CASE q # p
  <2>1. Acquainted(q)'
    BY <1>1, <1>3, <1>5 DEF RInv, Acquainted
  <2>2. OneToken(q)' /\ OneMove(q)' /\ OneResult(q)'
    BY <1>1, <1>3, <1>5 DEF RInv, OneToken, OneMove, OneResult
  <2> QED BY <2>1, <2>2 DEF RInv
<1> QED BY <1>4, <1>5

\* The token passes from the flag to the move.
LEMMA CheckRInv ==
    ASSUME TypeOK, \A q \in Players : RInv(q), NEW p \in Players, CliCheck(p), ~term[p], start[p]
    PROVE  \A q \in Players : RInv(q)'
<1> SUFFICES ASSUME NEW q \in Players PROVE RInv(q)'
  OBVIOUS
<1>1. /\ cli[p] = "check"
      /\ \A r \in Players : cli'[r] = IF r = p THEN "send" ELSE cli[r]
      /\ \A r \in Players : start'[r] = IF r = p THEN FALSE ELSE start[r]
      /\ UNCHANGED <<srv, pid, res, toSrv, toPeer, inc, pend, term, hand, his>>
  BY DEF CliCheck, TypeOK, srvVars, fifos
<1>2. /\ Known(p) /\ (Known(q)' <=> Known(q)) /\ (BeforeRound(q)' <=> BeforeRound(q))
      /\ (Consumed(q)' <=> Consumed(q)) /\ hand[p] = None /\ ~Settled(q)
  BY <1>1 DEF RInv, Acquainted, OneToken, Known, BeforeRound, Consumed, Settled
<1>3. Acquainted(q)'
  BY <1>1, <1>2 DEF RInv, Acquainted
<1>4. OneToken(q)' /\ OneMove(q)'
  BY <1>1, <1>2 DEF RInv, OneToken, OneMove
<1>5. OneResult(q)'
  BY <1>1, <1>2 DEF RInv, OneResult
<1> QED BY <1>3, <1>4, <1>5 DEF RInv

\* A client sends one move in a round, into a fifo that is empty.
LEMMA SendRInv ==
    ASSUME TypeOK, \A q \in Players : RInv(q), NEW p \in Players, CliSend(p)
    PROVE  \A q \in Players : RInv(q)'
<1> SUFFICES ASSUME NEW q \in Players PROVE RInv(q)'
  OBVIOUS
<1>1. PICK m \in Moves :
         /\ hand' = [hand EXCEPT ![p] = m]
         /\ \/ /\ toPeer' = [toPeer EXCEPT ![p] = Append(@, m)]
               /\ cli' = [cli EXCEPT ![p] = "recv"] /\ UNCHANGED <<toSrv, pend>>
            \/ Exit(p)
  BY DEF CliSend
<1>2. /\ cli[p] = "send" /\ hand[p] = None /\ toPeer[p] = <<>> /\ ~BeforeRound(p)
      /\ "SIGUSR1" \notin pend[p] /\ ~start[p] /\ Known(p)
  BY DEF CliSend, RInv, Acquainted, OneToken, OneMove
<1>3. /\ \A r \in Players : hand'[r] = IF r = p THEN m ELSE hand[r]
      /\ m # None /\ UNCHANGED <<srv, pid, res, inc, start, term, his>>
  BY <1>1, NoneAssumption DEF CliSend, TypeOK, srvVars
<1>4. /\ \A r \in Players : toSrv'[r] \in {toSrv[r], <<>>} /\ pend'[r] \in {pend[r], {}}
      /\ \A r \in Players : cli'[r] = cli[r] \/ (r = p /\ cli'[r] \in {"recv", "gone"})
      /\ cli'[p] \in {"recv", "gone"}
      /\ \A r \in Players : toPeer'[r] \in {toPeer[r], <<>>} \/ (r = p /\ toPeer'[r] = <<m>>)
  <2>1. CASE /\ toPeer' = [toPeer EXCEPT ![p] = Append(@, m)]
             /\ cli' = [cli EXCEPT ![p] = "recv"] /\ UNCHANGED <<toSrv, pend>>
    BY <1>2, <2>1, ShortSeqs DEF TypeOK
  <2>2. CASE Exit(p)
    <3>1. \A r \in Players : cli'[r] = IF r = p THEN "gone" ELSE cli[r]
      BY <2>2 DEF Exit, TypeOK
    <3> QED BY <2>2, <3>1, ExitQuiet
  <2> QED BY <1>1, <2>1, <2>2
<1>5. /\ (Known(q)' <=> Known(q)) /\ (BeforeRound(q)' <=> BeforeRound(q))
      /\ (Consumed(q)' <=> Consumed(q)) /\ ~Settled(q)
  BY <1>2, <1>3 DEF Known, BeforeRound, Consumed, Settled
<1>6. Len(<<>>) = 0 /\ DOMAIN <<>> = {}
  OBVIOUS
<1>7. Acquainted(q)'
  BY <1>2, <1>3, <1>4, <1>5, <1>6 DEF RInv, Acquainted
<1>8. OneToken(q)'
  BY <1>2, <1>3, <1>4, <1>5 DEF RInv, OneToken
<1>9. OneMove(q)'
  BY <1>2, <1>3, <1>4, <1>5 DEF RInv, OneMove
<1>10. OneResult(q)'
  BY <1>3, <1>4, <1>5, <1>6 DEF RInv, OneResult
<1> QED BY <1>7, <1>8, <1>9, <1>10 DEF RInv

\* The move that is read is the one on the table.
LEMMA RecvRInv ==
    ASSUME TypeOK, \A q \in Players : RInv(q), NEW p \in Players, CliRecv(p),
           toPeer[Other(p)] # <<>>
    PROVE  \A q \in Players : RInv(q)'
<1> SUFFICES ASSUME NEW q \in Players PROVE RInv(q)'
  OBVIOUS
<1>1. /\ hand[Other(p)] # None /\ toPeer[Other(p)] = <<hand[Other(p)]>>
      /\ hand[p] # None /\ cli[p] = "recv"
  BY DEF CliRecv, RInv, OneMove
<1>2. /\ \A r \in Players : his'[r] = IF r = p THEN hand[Other(p)] ELSE his[r]
      /\ \A r \in Players : toPeer'[r] = IF r = p THEN toPeer[r] ELSE <<>>
      /\ \A r \in Players : cli'[r] = IF r = p THEN "report" ELSE cli[r]
      /\ UNCHANGED <<srv, pid, res, toSrv, inc, pend, start, term, hand>>
  BY <1>1, ShortSeqs DEF CliRecv, TypeOK, srvVars
<1>3. /\ (Known(q)' <=> Known(q)) /\ (BeforeRound(q)' <=> BeforeRound(q))
      /\ (Consumed(q)' <=> Consumed(q)) /\ (Settled(q) => Settled(q)') /\ ~Settled(p)
  BY <1>1, <1>2 DEF Known, BeforeRound, Consumed, Settled
<1>4. Acquainted(q)'
  BY <1>1, <1>2, <1>3 DEF RInv, Acquainted
<1>5. OneToken(q)'
  BY <1>1, <1>2, <1>3 DEF RInv, OneToken
<1>6. OneMove(q)'
  BY <1>1, <1>2, <1>3 DEF RInv, OneMove
<1>7. OneResult(q)'
  BY <1>2, <1>3 DEF RInv, OneResult
<1> QED BY <1>4, <1>5, <1>6, <1>7 DEF RInv

\* One result per round, in a fifo that is empty.
LEMMA ReportRInv ==
    ASSUME TypeOK, \A q \in Players : RInv(q), NEW p \in Players, CliReport(p), SrvOpen
    PROVE  \A q \in Players : RInv(q)'
<1> SUFFICES ASSUME NEW q \in Players PROVE RInv(q)'
  OBVIOUS
<1>1. /\ cli[p] = "report" /\ Known(p) /\ ~Settled(p) /\ ~Consumed(p) /\ hand[p] # None
      /\ hand[Other(p)] # None /\ his[p] = hand[Other(p)] /\ toPeer[Other(p)] = <<>>
  BY DEF CliReport, RInv, Acquainted, OneMove, OneResult, Settled
<1>2. toSrv[p] = <<>>
  <2>1. toSrv[p] \in Seq(Words)
    BY DEF TypeOK
  <2>2. Len(toSrv[p]) = 2 => 2 \in DOMAIN toSrv[p]
    BY <2>1
  <2> QED BY <1>1, <2>2 DEF RInv, OneResult
<1> DEFINE msg == <<PidOf(inc[p]), CheckWinner(hand[p], hand[Other(p)])>>
<1>3. /\ \A r \in Players : cli'[r] = IF r = p THEN "top" ELSE cli[r]
      /\ \A r \in Players : toSrv'[r] = IF r = p THEN msg ELSE toSrv[r]
      /\ UNCHANGED <<srv, pid, res, toPeer, inc, pend, start, term, hand, his>>
  <2>1. toSrv[p] \o <<PidOf(inc[p]), CheckWinner(hand[p], his[p])>> = msg
    BY <1>1, <1>2, ShortSeqs
  <2> QED BY <2>1 DEF CliReport, TypeOK, srvVars
<1>4. /\ Len(msg) = 2 /\ DOMAIN msg = {1, 2} /\ msg[1] = PidOf(inc[p])
      /\ msg[2] = CheckWinner(hand[p], hand[Other(p)]) /\ msg[2] \in Results
  <2>1. DOMAIN msg = 1..2
    OBVIOUS
  <2> QED BY <2>1, CheckWinnerType
<1> HIDE DEF msg
<1>5. /\ (Known(q)' <=> Known(q)) /\ (BeforeRound(q)' <=> BeforeRound(q))
      /\ (Consumed(q)' <=> Consumed(q)) /\ (Settled(q) => Settled(q)') /\ Settled(p)'
  BY <1>1, <1>3 DEF Known, BeforeRound, Consumed, Settled
<1>6. PidOf(inc[p]) \notin Results /\ \A i \in DOMAIN msg : msg[i] <= PidOf(inc[p])
  BY <1>4, PidNumbers DEF Results, LOST, WON, TIE
<1>7. Acquainted(q)'
  BY <1>1, <1>3, <1>5, <1>6 DEF RInv, Acquainted
<1>8. OneToken(q)' /\ OneMove(q)'
  BY <1>1, <1>3, <1>5 DEF RInv, OneToken, OneMove
<1>9. OneResult(q)'
  BY <1>1, <1>3, <1>4, <1>5, <1>6 DEF RInv, OneResult
<1> QED BY <1>7, <1>8, <1>9 DEF RInv

\* A signal that interrupts the read of a move is SIGTERM.
LEMMA DeliverRInv ==
    ASSUME TypeOK, \A q \in Players : RInv(q), NEW p \in Players, NEW sig \in Signals, Deliver(p, sig)
    PROVE  \A q \in Players : RInv(q)'
<1>1. Known(p) /\ sig \in pend[p]
  BY DEF Deliver, RInv, Acquainted
<1>2. CASE BlockedInRead(p)
  <2>1. Exit(p) /\ cli[p] = "recv" /\ UNCHANGED <<srv, pid, res, inc, hand, his>>
    BY <1>2 DEF Deliver, BlockedInRead, srvVars
  <2>2. sig # "SIGUSR1"
    BY <1>1, <2>1 DEF RInv, OneToken, OneMove
  <2>3. start' = start
    BY <2>2 DEF Deliver
  <2>4. Quiet
    BY <2>1, <2>3, ExitQuiet DEF Quiet
  <2> QED BY <2>4, QuietRInv
<1>3. CASE ~BlockedInRead(p)
  <2> SUFFICES ASSUME NEW q \in Players PROVE RInv(q)'
    OBVIOUS
  <2>1. /\ \A r \in Players : cli'[r] = IF r = p /\ cli[p] = "paused" THEN "check" ELSE cli[r]
        /\ \A r \in Players : pend'[r] = IF r = p THEN pend[r] \ {sig} ELSE pend[r]
        /\ \A r \in Players : start'[r] = (start[r] \/ (r = p /\ sig = "SIGUSR1"))
        /\ UNCHANGED <<srv, pid, res, toSrv, toPeer, inc, hand, his>>
    BY <1>3 DEF Deliver, TypeOK, srvVars, fifos
  <2>2. /\ (Known(q)' <=> Known(q)) /\ (BeforeRound(q)' <=> BeforeRound(q))
        /\ (Consumed(q)' <=> Consumed(q)) /\ (Settled(q) => Settled(q)')
    BY <2>1 DEF Known, BeforeRound, Consumed, Settled
  <2>3. Acquainted(q)'
    BY <1>1, <2>1, <2>2 DEF RInv, Acquainted
  <2>4. OneToken(q)'
    BY <1>1, <2>1, <2>2 DEF RInv, OneToken
  <2>5. OneMove(q)'
    BY <2>1, <2>2 DEF RInv, OneMove
  <2>6. OneResult(q)'
    BY <2>1, <2>2 DEF RInv, OneResult
  <2> QED BY <2>3, <2>4, <2>5, <2>6 DEF RInv
<1> QED BY <1>2, <1>3

\* The pid of a client that is started again is in no fifo and unknown to the
\* server.
LEMMA CrashRInv ==
    ASSUME TypeOK, \A q \in Players : RInv(q), NEW p \in Players, CliCrash(p)
    PROVE  \A q \in Players : RInv(q)'
<1> SUFFICES ASSUME NEW q \in Players PROVE RInv(q)'
  OBVIOUS
<1>1. /\ \A r \in Players : inc'[r] = IF r = p THEN inc[r] + 1 ELSE inc[r]
      /\ \A r \in Players : cli'[r] = IF r = p THEN "off" ELSE cli[r]
      /\ \A r \in Players : pend'[r] = IF r = p THEN {} ELSE pend[r]
      /\ \A r \in Players : start'[r] = IF r = p THEN FALSE ELSE start[r]
      /\ \A r \in Players : toSrv'[r] \in {toSrv[r], <<>>} /\ toPeer'[r] \in {toPeer[r], <<>>}
      /\ UNCHANGED <<srv, pid, res, hand, his>>
  BY RetainQuiet DEF CliCrash, TypeOK, srvVars
<1>2. PidOf(inc[p])' = PidOf(inc[p]) + 1
  BY <1>1, PidNumbers DEF PidOf
<1>3. Len(<<>>) = 0 /\ DOMAIN <<>> = {}
  OBVIOUS
<1>4. /\ pid[p] < PidOf(inc[p])' /\ ~Known(p)'
      /\ \A i \in DOMAIN toSrv'[p] : toSrv'[p][i] <= PidOf(inc[p])' /\ toSrv'[p][i] # PidOf(inc[p])'
  BY <1>1, <1>2, <1>3, PidNumbers DEF RInv, Acquainted, Known
<1>5. /\ q # p => PidOf(inc[q])' = PidOf(inc[q]) /\ (Known(q)' <=> Known(q))
      /\ (BeforeRound(q)' <=> BeforeRound(q)) /\ (Consumed(q)' <=> Consumed(q))
      /\ Settled(q) => Settled(q)'
  BY <1>1 DEF Known, BeforeRound, Consumed, Settled
<1>6. Acquainted(q)'
  <2>1. CASE q = p
    <3>1. /\ srv' \in {"setup", "reg1"} \/ (srv' = "reg2" /\ p = 2) => pid'[p] = 0
          /\ pid'[p] <= PidOf(inc[p])'
      BY <1>1, <1>2, <1>4, PidNumbers DEF RInv, Acquainted
    <3>2. pend'[p] = {} /\ ~start'[p] /\ cli'[p] = "off"
      BY <1>1
    <3> QED BY <2>1, <3>1, <3>2, <1>4 DEF Acquainted
  <2>2. CASE q # p
    <3>1. /\ cli'[q] = cli[q] /\ pend'[q] = pend[q] /\ start'[q] = start[q]
          /\ pid'[q] = pid[q] /\ srv' = srv
      BY <2>2, <1>1
    <3> QED BY <2>2, <3>1, <1>1, <1>3, <1>5 DEF RInv, Acquainted
  <2> QED BY <2>1, <2>2
<1>7. OneToken(q)'
  BY <1>1, <1>5 DEF RInv, OneToken
<1>8. OneMove(q)'
  BY <1>1, <1>5 DEF RInv, OneMove
<1>9. OneResult(q)'
  BY <1>1, <1>3, <1>4, <1>5 DEF RInv, OneResult
<1> QED BY <1>6, <1>7, <1>8, <1>9 DEF RInv

LEMMA InitRInv == Init => \A q \in Players : RInv(q)
<1> SUFFICES ASSUME Init, NEW q \in Players PROVE RInv(q)
  OBVIOUS
<1>1. Len(<<>>) = 0 /\ DOMAIN <<>> = {}
  OBVIOUS
<1>2. Acquainted(q)
  BY <1>1 DEF Init, Acquainted, Known, PidOf
<1>3. OneToken(q) /\ OneMove(q)
  BY DEF Init, OneToken, OneMove
<1>4. OneResult(q)
  BY <1>1 DEF Init, OneResult, Consumed
<1> QED BY <1>2, <1>3, <1>4 DEF RInv

\* The invariant is inductive, with no condition on who is killed when.
LEMMA RestartInvStep == TypeOK /\ RestartInv /\ [Next]_vars => RestartInv'
<1> SUFFICES ASSUME TypeOK, \A q \in Players : RInv(q), [Next]_vars
             PROVE  \A q \in Players : RInv(q)'
  BY DEF RestartInv, RInv
<1>1. CASE SrvStep
  BY <1>1, ServerQuiet, QuietRInv, SrvRegisterRInv, SignalRInv, ReadRInv, JudgeRInv DEF SrvStep
<1>2. ASSUME NEW p \in Players, CliStep(p) PROVE \A q \in Players : RInv(q)'
  <2>1. CASE CliRegister(p)
    BY <2>1, ClientQuiet, QuietRInv, RegisterRInv
  <2>2. CASE CliPause(p)
    BY <2>2, ClientQuiet, QuietRInv
  <2>3. CASE CliCheck(p)
    BY <2>3, ClientQuiet, QuietRInv, CheckRInv
  <2>4. CASE CliSend(p)
    BY <2>4, SendRInv
  <2>5. CASE CliRecv(p)
    BY <2>5, ClientQuiet, QuietRInv, RecvRInv
  <2>6. CASE CliReport(p)
    BY <2>6, ClientQuiet, QuietRInv, ReportRInv
  <2>7. CASE \E sig \in Signals : Deliver(p, sig)
    BY <2>7, DeliverRInv
  <2> QED BY <1>2, <2>1, <2>2, <2>3, <2>4, <2>5, <2>6, <2>7 DEF CliStep
<1>3. CASE User
  BY <1>3, ServerQuiet, ClientQuiet, QuietRInv, CrashRInv DEF User
<1>4. CASE UNCHANGED vars
  BY <1>4 DEF vars, RInv, Acquainted, OneToken, OneMove, OneResult, Known, BeforeRound, Settled,
     Consumed
<1> QED BY <1>1, <1>2, <1>3, <1>4 DEF Next

\* However often clients are killed and started again, and wherever the server
\* dies: the server signals only the client whose pid it read, a SIGUSR1 buys
\* one move, and every result the server reads is one of this round or a pid.
THEOREM RestartsInStep == Spec => []RestartInv
<1>1. Init => RestartInv
  BY InitRInv DEF RestartInv, RInv
<1>2. TypeOK /\ RestartInv /\ [Next]_vars => RestartInv'
  BY RestartInvStep
<1> QED BY <1>1, <1>2, TypeCorrect, PTL DEF Spec

\* A client plays only in a round that the server has opened and not closed,
\* and works out its result from the move the other client plays in this round
\* (mkfifo-client-02.c:172-194), even if clients are killed and restarted.
THEOREM PlayedInRound == Spec => []PlaysThisRound
<1>1. RestartInv => PlaysThisRound
  <2> SUFFICES ASSUME \A q \in Players : RInv(q), NEW p \in Players
               PROVE  /\ cli[p] \in {"send", "recv", "report"} =>
                            srv \notin {"setup", "reg1", "reg2", "prompt", "kill1", "judge"}
                      /\ cli[p] = "report" => his[p] = hand[Other(p)]
    BY DEF PlaysThisRound, RestartInv, RInv
  <2>1. cli[p] \in {"send", "recv", "report"} => ~BeforeRound(p) /\ Known(p) /\ ~Settled(p)
    BY DEF RInv, OneToken, OneMove, Acquainted, Settled
  <2>2. cli[p] \in {"send", "recv", "report"} => srv # "judge"
    BY <2>1 DEF RInv, OneResult, Consumed
  <2>3. cli[p] \in {"send", "recv", "report"} => srv # "reg2" /\ srv # "kill1"
    BY <2>1 DEF BeforeRound
  <2>4. cli[p] = "report" => his[p] = hand[Other(p)]
    BY DEF RInv, OneMove
  <2> QED BY <2>1, <2>2, <2>3, <2>4 DEF BeforeRound
<1> QED BY <1>1, RestartsInStep, PTL
-----------------------------------------------------------------------------
(***************************************************************************)
(* The match is a game of rock, paper, scissors                            *)
(***************************************************************************)

\* The code and the rules of the game agree on who wins.
LEMMA WonBeats ==
    ASSUME NEW m \in Moves, NEW h \in Moves
    PROVE  /\ CheckWinner(m, h) = WON <=> Game!Beats(m, h)
           /\ CheckWinner(m, h) = LOST <=> Game!Beats(h, m)
<1>1. m \in {0, 1, 2} /\ h \in {0, 1, 2}
  BY DEF Moves, ROCK, PAPER, SCISSORS
<1>2. /\ (m - h) % 3 = 1 <=> m = h + 1 \/ m = h - 2
      /\ (h - m) % 3 = 1 <=> h = m + 1 \/ h = m - 2
  BY <1>1, SMT
<1> QED BY <1>1, <1>2, SMT
        DEF Game!Beats, CheckWinner, Winning, ROCK, PAPER, SCISSORS, WON, LOST, TIE

\* A step that shows no hand and gives no point: the game is where it was, or
\* the referee stops it.
LEMMA StopOrStutter ==
    ASSUME UNCHANGED <<hand, score>>,
           \/ srv' = srv
           \/ srv' \notin {"setup", "reg1", "reg2", "prompt", "kill1", "kill2", "read1", "read2",
                           "judge"}
           \/ /\ srv \in {"setup", "reg1", "reg2", "prompt", "kill1", "kill2", "read1", "read2"}
              /\ srv' \in {"setup", "reg1", "reg2", "prompt", "kill1", "kill2", "read1", "read2",
                           "judge"}
    PROVE  [Game!GameNext]_(Game!gameVars)
BY DEF Game!GameNext, Game!Stop, Game!gameVars

\* The move a client sends is the hand it shows: the first one in this round.
LEMMA SendShows ==
    ASSUME TypeOK, RestartInv, NEW p \in Players, CliSend(p)
    PROVE  Game!Show(p)
<1>1. hand[p] = None
  BY DEF CliSend, RestartInv, OneToken
<1>2. \E h \in Game!Hand : hand' = [hand EXCEPT ![p] = h]
  BY DEF CliSend, Game!Hand, Moves, ROCK, PAPER, SCISSORS
<1>3. srv' = srv /\ score' = score
  BY DEF CliSend, srvVars
<1> QED BY <1>1, <1>2, <1>3 DEF Game!Show

\* The server gives a point to the hand that beats the other one on the table,
\* although it never sees the hands.
LEMMA JudgeJudges ==
    ASSUME TypeInv, RestartInv, SrvJudge, ~Accuses
    PROVE  Game!Judge
<1>1. /\ hand[1] \in Moves /\ hand[2] \in Moves
      /\ res[1] = CheckWinner(hand[1], hand[2]) /\ res[2] = CheckWinner(hand[2], hand[1])
  BY JudgeSettled DEF SrvJudge, RestartInv, RInv, Settled, TypeInv, TypeOK
<1>2. /\ res[1] = WON <=> Game!Beats(hand[1], hand[2])
      /\ res[1] = LOST <=> Game!Beats(hand[2], hand[1])
      /\ res[2] = WON <=> Game!Beats(hand[2], hand[1])
      /\ res[2] = LOST <=> Game!Beats(hand[1], hand[2])
  BY <1>1, WonBeats
<1>3. /\ Verdict(res[1], res[2]) = "point1" <=> Game!Beats(hand[1], hand[2])
      /\ Verdict(res[1], res[2]) = "point2" <=> Game!Beats(hand[2], hand[1])
  BY <1>2 DEF Verdict, WON, LOST, TIE
<1>4. /\ score \in [Players -> 0..WinScore] /\ \A p \in Players : score[p] < WinScore
  BY DEF TypeInv, TypeOK, ScoreInv, SrvJudge, Ending
<1>5. score' = [s \in Players |->
                  IF Game!Beats(hand[s], hand[3 - s]) THEN score[s] + 1 ELSE score[s]]
  <2>1. ~(Game!Beats(hand[1], hand[2]) /\ Game!Beats(hand[2], hand[1]))
    BY <1>2 DEF WON, LOST
  <2> DEFINE due(s) == IF Game!Beats(hand[s], hand[3 - s]) THEN score[s] + 1 ELSE score[s]
  <2>2. /\ due(1) = IF Game!Beats(hand[1], hand[2]) THEN score[1] + 1 ELSE score[1]
        /\ due(2) = IF Game!Beats(hand[2], hand[1]) THEN score[2] + 1 ELSE score[2]
    OBVIOUS
  <2>3. /\ Game!Beats(hand[1], hand[2]) => score' = [score EXCEPT ![1] = @ + 1]
        /\ Game!Beats(hand[2], hand[1]) => score' = [score EXCEPT ![2] = @ + 1]
        /\ ~Game!Beats(hand[1], hand[2]) /\ ~Game!Beats(hand[2], hand[1]) => score' = score
    BY <1>3 DEF SrvJudge
  <2> HIDE DEF due
  <2>4. DOMAIN score' = Players /\ score'[1] = due(1) /\ score'[2] = due(2)
    BY <1>4, <2>1, <2>2, <2>3
  <2>5. score' = [s \in Players |-> score'[s]]
    BY <1>4, <2>1, <2>3
  <2>6. score' = [s \in Players |-> due(s)]
    BY <2>4, <2>5
  <2> QED BY <2>6 DEF due
<1>6. \A p \in Players : score'[p] \in 0..WinScore
  BY <1>4, <1>5, WinScoreAssumption
<1>7. srv = "judge" /\ (srv' = "prompt" \/ srv' = "term1")
      /\ (srv' = "term1" <=> \E s \in Players : score'[s] = WinScore)
  <2>1. GoesOn(score') <=> ~\E s \in Players : score'[s] = WinScore
    BY <1>6, WinScoreAssumption DEF GoesOn
  <2> QED BY <2>1 DEF SrvJudge
<1>8. hand' = [p \in Players |-> None]
  BY DEF SrvJudge
<1>9. \A s \in Players : hand[s] # None
  BY <1>1, NoneAssumption
<1> QED BY <1>4, <1>5, <1>7, <1>8, <1>9 DEF Game!Judge, Game!Seat

\* The two programs, their signals and their fifos play a game of rock, paper,
\* scissors: whoever is killed or restarted, a point goes to the hand that
\* beats the other on the table, and to nobody once WIN_SCORE is reached.
THEOREM PlaysGame == Spec => GameSpec
<1>1. Init => Game!GameInit
  BY DEF Init, Game!GameInit, Game!Seat
<1>2. TypeInv /\ RestartInv /\ [Next]_vars => [Game!GameNext]_(Game!gameVars)
  <2> SUFFICES ASSUME TypeInv, RestartInv, [Next]_vars PROVE [Game!GameNext]_(Game!gameVars)
    OBVIOUS
  <2>1. CASE SrvStep
    <3>1. CASE SrvJudge /\ ~Accuses
      BY <3>1, JudgeJudges DEF Game!GameNext
    <3>2. CASE SrvJudge /\ Accuses
      <4>1. UNCHANGED <<hand, score>> /\ srv' = "term1"
        BY <3>2 DEF SrvJudge, Accuses
      <4> QED BY <4>1, StopOrStutter
    <3>3. CASE SrvSetup \/ SrvClose
      <4>1. UNCHANGED <<hand, score>> /\ ((srv = "setup" /\ srv' = "reg1") \/ srv' \in {"failed", "done"})
        BY <3>3 DEF SrvSetup, SrvClose, cliVars
      <4> QED BY <4>1, StopOrStutter
    <3>4. ASSUME NEW p \in Players,
                 SrvRegister(p) \/ SrvSignal(p) \/ SrvRead(p) \/ SrvTerminate(p)
          PROVE  [Game!GameNext]_(Game!gameVars)
      <4>1. UNCHANGED <<hand, score>>
        BY <3>4 DEF SrvRegister, SrvSignal, SrvRead, SrvTerminate, cliVars
      <4>2. \/ srv' \in {"term1", "term2", "close"}
            \/ /\ srv \in {"reg1", "reg2", "kill1", "kill2", "read1", "read2"}
               /\ srv' \in {"reg2", "prompt", "kill2", "read1", "read2", "judge"}
        BY <3>4 DEF SrvRegister, SrvSignal, SrvRead, SrvTerminate, AfterResult
      <4> QED BY <4>1, <4>2, StopOrStutter
    <3> QED BY <2>1, <3>1, <3>2, <3>3, <3>4 DEF SrvStep
  <2>2. ASSUME NEW p \in Players, CliStep(p) PROVE [Game!GameNext]_(Game!gameVars)
    <3>1. CASE CliSend(p)
      BY <3>1, SendShows DEF Game!GameNext, Game!Seat, TypeInv
    <3>2. CASE ~CliSend(p)
      <4>1. UNCHANGED <<srv, hand, score>>
        BY <2>2, <3>2 DEF CliStep, CliRegister, CliPause, CliCheck, CliRecv, CliReport, Deliver,
           srvVars
      <4> QED BY <4>1, StopOrStutter
    <3> QED BY <3>1, <3>2
  <2>3. CASE User
    <3>1. UNCHANGED <<hand, score>>
          /\ (srv' = srv \/ (srv = "prompt" /\ srv' = "kill1") \/ srv' = "crashed")
      BY <2>3 DEF User, SrvEnter, SrvCrash, CliOpen, CliCrash, srvVars, cliVars
    <3> QED BY <3>1, StopOrStutter
  <2>4. CASE UNCHANGED vars
    BY <2>4, StopOrStutter DEF vars
  <2> QED BY <2>1, <2>2, <2>3, <2>4 DEF Next
<1> QED BY <1>1, <1>2, TypeCorrect, RestartsInStep, PTL
        DEF Spec, TypeInv, GameSpec, Game!GameSpec
=============================================================================
