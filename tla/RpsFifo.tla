------------------------------ MODULE RpsFifo -------------------------------
(***************************************************************************)
(* Rock, paper, scissors over named pipes: mkfifo-server-02.c and two      *)
(* instances of mkfifo-client-02.c.                                        *)
(*                                                                         *)
(* The clients register by writing their pid to their own fifo; the        *)
(* server starts a round by sending SIGUSR1 to both pids, the clients      *)
(* exchange moves over two fifos of their own and each writes a ResultMsg  *)
(* to the server, which reads client 1 first. SIGTERM ends the clients.    *)
(*                                                                         *)
(* Contents of the fifos to the server are sequences of 4-byte words,      *)
(* because a pid_t (one word) and a ResultMsg (two words) share them and   *)
(* read() returns what is there. The fifos between the clients carry       *)
(* RPSMsg only, so one move stands for one message.                        *)
(***************************************************************************)
EXTENDS RpsRules, Sequences

CONSTANTS
    WinScore,       \* WIN_SCORE
    MaxInc,         \* bound: incarnations of each client process
    None            \* no move chosen in this round

ASSUME WinScoreAssumption == WinScore \in Nat \ {0}
ASSUME MaxIncAssumption   == MaxInc \in Nat \ {0}
ASSUME NoneAssumption     == None \notin Moves

VARIABLES
    srv,        \* where the server is in main()
    pid,        \* pid1, pid2: 0 until read
    res,        \* r1.result, r2.result as last read
    score,      \* score1, score2
    toSrv,      \* words in /tmp/fifo_c<p>_to_server
    toPeer,     \* moves in /tmp/fifo_c<p>_to_c<other>
    cli,        \* where client p is in main()
    inc,        \* incarnation of client p; it determines its pid
    pend,       \* signals sent to client p and not yet delivered
    start,      \* got_start_signal
    term,       \* got_term_signal
    hand,       \* my_move.rps; history: emptied when the round is judged
    his         \* his_move.rps

srvVars == <<srv, pid, res, score>>
fifos   == <<toSrv, toPeer>>
cliVars == <<cli, inc, pend, start, term, hand, his>>
vars    == <<srv, pid, res, score, toSrv, toPeer, cli, inc, pend, start, term, hand, his>>

Signals == {"SIGUSR1", "SIGTERM"}

SrvStates == {"setup", "reg1", "reg2", "prompt", "kill1", "kill2", "read1",
              "read2", "judge", "term1", "term2", "close", "done", "failed", "crashed"}
CliStates == {"off", "register", "top", "paused", "check", "send", "recv",
              "report", "gone"}

\* pids are larger than any result code, as they are on a running system.
PidOf(k) == 100 + k

\* The server holds the four fifos open, read and write (O_RDWR).
SrvOpen  == srv \notin {"setup", "done", "failed", "crashed"}
\* Client p holds its three fifos open.
Open(p)  == cli[p] \notin {"off", "gone"}
OpenClients == {p \in Players : Open(p)}
\* Somebody would read what p writes to the other client.
PeerReader(p) == SrvOpen \/ Open(Other(p))
-----------------------------------------------------------------------------
Init ==
    /\ srv = "setup"
    /\ pid = [p \in Players |-> 0]
    /\ res = [p \in Players |-> LOST]
    /\ score = [p \in Players |-> 0]
    /\ toSrv = [p \in Players |-> <<>>]
    /\ toPeer = [p \in Players |-> <<>>]
    /\ cli = [p \in Players |-> "off"]
    /\ inc = [p \in Players |-> 1]
    /\ pend = [p \in Players |-> {}]
    /\ start = [p \in Players |-> FALSE]
    /\ term = [p \in Players |-> FALSE]
    /\ hand = [p \in Players |-> None]
    /\ his = [p \in Players |-> None]

(***************************************************************************)
(* The kernel                                                              *)
(***************************************************************************)

\* A fifo keeps its contents only while some process has it open: the server,
\* if "server", and the given clients.
Retain(server, clients) ==
    /\ toSrv'  = [p \in Players |-> IF server \/ p \in clients THEN toSrv[p] ELSE <<>>]
    /\ toPeer' = IF server \/ clients # {} THEN toPeer ELSE [p \in Players |-> <<>>]

\* kill(pid[p], sig): only the process that has this pid is signalled; an
\* ESRCH is ignored by the server.
Kill(p, sig) ==
    pend' = IF Open(p) /\ pid[p] = PidOf(inc[p])
            THEN [pend EXCEPT ![p] = @ \cup {sig}] ELSE pend

\* Client p leaves main() or is killed by SIGPIPE.
Exit(p) ==
    /\ cli' = [cli EXCEPT ![p] = "gone"]
    /\ pend' = [pend EXCEPT ![p] = {}]
    /\ Retain(SrvOpen, OpenClients \ {p})

\* read() by client p of the other client's fifo has nothing to return yet.
BlockedInRead(p) == cli[p] = "recv" /\ toPeer[Other(p)] = <<>>

\* A handler runs: it sets its flag, and it interrupts pause(), or a read()
\* that has no data (no SA_RESTART: read() fails and the client breaks out).
Deliver(p, sig) ==
    /\ sig \in pend[p]
    /\ start' = IF sig = "SIGUSR1" THEN [start EXCEPT ![p] = TRUE] ELSE start
    /\ term'  = IF sig = "SIGTERM" THEN [term EXCEPT ![p] = TRUE] ELSE term
    /\ \/ /\ BlockedInRead(p)
          /\ Exit(p)
       \/ /\ ~BlockedInRead(p)
          /\ pend' = [pend EXCEPT ![p] = @ \ {sig}]
          /\ cli' = IF cli[p] = "paused" THEN [cli EXCEPT ![p] = "check"] ELSE cli
          /\ UNCHANGED fifos
    /\ UNCHANGED <<srvVars, inc, hand, his>>
-----------------------------------------------------------------------------
(***************************************************************************)
(* The server                                                              *)
(***************************************************************************)

\* create_and_open_fifo_or_die for the four fifos; an existing one is reused.
SrvSetup ==
    /\ srv = "setup"
    /\ srv' \in {"reg1", "failed"}
    /\ UNCHANGED <<pid, res, score, fifos, cliVars>>

\* read(fifo_c<p>_to_s_fd, &pid<p>, sizeof(pid_t))
SrvRegister(p) ==
    /\ srv = IF p = 1 THEN "reg1" ELSE "reg2"
    /\ toSrv[p] # <<>>
    /\ pid' = [pid EXCEPT ![p] = Head(toSrv[p])]
    /\ toSrv' = [toSrv EXCEPT ![p] = Tail(@)]
    /\ srv' = IF p = 1 THEN "reg2" ELSE "prompt"
    /\ UNCHANGED <<res, score, toPeer, cliVars>>

\* wait_for_enter returns on a newline and on end of file alike.
SrvEnter ==
    /\ srv = "prompt"
    /\ srv' = "kill1"
    /\ UNCHANGED <<pid, res, score, fifos, cliVars>>

\* Mutant: kill(pid1, SIGUSR1) is called twice.
SrvSignalFirst(p) ==
    /\ srv = IF p = 1 THEN "kill1" ELSE "kill2"
    /\ Kill(1, "SIGUSR1")
    /\ srv' = IF p = 1 THEN "kill2" ELSE "read1"
    /\ UNCHANGED <<pid, res, score, fifos, cli, inc, start, term, hand, his>>

SrvSignal(p) ==
    /\ srv = IF p = 1 THEN "kill1" ELSE "kill2"
    /\ Kill(p, "SIGUSR1")
    /\ srv' = IF p = 1 THEN "kill2" ELSE "read1"
    /\ UNCHANGED <<pid, res, score, fifos, cli, inc, start, term, hand, his>>

\* Mutant: the result of client 2 is not waited for.
AfterResultSkip(p) == "judge"

AfterResult(p) == IF p = 1 THEN "read2" ELSE "judge"

\* read(fifo_c<p>_to_s_fd, &r<p>, sizeof(ResultMsg)): two words are a result,
\* one word is a short read and ends the game.
SrvRead(p) ==
    /\ srv = IF p = 1 THEN "read1" ELSE "read2"
    /\ \/ /\ Len(toSrv[p]) = 1
          /\ toSrv' = [toSrv EXCEPT ![p] = <<>>]
          /\ srv' = "term1"
          /\ UNCHANGED res
       \/ /\ Len(toSrv[p]) >= 2
          /\ res' = [res EXCEPT ![p] = toSrv[p][2]]
          /\ toSrv' = [toSrv EXCEPT ![p] = SubSeq(@, 3, Len(@))]
          /\ srv' = AfterResult(p)
    /\ UNCHANGED <<pid, score, toPeer, cliVars>>

\* The comparison of the two results
Verdict(r1, r2) ==
    CASE r1 = WON /\ r2 = LOST -> "point1"
      [] r1 = LOST /\ r2 = WON -> "point2"
      [] r1 = TIE /\ r2 = TIE  -> "tie"
      [] OTHER                 -> "cheating"

Accuses == Verdict(res[1], res[2]) = "cheating"

\* Mutant: the game goes on until both scores are high enough.
GoesOnForBoth(sc) == \E p \in Players : sc[p] < WinScore

GoesOn(sc) == \A p \in Players : sc[p] < WinScore

\* The score and the test of the loop. (When a result is not one of the three
\* codes, printable_result returns no value: the server may also die here,
\* which SrvCrash allows at any point.)
SrvJudge ==
    /\ srv = "judge"
    /\ score' = CASE Verdict(res[1], res[2]) = "point1" -> [score EXCEPT ![1] = @ + 1]
                  [] Verdict(res[1], res[2]) = "point2" -> [score EXCEPT ![2] = @ + 1]
                  [] OTHER -> score
    /\ srv' = IF ~Accuses /\ GoesOn(score') THEN "prompt" ELSE "term1"
    /\ hand' = IF Accuses THEN hand ELSE [p \in Players |-> None]
    /\ UNCHANGED <<pid, res, fifos, cli, inc, pend, start, term, his>>

\* Mutant: client 2 is not told to end.
SrvTerminateOne(p) ==
    /\ srv = "term1" /\ p = 1
    /\ Kill(1, "SIGTERM")
    /\ srv' = "close"
    /\ UNCHANGED <<pid, res, score, fifos, cli, inc, start, term, hand, his>>

SrvTerminate(p) ==
    /\ srv = IF p = 1 THEN "term1" ELSE "term2"
    /\ Kill(p, "SIGTERM")
    /\ srv' = IF p = 1 THEN "term2" ELSE "close"
    /\ UNCHANGED <<pid, res, score, fifos, cli, inc, start, term, hand, his>>

\* close and unlink of the four fifos, return 0
SrvClose ==
    /\ srv = "close"
    /\ srv' = "done"
    /\ Retain(FALSE, OpenClients)
    /\ UNCHANGED <<pid, res, score, cliVars>>

\* The user interrupts the server, which handles no signal.
SrvCrash ==
    /\ SrvOpen
    /\ srv' = "crashed"
    /\ Retain(FALSE, OpenClients)
    /\ UNCHANGED <<pid, res, score, cliVars>>
-----------------------------------------------------------------------------
(***************************************************************************)
(* A client                                                                *)
(***************************************************************************)

\* Handlers are installed, then the three fifos are opened. Without a server
\* the client exits on ENOENT or stays blocked in open(): neither changes
\* anything another process can see.
CliOpen(p) ==
    /\ cli[p] = "off"
    /\ SrvOpen
    /\ cli' = [cli EXCEPT ![p] = "register"]
    /\ UNCHANGED <<srvVars, fifos, inc, pend, start, term, hand, his>>

CliRegister(p) ==
    /\ cli[p] = "register"
    /\ \/ /\ SrvOpen
          /\ toSrv' = [toSrv EXCEPT ![p] = Append(@, PidOf(inc[p]))]
          /\ cli' = [cli EXCEPT ![p] = "top"]
          /\ UNCHANGED <<toPeer, pend>>
       \/ ~SrvOpen /\ Exit(p)
    /\ UNCHANGED <<srvVars, inc, start, term, hand, his>>

\* pause() is entered whatever the flags say.
CliPause(p) ==
    /\ cli[p] = "top"
    /\ cli' = [cli EXCEPT ![p] = "paused"]
    /\ UNCHANGED <<srvVars, fifos, inc, pend, start, term, hand, his>>

\* pause() has returned: the flags are tested, SIGTERM first.
CliCheck(p) ==
    /\ cli[p] = "check"
    /\ \/ term[p] /\ Exit(p) /\ UNCHANGED start
       \/ /\ ~term[p]
          /\ cli' = [cli EXCEPT ![p] = IF start[p] THEN "send" ELSE "top"]
          /\ start' = [start EXCEPT ![p] = FALSE]
          /\ UNCHANGED <<fifos, pend>>
    /\ UNCHANGED <<srvVars, inc, term, hand, his>>

CliSend(p) ==
    /\ cli[p] = "send"
    /\ \E m \in Moves :
          /\ hand' = [hand EXCEPT ![p] = m]
          /\ \/ /\ PeerReader(p)
                /\ toPeer' = [toPeer EXCEPT ![p] = Append(@, m)]
                /\ cli' = [cli EXCEPT ![p] = "recv"]
                /\ UNCHANGED <<toSrv, pend>>
             \/ ~PeerReader(p) /\ Exit(p)
    /\ UNCHANGED <<srvVars, inc, start, term, his>>

\* read() returns a move, or 0 when nobody can write any more.
CliRecv(p) ==
    /\ cli[p] = "recv"
    /\ \/ /\ toPeer[Other(p)] # <<>>
          /\ his' = [his EXCEPT ![p] = Head(toPeer[Other(p)])]
          /\ toPeer' = [toPeer EXCEPT ![Other(p)] = Tail(@)]
          /\ cli' = [cli EXCEPT ![p] = "report"]
          /\ UNCHANGED <<toSrv, pend>>
       \/ /\ toPeer[Other(p)] = <<>> /\ ~PeerReader(p)
          /\ Exit(p)
          /\ UNCHANGED his
    /\ UNCHANGED <<srvVars, inc, start, term, hand>>

CliReport(p) ==
    /\ cli[p] = "report"
    /\ \/ /\ SrvOpen
          /\ toSrv' = [toSrv EXCEPT ![p] =
                @ \o <<PidOf(inc[p]), CheckWinner(hand[p], his[p])>>]
          /\ cli' = [cli EXCEPT ![p] = "top"]
          /\ UNCHANGED <<toPeer, pend>>
       \/ ~SrvOpen /\ Exit(p)
    /\ UNCHANGED <<srvVars, inc, start, term, hand, his>>

\* The client process is killed, and may be started again with a new pid.
CliCrash(p) ==
    /\ Open(p)
    /\ inc[p] < MaxInc
    /\ inc' = [inc EXCEPT ![p] = @ + 1]
    /\ cli' = [cli EXCEPT ![p] = "off"]
    /\ pend' = [pend EXCEPT ![p] = {}]
    /\ start' = [start EXCEPT ![p] = FALSE]
    /\ term' = [term EXCEPT ![p] = FALSE]
    /\ Retain(SrvOpen, OpenClients \ {p})
    /\ UNCHANGED <<srvVars, hand, his>>
-----------------------------------------------------------------------------
SrvStep ==
    \/ SrvSetup
    \/ \E p \in Players : SrvRegister(p) \/ SrvSignal(p) \/ SrvRead(p) \/ SrvTerminate(p)
    \/ SrvJudge
    \/ SrvClose

CliStep(p) ==
    \/ CliRegister(p) \/ CliPause(p) \/ CliCheck(p)
    \/ CliSend(p) \/ CliRecv(p) \/ CliReport(p)
    \/ \E sig \in Signals : Deliver(p, sig)

\* What the users do: nothing obliges them to.
User ==
    \/ SrvEnter
    \/ SrvCrash
    \/ \E p \in Players : CliOpen(p) \/ CliCrash(p)

Next == SrvStep \/ (\E p \in Players : CliStep(p)) \/ User

Spec == Init /\ [][Next]_vars

\* The kernel schedules every process that can run.
FairSpec == Spec /\ WF_vars(SrvStep) /\ \A p \in Players : WF_vars(CliStep(p))
-----------------------------------------------------------------------------
(***************************************************************************)
(* Properties                                                              *)
(***************************************************************************)

Words == Results \cup {PidOf(k) : k \in 1..MaxInc}

\* The variables keep the types the C declarations give them: scores never
\* pass WIN_SCORE, fifos to the server hold pids and results only.
TypeOK ==
    /\ srv \in SrvStates
    /\ pid \in [Players -> Words \cup {0}]
    /\ res \in [Players -> Words]
    /\ score \in [Players -> 0..WinScore]
    /\ toSrv \in [Players -> Seq(Words)]
    /\ toPeer \in [Players -> Seq(Moves)]
    /\ cli \in [Players -> CliStates]
    /\ inc \in [Players -> 1..MaxInc]
    /\ pend \in [Players -> SUBSET Signals]
    /\ start \in [Players -> BOOLEAN]
    /\ term \in [Players -> BOOLEAN]
    /\ hand \in [Players -> Moves \cup {None}]
    /\ his \in [Players -> Moves \cup {None}]

\* No process was killed.
NoCrash == srv # "crashed" /\ \A p \in Players : inc[p] = 1

\* The server says "Someone is cheating!" (mkfifo-server-02.c:145) only if a
\* client was killed and restarted: clients that follow the code always
\* report complementary results for the same round.
NoFalseAccusation == srv = "judge" /\ NoCrash => ~Accuses

\* A client plays only in a round the server has opened and not yet closed,
\* one SIGUSR1 buying exactly one round; when it works out its result, the
\* move it read from the other client is the one that client plays in this
\* very round, never a left-over of another round, even if clients are killed
\* and restarted (mkfifo-client-02.c:172-194, mkfifo-server-02.c:112-145).
PlaysThisRound ==
    \A p \in Players :
        /\ cli[p] \in {"send", "recv", "report"} =>
              srv \notin {"setup", "reg1", "reg2", "prompt", "kill1", "judge"}
        /\ cli[p] = "report" => his[p] = hand[Other(p)]

\* The two ends of every fifo stay in step: the server never has more than
\* one unread message of a client, a client never more than one unread move.
OneMessageInFlight ==
    NoCrash => \A p \in Players :
        /\ Len(toPeer[p]) <= 1
        /\ Len(toSrv[p]) <= 2
        /\ srv \in {"prompt", "kill1", "judge"} => toSrv[p] = <<>> /\ toPeer[p] = <<>>

\* A handler ran in the window between the tests of the flags and pause():
\* the client sleeps although it has been told to play or to stop.
LostWakeup(p) == cli[p] = "paused" /\ pend[p] = {} /\ (start[p] \/ term[p])

Undisturbed == NoCrash /\ ~\E p \in Players : LostWakeup(p)

\* Unless a wake-up is lost or a process is killed, a round that the server
\* opened is judged and the server comes back to the prompt or finishes.
RoundCompletes == []Undisturbed => (srv = "kill1" ~> srv \in {"prompt", "done"})

\* Unless a wake-up is lost or a process is killed, both clients leave once
\* the server has finished.
ClientsLeave == []Undisturbed => (srv = "done" ~> OpenClients = {})

\* mkfifo-client-02.c:85 "server uses SIGUSR1 to start a round": signalling
\* both clients is enough to have the round played, if nobody is killed.
SignalStartsRound == []NoCrash => (srv = "kill1" ~> srv \in {"prompt", "term1"})

\* The match the two clients and the server play is a game of rock, paper,
\* scissors in which every point goes to the hand that beats the other.
Game == INSTANCE RpsGame
          WITH table <- hand, over <- srv \notin
                 {"setup", "reg1", "reg2", "prompt", "kill1", "kill2", "read1", "read2", "judge"}
GameSpec == Game!GameSpec
-----------------------------------------------------------------------------
(***************************************************************************)
(* The inductive invariant of a match in which nobody is killed            *)
(***************************************************************************)

\* The server has read the pid of client p.
PidRead(p) == srv \notin {"setup", "failed", "reg1"} /\ ~(srv = "reg2" /\ p = 2)
\* The server has opened a round for client p and has not judged it.
InRound(p) == srv \in {"read1", "read2", "judge"} \/ (srv = "kill2" /\ p = 1)
\* The server has read the result of client p in this round.
Consumed(p) == srv = "judge" \/ (srv = "read2" /\ p = 1)
\* The match is over.
Ending == srv \in {"term1", "term2", "close", "done"}

\* How far client p has come in this round: it has sent its move, it has read
\* the other's, it has written its result.
Played(p)   == hand[p] # None
Told(p)     == Played(p) /\ cli[p] # "recv"
Reported(p) == Played(p) /\ cli[p] \notin {"recv", "report"}

\* Until the server has read its pid, a client only registers.
Registering(p) ==
    ~PidRead(p) =>
        /\ pend[p] = {} /\ ~start[p] /\ ~term[p]
        /\ \/ cli[p] \in {"off", "register"} /\ toSrv[p] = <<>>
           \/ cli[p] \in {"top", "paused"} /\ toSrv[p] = <<PidOf(inc[p])>>
        /\ srv \in {"setup", "failed"} => cli[p] = "off"

\* Between rounds a client waits; only the end of the match wakes it up.
Waiting(p) ==
    PidRead(p) /\ ~InRound(p) =>
        /\ cli[p] \in {"top", "paused", "check", "gone"}
        /\ ~start[p] /\ "SIGUSR1" \notin pend[p]
        /\ toSrv[p] = <<>>
        /\ pend[p] # {} \/ term[p] \/ cli[p] \in {"check", "gone"} => Ending

\* In a round, SIGUSR1 passes from pending to the flag to the move.
Playing(p) ==
    InRound(p) =>
        /\ cli[p] \in {"top", "paused", "check", "send", "recv", "report"}
        /\ pend[p] \subseteq {"SIGUSR1"} /\ ~term[p]
        /\ pend[p] # {} => ~start[p] /\ ~Played(p) /\ cli[p] \in {"top", "paused"}
        /\ start[p] => ~Played(p) /\ cli[p] \in {"top", "paused", "check"}
        /\ cli[p] = "check" => start[p]
        /\ cli[p] = "send" => ~Played(p)
        /\ cli[p] \in {"recv", "report"} => Played(p)
        /\ toSrv[p] = IF Reported(p) /\ ~Consumed(p)
                      THEN <<PidOf(inc[p]), CheckWinner(hand[p], hand[Other(p)])>> ELSE <<>>

\* The moves: in flight from the moment they are sent to the moment they are
\* read, and forgotten outside a round.
Exchange(p) ==
    /\ ~InRound(p) => ~Played(p)
    /\ toPeer[p] = IF Played(p) /\ ~Told(Other(p)) THEN <<hand[p]>> ELSE <<>>
    /\ Told(p) => his[p] = hand[Other(p)] /\ Played(Other(p))
    /\ Consumed(p) => Reported(p) /\ res[p] = CheckWinner(hand[p], hand[Other(p)])

RoundInv ==
    NoCrash => \A p \in Players :
        Registering(p) /\ Waiting(p) /\ Playing(p) /\ Exchange(p)

\* Until the match is over nobody has enough points.
ScoreInv == ~Ending /\ srv # "crashed" => \A p \in Players : score[p] < WinScore
-----------------------------------------------------------------------------
(***************************************************************************)
(* The inductive invariant of a match in which processes may be killed     *)
(***************************************************************************)

\* The pid that the server has is the one of the client that runs now: only
\* such a client is ever signalled.
Known(p) == pid[p] = PidOf(inc[p])
\* The server has not opened the next round for client p.
BeforeRound(p) == srv \in {"setup", "reg1", "reg2", "prompt", "kill1"} \/ (srv = "kill2" /\ p = 2)
\* Client p has nothing left to do in this round.
Settled(p) ==
    /\ hand[p] # None /\ hand[Other(p)] # None
    /\ toPeer[Other(p)] = <<>>
    /\ cli[p] \notin {"send", "recv", "report"}

\* The server learns one pid of each client. A client that was started again
\* can only have written its pid, which is then the last word of its fifo,
\* and gone to sleep.
Acquainted(p) ==
    /\ srv \in {"setup", "reg1"} \/ (srv = "reg2" /\ p = 2) => pid[p] = 0
    /\ pid[p] <= PidOf(inc[p])
    /\ Known(p) => cli[p] \notin {"off", "register"}
    /\ ~Known(p) => /\ pend[p] = {} /\ ~start[p]
                    /\ cli[p] \in {"off", "register", "top", "paused", "gone"}
    /\ \A i \in DOMAIN toSrv[p] :
          /\ toSrv[p][i] <= PidOf(inc[p])
          /\ ~Known(p) /\ toSrv[p][i] = PidOf(inc[p]) =>
                i = Len(toSrv[p]) /\ cli[p] \notin {"off", "register"}

\* SIGUSR1 is one token: pending, then in the flag, then spent on one move.
OneToken(p) ==
    /\ "SIGUSR1" \in pend[p] \/ start[p] \/ cli[p] = "send" => hand[p] = None /\ ~BeforeRound(p)
    /\ "SIGUSR1" \in pend[p] => ~start[p]
    /\ cli[p] = "send" => "SIGUSR1" \notin pend[p] /\ ~start[p]

\* Moves are those of this round, and a client that knows the other's move
\* has emptied the fifo.
OneMove(p) ==
    /\ BeforeRound(p) => hand[p] = None
    /\ cli[p] \in {"recv", "report"} => hand[p] # None
    /\ toPeer[p] # <<>> => hand[p] # None /\ toPeer[p] = <<hand[p]>>
    /\ cli[p] = "report" => /\ hand[Other(p)] # None /\ his[p] = hand[Other(p)]
                            /\ toPeer[Other(p)] = <<>>

\* What the server reads as a result is one of this round, or it is a pid.
OneResult(p) ==
    /\ \A i \in DOMAIN toSrv[p] :
          toSrv[p][i] \in Results =>
              /\ i = 2 /\ Settled(p) /\ ~Consumed(p)
              /\ toSrv[p][i] = CheckWinner(hand[p], hand[Other(p)])
    /\ Known(p) /\ toSrv[p] # <<>> => Len(toSrv[p]) = 2 /\ toSrv[p][2] \in Results
    /\ Consumed(p) /\ (Known(p) \/ res[p] \in Results) =>
          Settled(p) /\ res[p] = CheckWinner(hand[p], hand[Other(p)])

RestartInv == \A p \in Players : Acquainted(p) /\ OneToken(p) /\ OneMove(p) /\ OneResult(p)
=============================================================================
