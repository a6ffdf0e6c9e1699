---------------------------- MODULE GuessSocket -----------------------------
(***************************************************************************)
(* The guess race over a UNIX stream socket:                               *)
(* 01-guess-race-socket-server.c and its clients,                          *)
(* 01-guess-race-socket-client.c.                                          *)
(*                                                                         *)
(* The first two clients that connect play. A connection is a stream of    *)
(* 4-byte words in each direction: StartMsg, GuessMsg and a pid are one    *)
(* word, a ResultMsg is three, and nothing in the stream tells them apart. *)
(***************************************************************************)
EXTENDS Integers, Sequences

CONSTANTS
    NClients,   \* bound: client processes that are started
    WinScore,   \* WIN_SCORE
    MaxRand,    \* MAX_RAND
    None,       \* no secret, no guess
    Uninit      \* the content of memory that was never written

ASSUME NClientsAssumption == NClients \in Nat \ {0}
ASSUME WinScoreAssumption == WinScore \in Nat \ {0}
ASSUME MaxRandAssumption  == MaxRand \in Nat \ {0}
ASSUME NoneAssumption     == None \notin Int /\ Uninit \notin Int

VARIABLES
    srv,        \* where the server is in main()
    open,       \* the server has its sockets open, and listens
    file,       \* SOCKET_PATH exists
    backlog,    \* clients connected and not accepted yet
    ci,         \* ci1, ci2: the client at the other end, 0 before accept()
    pid,        \* ci1.pid, ci2.pid: 0 before they are read
    score,      \* score1, score2
    secret,     \* secret; None outside a round
    guess,      \* g1.guess, g2.guess; None until read in this round
    msg,        \* result_msg1, result_msg2
    up,         \* words sent by client c and not read
    down,       \* words sent to client c and not read
    cli,        \* where client c is in main()
    term,       \* got_term_signal
    startMsg,   \* the last word client c has read into start_msg
    resMsg,     \* result_msg of client c
    sent,       \* history: the guess of client c in this round
    verdict,    \* what client c has printed at the end
    noPipeSig   \* SIGPIPE was ignored by whoever started the processes

srvVars == <<srv, open, file, backlog, ci, pid, score, secret, guess, msg>>
cliVars == <<cli, term, startMsg, resMsg, verdict>>
vars == <<srv, open, file, backlog, ci, pid, score, secret, guess, msg, up, down,
          cli, term, startMsg, resMsg, sent, verdict, noPipeSig>>

Clients == 1..NClients
Players == {1, 2}               \* the two ClientInfo of the server
Other(i) == 3 - i

WON  == 0
LOSE == 1
TIE  == 2

\* pids are larger than any other word, as they are on a running system.
PidOf(c) == 100 + c

\* "noSocket": returned 1 because there is no socket, with nothing cleaned up
Left   == {"done", "failed", "killed", "noSocket"}
SrvStates == {"setup", "accept1", "pid1", "accept2", "pid2", "prompt", "start1",
              "start2", "guess1", "guess2", "judge", "result1", "result2", "final",
              "final1", "final2", "kill", "cleanup"} \cup Left
CliStates == {"off", "writePid", "top", "readStart", "guess", "readResult", "gone"}

\* The server is at its step `one` for player 1, `two` for player 2.
SrvAt(i, one, two) == srv = IF i = 1 THEN one ELSE two

Gone(c) == cli[c] = "gone"
Distance(g) == IF g < secret THEN secret - g ELSE g - secret
-----------------------------------------------------------------------------
Init ==
    /\ srv = "setup"
    /\ open = FALSE
    /\ file \in BOOLEAN             \* a server that was killed leaves it behind
    /\ backlog = <<>>
    /\ ci = [i \in Players |-> 0]
    /\ pid = [i \in Players |-> 0]
    /\ score = [i \in Players |-> 0]
    /\ secret = None
    /\ guess = [i \in Players |-> None]
    /\ msg = [i \in Players |-> <<Uninit, Uninit, Uninit>>]
    /\ up = [c \in Clients |-> <<>>]
    /\ down = [c \in Clients |-> <<>>]
    /\ cli = [c \in Clients |-> "off"]
    /\ term = [c \in Clients |-> FALSE]
    /\ startMsg = [c \in Clients |-> 0]
    /\ resMsg = [c \in Clients |-> <<Uninit, Uninit, Uninit>>]
    /\ sent = [c \in Clients |-> None]
    /\ verdict = [c \in Clients |-> "none"]
    /\ noPipeSig \in BOOLEAN
-----------------------------------------------------------------------------
(***************************************************************************)
(* The server                                                              *)
(***************************************************************************)

\* kill(pid, SIGTERM) to the registered clients that still run.
KillBoth ==
    term' = [c \in Clients |->
               term[c] \/ (~Gone(c) /\ \E i \in Players : pid[i] = PidOf(c))]

\* Mutant: the clients are not signalled.
CleanupNoKill ==
    /\ UNCHANGED term
    /\ open' = FALSE
    /\ file' = FALSE

\* cleanup_server: SIGTERM to the known pids, the sockets closed, the file
\* unlinked. It may run twice; the second time there is nothing to close.
CleanupServer ==
    /\ KillBoth
    /\ open' = FALSE
    /\ file' = FALSE

\* The process ends without a cleanup: the kernel closes its sockets.
SrvKilled ==
    /\ srv' = "killed"
    /\ open' = FALSE
    /\ UNCHANGED <<file, term>>

\* socket, unlink, bind, listen. If socket() fails main() returns at once and
\* leaves a file of an earlier server where it is; a failed bind() or listen()
\* cleans up.
SrvSetup ==
    /\ srv = "setup"
    /\ \/ srv' = "accept1" /\ open' = TRUE /\ file' = TRUE /\ UNCHANGED term
       \/ srv' = "noSocket" /\ UNCHANGED <<open, file, term>>
       \/ srv' = "failed" /\ CleanupServer
    /\ UNCHANGED <<backlog, ci, pid, score, secret, guess, msg, up, down,
                   cli, startMsg, resMsg, sent, verdict, noPipeSig>>

SrvAccept(i) ==
    /\ SrvAt(i, "accept1", "accept2")
    /\ backlog # <<>>
    /\ ci' = [ci EXCEPT ![i] = Head(backlog)]
    /\ backlog' = Tail(backlog)
    /\ srv' = IF i = 1 THEN "pid1" ELSE "pid2"
    /\ UNCHANGED <<open, file, pid, score, secret, guess, msg, up, down, cliVars, sent, noPipeSig>>

\* accept() returns -1, whether a client waits or not: the server cleans up
\* and returns 1.
SrvAcceptFails(i) ==
    /\ SrvAt(i, "accept1", "accept2")
    /\ srv' = "failed"
    /\ CleanupServer
    /\ UNCHANGED <<backlog, ci, pid, score, secret, guess, msg, up, down,
                   cli, startMsg, resMsg, sent, verdict, noPipeSig>>

\* Mutant: 0 bytes are taken for an interrupted read, and read again.
SrvReadWordForever(i, next) ==
    /\ up[ci[i]] # <<>>
    /\ up' = [up EXCEPT ![ci[i]] = Tail(@)]
    /\ srv' = next
    /\ UNCHANGED <<open, file, term>>

\* read_full of one word from player i: the word, or 0 bytes when the client
\* has closed; then the server cleans up and returns 1.
SrvReadWord(i, next) ==
    \/ /\ up[ci[i]] # <<>>
       /\ up' = [up EXCEPT ![ci[i]] = Tail(@)]
       /\ srv' = next
       /\ UNCHANGED <<open, file, term>>
    \/ /\ up[ci[i]] = <<>> /\ Gone(ci[i])
       /\ srv' = "failed"
       /\ CleanupServer
       /\ UNCHANGED up

SrvReadPid(i) ==
    /\ SrvAt(i, "pid1", "pid2")
    /\ SrvReadWord(i, IF i = 1 THEN "accept2" ELSE "prompt")
    /\ pid' = IF up[ci[i]] # <<>> THEN [pid EXCEPT ![i] = Head(up[ci[i]])] ELSE pid
    /\ UNCHANGED <<backlog, ci, score, secret, guess, msg, down, cli, startMsg, resMsg,
                   sent, verdict, noPipeSig>>

\* fgets returns a line and a secret is drawn, or it returns end of file.
SrvPrompt ==
    /\ srv = "prompt"
    /\ \/ srv' = "start1" /\ secret' \in 1..MaxRand
       \/ srv' = "final" /\ UNCHANGED secret
    /\ UNCHANGED <<open, file, backlog, ci, pid, score, guess, msg, up, down, cliVars, sent, noPipeSig>>

\* write_full to player i. A client that is gone raises SIGPIPE, which kills
\* the server; if SIGPIPE is ignored, write fails, the server cleans up and
\* goes on at `onError`. After a cleanup the descriptor is closed: EBADF.
SrvWrite(i, words, next, onError) ==
    \/ /\ open /\ ~Gone(ci[i])
       /\ down' = [down EXCEPT ![ci[i]] = @ \o words]
       /\ srv' = next
       /\ UNCHANGED <<open, file, term>>
    \/ /\ open /\ Gone(ci[i]) /\ ~noPipeSig
       /\ SrvKilled
       /\ UNCHANGED down
    \/ /\ ~open \/ (Gone(ci[i]) /\ noPipeSig)
       /\ srv' = onError
       /\ CleanupServer
       /\ UNCHANGED down

SrvSendStart(i) ==
    /\ SrvAt(i, "start1", "start2")
    /\ SrvWrite(i, <<1>>, IF i = 1 THEN "start2" ELSE "guess1", "final")
    /\ UNCHANGED <<backlog, ci, pid, score, secret, guess, msg, up, cli, startMsg, resMsg,
                   sent, verdict, noPipeSig>>

SrvReadGuess(i) ==
    /\ SrvAt(i, "guess1", "guess2")
    /\ SrvReadWord(i, IF i = 1 THEN "guess2" ELSE "judge")
    /\ guess' = IF up[ci[i]] # <<>> THEN [guess EXCEPT ![i] = Head(up[ci[i]])] ELSE guess
    /\ UNCHANGED <<backlog, ci, pid, score, secret, msg, down, cli, startMsg, resMsg,
                   sent, verdict, noPipeSig>>

\* Mutant: a tie is a point for the first player.
RoundResultTieToFirst(i) ==
    IF Distance(guess[1]) <= Distance(guess[2])
    THEN IF i = 1 THEN WON ELSE LOSE
    ELSE IF i = 1 THEN LOSE ELSE WON

\* The result of player i's guess; a tie gives both a point.
RoundResult(i) ==
    IF Distance(guess[i]) < Distance(guess[Other(i)]) THEN WON
    ELSE IF Distance(guess[Other(i)]) < Distance(guess[i]) THEN LOSE ELSE TIE

\* Mutant: each player is sent the result of the other.
RoundMsgCrossed(i, sc) == <<RoundResult(Other(i)), sc[i], sc[Other(i)]>>

\* Mutant: the server's ResultMsg has a field the client's has not.
RoundMsgSecret(i, sc) == <<RoundResult(i), sc[i], sc[Other(i)], secret>>

RoundMsg(i, sc) == <<RoundResult(i), sc[i], sc[Other(i)]>>

SrvJudge ==
    /\ srv = "judge"
    /\ score' = [i \in Players |-> IF RoundResult(i) = LOSE THEN score[i] ELSE score[i] + 1]
    /\ msg' = [i \in Players |-> RoundMsg(i, score')]
    /\ secret' = None
    /\ guess' = [i \in Players |-> None]
    /\ sent' = [c \in Clients |-> IF \E i \in Players : ci[i] = c THEN None ELSE sent[c]]
    /\ srv' = "result1"
    /\ UNCHANGED <<open, file, backlog, ci, pid, up, down, cliVars, noPipeSig>>

GoesOn == \A k \in Players : score[k] < WinScore

\* The result of the round, to each player; then the test of the loop.
SrvSendResult(i) ==
    /\ SrvAt(i, "result1", "result2")
    /\ SrvWrite(i, msg[i],
                IF i = 1 THEN "result2" ELSE IF GoesOn THEN "prompt" ELSE "final",
                "final")
    /\ UNCHANGED <<backlog, ci, pid, score, secret, guess, msg, up, cli, startMsg, resMsg,
                   sent, verdict, noPipeSig>>

\* After the loop: the result of the game replaces that of the last round;
\* the scores in the messages stay.
GameResult(i) ==
    IF score[i] > score[Other(i)] THEN WON
    ELSE IF score[Other(i)] > score[i] THEN LOSE ELSE TIE

SrvFinal ==
    /\ srv = "final"
    /\ msg' = [i \in Players |-> <<GameResult(i), msg[i][2], msg[i][3]>>]
    /\ srv' = "final1"
    /\ UNCHANGED <<open, file, backlog, ci, pid, score, secret, guess, up, down, cliVars, sent, noPipeSig>>

SrvSendFinal(i) ==
    /\ SrvAt(i, "final1", "final2")
    /\ SrvWrite(i, msg[i], IF i = 1 THEN "final2" ELSE "kill", "failed")
    /\ UNCHANGED <<backlog, ci, pid, score, secret, guess, msg, up, cli, startMsg, resMsg,
                   sent, verdict, noPipeSig>>

\* kill() fails if a client is gone (unless nobody has reaped it yet): then
\* the server cleans up at once and returns 1. Otherwise it returns 0.
SrvKill ==
    /\ srv = "kill"
    /\ \/ KillBoth /\ srv' = "cleanup" /\ UNCHANGED <<open, file>>
       \/ /\ \E i \in Players : Gone(ci[i])
          /\ srv' = "failed"
          /\ CleanupServer
    /\ UNCHANGED <<backlog, ci, pid, score, secret, guess, msg, up, down,
                   cli, startMsg, resMsg, sent, verdict, noPipeSig>>

SrvCleanup ==
    /\ srv = "cleanup"
    /\ srv' = "done"
    /\ CleanupServer
    /\ UNCHANGED <<backlog, ci, pid, score, secret, guess, msg, up, down,
                   cli, startMsg, resMsg, sent, verdict, noPipeSig>>

\* The user interrupts the server, which handles no signal.
SrvInterrupt ==
    /\ srv \notin Left \cup {"setup"}
    /\ SrvKilled
    /\ UNCHANGED <<backlog, ci, pid, score, secret, guess, msg, up, down,
                   cli, startMsg, resMsg, sent, verdict, noPipeSig>>
-----------------------------------------------------------------------------
(***************************************************************************)
(* A client. SIGTERM is handled from the start; a read it interrupts is    *)
(* restarted by read_full.                                                 *)
(***************************************************************************)

\* connect() succeeds while the server listens; otherwise the client returns
\* 1 and could be started again, which nobody can tell from waiting.
CliConnect(c) ==
    /\ cli[c] = "off"
    /\ open
    /\ backlog' = Append(backlog, c)
    /\ cli' = [cli EXCEPT ![c] = "writePid"]
    /\ UNCHANGED <<srv, open, file, ci, pid, score, secret, guess, msg, up, down, term,
                   startMsg, resMsg, sent, verdict, noPipeSig>>

\* What is printed last depends on result_msg.result alone.
Verdicts(w) ==
    CASE w = Uninit -> {"win", "lose", "tie"}
      [] w = WON    -> {"win"}
      [] w = LOSE   -> {"lose"}
      [] OTHER      -> {"tie"}

\* Mutant: continue instead of break.
FinishGoOn(c, r) == cli' = [cli EXCEPT ![c] = "top"] /\ UNCHANGED <<resMsg, verdict>>

\* break out of the loop with message r in result_msg, print and return 0
Finish(c, r) ==
    /\ cli' = [cli EXCEPT ![c] = "gone"]
    /\ resMsg' = [resMsg EXCEPT ![c] = r]
    /\ \E v \in Verdicts(r[1]) : verdict' = [verdict EXCEPT ![c] = v]

\* The client ends and prints no outcome.
Vanish(c) ==
    /\ cli' = [cli EXCEPT ![c] = "gone"]
    /\ UNCHANGED <<resMsg, verdict>>

\* On a closed connection write_full dies of SIGPIPE, or fails and exits.
CliWritePid(c) ==
    /\ cli[c] = "writePid"
    /\ \/ /\ open
          /\ up' = [up EXCEPT ![c] = Append(@, PidOf(c))]
          /\ cli' = [cli EXCEPT ![c] = "top"]
          /\ UNCHANGED <<resMsg, verdict>>
       \/ ~open /\ Vanish(c) /\ UNCHANGED up
    /\ UNCHANGED <<srvVars, down, term, startMsg, sent, noPipeSig>>

CliTop(c) ==
    /\ cli[c] = "top"
    /\ \/ term[c] /\ Finish(c, resMsg[c])
       \/ ~term[c] /\ cli' = [cli EXCEPT ![c] = "readStart"] /\ UNCHANGED <<resMsg, verdict>>
    /\ UNCHANGED <<srvVars, up, down, term, startMsg, sent, noPipeSig>>

\* start_msg.start == 1, for a word that may never have been written
IsOne(w) == IF w = Uninit THEN BOOLEAN ELSE {w = 1}

CliReadStart(c) ==
    /\ cli[c] = "readStart"
    /\ \/ /\ down[c] # <<>>
          /\ startMsg' = [startMsg EXCEPT ![c] = Head(down[c])]
          /\ down' = [down EXCEPT ![c] = Tail(@)]
          /\ \E play \in IsOne(Head(down[c])) :
                cli' = [cli EXCEPT ![c] = IF play THEN "guess" ELSE "top"]
          /\ UNCHANGED <<resMsg, verdict>>
       \/ /\ down[c] = <<>> /\ ~open
          /\ Finish(c, resMsg[c])
          /\ UNCHANGED <<down, startMsg>>
    /\ UNCHANGED <<srvVars, up, term, sent, noPipeSig>>

CliGuess(c) ==
    /\ cli[c] = "guess"
    /\ \E g \in 1..MaxRand :
          \/ /\ open
             /\ up' = [up EXCEPT ![c] = Append(@, g)]
             /\ sent' = [sent EXCEPT ![c] = g]
             /\ cli' = [cli EXCEPT ![c] = "readResult"]
             /\ UNCHANGED <<resMsg, verdict>>
          \/ /\ ~open
             /\ IF noPipeSig THEN Finish(c, resMsg[c]) ELSE Vanish(c)
             /\ UNCHANGED <<up, sent>>
    /\ UNCHANGED <<srvVars, down, term, startMsg, noPipeSig>>

\* read_full stores what it gets as it comes: when the stream ends early,
\* the first words of result_msg are new and the others are old.
Overwrite(old, words) == [k \in 1..3 |-> IF k <= Len(words) THEN words[k] ELSE old[k]]

CliReadResult(c) ==
    /\ cli[c] = "readResult"
    /\ \/ /\ Len(down[c]) >= 3
          /\ resMsg' = [resMsg EXCEPT ![c] = SubSeq(down[c], 1, 3)]
          /\ down' = [down EXCEPT ![c] = SubSeq(@, 4, Len(@))]
          /\ cli' = [cli EXCEPT ![c] = "top"]
          /\ UNCHANGED verdict
       \/ /\ Len(down[c]) < 3 /\ ~open
          /\ Finish(c, Overwrite(resMsg[c], down[c]))
          /\ down' = [down EXCEPT ![c] = <<>>]
    /\ UNCHANGED <<srvVars, up, term, startMsg, sent, noPipeSig>>

\* The user interrupts client c.
CliInterrupt(c) ==
    /\ cli[c] \notin {"off", "gone"}
    /\ Vanish(c)
    /\ UNCHANGED <<srvVars, up, down, term, startMsg, sent, noPipeSig>>
-----------------------------------------------------------------------------
SrvStep ==
    \/ SrvSetup
    \/ \E i \in Players :
          \/ SrvAccept(i) \/ SrvReadPid(i) \/ SrvSendStart(i)
          \/ SrvReadGuess(i) \/ SrvSendResult(i) \/ SrvSendFinal(i)
    \/ SrvJudge \/ SrvFinal \/ SrvKill \/ SrvCleanup

CliStep(c) ==
    CliWritePid(c) \/ CliTop(c) \/ CliReadStart(c) \/ CliGuess(c) \/ CliReadResult(c)

\* What the users do, and an accept() that fails: nothing obliges them to.
User ==
    \/ SrvPrompt
    \/ SrvInterrupt
    \/ \E i \in Players : SrvAcceptFails(i)
    \/ \E c \in Clients : CliConnect(c) \/ CliInterrupt(c)

Next == SrvStep \/ (\E c \in Clients : CliStep(c)) \/ User

Spec == Init /\ [][Next]_vars

\* The kernel schedules every process that can run.
FairSpec == Spec /\ WF_vars(SrvStep) /\ \A c \in Clients : WF_vars(CliStep(c))
-----------------------------------------------------------------------------
(***************************************************************************)
(* Properties                                                              *)
(***************************************************************************)

\* The race is on: the server is in its loop or before it.
Racing == srv \notin {"final", "final1", "final2", "kill", "cleanup"} \cup Left
\* Player i is connected and its process runs.
Here(i) == ci[i] # 0 /\ ~Gone(ci[i])

ScoreWord == (0..WinScore) \cup {Uninit}
Word == (0..2) \cup ScoreWord \cup (1..MaxRand) \cup {PidOf(c) : c \in Clients}

\* The variables keep the types the C declarations give them; the scores
\* never pass WIN_SCORE.
TypeOK ==
    /\ srv \in SrvStates
    /\ open \in BOOLEAN /\ file \in BOOLEAN /\ noPipeSig \in BOOLEAN
    /\ backlog \in Seq(Clients)
    /\ ci \in [Players -> 0..NClients]
    /\ pid \in [Players -> Word]
    /\ score \in [Players -> 0..WinScore]
    /\ secret \in (1..MaxRand) \cup {None}
    /\ guess \in [Players -> Word \cup {None}]
    /\ msg \in [Players -> Seq(Word)]
    /\ up \in [Clients -> Seq(Word)]
    /\ down \in [Clients -> Seq(Word)]
    /\ cli \in [Clients -> CliStates]
    /\ term \in [Clients -> BOOLEAN]
    /\ startMsg \in [Clients -> Word]
    /\ resMsg \in [Clients -> Seq(Word)]
    /\ sent \in [Clients -> (1..MaxRand) \cup {None}]
    /\ verdict \in [Clients -> {"none", "win", "lose", "tie"}]

\* When the server prompts for a round, the streams hold nothing but a result
\* a player has not read yet: no guess is left over for the next round and no
\* player is one message behind (main loops of server and client); a player
\* that has read its last result has the scores of the server, its own first,
\* and the result that goes with the other's (server lines 289-292).
InStep ==
    srv = "prompt" => \A i \in Players :
        /\ up[ci[i]] = <<>>
        /\ down[ci[i]] \in {<<>>, msg[i]}
        /\ down[ci[i]] # <<>> => cli[ci[i]] \in {"readResult", "gone"}
        /\ (\E k \in Players : score[k] > 0) /\ Here(i) /\ down[ci[i]] = <<>> =>
               \E r \in {WON, LOSE, TIE} :
                   /\ resMsg[ci[i]] = <<r, score[i], score[Other(i)]>>
                   /\ msg[Other(i)][1] = (CASE r = WON -> LOSE [] r = LOSE -> WON [] r = TIE -> TIE)

\* While the race is on, what a client reads into a StartMsg is a start flag
\* and what it reads into a ResultMsg is a result and two scores, although the
\* stream is not framed.
Framing ==
    Racing => \A c \in Clients :
        /\ startMsg[c] \in {0, 1}
        /\ resMsg[c][1] \in {WON, LOSE, TIE, Uninit}
        /\ \A k \in {2, 3} : resMsg[c][k] \in ScoreWord

\* In a race that went to WIN_SCORE and whose results were all written, the
\* player with more points is never told at the end that it has lost.
WinnerNeverToldLose ==
    srv \in {"kill", "cleanup", "done"} =>
        \A i \in Players : score[i] = WinScore /\ score[Other(i)] < WinScore =>
            verdict[ci[i]] # "lose"

\* Once it has a socket (server line 131), however main() returns, the socket
\* file is gone, the sockets are closed and every registered client has ended
\* or has been sent SIGTERM (cleanup_server on every path from there). Not so
\* "noSocket", the return of line 128: the file of an earlier server stays.
ReturnCleansUp ==
    srv \in {"done", "failed"} =>
        /\ ~file /\ ~open
        /\ \A i \in Players : pid[i] # 0 => Gone(ci[i]) \/ term[ci[i]]

\* When the server is gone, in whatever way, its clients end too, those still
\* waiting in the backlog included.
ClientsLeave == srv \in Left ~> \A c \in Clients : cli[c] \in {"off", "gone"}

\* A round that the server has started ends at the next prompt or with the
\* end of the server, even if a client is killed in the middle of it.
RoundEnds == srv = "start1" ~> srv \in {"prompt"} \cup Left

\* 01-guess-race-socket-client.c:20 "can be 0 or 1": what a client reads into
\* start_msg.start.
StartIsFlag == \A c \in Clients : startMsg[c] \in {0, 1}

\* The race the processes run is a guess race in which every point goes to a
\* guess that is at least as close as the other.
Game == INSTANCE GuessGame
          WITH table <- [i \in Players |-> IF ci[i] = 0 THEN None ELSE sent[ci[i]]],
               secret <- secret,
               over <- ~Racing
GameSpec == Game!GameSpec
-----------------------------------------------------------------------------
(***************************************************************************)
(* The inductive invariant                                                 *)
(***************************************************************************)
Unready == <<Uninit, Uninit, Uninit>>
RoundResults == {WON, LOSE, TIE} \X (0..WinScore) \X (0..WinScore)
Plays(c) == \E i \in Players : ci[i] = c

\* Client c has not been accepted, or its pid has not been read.
Waiting(c) ==
    /\ down[c] = <<>> /\ sent[c] = None /\ resMsg[c] = Unready
    /\ \/ cli[c] \in {"off", "writePid", "gone"} /\ up[c] = <<>>
       \/ cli[c] \in {"top", "readStart", "gone"} /\ up[c] = <<PidOf(c)>>

\* Client c has r from its last round, or has it still to read.
AtRest(c, r) ==
    /\ up[c] = <<>> /\ sent[c] = None
    /\ \/ down[c] = r /\ r \in RoundResults /\ cli[c] \in {"readResult", "gone"}
       \/ down[c] = <<>> /\ (cli[c] = "gone" \/ (cli[c] \in {"top", "readStart"} /\ resMsg[c] = r))

\* Client c has been sent the start flag, and its guess is not read.
Asked(c, r) ==
    \/ /\ up[c] = <<>> /\ sent[c] = None
       /\ \/ down[c] = r \o <<1>> /\ r \in RoundResults /\ cli[c] \in {"readResult", "gone"}
          \/ down[c] = <<1>> /\ cli[c] \in {"top", "readStart", "gone"}
          \/ down[c] = <<>> /\ cli[c] \in {"guess", "gone"}
    \/ /\ up[c] = <<sent[c]>> /\ sent[c] \in 1..MaxRand
       /\ down[c] = <<>> /\ cli[c] \in {"readResult", "gone"}

\* The guess g of client c has been read (None: and judged).
Answered(c, g) ==
    up[c] = <<>> /\ sent[c] = g /\ down[c] = <<>> /\ cli[c] \in {"readResult", "gone"}

\* Where a player is, by the step of the server
PlayerInv(i) ==
    LET c == ci[i]
        Step(one, two) == srv \in IF i = 1 THEN one ELSE two
    IN  /\ Step({"setup", "accept1"}, {"setup", "accept1", "pid1", "accept2"}) => c = 0
        /\ SrvAt(i, "pid1", "pid2") => c # 0 /\ pid[i] = 0 /\ Waiting(c)
        /\ Step({"accept2", "pid2", "prompt", "start1", "result2"}, {"prompt", "start1", "start2"}) =>
              c # 0 /\ AtRest(c, msg[i])
        /\ Step({"start2", "guess1"}, {"guess1", "guess2"}) => c # 0 /\ Asked(c, msg[i])
        /\ Step({"guess2", "judge"}, {"judge"}) =>
              c # 0 /\ guess[i] \in 1..MaxRand /\ Answered(c, guess[i])
        /\ Step({"result1"}, {"result1", "result2"}) => c # 0 /\ Answered(c, None)

\* Who is who
Acquaintance ==
    /\ ci[1] = ci[2] => ci[1] = 0
    /\ \A i \in Players : /\ pid[i] # 0 => ci[i] # 0 /\ pid[i] = PidOf(ci[i])
                          /\ ci[i] # 0 => cli[ci[i]] # "off"
    /\ \A k \in 1..Len(backlog) : cli[backlog[k]] # "off" /\ ~Plays(backlog[k])
    /\ \A k, l \in 1..Len(backlog) : backlog[k] = backlog[l] => k = l

\* What the steps of the server say of its sockets and of its clients
Service ==
    /\ Racing => (open <=> srv # "setup") /\ \A c \in Clients : ~term[c]
    /\ srv = "setup" => \A c \in Clients : cli[c] = "off"
    /\ srv \in {"kill", "cleanup"} => open
    /\ srv \in Left => ~open
    /\ srv \in {"done", "failed"} =>
          ~file /\ \A i \in Players : pid[i] # 0 => Gone(ci[i]) \/ term[ci[i]]
    /\ \A c \in Clients : Racing \/ ~Gone(c) => verdict[c] = "none"
    /\ Racing \/ open => \A c \in Clients : ~Plays(c) => Waiting(c)

\* Secret, scores and messages of a round
Rounds ==
    /\ Racing => /\ secret # None <=> srv \in {"start1", "start2", "guess1", "guess2", "judge"}
                 /\ srv \notin {"result1", "result2"} => \A i \in Players : score[i] < WinScore
                 /\ \A c \in Clients : startMsg[c] \in {0, 1} /\ resMsg[c] \in RoundResults \cup {Unready}
    /\ srv \in {"result1", "result2", "final"} =>
          \A i \in Players : score[i] = WinScore => msg[i][1] # LOSE
    /\ Racing \/ srv = "final" =>
          \/ \A i \in Players : score[i] = 0 /\ msg[i] = Unready
          \/ \E r, o \in {WON, LOSE, TIE} :
                /\ msg[1] = <<r, score[1], score[2]>> /\ msg[2] = <<o, score[2], score[1]>>
                /\ o = (CASE r = WON -> LOSE [] r = LOSE -> WON [] r = TIE -> TIE)
    /\ srv \in {"setup", "accept1", "pid1", "accept2", "pid2"} => \A i \in Players : msg[i] = Unready
    /\ srv \in {"result1", "result2"} => \A i \in Players : msg[i] # Unready

\* The player alone has the winning score.
Winner(i) == score[i] = WinScore /\ score[Other(i)] < WinScore
Kept(i, r) == Winner(i) => r[1] \in {WON, TIE}

\* Player i has been sent the final message m, which it reads as start flags
\* word by word; it may guess once more.
Parting(i, m) ==
    LET c == ci[i] IN
    \/ /\ cli[c] = "readResult" /\ sent[c] = None
       /\ \E r \in RoundResults : Kept(i, r) /\ down[c] = r \o m
    \/ /\ cli[c] \in {"top", "readStart", "guess"} /\ sent[c] = None /\ Kept(i, resMsg[c])
       /\ down[c] \in {m, <<m[2], m[3]>>, <<m[3]>>, <<>>}
       /\ cli[c] = "guess" => Len(down[c]) <= 2 /\ (Winner(i) => down[c] \in {<<>>, <<WON>>})
    \/ /\ cli[c] = "readResult" /\ Kept(i, resMsg[c]) /\ Len(down[c]) <= 2
       /\ Winner(i) => down[c] \in {<<>>, <<WON>>}
    \/ Gone(c)

\* The race has ended, and no write has failed.
Closing ==
    \/ srv \in {"final", "final1", "final2"} /\ open
    \/ srv \in {"kill", "cleanup", "done"}

Ending ==
    Closing =>
        \A i \in Players :
            /\ ci[i] # 0 /\ (Winner(i) => verdict[ci[i]] # "lose")
            /\ srv \in {"final", "final1"} \cup (IF i = 1 THEN {} ELSE {"final2"}) =>
                  \E r \in RoundResults \cup {Unready} : Kept(i, r) /\ AtRest(ci[i], r)
            /\ srv # "final" => \E r \in {WON, LOSE, TIE} : \E a, b \in ScoreWord :
                  /\ msg[i] = <<r, a, b>>
                  /\ Winner(i) => r = WON /\ a = WinScore /\ b \in 0..(WinScore - 1)
            /\ srv \in {"kill", "cleanup", "done"} \cup (IF i = 1 THEN {"final2"} ELSE {}) =>
                  Parting(i, msg[i])

RaceInv ==
    /\ TypeOK /\ (\A c \in Clients : Len(resMsg[c]) = 3)
    /\ Acquaintance /\ Service /\ Rounds /\ Ending
    /\ \A i \in Players : PlayerInv(i)
=============================================================================
