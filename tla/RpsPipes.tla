------------------------------ MODULE RpsPipes ------------------------------
(***************************************************************************)
(* Rock, paper, scissors over anonymous pipes: my_rps.c.                   *)
(*                                                                         *)
(* The parent forks two children, wakes them with SIGUSR1 for each round   *)
(* and reads one message from each; the children exchange moves over two   *)
(* pipes of their own. Every process holds a set of pipe ends: read()      *)
(* returns 0 only when nobody holds the write end, write() raises SIGPIPE  *)
(* when nobody holds the read end.                                         *)
(***************************************************************************)
EXTENDS RpsRules, Sequences

CONSTANTS
    WinScore,       \* WIN_SCORE
    None,           \* no move in this round
    Garbage         \* a word that is no move and no result

ASSUME WinScoreAssumption == WinScore \in Nat \ {0}
ASSUME NoneAssumption     == None \notin Moves
ASSUME GarbageAssumption  == Garbage \notin Moves \cup Results

VARIABLES
    par,        \* where the parent is in main()
    score,      \* score1, score2
    res,        \* msg1.result, msg2.result
    fds,        \* pipe ends held by the parent (0) and by child 1 and 2
    toDad,      \* results in the pipe parent1, parent2
    toPeer,     \* moves in the pipe child1, child2
    child,      \* where child p is in child_work()
    cause,      \* why child p ended
    pend,       \* signals sent to child p and not yet delivered
    start,      \* got_start_signal of child p
    term,       \* got_term_signal of child p
    hand,       \* my_msg.move; history: emptied when the round is scored
    his         \* his_msg.move

parVars   == <<par, score, res>>
pipes     == <<toDad, toPeer>>
childVars == <<child, cause, pend, start, term, hand, his>>
vars == <<par, score, res, fds, toDad, toPeer, child, cause, pend, start, term, hand, his>>

Signals == {"SIGUSR1", "SIGTERM"}

\* The pipe parent<p> carries results of child p, child<p> its moves.
ParentPipe == <<"parent1", "parent2">>
ChildPipe  == <<"child1", "child2">>
Pipes == {"parent1", "parent2", "child1", "child2"}
R(pipe) == <<pipe, "read">>
W(pipe) == <<pipe, "write">>
Ends  == {R(pipe) : pipe \in Pipes} \cup {W(pipe) : pipe \in Pipes}
Procs == {0, 1, 2}
Held(end) == \E x \in Procs : end \in fds[x]

ParStates == {"fork1", "fork2", "close", "prompt", "kill1", "kill2", "read1", "read2",
              "score", "term1", "term2", "wait1", "wait2", "done", "failed", "killed"}
ParEnded == {"done", "failed", "killed"}
ChildStates == {"unborn", "forked", "usr1", "top", "paused", "check", "send", "recv",
                "report", "zombie", "reaped"}
Alive(p) == child[p] \notin {"unborn", "zombie", "reaped"}

\* The parent is at its step `one` for child 1, `two` for child 2.
ParAt(p, one, two) == par = IF p = 1 THEN one ELSE two
-----------------------------------------------------------------------------
\* pipe() has been called four times.
Init ==
    /\ par = "fork1"
    /\ score = [p \in Players |-> 0]
    /\ res = [p \in Players |-> Garbage]
    /\ fds = [x \in Procs |-> IF x = 0 THEN Ends ELSE {}]
    /\ toDad = [p \in Players |-> <<>>]
    /\ toPeer = [p \in Players |-> <<>>]
    /\ child = [p \in Players |-> "unborn"]
    /\ cause = [p \in Players |-> "none"]
    /\ pend = [p \in Players |-> {}]
    /\ start = [p \in Players |-> FALSE]
    /\ term = [p \in Players |-> FALSE]
    /\ hand = [p \in Players |-> None]
    /\ his = [p \in Players |-> None]
-----------------------------------------------------------------------------
(***************************************************************************)
(* The parent                                                              *)
(***************************************************************************)

\* fork() copies the table of open files; when it fails the parent returns 1,
\* whether or not the other child has been created.
ParFork(p) ==
    /\ ParAt(p, "fork1", "fork2")
    /\ \/ /\ par' = IF p = 1 THEN "fork2" ELSE "close"
          /\ child' = [child EXCEPT ![p] = "forked"]
          /\ fds' = [fds EXCEPT ![p] = fds[0]]
       \/ /\ par' = "failed"
          /\ fds' = [fds EXCEPT ![0] = {}]
          /\ UNCHANGED child
    /\ UNCHANGED <<score, res, pipes, cause, pend, start, term, hand, his>>

\* Mutant: the write ends of parent1 and parent2 stay open.
ParentKeepsWriteEnds == {R("parent1"), R("parent2"), W("parent1"), W("parent2")}

ParentKeeps == {R("parent1"), R("parent2")}

ParClose ==
    /\ par = "close"
    /\ fds' = [fds EXCEPT ![0] = ParentKeeps]
    /\ par' = "prompt"
    /\ UNCHANGED <<score, res, pipes, childVars>>

\* fgets returns a line, or end of file
ParPrompt ==
    /\ par = "prompt"
    /\ par' \in {"kill1", "term1"}
    /\ UNCHANGED <<score, res, fds, pipes, childVars>>

\* kill(c<p>, sig); a zombie is still there to be signalled, without effect
Kill(p, sig) == pend' = IF Alive(p) THEN [pend EXCEPT ![p] = @ \cup {sig}] ELSE pend

ParSignal(p) ==
    /\ ParAt(p, "kill1", "kill2")
    /\ Kill(p, "SIGUSR1")
    /\ par' = IF p = 1 THEN "kill2" ELSE "read1"
    /\ UNCHANGED <<score, res, fds, pipes, child, cause, start, term, hand, his>>

\* Mutant: the message of child 2 is not read.
AfterReadSkip(p) == "score"

AfterRead(p) == IF p = 1 THEN "read2" ELSE "score"

\* read(parent<p>[READ_END], &msg<p>, ...): a message, or 0 when nobody can
\* write. The break is commented out: the round goes on with whatever is in
\* msg<p>, which holds an older message or nothing that was ever written.
ParRead(p) ==
    /\ ParAt(p, "read1", "read2")
    /\ \/ /\ toDad[p] # <<>>
          /\ res' = [res EXCEPT ![p] = Head(toDad[p])]
          /\ toDad' = [toDad EXCEPT ![p] = Tail(@)]
       \/ /\ toDad[p] = <<>> /\ ~Held(W(ParentPipe[p]))
          /\ \E w \in Results \cup {Garbage} : res' = [res EXCEPT ![p] = w]
          /\ UNCHANGED toDad
    /\ par' = AfterRead(p)
    /\ UNCHANGED <<score, fds, toPeer, childVars>>

GoesOn(sc) == \A p \in Players : sc[p] < WinScore

\* Child 1's result is looked at first; the loop test follows.
ParScore ==
    /\ par = "score"
    /\ score' = IF res[1] = WON THEN [score EXCEPT ![1] = @ + 1]
                ELSE IF res[2] = WON THEN [score EXCEPT ![2] = @ + 1] ELSE score
    /\ par' = IF GoesOn(score') THEN "prompt" ELSE "term1"
    /\ hand' = [p \in Players |-> None]
    /\ UNCHANGED <<res, fds, pipes, child, cause, pend, start, term, his>>

\* Mutant: kill(c1, SIGTERM) is called twice.
ParTerminateFirst(p) ==
    /\ ParAt(p, "term1", "term2")
    /\ Kill(1, "SIGTERM")
    /\ par' = IF p = 1 THEN "term2" ELSE "wait1"
    /\ UNCHANGED <<score, res, fds, pipes, child, cause, start, term, hand, his>>

ParTerminate(p) ==
    /\ ParAt(p, "term1", "term2")
    /\ Kill(p, "SIGTERM")
    /\ par' = IF p = 1 THEN "term2" ELSE "wait1"
    /\ UNCHANGED <<score, res, fds, pipes, child, cause, start, term, hand, his>>

\* waitpid(c<p>, NULL, 0); after the second one the parent closes and returns
ParWait(p) ==
    /\ ParAt(p, "wait1", "wait2")
    /\ child[p] = "zombie"
    /\ child' = [child EXCEPT ![p] = "reaped"]
    /\ par' = IF p = 1 THEN "wait2" ELSE "done"
    /\ fds' = IF p = 1 THEN fds ELSE [fds EXCEPT ![0] = {}]
    /\ UNCHANGED <<score, res, pipes, cause, pend, start, term, hand, his>>

\* Somebody kills the parent alone.
ParKilled ==
    /\ par \notin ParEnded
    /\ par' = "killed"
    /\ fds' = [fds EXCEPT ![0] = {}]
    /\ UNCHANGED <<score, res, pipes, childVars>>
-----------------------------------------------------------------------------
(***************************************************************************)
(* A child                                                                 *)
(***************************************************************************)

\* Child p ends; its pipe ends are closed by the kernel.
End(p, why) ==
    /\ child' = [child EXCEPT ![p] = "zombie"]
    /\ cause' = [cause EXCEPT ![p] = why]
    /\ pend' = [pend EXCEPT ![p] = {}]
    /\ fds' = [fds EXCEPT ![p] = {}]

\* The ends child p keeps.
KeptByChild(p) == {W(ChildPipe[p]), R(ChildPipe[Other(p)]), W(ParentPipe[p])}

\* The other ends are closed and the handler of SIGUSR1 is installed.
ChildSetup(p) ==
    /\ child[p] = "forked"
    /\ fds' = [fds EXCEPT ![p] = KeptByChild(p)]
    /\ child' = [child EXCEPT ![p] = "usr1"]
    /\ UNCHANGED <<parVars, pipes, cause, pend, start, term, hand, his>>

\* The handler of SIGTERM is installed.
ChildReady(p) ==
    /\ child[p] = "usr1"
    /\ child' = [child EXCEPT ![p] = "top"]
    /\ UNCHANGED <<parVars, fds, pipes, cause, pend, start, term, hand, his>>

\* The default action of both signals is to kill the process.
NoHandlerYet(p, sig) ==
    \/ child[p] = "forked"
    \/ child[p] = "usr1" /\ sig = "SIGTERM"

\* read() by child p of its brother's pipe has nothing to return yet.
BlockedInRead(p) ==
    /\ child[p] = "recv"
    /\ toPeer[Other(p)] = <<>> /\ Held(W(ChildPipe[Other(p)]))

\* A handler sets its flag and interrupts pause(), or a read() that waits:
\* his_msg then holds anything, because the result of read() is ignored.
Handle(p, sig) ==
    /\ start' = IF sig = "SIGUSR1" THEN [start EXCEPT ![p] = TRUE] ELSE start
    /\ term'  = IF sig = "SIGTERM" THEN [term EXCEPT ![p] = TRUE] ELSE term
    /\ pend' = [pend EXCEPT ![p] = @ \ {sig}]
    /\ child' = CASE child[p] = "paused" -> [child EXCEPT ![p] = "check"]
                  [] BlockedInRead(p)    -> [child EXCEPT ![p] = "report"]
                  [] OTHER               -> child
    /\ \E m \in IF BlockedInRead(p) THEN Moves \cup {Garbage} ELSE {his[p]} :
          his' = [his EXCEPT ![p] = m]

Deliver(p, sig) ==
    /\ sig \in pend[p]
    /\ \/ NoHandlerYet(p, sig) /\ End(p, sig) /\ UNCHANGED <<start, term, his>>
       \/ ~NoHandlerYet(p, sig) /\ Handle(p, sig) /\ UNCHANGED <<cause, fds>>
    /\ UNCHANGED <<parVars, pipes, hand>>

ChildPause(p) ==
    /\ child[p] = "top"
    /\ child' = [child EXCEPT ![p] = "paused"]
    /\ UNCHANGED <<parVars, fds, pipes, cause, pend, start, term, hand, his>>

\* pause() has returned, so a handler has run: SIGTERM is looked at first.
ChildCheck(p) ==
    /\ child[p] = "check"
    /\ \/ term[p] /\ End(p, "exit") /\ UNCHANGED start
       \/ /\ ~term[p]
          /\ child' = [child EXCEPT ![p] = IF start[p] THEN "send" ELSE "top"]
          /\ start' = [start EXCEPT ![p] = FALSE]
          /\ UNCHANGED <<cause, pend, fds>>
    /\ UNCHANGED <<parVars, pipes, term, hand, his>>

ChildSend(p) ==
    /\ child[p] = "send"
    /\ \E m \in Moves : hand' = [hand EXCEPT ![p] = m]
    /\ \/ /\ Held(R(ChildPipe[p]))
          /\ toPeer' = [toPeer EXCEPT ![p] = Append(@, hand'[p])]
          /\ child' = [child EXCEPT ![p] = "recv"]
          /\ UNCHANGED <<cause, pend, fds>>
       \/ /\ ~Held(R(ChildPipe[p]))
          /\ End(p, "SIGPIPE")
          /\ UNCHANGED toPeer
    /\ UNCHANGED <<parVars, toDad, start, term, his>>

\* A move, or 0 when nobody can write: the result of read() is not looked at
\* and his_msg then holds anything.
ChildRecv(p) ==
    /\ child[p] = "recv"
    /\ LET pipe == ChildPipe[Other(p)] IN
       \/ /\ toPeer[Other(p)] # <<>>
          /\ his' = [his EXCEPT ![p] = Head(toPeer[Other(p)])]
          /\ toPeer' = [toPeer EXCEPT ![Other(p)] = Tail(@)]
       \/ /\ toPeer[Other(p)] = <<>> /\ ~Held(W(pipe))
          /\ \E m \in Moves \cup {Garbage} : his' = [his EXCEPT ![p] = m]
          /\ UNCHANGED toPeer
    /\ child' = [child EXCEPT ![p] = "report"]
    /\ UNCHANGED <<parVars, fds, toDad, cause, pend, start, term, hand>>

ChildReport(p) ==
    /\ child[p] = "report"
    /\ \/ /\ Held(R(ParentPipe[p]))
          /\ toDad' = [toDad EXCEPT ![p] = Append(@, CheckWinner(hand[p], his[p]))]
          /\ child' = [child EXCEPT ![p] = "top"]
          /\ UNCHANGED <<cause, pend, fds>>
       \/ /\ ~Held(R(ParentPipe[p]))
          /\ End(p, "SIGPIPE")
          /\ UNCHANGED toDad
    /\ UNCHANGED <<parVars, toPeer, start, term, hand, his>>

\* Somebody kills child p alone.
ChildKilled(p) ==
    /\ Alive(p)
    /\ End(p, "SIGKILL")
    /\ UNCHANGED <<parVars, pipes, start, term, hand, his>>
-----------------------------------------------------------------------------
ParStep ==
    \/ ParClose \/ ParScore
    \/ \E p \in Players :
          ParFork(p) \/ ParSignal(p) \/ ParRead(p) \/ ParTerminate(p) \/ ParWait(p)

ChildStep(p) ==
    \/ ChildSetup(p) \/ ChildReady(p) \/ ChildPause(p) \/ ChildCheck(p)
    \/ ChildSend(p) \/ ChildRecv(p) \/ ChildReport(p)
    \/ \E sig \in Signals : Deliver(p, sig)

\* What the user does: nothing obliges him to.
User == ParPrompt \/ ParKilled \/ \E p \in Players : ChildKilled(p)

Next == ParStep \/ (\E p \in Players : ChildStep(p)) \/ User

Spec == Init /\ [][Next]_vars

\* The kernel schedules every process that can run.
FairSpec == Spec /\ WF_vars(ParStep) /\ \A p \in Players : WF_vars(ChildStep(p))
-----------------------------------------------------------------------------
(***************************************************************************)
(* Properties                                                              *)
(***************************************************************************)

\* The variables keep the types the C declarations give them; the scores
\* never pass WIN_SCORE.
TypeOK ==
    /\ par \in ParStates
    /\ score \in [Players -> 0..WinScore]
    /\ res \in [Players -> Results \cup {Garbage}]
    /\ fds \in [Procs -> SUBSET Ends]
    /\ toDad \in [Players -> Seq(Results)]
    /\ toPeer \in [Players -> Seq(Moves)]
    /\ child \in [Players -> ChildStates]
    /\ cause \in [Players -> {"none", "exit", "SIGPIPE", "SIGKILL"} \cup Signals]
    /\ pend \in [Players -> SUBSET Signals]
    /\ start \in [Players -> BOOLEAN]
    /\ term \in [Players -> BOOLEAN]
    /\ hand \in [Players -> Moves \cup {None}]
    /\ his \in [Players -> Moves \cup {None, Garbage}]

NobodyDied == \A p \in Players : cause[p] = "none"

\* When the parent scores a round and no child has died, the results it has
\* are those of the two moves the children played in this very round: no
\* message of an earlier round is taken for an answer (my_rps.c:200-237).
ResultsOfThisRound ==
    par = "score" /\ NobodyDied =>
        \A p \in Players :
            /\ hand[p] # None
            /\ res[p] = CheckWinner(hand[p], hand[Other(p)])

\* A handler ran in the window between the tests of the flags and pause():
\* the child sleeps although it has been told to play or to stop.
LostWakeup(p) == child[p] = "paused" /\ pend[p] = {} /\ (start[p] \/ term[p])
NoLostWakeup  == \A p \in Players : ~LostWakeup(p)

\* Unless a wake-up is lost, a round the parent starts comes to an end, even
\* if a child dies in it: nobody holds a pipe end that would keep the reader
\* of a dead process's pipe waiting (the close() calls of my_rps.c:144-178).
RoundEnds == []NoLostWakeup => (par = "kill1" ~> par \in {"prompt", "term1"} \cup ParEnded)

\* Unless a wake-up is lost, the parent that ends the game reaps both children
\* and returns.
ParentReturns == []NoLostWakeup => (par = "term1" ~> par \in ParEnded)
-----------------------------------------------------------------------------
(***************************************************************************)
(* The inductive invariant                                                 *)
(***************************************************************************)
RoundStates == {"fork1", "fork2", "close", "prompt", "kill1", "kill2", "read1", "read2", "score"}

\* The ends that fork() copies, and those a living child holds
\* (my_rps.c:138-177).
Inheritance ==
    /\ par \in {"fork1", "fork2", "close"} => fds[0] = Ends
    /\ \A p \in Players : Alive(p) => KeptByChild(p) \subseteq fds[p]

\* The game is not over while rounds are played; who has been created, and
\* who has not died.
Births ==
    /\ par \in RoundStates => \A p \in Players : score[p] < WinScore
    /\ \A p \in Players :
          /\ child[p] \in {"zombie", "reaped"} => cause[p] # "none"
          /\ par \in RoundStates =>
                (child[p] = "unborn" <=> par = "fork1" \/ (par = "fork2" /\ p = 2))

\* Child p has read its brother's move.
Heard(p) == hand[p] # None /\ child[p] # "recv"

\* A move is in the pipe from when it is made until the brother reads it.
InPipe(p) ==
    toPeer[p] = IF hand[p] # None /\ ~Heard(Other(p)) THEN <<hand[p]>> ELSE <<>>

\* Child p has not been told to play.
Idle(p) ==
    /\ child[p] \in {"unborn", "forked", "usr1", "top", "paused"}
    /\ pend[p] = {} /\ ~start[p] /\ hand[p] = None /\ toDad[p] = <<>>

\* SIGUSR1 is one token: it is pending, then in the flag, then spent.
Called(p) ==
    /\ hand[p] = None /\ toDad[p] = <<>>
    /\ \/ pend[p] = {"SIGUSR1"} /\ ~start[p] /\ child[p] \in {"forked", "usr1", "top", "paused"}
       \/ pend[p] = {} /\ start[p] /\ child[p] \in {"usr1", "top", "paused", "check"}
       \/ pend[p] = {} /\ ~start[p] /\ child[p] = "send"

\* Child p has made its move.
Playing(p) ==
    /\ hand[p] # None /\ toDad[p] = <<>> /\ pend[p] = {} /\ ~start[p]
    /\ \/ child[p] = "recv"
       \/ child[p] = "report" /\ hand[Other(p)] # None /\ his[p] = hand[Other(p)]

\* Child p waits for the next round; its result is in the pipe, or was read.
Finished(p, results) ==
    /\ hand[p] # None /\ hand[Other(p)] # None /\ pend[p] = {} /\ ~start[p]
    /\ child[p] \in {"top", "paused"} /\ toDad[p] = results

Result(p) == CheckWinner(hand[p], hand[Other(p)])

\* What the parent has done for child p in this round
NotCalled(p) == par \in {"fork1", "fork2", "close", "prompt", "kill1"} \/ (p = 2 /\ par = "kill2")
Awaited(p)   == par = "read1" \/ ParAt(p, "kill2", "read2")
Answered(p)  == par = "score" \/ (p = 1 /\ par = "read2")

\* Where child p is in the round, by the step of the parent
Round(p) ==
    /\ ~term[p] /\ InPipe(p)
    /\ NotCalled(p) => Idle(p)
    /\ Awaited(p) => Called(p) \/ Playing(p) \/ Finished(p, <<Result(p)>>)
    /\ Answered(p) => Finished(p, <<>>) /\ res[p] = Result(p)

Rounds == NobodyDied /\ par \in RoundStates => \A p \in Players : Round(p)

\* No message of an earlier round is left, as long as nobody has died: who has
\* been told to play, who has played and where the messages are, at each step
\* of the parent (my_rps.c:186-237).
PipesInv == TypeOK /\ Inheritance /\ Births /\ Rounds
=============================================================================
