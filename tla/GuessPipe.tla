----------------------------- MODULE GuessPipe ------------------------------
(***************************************************************************)
(* The guess race over anonymous pipes (04-pipe-guess-race.c).  SIGUSR1    *)
(* makes a child guess a number; it writes the guess on its pipe and       *)
(* exits, so that the first round is the only one it plays.  The parent    *)
(* goes on until a score reaches WIN_SCORE: its later reads return 0, and  *)
(* it judges the messages of the first round again.  Numbers are drawn     *)
(* with the pid as the seed: they never change.                            *)
(***************************************************************************)
EXTENDS Integers

CONSTANTS
    Max,        \* 10, the argument of my_random
    WinScore    \* 5

ASSUME GuessPipeAssumption == Max \in Nat \ {0} /\ WinScore \in Nat \ {0}

VARIABLES
    par,        \* where the parent is
    score,      \* score_c1, score_c2
    msg,        \* msg_c1[1], msg_c2[1]; None until something has been read
    secret,     \* what my_random(10, getpid()) gives to the parent
    guess,      \* and to each child
    pipe,       \* the children whose message is in their pipe
    child,      \* where each child is
    pend,       \* the children with a pending SIGUSR1
    got         \* the children with sigusr1_received set

vars == <<par, score, msg, secret, guess, pipe, child, pend, got>>
numbers == <<secret, guess>>

Children == {1, 2}
None == -1
ChildStates == {"unborn", "start", "test", "gap", "paused", "write", "exit",
                "exited", "killed", "reaped"}
ParStates == {"fork1", "fork2", "close", "kill1", "kill2", "read1", "read2", "judge",
              "wait1", "wait2", "done", "failed"}
Alive(p) == child[p] \notin {"unborn", "exited", "killed", "reaped"}
ParAt(p, one, two) == par = IF p = 1 THEN one ELSE two
-----------------------------------------------------------------------------
\* Whatever the seed: 1 + rand() % (max + 1)
MyRandom(max) == 1..(max + 1)

\* What the stack may hold where a message was never read.
Garbage == 0..(Max + 2)

Init ==
    /\ par = "fork1"
    /\ score = [p \in Children |-> 0]
    /\ msg = [p \in Children |-> None]
    /\ secret \in MyRandom(Max) /\ guess \in [Children -> MyRandom(Max)]
    /\ pipe = {} /\ pend = {} /\ got = {}
    /\ child = [p \in Children |-> "unborn"]
-----------------------------------------------------------------------------
(***************************************************************************)
(* The parent                                                              *)
(***************************************************************************)
\* When fork() fails the parent exits, with or without a first child.
ParFork(p) ==
    /\ ParAt(p, "fork1", "fork2")
    /\ \/ child' = [child EXCEPT ![p] = "start"] /\ par' = IF p = 1 THEN "fork2" ELSE "close"
       \/ par' = "failed" /\ UNCHANGED child
    /\ UNCHANGED <<score, msg, numbers, pipe, pend, got>>

ParClose ==
    /\ par = "close" /\ par' = "kill1"
    /\ UNCHANGED <<score, msg, numbers, pipe, child, pend, got>>

\* scanf("") waits for nothing: a round follows the other. kill() has no
\* effect on a child that has ended and is not reaped yet.
ParKill(p) ==
    /\ ParAt(p, "kill1", "kill2")
    /\ pend' = IF Alive(p) THEN pend \cup {p} ELSE pend
    /\ par' = IF p = 1 THEN "kill2" ELSE "read1"
    /\ UNCHANGED <<score, msg, numbers, pipe, child, got>>

\* Mutant: the parent keeps its own write ends.
WriterLeftParent == TRUE

\* Each child has inherited both write ends and closes neither.
WriterLeft == par \in {"fork1", "fork2", "close"} \/ \E p \in Children : Alive(p)

\* Mutant: the pipes do not block.
ParReadOwn(p) ==
    /\ ParAt(p, "read1", "read2")
    /\ \/ p \in pipe /\ msg' = [msg EXCEPT ![p] = guess[p]]
       \/ p \notin pipe /\ \E m \in Garbage : msg' = [msg EXCEPT ![p] = m]
    /\ pipe' = pipe \ {p}
    /\ par' = IF p = 1 THEN "read2" ELSE "judge"
    /\ UNCHANGED <<score, numbers, child, pend, got>>

\* At end of file read() returns 0 and leaves the message as it was.
ParRead(p) ==
    /\ ParAt(p, "read1", "read2")
    /\ \/ p \in pipe /\ msg' = [msg EXCEPT ![p] = guess[p]]
       \/ /\ p \notin pipe /\ ~WriterLeft
          /\ \E m \in IF msg[p] = None THEN Garbage ELSE {msg[p]} : msg' = [msg EXCEPT ![p] = m]
    /\ pipe' = pipe \ {p}
    /\ par' = IF p = 1 THEN "read2" ELSE "judge"
    /\ UNCHANGED <<score, numbers, child, pend, got>>

Distance(p) == IF msg[p] > secret THEN msg[p] - secret ELSE secret - msg[p]

\* Mutant: the branch for child 2.
WinnersBoth == {p \in Children : \A q \in Children : Distance(p) <= Distance(q)}

\* There is no branch for a closer guess of child 2.
Winners == IF Distance(1) < Distance(2) THEN {1}
           ELSE IF Distance(1) = Distance(2) THEN Children ELSE {}

ParJudge ==
    /\ par = "judge"
    /\ score' = [p \in Children |-> IF p \in Winners THEN score[p] + 1 ELSE score[p]]
    /\ par' = IF \A p \in Children : score'[p] < WinScore THEN "kill1" ELSE "wait1"
    /\ UNCHANGED <<msg, numbers, pipe, child, pend, got>>

\* wait(NULL), twice: any child that has ended
ParWait ==
    /\ par \in {"wait1", "wait2"}
    /\ \E p \in Children : child[p] \in {"exited", "killed"}
                           /\ child' = [child EXCEPT ![p] = "reaped"]
    /\ par' = IF par = "wait1" THEN "wait2" ELSE "done"
    /\ UNCHANGED <<score, msg, numbers, pipe, pend, got>>
-----------------------------------------------------------------------------
(***************************************************************************)
(* A child                                                                 *)
(***************************************************************************)
Goes(p, from, to) == child[p] = from /\ child' = [child EXCEPT ![p] = to]

\* close() and sigaction(); while (!sigusr1_received) pause(); the reset
ChildStep(p) ==
    /\ \/ Goes(p, "start", "test") /\ UNCHANGED <<pipe, got>>
       \/ Goes(p, "test", IF p \in got THEN "write" ELSE "gap")
          /\ got' = got \ {p} /\ UNCHANGED pipe
       \/ Goes(p, "gap", "paused") /\ UNCHANGED <<pipe, got>>
       \/ Goes(p, "write", "exit") /\ pipe' = pipe \cup {p} /\ UNCHANGED got
       \/ Goes(p, "exit", "exited") /\ UNCHANGED <<pipe, got>>
    /\ UNCHANGED <<par, score, msg, numbers, pend>>

\* Without a handler SIGUSR1 kills; the handler makes pause() return.
Deliver(p) ==
    /\ p \in pend /\ Alive(p)
    /\ pend' = pend \ {p}
    /\ got' = IF child[p] = "start" THEN got ELSE got \cup {p}
    /\ child' = [child EXCEPT ![p] = IF @ = "start" THEN "killed"
                                     ELSE IF @ = "paused" THEN "test" ELSE @]
    /\ UNCHANGED <<par, score, msg, numbers, pipe>>
-----------------------------------------------------------------------------
ParStep ==
    ParClose \/ ParJudge \/ ParWait \/ \E p \in Children : ParFork(p) \/ ParKill(p) \/ ParRead(p)

Next == ParStep \/ \E p \in Children : ChildStep(p) \/ Deliver(p)

\* The kernel schedules the three processes; nobody waits for the user.
Spec == /\ Init /\ [][Next]_vars
        /\ WF_vars(ParStep)
        /\ \A p \in Children : WF_vars(ChildStep(p) \/ Deliver(p))
-----------------------------------------------------------------------------
(***************************************************************************)
(* Properties                                                              *)
(***************************************************************************)
TypeOK ==
    /\ par \in ParStates
    /\ score \in [Children -> 0..WinScore]
    /\ msg \in [Children -> Garbage \cup {None}]
    /\ secret \in 1..(Max + 1) /\ guess \in [Children -> 1..(Max + 1)]
    /\ pipe \subseteq Children /\ pend \subseteq Children /\ got \subseteq Children
    /\ child \in [Children -> ChildStates]

NobodyKilled == \A p \in Children : child[p] # "killed"
Closer(p, q) == LET D(n) == IF n > secret THEN n - secret ELSE secret - n
                IN  D(guess[p]) <= D(guess[q])

\* Whatever round it is, what the parent judges are the two guesses, unless
\* SIGUSR1 has killed a child that had no handler yet: the children hold each
\* other's write end, so that no read returns 0 before both messages have been
\* written (04-pipe-guess-race.c:50-51 and 95-96).
JudgesGuesses == par = "judge" /\ NobodyKilled => msg = guess

\* Every round is decided like the first one: child 2 is level with child 1
\* or has no point at all, and it never wins alone (lines 102-107).
NeverLeads ==
    /\ score[2] \in {0, score[1]}
    /\ par \in {"wait1", "wait2", "done"} => score[1] = WinScore

\* A handler ran between the test of the flag and pause().
LostWakeup == \E p \in Children : child[p] = "paused" /\ p \in got /\ p \notin pend

\* With both children started, in time and awake, the game ends exactly when
\* child 1 is at least as close as child 2, and then both are reaped; when
\* child 2 is closer the parent plays for ever.
GameEnds ==
    [](~LostWakeup /\ NobodyKilled /\ par # "failed") =>
        IF Closer(1, 2) THEN <>(par = "done" /\ \A p \in Children : child[p] = "reaped")
        ELSE [](par # "done") /\ []<>(par = "judge")
-----------------------------------------------------------------------------
(***************************************************************************)
(* The inductive invariant                                                 *)
(***************************************************************************)
\* A message is in its pipe, or has been read, once its child has written it;
\* what has been read never changes.
Written(p) == child[p] \in {"exit", "exited", "killed", "reaped"}
Message(p) ==
    /\ p \in pipe => msg[p] = None /\ Written(p)
    /\ msg[p] # None => Written(p)
    /\ child[p] \in {"exit", "exited"} => p \in pipe \/ msg[p] # None
    /\ par \in {"fork1", "fork2", "close"} => msg[p] = None
    /\ par \in {"read2", "judge", "wait1", "wait2", "done"} => msg[1] # None
    /\ par \in {"judge", "wait1", "wait2", "done"} => msg[2] # None
    /\ par = "fork1" \/ (par = "fork2" /\ p = 2) => child[p] = "unborn"
    /\ child[p] = "unborn" => par \in {"fork1", "failed"} \/ (par = "fork2" /\ p = 2)
    /\ child[p] = "reaped" => par \in {"wait2", "done"}
    /\ msg[p] \notin {None, guess[p]} /\ par \notin {"wait1", "wait2", "done"} =>
          ~NobodyKilled

\* The scores are those of a verdict that is the same in every round.
Verdicts ==
    /\ (\E p \in Children : msg[p] = None) => \A p \in Children : score[p] = 0
    /\ \A p \in Children : p \notin Winners => score[p] = 0
    /\ 2 \in Winners => score[2] = score[1]
    /\ par \notin {"wait1", "wait2", "done"} => \A p \in Children : score[p] < WinScore
    /\ par \in {"wait1", "wait2", "done"} => score[1] = WinScore
=============================================================================
