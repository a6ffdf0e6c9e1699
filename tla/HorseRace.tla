----------------------------- MODULE HorseRace ------------------------------
(***************************************************************************)
(* A race between processes.  A horse stops itself before each move with   *)
(* raise(SIGTSTP); the parent lets it run with SIGCONT and holds it again  *)
(* with SIGSTOP.  The module covers both schedulers:                       *)
(*   "rr"    race_rr.c: the lanes take turns, and the lane whose turn it   *)
(*           is is reaped first if its horse has ended;                    *)
(*   "rand"  race_rand.c: a random lane gets a slice, then all lanes are   *)
(*           looked at.                                                    *)
(* SIGSTOP and SIGCONT act before the parent goes on: the kernel marks the *)
(* process in kill() and the parent sleeps or draws next.                  *)
(***************************************************************************)
EXTENDS Integers, FiniteSets

CONSTANTS
    N,          \* NCHILD
    TrackLen,   \* TRACK_LEN
    MaxSpeed    \* MAX_SPEED: a move is 0..MaxSpeed-1

ASSUME RaceAssumption == N \in Nat \ {0} /\ TrackLen \in Nat \ {0} /\ MaxSpeed \in Nat \ {0, 1}

VARIABLES
    sched,      \* which of the two programs is running
    main,       \* where the parent is
    lane,       \* its loop variable, or lucky_horse
    running,    \* still_running
    winner,     \* 0 is the -1 of the code
    st,         \* where each horse is; "reaped": children[i] = -1
    pos,        \* its position
    stopped,    \* the horses that are stopped
    first       \* history: the first horse to end

vars == <<sched, main, lane, running, winner, st, pos, stopped, first>>
mainVars  == <<main, lane, running, winner>>
horseVars == <<pos, first>>

Lanes == 1..N
Unreaped == {h \in Lanes : st[h] # "reaped"}
Alive(h) == st[h] \notin {"unborn", "zombie", "reaped"}
-----------------------------------------------------------------------------
Init ==
    /\ sched \in {"rr", "rand"}
    /\ main = "fork" /\ lane = 1 /\ running = N /\ winner = 0
    /\ st = [h \in Lanes |-> "unborn"]
    /\ pos = [h \in Lanes |-> TrackLen]
    /\ stopped = {} /\ first = 0
-----------------------------------------------------------------------------
(***************************************************************************)
(* The parent                                                              *)
(***************************************************************************)
\* Where the first lap of the outer loop begins
Lap == main' = (IF sched = "rr" THEN "scan" ELSE "pick") /\ lane' = 1

\* When fork() fails the parent exits and leaves the horses behind.
Fork ==
    /\ main = "fork"
    /\ \/ /\ st' = [st EXCEPT ![lane] = "start"]
          /\ IF lane < N THEN lane' = lane + 1 /\ main' = main ELSE Lap
       \/ main' = "failed" /\ UNCHANGED <<lane, st>>
    /\ UNCHANGED <<sched, running, winner, stopped, horseVars>>

\* The next lane; still_running is looked at when the scan is over.
Advance(left) ==
    IF lane < N THEN main' = "scan" /\ lane' = lane + 1
    ELSE IF left > 0 THEN Lap ELSE main' = "done" /\ UNCHANGED lane

\* Mutant: the winner is the last horse.
ReapLast ==
    /\ main = "scan" /\ st[lane] = "zombie"
    /\ st' = [st EXCEPT ![lane] = "reaped"]
    /\ winner' = IF running = 1 THEN lane ELSE winner
    /\ running' = running - 1
    /\ Advance(running')
    /\ UNCHANGED <<sched, stopped, horseVars>>

\* Mutant: still_running is counted down for the winner only.
ReapCountWinner ==
    /\ main = "scan" /\ st[lane] = "zombie"
    /\ st' = [st EXCEPT ![lane] = "reaped"]
    /\ winner' = IF running = N THEN lane ELSE winner
    /\ running' = IF running = N THEN running - 1 ELSE running
    /\ Advance(running')
    /\ UNCHANGED <<sched, stopped, horseVars>>

\* waitpid(children[i], &status, WNOHANG) returns the pid.
Reap ==
    /\ main = "scan" /\ st[lane] = "zombie"
    /\ st' = [st EXCEPT ![lane] = "reaped"]
    /\ winner' = IF running = N THEN lane ELSE winner
    /\ running' = running - 1
    /\ Advance(running')
    /\ UNCHANGED <<sched, stopped, horseVars>>

\* Reaped before, or still running ("rand").
Skip ==
    /\ main = "scan" /\ st[lane] # "zombie"
    /\ sched = "rr" => st[lane] = "reaped"
    /\ Advance(running)
    /\ UNCHANGED <<sched, running, winner, st, stopped, horseVars>>

\* kill(children[h], SIGCONT): lost on a horse that has not stopped yet
Continue(h) ==
    /\ \/ sched = "rr" /\ main = "scan" /\ h = lane /\ st[h] \notin {"zombie", "reaped"}
       \/ sched = "rand" /\ main = "pick" /\ h \in Unreaped
    /\ main' = "slice" /\ lane' = h
    /\ stopped' = stopped \ {h}
    /\ UNCHANGED <<sched, running, winner, st, horseVars>>

\* Mutant: the horse is not held when its slice is over.
StopNot ==
    /\ main = "slice"
    /\ IF sched = "rr" THEN Advance(running) ELSE main' = "scan" /\ lane' = 1
    /\ UNCHANGED <<sched, running, winner, st, stopped, horseVars>>

\* usleep() is over: kill(children[h], SIGSTOP), without effect on a zombie
Stop ==
    /\ main = "slice"
    /\ stopped' = IF Alive(lane) THEN stopped \cup {lane} ELSE stopped
    /\ IF sched = "rr" THEN Advance(running) ELSE main' = "scan" /\ lane' = 1
    /\ UNCHANGED <<sched, running, winner, st, horseVars>>
-----------------------------------------------------------------------------
(***************************************************************************)
(* A horse: nothing happens while it is stopped                            *)
(***************************************************************************)
\* The lane is drawn and the horse stops itself.
Draw(h) ==
    /\ st[h] \in {"start", "draw"} /\ h \notin stopped
    /\ st' = [st EXCEPT ![h] = "move"]
    /\ stopped' = stopped \cup {h}
    /\ UNCHANGED <<sched, mainVars, horseVars>>

\* Mutant: the position is not cut off at 0, and the loop tests for 0.
MoveByPast(h, d) ==
    /\ st[h] = "move" /\ h \notin stopped
    /\ pos' = [pos EXCEPT ![h] = @ - d]
    /\ st' = [st EXCEPT ![h] = IF pos'[h] = 0 THEN "finish" ELSE "draw"]
    /\ UNCHANGED <<sched, mainVars, stopped, first>>

MoveBy(h, d) ==
    /\ st[h] = "move" /\ h \notin stopped
    /\ pos' = [pos EXCEPT ![h] = IF @ > d THEN @ - d ELSE 0]
    /\ st' = [st EXCEPT ![h] = IF pos'[h] > 0 THEN "draw" ELSE "finish"]
    /\ UNCHANGED <<sched, mainVars, stopped, first>>

Move(h) == \E d \in 0..(MaxSpeed - 1) : MoveBy(h, d)

\* The line of the winner is printed; then _exit(0).
Finish(h) ==
    /\ st[h] = "finish" /\ h \notin stopped
    /\ st' = [st EXCEPT ![h] = "exit"]
    /\ UNCHANGED <<sched, mainVars, stopped, horseVars>>

Exit(h) ==
    /\ st[h] = "exit" /\ h \notin stopped
    /\ st' = [st EXCEPT ![h] = "zombie"]
    /\ first' = IF first = 0 THEN h ELSE first
    /\ UNCHANGED <<sched, mainVars, stopped, pos>>
-----------------------------------------------------------------------------
MainStep == Fork \/ Reap \/ Skip \/ Stop \/ \E h \in Lanes : Continue(h)
HorseStep(h) == Draw(h) \/ Move(h) \/ Finish(h) \/ Exit(h)

Next == MainStep \/ \E h \in Lanes : HorseStep(h)

Spec == Init /\ [][Next]_vars

\* A horse that gets slice after slice runs in one of them (the sleep of the
\* parent is random, or 15 ms), random() is not zero for ever, and it names
\* every lane again and again.
FairSpec ==
    /\ Spec /\ WF_vars(MainStep)
    /\ \A h \in Lanes :
          /\ SF_vars(HorseStep(h))
          /\ SF_vars(MoveBy(h, 1))
          /\ SF_vars(sched = "rand" /\ Continue(h))
-----------------------------------------------------------------------------
(***************************************************************************)
(* Properties                                                              *)
(***************************************************************************)
TypeOK ==
    /\ sched \in {"rr", "rand"}
    /\ main \in {"fork", "pick", "scan", "slice", "done", "failed"}
    /\ lane \in Lanes /\ running \in 0..N
    /\ winner \in 0..N /\ first \in 0..N
    /\ st \in [Lanes -> {"unborn", "start", "draw", "move", "finish", "exit", "zombie", "reaped"}]
    /\ pos \in [Lanes -> 0..TrackLen]
    /\ stopped \subseteq Lanes

\* A horse that has stopped itself once moves only in its own slice: whatever
\* the horses do with the signals, there are never two on the way at a time
\* (race_rr.c:96-98, race_rand.c:86-88).
OneAtATime ==
    \A h \in Lanes : Alive(h) /\ st[h] # "start" /\ h \notin stopped =>
        main = "slice" /\ lane = h

\* The horse that is announced was the first to end, although the parent looks
\* for the ended horses in the order of the lanes; when the announcement is
\* made every horse has been reaped (race_rr.c:86-94, 104).
WinnerFirst ==
    /\ winner # 0 => winner = first
    /\ main = "done" => winner # 0 /\ Unreaped = {}

\* The race ends, unless a horse could not be forked: no turn that is lost
\* because SIGCONT came before the stop, or SIGSTOP before the move, keeps a
\* horse on the track.
RaceEnds == []~(main = "failed") => <>(main = "done")
-----------------------------------------------------------------------------
(***************************************************************************)
(* The inductive invariant                                                 *)
(***************************************************************************)
\* The order in which the parent will look at the lanes
Key(h) == IF h > lane \/ (h = lane /\ main # "slice") THEN h ELSE h + N

\* Until the first horse to end has been reaped, nobody has been reaped and
\* every other horse that has ended comes later in the scan.
Ranking ==
    /\ first = 0 => /\ winner = 0 /\ running = N
                    /\ \A h \in Lanes : st[h] \notin {"zombie", "reaped"}
    /\ first # 0 => main \notin {"fork", "failed"} /\ st[first] \in {"zombie", "reaped"}
    /\ first # 0 /\ st[first] = "zombie" =>
          /\ winner = 0 /\ running = N
          /\ \A h \in Lanes : st[h] # "reaped"
          /\ sched = "rr" => \A h \in Lanes \ {first} : st[h] = "zombie" => Key(first) < Key(h)
    /\ first # 0 /\ st[first] = "reaped" => winner = first /\ running < N

\* In race_rand.c there is at most one horse to be reaped.
OneZombie ==
    sched = "rand" => \A h \in Lanes : st[h] = "zombie" =>
        /\ (main = "slice" /\ h = lane) \/ (main = "scan" /\ lane <= h)
        /\ \A g \in Lanes : st[g] = "zombie" => g = h

\* still_running counts the horses that have not been reaped.
Counted == running = Cardinality(Unreaped) /\ (main = "done" => running = 0)
=============================================================================
