------------------------------ MODULE ForkWait -------------------------------
(***************************************************************************)
(* A parent and the children it forks in a loop (01-fork/exercises):       *)
(*   "random"  highest_random.c: every child returns a random number, and  *)
(*             the parent names the one with the highest;                  *)
(*   "orphan"  orphan_process.c: the parent sleeps and leaves its          *)
(*             children, which sleep longer, to be adopted;                *)
(*   "zombie"  zombieland.c: the parent sleeps before it reaps children    *)
(*             that ended long ago.                                        *)
(* Sleeps take any time. Anybody may kill a child.                         *)
(***************************************************************************)
EXTENDS Integers, FiniteSets

CONSTANTS
    NumChildren,    \* the argument: how many children
    MaxValue        \* 255: a child returns rand() % 256

ASSUME ForkAssumption == NumChildren \in Nat \ {0} /\ MaxValue \in Nat

VARIABLES
    prog,       \* which of the three programs is running
    parent,     \* where the parent is
    i,          \* its loop variable, from 1
    child,      \* where each child is; "gone": reaped by the process that adopted it
    status,     \* the exit status of a child that has ended
    max, best   \* max and the child of pid_max; 0 is the -1 of pid_max

familyVars == <<prog, parent, i, child, status, max, best>>

Children == 1..NumChildren
Killed == -1    \* ~WIFEXITED(status)
Running(c) == child[c] \in {"run", "sleep"}

FamilyInit ==
    /\ prog \in {"random", "orphan", "zombie"}
    /\ parent = "fork" /\ i = 1
    /\ child = [c \in Children |-> "unborn"]
    /\ status = [c \in Children |-> 0]
    /\ max = -1 /\ best = 0
-----------------------------------------------------------------------------
\* When fork() fails the parent returns and leaves the children it has.
ForkChild ==
    /\ parent = "fork"
    /\ \/ /\ child' = [child EXCEPT ![i] = "run"]
          /\ i' = IF i < NumChildren THEN i + 1 ELSE 1
          /\ parent' = IF i < NumChildren THEN "fork" ELSE IF prog = "random" THEN "wait" ELSE "sleep"
       \/ parent' = "failed" /\ UNCHANGED <<child, i>>
    /\ UNCHANGED <<prog, status, max, best>>

\* sleep(5) or sleep(30) is over.
WakeUp ==
    /\ parent = "sleep"
    /\ parent' = IF prog = "zombie" THEN "wait" ELSE "done"
    /\ UNCHANGED <<prog, i, child, status, max, best>>

\* Mutant: WIFEXITED is not tested; the status of a killed child reads as 0.
HigherAny(c) == IF status[c] = Killed THEN 0 > max ELSE status[c] > max

Higher(c) == status[c] # Killed /\ status[c] > max

ReapChild(c) ==
    /\ child[c] = "zombie" /\ child' = [child EXCEPT ![c] = "reaped"]
    /\ IF prog = "random" /\ Higher(c) THEN max' = status[c] /\ best' = c
                                       ELSE UNCHANGED <<max, best>>

\* Mutant: one call of wait() is missing.
WaitLess ==
    /\ parent = "wait" /\ \E c \in Children : ReapChild(c)
    /\ i' = i + 1 /\ parent' = IF i + 1 < NumChildren THEN "wait" ELSE "done"
    /\ UNCHANGED <<prog, status>>

\* wait() returns a child that has ended, any of them; it never fails, since
\* it is called as often as there are children.
Wait ==
    /\ parent = "wait" /\ \E c \in Children : ReapChild(c)
    /\ i' = i + 1 /\ parent' = IF i < NumChildren THEN "wait" ELSE "done"
    /\ UNCHANGED <<prog, status>>

\* A child of orphan_process.c sleeps; the others leave at once.
Sleep(c) ==
    /\ prog = "orphan" /\ child[c] = "run"
    /\ child' = [child EXCEPT ![c] = "sleep"]
    /\ UNCHANGED <<prog, parent, i, status, max, best>>

ChildExit(c) ==
    /\ child[c] = IF prog = "orphan" THEN "sleep" ELSE "run"
    /\ \E r \in IF prog = "random" THEN 0..MaxValue ELSE {0} :
          status' = [status EXCEPT ![c] = r]
    /\ child' = [child EXCEPT ![c] = "zombie"]
    /\ UNCHANGED <<prog, parent, i, max, best>>

\* kill -9, from outside
Kill(c) ==
    /\ Running(c)
    /\ status' = [status EXCEPT ![c] = Killed]
    /\ child' = [child EXCEPT ![c] = "zombie"]
    /\ UNCHANGED <<prog, parent, i, max, best>>

\* Without its parent a child is adopted, and reaped by whoever adopts it.
Adopt(c) ==
    /\ parent \in {"done", "failed"} /\ child[c] = "zombie"
    /\ child' = [child EXCEPT ![c] = "gone"]
    /\ UNCHANGED <<prog, parent, i, status, max, best>>
-----------------------------------------------------------------------------
ParentStep == ForkChild \/ WakeUp \/ Wait
ChildStep(c) == Sleep(c) \/ ChildExit(c) \/ Adopt(c)

FamilyNext == ParentStep \/ \E c \in Children : ChildStep(c) \/ Kill(c)

\* The kernel schedules every process; nobody has to kill.
FamilySpec ==
    /\ FamilyInit /\ [][FamilyNext]_familyVars
    /\ WF_familyVars(ParentStep) /\ \A c \in Children : WF_familyVars(ChildStep(c))
-----------------------------------------------------------------------------
(***************************************************************************)
(* Properties                                                              *)
(***************************************************************************)
FamilyTypeOK ==
    /\ prog \in {"random", "orphan", "zombie"}
    /\ parent \in {"fork", "sleep", "wait", "done", "failed"}
    /\ i \in 1..(NumChildren + 1)
    /\ child \in [Children -> {"unborn", "run", "sleep", "zombie", "reaped", "gone"}]
    /\ status \in [Children -> {Killed} \cup 0..MaxValue]
    /\ max \in {-1} \cup 0..MaxValue /\ best \in 0..NumChildren

\* b names a child of S that returned the highest number m, if any returned.
IsHighest(b, m, S) ==
    LET returned == {c \in S : status[c] # Killed} IN
    IF returned = {} THEN b = 0 /\ m = -1
    ELSE b \in returned /\ status[b] = m /\ \A c \in returned : status[c] <= m

\* What the parent announces is right whatever the order in which the children
\* end and are reaped, also when some of them, or all, have been killed: none
\* is missing and a killed one has no number (highest_random.c:36-54).
HighestIsRight ==
    prog = "random" /\ parent = "done" => IsHighest(best, max, Children)

\* Every process ends and no zombie stays: the children are reaped by their
\* parent if it waits, by whoever adopts them if it does not or if a fork fails
\* (zombieland.c:32-37, orphan_process.c:38-42, highest_random.c:21-24).
FamilyEnds ==
    <>(\/ parent = "failed" /\ \A c \in Children : child[c] \in {"unborn", "gone"}
       \/ parent = "done" /\ \A c \in Children : child[c] = IF prog = "orphan" THEN "gone" ELSE "reaped")
-----------------------------------------------------------------------------
(***************************************************************************)
(* The inductive invariant                                                 *)
(***************************************************************************)
Reaped == {c \in Children : child[c] = "reaped"}

\* i counts the children that have been reaped, and the highest so far is that
\* of those.
Standing ==
    /\ parent \in {"fork", "sleep", "failed"} => Reaped = {}
    /\ parent = "fork" => i <= NumChildren
    /\ parent = "sleep" => i = 1
    /\ parent = "wait" => i = Cardinality(Reaped) + 1 /\ i <= NumChildren
    /\ parent = "done" /\ prog = "random" => Reaped = Children
    /\ prog = "random" => parent # "sleep" /\ IsHighest(best, max, Reaped)
=============================================================================
