--------------------------- MODULE ForkReapProofs ---------------------------
(***************************************************************************)
(* Theorems about the two modules in which a parent forks children and     *)
(* reaps them one by one. HorseRace, for any number of horses, any track   *)
(* and any speed: one horse at a time, and the right winner under both     *)
(* schedulers. ForkWait, for any number of children and any numbers they   *)
(* return: the parent announces the highest one.                           *)
(***************************************************************************)
EXTENDS HorseRace, ForkWait, FiniteSetTheorems, TLAPS

-----------------------------------------------------------------------------
(***************************************************************************)
(* HorseRace                                                               *)
(***************************************************************************)
Inv == TypeOK /\ OneAtATime /\ Ranking /\ OneZombie /\ Counted

\* Counting the horses: nobody is left exactly when the count is 0.
LEMMA UnreapedFinite ==
  /\ IsFiniteSet(Unreaped)
  /\ Cardinality(Unreaped) \in Nat
  /\ Cardinality(Unreaped) = 0 <=> Unreaped = {}
<1>1. IsFiniteSet(Lanes)
  BY RaceAssumption, FS_Interval DEF Lanes
<1>2. Unreaped \subseteq Lanes
  BY DEF Unreaped
<1>3. IsFiniteSet(Unreaped)
  BY <1>1, <1>2, FS_Subset
<1> QED BY <1>3, FS_CardinalityType, FS_EmptySet

LEMMA InitInv == Init => Inv
<1> SUFFICES ASSUME Init PROVE Inv
  OBVIOUS
<1>1. TypeOK /\ OneAtATime /\ Ranking /\ OneZombie
  BY RaceAssumption
     DEF Init, TypeOK, OneAtATime, Ranking, OneZombie, Lanes, Alive
<1>2. Unreaped = 1..N
  BY DEF Init, Unreaped, Lanes
<1>3. Cardinality(1..N) = N
  BY RaceAssumption, FS_Interval
<1>4. Counted
  BY <1>2, <1>3 DEF Init, Counted
<1> QED BY <1>1, <1>4 DEF Inv

\* A step that reaps nobody leaves the count alone.
LEMMA CountKept ==
  ASSUME Inv, running' = running, main' = "done" => running = 0,
         \A h \in Lanes : st'[h] = "reaped" <=> st[h] = "reaped"
  PROVE  Counted'
<1>1. Unreaped' = Unreaped
  BY DEF Unreaped, Lanes
<1> QED BY <1>1 DEF Inv, Counted

\* fork(): nobody has run yet.
LEMMA ForkInv == ASSUME Inv, Fork PROVE Inv'
<1>1. TypeOK' /\ OneAtATime' /\ Ranking' /\ OneZombie'
  BY RaceAssumption
     DEF Inv, Fork, Lap, TypeOK, OneAtATime, Ranking, OneZombie, Lanes, Alive, horseVars
<1>2. \A h \in Lanes : st'[h] = "reaped" <=> st[h] = "reaped"
  BY DEF Inv, Fork, TypeOK, Ranking
<1>3. Counted'
  BY <1>2, CountKept DEF Fork, Lap
<1> QED BY <1>1, <1>3 DEF Inv

\* waitpid() returns a pid: if it is the first time, the horse is the first.
LEMMA ReapInv == ASSUME Inv, Reap PROVE Inv'
<1>1. lane \in Unreaped /\ first # 0
  BY DEF Inv, Reap, TypeOK, Unreaped, Ranking
<1>2. st[first] = "zombie" => lane = first
  BY <1>1, RaceAssumption DEF Inv, Reap, TypeOK, Ranking, OneZombie, Key, Lanes
<1>3. Unreaped' = Unreaped \ {lane}
  BY DEF Inv, Reap, TypeOK, Unreaped, Lanes
<1>4. Cardinality(Unreaped') = Cardinality(Unreaped) - 1
  BY <1>1, <1>3, UnreapedFinite, FS_RemoveElement
<1>5. running \in 1..N
  BY <1>1, UnreapedFinite, RaceAssumption DEF Inv, TypeOK, Counted
<1>6. TypeOK'
  BY <1>5, RaceAssumption DEF Inv, Reap, Advance, Lap, TypeOK, Lanes, horseVars
<1>7. OneAtATime'
  BY DEF Inv, Reap, TypeOK, OneAtATime, Alive, Lanes, horseVars
<1>8. Ranking'
  BY <1>1, <1>2, <1>5, RaceAssumption
     DEF Inv, Reap, Advance, Lap, TypeOK, Ranking, Key, Lanes, horseVars
<1>9. OneZombie'
  BY RaceAssumption DEF Inv, Reap, Advance, Lap, TypeOK, OneZombie, Lanes, horseVars
<1>10. Counted'
  BY <1>4, <1>5 DEF Inv, Reap, Advance, Lap, Counted
<1> QED BY <1>6, <1>7, <1>8, <1>9, <1>10 DEF Inv

\* A lane that is passed over is not the lane of a horse to be reaped.
LEMMA SkipInv == ASSUME Inv, Skip PROVE Inv'
<1>1. TypeOK' /\ OneAtATime'
  BY RaceAssumption DEF Inv, Skip, Advance, Lap, TypeOK, OneAtATime, Alive, Lanes, horseVars
<1>2. Ranking'
  BY RaceAssumption DEF Inv, Skip, Advance, Lap, TypeOK, Ranking, Key, Lanes, horseVars
<1>3. OneZombie'
  BY RaceAssumption DEF Inv, Skip, Advance, Lap, TypeOK, OneZombie, Lanes, horseVars
<1>4. main' = "done" => running = 0
  BY DEF Inv, Skip, Advance, Lap, TypeOK
<1>5. Counted'
  BY <1>4, CountKept DEF Skip
<1> QED BY <1>1, <1>2, <1>3, <1>5 DEF Inv

\* SIGCONT: the only horse on the way is the one of the slice.
LEMMA ContinueInv == ASSUME Inv, NEW h \in Lanes, Continue(h) PROVE Inv'
<1>1. TypeOK' /\ OneAtATime'
  BY DEF Inv, Continue, TypeOK, OneAtATime, Alive, Lanes, horseVars
<1>2. Ranking' /\ OneZombie'
  BY RaceAssumption DEF Inv, Continue, TypeOK, Ranking, OneZombie, Key, Unreaped, Lanes, horseVars
<1>3. Counted'
  BY CountKept DEF Continue
<1> QED BY <1>1, <1>2, <1>3 DEF Inv

\* SIGSTOP: no horse is on the way between two slices.
LEMMA StopInv == ASSUME Inv, Stop PROVE Inv'
<1>1. TypeOK' /\ OneAtATime'
  BY RaceAssumption DEF Inv, Stop, Advance, Lap, TypeOK, OneAtATime, Alive, Lanes, horseVars
<1>2. Ranking'
  BY RaceAssumption DEF Inv, Stop, Advance, Lap, TypeOK, Ranking, Key, Lanes, horseVars
<1>3. OneZombie'
  BY RaceAssumption DEF Inv, Stop, Advance, Lap, TypeOK, OneZombie, Lanes, horseVars
<1>4. main' = "done" => running = 0
  BY DEF Inv, Stop, Advance, Lap, TypeOK
<1>5. Counted'
  BY <1>4, CountKept DEF Stop
<1> QED BY <1>1, <1>2, <1>3, <1>5 DEF Inv

\* A step of a horse: only the horse of the slice can end.
LEMMA HorseInv == ASSUME Inv, NEW h \in Lanes, HorseStep(h) PROVE Inv'
<1>1. CASE Draw(h)
  <2>1. TypeOK' /\ OneAtATime' /\ Ranking' /\ OneZombie'
    BY <1>1 DEF Inv, Draw, TypeOK, OneAtATime, Ranking, OneZombie, Key, Alive, Lanes, mainVars, horseVars
  <2>2. \A g \in Lanes : st'[g] = "reaped" <=> st[g] = "reaped"
    BY <1>1 DEF Inv, Draw, TypeOK
  <2> QED BY <1>1, <2>1, <2>2, CountKept DEF Inv, Counted, Draw, mainVars
<1>2. ASSUME NEW d \in 0..(MaxSpeed - 1), MoveBy(h, d) PROVE Inv'
  <2>1. TypeOK'
    BY <1>2, RaceAssumption DEF Inv, MoveBy, TypeOK, Lanes, mainVars
  <2>2. OneAtATime' /\ Ranking' /\ OneZombie'
    BY <1>2 DEF Inv, MoveBy, TypeOK, OneAtATime, Ranking, OneZombie, Key, Alive, Lanes, mainVars
  <2>3. \A g \in Lanes : st'[g] = "reaped" <=> st[g] = "reaped"
    BY <1>2 DEF Inv, MoveBy, TypeOK
  <2> QED BY <1>2, <2>1, <2>2, <2>3, CountKept DEF Inv, Counted, MoveBy, mainVars
<1>3. CASE Finish(h)
  <2>1. TypeOK' /\ OneAtATime' /\ Ranking' /\ OneZombie'
    BY <1>3 DEF Inv, Finish, TypeOK, OneAtATime, Ranking, OneZombie, Key, Alive, Lanes, mainVars, horseVars
  <2>2. \A g \in Lanes : st'[g] = "reaped" <=> st[g] = "reaped"
    BY <1>3 DEF Inv, Finish, TypeOK
  <2> QED BY <1>3, <2>1, <2>2, CountKept DEF Inv, Counted, Finish, mainVars
<1>4. CASE Exit(h)
  <2>1. main = "slice" /\ lane = h
    BY <1>4 DEF Inv, Exit, OneAtATime, Alive
  <2>2. TypeOK' /\ OneAtATime'
    BY <1>4 DEF Inv, Exit, TypeOK, OneAtATime, Alive, Lanes, mainVars
  <2>3. Ranking'
    BY <1>4, <2>1, RaceAssumption DEF Inv, Exit, TypeOK, Ranking, Key, Lanes, mainVars
  <2>4. OneZombie'
    BY <1>4, <2>1 DEF Inv, Exit, TypeOK, OneZombie, Lanes, mainVars
  <2>5. \A g \in Lanes : st'[g] = "reaped" <=> st[g] = "reaped"
    BY <1>4 DEF Inv, Exit, TypeOK
  <2> QED BY <1>4, <2>2, <2>3, <2>4, <2>5, CountKept DEF Inv, Counted, Exit, mainVars
<1> QED BY <1>1, <1>2, <1>3, <1>4 DEF HorseStep, Move

\* Nothing happens.
LEMMA Stutter == ASSUME Inv, UNCHANGED vars PROVE Inv'
  BY DEF vars, Inv, TypeOK, OneAtATime, Ranking, OneZombie, Counted, Key, Unreaped, Alive

\* The inductive invariant holds in every reachable state.
THEOREM RaceInvariant == Spec => []Inv
<1>1. Inv /\ [Next]_vars => Inv'
  BY ForkInv, ReapInv, SkipInv, ContinueInv, StopInv, HorseInv, Stutter DEF Next, MainStep
<1> QED BY InitInv, <1>1, PTL DEF Spec

\* For any number of horses the variables keep their types: no position is
\* negative, still_running never falls below zero (race_rr.c:38, 92).
THEOREM TypeCorrect == Spec => []TypeOK
<1>1. Inv => TypeOK
  BY DEF Inv
<1> QED BY RaceInvariant, <1>1, PTL

\* For any number of horses no two of them are on the way at a time
\* (race_rr.c:96-98, race_rand.c:86-88).
THEOREM OneHorseAtATime == Spec => []OneAtATime
<1>1. Inv => OneAtATime
  BY DEF Inv
<1> QED BY RaceInvariant, <1>1, PTL

\* For any number of horses the winner that is announced is the first horse to
\* end, and nobody is left behind (race_rr.c:86-94, 104).
THEOREM RightWinner == Spec => []WinnerFirst
<1>1. Inv => WinnerFirst
  <2> SUFFICES ASSUME Inv PROVE WinnerFirst
    OBVIOUS
  <2>1. winner # 0 => winner = first
    BY DEF Inv, TypeOK, Ranking
  <2>2. main = "done" => Unreaped = {}
    BY UnreapedFinite DEF Inv, Counted
  <2>3. Unreaped = {} => first # 0 /\ st[first] = "reaped"
    BY RaceAssumption DEF Inv, Unreaped, TypeOK, Ranking, Lanes
  <2>4. main = "done" => winner # 0
    BY <2>2, <2>3 DEF Inv, TypeOK, Ranking
  <2> QED BY <2>1, <2>2, <2>4 DEF WinnerFirst
<1> QED BY RaceInvariant, <1>1, PTL
-----------------------------------------------------------------------------
(***************************************************************************)
(* ForkWait                                                                *)
(***************************************************************************)
FamilyInv == FamilyTypeOK /\ Standing

\* Counting children: N of them are all of them.
LEMMA AllOfThem ==
  ASSUME NEW S \in SUBSET Children
  PROVE  /\ IsFiniteSet(S) /\ Cardinality(S) \in Nat
         /\ Cardinality(S) = NumChildren => S = Children
<1>1. IsFiniteSet(Children) /\ Cardinality(Children) = NumChildren
  BY ForkAssumption, FS_Interval DEF Children
<1> QED BY <1>1, FS_Subset, FS_CardinalityType

\* While the children that have been reaped and their numbers stay the same,
\* so does the highest.
LEMMA SameHighest ==
  ASSUME FamilyTypeOK, IsHighest(best, max, Reaped), Reaped' = Reaped,
         UNCHANGED <<max, best>>, \A c \in Reaped : status'[c] = status[c]
  PROVE  IsHighest(best, max, Reaped)'
<1> DEFINE S == {c \in Reaped : status[c] # Killed}
<1>1. {c \in Reaped' : status'[c] # Killed} = S
  OBVIOUS
<1> QED BY <1>1 DEF IsHighest

\* A step that reaps nobody
LEMMA NobodyReaped ==
  ASSUME FamilyInv, FamilyTypeOK', UNCHANGED <<prog, max, best>>,
         \A c \in Children : child'[c] = "reaped" <=> child[c] = "reaped",
         \A c \in Reaped : status'[c] = status[c],
         \/ UNCHANGED <<parent, i>>
         \/ parent = "fork" /\ parent' = "fork" /\ i' <= NumChildren
         \/ parent = "fork" /\ parent' = "sleep" /\ i' = 1 /\ prog # "random"
         \/ parent = "fork" /\ parent' = "wait" /\ i' = 1
         \/ parent = "sleep" /\ parent' = "wait" /\ i' = i
         \/ parent = "sleep" /\ parent' = "done"
         \/ parent = "fork" /\ parent' = "failed"
  PROVE  Standing'
<1>1. Reaped' = Reaped
  BY DEF Reaped
<1>2. prog = "random" => IsHighest(best, max, Reaped)'
  BY <1>1, SameHighest DEF FamilyInv, Standing
<1>3. Reaped = {} => Cardinality(Reaped) = 0
  BY FS_EmptySet
<1>4. prog' = prog
  OBVIOUS
<1> QED BY <1>1, <1>2, <1>3, <1>4, ForkAssumption DEF FamilyInv, Standing

LEMMA InitFamily == FamilyInit => FamilyInv
<1> SUFFICES ASSUME FamilyInit PROVE FamilyInv
  OBVIOUS
<1>1. FamilyTypeOK
  BY ForkAssumption DEF FamilyInit, FamilyTypeOK, Killed
<1>2. Reaped = {}
  BY DEF FamilyInit, Reaped
<1>3. IsHighest(best, max, {})
  BY DEF FamilyInit, IsHighest
<1> QED BY <1>1, <1>2, <1>3, ForkAssumption DEF FamilyInit, FamilyInv, Standing

LEMMA ForkChildInv == ASSUME FamilyInv, ForkChild PROVE FamilyInv'
<1>1. FamilyTypeOK'
  BY ForkAssumption DEF FamilyInv, ForkChild, FamilyTypeOK
<1>2. i \in Children /\ child[i] # "reaped"
  BY ForkAssumption DEF FamilyInv, ForkChild, FamilyTypeOK, Standing, Reaped, Children
<1>3. \A c \in Children : child'[c] = "reaped" <=> child[c] = "reaped"
  BY <1>2 DEF FamilyInv, ForkChild, FamilyTypeOK
<1>4. Standing'
  BY <1>1, <1>3, NobodyReaped, ForkAssumption DEF ForkChild, FamilyInv, FamilyTypeOK
<1> QED BY <1>1, <1>4 DEF FamilyInv

LEMMA WakeUpInv == ASSUME FamilyInv, WakeUp PROVE FamilyInv'
<1>1. FamilyTypeOK'
  BY DEF FamilyInv, WakeUp, FamilyTypeOK
<1>2. Standing'
  BY <1>1, NobodyReaped DEF WakeUp
<1> QED BY <1>1, <1>2 DEF FamilyInv

\* wait(): one child more is reaped, and its number is compared.
LEMMA WaitInv == ASSUME FamilyInv, Wait PROVE FamilyInv'
<1>1. PICK c \in Children :
         /\ child[c] = "zombie" /\ child' = [child EXCEPT ![c] = "reaped"]
         /\ IF prog = "random" /\ Higher(c) THEN max' = status[c] /\ best' = c
                                            ELSE UNCHANGED <<max, best>>
  BY DEF Wait, ReapChild
<1>2. /\ parent = "wait" /\ i \in 1..NumChildren /\ i = Cardinality(Reaped) + 1
      /\ i' = i + 1 /\ parent' = IF i < NumChildren THEN "wait" ELSE "done"
      /\ prog' = prog /\ status' = status
  BY ForkAssumption DEF FamilyInv, Wait, FamilyTypeOK, Standing
<1>3. FamilyTypeOK'
  <2>1. max' \in {-1} \cup 0..MaxValue /\ best' \in 0..NumChildren
    BY <1>1, ForkAssumption DEF FamilyInv, FamilyTypeOK, Higher, Children
  <2> QED BY <1>1, <1>2, <2>1, ForkAssumption DEF FamilyInv, FamilyTypeOK
<1>4. c \notin Reaped /\ Reaped' = Reaped \cup {c}
  BY <1>1 DEF FamilyInv, FamilyTypeOK, Reaped
<1>5. Cardinality(Reaped') = Cardinality(Reaped) + 1 /\ Cardinality(Reaped) \in Nat
  BY <1>4, AllOfThem, FS_AddElement DEF Reaped
<1>6. parent' = "done" => Reaped' = Children
  <2>1. ASSUME parent' = "done" PROVE Cardinality(Reaped') = NumChildren
    BY <1>2, <1>5, <2>1, ForkAssumption
  <2>2. Reaped' \in SUBSET Children
    BY DEF Reaped
  <2> QED BY <2>1, <2>2, AllOfThem
<1>7. ASSUME prog = "random" PROVE IsHighest(best, max, Reaped)'
  <2> DEFINE S == {d \in Reaped : status[d] # Killed}
             T == {d \in Reaped' : status'[d] # Killed}
  <2>1. IF S = {} THEN best = 0 /\ max = -1
        ELSE best \in S /\ status[best] = max /\ \A d \in S : status[d] <= max
    BY <1>7 DEF FamilyInv, Standing, IsHighest
  <2>2. T = IF status[c] = Killed THEN S ELSE S \cup {c}
    BY <1>2, <1>4
  <2>3. /\ status[c] # Killed => status[c] \in 0..MaxValue
        /\ \A d \in S : status[d] \in 0..MaxValue
        /\ max \in Int
    BY ForkAssumption DEF FamilyInv, FamilyTypeOK, Reaped
  <2> HIDE DEF S, T
  <2>4. IF T = {} THEN best' = 0 /\ max' = -1
        ELSE best' \in T /\ status[best'] = max' /\ \A d \in T : status[d] <= max'
    <3>1. CASE Higher(c)
      BY <1>1, <1>7, <2>1, <2>2, <2>3, <3>1, ForkAssumption DEF Higher
    <3>2. CASE ~Higher(c)
      BY <1>1, <2>1, <2>2, <2>3, <3>2, ForkAssumption DEF Higher
    <3> QED BY <3>1, <3>2
  <2> QED BY <1>2, <2>4 DEF IsHighest, T
<1>8. Standing'
  BY <1>2, <1>5, <1>6, <1>7, ForkAssumption DEF FamilyInv, Standing
<1> QED BY <1>3, <1>8 DEF FamilyInv

LEMMA ChildStepInv == ASSUME FamilyInv, NEW c \in Children, ChildStep(c) \/ Kill(c) PROVE FamilyInv'
<1>1. FamilyTypeOK'
  BY ForkAssumption DEF FamilyInv, ChildStep, Sleep, ChildExit, Adopt, Kill, FamilyTypeOK
<1>2. \A d \in Children : child'[d] = "reaped" <=> child[d] = "reaped"
  BY DEF FamilyInv, ChildStep, Sleep, ChildExit, Adopt, Kill, Running, FamilyTypeOK
<1>3. \A d \in Reaped : status'[d] = status[d]
  BY DEF FamilyInv, ChildStep, Sleep, ChildExit, Adopt, Kill, Running, FamilyTypeOK, Reaped
<1>4. UNCHANGED <<prog, parent, i, max, best>>
  BY DEF ChildStep, Sleep, ChildExit, Adopt, Kill
<1>5. Standing'
  BY <1>1, <1>2, <1>3, <1>4, NobodyReaped
<1> QED BY <1>1, <1>5 DEF FamilyInv

LEMMA NextFamily == ASSUME FamilyInv, [FamilyNext]_familyVars PROVE FamilyInv'
<1>1. CASE UNCHANGED familyVars
  BY <1>1 DEF familyVars, FamilyInv, FamilyTypeOK, Standing, Reaped, IsHighest
<1> QED BY <1>1, ForkChildInv, WakeUpInv, WaitInv, ChildStepInv DEF FamilyNext, ParentStep

\* The number of children that are reaped and the highest number among them
\* go with the loop variable (highest_random.c:40-53).
THEOREM ReapedCounted == FamilySpec => []FamilyInv
<1> QED BY InitFamily, NextFamily, PTL DEF FamilySpec

\* For any number of children the one that is announced has returned the
\* highest number of all, whatever the order in which they end and whichever
\* of them are killed (highest_random.c:36-54).
THEOREM Highest == FamilySpec => []HighestIsRight
<1>1. FamilyInv => HighestIsRight
  BY DEF FamilyInv, Standing, HighestIsRight
<1> QED BY <1>1, ReapedCounted, PTL
=============================================================================
