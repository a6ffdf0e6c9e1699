------------------------------- MODULE Primes -------------------------------
(***************************************************************************)
(* Programs that work through a range of numbers and are asked by signals  *)
(* how far they have come: SIGUSR1 and SIGUSR2 ask, SIGINT ends the loop.  *)
(*   "single"  exercise-3.c: the primes from nstart to nend;               *)
(*   "tree"    exercise-3-v2.c: the range is meant to be shared by 10      *)
(*             children.  A child does not leave the fork loop after its   *)
(*             numbers: it goes on and forks children of its own;          *)
(*   "warmup"  warmup.c: a loop that only counts and sleeps.               *)
(* A process is the set of the fork turns it and its ancestors were born   *)
(* in; the first process is {}.  A handler only sets a flag, so a signal   *)
(* is handled when it is sent.                                             *)
(***************************************************************************)
EXTENDS Integers, Sequences, FiniteSets

CONSTANTS
    NForks,     \* 10
    LongMax,    \* LONG_MAX
    Slow,       \* the numbers whose division loop looks at the flags (1000 divisors)
    Inputs,     \* pairs nstart <= nend on the command line
    MaxSignals  \* bound: how many signals are sent, for each program

ASSUME PrimesAssumption ==
    /\ NForks \in Nat \ {0} /\ LongMax \in Nat 
    /\ MaxSignals \in [{"single", "tree", "warmup"} -> Nat]
    /\ Inputs \subseteq Int \X Int
    /\ \A r \in Inputs : r[1] <= r[2] /\ r[2] <= LongMax

VARIABLES
    prog, nstart, nend,     \* the program and its arguments
    proc,                   \* the state of every process, a record
    sent                    \* signals sent

vars == <<prog, nstart, nend, proc, sent>>

Turns == 1..NForks
Procs == SUBSET Turns
Asks  == {"USR1", "USR2"}
Ended == {"ended", "failed", "killed", "reaped"}
Started(x) == proc[x].pc # "none"
Running(x) == proc[x].pc \notin Ended \cup {"none"}
\* The children that x has, or will have
Kids(x) == {x \cup {t} : t \in {u \in Turns : \A v \in x : u > v}}
Left(x) == {y \in Kids(x) : proc[y].pc \notin {"none", "reaped"}}

\* seen (history): the numbers factored, by the ancestors before the fork too;
\* owed (history): the requests that have not been answered;
\* back: where handle_received_signals returns to; waits, cuts: calls of wait(),
\* and those that a signal has interrupted
Fresh == [pc |-> "none", turn |-> 1, n |-> 0, interval |-> 0, rest |-> 0, add |-> 0,
          flags |-> {}, factored |-> 0, primes |-> 0, last |-> 0, back |-> "next",
          waits |-> 0, cuts |-> 0, seen |-> <<>>, owed |-> {}]

RangeLen == nend - nstart + 1
NumRanges == RangeLen \div NForks
Rest == IF RangeLen % NForks = 0 THEN 0 ELSE RangeLen - NumRanges * NForks - 1

\* The arguments; warmup has a small fixed range. Left out are those for which
\* the arithmetic of the tree overflows a long: its length, or
\* interval += num_ranges + add_flag.
Init ==
    /\ prog \in DOMAIN MaxSignals
    /\ \E r \in Inputs : nstart = r[1] /\ nend = r[2]
    /\ prog = "warmup" => nstart = 0 /\ nend < LongMax
    /\ prog = "tree" => RangeLen <= LongMax /\ nend + NForks <= LongMax
    /\ proc = [x \in Procs |-> IF x = {} THEN [Fresh EXCEPT !.pc = "usr1"] ELSE Fresh]
    /\ sent = 0

Becomes(x, r) == proc' = [proc EXCEPT ![x] = r] /\ UNCHANGED <<prog, nstart, nend, sent>>
-----------------------------------------------------------------------------
(***************************************************************************)
(* The loop over the numbers                                               *)
(***************************************************************************)
\* The bound of the loop: n <= nend, or n < num_ranges + add_flag in a child
Bound(r) == IF prog = "tree" THEN NumRanges + r.add ELSE nend + 1

\* The loop test on k; warmup looks at SIGINT here.
Enter(r, k) ==
    [r EXCEPT !.n = k,
              !.pc = IF k < Bound(r) /\ ~(prog = "warmup" /\ "INT" \in r.flags)
                     THEN "count" ELSE "summary"]

\* The handlers are installed one after the other; warmup has none for SIGUSR2.
\* With -t it raises SIGUSR1 and answers before the loop.
Install(x) ==
    LET r == proc[x] IN
    \/ r.pc = "usr1" /\ Becomes(x, [r EXCEPT !.pc = IF prog = "warmup" THEN "int" ELSE "usr2"])
    \/ r.pc = "usr2" /\ Becomes(x, [r EXCEPT !.pc = "int"])
    \/ /\ r.pc = "int"
       /\ IF prog = "tree"
          THEN Becomes(x, [r EXCEPT !.pc = "fork", !.interval = nstart, !.rest = Rest])
          ELSE \/ Becomes(x, Enter(r, nstart))
               \/ prog = "warmup" /\ Becomes(x, [r EXCEPT !.pc = "poll1", !.n = -1,
                                    !.flags = @ \cup {"USR1"}, !.owed = @ \cup {"USR1"}])

\* Mutant: the division loop stops one divisor early.
IsPrimeStrict(n) ==
    \/ n = 2
    \/ n > 2 /\ n % 2 # 0 /\ \A d \in 3..n : d % 2 # 0 /\ d < n \div d => n % d # 0

IsPrime(n) ==
    \/ n = 2
    \/ n > 2 /\ n % 2 # 0 /\ \A d \in 3..n : d % 2 # 0 /\ d <= n \div d => n % d # 0

\* Mutant: LONG_MAX is not treated apart.
CountToTheEnd(x) ==
    LET r == proc[x]
        p == prog # "warmup" /\ IsPrime(r.n)
    IN  /\ r.pc = "count"
        /\ Becomes(x, [r EXCEPT !.factored = @ + 1, !.seen = Append(@, r.n), !.back = "next",
               !.primes = IF p THEN @ + 1 ELSE @, !.last = IF p THEN r.n ELSE @,
               !.pc = IF prog # "warmup" /\ "INT" \in r.flags THEN "summary" ELSE "poll1"])

\* One number: then SIGINT, then LONG_MAX, then the requests.
Count(x) ==
    LET r == proc[x]
        p == prog # "warmup" /\ IsPrime(r.n)
    IN  /\ r.pc = "count"
        /\ Becomes(x, [r EXCEPT !.factored = @ + 1, !.seen = Append(@, r.n), !.back = "next",
               !.primes = IF p THEN @ + 1 ELSE @, !.last = IF p THEN r.n ELSE @,
               !.pc = IF prog # "warmup" /\ ("INT" \in r.flags \/ r.n = LongMax)
                      THEN "summary" ELSE "poll1"])

\* Within is_prime the requests are looked at before the number is counted.
CountSlowly(x) ==
    LET r == proc[x] IN
    /\ r.pc = "count" /\ prog # "warmup" /\ r.n \in Slow /\ r.flags \cap Asks # {}
    /\ Becomes(x, [r EXCEPT !.pc = "poll1", !.back = "count"])

Resume(r) == IF r.back = "count" THEN [r EXCEPT !.pc = "count"] ELSE Enter(r, r.n + 1)

\* handle_received_signals: SIGUSR1 ("poll1", "say1"), then SIGUSR2 ("poll2",
\* "say2"), in two steps each; a signal may be handled between the two.
Requests(x, First(_, _), Second(_, _)) ==
    LET r == proc[x] IN
    \/ /\ r.pc \in {"poll1", "poll2"}
       /\ Becomes(x,
            IF r.pc = "poll1" /\ "USR1" \in r.flags THEN [First(r, "USR1") EXCEPT !.pc = "say1"]
            ELSE IF prog # "warmup" /\ "USR2" \in r.flags
            THEN [First(r, "USR2") EXCEPT !.pc = "say2"]
            ELSE Resume(r))
    \/ r.pc = "say1" /\ Becomes(x, [Second(r, "USR1") EXCEPT !.pc = "poll2"])
    \/ r.pc = "say2" /\ Becomes(x, Resume(Second(r, "USR2")))

Clear(r, sig) == [r EXCEPT !.flags = @ \ {sig}]
Answer(r, sig) == [r EXCEPT !.owed = @ \ {sig}]

\* Mutant: the flag is cleared after the answer.
HandleRequestsLate(x) == Requests(x, Answer, Clear)

\* The flag is cleared before the answer is printed.
HandleRequests(x) == Requests(x, Clear, Answer)
-----------------------------------------------------------------------------
(***************************************************************************)
(* The processes                                                           *)
(***************************************************************************)
\* interval += num_ranges + add_flag; i++
NextTurn(r) ==
    [r EXCEPT !.interval = @ + NumRanges + r.add, !.turn = @ + 1,
              !.pc = IF r.turn = NForks THEN "wait" ELSE "fork"]

\* After the final summary a child of the tree takes its next fork turn.
Summary(x) ==
    LET r == proc[x] IN
    /\ r.pc = "summary"
    /\ Becomes(x, IF prog = "tree" THEN NextTurn(r) ELSE [r EXCEPT !.pc = "ended"])

\* The child takes a share of the rest, which its parent does not learn, and
\* inherits the counters and the flags. When fork() fails main returns.
Fork(x) ==
    LET r == proc[x]
        y == x \cup {r.turn}
        c == [r EXCEPT !.add = IF r.rest > 0 THEN 1 ELSE 0,
                       !.rest = IF @ > 0 THEN @ - 1 ELSE @, !.owed = {}]
    IN  /\ r.pc = "fork"
        /\ \/ proc' = [proc EXCEPT ![x] = NextTurn(r), ![y] = Enter(c, r.interval)]
           \/ proc' = [proc EXCEPT ![x].pc = "failed"]
        /\ UNCHANGED <<prog, nstart, nend, sent>>

\* A call of wait() has returned.
Waited(r) == [r EXCEPT !.waits = @ + 1, !.pc = IF r.waits + 1 = NForks THEN "ended" ELSE "wait"]

\* Mutant: a child of the tree does not wait.
WaitNot(x) ==
    /\ proc[x].pc = "wait"
    /\ Becomes(x, [proc[x] EXCEPT !.pc = "ended"])

\* wait(NULL) reaps any child that has ended; without children it fails.
Wait(x) ==
    /\ proc[x].pc = "wait"
    /\ \/ \E y \in Left(x) : /\ proc[y].pc \in Ended
                             /\ proc' = [proc EXCEPT ![x] = Waited(@), ![y].pc = "reaped"]
       \/ Left(x) = {} /\ proc' = [proc EXCEPT ![x].pc = "ended"]
    /\ UNCHANGED <<prog, nstart, nend, sent>>

\* A signal kills the process that has no handler for it yet.
NoHandler(pc, sig) ==
    \/ prog = "warmup" /\ sig = "USR2"
    \/ pc = "usr1" \/ (pc = "usr2" /\ sig # "USR1") \/ (pc = "int" /\ sig = "INT")

\* A handler sets its flag and interrupts a wait() that blocks.
Send(x, sig) ==
    LET r == proc[x]
        s == [r EXCEPT !.flags = @ \cup {sig}, !.owed = @ \cup ({sig} \cap Asks)]
    IN  /\ sent < MaxSignals[prog] /\ Running(x)
        /\ sent' = sent + 1
        /\ \E t \in IF NoHandler(r.pc, sig) THEN {[r EXCEPT !.pc = "killed"]}
                    ELSE IF r.pc = "wait" /\ (\A y \in Left(x) : proc[y].pc \notin Ended)
                    THEN {s, Waited([s EXCEPT !.cuts = @ + 1])} ELSE {s} :
              proc' = [proc EXCEPT ![x] = t]
        /\ UNCHANGED <<prog, nstart, nend>>
-----------------------------------------------------------------------------
Next ==
    \E x \in Procs :
        \/ Install(x) \/ Count(x) \/ CountSlowly(x) \/ HandleRequests(x)
        \/ Summary(x) \/ Fork(x) \/ Wait(x)
        \/ \E sig \in Asks \cup {"INT"} : Send(x, sig)

Spec == Init /\ [][Next]_vars
-----------------------------------------------------------------------------
(***************************************************************************)
(* Properties                                                              *)
(***************************************************************************)
Divides(d, n) == n % d = 0
Prime(n) == n > 1 /\ \A d \in 2..(n - 1) : ~Divides(d, n)

\* No number passes LONG_MAX: n++ does not overflow, even when nend is
\* LONG_MAX (exercise-3.c:167-172); no process waits more often than it forks
\* turns there are.
TypeOK ==
    /\ sent \in 0..MaxSignals[prog]
    /\ \A x \in Procs :
          /\ proc[x].n <= LongMax
          /\ proc[x].flags \subseteq Asks \cup {"INT"} /\ proc[x].owed \subseteq Asks
          /\ proc[x].turn \in 1..(NForks + 1) /\ proc[x].waits \in 0..NForks
          /\ proc[x].rest \in 0..NForks /\ proc[x].add \in {0, 1}

\* What a process would print at any moment is true of the numbers it and its
\* ancestors have worked through, whenever it is asked: also in the middle of
\* a number, and after a fork, which copies the counters (exercise-3.c:80-111
\* and 154-174, exercise-3-v2.c:186-206). warmup.c has no counters but its loop
\* variable, which is the number of iterations when it leaves the loop.
Counts ==
    \A x \in Procs :
        LET r == proc[x]
            found == {i \in 1..Len(r.seen) : prog # "warmup" /\ Prime(r.seen[i])}
        IN  /\ r.factored = Len(r.seen)
            /\ prog = "warmup" /\ r.pc \in {"summary", "ended"} => r.n = r.factored
            /\ r.primes = Cardinality(found)
            /\ r.last = IF found = {} THEN 0
                        ELSE r.seen[CHOOSE i \in found : \A j \in found : j <= i]

\* A request is never forgotten while the loop goes on: it is in the flag, or
\* the answer is about to be printed. A signal that arrives between the test
\* and the reset of the flag is answered by the very answer that follows
\* (exercise-3.c:81-88).
NoRequestLost ==
    \A x \in Procs : Running(x) => \A sig \in proc[x].owed :
        sig \in proc[x].flags \/ proc[x].pc = (IF sig = "USR1" THEN "say1" ELSE "say2")

\* Every process of the tree outlives its children and reaps them, as long as
\* the calls of wait() that signals have interrupted and its children are
\* together not more than the calls it makes (exercise-3-v2.c:212-214).
EndsLast ==
    \A x \in Procs :
        proc[x].pc = "ended" /\ Cardinality(Kids(x)) + proc[x].cuts <= NForks
            => Left(x) = {}

\* exercise-3-v2.c:133 "Factoring numbers from %ld to %ld": when no signal was
\* sent, no fork failed and all have ended, every number of the range has been
\* factored by some process.
RangeIsCovered ==
    prog = "tree" /\ sent = 0 /\ (\A x \in Procs : proc[x].pc \in {"ended", "reaped"})
        => \A n \in nstart..nend : \E x \in Procs : \E i \in 1..Len(proc[x].seen) :
              proc[x].seen[i] = n
-----------------------------------------------------------------------------
(***************************************************************************)
(* The inductive invariant                                                 *)
(***************************************************************************)
Handling == {"poll1", "say1", "poll2", "say2"}
Record ==
    [pc : {"none", "usr1", "usr2", "int", "fork", "count", "summary", "wait"} \cup Handling \cup Ended,
     turn : 1..(NForks + 1), n : Int, interval : Int, rest : 0..NForks, add : {0, 1},
     flags : SUBSET (Asks \cup {"INT"}), factored : Nat, primes : Nat, last : Int,
     back : {"next", "count"}, waits : 0..NForks, cuts : Nat, seen : Seq(Int), owed : SUBSET Asks]

\* In the loop n is below its bound, and below LONG_MAX where n++ is next.
Loop(r) ==
    /\ r.n <= LongMax
    /\ r.pc \in {"count"} \cup Handling => r.n < Bound(r)
    /\ r.pc \in Handling /\ r.back = "next" => r.n < LongMax

\* A process in the fork loop has had less than its ten turns, and its interval
\* has grown by the length of a range at most in each of them.
Growing(r) ==
    /\ r.pc \in {"usr1", "usr2", "int"} => r.turn = 1
    /\ r.pc \in {"usr1", "usr2", "int", "fork", "count", "summary"} \cup Handling =>
          r.turn <= NForks /\ r.waits = 0
    /\ r.pc = "wait" => r.waits < NForks
    /\ r.pc \in {"fork", "wait"} => prog = "tree"
    /\ r.pc \in {"fork", "count", "summary"} \cup Handling /\ prog = "tree" =>
          r.interval <= nstart + (r.turn - 1) * (NumRanges + 1)

\* A request is in the flag, or its answer is about to be printed.
Remembered(r) ==
    r.pc \notin Ended => \A sig \in r.owed :
        sig \in r.flags \/ r.pc = (IF sig = "USR1" THEN "say1" ELSE "say2")

Arguments ==
    /\ prog \in DOMAIN MaxSignals /\ sent \in 0..MaxSignals[prog]
    /\ nstart \in Int /\ nend \in Int /\ nstart <= nend /\ nend <= LongMax
    /\ prog = "warmup" => nstart = 0 /\ nend < LongMax
    /\ prog = "tree" => nend + NForks <= LongMax

Good(r) == r \in Record /\ Loop(r) /\ Growing(r) /\ Remembered(r)
LoopInv == Arguments /\ proc \in [Procs -> Record] /\ \A x \in Procs : Good(proc[x])

\* The numbers at which prime numbers were found
Found(r) == {i \in 1..Len(r.seen) : prog # "warmup" /\ Prime(r.seen[i])}

\* The counters are those of the numbers seen; the loop variable of warmup is
\* the number of iterations, in the handler one less.
Counted(r) ==
    /\ r.factored = Len(r.seen)
    /\ r.primes = Cardinality(Found(r))
    /\ Found(r) = {} => r.last = 0
    /\ Found(r) # {} => \E i \in Found(r) : r.last = r.seen[i] /\ \A j \in Found(r) : j <= i
    /\ prog = "warmup" /\ r.pc \in {"count", "summary", "ended"} => r.n = r.factored
    /\ prog = "warmup" /\ r.pc \in Handling => r.n = r.factored - 1 /\ r.back = "next"
    /\ r.pc \in {"usr1", "usr2", "int"} => r.factored = 0 /\ r.back = "next"

Reaped(x) == {y \in Kids(x) : proc[y].pc = "reaped"}

\* Where a process stands in the tree: the children it will fork later do not
\* exist, and every return from wait() is a child reaped or an interruption.
Stands(x) ==
    LET r == proc[x] IN
    /\ r.pc = "none" => r.turn = 1 /\ r.waits = 0 /\ r.cuts = 0
    /\ r.pc \in {"usr1", "usr2", "int"} => x = {}
    /\ r.pc # "none" => \A v \in x : v <= r.turn
    /\ r.pc = "fork" => \A v \in x : v < r.turn
    /\ \A u \in Turns : u >= r.turn /\ x \cup {u} \in Kids(x) => proc[x \cup {u}].pc = "none"
    /\ r.waits = r.cuts + Cardinality(Reaped(x))
    /\ r.pc = "ended" => r.waits = NForks \/ Left(x) = {}
    /\ prog # "tree" /\ x # {} => r.pc = "none"

TreeInv  == \A x \in Procs : Stands(x)
CountersInv == \A x \in Procs : Counted(proc[x])
=============================================================================
