---------------------------- MODULE PrimesProofs ----------------------------
(***************************************************************************)
(* Theorems about Primes, for any largest number, range and number of      *)
(* forks: the loop never passes LONG_MAX, no request is forgotten, the     *)
(* counters are true, and the children are reaped.                         *)
(***************************************************************************)
EXTENDS Primes, FiniteSetTheorems, TLAPS

\* The length of the range, divided by the number of children
LEMMA Division ==
  ASSUME NEW a \in Nat, NEW b \in Nat \ {0}
  PROVE  /\ a \div b \in Nat /\ a % b \in 0..(b - 1)
         /\ a = b * (a \div b) + (a % b)
  BY SMT

LEMMA RangeFacts ==
  ASSUME Arguments
  PROVE  /\ RangeLen \in Nat /\ NumRanges \in Nat /\ Rest \in 0..NForks
         /\ NForks * NumRanges <= RangeLen
<1>1. RangeLen \in Nat
  BY DEF Arguments, RangeLen
<1>2. NForks \in Nat \ {0}
  BY PrimesAssumption
<1>3. /\ NumRanges \in Nat /\ (RangeLen % NForks) \in 0..(NForks - 1)
      /\ RangeLen = NForks * NumRanges + (RangeLen % NForks)
  BY <1>1, <1>2, Division DEF NumRanges
<1>4. NForks * NumRanges \in Nat
  BY <1>2, <1>3
<1>5. NumRanges * NForks = NForks * NumRanges
  BY <1>2, <1>3
<1> DEFINE m == RangeLen % NForks
           q == NForks * NumRanges
<1>6. Rest = IF m = 0 THEN 0 ELSE RangeLen - q - 1
  BY <1>5 DEF Rest
<1>7. m \in 0..(NForks - 1) /\ RangeLen = q + m /\ q \in Nat
  BY <1>3, <1>4
<1> HIDE DEF m, q
<1>8. Rest \in 0..NForks /\ q <= RangeLen
  BY <1>1, <1>2, <1>6, <1>7
<1> QED BY <1>1, <1>3, <1>8 DEF q

LEMMA Times ==
  ASSUME NEW a \in Nat, NEW b \in Nat, NEW c \in Nat, a <= b PROVE a * c <= b * c
  BY SMT

LEMMA Distribute ==
  ASSUME NEW t \in Nat, NEW k \in Nat PROVE (t + 1) * k = t * k + k /\ t * k \in Int
  BY SMT

\* interval never passes LONG_MAX when a child starts from it.
LEMMA IntervalFits ==
  ASSUME Arguments, prog = "tree", NEW t \in 1..NForks,
         NEW i \in Int, i <= nstart + (t - 1) * (NumRanges + 1)
  PROVE  i <= LongMax
<1>1. NForks \in Nat \ {0} /\ NumRanges \in Nat /\ RangeLen \in Nat /\ NForks * NumRanges <= RangeLen
  BY RangeFacts, PrimesAssumption
<1>2. (t - 1) * (NumRanges + 1) <= (NForks - 1) * (NumRanges + 1)
  BY <1>1, Times
<1>3. (NForks - 1) * (NumRanges + 1) = NForks * NumRanges + NForks - NumRanges - 1
  BY <1>1
<1> DEFINE p == (t - 1) * (NumRanges + 1)
           q == NForks * NumRanges
<1>4. p \in Int /\ q \in Int /\ p <= q + NForks - NumRanges - 1 /\ q <= RangeLen
  BY <1>1, <1>2, <1>3
<1>5. i <= nstart + p
  OBVIOUS
<1> HIDE DEF p, q
<1> QED BY <1>1, <1>4, <1>5, PrimesAssumption DEF Arguments, RangeLen

\* A loop test on a number that is small enough
LEMMA EnterGood ==
  ASSUME Arguments, NEW r \in Record, NEW k \in Int, k <= LongMax,
         r.turn <= NForks, r.waits = 0,
         prog = "tree" => r.interval <= nstart + (r.turn - 1) * (NumRanges + 1),
         \A sig \in r.owed : sig \in r.flags
  PROVE  Good(Enter(r, k))
<1> DEFINE s == Enter(r, k)
<1>1. /\ s \in Record /\ s.n = k /\ s.pc \in {"count", "summary"} /\ s.turn = r.turn
      /\ s.waits = r.waits /\ s.interval = r.interval /\ s.owed = r.owed /\ s.flags = r.flags
      /\ s.add = r.add /\ s.back = r.back
      /\ s.pc = "count" => k < Bound(r)
  BY DEF Enter, Record
<1>2. Bound(s) = Bound(r)
  BY <1>1 DEF Bound
<1> HIDE DEF s
<1>3. Loop(s)
  BY <1>1, <1>2 DEF Loop, Handling
<1>4. Growing(s) /\ Remembered(s)
  BY <1>1 DEF Growing, Handling, Remembered
<1> QED BY <1>1, <1>3, <1>4 DEF Good, s

\* The loop goes on after the requests.
LEMMA ResumeGood ==
  ASSUME Arguments, NEW r \in Record, Loop(r), Growing(r), r.pc \in Handling,
         \A sig \in r.owed : sig \in r.flags
  PROVE  Good(Resume(r))
<1>1. CASE r.back = "count"
  <2> DEFINE s == [r EXCEPT !.pc = "count"]
  <2>1. /\ s \in Record /\ s.n = r.n /\ s.pc = "count" /\ s.turn = r.turn
        /\ s.waits = r.waits /\ s.interval = r.interval /\ s.owed = r.owed /\ s.flags = r.flags
        /\ s.add = r.add
    BY DEF Record
  <2>2. Bound(s) = Bound(r)
    BY <2>1 DEF Bound
  <2> HIDE DEF s
  <2>3. Good(s)
    BY <2>1, <2>2 DEF Good, Loop, Growing, Remembered, Handling
  <2> QED BY <2>3, <1>1 DEF Resume, s
<1>2. CASE r.back # "count"
  <2>1. r.back = "next" /\ r.n < LongMax /\ r.n \in Int
    BY <1>2 DEF Record, Loop
  <2>2. r.n + 1 \in Int /\ r.n + 1 <= LongMax
    BY <2>1, PrimesAssumption
  <2>3. r.turn <= NForks /\ r.waits = 0
        /\ (prog = "tree" => r.interval <= nstart + (r.turn - 1) * (NumRanges + 1))
    BY DEF Growing, Handling
  <2> QED BY <1>2, <2>2, <2>3, EnterGood DEF Resume
<1> QED BY <1>1, <1>2

\* What is good depends on the arguments, which do not change.
LEMMA StillGood ==
  ASSUME UNCHANGED <<prog, nstart, nend>>, NEW z \in Procs, Good(proc'[z])
  PROVE  Good(proc[z])'
<1>1. prog' = prog /\ nstart' = nstart /\ nend' = nend
  OBVIOUS
<1> QED BY <1>1 DEF Good, Loop, Growing, Remembered, Bound, NumRanges, RangeLen

\* One process changes, from a good state to a good state.
LEMMA OneChanges ==
  ASSUME LoopInv, NEW x \in Procs, NEW s, Good(s), Becomes(x, s)
  PROVE  LoopInv'
<1>1. UNCHANGED <<prog, nstart, nend, sent>> /\ proc' = [proc EXCEPT ![x] = s]
  BY DEF Becomes
<1>2. Arguments'
  BY <1>1 DEF LoopInv, Arguments
<1>3. proc' \in [Procs -> Record]
  BY <1>1 DEF LoopInv, Good
<1>4. ASSUME NEW y \in Procs PROVE Good(proc[y])'
  <2>1. Good(proc'[y])
    BY <1>1 DEF LoopInv
  <2> QED BY <1>1, <2>1, StillGood
<1> QED BY <1>2, <1>3, <1>4 DEF LoopInv

LEMMA InitLoop == Init => LoopInv
<1> SUFFICES ASSUME Init PROVE LoopInv
  OBVIOUS
<1>1. Arguments
  BY PrimesAssumption DEF Init, Arguments
<1>2. Fresh \in Record /\ [Fresh EXCEPT !.pc = "usr1"] \in Record
  <2>1. /\ 1 \in 1..(NForks + 1) /\ 0 \in 0..NForks /\ <<>> \in Seq(Int)
        /\ {} \in SUBSET (Asks \cup {"INT"}) /\ {} \in SUBSET Asks
    BY PrimesAssumption
  <2>2. Fresh \in Record
    BY <2>1 DEF Fresh, Record
  <2> QED BY <2>2 DEF Record
<1>3. proc \in [Procs -> Record]
  BY <1>2 DEF Init
<1>4. Good(Fresh) /\ Good([Fresh EXCEPT !.pc = "usr1"])
  BY <1>2, PrimesAssumption DEF Fresh, Good, Loop, Growing, Remembered, Handling, Ended
<1> QED BY <1>1, <1>3, <1>4 DEF LoopInv, Init

LEMMA InstallInv == ASSUME LoopInv, NEW x \in Procs, Install(x) PROVE LoopInv'
<1> DEFINE r == proc[x]
<1>1. Good(r) /\ r \in Record /\ Arguments
  BY DEF LoopInv, Good
<1>2. r.turn <= NForks /\ r.waits = 0 /\ r.turn = 1 /\ \A sig \in r.owed : sig \in r.flags
  BY <1>1 DEF Install, Good, Growing, Remembered, Ended
<1> HIDE DEF r
<1>3. \A p \in {"int", "usr2"} : Good([r EXCEPT !.pc = p])
  BY <1>1, <1>2 DEF Good, Record, Loop, Growing, Remembered, Handling
<1>4. prog = "tree" => Good([r EXCEPT !.pc = "fork", !.interval = nstart, !.rest = Rest])
  <2> SUFFICES ASSUME prog = "tree"
               PROVE  Good([r EXCEPT !.pc = "fork", !.interval = nstart, !.rest = Rest])
    OBVIOUS
  <2> DEFINE s == [r EXCEPT !.pc = "fork", !.interval = nstart, !.rest = Rest]
  <2>1. s \in Record
    BY <1>1, RangeFacts DEF Record, Arguments
  <2>2. /\ s.pc = "fork" /\ s.interval = nstart /\ s.turn = 1 /\ s.waits = 0 /\ s.n = r.n
        /\ s.owed = r.owed /\ s.flags = r.flags
    BY <1>1, <1>2 DEF Record
  <2>3. nstart <= nstart + (1 - 1) * (NumRanges + 1)
    BY <1>1, RangeFacts DEF Arguments
  <2> HIDE DEF s
  <2>4. Loop(s) /\ Growing(s) /\ Remembered(s)
    BY <1>1, <1>2, <2>1, <2>2, <2>3, PrimesAssumption DEF Good, Loop, Growing, Remembered, Handling
  <2> QED BY <2>1, <2>4 DEF Good, s
<1>5. prog # "tree" => Good(Enter(r, nstart))
  <2>1. nstart \in Int /\ nstart <= LongMax
    BY <1>1, PrimesAssumption DEF Arguments
  <2> QED BY <1>1, <1>2, <2>1, EnterGood
<1>6. prog = "warmup" => Good([r EXCEPT !.pc = "poll1", !.n = -1,
                                    !.flags = @ \cup {"USR1"}, !.owed = @ \cup {"USR1"}])
  <2> SUFFICES ASSUME prog = "warmup" PROVE
         Good([r EXCEPT !.pc = "poll1", !.n = -1,
                        !.flags = @ \cup {"USR1"}, !.owed = @ \cup {"USR1"}])
    OBVIOUS
  <2> DEFINE s == [r EXCEPT !.pc = "poll1", !.n = -1,
                            !.flags = @ \cup {"USR1"}, !.owed = @ \cup {"USR1"}]
  <2>1. s \in Record
    <3>1. /\ r.flags \cup {"USR1"} \in SUBSET (Asks \cup {"INT"})
          /\ r.owed \cup {"USR1"} \in SUBSET Asks
      BY <1>1 DEF Record, Asks
    <3>2. -1 \in Int
      OBVIOUS
    <3> QED BY <1>1, <3>1, <3>2 DEF Record, Handling
  <2>2. /\ s.pc = "poll1" /\ s.turn = 1 /\ s.waits = 0 /\ s.n = -1
        /\ s.owed = r.owed \cup {"USR1"} /\ s.flags = r.flags \cup {"USR1"}
    BY <1>1, <1>2 DEF Record
  <2>3. Bound(s) = nend + 1 /\ nend >= 0
    BY <1>1 DEF Bound, Arguments
  <2> HIDE DEF s
  <2>4. Loop(s) /\ Growing(s) /\ Remembered(s)
    BY <1>1, <1>2, <2>1, <2>2, <2>3, PrimesAssumption
       DEF Good, Loop, Growing, Remembered, Handling, Arguments
  <2> QED BY <2>1, <2>4 DEF Good, s
<1> QED BY <1>3, <1>4, <1>5, <1>6, OneChanges DEF Install, r

LEMMA CountInv == ASSUME LoopInv, NEW x \in Procs, Count(x) PROVE LoopInv'
<1> DEFINE r == proc[x]
           p == prog # "warmup" /\ IsPrime(r.n)
           s == [r EXCEPT !.factored = @ + 1, !.seen = Append(@, r.n), !.back = "next",
                   !.primes = IF p THEN @ + 1 ELSE @, !.last = IF p THEN r.n ELSE @,
                   !.pc = IF prog # "warmup" /\ ("INT" \in r.flags \/ r.n = LongMax)
                          THEN "summary" ELSE "poll1"]
<1>1. Good(r) /\ r \in Record /\ Arguments
  BY DEF LoopInv, Good
<1>2. r.pc = "count" /\ Becomes(x, s)
  BY DEF Count
<1> HIDE DEF r
<1>3. /\ r.turn <= NForks /\ r.waits = 0 /\ r.n < Bound(r) /\ r.n <= LongMax
      /\ prog = "tree" => r.interval <= nstart + (r.turn - 1) * (NumRanges + 1)
      /\ \A sig \in r.owed : sig \in r.flags
  BY <1>1, <1>2 DEF Good, Growing, Loop, Remembered, Ended
<1>4. /\ r.factored + 1 \in Nat /\ Append(r.seen, r.n) \in Seq(Int)
      /\ (IF p THEN r.primes + 1 ELSE r.primes) \in Nat /\ (IF p THEN r.n ELSE r.last) \in Int
  <2> HIDE DEF p
  <2> QED BY <1>1 DEF Record
<1> HIDE DEF p
<1>5. s \in Record
  BY <1>1, <1>4 DEF Record, Handling
<1>6. /\ s.turn = r.turn /\ s.waits = r.waits /\ s.n = r.n /\ s.owed = r.owed
      /\ s.flags = r.flags /\ s.interval = r.interval /\ s.add = r.add
      /\ s.pc \in {"summary", "poll1"}
      /\ s.pc = "poll1" /\ prog # "warmup" => r.n # LongMax
  BY <1>1 DEF Record
<1>7. Bound(s) = Bound(r)
  BY <1>6 DEF Bound
<1> HIDE DEF s
<1>8. r.n \in Int /\ LongMax \in Nat
  BY <1>1, PrimesAssumption DEF Record
<1>9. prog = "warmup" => r.n < LongMax
  BY <1>1, <1>3, <1>8 DEF Bound, Arguments
<1>10. Loop(s)
  BY <1>3, <1>6, <1>7, <1>8, <1>9 DEF Loop, Handling
<1>11. Growing(s) /\ Remembered(s)
  BY <1>3, <1>6 DEF Growing, Remembered, Handling
<1> QED BY <1>2, <1>5, <1>10, <1>11, OneChanges DEF Good

LEMMA SlowlyInv == ASSUME LoopInv, NEW x \in Procs, CountSlowly(x) PROVE LoopInv'
<1> DEFINE r == proc[x]
           s == [r EXCEPT !.pc = "poll1", !.back = "count"]
<1>1. Good(r) /\ r \in Record /\ r.pc = "count" /\ Becomes(x, s)
  BY DEF LoopInv, Good, CountSlowly
<1> HIDE DEF r
<1>2. s \in Record
  BY <1>1 DEF Record, Handling
<1>3. /\ s.turn = r.turn /\ s.waits = r.waits /\ s.n = r.n /\ s.owed = r.owed
      /\ s.flags = r.flags /\ s.interval = r.interval /\ s.add = r.add
      /\ s.pc = "poll1" /\ s.back = "count"
  BY <1>1 DEF Record
<1>4. Bound(s) = Bound(r)
  BY <1>3 DEF Bound
<1> HIDE DEF s
<1>5. Loop(s) /\ Growing(s) /\ Remembered(s)
  BY <1>1, <1>3, <1>4 DEF Good, Loop, Growing, Remembered, Handling, Ended
<1> QED BY <1>1, <1>2, <1>5, OneChanges DEF Good

\* handle_received_signals tests and clears a flag, then prints the answer.
LEMMA RequestsInv == ASSUME LoopInv, NEW x \in Procs, HandleRequests(x) PROVE LoopInv'
<1> DEFINE r == proc[x]
<1>1. Good(r) /\ r \in Record /\ Arguments
  BY DEF LoopInv, Good
<1> HIDE DEF r
<1>2. ASSUME r.pc \in Handling, r.back \in {"next", "count"}
      PROVE  r.turn <= NForks /\ r.waits = 0 /\ r.n < Bound(r)
  BY <1>1, <1>2 DEF Good, Loop, Growing
<1>3. ASSUME NEW s \in Record, NEW q \in Handling, r.pc \in Handling,
             s.pc = q, s.n = r.n, s.turn = r.turn, s.waits = r.waits, s.interval = r.interval,
             s.add = r.add, s.back = r.back, Remembered(s)
      PROVE  Good(s)
  <2>1. Bound(s) = Bound(r)
    BY <1>3 DEF Bound
  <2>2. Loop(s) /\ Growing(s)
    BY <1>1, <1>3, <2>1 DEF Good, Loop, Growing, Handling
  <2> QED BY <1>3, <2>2 DEF Good
<1>4. ASSUME r.pc = "poll1", "USR1" \in r.flags
      PROVE  Good([Clear(r, "USR1") EXCEPT !.pc = "say1"])
  <2> DEFINE s == [Clear(r, "USR1") EXCEPT !.pc = "say1"]
  <2>1. s \in Record
    BY <1>1 DEF Clear, Record, Handling
  <2>2. /\ s.pc = "say1" /\ s.n = r.n /\ s.turn = r.turn /\ s.waits = r.waits
        /\ s.interval = r.interval /\ s.add = r.add /\ s.back = r.back
        /\ s.flags = r.flags \ {"USR1"} /\ s.owed = r.owed
    BY <1>1 DEF Clear, Record
  <2> HIDE DEF s
  <2>3. Remembered(s)
    BY <1>1, <1>4, <2>2 DEF Good, Remembered, Ended
  <2> QED BY <1>3, <1>4, <2>1, <2>2, <2>3 DEF Handling, s
<1>5. ASSUME r.pc \in {"poll1", "poll2"}, r.pc = "poll1" => "USR1" \notin r.flags, "USR2" \in r.flags
      PROVE  Good([Clear(r, "USR2") EXCEPT !.pc = "say2"])
  <2> DEFINE s == [Clear(r, "USR2") EXCEPT !.pc = "say2"]
  <2>1. s \in Record
    BY <1>1 DEF Clear, Record, Handling
  <2>2. /\ s.pc = "say2" /\ s.n = r.n /\ s.turn = r.turn /\ s.waits = r.waits
        /\ s.interval = r.interval /\ s.add = r.add /\ s.back = r.back
        /\ s.flags = r.flags \ {"USR2"} /\ s.owed = r.owed /\ r.owed \subseteq Asks
    BY <1>1 DEF Clear, Record
  <2> HIDE DEF s
  <2>3. Remembered(s)
    BY <1>1, <1>5, <2>2 DEF Good, Remembered, Ended, Asks
  <2> QED BY <1>3, <1>5, <2>1, <2>2, <2>3 DEF Handling, s
<1>6. ASSUME r.pc \in {"poll1", "poll2"} PROVE Good(Resume(r))
  <2>1. \A sig \in r.owed : sig \in r.flags
    BY <1>1, <1>6 DEF Good, Remembered, Ended
  <2> QED BY <1>1, <1>6, <2>1, ResumeGood DEF Good, Handling
<1>7. ASSUME r.pc = "say1" PROVE Good([Answer(r, "USR1") EXCEPT !.pc = "poll2"])
  <2> DEFINE s == [Answer(r, "USR1") EXCEPT !.pc = "poll2"]
  <2>1. s \in Record
    BY <1>1 DEF Answer, Record, Handling
  <2>2. /\ s.pc = "poll2" /\ s.n = r.n /\ s.turn = r.turn /\ s.waits = r.waits
        /\ s.interval = r.interval /\ s.add = r.add /\ s.back = r.back
        /\ s.flags = r.flags /\ s.owed = r.owed \ {"USR1"}
    BY <1>1 DEF Answer, Record
  <2> HIDE DEF s
  <2>3. Remembered(s)
    BY <1>1, <1>7, <2>2 DEF Good, Remembered, Ended
  <2> QED BY <1>3, <1>7, <2>1, <2>2, <2>3 DEF Handling, s
<1>8. ASSUME r.pc = "say2" PROVE Good(Resume(Answer(r, "USR2")))
  <2> DEFINE s == Answer(r, "USR2")
  <2>1. s \in Record
    BY <1>1 DEF Answer, Record
  <2>2. /\ s.pc = "say2" /\ s.n = r.n /\ s.turn = r.turn /\ s.waits = r.waits
        /\ s.interval = r.interval /\ s.add = r.add /\ s.back = r.back
        /\ s.flags = r.flags /\ s.owed = r.owed \ {"USR2"} /\ r.owed \subseteq Asks
    BY <1>1, <1>8 DEF Answer, Record
  <2> HIDE DEF s
  <2>3. \A sig \in s.owed : sig \in s.flags
    BY <1>1, <1>8, <2>2 DEF Good, Remembered, Ended, Asks
  <2>4. Good(s)
    BY <1>3, <1>8, <2>1, <2>2, <2>3 DEF Handling, Remembered
  <2> QED BY <1>1, <2>1, <2>2, <2>3, <2>4, ResumeGood DEF Good, Handling, s
<1> USE DEF r
<1>9. \E s : Good(s) /\ Becomes(x, s)
  <2>1. CASE r.pc \in {"poll1", "poll2"}
    BY <2>1, <1>4, <1>5, <1>6 DEF HandleRequests, Requests
  <2>2. CASE r.pc = "say1"
    BY <2>2, <1>7 DEF HandleRequests, Requests
  <2>3. CASE r.pc = "say2"
    BY <2>3, <1>8 DEF HandleRequests, Requests
  <2> QED BY <2>1, <2>2, <2>3 DEF HandleRequests, Requests
<1> QED BY <1>9, OneChanges

\* A turn of the fork loop moves interval by the length of a range at most.
LEMMA NextTurnGood ==
  ASSUME Arguments, NEW r \in Record, Good(r), prog = "tree", r.pc \in {"fork", "summary"}
  PROVE  Good(NextTurn(r))
<1> DEFINE s == NextTurn(r)
<1>1. /\ r.turn \in 1..NForks /\ r.waits = 0 /\ r.interval <= nstart + (r.turn - 1) * (NumRanges + 1)
      /\ r.n <= LongMax /\ \A sig \in r.owed : sig \in r.flags
  <2>1. r.turn \in 1..(NForks + 1) /\ NForks \in Nat
    BY PrimesAssumption DEF Record
  <2>2. r.turn <= NForks /\ r.waits = 0 /\ r.interval <= nstart + (r.turn - 1) * (NumRanges + 1)
    BY DEF Good, Growing
  <2>3. r.n <= LongMax /\ \A sig \in r.owed : sig \in r.flags
    BY DEF Good, Loop, Remembered, Ended
  <2> QED BY <2>1, <2>2, <2>3
<1>2. NumRanges \in Nat /\ NForks \in Nat \ {0} /\ r.interval \in Int /\ r.add \in {0, 1}
  BY RangeFacts, PrimesAssumption DEF Record
<1>3. r.turn + 1 \in 1..(NForks + 1) /\ r.interval + NumRanges + r.add \in Int
  BY <1>1, <1>2
<1>4. s \in Record
  BY <1>3 DEF NextTurn, Record
<1>5. /\ s.turn = r.turn + 1 /\ s.waits = r.waits /\ s.n = r.n /\ s.owed = r.owed
      /\ s.flags = r.flags /\ s.interval = r.interval + NumRanges + r.add
      /\ s.pc = IF r.turn = NForks THEN "wait" ELSE "fork"
  BY DEF NextTurn, Record
<1> HIDE DEF s
<1>6. s.interval <= nstart + (s.turn - 1) * (NumRanges + 1)
  <2> DEFINE t == r.turn - 1
             k == NumRanges + 1
             p == t * k
  <2>1. t \in Nat /\ s.turn - 1 = t + 1
    BY <1>1, <1>2, <1>5
  <2>2. k \in Nat
    BY <1>2
  <2>3. r.interval <= nstart + p
    BY <1>1
  <2>4. s.interval \in Int /\ nstart \in Int /\ s.interval <= r.interval + k
    BY <1>2, <1>5 DEF Arguments
  <2> HIDE DEF t, k
  <2>5. (t + 1) * k = p + k /\ p \in Int
    BY <2>1, <2>2, Distribute
  <2> HIDE DEF p
  <2>6. s.interval <= nstart + (t + 1) * k
    BY <1>2, <2>2, <2>3, <2>4, <2>5
  <2> QED BY <2>1, <2>6 DEF k
<1>7. Loop(s) /\ Remembered(s)
  BY <1>1, <1>5 DEF Loop, Remembered, Handling
<1>8. Growing(s)
  <2>1. s.pc \in {"fork", "wait"} /\ s.waits = 0 /\ 0 < NForks
    BY <1>1, <1>2, <1>5
  <2>2. s.pc = "fork" => s.turn <= NForks
    <3>1. s.pc = "fork" => r.turn # NForks
      BY <1>5
    <3>2. r.turn \in 1..NForks /\ NForks \in Nat /\ s.turn = r.turn + 1
      BY <1>1, <1>2, <1>5
    <3> HIDE <1>1, <1>5
    <3> QED BY <3>1, <3>2
  <2> QED BY <1>6, <2>1, <2>2 DEF Growing, Handling
<1> QED BY <1>4, <1>7, <1>8 DEF Good, s

LEMMA SummaryInv == ASSUME LoopInv, NEW x \in Procs, Summary(x) PROVE LoopInv'
<1> DEFINE r == proc[x]
<1>1. Good(r) /\ r \in Record /\ r.pc = "summary" /\ Arguments
  BY DEF LoopInv, Good, Summary
<1> HIDE DEF r
<1>2. Good([r EXCEPT !.pc = "ended"])
  <2> DEFINE s == [r EXCEPT !.pc = "ended"]
  <2>1. s \in Record /\ s.pc = "ended" /\ s.n = r.n
    BY <1>1 DEF Record, Ended
  <2> HIDE DEF s
  <2>2. Loop(s) /\ Growing(s) /\ Remembered(s)
    BY <1>1, <2>1 DEF Good, Loop, Growing, Remembered, Handling, Ended
  <2> QED BY <2>1, <2>2 DEF Good, s
<1>3. prog = "tree" => Good(NextTurn(r))
  BY <1>1, NextTurnGood
<1> QED BY <1>2, <1>3, OneChanges DEF Summary, r

\* Two processes change, or one and one again.
LEMMA TwoChange ==
  ASSUME LoopInv, NEW x \in Procs, NEW y \in Procs, NEW s, NEW c, Good(s), Good(c),
         UNCHANGED <<prog, nstart, nend>>, Arguments',
         proc' = [proc EXCEPT ![x] = s, ![y] = c]
  PROVE  LoopInv'
<1> DEFINE q == [proc EXCEPT ![x] = s]
<1>1. q \in [Procs -> Record] /\ \A z \in Procs : Good(q[z])
  BY DEF LoopInv, Good
<1>2. proc' = [q EXCEPT ![y] = c]
  OBVIOUS
<1> HIDE DEF q
<1>3. proc' \in [Procs -> Record]
  BY <1>1, <1>2 DEF Good
<1>4. ASSUME NEW z \in Procs PROVE Good(proc[z])'
  <2>1. Good(proc'[z])
    BY <1>1, <1>2
  <2> QED BY <2>1, StillGood
<1> QED BY <1>3, <1>4 DEF LoopInv

LEMMA ForkInv == ASSUME LoopInv, NEW x \in Procs, Fork(x) PROVE LoopInv'
<1> DEFINE r == proc[x]
           c == [r EXCEPT !.add = IF r.rest > 0 THEN 1 ELSE 0,
                          !.rest = IF @ > 0 THEN @ - 1 ELSE @, !.owed = {}]
<1>1. Good(r) /\ r \in Record /\ r.pc = "fork" /\ Arguments /\ prog = "tree"
  BY DEF LoopInv, Good, Fork, Growing
<1> HIDE DEF r
<1>2. r.turn \in 1..NForks /\ r.interval \in Int /\ r.interval <= nstart + (r.turn - 1) * (NumRanges + 1)
  BY <1>1, PrimesAssumption DEF Good, Growing, Record
<1>3. r.interval <= LongMax
  BY <1>1, <1>2, IntervalFits
<1>4. c \in Record
  <2>1. (IF r.rest > 0 THEN r.rest - 1 ELSE r.rest) \in 0..NForks
        /\ (IF r.rest > 0 THEN 1 ELSE 0) \in {0, 1} /\ {} \in SUBSET Asks
    BY <1>1, PrimesAssumption DEF Record
  <2> QED BY <1>1, <2>1 DEF Record
<1>5. c.turn = r.turn /\ c.waits = r.waits /\ c.interval = r.interval /\ c.owed = {}
  BY <1>1 DEF Record
<1> HIDE DEF c
<1>6. Good(Enter(c, r.interval))
  <2>1. c.turn <= NForks /\ c.waits = 0
    BY <1>1, <1>5 DEF Good, Growing
  <2> QED BY <1>1, <1>2, <1>3, <1>4, <1>5, <2>1, EnterGood
<1>7. Good(NextTurn(r))
  BY <1>1, NextTurnGood
<1>8. Good([r EXCEPT !.pc = "failed"])
  <2> DEFINE s == [r EXCEPT !.pc = "failed"]
  <2>1. s \in Record /\ s.pc = "failed" /\ s.n = r.n
    BY <1>1 DEF Record, Ended
  <2> HIDE DEF s
  <2>2. Loop(s) /\ Growing(s) /\ Remembered(s)
    BY <1>1, <2>1 DEF Good, Loop, Growing, Remembered, Handling, Ended
  <2> QED BY <2>1, <2>2 DEF Good, s
<1>9. UNCHANGED <<prog, nstart, nend, sent>> /\ Arguments'
  BY <1>1 DEF Fork, Arguments
<1>10. CASE proc' = [proc EXCEPT ![x].pc = "failed"]
  <2>1. proc' = [proc EXCEPT ![x] = [r EXCEPT !.pc = "failed"]]
    BY <1>10 DEF r
  <2> QED BY <1>8, <1>9, <2>1, OneChanges DEF Becomes
<1>11. CASE proc' = [proc EXCEPT ![x] = NextTurn(r), ![x \cup {r.turn}] = Enter(c, r.interval)]
  <2>1. x \cup {r.turn} \in Procs
    BY <1>2 DEF Procs, Turns
  <2> QED BY <1>6, <1>7, <1>9, <1>11, <2>1, TwoChange
<1> QED BY <1>10, <1>11 DEF Fork, r, c

LEMMA WaitedGood ==
  ASSUME Arguments, NEW r \in Record, Good(r), r.pc = "wait"
  PROVE  Good(Waited(r))
<1> DEFINE s == Waited(r)
<1>1. r.waits \in Nat /\ r.waits < NForks /\ NForks \in Nat
  BY PrimesAssumption DEF Good, Growing, Record
<1>2. r.waits + 1 \in 0..NForks
  BY <1>1
<1>3. s \in Record
  BY <1>2 DEF Waited, Record, Ended
<1>4. /\ s.waits = r.waits + 1 /\ s.n = r.n /\ s.owed = r.owed /\ s.flags = r.flags
      /\ s.pc = IF r.waits + 1 = NForks THEN "ended" ELSE "wait"
  BY DEF Waited, Record
<1> HIDE DEF s
<1>5. Loop(s) /\ Growing(s) /\ Remembered(s)
  BY <1>1, <1>4 DEF Good, Loop, Growing, Remembered, Handling, Ended
<1> QED BY <1>3, <1>5 DEF Good, s

\* A process that has ended is as good in any other way.
LEMMA EndGood ==
  ASSUME NEW r \in Record, Good(r), NEW p \in Ended PROVE Good([r EXCEPT !.pc = p])
<1> DEFINE s == [r EXCEPT !.pc = p]
<1>1. s \in Record /\ s.pc = p /\ s.n = r.n
  BY DEF Record, Ended
<1> HIDE DEF s
<1>2. Loop(s) /\ Growing(s) /\ Remembered(s)
  BY <1>1 DEF Good, Loop, Growing, Remembered, Handling, Ended
<1> QED BY <1>1, <1>2 DEF Good, s

LEMMA WaitInv == ASSUME LoopInv, NEW x \in Procs, Wait(x) PROVE LoopInv'
<1>1. /\ Good(proc[x]) /\ proc[x] \in Record /\ proc[x].pc = "wait" /\ Arguments
      /\ Good(Waited(proc[x])) /\ Good([proc[x] EXCEPT !.pc = "ended"])
  BY WaitedGood, EndGood DEF LoopInv, Good, Wait, Ended
<1>2. UNCHANGED <<prog, nstart, nend, sent>> /\ Arguments'
  BY <1>1 DEF Wait, Arguments
<1>3. CASE proc' = [proc EXCEPT ![x].pc = "ended"]
  <2>1. proc' = [proc EXCEPT ![x] = [proc[x] EXCEPT !.pc = "ended"]]
    BY <1>3
  <2> QED BY <1>1, <1>2, <2>1, OneChanges DEF Becomes
<1>4. ASSUME NEW y \in Left(x), proc[y].pc \in Ended,
             proc' = [proc EXCEPT ![x] = Waited(@), ![y].pc = "reaped"]
      PROVE  LoopInv'
  <2>1. y \in Procs /\ y # x
    <3>1. PICK t \in Turns : y = x \cup {t} /\ \A v \in x : t > v
      BY DEF Left, Kids
    <3>2. x \subseteq Turns /\ \A v \in Turns : ~(v > v)
      BY PrimesAssumption DEF Procs, Turns
    <3>3. t \notin x
      BY <3>1, <3>2
    <3> QED BY <3>1, <3>2, <3>3 DEF Procs
  <2>2. Good([proc[y] EXCEPT !.pc = "reaped"])
    BY <2>1, EndGood DEF LoopInv, Good, Ended
  <2>3. proc' = [proc EXCEPT ![x] = Waited(proc[x]), ![y] = [proc[y] EXCEPT !.pc = "reaped"]]
    BY <1>4, <2>1
  <2> QED BY <1>1, <1>2, <2>1, <2>2, <2>3, TwoChange
<1> QED BY <1>3, <1>4 DEF Wait

\* A handler sets its flag; the request is remembered with it.
LEMMA SendInv ==
  ASSUME LoopInv, NEW x \in Procs, NEW sig \in Asks \cup {"INT"}, Send(x, sig) PROVE LoopInv'
<1> DEFINE r == proc[x]
           s == [r EXCEPT !.flags = @ \cup {sig}, !.owed = @ \cup ({sig} \cap Asks)]
<1>1. Good(r) /\ r \in Record /\ Arguments /\ r.pc \notin Ended
  BY DEF LoopInv, Good, Send, Running
<1> HIDE DEF r
<1>2. Good([r EXCEPT !.pc = "killed"])
  BY <1>1, EndGood DEF Ended
<1>3. /\ r.flags \cup {sig} \in SUBSET (Asks \cup {"INT"})
      /\ r.owed \cup ({sig} \cap Asks) \in SUBSET Asks
  BY <1>1 DEF Record
<1>4. s \in Record
  BY <1>1, <1>3 DEF Record
<1>5. /\ s.pc = r.pc /\ s.n = r.n /\ s.turn = r.turn /\ s.waits = r.waits /\ s.interval = r.interval
      /\ s.add = r.add /\ s.back = r.back /\ s.cuts = r.cuts
      /\ s.flags = r.flags \cup {sig} /\ s.owed = r.owed \cup ({sig} \cap Asks)
  BY <1>1 DEF Record
<1> HIDE DEF s
<1>6. Bound(s) = Bound(r)
  BY <1>5 DEF Bound
<1>7. Good(s)
  <2>1. Loop(s) /\ Growing(s)
    BY <1>1, <1>5, <1>6 DEF Good, Loop, Growing
  <2>2. Remembered(s)
    BY <1>1, <1>5 DEF Good, Remembered
  <2> QED BY <1>4, <2>1, <2>2 DEF Good
<1>8. r.pc = "wait" => Good(Waited([s EXCEPT !.cuts = @ + 1]))
  <2> SUFFICES ASSUME r.pc = "wait" PROVE Good(Waited([s EXCEPT !.cuts = @ + 1]))
    OBVIOUS
  <2> DEFINE w == [s EXCEPT !.cuts = @ + 1]
  <2>1. s.cuts + 1 \in Nat
    BY <1>4 DEF Record
  <2>2. w \in Record
    BY <1>4, <2>1 DEF Record
  <2>3. /\ w.pc = s.pc /\ w.n = s.n /\ w.turn = s.turn /\ w.waits = s.waits
        /\ w.interval = s.interval /\ w.add = s.add /\ w.back = s.back
        /\ w.flags = s.flags /\ w.owed = s.owed
    BY <1>4 DEF Record
  <2> HIDE DEF w
  <2>4. Bound(w) = Bound(s)
    BY <2>3 DEF Bound
  <2>5. Good(w)
    BY <1>7, <2>2, <2>3, <2>4 DEF Good, Loop, Growing, Remembered
  <2>6. w.pc = "wait"
    BY <1>5, <2>3
  <2> QED BY <1>1, <2>2, <2>5, <2>6, WaitedGood DEF w
<1>9. PICK t : Good(t) /\ proc' = [proc EXCEPT ![x] = t]
  BY <1>2, <1>7, <1>8 DEF Send, r, s
<1>10. UNCHANGED <<prog, nstart, nend>> /\ Arguments'
  BY <1>1, PrimesAssumption DEF Send, Arguments
<1> QED BY <1>9, <1>10, TwoChange

LEMMA NextInv == ASSUME LoopInv, [Next]_vars PROVE LoopInv'
<1>1. CASE UNCHANGED vars
  <2>1. UNCHANGED <<prog, nstart, nend, proc, sent>>
    BY <1>1 DEF vars
  <2> QED BY <2>1 DEF LoopInv, Arguments, Good, Loop, Growing, Remembered, Bound, NumRanges, RangeLen
<1>2. ASSUME NEW x \in Procs, NEW sig \in Asks \cup {"INT"}, Send(x, sig) PROVE LoopInv'
  BY <1>2, SendInv
<1> QED BY <1>1, <1>2, InstallInv, CountInv, SlowlyInv, RequestsInv, SummaryInv, ForkInv, WaitInv
       DEF Next

\* The loop, for every number of processes, every range and every largest
\* number: it keeps below its bound, the fork loop keeps to its ten turns, and
\* what is owed is remembered (exercise-3.c:154-174, exercise-3-v2.c:171-212).
THEOREM LoopInvariant == Spec => []LoopInv
<1>1. LoopInv /\ [Next]_vars => LoopInv'
  BY NextInv
<1> QED BY <1>1, InitLoop, PTL DEF Spec

\* n never passes LONG_MAX, and no process waits more often than it has turns.
THEOREM TypeCorrect == Spec => []TypeOK
<1>1. LoopInv => TypeOK
  <2> SUFFICES ASSUME LoopInv PROVE TypeOK
    OBVIOUS
  <2>1. sent \in 0..MaxSignals[prog]
    BY DEF LoopInv, Arguments
  <2>2. ASSUME NEW x \in Procs
        PROVE  /\ proc[x].n <= LongMax
               /\ proc[x].flags \subseteq Asks \cup {"INT"} /\ proc[x].owed \subseteq Asks
               /\ proc[x].turn \in 1..(NForks + 1) /\ proc[x].waits \in 0..NForks
               /\ proc[x].rest \in 0..NForks /\ proc[x].add \in {0, 1}
    <3>1. proc[x] \in Record /\ Loop(proc[x])
      BY DEF LoopInv, Good
    <3> QED BY <3>1 DEF Record, Loop
  <2> QED BY <2>1, <2>2 DEF TypeOK
<1> QED BY <1>1, LoopInvariant, PTL

\* The request of a process that still runs is never forgotten, whatever the
\* moment its signal arrives (exercise-3.c:81-88).
THEOREM RequestsKept == Spec => []NoRequestLost
<1>1. LoopInv => NoRequestLost
  BY DEF LoopInv, Good, Remembered, NoRequestLost, Running
<1> QED BY <1>1, LoopInvariant, PTL
-----------------------------------------------------------------------------
(***************************************************************************)
(* The counters                                                            *)
(***************************************************************************)

\* A product divides by its factors.
LEMMA Quotient ==
  ASSUME NEW d \in Nat \ {0}, NEW k \in Nat, NEW n \in Nat, n = d * k
  PROVE  n % d = 0 /\ n \div d = k
<1> DEFINE q == n \div d
           r == n % d
<1>1. q \in Nat /\ r \in 0..(d - 1) /\ n = d * q + r
  BY Division
<1> HIDE DEF q, r
<1>2. d * k \in Nat /\ d * q \in Nat
  BY <1>1
<1>3. ~(k >= q + 1)
  <2> SUFFICES ASSUME k >= q + 1 PROVE FALSE
    OBVIOUS
  <2>1. (q + 1) * d <= k * d
    BY <1>1, Times
  <2>2. (q + 1) * d = q * d + d /\ q * d = d * q /\ k * d = d * k
    BY <1>1
  <2> QED BY <1>1, <1>2, <2>1, <2>2
<1>4. ~(q >= k + 1)
  <2> SUFFICES ASSUME q >= k + 1 PROVE FALSE
    OBVIOUS
  <2>1. (k + 1) * d <= q * d
    BY <1>1, Times
  <2>2. (k + 1) * d = k * d + d /\ q * d = d * q /\ k * d = d * k
    BY <1>1
  <2> QED BY <1>1, <1>2, <2>1, <2>2
<1>5. q = k
  BY <1>1, <1>3, <1>4
<1>6. r = 0
  BY <1>1, <1>2, <1>5
<1> QED BY <1>5, <1>6 DEF q, r

\* is_prime stops at the square root and tries odd divisors only; it finds the
\* numbers without a proper divisor, for every long.
LEMMA IsPrimeCorrect ==
  ASSUME NEW n \in Int
  PROVE  IsPrime(n) <=> Prime(n)
<1>1. ASSUME Prime(n) PROVE IsPrime(n)
  <2>1. n > 1 /\ \A d \in 2..(n - 1) : n % d # 0
    BY <1>1 DEF Prime, Divides
  <2>2. n # 2 => n > 2 /\ n % 2 # 0
    BY <2>1
  <2>3. ASSUME n # 2, NEW d \in 3..n, d <= n \div d PROVE n % d # 0
    <3>1. d # n
      <4> SUFFICES ASSUME d = n PROVE FALSE
        OBVIOUS
      <4>1. n = d * 1
        BY <2>3
      <4>2. n \div d = 1
        BY <4>1, <2>1, Quotient
      <4> QED BY <4>2, <2>3
    <3>2. d \in 2..(n - 1)
      BY <3>1, <2>3
    <3> QED BY <2>1, <3>2
  <2> QED BY <2>2, <2>3 DEF IsPrime
<1>2. ASSUME IsPrime(n), n # 2 PROVE Prime(n)
  <2>1. n > 2 /\ n % 2 # 0 /\ \A d \in 3..n : d % 2 # 0 /\ d <= n \div d => n % d # 0
    BY <1>2 DEF IsPrime
  <2> SUFFICES ASSUME NEW d \in 2..(n - 1), Divides(d, n) PROVE FALSE
    BY <2>1 DEF Prime
  <2> USE DEF Divides
  <2> DEFINE k == n \div d
  <2>2. k \in Nat /\ n = d * k /\ d \in Nat \ {0} /\ n \in Nat
    BY <2>1, Division
  <2> HIDE DEF k
  <2>3. k # 0 /\ k # 1
    BY <2>1, <2>2
  <2>4. n = k * d /\ k \in Nat \ {0} /\ k >= 2
    BY <2>2, <2>3
  <2>5. n % k = 0 /\ n \div k = d /\ n \div d = k
    BY <2>2, <2>4, Quotient
  <2>6. k <= n
    BY <2>1, <2>2, <2>4
  <2>7. ASSUME NEW a \in Nat \ {0}, NEW b \in Nat, n = a * b PROVE a % 2 # 0
    <3> SUFFICES ASSUME a % 2 = 0 PROVE FALSE
      OBVIOUS
    <3>1. a \div 2 \in Nat /\ a = 2 * (a \div 2)
      BY Division
    <3> DEFINE h == a \div 2
    <3>2. h \in Nat /\ a = 2 * h
      BY <3>1
    <3> HIDE DEF h
    <3>3. n = 2 * (h * b) /\ h * b \in Nat
      BY <2>7, <3>2
    <3>4. n % 2 = 0
      BY <2>2, <3>3, Quotient
    <3> QED BY <3>4, <2>1
  <2>8. d % 2 # 0 /\ k % 2 # 0
    BY <2>2, <2>4, <2>7
  <2>9. 2 % 2 = 0
    BY SMT
  <2>10. d \in 3..n /\ k \in 3..n
    BY <2>4, <2>6, <2>8, <2>9, <2>1
  <2>11. CASE d <= k
    BY <2>1, <2>5, <2>8, <2>10, <2>11
  <2>12. CASE k <= d
    BY <2>1, <2>5, <2>8, <2>10, <2>12
  <2> QED BY <2>4, <2>11, <2>12
<1>3. Prime(2)
  BY DEF Prime
<1> QED BY <1>1, <1>2, <1>3

\* A step that counts no number keeps the counters true, if it leaves the loop
\* variable of warmup where the next step needs it.
LEMMA Recount ==
  ASSUME NEW r, NEW s, Counted(r),
         s.factored = r.factored, s.primes = r.primes, s.last = r.last, s.seen = r.seen,
         prog = "warmup" /\ s.pc \in {"count", "summary", "ended"} => s.n = r.factored,
         prog = "warmup" /\ s.pc \in Handling => s.n = r.factored - 1 /\ s.back = "next",
         s.pc \in {"usr1", "usr2", "int"} => r.factored = 0 /\ s.back = "next"
  PROVE  Counted(s)
<1>1. Found(s) = Found(r)
  BY DEF Found
<1> QED BY <1>1 DEF Counted

\* A loop test
LEMMA EnterCounted ==
  ASSUME NEW r \in Record, NEW k \in Int, Counted(r), prog = "warmup" => k = r.factored
  PROVE  Counted(Enter(r, k))
<1> DEFINE s == Enter(r, k)
<1>1. /\ s.factored = r.factored /\ s.primes = r.primes /\ s.last = r.last /\ s.seen = r.seen
      /\ s.n = k /\ s.pc \in {"count", "summary"}
  BY DEF Enter, Record
<1> HIDE DEF s
<1>2. Counted(s)
  BY <1>1, Recount DEF Handling
<1> QED BY <1>2 DEF s

\* One more number: the last prime is the last one seen.
LEMMA AppendCounted ==
  ASSUME NEW r \in Record, Counted(r), NEW s, NEW p \in BOOLEAN,
         p <=> prog # "warmup" /\ Prime(r.n),
         s.factored = r.factored + 1, s.seen = Append(r.seen, r.n),
         s.primes = IF p THEN r.primes + 1 ELSE r.primes, s.last = IF p THEN r.n ELSE r.last,
         s.pc \in {"summary", "poll1"}, s.n = r.n, s.back = "next",
         prog = "warmup" => r.n = r.factored /\ s.pc = "poll1"
  PROVE  Counted(s)
<1> DEFINE k == Len(r.seen)
<1>1. /\ k \in Nat /\ Len(s.seen) = k + 1 /\ s.seen[k + 1] = r.n /\ r.factored = k
      /\ \A i \in 1..k : s.seen[i] = r.seen[i]
  BY DEF Record, Counted
<1> HIDE DEF k
<1>2. Found(s) = IF p THEN Found(r) \cup {k + 1} ELSE Found(r)
  <2>1. Found(r) = {i \in 1..k : prog # "warmup" /\ Prime(s.seen[i])}
    BY <1>1 DEF Found, k
  <2>2. Found(s) = {i \in 1..(k + 1) : prog # "warmup" /\ Prime(s.seen[i])}
    BY <1>1 DEF Found
  <2>3. 1..(k + 1) = (1..k) \cup {k + 1}
    BY <1>1
  <2>4. p <=> prog # "warmup" /\ Prime(s.seen[k + 1])
    BY <1>1
  <2> QED BY <2>1, <2>2, <2>3, <2>4
<1>3. Found(r) \subseteq 1..k /\ IsFiniteSet(Found(r)) /\ k + 1 \notin Found(r)
  <2>1. Found(r) \subseteq 1..k
    BY DEF Found, k
  <2>2. IsFiniteSet(1..k)
    BY <1>1, FS_Interval
  <2> QED BY <1>1, <2>1, <2>2, FS_Subset
<1>4. s.primes = Cardinality(Found(s))
  <2>1. Cardinality(Found(r) \cup {k + 1}) = Cardinality(Found(r)) + 1
    BY <1>3, FS_AddElement
  <2> QED BY <1>2, <2>1 DEF Counted
<1>5. /\ Found(s) = {} => s.last = 0
      /\ Found(s) # {} => \E i \in Found(s) : s.last = s.seen[i] /\ \A j \in Found(s) : j <= i
  <2>1. CASE p
    <3>1. k + 1 \in Found(s) /\ \A j \in Found(s) : j <= k + 1
      BY <1>1, <1>2, <1>3, <2>1
    <3> QED BY <1>1, <2>1, <3>1
  <2>2. CASE ~p
    <3>1. Found(s) = Found(r) /\ s.last = r.last
      BY <1>2, <2>2
    <3>2. \A i \in Found(r) : s.seen[i] = r.seen[i]
      BY <1>1, <1>3
    <3> QED BY <3>1, <3>2 DEF Counted
  <2> QED BY <2>1, <2>2
<1>6. s.factored = Len(s.seen) /\ (s.pc = "poll1" => s.n = s.n)
  BY <1>1
<1>7. prog = "warmup" => s.n = s.factored - 1
  BY <1>1
<1> QED BY <1>4, <1>5, <1>6, <1>7 DEF Counted

LEMMA StillCounted ==
  ASSUME UNCHANGED prog, NEW z \in Procs, Counted(proc'[z])
  PROVE  Counted(proc[z])'
<1>1. Found(proc[z])' = Found(proc'[z])
  BY DEF Found
<1> QED BY <1>1 DEF Counted

\* One process changes.
LEMMA OneCounted ==
  ASSUME LoopInv, CountersInv, NEW x \in Procs, NEW s, Counted(s),
         UNCHANGED <<prog, nstart, nend>>, proc' = [proc EXCEPT ![x] = s]
  PROVE  CountersInv'
<1> SUFFICES ASSUME NEW z \in Procs PROVE Counted(proc[z])'
  BY DEF CountersInv
<1>1. Counted(proc'[z])
  BY DEF CountersInv, LoopInv
<1> QED BY <1>1, StillCounted

LEMMA TwoCounted ==
  ASSUME LoopInv, CountersInv, NEW x \in Procs, NEW y \in Procs, NEW s, NEW c,
         Counted(s), Counted(c),
         UNCHANGED <<prog, nstart, nend>>, proc' = [proc EXCEPT ![x] = s, ![y] = c]
  PROVE  CountersInv'
<1> SUFFICES ASSUME NEW z \in Procs PROVE Counted(proc[z])'
  BY DEF CountersInv
<1>1. Counted(proc'[z])
  BY DEF CountersInv, LoopInv
<1> QED BY <1>1, StillCounted

LEMMA InitCounted == Init => CountersInv
<1> SUFFICES ASSUME Init, NEW x \in Procs PROVE Counted(proc[x])
  BY DEF CountersInv
<1> DEFINE r == proc[x]
<1>1. /\ r.factored = 0 /\ r.primes = 0 /\ r.last = 0 /\ r.seen = <<>>
      /\ r.pc \in {"none", "usr1"} /\ r.back = "next"
  BY DEF Init, Fresh
<1> HIDE DEF r
<1>2. Len(<<>>) = 0 /\ 1..0 = {}
  OBVIOUS
<1>3. Found(r) = {} /\ Cardinality({}) = 0
  BY <1>1, <1>2, FS_EmptySet DEF Found
<1> QED BY <1>1, <1>2, <1>3 DEF Counted, r, Handling

LEMMA InstallCounted ==
  ASSUME LoopInv, CountersInv, NEW x \in Procs, Install(x) PROVE CountersInv'
<1> DEFINE r == proc[x]
<1>1. r \in Record /\ Counted(r) /\ Arguments /\ r.pc \in {"usr1", "usr2", "int"}
  BY DEF LoopInv, CountersInv, Install
<1> HIDE DEF r
<1>2. r.factored = 0 /\ r.back = "next"
  BY <1>1 DEF Counted
<1>3. ASSUME NEW q \in {"usr2", "int"} PROVE Counted([r EXCEPT !.pc = q])
  <2> DEFINE s == [r EXCEPT !.pc = q]
  <2>1. /\ s.factored = r.factored /\ s.primes = r.primes /\ s.last = r.last /\ s.seen = r.seen
        /\ s.pc = q /\ s.back = r.back
    BY <1>1 DEF Record
  <2> HIDE DEF s
  <2>2. Counted(s)
    BY <1>1, <1>2, <2>1, Recount DEF Handling
  <2> QED BY <2>2 DEF s
<1>4. Counted([r EXCEPT !.pc = "fork", !.interval = nstart, !.rest = Rest])
  <2> DEFINE s == [r EXCEPT !.pc = "fork", !.interval = nstart, !.rest = Rest]
  <2>1. /\ s.factored = r.factored /\ s.primes = r.primes /\ s.last = r.last /\ s.seen = r.seen
        /\ s.pc = "fork"
    BY <1>1 DEF Record
  <2> HIDE DEF s
  <2>2. Counted(s)
    BY <1>1, <2>1, Recount DEF Handling
  <2> QED BY <2>2 DEF s
<1>5. Counted(Enter(r, nstart))
  BY <1>1, <1>2, EnterCounted DEF Arguments
<1>6. Counted([r EXCEPT !.pc = "poll1", !.n = -1,
                        !.flags = @ \cup {"USR1"}, !.owed = @ \cup {"USR1"}])
  <2> DEFINE s == [r EXCEPT !.pc = "poll1", !.n = -1,
                            !.flags = @ \cup {"USR1"}, !.owed = @ \cup {"USR1"}]
  <2>1. /\ s.factored = r.factored /\ s.primes = r.primes /\ s.last = r.last /\ s.seen = r.seen
        /\ s.pc = "poll1" /\ s.n = -1 /\ s.back = r.back
    BY <1>1 DEF Record
  <2> HIDE DEF s
  <2>2. Counted(s)
    BY <1>1, <1>2, <2>1, Recount DEF Handling
  <2> QED BY <2>2 DEF s
<1>7. \E s : Counted(s) /\ Becomes(x, s)
  BY <1>3, <1>4, <1>5, <1>6 DEF Install, r
<1> QED BY <1>7, OneCounted DEF Becomes

LEMMA CountCounted ==
  ASSUME LoopInv, CountersInv, NEW x \in Procs, Count(x) PROVE CountersInv'
<1> DEFINE r == proc[x]
           p == prog # "warmup" /\ IsPrime(r.n)
           s == [r EXCEPT !.factored = @ + 1, !.seen = Append(@, r.n), !.back = "next",
                   !.primes = IF p THEN @ + 1 ELSE @, !.last = IF p THEN r.n ELSE @,
                   !.pc = IF prog # "warmup" /\ ("INT" \in r.flags \/ r.n = LongMax)
                          THEN "summary" ELSE "poll1"]
<1>1. r \in Record /\ Counted(r)
  BY DEF LoopInv, CountersInv
<1>2. r.pc = "count" /\ Becomes(x, s)
  BY DEF Count
<1> HIDE DEF r
<1>3. p \in BOOLEAN /\ (p <=> prog # "warmup" /\ Prime(r.n))
  BY <1>1, IsPrimeCorrect DEF Record
<1> HIDE DEF p
<1>4. /\ s.factored = r.factored + 1 /\ s.seen = Append(r.seen, r.n)
      /\ s.primes = IF p THEN r.primes + 1 ELSE r.primes
      /\ s.last = IF p THEN r.n ELSE r.last
      /\ s.pc \in {"summary", "poll1"} /\ s.n = r.n /\ s.back = "next"
      /\ prog = "warmup" => s.pc = "poll1"
  BY <1>1 DEF Record
<1> HIDE DEF s
<1>5. prog = "warmup" => r.n = r.factored
  BY <1>1, <1>2 DEF Counted
<1>6. Counted(s)
  BY <1>1, <1>3, <1>4, <1>5, AppendCounted
<1> QED BY <1>2, <1>6, OneCounted DEF Becomes

LEMMA SlowlyCounted ==
  ASSUME LoopInv, CountersInv, NEW x \in Procs, CountSlowly(x) PROVE CountersInv'
<1> DEFINE r == proc[x]
           s == [r EXCEPT !.pc = "poll1", !.back = "count"]
<1>1. r \in Record /\ Counted(r) /\ prog # "warmup" /\ Becomes(x, s)
  BY DEF LoopInv, CountersInv, CountSlowly
<1> HIDE DEF r
<1>2. /\ s.factored = r.factored /\ s.primes = r.primes /\ s.last = r.last /\ s.seen = r.seen
      /\ s.pc = "poll1"
  BY <1>1 DEF Record
<1> HIDE DEF s
<1>3. Counted(s)
  BY <1>1, <1>2, Recount
<1> QED BY <1>1, <1>3, OneCounted DEF Becomes

LEMMA RequestsCounted ==
  ASSUME LoopInv, CountersInv, NEW x \in Procs, HandleRequests(x) PROVE CountersInv'
<1> DEFINE r == proc[x]
<1>1. r \in Record /\ Counted(r)
  BY DEF LoopInv, CountersInv
<1> HIDE DEF r
<1>2. ASSUME r.pc \in Handling, NEW q \in Handling, NEW s \in Record,
             s.factored = r.factored, s.primes = r.primes, s.last = r.last, s.seen = r.seen,
             s.n = r.n, s.back = r.back, s.pc = q
      PROVE  Counted(s)
  <2>1. prog = "warmup" => r.n = r.factored - 1 /\ r.back = "next"
    BY <1>1, <1>2 DEF Counted
  <2> QED BY <1>1, <1>2, <2>1, Recount DEF Handling
<1>3. ASSUME r.pc \in Handling, NEW s \in Record, s.pc \in Handling,
             s.factored = r.factored, s.primes = r.primes, s.last = r.last, s.seen = r.seen,
             s.n = r.n, s.back = r.back
      PROVE  Counted(Resume(s))
  <2>1. Counted(s)
    BY <1>2, <1>3
  <2>2. prog = "warmup" => s.n = s.factored - 1 /\ s.back = "next"
    BY <1>3, <2>1 DEF Counted
  <2>3. CASE s.back = "count"
    <3> DEFINE t == [s EXCEPT !.pc = "count"]
    <3>1. /\ t.factored = s.factored /\ t.primes = s.primes /\ t.last = s.last /\ t.seen = s.seen
          /\ t.pc = "count"
      BY <1>3 DEF Record
    <3> HIDE DEF t
    <3>2. Counted(t)
      BY <2>1, <2>2, <2>3, <3>1, Recount DEF Handling
    <3> QED BY <2>3, <3>2 DEF Resume, t
  <2>4. CASE s.back # "count"
    <3>1. s.n + 1 \in Int /\ s.factored \in Nat /\ s.n \in Int
      BY <1>3 DEF Record
    <3>2. prog = "warmup" => s.n + 1 = s.factored
      BY <2>2, <3>1
    <3> QED BY <1>3, <2>1, <2>4, <3>1, <3>2, EnterCounted DEF Resume
  <2> QED BY <2>3, <2>4
<1>4. ASSUME NEW sig \in Asks
      PROVE  /\ Clear(r, sig) \in Record /\ Answer(r, sig) \in Record
             /\ \A t \in {Clear(r, sig), Answer(r, sig)} :
                   /\ t.factored = r.factored /\ t.primes = r.primes /\ t.last = r.last
                   /\ t.seen = r.seen /\ t.n = r.n /\ t.back = r.back /\ t.pc = r.pc
  BY <1>1 DEF Clear, Answer, Record
<1>5. ASSUME NEW t \in Record, NEW q \in Handling
      PROVE  /\ [t EXCEPT !.pc = q] \in Record /\ [t EXCEPT !.pc = q].pc = q
             /\ [t EXCEPT !.pc = q].factored = t.factored /\ [t EXCEPT !.pc = q].primes = t.primes
             /\ [t EXCEPT !.pc = q].last = t.last /\ [t EXCEPT !.pc = q].seen = t.seen
             /\ [t EXCEPT !.pc = q].n = t.n /\ [t EXCEPT !.pc = q].back = t.back
  BY DEF Record, Handling
<1>6. ASSUME r.pc \in Handling, NEW sig \in Asks, NEW q \in Handling
      PROVE  /\ Counted([Clear(r, sig) EXCEPT !.pc = q])
             /\ Counted([Answer(r, sig) EXCEPT !.pc = q])
             /\ Counted(Resume(Answer(r, sig)))
  <2>1. Counted([Clear(r, sig) EXCEPT !.pc = q])
    <3>1. /\ [Clear(r, sig) EXCEPT !.pc = q] \in Record
          /\ \A t \in {[Clear(r, sig) EXCEPT !.pc = q]} :
                /\ t.factored = r.factored /\ t.primes = r.primes /\ t.last = r.last
                /\ t.seen = r.seen /\ t.n = r.n /\ t.back = r.back /\ t.pc = q
      BY <1>4, <1>5
    <3> QED BY <1>2, <1>6, <3>1
  <2>2. Counted([Answer(r, sig) EXCEPT !.pc = q])
    <3>1. /\ [Answer(r, sig) EXCEPT !.pc = q] \in Record
          /\ \A t \in {[Answer(r, sig) EXCEPT !.pc = q]} :
                /\ t.factored = r.factored /\ t.primes = r.primes /\ t.last = r.last
                /\ t.seen = r.seen /\ t.n = r.n /\ t.back = r.back /\ t.pc = q
      BY <1>4, <1>5
    <3> QED BY <1>2, <1>6, <3>1
  <2>3. Counted(Resume(Answer(r, sig)))
    BY <1>3, <1>4, <1>6
  <2> QED BY <2>1, <2>2, <2>3
<1>7. r.pc \in Handling => Counted(Resume(r))
  BY <1>1, <1>3
<1>8. "USR1" \in Asks /\ "USR2" \in Asks /\ {"poll1", "poll2", "say1", "say2"} \subseteq Handling
  BY DEF Asks, Handling
<1> USE DEF r
<1>9. \E s : Counted(s) /\ Becomes(x, s)
  <2>1. CASE r.pc \in {"poll1", "poll2"}
    BY <2>1, <1>6, <1>7, <1>8 DEF HandleRequests, Requests
  <2>2. CASE r.pc = "say1"
    BY <2>2, <1>6, <1>8 DEF HandleRequests, Requests
  <2>3. CASE r.pc = "say2"
    BY <2>3, <1>6, <1>8 DEF HandleRequests, Requests
  <2> QED BY <2>1, <2>2, <2>3 DEF HandleRequests, Requests
<1> QED BY <1>9, OneCounted DEF Becomes

\* A child has one turn more than its parent.
LEMMA KidsApart ==
  ASSUME NEW x \in Procs, NEW y \in Kids(x)
  PROVE  /\ y \in Procs /\ y # x
         /\ \E t \in Turns : y = x \cup {t} /\ t \notin x /\ \A v \in x : t > v
<1>1. PICK t \in Turns : y = x \cup {t} /\ \A v \in x : t > v
  BY DEF Kids
<1>2. x \subseteq Turns /\ \A v \in Turns : ~(v > v)
  BY PrimesAssumption DEF Procs, Turns
<1>3. t \notin x
  BY <1>1, <1>2
<1> QED BY <1>1, <1>2, <1>3 DEF Procs

\* A fork turn and a call of wait() count nothing.
LEMMA TurnCounted ==
  ASSUME NEW r \in Record, Counted(r), prog = "tree"
  PROVE  Counted(NextTurn(r)) /\ Counted(Waited(r))
<1> DEFINE s == NextTurn(r)
           t == Waited(r)
<1>1. /\ s.factored = r.factored /\ s.primes = r.primes /\ s.last = r.last /\ s.seen = r.seen
      /\ s.pc \in {"wait", "fork"}
  BY DEF NextTurn, Record
<1>2. /\ t.factored = r.factored /\ t.primes = r.primes /\ t.last = r.last /\ t.seen = r.seen
      /\ t.pc \in {"wait", "ended"}
  BY DEF Waited, Record
<1> HIDE DEF s, t
<1>3. Counted(s)
  BY <1>1, Recount
<1>4. Counted(t)
  BY <1>2, Recount
<1> QED BY <1>3, <1>4 DEF s, t

\* A process that ends leaves its counters as they are.
LEMMA EndCounted ==
  ASSUME NEW r \in Record, Counted(r), NEW q \in Ended, q = "ended" /\ prog = "warmup" => r.n = r.factored
  PROVE  Counted([r EXCEPT !.pc = q])
<1> DEFINE s == [r EXCEPT !.pc = q]
<1>1. /\ s.factored = r.factored /\ s.primes = r.primes /\ s.last = r.last /\ s.seen = r.seen
      /\ s.pc = q /\ s.n = r.n
  BY DEF Record
<1> HIDE DEF s
<1>2. Counted(s)
  BY <1>1, Recount DEF Handling, Ended
<1> QED BY <1>2 DEF s

LEMMA SummaryCounted ==
  ASSUME LoopInv, CountersInv, NEW x \in Procs, Summary(x) PROVE CountersInv'
<1>1. proc[x] \in Record /\ Counted(proc[x]) /\ proc[x].pc = "summary"
  BY DEF LoopInv, CountersInv, Summary
<1>2. prog = "warmup" => proc[x].n = proc[x].factored
  BY <1>1 DEF Counted
<1>3. \E s : Counted(s) /\ Becomes(x, s)
  BY <1>1, <1>2, TurnCounted, EndCounted DEF Summary, Ended
<1> QED BY <1>3, OneCounted DEF Becomes

LEMMA ForkCounted ==
  ASSUME LoopInv, CountersInv, NEW x \in Procs, Fork(x) PROVE CountersInv'
<1> DEFINE r == proc[x]
           c == [r EXCEPT !.add = IF r.rest > 0 THEN 1 ELSE 0,
                          !.rest = IF @ > 0 THEN @ - 1 ELSE @, !.owed = {}]
<1>1. Good(r) /\ r \in Record /\ Counted(r) /\ r.pc = "fork" /\ Arguments /\ prog = "tree"
  BY DEF LoopInv, CountersInv, Good, Fork, Growing
<1> HIDE DEF r
<1>2. r.turn \in 1..NForks /\ r.interval \in Int
  BY <1>1, PrimesAssumption DEF Good, Growing, Record
<1>3. c \in Record
  <2>1. (IF r.rest > 0 THEN r.rest - 1 ELSE r.rest) \in 0..NForks
        /\ (IF r.rest > 0 THEN 1 ELSE 0) \in {0, 1} /\ {} \in SUBSET Asks
    BY <1>1, PrimesAssumption DEF Record
  <2> QED BY <1>1, <2>1 DEF Record
<1>4. /\ c.factored = r.factored /\ c.primes = r.primes /\ c.last = r.last /\ c.seen = r.seen
      /\ c.pc = "fork"
  BY <1>1 DEF Record
<1> HIDE DEF c
<1>5. Counted(c)
  BY <1>1, <1>4, Recount DEF Handling
<1>6. Counted(Enter(c, r.interval))
  BY <1>1, <1>2, <1>3, <1>5, EnterCounted
<1>7. Counted(NextTurn(r)) /\ Counted([r EXCEPT !.pc = "failed"])
  BY <1>1, TurnCounted, EndCounted DEF Ended
<1>8. UNCHANGED <<prog, nstart, nend>> /\ x \cup {r.turn} \in Procs
  BY <1>2 DEF Fork, Procs, Turns
<1>9. CASE proc' = [proc EXCEPT ![x].pc = "failed"]
  <2>1. proc' = [proc EXCEPT ![x] = [r EXCEPT !.pc = "failed"]]
    BY <1>9 DEF r
  <2> QED BY <1>7, <1>8, <2>1, OneCounted
<1>10. CASE proc' = [proc EXCEPT ![x] = NextTurn(r), ![x \cup {r.turn}] = Enter(c, r.interval)]
  BY <1>6, <1>7, <1>8, <1>10, TwoCounted
<1> QED BY <1>9, <1>10 DEF Fork, r, c

LEMMA WaitCounted ==
  ASSUME LoopInv, CountersInv, NEW x \in Procs, Wait(x) PROVE CountersInv'
<1>1. /\ proc[x] \in Record /\ Counted(proc[x]) /\ prog = "tree"
      /\ UNCHANGED <<prog, nstart, nend>>
  BY DEF LoopInv, CountersInv, Wait, Good, Growing
<1>2. Counted(Waited(proc[x])) /\ Counted([proc[x] EXCEPT !.pc = "ended"])
  BY <1>1, TurnCounted, EndCounted DEF Ended
<1>3. CASE proc' = [proc EXCEPT ![x].pc = "ended"]
  <2>1. proc' = [proc EXCEPT ![x] = [proc[x] EXCEPT !.pc = "ended"]]
    BY <1>3
  <2> QED BY <1>1, <1>2, <2>1, OneCounted
<1>4. ASSUME NEW y \in Left(x), proc' = [proc EXCEPT ![x] = Waited(@), ![y].pc = "reaped"]
      PROVE  CountersInv'
  <2>1. y \in Procs /\ y # x
    BY KidsApart DEF Left
  <2>2. Counted([proc[y] EXCEPT !.pc = "reaped"])
    BY <1>1, <2>1, EndCounted DEF LoopInv, CountersInv, Ended
  <2>3. proc' = [proc EXCEPT ![x] = Waited(proc[x]), ![y] = [proc[y] EXCEPT !.pc = "reaped"]]
    BY <1>4, <2>1
  <2> QED BY <1>1, <1>2, <2>1, <2>2, <2>3, TwoCounted
<1> QED BY <1>3, <1>4 DEF Wait

LEMMA SendCounted ==
  ASSUME LoopInv, CountersInv, NEW x \in Procs, NEW sig \in Asks \cup {"INT"}, Send(x, sig)
  PROVE  CountersInv'
<1> DEFINE r == proc[x]
           s == [r EXCEPT !.flags = @ \cup {sig}, !.owed = @ \cup ({sig} \cap Asks)]
           w == [s EXCEPT !.cuts = @ + 1]
<1>1. Good(r) /\ r \in Record /\ Counted(r)
  BY DEF LoopInv, CountersInv
<1> HIDE DEF r
<1>2. Counted([r EXCEPT !.pc = "killed"])
  BY <1>1, EndCounted DEF Ended
<1>3. s \in Record
  <2>1. /\ r.flags \cup {sig} \in SUBSET (Asks \cup {"INT"})
        /\ r.owed \cup ({sig} \cap Asks) \in SUBSET Asks
    BY <1>1 DEF Record
  <2> QED BY <1>1, <2>1 DEF Record
<1>4. /\ s.factored = r.factored /\ s.primes = r.primes /\ s.last = r.last /\ s.seen = r.seen
      /\ s.pc = r.pc /\ s.n = r.n /\ s.back = r.back
  BY <1>1 DEF Record
<1>5. /\ w.factored = s.factored /\ w.primes = s.primes /\ w.last = s.last /\ w.seen = s.seen
      /\ w.pc = s.pc /\ w.n = s.n /\ w.back = s.back
      /\ w \in Record
  <2> HIDE DEF s
  <2>1. s.cuts + 1 \in Nat
    BY <1>3 DEF Record
  <2> QED BY <1>3, <2>1 DEF Record
<1> HIDE DEF s, w
<1>6. Counted(s)
  BY <1>1, <1>4, Recount DEF Counted
<1>7. r.pc = "wait" => Counted(Waited(w))
  <2>1. Counted(w)
    BY <1>5, <1>6, Recount DEF Counted
  <2>2. r.pc = "wait" => prog = "tree"
    BY <1>1 DEF Good, Growing
  <2> QED BY <1>5, <2>1, <2>2, TurnCounted
<1>8. PICK t : Counted(t) /\ proc' = [proc EXCEPT ![x] = t]
  BY <1>2, <1>6, <1>7 DEF Send, r, s, w
<1> QED BY <1>8, OneCounted DEF Send

LEMMA NextCounted == ASSUME LoopInv, CountersInv, [Next]_vars PROVE CountersInv'
<1>1. CASE UNCHANGED vars
  <2>1. UNCHANGED <<prog, nstart, nend, proc, sent>>
    BY <1>1 DEF vars
  <2> QED BY <2>1 DEF CountersInv, Counted, Found
<1>2. ASSUME NEW x \in Procs, NEW sig \in Asks \cup {"INT"}, Send(x, sig) PROVE CountersInv'
  BY <1>2, SendCounted
<1> QED BY <1>1, <1>2, InstallCounted, CountCounted, SlowlyCounted, RequestsCounted,
       SummaryCounted, ForkCounted, WaitCounted DEF Next

\* What a process would print is true of the numbers it and its ancestors have
\* worked through, for every range of longs: the primes are counted, and the
\* last one is the last one (exercise-3.c:80-111 and 154-174,
\* exercise-3-v2.c:186-206).
THEOREM CountersTrue == Spec => []Counts
<1>1. LoopInv /\ CountersInv => Counts
  <2> SUFFICES ASSUME LoopInv, CountersInv, NEW x \in Procs
               PROVE  LET r == proc[x]
                          found == {i \in 1..Len(r.seen) : prog # "warmup" /\ Prime(r.seen[i])}
                      IN  /\ r.factored = Len(r.seen)
                          /\ prog = "warmup" /\ r.pc \in {"summary", "ended"} => r.n = r.factored
                          /\ r.primes = Cardinality(found)
                          /\ r.last = IF found = {} THEN 0
                                      ELSE r.seen[CHOOSE i \in found : \A j \in found : j <= i]
    BY DEF Counts
  <2> DEFINE r == proc[x]
             last == CHOOSE i \in Found(r) : \A j \in Found(r) : j <= i
  <2>1. Counted(r)
    BY DEF CountersInv
  <2>2. Found(r) # {} => r.last = r.seen[last]
    <3> SUFFICES ASSUME Found(r) # {} PROVE r.last = r.seen[last]
      OBVIOUS
    <3>1. PICK i \in Found(r) : r.last = r.seen[i] /\ \A j \in Found(r) : j <= i
      BY <2>1 DEF Counted
    <3>2. last \in Found(r) /\ \A j \in Found(r) : j <= last
      BY <3>1
    <3>3. \A j \in Found(r) : j \in Int
      BY DEF Found
    <3>4. last = i
      BY <3>1, <3>2, <3>3
    <3> QED BY <3>1, <3>4
  <2> QED BY <2>1, <2>2 DEF Counted, Found
<1>2. Init => CountersInv
  BY InitCounted
<1>3. LoopInv /\ CountersInv /\ [Next]_vars => CountersInv'
  BY NextCounted
<1> QED BY <1>1, <1>2, <1>3, LoopInvariant, PTL DEF Spec
-----------------------------------------------------------------------------
(***************************************************************************)
(* The tree of processes                                                   *)
(***************************************************************************)

\* A process has one parent.
LEMMA KidsUnique ==
  ASSUME NEW x \in Procs, NEW z \in Procs, NEW y \in Kids(x), y \in Kids(z)
  PROVE  x = z
<1>1. PICK t \in Turns : y = x \cup {t} /\ t \notin x /\ \A v \in x : t > v
  BY KidsApart
<1>2. PICK u \in Turns : y = z \cup {u} /\ u \notin z /\ \A v \in z : u > v
  BY KidsApart
<1>3. x \subseteq Turns /\ z \subseteq Turns /\ \A a, b \in Turns : ~(a > b /\ b > a)
  BY PrimesAssumption DEF Procs, Turns
<1>4. t = u
  BY <1>1, <1>2, <1>3
<1> QED BY <1>1, <1>2, <1>4

LEMMA KidsFinite ==
  ASSUME NEW x \in Procs
  PROVE  IsFiniteSet(Kids(x)) /\ IsFiniteSet(Reaped(x)) /\ Cardinality(Reaped(x)) \in Nat
<1>1. IsFiniteSet(Procs)
  <2>1. IsFiniteSet(Turns)
    BY PrimesAssumption, FS_Interval DEF Turns
  <2> QED BY <2>1, FS_SUBSET DEF Procs
<1>2. Kids(x) \subseteq Procs /\ Reaped(x) \subseteq Kids(x)
  BY KidsApart DEF Reaped
<1>3. IsFiniteSet(Kids(x)) /\ IsFiniteSet(Reaped(x))
  BY <1>1, <1>2, FS_Subset
<1> QED BY <1>3, FS_CardinalityType

\* A process stands where it stood if it and its children do nothing.
LEMMA StandsSame ==
  ASSUME NEW z \in Procs, Stands(z), prog' = prog, proc'[z] = proc[z],
         \A k \in Kids(z) : /\ proc'[k].pc = "none" <=> proc[k].pc = "none"
                            /\ proc'[k].pc = "reaped" <=> proc[k].pc = "reaped"
  PROVE  Stands(z)'
<1>1. Reaped(z)' = Reaped(z) /\ Left(z)' = Left(z) /\ Kids(z)' = Kids(z)
  BY DEF Reaped, Left, Kids
<1> QED BY <1>1 DEF Stands

\* A step of one process that neither comes into being nor is reaped
LEMMA OneStands ==
  ASSUME LoopInv, TreeInv, NEW x \in Procs, NEW s, prog' = prog, proc' = [proc EXCEPT ![x] = s],
         proc[x].pc \notin {"none", "reaped"}, s.pc \notin {"none", "reaped"},
         s.pc \in {"usr1", "usr2", "int"} => proc[x].pc \in {"usr1", "usr2", "int"},
         s.turn \in Int, s.turn >= proc[x].turn, s.waits - s.cuts = proc[x].waits - proc[x].cuts,
         s.waits \in Nat, s.cuts \in Nat,
         s.pc = "fork" => s.turn > proc[x].turn \/ x = {} \/ proc[x].pc = "fork",
         s.pc = "ended" => s.waits = NForks \/ Left(x) = {}
  PROVE  TreeInv'
<1> SUFFICES ASSUME NEW z \in Procs PROVE Stands(z)'
  BY DEF TreeInv
<1>1. /\ proc'[x] = s /\ \A k \in Procs : k # x => proc'[k] = proc[k]
      /\ proc[x] \in Record
  BY DEF LoopInv
<1>2. \A k \in Procs : /\ proc'[k].pc = "none" <=> proc[k].pc = "none"
                       /\ proc'[k].pc = "reaped" <=> proc[k].pc = "reaped"
  BY <1>1
<1>3. CASE z # x
  BY <1>1, <1>2, <1>3, StandsSame, KidsApart DEF TreeInv
<1>4. CASE z = x
  <2>1. Reaped(x)' = Reaped(x) /\ Left(x)' = Left(x) /\ Kids(x)' = Kids(x)
    BY <1>2, KidsApart DEF Reaped, Left, Kids
  <2>2. Stands(x) /\ Cardinality(Reaped(x)) \in Nat
    BY KidsFinite DEF TreeInv
  <2>3. proc[x].waits \in Nat /\ proc[x].cuts \in Nat /\ proc[x].turn \in Int
    BY <1>1, PrimesAssumption DEF Record
  <2>4. s.waits = s.cuts + Cardinality(Reaped(x))
    <3>1. proc[x].waits = proc[x].cuts + Cardinality(Reaped(x))
      BY <2>2 DEF Stands
    <3> QED BY <2>2, <2>3, <3>1
  <2>5. x \subseteq Int
    BY DEF Procs, Turns
  <2>6. /\ \A v \in x : v <= s.turn
        /\ s.pc = "fork" => \A v \in x : v < s.turn
    <3>1. \A v \in x : v <= proc[x].turn /\ (proc[x].pc = "fork" => v < proc[x].turn)
      BY <2>2 DEF Stands
    <3> QED BY <2>3, <2>5, <3>1
  <2>7. \A u \in Turns : u >= s.turn /\ x \cup {u} \in Kids(x) => proc'[x \cup {u}].pc = "none"
    <3> SUFFICES ASSUME NEW u \in Turns, u >= s.turn, x \cup {u} \in Kids(x)
                 PROVE  proc'[x \cup {u}].pc = "none"
      OBVIOUS
    <3>1. u >= proc[x].turn
      BY <2>3 DEF Turns
    <3>2. proc[x \cup {u}].pc = "none"
      BY <2>2, <3>1 DEF Stands
    <3> QED BY <1>2, <3>2, KidsApart
  <2> QED BY <1>1, <1>4, <2>1, <2>2, <2>4, <2>6, <2>7 DEF Stands
<1> QED BY <1>3, <1>4

LEMMA InitStands == Init => TreeInv
<1> SUFFICES ASSUME Init, NEW x \in Procs PROVE Stands(x)
  BY DEF TreeInv
<1>1. /\ proc[x].turn = 1 /\ proc[x].waits = 0 /\ proc[x].cuts = 0
      /\ proc[x].pc = IF x = {} THEN "usr1" ELSE "none"
  BY DEF Init, Fresh
<1>2. \A k \in Kids(x) : proc[k].pc = "none"
  <2> TAKE k \in Kids(x)
  <2>1. k \in Procs /\ k # {}
    BY KidsApart
  <2> QED BY <2>1 DEF Init, Fresh
<1>3. Reaped(x) = {} /\ Cardinality({}) = 0
  BY <1>2, FS_EmptySet DEF Reaped
<1> QED BY <1>1, <1>2, <1>3 DEF Stands

\* Only the first process runs in a program that is not the tree.
LEMMA NoTree ==
  ASSUME TreeInv, NEW x \in Procs, proc[x].pc # "none", prog # "tree"
  PROVE  Left(x) = {}
<1>1. x = {}
  BY DEF TreeInv, Stands
<1>2. \A y \in Kids(x) : y \in Procs /\ y # {}
  BY <1>1, KidsApart
<1> QED BY <1>2 DEF TreeInv, Stands, Left

LEMMA InstallStands == ASSUME LoopInv, TreeInv, NEW x \in Procs, Install(x) PROVE TreeInv'
<1> DEFINE r == proc[x]
           a(q) == [r EXCEPT !.pc = q]
           b == [r EXCEPT !.pc = "fork", !.interval = nstart, !.rest = Rest]
           c == Enter(r, nstart)
           d == [r EXCEPT !.pc = "poll1", !.n = -1,
                          !.flags = @ \cup {"USR1"}, !.owed = @ \cup {"USR1"}]
<1>1. r \in Record /\ r.pc \in {"usr1", "usr2", "int"} /\ x = {}
  BY DEF LoopInv, Install, TreeInv, Stands
<1> HIDE DEF r
<1>2. \A q : a(q).turn = r.turn /\ a(q).waits = r.waits /\ a(q).cuts = r.cuts /\ a(q).pc = q
  BY <1>1 DEF Record
<1>3. b.turn = r.turn /\ b.waits = r.waits /\ b.cuts = r.cuts /\ b.pc = "fork"
  BY <1>1 DEF Record
<1>4. c.turn = r.turn /\ c.waits = r.waits /\ c.cuts = r.cuts /\ c.pc \in {"count", "summary"}
  BY <1>1 DEF Record, Enter
<1>5. d.turn = r.turn /\ d.waits = r.waits /\ d.cuts = r.cuts /\ d.pc = "poll1"
  BY <1>1 DEF Record
<1>6. \/ \E q \in {"usr2", "int"} : Becomes(x, a(q)) /\ r.pc \in {"usr1", "usr2"}
      \/ Becomes(x, b) \/ Becomes(x, c) \/ Becomes(x, d)
  BY DEF Install, r
<1> HIDE DEF a, b, c, d
<1>8. PICK s : /\ Becomes(x, s) /\ s.turn = r.turn /\ s.waits = r.waits /\ s.cuts = r.cuts
               /\ s.pc \in {"fork", "count", "summary", "poll1"}
                  \/ (s.pc \in {"usr2", "int"} /\ r.pc \in {"usr1", "usr2"})
  BY <1>2, <1>3, <1>4, <1>5, <1>6
<1>7. /\ r.turn \in Int /\ r.waits \in Nat /\ r.cuts \in Nat
  BY <1>1, PrimesAssumption DEF Record
<1>9. /\ prog' = prog /\ proc' = [proc EXCEPT ![x] = s] /\ r.turn >= r.turn
      /\ s.pc \notin {"none", "reaped", "ended"}
  BY <1>7, <1>8 DEF Becomes
<1> QED BY <1>1, <1>7, <1>8, <1>9, OneStands DEF r

\* A step within the loop
LEMMA LoopStands ==
  ASSUME LoopInv, TreeInv, NEW x \in Procs, NEW s, Becomes(x, s),
         s.turn = proc[x].turn, s.waits = proc[x].waits, s.cuts = proc[x].cuts,
         proc[x].pc \notin {"none", "reaped"}, s.pc \in {"count", "summary", "failed", "killed"} \cup Handling
  PROVE  TreeInv'
<1>1. proc[x] \in Record
  BY DEF LoopInv
<1>2. proc[x].turn \in Int /\ proc[x].waits \in Nat /\ proc[x].cuts \in Nat
  BY <1>1, PrimesAssumption DEF Record
<1>3. prog' = prog /\ proc' = [proc EXCEPT ![x] = s] /\ s.turn >= proc[x].turn
  BY <1>2 DEF Becomes
<1>4. s.pc \notin {"none", "reaped", "usr1", "usr2", "int", "fork", "ended"}
  BY DEF Handling
<1> QED BY <1>2, <1>3, <1>4, OneStands

LEMMA CountStands == ASSUME LoopInv, TreeInv, NEW x \in Procs, Count(x) PROVE TreeInv'
<1> DEFINE r == proc[x]
           p == prog # "warmup" /\ IsPrime(r.n)
           s == [r EXCEPT !.factored = @ + 1, !.seen = Append(@, r.n), !.back = "next",
                   !.primes = IF p THEN @ + 1 ELSE @, !.last = IF p THEN r.n ELSE @,
                   !.pc = IF prog # "warmup" /\ ("INT" \in r.flags \/ r.n = LongMax)
                          THEN "summary" ELSE "poll1"]
<1>1. r \in Record /\ r.pc = "count" /\ Becomes(x, s)
  BY DEF LoopInv, Count
<1> HIDE DEF r, p
<1>2. /\ s.turn = r.turn /\ s.waits = r.waits /\ s.cuts = r.cuts
      /\ s.pc \in {"summary", "poll1"}
  BY <1>1 DEF Record
<1> HIDE DEF s
<1> QED BY <1>1, <1>2, LoopStands DEF r, Handling

LEMMA SlowlyStands == ASSUME LoopInv, TreeInv, NEW x \in Procs, CountSlowly(x) PROVE TreeInv'
<1> DEFINE r == proc[x]
           s == [r EXCEPT !.pc = "poll1", !.back = "count"]
<1>1. r \in Record /\ r.pc = "count" /\ Becomes(x, s)
  BY DEF LoopInv, CountSlowly
<1> HIDE DEF r
<1>2. s.turn = r.turn /\ s.waits = r.waits /\ s.cuts = r.cuts /\ s.pc = "poll1"
  BY <1>1 DEF Record
<1> HIDE DEF s
<1> QED BY <1>1, <1>2, LoopStands DEF r, Handling

LEMMA RequestsStands == ASSUME LoopInv, TreeInv, NEW x \in Procs, HandleRequests(x) PROVE TreeInv'
<1> DEFINE r == proc[x]
<1>1. r \in Record /\ r.pc \in Handling
  BY DEF LoopInv, HandleRequests, Requests, Handling
<1> HIDE DEF r
<1>2. \A t \in {[Clear(r, "USR1") EXCEPT !.pc = "say1"], [Clear(r, "USR2") EXCEPT !.pc = "say2"],
                [Answer(r, "USR1") EXCEPT !.pc = "poll2"]} :
         /\ t.turn = r.turn /\ t.waits = r.waits /\ t.cuts = r.cuts
         /\ t.pc \in {"say1", "say2", "poll2"}
  BY <1>1 DEF Clear, Answer, Record
<1>3. \A t \in {Resume(r), Resume(Answer(r, "USR2"))} :
         /\ t.turn = r.turn /\ t.waits = r.waits /\ t.cuts = r.cuts
         /\ t.pc \in {"count", "summary"}
  BY <1>1 DEF Answer, Record, Resume, Enter
<1>4. \E s \in {[Clear(r, "USR1") EXCEPT !.pc = "say1"], [Clear(r, "USR2") EXCEPT !.pc = "say2"],
                [Answer(r, "USR1") EXCEPT !.pc = "poll2"], Resume(r), Resume(Answer(r, "USR2"))} :
         Becomes(x, s)
  BY DEF HandleRequests, Requests, r
<1>5. PICK s : /\ Becomes(x, s) /\ s.turn = r.turn /\ s.waits = r.waits /\ s.cuts = r.cuts
               /\ s.pc \in {"count", "summary", "say1", "say2", "poll2"}
  BY <1>2, <1>3, <1>4
<1> USE DEF r
<1> QED BY <1>1, <1>5, LoopStands DEF Handling

LEMMA SummaryStands == ASSUME LoopInv, TreeInv, NEW x \in Procs, Summary(x) PROVE TreeInv'
<1> DEFINE r == proc[x]
           s == IF prog = "tree" THEN NextTurn(r) ELSE [r EXCEPT !.pc = "ended"]
<1>1. r \in Record /\ r.pc = "summary" /\ prog' = prog /\ proc' = [proc EXCEPT ![x] = s]
  BY DEF LoopInv, Summary, Becomes
<1>2. prog # "tree" => Left(x) = {}
  BY <1>1, NoTree
<1> HIDE DEF r
<1>3. r.turn \in Int /\ r.waits \in Nat /\ r.cuts \in Nat /\ r.turn + 1 > r.turn
  BY <1>1, PrimesAssumption DEF Record
<1>4. prog = "tree" => /\ s.turn = r.turn + 1 /\ s.waits = r.waits /\ s.cuts = r.cuts
                       /\ s.pc \in {"fork", "wait"}
  BY <1>1 DEF NextTurn, Record
<1>5. prog # "tree" => s.turn = r.turn /\ s.waits = r.waits /\ s.cuts = r.cuts /\ s.pc = "ended"
  BY <1>1 DEF Record
<1> HIDE DEF s
<1>6. /\ s.turn \in Int /\ s.turn >= r.turn /\ s.waits = r.waits /\ s.cuts = r.cuts
      /\ s.pc \in {"fork", "wait", "ended"}
      /\ s.pc = "ended" => prog # "tree"
      /\ s.pc = "fork" => s.turn > r.turn
  BY <1>3, <1>4, <1>5
<1> QED BY <1>1, <1>2, <1>3, <1>6, OneStands DEF r

\* A new child has no children, and its parent no other child that it could be.
LEMMA ForkStands == ASSUME LoopInv, TreeInv, NEW x \in Procs, Fork(x) PROVE TreeInv'
<1> DEFINE r == proc[x]
           c == [r EXCEPT !.add = IF r.rest > 0 THEN 1 ELSE 0,
                          !.rest = IF @ > 0 THEN @ - 1 ELSE @, !.owed = {}]
           s == NextTurn(r)
           e == Enter(c, r.interval)
<1>1. /\ r \in Record /\ r.pc = "fork" /\ prog = "tree" /\ r.turn <= NForks /\ r.waits = 0
      /\ UNCHANGED <<prog, nstart, nend, sent>>
  BY DEF LoopInv, Good, Growing, Fork
<1>2. CASE proc' = [proc EXCEPT ![x].pc = "failed"]
  <2> DEFINE f == [r EXCEPT !.pc = "failed"]
  <2>1. f.turn = r.turn /\ f.waits = r.waits /\ f.cuts = r.cuts /\ f.pc = "failed"
    BY <1>1 DEF Record
  <2>2. Becomes(x, f)
    BY <1>1, <1>2 DEF Becomes
  <2> HIDE DEF f
  <2> QED BY <1>1, <2>1, <2>2, LoopStands
<1>3. ASSUME NEW y, y = x \cup {r.turn}, proc' = [proc EXCEPT ![x] = s, ![y] = e]
      PROVE  TreeInv'
  <2>1. r.turn \in Turns /\ r.cuts \in Nat /\ r.turn \in Int /\ x \subseteq Int
    BY <1>1, PrimesAssumption DEF Record, Turns, Procs
  <2>2. Stands(x) /\ \A v \in x : v < r.turn
    BY <1>1 DEF TreeInv, Stands
  <2>3. y \in Kids(x)
    BY <1>3, <2>1, <2>2 DEF Kids
  <2>4. y \in Procs /\ y # x /\ r.turn >= r.turn
    BY <2>1, <2>3, KidsApart
  <2>5. proc[y].pc = "none" /\ Stands(y)
    BY <1>3, <2>1, <2>2, <2>3, <2>4 DEF Stands, TreeInv
  <2>6. \A k \in Kids(y) : k \in Procs /\ k # y /\ k # x /\ proc[k].pc = "none"
    <3> TAKE k \in Kids(y)
    <3>1. PICK u \in Turns : k = y \cup {u} /\ u \notin y
      BY <2>4, KidsApart
    <3>2. u >= 1 /\ proc[y].turn = 1
      BY <2>5, PrimesAssumption DEF Turns, Stands
    <3>3. proc[k].pc = "none"
      BY <2>5, <3>1, <3>2 DEF Stands
    <3> QED BY <1>1, <2>4, <3>1, <3>3, KidsApart
  <2>7. /\ s.turn = r.turn + 1 /\ s.waits = r.waits /\ s.cuts = r.cuts /\ s.pc \in {"fork", "wait"}
    BY <1>1 DEF NextTurn, Record
  <2>8. /\ e.turn = r.turn /\ e.waits = r.waits /\ e.cuts = r.cuts /\ e.pc \in {"count", "summary"}
    BY <1>1 DEF Enter, Record
  <2> HIDE DEF r, c, s, e
  <2>9. /\ proc'[x] = s /\ proc'[y] = e
        /\ \A k \in Procs : k # x /\ k # y => proc'[k] = proc[k]
    BY <1>3, <2>4 DEF LoopInv
  <2>10. Cardinality(Reaped(x)) \in Nat /\ r.cuts = 0 /\ Cardinality(Reaped(x)) = 0
    <3>1. Cardinality(Reaped(x)) \in Nat
      BY KidsFinite
    <3>2. r.waits = r.cuts + Cardinality(Reaped(x))
      BY <2>2 DEF Stands, r
    <3> QED BY <1>1, <2>1, <3>1, <3>2
  <2>11. Stands(x)'
    <3>1. \A k \in Kids(x) : k \in Procs /\ k # x
      BY KidsApart
    <3>2. Reaped(x)' = Reaped(x)
      BY <2>5, <2>8, <2>9, <3>1 DEF Reaped, Kids
    <3>3. \A v \in x : v < s.turn /\ v <= s.turn
      BY <2>1, <2>2, <2>7
    <3>4. ASSUME NEW u \in Turns, u >= s.turn, x \cup {u} \in Kids(x)
          PROVE  proc'[x \cup {u}].pc = "none"
      <4>1. u >= r.turn /\ u # r.turn
        BY <2>1, <2>7, <3>4 DEF Turns
      <4>2. x \cup {u} # y /\ x \cup {u} # x
        <5>1. r.turn \notin x
          BY <2>1, <2>2
        <5> QED BY <1>3, <3>1, <3>4, <4>1, <5>1
      <4>3. proc[x \cup {u}].pc = "none"
        BY <2>2, <3>4, <4>1 DEF Stands, r
      <4> QED BY <2>9, <3>1, <3>4, <4>2, <4>3
    <3>5. Kids(x)' = Kids(x)
      BY DEF Kids
    <3> QED BY <1>1, <2>7, <2>9, <2>10, <3>2, <3>3, <3>4, <3>5 DEF Stands
  <2>12. Stands(y)'
    <3>1. Reaped(y)' = {} /\ Cardinality({}) = 0
      BY <2>6, <2>9, FS_EmptySet DEF Reaped, Kids
    <3>2. \A v \in y : v <= e.turn
      BY <1>3, <2>1, <2>2, <2>8
    <3>3. \A u \in Turns : y \cup {u} \in Kids(y) => proc'[y \cup {u}].pc = "none"
      BY <2>6, <2>9
    <3>4. Kids(y)' = Kids(y)
      BY DEF Kids
    <3> QED BY <1>1, <2>7, <2>8, <2>9, <2>10, <3>1, <3>2, <3>3, <3>4 DEF Stands
  <2>13. ASSUME NEW z \in Procs, z # x, z # y PROVE Stands(z)'
    <3>1. \A k \in Kids(z) : k # y /\ k \in Procs
      BY <2>3, <2>13, KidsUnique, KidsApart
    <3>2. \A k \in Kids(z) : /\ proc'[k].pc = "none" <=> proc[k].pc = "none"
                             /\ proc'[k].pc = "reaped" <=> proc[k].pc = "reaped"
      BY <1>1, <2>7, <2>9, <3>1 DEF r
    <3> QED BY <1>1, <2>9, <2>13, <3>2, StandsSame DEF TreeInv
  <2> QED BY <2>11, <2>12, <2>13 DEF TreeInv
<1> QED BY <1>2, <1>3 DEF Fork

\* A return of wait() is a child reaped.
LEMMA WaitStands == ASSUME LoopInv, TreeInv, NEW x \in Procs, Wait(x) PROVE TreeInv'
<1> DEFINE r == proc[x]
           s == Waited(r)
<1>1. /\ r \in Record /\ r.pc = "wait" /\ prog' = prog /\ prog = "tree" /\ r.waits < NForks
      /\ Stands(x)
  BY DEF LoopInv, Good, Growing, Wait, TreeInv
<1>2. r.turn \in Int /\ r.waits \in Nat /\ r.cuts \in Nat /\ r.turn >= r.turn
  BY <1>1, PrimesAssumption DEF Record
<1>3. CASE Left(x) = {} /\ proc' = [proc EXCEPT ![x].pc = "ended"]
  <2> DEFINE e == [r EXCEPT !.pc = "ended"]
  <2>1. e.turn = r.turn /\ e.waits = r.waits /\ e.cuts = r.cuts /\ e.pc = "ended"
    BY <1>1 DEF Record
  <2>2. proc' = [proc EXCEPT ![x] = e]
    BY <1>3
  <2> HIDE DEF e
  <2> QED BY <1>1, <1>2, <1>3, <2>1, <2>2, OneStands
<1>4. ASSUME NEW y \in Left(x), proc[y].pc \in Ended,
             proc' = [proc EXCEPT ![x] = Waited(@), ![y].pc = "reaped"]
      PROVE  TreeInv'
  <2>1. y \in Kids(x) /\ y \in Procs /\ y # x /\ proc[y].pc \notin {"none", "reaped"}
    BY KidsApart DEF Left
  <2> DEFINE e == [proc[y] EXCEPT !.pc = "reaped"]
  <2>2. /\ proc'[x] = s /\ proc'[y] = e
        /\ \A k \in Procs : k # x /\ k # y => proc'[k] = proc[k]
    BY <1>4, <2>1 DEF LoopInv
  <2>3. /\ s.turn = r.turn /\ s.waits = r.waits + 1 /\ s.cuts = r.cuts
        /\ s.pc = IF r.waits + 1 = NForks THEN "ended" ELSE "wait"
    BY <1>1 DEF Waited, Record
  <2>4. /\ e.turn = proc[y].turn /\ e.waits = proc[y].waits /\ e.cuts = proc[y].cuts
        /\ e.pc = "reaped"
    BY <2>1 DEF LoopInv, Record
  <2> HIDE DEF r, s, e
  <2>5. Stands(x)'
    <3>1. Reaped(x)' = Reaped(x) \cup {y}
      <4>1. \A k \in Kids(x) : k \in Procs /\ k # x
        BY KidsApart
      <4> QED BY <2>1, <2>2, <2>4, <4>1 DEF Reaped, Kids
    <3>2. Cardinality(Reaped(x))' = Cardinality(Reaped(x)) + 1 /\ Cardinality(Reaped(x)) \in Nat
      <4>1. y \notin Reaped(x) /\ IsFiniteSet(Reaped(x)) /\ Cardinality(Reaped(x)) \in Nat
        BY <2>1, KidsFinite DEF Reaped
      <4> QED BY <3>1, <4>1, FS_AddElement
    <3>3. r.waits = r.cuts + Cardinality(Reaped(x))
      BY <1>1 DEF Stands, r
    <3>4. s.waits = s.cuts + Cardinality(Reaped(x))'
      BY <1>2, <2>3, <3>2, <3>3
    <3>5. \A v \in x : v <= s.turn
      BY <1>1, <2>3 DEF Stands, r
    <3>6. ASSUME NEW u \in Turns, u >= s.turn, x \cup {u} \in Kids(x)
          PROVE  proc'[x \cup {u}].pc = "none"
      <4>1. proc[x \cup {u}].pc = "none" /\ x \cup {u} \in Procs /\ x \cup {u} # x
        BY <1>1, <2>3, <3>6, KidsApart DEF Stands, r
      <4> QED BY <2>1, <2>2, <4>1
    <3>7. s.pc \in {"ended", "wait"} /\ (s.pc = "ended" => s.waits = NForks)
      BY <2>3
    <3>8. Kids(x)' = Kids(x)
      BY DEF Kids
    <3> QED BY <1>1, <2>2, <3>4, <3>5, <3>6, <3>7, <3>8 DEF Stands
  <2>6. Stands(y)'
    <3>1. \A k \in Kids(y) : k \in Procs /\ k # y /\ k # x
      <4> SUFFICES ASSUME NEW k \in Kids(y), k = x PROVE FALSE
        BY <2>1, KidsApart
      <4>1. y \subseteq k /\ k # y /\ x \subseteq y
        BY <2>1 DEF Kids
      <4>2. PICK t \in Turns : k = y \cup {t} /\ t \notin y
        BY <2>1, KidsApart
      <4> QED BY <4>1, <4>2
    <3>2. Reaped(y)' = Reaped(y) /\ Kids(y)' = Kids(y)
      BY <2>2, <3>1 DEF Reaped, Kids
    <3>3. \A u \in Turns : y \cup {u} \in Kids(y) => proc'[y \cup {u}] = proc[y \cup {u}]
      BY <2>2, <3>1
    <3>4. Stands(y)
      BY <2>1 DEF TreeInv
    <3> QED BY <1>1, <2>1, <2>2, <2>4, <3>2, <3>3, <3>4 DEF Stands
  <2>7. ASSUME NEW z \in Procs, z # x, z # y PROVE Stands(z)'
    <3>1. \A k \in Kids(z) : k # y /\ k \in Procs
      BY <2>1, <2>7, KidsUnique, KidsApart
    <3>2. s.pc \in {"ended", "wait"} /\ proc[x].pc = "wait"
      BY <1>1, <2>3 DEF r
    <3>3. \A k \in Kids(z) : /\ proc'[k].pc = "none" <=> proc[k].pc = "none"
                             /\ proc'[k].pc = "reaped" <=> proc[k].pc = "reaped"
      BY <2>2, <3>1, <3>2
    <3> QED BY <1>1, <2>2, <2>7, <3>3, StandsSame DEF TreeInv
  <2> QED BY <2>5, <2>6, <2>7 DEF TreeInv
<1> QED BY <1>3, <1>4 DEF Wait

\* An interrupted wait() is counted as such.
LEMMA SendStands ==
  ASSUME LoopInv, TreeInv, NEW x \in Procs, NEW sig \in Asks \cup {"INT"}, Send(x, sig) PROVE TreeInv'
<1> DEFINE r == proc[x]
           s == [r EXCEPT !.flags = @ \cup {sig}, !.owed = @ \cup ({sig} \cap Asks)]
           w == Waited([s EXCEPT !.cuts = @ + 1])
           k == [r EXCEPT !.pc = "killed"]
<1>1. /\ r \in Record /\ r.pc \notin {"none", "reaped", "ended"} /\ prog' = prog
      /\ \E t \in {k, s, w} : proc' = [proc EXCEPT ![x] = t] /\ (t = w => r.pc = "wait" \/ t \in {k, s})
      /\ Stands(x)
  BY DEF LoopInv, Send, Running, Ended, TreeInv
<1>2. r.turn \in Int /\ r.waits \in Nat /\ r.cuts \in Nat /\ r.turn >= r.turn
  BY <1>1, PrimesAssumption DEF Record
<1>3. k.turn = r.turn /\ k.waits = r.waits /\ k.cuts = r.cuts /\ k.pc = "killed"
  BY <1>1 DEF Record
<1>4. s.turn = r.turn /\ s.waits = r.waits /\ s.cuts = r.cuts /\ s.pc = r.pc
  BY <1>1 DEF Record
<1>5. /\ w.turn = r.turn /\ w.waits = r.waits + 1 /\ w.cuts = r.cuts + 1
      /\ w.pc = IF r.waits + 1 = NForks THEN "ended" ELSE "wait"
  BY <1>1 DEF Waited, Record
<1> HIDE DEF s, w, k
<1>6. CASE proc' = [proc EXCEPT ![x] = k]
  BY <1>1, <1>2, <1>3, <1>6, OneStands
<1>7. CASE proc' = [proc EXCEPT ![x] = s]
  BY <1>1, <1>2, <1>4, <1>7, OneStands
<1>8. CASE proc' = [proc EXCEPT ![x] = w] /\ r.pc = "wait"
  <2>1. /\ w.waits - w.cuts = r.waits - r.cuts /\ w.waits \in Nat /\ w.cuts \in Nat
        /\ w.pc \in {"ended", "wait"}
        /\ w.pc = "ended" => w.waits = NForks
    BY <1>2, <1>5
  <2> QED BY <1>1, <1>2, <1>5, <1>8, <2>1, OneStands
<1> QED BY <1>1, <1>6, <1>7, <1>8

LEMMA NextStands == ASSUME LoopInv, TreeInv, [Next]_vars PROVE TreeInv'
<1>1. CASE UNCHANGED vars
  <2> SUFFICES ASSUME NEW z \in Procs PROVE Stands(z)'
    BY DEF TreeInv
  <2>1. prog' = prog /\ proc' = proc
    BY <1>1 DEF vars
  <2> QED BY <2>1, StandsSame DEF TreeInv
<1>2. ASSUME NEW x \in Procs, NEW sig \in Asks \cup {"INT"}, Send(x, sig) PROVE TreeInv'
  BY <1>2, SendStands
<1> QED BY <1>1, <1>2, InstallStands, CountStands, SlowlyStands, RequestsStands, SummaryStands,
           ForkStands, WaitStands DEF Next

\* A process that ends has reaped all the children it forked, unless signals
\* interrupted more calls of wait() than there are turns without a child
\* (exercise-3-v2.c:171-214); for every number of turns and of signals.
THEOREM ChildrenReaped == Spec => []EndsLast
<1>1. LoopInv /\ TreeInv => EndsLast
  <2> SUFFICES ASSUME LoopInv, TreeInv, NEW x \in Procs, proc[x].pc = "ended",
                      Cardinality(Kids(x)) + proc[x].cuts <= NForks, Left(x) # {}
               PROVE  FALSE
    BY DEF EndsLast
  <2>1. /\ proc[x].waits = NForks /\ proc[x].waits = proc[x].cuts + Cardinality(Reaped(x))
    BY DEF TreeInv, Stands
  <2>2. proc[x].cuts \in Nat /\ NForks \in Nat
    BY PrimesAssumption DEF LoopInv, Record
  <2>3. /\ IsFiniteSet(Kids(x)) /\ Cardinality(Reaped(x)) \in Nat /\ Cardinality(Kids(x)) \in Nat
        /\ Reaped(x) \subseteq Kids(x)
    BY KidsFinite, FS_CardinalityType DEF Reaped
  <2>4. Cardinality(Reaped(x)) >= Cardinality(Kids(x))
    BY <2>1, <2>2, <2>3
  <2>5. Reaped(x) = Kids(x)
    BY <2>3, <2>4, FS_Subset
  <2> QED BY <2>5 DEF Left, Reaped
<1>2. LoopInv /\ TreeInv /\ [Next]_vars => TreeInv'
  BY NextStands
<1> QED BY <1>1, <1>2, InitStands, LoopInvariant, PTL DEF Spec
=============================================================================
