--------------------------- MODULE ShmUpperProofs ---------------------------
(***************************************************************************)
(* Theorems about ShmUpper, for every set of lines, every function on them *)
(* and any number of interruptions: the two programs hand one token to and *)
(* fro, and what they do at the terminal is what Converter says.           *)
(***************************************************************************)
EXTENDS ShmUpper, TLAPS

Inv == TypeOK /\ Token

\* The initial states satisfy the invariant.
LEMMA InitInv == Init => Inv
<1> SUFFICES ASSUME Init PROVE Inv
  OBVIOUS
<1>1. TypeOK
  <2>1. pend \in [Procs -> SUBSET Signals] /\ got \in [Procs -> SUBSET Signals]
    BY DEF Init
  <2>2. \A x \in Procs : pend[x] = {} /\ got[x] = {}
    BY DEF Init
  <2>3. ints \in 0..MaxInt
    BY ShmAssumption DEF Init
  <2> QED BY <2>1, <2>2, <2>3 DEF Init, TypeOK, Promise!Init, ParStates, ChildStates, Procs
<1>2. ~Asked /\ ~Told /\ ~Busy
  BY DEF Init, Asked, Told, Busy, Procs
<1>3. Token
  BY <1>2 DEF Init, Promise!Init, Token, HandOver, Procs
<1> QED BY <1>1, <1>3 DEF Inv

\* The steps of the parent that touch neither the memory nor a signal.
LEMMA ParentMoves ==
  ASSUME Inv, ParBegin \/ ParTest \/ ParWait PROVE Inv'
<1>1. CASE ParBegin
  BY <1>1 DEF Inv, TypeOK, Token, HandOver, Asked, Told, Busy, LineReady, AnswerReady,
     ParBegin, ParGoes, mem, sigs, term, ParStates, ChildStates
<1>2. CASE ParTest
  BY <1>2 DEF Inv, TypeOK, Token, HandOver, Asked, Told, Busy, LineReady, AnswerReady,
     ParTest, ParGoes, mem, sigs, term, ParStates, ChildStates
<1>3. CASE ParWait
  BY <1>3 DEF Inv, TypeOK, Token, HandOver, Asked, Told, Busy, LineReady, AnswerReady,
     ParWait, mem, sigs, term, ParStates, ChildStates
<1> QED BY <1>1, <1>2, <1>3

\* The parent takes a line, fills the memory, prints the answer.
LEMMA ParentData ==
  ASSUME Inv, ParRead \/ ParReadNothing \/ ParCopy \/ ParShow PROVE Inv'
<1>1. ASSUME NEW l \in Lines, ParTakes(l), eof' \in BOOLEAN PROVE Inv'
  BY <1>1, ShmAssumption DEF Inv, TypeOK, Token, HandOver, Asked, Told, Busy, LineReady, AnswerReady,
     ParTakes, ParGoes, mem, sigs, term, ParStates, ChildStates
<1>2. CASE ParRead
  BY <1>1, <1>2 DEF ParRead, Inv, TypeOK
<1>3. CASE ParReadNothing
  BY <1>1, <1>3 DEF ParReadNothing, Inv, TypeOK
<1>4. CASE ParCopy
  BY <1>4, ShmAssumption DEF Inv, TypeOK, Token, HandOver, Asked, Told, Busy, LineReady, AnswerReady,
     ParCopy, ParGoes, mem, sigs, term, ParStates, ChildStates
<1>5. CASE ParShow
  BY <1>5, ShmAssumption DEF Inv, TypeOK, Token, HandOver, Asked, Told, Busy, LineReady, AnswerReady,
     ParShow, ParGoes, mem, sigs, term, ParStates, ChildStates
<1> QED BY <1>2, <1>3, <1>4, <1>5

\* The parent sends SIGUSR1 or SIGINT, or takes notice of SIGUSR2.
LEMMA ParentSignals ==
  ASSUME Inv, ParKill \/ ParCheck \/ ParStop PROVE Inv'
<1>1. CASE ParKill
  BY <1>1 DEF Inv, TypeOK, Token, HandOver, Asked, Told, Busy, LineReady, AnswerReady,
     ParKill, Kill, Ended, ParGoes, mem, sigs, term, ParStates, ChildStates, Procs, Signals
<1>2. CASE ParCheck
  <2>1. TypeOK'
    BY <1>2 DEF Inv, TypeOK, ParCheck, ParGoes, mem, term, ParStates, Procs, Signals
  <2>2. CASE "INT" \in got["parent"]
    BY <1>2, <2>1, <2>2 DEF Inv, Token, HandOver, Asked, Told, Busy, LineReady, AnswerReady,
       ParCheck, ParGoes, mem, term
  <2>3. CASE "INT" \notin got["parent"]
    <3>1. "USR2" \in got["parent"] /\ Told /\ AnswerReady
      BY <1>2, <2>3 DEF Inv, TypeOK, Token, Told, ParCheck, ParGoes, Procs, Signals
    <3>2. ~Told'
      <4>1. "USR2" \notin pend["parent"]
        BY <3>1 DEF Inv, Token
      <4>2. "USR2" \notin got'["parent"] /\ pend' = pend
        BY <1>2, <2>3 DEF Inv, TypeOK, ParCheck, ParGoes, Procs
      <4> QED BY <4>1, <4>2 DEF Told
    <3>3. par' = IF prog = "status" THEN "show" ELSE "prompt"
      BY <1>2, <2>3, <3>1 DEF Inv, TypeOK, AnswerReady, ParCheck, ParGoes
    <3>4. (Asked' <=> Asked) /\ (Busy' <=> Busy) /\ (AnswerReady' <=> AnswerReady)
      BY <1>2, <2>3, <3>3 DEF Inv, TypeOK, Asked, Busy, AnswerReady, ParCheck, ParGoes,
         mem, term, Procs
    <3>5. ~Asked /\ ~Busy
      BY <3>1 DEF Inv, Token
    <3>6. HandOver'
      BY <1>2, <3>1, <3>2, <3>3, <3>4, <3>5 DEF HandOver, AnswerReady, ParCheck, ParGoes, mem
    <3>7. UNCHANGED <<prog, child, buf, line, mem, pend, term>> /\ par' \in {"show", "prompt"}
          /\ got' = [got EXCEPT !["parent"] = @ \ {"USR2"}] /\ got \in [Procs -> SUBSET Signals]
      BY <1>2, <2>3, <3>3 DEF ParCheck, ParGoes, Inv, TypeOK
    <3>8. par' = "prompt" => request = None /\ status = "EMPTY" /\ line # None /\ printed = Upper[line]
      BY <3>1, <3>3, ShmAssumption DEF Inv, TypeOK, AnswerReady
    <3>9. Token'
      <4>1. /\ "USR1" \notin (pend["child"] \cap got["child"])'
            /\ "USR2" \notin (pend["parent"] \cap got["parent"])'
            /\ child' = "check" => got'["child"] # {}
        BY <1>2, <3>7 DEF Inv, Token, ParCheck, Procs
      <4>2. ~(par' = "kill" \/ Asked' \/ child' \in {"load", "store"}) /\ ~Told' /\ child' # "reply"
        BY <3>2, <3>4, <3>5, <3>7 DEF Busy
      <4>3. request' # None => request' = line'
        BY <3>7 DEF Inv, Token, term
      <4> QED BY <3>1, <3>2, <3>3, <3>4, <3>5, <3>6, <3>7, <3>8, <4>1, <4>2, <4>3 DEF Token, mem, term
    <3> QED BY <2>1, <3>9 DEF Inv
  <2> QED BY <2>2, <2>3
<1>3. CASE ParStop
  BY <1>3 DEF Inv, TypeOK, Token, HandOver, Asked, Told, Busy, LineReady, AnswerReady,
     ParStop, Kill, Ended, ParGoes, mem, sigs, term, ParStates, ChildStates, Procs, Signals
<1> QED BY <1>1, <1>2, <1>3

\* The steps of the child.
LEMMA ChildMoves ==
  ASSUME Inv,
         ChildInstall \/ ChildTest \/ ChildCheck \/ ChildLoad \/ ChildStore \/ ChildReply
  PROVE  Inv'
<1>1. CASE ChildInstall
  BY <1>1 DEF Inv, TypeOK, Token, HandOver, Asked, Told, Busy, LineReady, AnswerReady,
     ChildInstall, ChildGoes, mem, sigs, term, ParStates, ChildStates
<1>2. CASE ChildTest
  BY <1>2 DEF Inv, TypeOK, Token, HandOver, Asked, Told, Busy, LineReady, AnswerReady,
     ChildTest, ChildGoes, mem, sigs, term, ParStates, ChildStates
<1>3. CASE ChildCheck
  BY <1>3 DEF Inv, TypeOK, Token, HandOver, Asked, Told, Busy, LineReady, AnswerReady,
     ChildCheck, ChildGoes, mem, sigs, term, ParStates, ChildStates, Procs, Signals
<1>4. CASE ChildLoad
  BY <1>4 DEF Inv, TypeOK, Token, HandOver, Asked, Told, Busy, LineReady, AnswerReady,
     ChildLoad, ChildGoes, mem, sigs, term, ParStates, ChildStates
<1>5. CASE ChildStore
  BY <1>5, ShmAssumption DEF Inv, TypeOK, Token, HandOver, Asked, Told, Busy, LineReady, AnswerReady,
     ChildStore, ChildGoes, mem, sigs, term, ParStates, ChildStates
<1>6. CASE ChildReply
  BY <1>6 DEF Inv, TypeOK, Token, HandOver, Asked, Told, Busy, LineReady, AnswerReady,
     ChildReply, Kill, Ended, ChildGoes, mem, sigs, term, ParStates, ChildStates, Procs, Signals
<1> QED BY <1>1, <1>2, <1>3, <1>4, <1>5, <1>6

\* A signal that is sent from outside or handled moves the token at most from
\* a pending signal to its flag.
LEMMA SignalMoves ==
  ASSUME Inv, Interrupt \/ (\E x \in Procs, sig \in Signals : Deliver(x, sig)) PROVE Inv'
<1>1. CASE Interrupt
  BY <1>1, ShmAssumption DEF Inv, TypeOK, Token, HandOver, Asked, Told, Busy, LineReady, AnswerReady,
     Interrupt, Ended, mem, sigs, term, ParStates, ChildStates, Procs, Signals
<1>2. ASSUME NEW x \in Procs, NEW sig \in Signals, Deliver(x, sig), Die(x, sig) PROVE Inv'
  BY <1>2 DEF Inv, TypeOK, Token, HandOver, Asked, Told, Busy, LineReady, AnswerReady,
     Deliver, Die, NoHandler, Ended, mem, sigs, term, ParStates, ChildStates, Procs, Signals
<1>3. ASSUME NEW sig \in Signals, Deliver("parent", sig), Handle("parent", sig) PROVE Inv'
  BY <1>3 DEF Inv, TypeOK, Token, HandOver, Asked, Told, Busy, LineReady, AnswerReady,
     Deliver, Handle, NoHandler, Ended, mem, sigs, term, ParStates, ChildStates, Procs, Signals
<1>4. ASSUME NEW sig \in Signals, Deliver("child", sig), Handle("child", sig) PROVE Inv'
  BY <1>4 DEF Inv, TypeOK, Token, HandOver, Asked, Told, Busy, LineReady, AnswerReady,
     Deliver, Handle, NoHandler, Ended, mem, sigs, term, ParStates, ChildStates, Procs, Signals
<1> QED BY <1>1, <1>2, <1>3, <1>4 DEF Deliver, Procs

\* Nothing happens.
LEMMA Stutter == ASSUME Inv, UNCHANGED vars PROVE Inv'
  BY DEF Inv, TypeOK, Token, HandOver, Asked, Told, Busy, LineReady, AnswerReady, vars, mem, sigs, term

\* For every set of lines and any number of interruptions the memory and the
\* signals carry one token: nobody touches the memory out of turn
\* (01-shm-template-to-upper.c:87 and 127, 02-shm-to-upper.c:99-111, 147-175).
THEOREM TokenAlways == Spec => []Inv
<1>1. Inv /\ [Next]_vars => Inv'
  BY ParentMoves, ParentData, ParentSignals, ChildMoves, SignalMoves, Stutter
     DEF Next, ParStep, ChildStep, User, Procs
<1> QED BY InitInv, <1>1, PTL DEF Spec

\* The token invariant, as the run checks it.
THEOREM OneToken == Spec => []Token
<1>1. Inv => Token
  BY DEF Inv
<1> QED BY TokenAlways, <1>1, PTL

\* A step of the programs that touches the terminal is a step of Converter: a
\* line is typed, or the input has ended and the string is as it was, so that
\* the next answer is the last one again.
LEMMA TerminalStep ==
  ASSUME Inv, Next PROVE Promise!Next \/ UNCHANGED Promise!vars
<1>1. CASE ParRead
  BY <1>1 DEF Inv, Token, ParRead, ParTakes, ParGoes, Promise!Next, Promise!Ask, Promise!vars
<1>2. CASE ParReadNothing
  <2>1. PICK l \in IF line = None THEN Lines ELSE {line} : ParTakes(l) /\ eof' = TRUE
    BY <1>2 DEF ParReadNothing
  <2>2. request = None /\ (printed # None => printed = Upper[l]) /\ l \in Lines
    BY <2>1 DEF Inv, TypeOK, Token, ParTakes, ParGoes
  <2>3. CASE par' = "copy"
    BY <2>1, <2>2, <2>3 DEF ParTakes, Promise!Next, Promise!Repeat
  <2>4. CASE par' # "copy"
    BY <2>1, <2>4 DEF ParTakes, Promise!Next, Promise!EndOfInput
  <2> QED BY <2>3, <2>4
<1>3. CASE ParShow
  BY <1>3, ShmAssumption DEF Inv, Token, ParShow, ParGoes, AnswerReady, Promise!Next, Promise!Answer
<1>4. CASE ChildStore
  BY <1>4, ShmAssumption
     DEF Inv, Token, ChildStore, ChildGoes, LineReady, term, Promise!Next, Promise!Answer, Promise!vars
<1>5. CASE ~ParRead /\ ~ParReadNothing /\ ~ParShow /\ ~ChildStore
  <2>1. UNCHANGED term
    BY <1>5 DEF Next, ParStep, ChildStep, User, ParBegin, ParCopy, ParKill, ParTest, ParCheck,
       ParStop, ParWait, ChildInstall, ChildTest, ChildCheck, ChildLoad, ChildReply, Deliver, Interrupt
  <2> QED BY <2>1 DEF term, Promise!vars
<1> QED BY <1>1, <1>2, <1>3, <1>4, <1>5

\* Both programs implement Converter: until the input ends, every line typed
\* is answered by its own upper case, none twice and none out of turn; after
\* that they repeat the last answer (01-shm-template-to-upper.c:116-127,
\* 02-shm-to-upper.c:136-175).
THEOREM Implements == Spec => ConverterSpec
<1>1. Init => Promise!Init
  BY DEF Init
<1>2. Inv /\ [Next]_vars => [Promise!Next]_(Promise!vars)
  BY TerminalStep DEF vars, term, Promise!vars
<1> QED BY TokenAlways, <1>1, <1>2, PTL DEF Spec, ConverterSpec, Promise!Spec
=============================================================================
