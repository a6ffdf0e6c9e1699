------------------------------ MODULE ShmUpper ------------------------------
(***************************************************************************)
(* A parent hands lines to its child through anonymous shared memory and   *)
(* the two take turns by signals: SIGUSR1 "there is a line", SIGUSR2 "it   *)
(* has been converted", SIGINT "stop".  The module covers both versions:   *)
(*   "template"  01-shm-template-to-upper.c: the child prints the result;  *)
(*   "status"    02-shm-to-upper.c: a status word says what the memory     *)
(*               holds, and the parent prints the result.                  *)
(* Standard signals do not queue: pend is a set.  Both programs wait in a  *)
(* loop  while (!flag && !sigint_received) pause();  its test ("test") and *)
(* the call of pause() ("gap") are separate steps, a signal may be handled *)
(* between them.                                                           *)
(***************************************************************************)
EXTENDS Naturals

CONSTANTS Lines, Upper, None,   \* as in Converter
    MaxInt      \* bound: how often somebody sends SIGINT

ASSUME ShmAssumption == Upper \in [Lines -> Lines] /\ None \notin Lines /\ MaxInt \in Nat

VARIABLES
    prog,       \* which of the two programs is running
    par,        \* where the parent is
    line,       \* its string, filled by fgets
    child,      \* where the child is
    buf,        \* its string
    input,      \* the shared memory, or shm->input
    output,     \* shm->output
    status,     \* shm->status
    pend,       \* signals sent to a process and not delivered yet
    got,        \* the flags sigusr1_received, sigusr2_received, sigint_received
    ints,       \* SIGINTs sent from outside
    request,    \* history: the line under way, until its answer is printed
    printed,    \* the last answer on the terminal
    eof         \* stdin has reached its end, where it stays

mem   == <<input, output, status>>
term  == <<request, printed, eof>>
sigs  == <<pend, got, ints>>
vars  == <<prog, par, line, child, buf, mem, sigs, term>>

\* The abstract specification, with the variables of the same names.
Promise == INSTANCE Converter

Procs == {"parent", "child"}
Signals == {"USR1", "USR2", "INT"}
ParStates == {"usr2", "int", "prompt", "read", "copy", "kill", "test", "gap", "paused", "check",
              "show", "stop", "wait", "waitpid", "done", "killed"}
ChildStates == {"usr1", "int", "test", "gap", "paused", "check", "load", "store", "reply",
                "exited", "killed", "reaped"}
Ended(x) == IF x = "parent" THEN par \in {"done", "killed"}
                            ELSE child \in {"exited", "killed", "reaped"}
-----------------------------------------------------------------------------
\* The memory is mapped, the buffers are empty strings and fork() has returned.
Init ==
    /\ prog \in {"template", "status"}
    /\ par = "usr2" /\ child = "usr1"
    /\ line = None /\ buf = None
    /\ input = None /\ output = None /\ status = "EMPTY"
    /\ pend = [x \in Procs |-> {}]
    /\ got = [x \in Procs |-> {}]
    /\ ints = 0
    /\ Promise!Init

\* kill(): nothing happens to a process that has ended.
Kill(x, sig) ==
    pend' = IF Ended(x) THEN pend ELSE [pend EXCEPT ![x] = @ \cup {sig}]
-----------------------------------------------------------------------------
(***************************************************************************)
(* The parent                                                              *)
(***************************************************************************)
ParGoes(from, to) == par = from /\ par' = to /\ UNCHANGED <<prog, child, buf>>

\* The two handlers, then the prompt; fgets waits for a line from "read" on.
ParBegin ==
    /\ ParGoes("usr2", "int") \/ ParGoes("int", "prompt") \/ ParGoes("prompt", "read")
    /\ UNCHANGED <<line, mem, sigs, term>>

\* fgets has returned and the string is l. The flag may have been set before
\* fgets was entered.
ParTakes(l) ==
    /\ ParGoes("read", IF "INT" \in got["parent"] THEN "stop" ELSE "copy")
    /\ line' = l
    /\ request' = IF par' = "copy" THEN l ELSE request
    /\ UNCHANGED <<mem, sigs, printed>>

\* The user types a line.
ParRead ==
    /\ ~eof
    /\ \E l \in Lines : ParTakes(l)
    /\ UNCHANGED eof

\* At end of file fgets returns NULL, which nobody looks at, and leaves the
\* string as it is: the last line, or, if there was none, memory that was
\* never written, hence any line.
ParReadNothing ==
    /\ eof' = TRUE
    /\ \E l \in IF line = None THEN Lines ELSE {line} : ParTakes(l)

\* Mutant: the status word is forgotten.
ParCopyNoStatus ==
    /\ ParGoes("copy", "kill")
    /\ input' = line
    /\ UNCHANGED <<line, output, status, sigs, term>>

\* In "status" the line is dropped unless the buffer is EMPTY.
ParCopy ==
    /\ ParGoes("copy", "kill")
    /\ input'  = IF status = "EMPTY" THEN line ELSE input
    /\ status' = IF prog = "status" /\ status = "EMPTY" THEN "DATA_READY" ELSE status
    /\ UNCHANGED <<line, output, sigs, term>>

ParKill ==
    /\ ParGoes("kill", "test")
    /\ Kill("child", "USR1")
    /\ UNCHANGED <<line, mem, got, ints, term>>

ParTest ==
    /\ \/ ParGoes("test", IF got["parent"] = {} THEN "gap" ELSE "check")
       \/ ParGoes("gap", "paused")
    /\ UNCHANGED <<line, mem, sigs, term>>

\* Mutant: sigusr2_received is not cleared.
ParCheckKeep ==
    /\ ParGoes("check", IF "INT" \in got["parent"] THEN "stop"
                        ELSE IF status = "RESULT_READY" THEN "show" ELSE "prompt")
    /\ UNCHANGED <<line, mem, sigs, term>>

ParCheck ==
    /\ ParGoes("check", IF "INT" \in got["parent"] THEN "stop"
                        ELSE IF status = "RESULT_READY" THEN "show" ELSE "prompt")
    /\ got' = IF par' = "stop" THEN got ELSE [got EXCEPT !["parent"] = @ \ {"USR2"}]
    /\ UNCHANGED <<line, mem, pend, ints, term>>

\* Mutant: the status is not set back to EMPTY.
ParShowKeep ==
    /\ ParGoes("show", "prompt")
    /\ printed' = output /\ request' = None /\ UNCHANGED eof
    /\ input' = None /\ output' = None
    /\ UNCHANGED <<line, status, sigs>>

\* "status" only: the parent prints the result and resets the buffer.
ParShow ==
    /\ ParGoes("show", "prompt")
    /\ printed' = output /\ request' = None /\ UNCHANGED eof
    /\ input' = None /\ output' = None /\ status' = "EMPTY"
    /\ UNCHANGED <<line, sigs>>

\* Mutant: the parent waits without telling the child to stop.
ParStopQuiet ==
    /\ ParGoes("stop", "wait")
    /\ UNCHANGED <<line, mem, sigs, term>>

ParStop ==
    /\ ParGoes("stop", "wait")
    /\ Kill("child", "INT")
    /\ UNCHANGED <<line, mem, got, ints, term>>

\* wait(NULL), and waitpid() after a wait() that a handler has interrupted.
\* After a successful wait() the second call fails at once.
ParWait ==
    /\ par \in {"wait", "waitpid"} /\ child \in {"exited", "killed"}
    /\ par' = "done" /\ child' = "reaped"
    /\ UNCHANGED <<prog, line, buf, mem, sigs, term>>
-----------------------------------------------------------------------------
(***************************************************************************)
(* The child                                                               *)
(***************************************************************************)
ChildGoes(from, to) == child = from /\ child' = to /\ UNCHANGED <<prog, par, line>>

ChildInstall ==
    /\ ChildGoes("usr1", "int") \/ ChildGoes("int", "test")
    /\ UNCHANGED <<buf, mem, sigs, term>>

ChildTest ==
    /\ \/ ChildGoes("test", IF got["child"] = {} THEN "gap" ELSE "check")
       \/ ChildGoes("gap", "paused")
    /\ UNCHANGED <<buf, mem, sigs, term>>

ChildCheck ==
    /\ ChildGoes("check", IF "INT" \in got["child"] THEN "exited"
                          ELSE IF status = "DATA_READY" \/ prog = "template" THEN "load"
                          ELSE "reply")
    /\ got' = IF child' = "exited" THEN got ELSE [got EXCEPT !["child"] = @ \ {"USR1"}]
    /\ UNCHANGED <<buf, mem, pend, ints, term>>

ChildLoad ==
    /\ ChildGoes("load", "store")
    /\ buf' = input
    /\ UNCHANGED <<mem, sigs, term>>

\* The result goes to the terminal, or to the output buffer and the status.
ChildStore ==
    /\ ChildGoes("store", "reply")
    /\ buf' = Upper[buf]
    /\ \/ prog = "template" /\ printed' = buf' /\ request' = None /\ UNCHANGED <<mem, eof>>
       \/ prog = "status" /\ output' = buf' /\ status' = "RESULT_READY"
                          /\ UNCHANGED <<input, term>>
    /\ UNCHANGED sigs

\* kill(getppid(), SIGUSR2)
ChildReply ==
    /\ ChildGoes("reply", "test")
    /\ Kill("parent", "USR2")
    /\ UNCHANGED <<buf, mem, got, ints, term>>
-----------------------------------------------------------------------------
(***************************************************************************)
(* Signals                                                                 *)
(***************************************************************************)
\* Before the handler is installed a signal kills the process.
NoHandler(x, sig) ==
    LET at == IF x = "parent" THEN par ELSE child
    IN  at \in {"usr1", "usr2"} \/ (at = "int" /\ sig = "INT")

Die(x, sig) ==
    /\ NoHandler(x, sig)
    /\ pend' = [pend EXCEPT ![x] = {}]
    /\ par'   = IF x = "parent" THEN "killed" ELSE par
    /\ child' = IF x = "child" THEN "killed" ELSE child
    /\ UNCHANGED got

\* pause() returns; fgets, wait() and waitpid() fail with EINTR (no SA_RESTART).
Handle(x, sig) ==
    /\ ~NoHandler(x, sig)
    /\ pend' = [pend EXCEPT ![x] = @ \ {sig}]
    /\ got' = [got EXCEPT ![x] = @ \cup {sig}]
    /\ child' = IF x = "child" /\ child = "paused" THEN "test" ELSE child
    /\ par' = IF x = "child" THEN par
              ELSE CASE par = "paused"  -> "test"
                     [] par = "read"    -> "stop"
                     [] par = "wait"    -> "waitpid"
                     [] par = "waitpid" -> "done"
                     [] OTHER           -> par

Deliver(x, sig) ==
    /\ sig \in pend[x] /\ ~Ended(x)
    /\ Die(x, sig) \/ Handle(x, sig)
    /\ UNCHANGED <<prog, line, buf, mem, ints, term>>

\* Ctrl-C reaches both processes, kill -INT only one.
Interrupt ==
    /\ ints < MaxInt
    /\ ints' = ints + 1
    /\ \E S \in SUBSET Procs \ {{}} :
          pend' = [x \in Procs |-> IF x \in S /\ ~Ended(x)
                                   THEN pend[x] \cup {"INT"} ELSE pend[x]]
    /\ UNCHANGED <<prog, par, line, child, buf, mem, got, term>>
-----------------------------------------------------------------------------
ParStep ==
    \/ ParBegin \/ (eof /\ ParReadNothing) \/ ParCopy \/ ParKill \/ ParTest \/ ParCheck \/ ParShow
    \/ ParStop \/ ParWait
    \/ \E sig \in Signals : Deliver("parent", sig)

ChildStep ==
    \/ ChildInstall \/ ChildTest \/ ChildCheck \/ ChildLoad \/ ChildStore \/ ChildReply
    \/ \E sig \in Signals : Deliver("child", sig)

\* The user types a line, or ends the input, or interrupts; or not.
User == ParRead \/ ParReadNothing \/ Interrupt

Next == ParStep \/ ChildStep \/ User

\* The kernel schedules both processes.
Spec == Init /\ [][Next]_vars /\ WF_vars(ParStep) /\ WF_vars(ChildStep)
-----------------------------------------------------------------------------
(***************************************************************************)
(* Properties                                                              *)
(***************************************************************************)
\* The types. Each process gets only the signals the other one sends it.
TypeOK ==
    /\ prog \in {"template", "status"}
    /\ par \in ParStates /\ child \in ChildStates
    /\ {line, buf, input, output, request, printed} \subseteq Lines \cup {None}
    /\ status \in {"EMPTY", "DATA_READY", "RESULT_READY"}
    /\ pend \in [Procs -> SUBSET Signals] /\ got \in [Procs -> SUBSET Signals]
    /\ "USR1" \notin pend["parent"] \cup got["parent"]
    /\ "USR2" \notin pend["child"] \cup got["child"]
    /\ ints \in 0..MaxInt
    /\ eof \in BOOLEAN

\* While the input lasts, the line that is printed next is the line that was
\* typed last, in upper case: none is dropped, answered twice or answered with
\* an older one, whatever the order of the signals (02-shm-to-upper.c:147-175).
\* When the input has ended, the same answer is printed again and again
\* (01-shm-template-to-upper.c:121, 02-shm-to-upper.c:141).
ConverterSpec == Promise!Spec

\* The request and the answer under way
Asked == "USR1" \in pend["child"] \cup got["child"]
Told  == "USR2" \in pend["parent"] \cup got["parent"]
Busy  == child \in {"load", "store", "reply"}

\* While the parent fills, prints or resets the memory the child is not
\* between its copies, and no request or answer is under way: the signals pass
\* the memory to and fro, there is no lock (02-shm-to-upper.c:147, 99).
HandOver ==
    par \in {"usr2", "int", "prompt", "read", "copy", "kill", "show"} =>
        /\ ~Asked /\ ~Busy /\ ~Told
        /\ par \in {"prompt", "read", "copy"} => status = "EMPTY"

\* The line is in the memory; the answer is there, or has been printed.
LineReady ==
    /\ request \in Lines /\ input = request
    /\ status = IF prog = "template" THEN "EMPTY" ELSE "DATA_READY"
AnswerReady ==
    /\ line \in Lines
    /\ IF prog = "template" THEN request = None /\ printed = Upper[line] /\ status = "EMPTY"
       ELSE request \in Lines /\ output = Upper[request] /\ status = "RESULT_READY"

\* The inductive invariant: there is one token, a line or its answer, and what
\* the memory holds depends on where it is.
Token ==
    /\ HandOver
    /\ ~(Asked /\ Busy) /\ ~(Asked /\ Told) /\ ~(Busy /\ Told)
    /\ "USR1" \notin pend["child"] \cap got["child"]
    /\ "USR2" \notin pend["parent"] \cap got["parent"]
    /\ par = "check" => got["parent"] # {}
    /\ child = "check" => got["child"] # {}
    /\ par \in {"usr2", "int", "prompt", "read"} =>
          /\ request = None /\ status = "EMPTY"
          /\ printed = IF line = None THEN None ELSE Upper[line]
    /\ request # None => request = line
    /\ par = "copy" => request \in Lines
    /\ par = "kill" \/ Asked \/ child \in {"load", "store"} => LineReady
    /\ child = "store" => buf = request
    /\ child = "reply" \/ Told => AnswerReady
    /\ par = "show" => AnswerReady /\ prog = "status"

\* A handler ran between the test of the flags and pause(), and nothing else
\* is on its way to wake the process up.
LostWakeup ==
    \/ par = "paused" /\ got["parent"] # {} /\ pend["parent"] = {}
    \/ child = "paused" /\ got["child"] # {} /\ pend["child"] = {}

\* Unless somebody interrupts, a wake-up is lost or SIGUSR1 kills the child
\* that has no handler yet, every line is answered.
Answered ==
    []~LostWakeup =>
        (request # None ~> request = None \/ ints > 0 \/ child = "killed")

\* Unless a wake-up is lost, the parent that stops makes both processes end,
\* even when wait() is interrupted by the child's last answer.
StopEnds == []~LostWakeup => (par = "stop" ~> \A x \in Procs : Ended(x))
=============================================================================
