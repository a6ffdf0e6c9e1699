------------------------------- MODULE PollSum -------------------------------
(***************************************************************************)
(* The sum of what many clients write to fifos of their own, read by one   *)
(* server that waits in poll(): 01-non-blocking-server-poll.c and its      *)
(* clients, 01-non-blocking-client.c.                                      *)
(*                                                                         *)
(* poll() takes one snapshot of the events of all the fifos; the scan that *)
(* follows acts on the snapshot while the clients go on writing, closing   *)
(* and being killed.                                                       *)
(***************************************************************************)
EXTENDS Integers, Sequences, FiniteSets, Folds

CONSTANTS
    NClients,   \* NCLIENTS
    MaxValue,   \* MAXVALUE
    PipeCap,    \* words a fifo holds
    MaxRuns     \* bound: times a client is started on the same fifo

ASSUME NClientsAssumption == NClients \in Nat \ {0}
ASSUME MaxValueAssumption == MaxValue \in Nat \ {0}
ASSUME PipeCapAssumption  == PipeCap \in Nat \ {0}
ASSUME MaxRunsAssumption  == MaxRuns \in Nat \ {0}

VARIABLES
    srv,        \* where the server is in main()
    cur,        \* i, the fifo the server creates or scans
    fds,        \* the fifos whose fds[i].fd is open
    revents,    \* fds[i].revents
    nclosed,    \* nclosed
    accumulator,\* accumulator
    fifo,       \* the words in fifo i
    cli,        \* where the client of fifo i is in main()
    next,       \* i in that client: the next value to write
    runs        \* history: writers that have opened fifo i

srvVars == <<srv, cur, revents, nclosed, accumulator>>
vars == <<srv, cur, fds, revents, nclosed, accumulator, fifo, cli, next, runs>>

Fifos == 1..NClients
SrvEnded == {"done", "failed", "crashed"}
CliEnded == {"finished", "killed", "sigpipe"}

Init ==
    /\ srv = "create"
    /\ cur = 1
    /\ fds = {}
    /\ revents = [i \in Fifos |-> {}]
    /\ nclosed = 0
    /\ accumulator = 0
    /\ fifo = [i \in Fifos |-> <<>>]
    /\ cli = [i \in Fifos |-> "off"]
    /\ next = [i \in Fifos |-> 1]
    /\ runs = [i \in Fifos |-> 0]
-----------------------------------------------------------------------------
(***************************************************************************)
(* The server                                                              *)
(***************************************************************************)

\* The process ends and the kernel closes the fifos; nobody reads them again.
Leave(how) ==
    /\ srv' = how
    /\ fds' = {}
    /\ fifo' = [i \in Fifos |-> <<>>]

\* unlink, mkfifo and a non-blocking open for reading of one fifo
SrvCreate ==
    /\ srv = "create"
    /\ \/ /\ fds' = fds \cup {cur}
          /\ srv' = IF cur = NClients THEN "poll" ELSE "create"
          /\ cur' = IF cur = NClients THEN cur ELSE cur + 1
          /\ UNCHANGED fifo
       \/ Leave("failed") /\ UNCHANGED cur
    /\ UNCHANGED <<revents, nclosed, accumulator, cli, next, runs>>

\* What poll() reports of fifo i: unread words, and that every process that
\* had it open for writing has closed it (not that none has opened it yet).
Events(i) ==
    {e \in {"POLLIN", "POLLHUP"} :
        \/ e = "POLLIN"  /\ fifo[i] # <<>>
        \/ e = "POLLHUP" /\ runs[i] > 0 /\ cli[i] # "writing"}

\* poll() ignores the descriptors set to -1.
SrvPoll ==
    /\ srv = "poll"
    /\ revents' = [i \in Fifos |-> IF i \in fds THEN Events(i) ELSE {}]
    /\ \E i \in Fifos : revents'[i] # {}
    /\ srv' = "read"
    /\ cur' = 1
    /\ UNCHANGED <<fds, nclosed, accumulator, fifo, cli, next, runs>>

\* The inner loop is entered for the fifos that had something to read.
Reading == cur \in fds /\ "POLLIN" \in revents[cur]

SrvRead ==
    /\ srv = "read"
    /\ Reading /\ fifo[cur] # <<>>
    /\ accumulator' = accumulator + Head(fifo[cur])
    /\ fifo' = [fifo EXCEPT ![cur] = Tail(@)]
    /\ UNCHANGED <<srv, cur, fds, revents, nclosed, cli, next, runs>>

\* Mutant: the inner loop is an `if`, one value per poll().
DryAfterOne(i) == TRUE

\* read() returns 0, or -1 with EAGAIN: the inner loop ends.
Dry(i) == fifo[i] = <<>>

\* Mutant: break instead of continue at a descriptor that is -1.
SrvStopReadingBreak ==
    /\ srv = "read"
    /\ Reading => Dry(cur)
    /\ srv' = IF cur \in fds THEN "hup" ELSE "poll"
    /\ UNCHANGED <<cur, fds, revents, nclosed, accumulator, fifo, cli, next, runs>>

SrvStopReading ==
    /\ srv = "read"
    /\ Reading => Dry(cur)
    /\ srv' = "hup"
    /\ UNCHANGED <<cur, fds, revents, nclosed, accumulator, fifo, cli, next, runs>>

\* Mutant: an empty fifo is taken for the end of the file.
HangupWhenEmpty(i) == fifo[i] = <<>>

\* Mutant: the test of POLLHUP is inside the block of POLLIN.
HangupNested(i) == {"POLLIN", "POLLHUP"} \subseteq revents[i]

Hangup(i) == "POLLHUP" \in revents[i]

GoesOn(n) == n < NClients

\* The test of POLLHUP, the end of the for loop and the test of the outer one
SrvHup ==
    /\ srv = "hup"
    /\ IF cur \in fds /\ Hangup(cur)
       THEN /\ fds' = fds \ {cur}
            /\ fifo' = [fifo EXCEPT ![cur] = <<>>]
            /\ nclosed' = nclosed + 1
       ELSE UNCHANGED <<fds, fifo, nclosed>>
    /\ srv' = CASE cur < NClients   -> "read"
                [] cur = NClients /\ GoesOn(nclosed')  -> "poll"
                [] cur = NClients /\ ~GoesOn(nclosed') -> "unlink"
    /\ cur' = IF cur < NClients THEN cur + 1 ELSE cur
    /\ UNCHANGED <<revents, accumulator, cli, next, runs>>

\* The fifos still open are closed, all are unlinked.
SrvUnlink ==
    /\ srv = "unlink"
    /\ Leave("done")
    /\ UNCHANGED <<cur, revents, nclosed, accumulator, cli, next, runs>>

\* The user interrupts the server, which handles no signal.
SrvCrash ==
    /\ srv \notin SrvEnded
    /\ Leave("crashed")
    /\ UNCHANGED <<cur, revents, nclosed, accumulator, cli, next, runs>>
-----------------------------------------------------------------------------
(***************************************************************************)
(* A client                                                                *)
(***************************************************************************)

\* open(fifo_name, O_WRONLY) returns when the server has the fifo open. Before
\* that the client exits or blocks, which nobody sees. A client that has ended
\* may be started again on the same fifo.
CliOpen(i) ==
    /\ cli[i] \in {"off"} \cup CliEnded
    /\ i \in fds
    /\ runs[i] < MaxRuns
    /\ cli' = [cli EXCEPT ![i] = "writing"]
    /\ next' = [next EXCEPT ![i] = 1]
    /\ runs' = [runs EXCEPT ![i] = @ + 1]
    /\ UNCHANGED <<srvVars, fds, fifo>>

\* Mutant: the loop makes one turn too many.
MoreByOne(n) == n <= MaxValue + 1

\* The test of the for loop
More(n) == n <= MaxValue

\* A blocking write of one value; without a reader it raises SIGPIPE.
CliWrite(i) ==
    /\ cli[i] = "writing" /\ More(next[i])
    /\ \/ /\ i \in fds /\ Len(fifo[i]) < PipeCap
          /\ fifo' = [fifo EXCEPT ![i] = Append(@, next[i])]
          /\ next' = [next EXCEPT ![i] = @ + 1]
          /\ UNCHANGED cli
       \/ /\ i \notin fds
          /\ cli' = [cli EXCEPT ![i] = "sigpipe"]
          /\ UNCHANGED <<fifo, next>>
    /\ UNCHANGED <<srvVars, fds, runs>>

CliClose(i) ==
    /\ cli[i] = "writing" /\ ~More(next[i])
    /\ cli' = [cli EXCEPT ![i] = "finished"]
    /\ UNCHANGED <<srvVars, fds, fifo, next, runs>>

\* The user interrupts the client.
CliKill(i) ==
    /\ cli[i] = "writing"
    /\ cli' = [cli EXCEPT ![i] = "killed"]
    /\ UNCHANGED <<srvVars, fds, fifo, next, runs>>
-----------------------------------------------------------------------------
SrvStep == SrvCreate \/ SrvPoll \/ SrvRead \/ SrvStopReading \/ SrvHup \/ SrvUnlink

CliStep(i) == CliWrite(i) \/ CliClose(i)

\* What the users do: nothing obliges them to.
User == SrvCrash \/ \E i \in Fifos : CliOpen(i) \/ CliKill(i)

Next == SrvStep \/ (\E i \in Fifos : CliStep(i)) \/ User

Spec == Init /\ [][Next]_vars

\* The kernel schedules every process that can run.
FairSpec == Spec /\ WF_vars(SrvStep) /\ \A i \in Fifos : WF_vars(CliStep(i))
-----------------------------------------------------------------------------
(***************************************************************************)
(* Properties                                                              *)
(***************************************************************************)

\* The sums of values 1..n, of the words of a sequence and of a function.
Triangle(n) == (n * (n + 1)) \div 2
Plus(a, b)  == a + b
Total(f, S) == MapThenFoldSet(Plus, 0, LAMBDA i : f[i], LAMBDA T : CHOOSE t \in T : TRUE, S)
Words(s)    == Total(s, DOMAIN s)

TypeOK ==
    /\ srv \in {"create", "poll", "read", "hup", "unlink"} \cup SrvEnded
    /\ cur \in Fifos
    /\ fds \subseteq Fifos
    /\ revents \in [Fifos -> SUBSET {"POLLIN", "POLLHUP"}]
    /\ nclosed \in 0..NClients
    /\ accumulator \in Nat
    /\ fifo \in [Fifos -> Seq(1..MaxValue)]
    /\ \A i \in Fifos : Len(fifo[i]) <= PipeCap
    /\ cli \in [Fifos -> {"off", "writing"} \cup CliEnded]
    /\ next \in [Fifos -> 1..(MaxValue + 1)]
    /\ runs \in [Fifos -> 0..MaxRuns]

\* Every fifo has been opened by one client at most.
OneRunEach == \A i \in Fifos : runs[i] <= 1

\* Nothing is lost and nothing is counted twice: while each fifo has one
\* client at most, what the server has added up and what is still in the fifos
\* is what the clients have written, those killed half way included
\* (01-non-blocking-server-poll.c:66-87).
Conserved ==
    OneRunEach /\ srv \notin {"failed", "crashed"} =>
        accumulator + Total([i \in Fifos |-> Words(fifo[i])], Fifos)
            = Total([i \in Fifos |-> Triangle(next[i] - 1)], Fifos)

\* The server closes a fifo that has one client only when that client has
\* come, has closed it and has been read to the end, although the events it
\* acts on may be old.
HangupIsFinal ==
    [][\A i \in fds \ fds' : srv' \notin {"failed", "crashed"} /\ runs[i] <= 1 =>
          cli[i] \in CliEnded /\ fifo[i] = <<>>]_vars

\* A first client is never cut off by SIGPIPE as long as the server lives.
NobodyCutOff ==
    srv \notin {"failed", "crashed"} =>
        \A i \in Fifos : cli[i] = "sigpipe" => runs[i] > 1

\* When every client has been started and has ended, the server ends too.
ServerReturns == (\A i \in Fifos : cli[i] \in CliEnded) ~> srv \in SrvEnded

\* A client that writes is never stuck for good on a full fifo.
ClientsEnd == \A i \in Fifos : cli[i] = "writing" ~> cli[i] \in CliEnded
-----------------------------------------------------------------------------
(***************************************************************************)
(* The inductive invariant                                                 *)
(***************************************************************************)

Alive == srv \notin {"failed", "crashed"}

\* Every fifo is open or counted in nclosed; the outer loop ends when all are
\* counted.
Accounts ==
    /\ srv = "create" => fds = 1..(cur - 1) /\ nclosed = 0
    /\ srv \in {"poll", "read", "hup", "unlink"} => nclosed + Cardinality(fds) = NClients
    /\ srv = "unlink" => nclosed = NClients

\* What POLLHUP in the snapshot says of the present, if fifo i has had one
\* client: it has ended, and the inner loop, if there was a reason to enter
\* it, has read what it left.
Snapshot(i) ==
    "POLLHUP" \in revents[i] =>
        /\ runs[i] > 0
        /\ runs[i] = 1 =>
            /\ cli[i] \in CliEnded
            /\ "POLLIN" \notin revents[i] => fifo[i] = <<>>
            /\ srv = "hup" /\ cur = i /\ i \in fds => fifo[i] = <<>>

\* A first client that is writing has a reader.
FirstClient(i) ==
    /\ cli[i] = "off" <=> runs[i] = 0
    /\ Alive /\ runs[i] = 1 =>
        /\ cli[i] # "sigpipe"
        /\ cli[i] = "writing" => i \in fds

\* Only an open fifo holds words, and only a client that came has written.
Quiet(i) ==
    /\ i \notin fds => fifo[i] = <<>>
    /\ runs[i] = 0 => next[i] = 1

\* The snapshot the server acts on is old, but what it is used for is still
\* true (01-non-blocking-server-poll.c:58-87).
ScanInv == Accounts /\ \A i \in Fifos : Snapshot(i) /\ FirstClient(i) /\ Quiet(i)
=============================================================================
