# Specifications of the operating-systems exercises

The repository is a set of small, separate programs: C programs that play with
processes, signals, shared memory, pipes, fifos, sockets and poll(), and shell
scripts. Nearly all of what can go wrong in them comes from the order in which
several processes run, from signals, and from processes that end at an awkward
moment. The modules of this directory model these programs in TLA+, check them
with TLC on small instances, and prove some of their invariants with TLAPS for
every value of the constants.

Paths below are relative to `src/c-programming` unless they start with
`unix-shell`.

## 1. Inventory

| Component | Sources | State | Operations | Status |
|---|---|---|---|---|
| Rock-paper-scissors over fifos | `05-pipe-named-pipe/exercises/mkfifo-server-02.c`, `mkfifo-client-02.c` | pids, results, scores; four fifos; the flags of two signals in each client | register, signal a round, send and read a move, report, judge, terminate, close | modelled: `RpsFifo` |
| Rock-paper-scissors over pipes | `05-.../my_rps.c` | scores, results; four pipes and who holds which end; flags, handlers | fork, close, install a handler, signal, play, report, score, terminate, wait | modelled: `RpsPipes` |
| Guess race over a socket | `06-socket/exercises/01-guess-race-socket-server.c`, `-client.c` | sockets, backlog, streams of words, socket file, scores, secret, messages | listen, accept, exchange of pids, start, guess, result, final result, kill, clean up | modelled: `GuessSocket` |
| Sum with poll() | `07-file-control/exercises/01-non-blocking-server-poll.c`, `01-non-blocking-client.c` | descriptors, events, accumulator, fifos | create, poll, read, hang-up, unlink; open, write, close | modelled: `PollSum` |
| Upper case through shared memory | `04-shm-pipe/exercises/01-shm-template-to-upper.c`, `02-shm-to-upper.c` | a buffer and a status word in shared memory, three flags in each process | read a line, publish, signal, convert, answer, end | modelled: `ShmUpper` |
| Guess race over pipes | `04-.../04-pipe-guess-race.c` | scores, two messages, a flag | signal, guess, read, score, wait | modelled: `GuessPipe` |
| Horse races | `03-signals/exercises/race_rr.c`, `race_rand.c` | positions, running or stopped, reaped | continue, stop, move, reap | modelled: `HorseRace` |
| Prime counters | `03-.../exercise-3.c`, `exercise-3-v2.c`, `warmup.c` | counters, flags; a tree of processes and their ranges | count, answer a signal, fork, wait | modelled: `Primes` |
| Fork exercises | `01-fork/exercises/*.c` | children, exit statuses | fork, exit, be killed, wait, be adopted | modelled: `ForkWait` |
| Renaming utility, tab cleaner | `unix-shell/03-shell/.../renaming-utility.sh`, `unix-shell/05-shell/.../data-tab-cleaner.sh` | the files of a directory | rename, rewrite | not modelled (section 6) |
| Progress bar, centered rectangle | `unix-shell/03-shell/.../progress-bar.sh`, `unix-shell/04-shell/.../centered-rectangle.sh` | none: arithmetic on the arguments | | not modelled (section 6) |
| System reports, log and text filters, first scripts | the other shell scripts | none of their own | pipelines of external tools | not modelled |

How the parts interact: the programs do not call one another, only a server and
its clients do, through fifos or a socket and through signals. Inside a program
parent and children share pipe ends (inherited by fork), anonymous shared
memory, signals and exit statuses. The two rock-paper-scissors programs use the
same rules, which are in `RpsRules`.

What is hard, and what makes each component correct:

* **Signals and pause().** Every game wakes its players with a signal and lets
  them sleep in `pause()`. A signal that is handled outside `pause()` only sets
  a flag. Correct: a round that was opened is played, a player that was told to
  end ends. It is not so in both rock-paper-scissors programs (section 5).
* **Rounds.** The processes run at different speeds and a round takes a dozen
  steps of three processes. Correct: a result belongs to the round it is
  counted in; no message is left over; one signal buys one round.
* **Ends.** A process may be killed, may die of SIGPIPE or of a signal it has
  no handler for yet, or may return early. Correct: nobody waits for ever,
  nothing is lost that was written, children are reaped, clients are told to
  end, files are removed.
* **Streams.** Fifos and sockets carry messages of different lengths without
  frames. Correct: what is read as a message was written as that message.
* **Hand-over without a lock.** Shared memory is passed to and fro by two
  signals. Correct: each side touches it only when it is its turn.
* **Requests at any moment.** SIGUSR1 and SIGUSR2 ask for counters that the loop
  is just changing. Correct: an answer is true, a request is not forgotten.
* **Snapshots.** `poll()` reports what was true when it returned. Correct: a
  fifo is closed only when nothing will be written to it and nothing is unread.

`PROJECT.json` lists every hazard at its line with the properties that cover it.

## 2. Modules

| Module | Role |
|---|---|
| `RpsRules` | the moves, the results and `CheckWinner`, shared by both programs |
| `RpsGame` | abstract: two hands on a table, a referee that gives at most one point per round |
| `RpsFifo` | the server and two clients over fifos; implements `RpsGame` |
| `RpsFifoProofs` | theorems about `RpsFifo`, with the refinement |
| `RpsPipes` | `my_rps.c` |
| `RpsPipesProofs` | theorems about `RpsPipes` |
| `GuessGame` | abstract: a secret, two guesses, a referee |
| `GuessSocket` | the socket server and its clients; implements `GuessGame` |
| `GuessSocketProofs` | theorems about `GuessSocket`, with the refinement |
| `PollSum` | the poll() server and its clients |
| `PollSumProofs` | theorems about `PollSum` |
| `Converter` | abstract: a line is typed, its upper case is printed; at the end of the input the last answer is repeated |
| `ShmUpper` | the two upper-case programs; implements `Converter` |
| `ShmUpperProofs` | theorems about `ShmUpper`, with the refinement |
| `GuessPipe` | `04-pipe-guess-race.c` |
| `GuessPipeProofs` | theorems about `GuessPipe` |
| `HorseRace` | the two race programs |
| `Primes` | the two prime counters and `warmup.c` |
| `PrimesProofs` | theorems about `Primes` |
| `ForkWait` | `highest_random.c`, `orphan_process.c`, `zombieland.c` |
| `ForkReapProofs` | theorems about `HorseRace` and `ForkWait` |
| `MC...` | the modules TLC is run on; the constants are in the `.cfg` files |

Conventions: one variable for "where the process is in main()" (`srv`, `par`,
`cli`, `child`), one action per step another process can tell from its
neighbours, that is per system call that matters, with the local computation
that follows it. Output, logging and the wording of messages are left out. The
user is a process without fairness: pressing ENTER, starting and killing
processes may happen and need not. Definitions that begin with "Mutant" in
their comment are deliberately wrong variants of the definition that follows
them; no specification uses them, they serve to see a property fail.

### RpsFifo

`srv` walks through `main()` of the server: `setup`, `reg1`, `reg2` (the two
reads of a pid), `prompt`, `kill1`, `kill2`, `read1`, `read2`, `judge`, and
`term1`, `term2`, `close` after the loop. `cli[p]` walks through the client:
`register`, then `top` (about to call `pause()`), `paused`, `check` (the tests
after `pause()`), `send`, `recv`, `report`.

* The fifos to the server are sequences of 4-byte words, because a `pid_t` and a
  `ResultMsg` share them: after a restart the server reads a pid as the first
  word of a result. The fifos between clients carry one kind of message, so a
  move stands for a message.
* A signal is pending (`pend`) until `Deliver` runs its handler, between any
  two steps. The handler interrupts `pause()` and a `read()` that waits; there
  is no `SA_RESTART`.
* A fifo that nobody has open loses its contents (`Retain`); a `read()` returns
  0 when no writer is left, a `write()` without a reader kills the writer.
* `CliCrash` kills a client, which may be started again with a new pid.

Not in the model: opening a fifo that has no server (the client exits or
blocks, unseen by the others), a second server on the same fifos, reuse of
pids, and partial writes of a few bytes, which pipes do not make.

### RpsPipes

Every process has a set of pipe ends (`fds`). `fork()` copies the set of the
parent, the `close()` calls shrink it, the end of a process empties it;
whether `read()` blocks, returns data or returns 0, and whether `write()`
raises SIGPIPE, follows from who holds what. A child has no handler at
`forked`, only that of SIGUSR1 at `usr1`; a signal that arrives there kills it.
The results of `read()` that the code ignores are modelled by what follows:
the message keeps its old contents or holds anything (`Garbage` stands for a
word that is neither a move nor a result). The parent (`ParKilled`) and each
child (`ChildKilled`) may be killed from outside at any step; Ctrl-C, which
reaches the whole group, is one after the other. The failure of `pipe()` before
there is any child is not modelled.

### GuessSocket

A connection is a stream of words in each direction (`up`, `down`); `StartMsg`,
`GuessMsg` and a pid are one word, a `ResultMsg` is three, and a reader takes
as many words as it expects. `SrvWrite` and `SrvReadWord` are `write_full` and
`read_full` with their error paths; `CleanupServer` is `cleanup_server`. Memory
that was never written is the value `Uninit`; testing it may go either way. A
write to a client that has gone kills the server with SIGPIPE, or takes the
error path when SIGPIPE was ignored by the shell that started it (`noPipeSig`):
both are runs of this program. `SrvSetup` has three outcomes: the server listens;
`bind()` or `listen()` fails and `cleanup_server` runs; or `socket()` fails and
`main()` returns without it (`noSocket`), so that the file a killed server has left
stays. `SrvAcceptFails` is `accept()` returning -1, in either call and at any time; like
what the users do it has no fairness. `NClients` clients exist, the first two that
connect play, the others wait in the backlog. `open` says that the server
has its descriptors, `file` that the socket file exists.

Not in the model: a second server on the same path, and a client started
before the server listens (it returns at once).

### PollSum

`SrvPoll` stores the events of all open fifos in `revents`, `SrvRead`,
`SrvStopReading` and `SrvHup` scan them in order while clients write, close and
are killed. A fifo reports POLLHUP only after some writer has had it open.
`runs[i]` counts the writers of fifo `i`: a client may be started again after it
has ended, even while its hang-up is waiting in the snapshot. Two writers on
one fifo at the same time are not modelled.

### ShmUpper

One module for both programs: `prog` says which one runs. `pend` holds the
signals that were sent and not handled yet, at most one of a kind, `got` the
three flags. The loop `while (!flag && !sigint_received) pause();` is two steps,
`test` and `gap`, because a signal that is handled between the test and `pause()`
is lost. At the end of the input `fgets` returns NULL, which the code does not look
at (`ParReadNothing`): it goes on with the string as it is, the last line, or any
line if none was ever read, and `eof` stays, since the stream remembers it. (The
string is declared in the body of the loop; it has the same place on the stack in
each turn and nothing else is put there.) `request` is the line under way,
typed or not. `Interrupt` is Ctrl-C (both processes) or
`kill -INT` (one), at most `MaxInt` times. The copies to and from the memory are
separate steps of the child (`load`, `store`), so that the parent could change it
in between. A SIGUSR1 that finds no handler kills the child.

Not in the model: the lengths of the strings, and the size given to `mmap`
(`02-shm-to-upper.c:62`), which is less than that of the structure; the rounding
to whole pages makes up for it.

### GuessPipe

A child leaves after one round and the parent plays until somebody has
`WIN_SCORE` points; its later reads return 0 and leave the message as it was. A
message that was never read is anything (`Garbage`). Which reads block follows
from the write ends: both children hold both of them (`WriterLeft`). `my_random`
returns 1 to max + 1 (`MyRandom`). A round in which child 2 is closer gives no
point to anybody: there is no branch for it (lines 102-107).

### HorseRace

One module for both schedulers (`sched`). A horse stops itself before each move,
so that SIGCONT may arrive before the stop and be lost, and SIGSTOP before the
move. SIGSTOP and SIGCONT act at once. `lane` is the loop variable and the
lucky horse; `Reap` is a successful `waitpid(WNOHANG)`, which in `race_rr.c` is
tried for the lane whose turn it is and in `race_rand.c` for all lanes after
each slice. `first` is a history variable. The picture on the screen is not
modelled.

### Primes

One module for the three programs (`prog`). Every process is one record. In the
tree a process is named by the set of fork turns it and its ancestors were born
in: a child does not leave the fork loop after its numbers but goes on with the
next turn, so that there may be 2^NFORKS processes. A handler only sets a flag,
hence `Send` is both the signal and its handler; a signal to a process without
the handler kills it; one that interrupts a `wait()` uses up one of its calls
(`cuts`). `handle_received_signals` is four steps, because a signal may arrive
between the test of a flag, its reset and the answer. `Slow` are the numbers
whose division loop is long enough to look at the flags. `seen` and `owed` are
history variables: the numbers that were worked through, the requests that have
no answer yet. Arguments for which the arithmetic of the tree overflows a long
are left out of `Init`, the outcome being undefined; that the loop itself does
not overflow is an invariant.

### ForkWait

One module for the three programs of `01-fork` (`prog`): they share the fork loop,
and the two that wait share that loop. A child may be killed before it exits; it
then has the status `Killed`, for which WIFEXITED is false. Sleeps take any time,
so that the children of `orphan_process.c` may also end before their parent; what
adopts them (init) reaps them (`Adopt`). The names of the parent's side
(`FamilySpec`, `ForkChild`, `ReapChild`, ...) are chosen so that one module of
theorems, `ForkReapProofs`, can extend both this module and `HorseRace`.

## 3. Runs

| Run | Question | Bounds |
|---|---|---|
| `fifo` | is every round played with its own moves, whoever is killed and restarted; is nobody called a cheat; is it a game of rock-paper-scissors (`RpsGame`); do rounds end and clients leave? | 2 points, 2 incarnations of each client |
| `pipes` | are the results those of this round as long as no child has died; do rounds end and are children reaped? | 2 points |
| `socket` | streams in step, scores agreed, everything cleaned up once there is a socket, refinement of `GuessGame`; do rounds end and clients leave however the server ends? | 2 clients, 2 points, numbers 1..2 |
| `poll` | is every word counted exactly once; does the server end, do writers get through? | 2 fifos of 2 words, 3 values, 2 runs of each client |
| `shm` | do the signals pass the memory like a token, is it a `Converter` before and after the end of the input, are lines answered, do both processes end after SIGINT? | 4 lines, 2 SIGINTs |
| `guess_pipe` | what does a parent judge whose children have left; who can win; when does the game end? | numbers 1..4, 3 points |
| `horses` | does one horse move at a time, is the winner the first to end, does the race end? | 3 horses, 2 steps of track, moves 0..2 |
| `primes` | are the counters true at any moment, are requests kept, does the loop stop at LONG_MAX, do parents outlive their children? | 3 forks, LONG_MAX = 9, ranges 0..5, -1..3 and 7..9; 3 signals, 1 in the tree |
| `forks` | is the highest number announced, whichever children are killed, in whatever order; is every child reaped? | 3 children, numbers 0..2 |

The runs `fifo_lost_start`, `socket_start_flag` and `primes_ranges` of section 5
end in a counterexample.

Why the bounds are enough. The games have exactly two players. Two points are
needed to have a round after a scored round and a final round; there are
arbitrarily many rounds, because ties do not end the match. Two incarnations let
a client die before or after the server has read its pid and meet the messages
of its predecessor. With numbers 1..2 both players, one of them, or neither is as
close as the other. In `PollSum` fifos shorter than what a client writes make
the writer block, and three values let a fifo be filled, drained and refilled
within one snapshot; two fifos let one be busy while the other waits. Two
SIGINTs let one stop the parent and another interrupt its `wait()`; four lines
let an answer be wrong by being an older one or by not being converted. With two
clients of the socket server one may be left in the backlog when the server ends
before its second `accept()`; a third client, which would be left there by a whole
race, makes the run too long for TLC, and the theorems are about any number. In
`HorseRace` three lanes let a horse end between two others in the order of the
scan, and the largest move is longer than what may be left of the track. In `Primes` three forks give
eight processes in four generations, ranges that divide evenly and that do not,
and one that ends at the largest number; the divisors of 9 make the division
loop matter. One signal is enough in the tree for the copied flags and an
interrupted `wait()`.

`CHECK_DEADLOCK FALSE` is used throughout since every program ends, and since
the users may stop doing anything.

Type invariants are checked where they say more than a shape: scores never
pass the winning score, fifos to the server never hold anything but pids and
results, clients never write a value above MAXVALUE, no horse runs past the end
of the track, no number passes LONG_MAX. Elsewhere they do not: those of
`ShmUpper`, `GuessPipe`, `ForkWait`, `GuessSocket` and `RpsPipes` are proved as part
of the inductive invariants.

**Fairness.** Weak fairness of each process: the kernel schedules a process
that can run, and delivers pending signals. No fairness for the users, and none
for the choice between failure and success of a call. `HorseRace` needs strong
fairness for the horses, whose steps are disabled by SIGSTOP again and again: a
horse that gets slice after slice runs in one of them (the slices last
milliseconds), `random()` does not return 0 for ever, and it picks every lane
again and again. The liveness properties of the programs that use `pause()` are
conditional on no wake-up being lost; without this condition they are false,
which `fifo_lost_start` of section 5 shows. The socket, poll and race programs
need no such condition. `Primes` has no liveness property: all its loops are
counted ones.

## 4. Proofs

`RpsFifoProofs` holds, for every `WinScore`, every number of restarts and
every number of rounds:

* `TypeCorrect`: `TypeOK`, and no player has `WinScore` points while the match
  is on (`ScoreInv`). The second part is what makes the first inductive: a score
  is only raised in `SrvJudge`, which is only reached with smaller scores.
* `RoundsInStep`: `RoundInv`. It says for each client, in terms of where the
  server is, where the client may be, which signals and flags it may have, and
  what exactly its two fifos hold: `Registering` before its pid is read,
  `Waiting` between rounds, `Playing` in a round, `Exchange` for the moves. It
  is inductive together with the types: one lemma per action, and under it one
  step per conjunct.
* `NeverAccused`: `NoFalseAccusation`. At `judge` both clients have reported,
  so both results were computed from the same two hands (`Exchange`), and
  `CheckWinnerPair` says that they are complementary.
* `FifosInStep`: `OneMessageInFlight`, read off `RoundInv`.

The last three are about matches in which no process is killed (`NoCrash`);
they are proved of the whole specification, in which processes may be killed.
The next three hold whoever is killed and however often clients are restarted:

* `RestartsInStep`: `RestartInv`, a second inductive invariant. `RoundInv` ties the
  place of the server to that of the clients and is of no use once a client has
  been replaced; `RestartInv` follows what is passed around instead. `Acquainted`:
  the server knows the pid of the client that runs now, or of a dead one, and
  pids only grow. `OneToken`: SIGUSR1 is pending, then in the flag, then spent on
  one move. `OneMove`: a move in a fifo is that of this round. `OneResult`: a word
  the server reads as a result is the result of the hands on the table, or it is
  the pid of a client that was restarted.
* `PlayedInRound`: `PlaysThisRound`, and `PlaysGame`: `GameSpec`, the refinement of
  `RpsGame`. A hand is laid on the table by `CliSend`, the table is cleared and the
  point given by `SrvJudge`; `OneResult` says that the point is the one the two
  hands are worth, or that a pid was read: then the server accuses and stops.

`RpsPipesProofs` holds, for every `WinScore`:

* `RoundsInStep`: `PipesInv`, the inductive invariant. `Round` says for each place of
  the parent where a child may be: not called (`Idle`), called but not yet playing
  (`Called`: SIGUSR1 is pending, then in the flag, then spent), with a move in the
  pipe of its brother or waiting for one (`Playing`, `InPipe`), or back in `pause()`
  with its result in the pipe of the parent (`Finished`). It is claimed while nobody
  has died, but the pipe ends (`Inheritance`) are claimed always: since a living child
  holds the write ends it needs, no `read()` of a round returns 0, and whatever
  ends a child leaves a cause, so that a death cannot pass unnoticed. A signal that
  interrupts `read()` would be a second SIGUSR1 or a SIGTERM, and there is none in a
  round.
* `TypesKept`: `TypeOK`; a point is given below `WIN_SCORE` (`Births`).
* `ScoredThisRound`: `ResultsOfThisRound`, the case of `Round` at `score`.

`PollSumProofs` holds, for any number of clients and values, any size of the
fifos and any number of runs:

* `TypeCorrect`: `TypeOK`, together with the account of the descriptors: what is
  open and what is closed add up to `NCLIENTS`.
* `SnapshotHolds`: `ScanInv`, the inductive invariant. `Accounts` counts the
  descriptors; `Snapshot` relates the old events to the present: if POLLHUP is
  in the snapshot of a fifo that had one client, that client has ended, and if
  POLLIN is not, or the inner loop has run, nothing is left to read;
  `FirstClient` says that a first client that is writing has a reader.
* `NothingLost`: `Conserved`. A read moves the head of a fifo to the accumulator, a
  write adds a word to a fifo and to what was written; a fifo that is emptied by
  closing it was empty (`Snapshot`), and one that is not open is (`Quiet`), so that
  nothing is lost at the end either. The sums are folds of a recursive function,
  out of reach of the induction theorems of the library; the lemmas about them
  (`FoldWorks`, `TotalPick`, `TotalRemove`, `TotalGrows`, `WordsAppend`,
  `WordsTail`) take the smallest counterexample instead, which exists by `Least`
  and `LeastSet`.
* `NobodyCutOffAlways`: `NobodyCutOff`, and `HangupsAreFinal`: `HangupIsFinal`.
  Both follow from `ScanInv`: the snapshot is old, but it does not go stale in
  these respects. `HangupIsFinal` alone is not inductive, because it is about
  the step that closes and says nothing of the events that led to it.

`GuessSocketProofs` holds, for any number of clients, range of numbers and winning
score:

* `RaceGoesWell`: `RaceInv`, the inductive invariant. For each place of the server
  `PlayerInv` says which of four phases each player is in, and what is then in
  its two streams: `Waiting` for its pid to be read, `AtRest` with the result of the
  last round (read or not), `Asked` for a number, `Answered`. After the race
  `Ending` follows the last message while the client reads it word by word as
  start flags (`Parting`). `Acquaintance` keeps the two players and the backlog
  apart, `Service` is about sockets, file and SIGTERM, `Rounds` about secret,
  scores and messages. Until something fails the phases do not depend on
  who has died: a dead client has only stopped reading and writing.
* `TypesKept`: `TypeOK`; `PromptInStep`: `InStep`; `StreamsFramed`: `Framing`;
  `WinnerHearsIt`: `WinnerNeverToldLose`; `CleansUp`: `ReturnCleansUp`, which is about
  every return but the one of line 128, where there is no socket yet. Each is
  read off `RaceInv`; none is inductive alone. `WinnerNeverToldLose` is about a
  client that reads its final message word by word as start flags: WON, which is
  0, then its own score, then the other's. A flag that happens to be 1 makes it
  guess and overwrite its result with the words that are left. Of a winner that is
  nothing, or the single word 0, which is WON again; and the result it has from
  the last round is WON or TIE, since it scored in it (`Kept`).
* `PlaysGame`: `GameSpec`, the refinement of `GuessGame`: the secret is drawn by
  `SrvPrompt`, a guess is laid on the table by the client that sends it and stays
  there until `SrvJudge`; by `Answered` the guesses judged are those on the table.

`ShmUpperProofs` holds, for any set of lines and any number of SIGINTs:

* `OneToken`: `Token`, with `TypeOK`, is inductive. There is one token, which is
  a place of the parent, a SIGUSR1, a place of the child or a SIGUSR2; for each
  of them `Token` says what the memory holds. `HandOver`, the part one would
  state first, does not know why a signal is not under way, so it is not
  inductive alone.
* `Implements`: every step of both programs is a step of `Converter` or a
  stutter; the line that is printed is the one typed last because the token is
  in the hands of the one that prints. That after the end of the input the
  same answer comes again needs the last conjuncts of `Token`: at a prompt what was
  printed last is the upper case of the string the parent still has.

`GuessPipeProofs` holds, for any range of numbers and winning score:

* `GuessesJudged`: `JudgesGuesses`, by `Message`: where a message is (not written,
  in its pipe, read) for every place of the parent and the child. A read returns
  0 only when both children have left, and by then both messages are in the
  pipes or have been read, unless a child was killed.
* `SecondNeverLeads`: `NeverLeads`, by `Verdicts`: the verdict is a function of
  the messages, which never change once they are read.

`PrimesProofs` holds, for any ranges, number of forks, largest number and number
of signals:

* `LoopInvariant`: `LoopInv`, one conjunct for the loop over the numbers (`Loop`),
  one for the fork loop (`Growing`), one for the requests (`Remembered`).
  `Growing` bounds `interval` by the turn, since n starts from it in a child and
  must not pass LONG_MAX (`IntervalFits`).
* `TypeCorrect`: `TypeOK`, and `RequestsKept`: `NoRequestLost`.
* `CountersTrue`: `Counts`. `CountersInv` says of each process that the number of
  its prime numbers is that of the primes in `seen`, and the last one the last
  of them, at every step of the loop and of the handling of a request;
  `IsPrimeCorrect` is about the division loop, which stops at n / 2.
* `ChildrenReaped`: `EndsLast`. `TreeInv` counts: each return of `wait()` has reaped a
  child or was an interruption, and the children of turns to come do not exist;
  ten returns with fewer interruptions than turns without a child leave nobody.

`ForkReapProofs` holds, of `HorseRace`, for any number of horses, both
schedulers, and any length of the track:

* `TypeCorrect`: `TypeOK`, and `OneHorseAtATime`: `OneAtATime`.
* `RightWinner`: `WinnerFirst`. `Ranking` orders the lanes by when the parent will
  look at them next (`Key`): until the first horse to end has been reaped, every
  other one that has ended comes later. In `race_rand.c` there is only one such
  horse (`OneZombie`). `Counted` ties `still_running` to the number of horses that
  have not been reaped.

and of `ForkWait`, for any number of children and any numbers:

* `ReapedCounted`: the loop variable counts the children that have been reaped
  (`Standing`), so that all have been when the loop is left.
* `Highest`: `HighestIsRight`, since max is the highest of the reaped ones.

Assumptions used: those named in the modules (`WinScore` and `MaxInc` positive,
and so on), which TLC evaluates in every run.

What is only model-checked: the liveness properties of all runs, which rest on
fairness and on ENABLED and are out of reach of the prover. What holds of the
counterexamples of section 5 is shown by TLC alone. Where a theorem needs
induction over data, as the sums of `PollSum` do, it goes by the smallest
counterexample, since the induction theorems of the library take an operator as
a parameter, which the provers cannot instantiate.

## 5. Where the code does not do what it says

Three runs end in a counterexample:

* `fifo_lost_start`: "server uses SIGUSR1 to start a round"
  (`mkfifo-client-02.c:85`). If the signal is handled after the client has
  registered, or has reported, and before it is in `pause()`, the client sleeps
  and everybody waits. The usual cure is to block the signal and use
  `sigsuspend()`.
  The same window loses SIGTERM ("server uses SIGTERM to end the game",
  line 87), which follows the last report without any pause: the client then
  outlives the server, and `ClientsLeave` must except it.
* `socket_start_flag`: `StartMsg.start` "can be 0 or 1"
  (`01-guess-race-socket-client.c:20`). The final `ResultMsg` is read as three
  start flags; a result LOSE, which is 1, starts a round that does not exist.
* `primes_ranges`: "Factoring numbers from %ld to %ld" (`exercise-3-v2.c:133`). A
  child loops from the start of its range to the length of the range instead of
  its end (line 186), so most children factor nothing.

Others are visible in the modules and in what their properties have to except:

* `my_rps.c:188` "Parent uses SIGUSR1 to start each round": the parent does not
  wait for the children to install their handlers, and the signal kills a child
  that has none (line 201). `04-pipe-guess-race.c` and the template of the
  upper-case exercise have the same window.
* `my_rps.c:228` "check who wins this round and update game state": the two
  `break`s after a failed read are commented out (line 212), so a message that
  was never sent in this round is scored. `ResultsOfThisRound` holds only while
  no child has died.
* `01-guess-race-socket-server.c:207` "First to %d points wins.": a client prints
  the result of its last round as the result of the game, so both may print
  that they win.
* `01-guess-race-socket-server.c:83` says `cleanup_server` is to "remove socket file":
  the return of line 128, when `socket()` fails, comes before the `unlink()` of line
  131 and without `cleanup_server()`, so that a file left by a killed server stays.
  `ReturnCleansUp` is about the returns that follow.
* `02-shm-to-upper.c:139` "read user input" and line 146 "copy user input into
  shared memory" (the template: lines 119 and 126): the result of `fgets` is not
  checked. At the end of the input the parent does not stop; the last line, which
  nobody has typed again, or a string that was never written, is converted and
  printed without end, until SIGINT. `Converter` has an action of its own for it
  (`Repeat`).
* `04-pipe-guess-race.c:94` "Parent reads the message of every child": the
  children leave after the first round (line 71); from the second on the parent
  reads nothing and judges the old messages again. `GameEnds` says what comes of
  it: the first round decides, and with child 2 closer the game never ends.
* `04-pipe-guess-race.c:19`: `my_random` returns 1 to max + 1, where the comments
  say 1 to max.
* `exercise-3-v2.c`: a child does not exit after its numbers and forks children
  of its own; the ten calls of `wait()` are used up by signals, so that a parent
  may end before its children (`EndsLast` excepts it).
* `warmup.c`: a request is answered with i before it is incremented, one less
  than the iterations that have been done.

## 6. Not modelled

* Of the fork exercises the lines the children print, with the two PPIDs of an
  orphan, and the length of the sleeps.
* `renaming-utility.sh` and `data-tab-cleaner.sh`: one sequential loop over the
  files of a directory; all of it is what `sed` and `mv` do to strings.
* `progress-bar.sh` and `centered-rectangle.sh`: layout of characters, computed
  once from the arguments.
* The system reports, the log and text filters and the first scripts: pipelines
  of external tools without state of their own.
* A race with a third client in the run of TLC (section 3).
* A second server on the same socket file or fifos, a server started again among
  the clients of a dead one, pids used again, overflow in the arithmetic on the
  arguments of `exercise-3-v2.c`.

## 7. Plan

The programs with concurrency are modelled, and every safety and action property
of the runs, and every refinement, is a theorem; the liveness properties stay with
TLC. What could follow: the game of `RpsGame` as a refinement of `RpsPipes` too, as
long as nobody dies, and the partition of a range by the tree of
`exercise-3-v2.c`, once the code computes the bounds it prints.
