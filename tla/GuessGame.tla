----------------------------- MODULE GuessGame ------------------------------
(***************************************************************************)
(* What a guess race promises, whatever carries it: in each round a secret *)
(* is drawn, two contestants guess it, and the referee, who looks at both  *)
(* guesses together, gives a point to each contestant whose guess is at    *)
(* least as close as the other's. The race is never run past the winning   *)
(* score.                                                                  *)
(***************************************************************************)
EXTENDS Integers

CONSTANTS
    WinScore,   \* points that end the race
    MaxRand,    \* secrets and guesses are 1..MaxRand
    None        \* no guess yet

VARIABLES
    secret,     \* the number drawn for the round in progress
    table,      \* the guess of each contestant in this round
    score,      \* points of each contestant
    over        \* the referee has left the race

gameVars == <<secret, table, score, over>>

Seat  == {1, 2}
Gap(s) == IF table[s] < secret THEN secret - table[s] ELSE table[s] - secret

GameInit ==
    /\ secret = None
    /\ table = [s \in Seat |-> None]
    /\ score = [s \in Seat |-> 0]
    /\ over = FALSE

\* A number is drawn before anybody guesses.
Draw ==
    /\ ~over /\ secret = None
    /\ \A s \in Seat : table[s] = None /\ score[s] < WinScore
    /\ secret' \in 1..MaxRand
    /\ UNCHANGED <<table, score, over>>

\* A contestant guesses once per round; guesses made when the referee has
\* left do not matter.
Guess(s) ==
    /\ table[s] = None
    /\ secret # None \/ over
    /\ \E g \in 1..MaxRand : table' = [table EXCEPT ![s] = g]
    /\ UNCHANGED <<secret, score, over>>

Judge ==
    /\ ~over
    /\ \A s \in Seat : table[s] # None
    /\ score' = [s \in Seat |-> IF Gap(s) <= Gap(3 - s) THEN score[s] + 1 ELSE score[s]]
    /\ secret' = None
    /\ table' = [s \in Seat |-> None]
    /\ UNCHANGED over

\* The referee may leave at any time.
Leave ==
    /\ ~over
    /\ over' = TRUE
    /\ UNCHANGED <<secret, table, score>>

GameNext == Draw \/ (\E s \in Seat : Guess(s)) \/ Judge \/ Leave

GameSpec == GameInit /\ [][GameNext]_gameVars
=============================================================================
