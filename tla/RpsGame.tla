------------------------------ MODULE RpsGame -------------------------------
(***************************************************************************)
(* What a rock-paper-scissors match promises, whatever carries it: two     *)
(* players put one hand each on the table, the referee looks at both hands *)
(* at once and gives at most one point, to the hand that beats the other,  *)
(* and the match is never played past the winning score.                   *)
(*                                                                         *)
(* Signals, pipes, registration and crashes are details of the programs    *)
(* that implement it.                                                      *)
(***************************************************************************)
EXTENDS Integers

CONSTANTS
    WinScore,   \* points that end the match
    None        \* no hand on the table yet

VARIABLES
    table,      \* the hand of each player in the round in progress
    score,      \* points of each player
    over        \* the referee has announced the outcome, or is gone

gameVars == <<table, score, over>>

Seat == {1, 2}
Hand == {0, 1, 2}                       \* rock, paper, scissors

\* The reference rule: every hand beats the one before it in the cycle
\* rock -> paper -> scissors -> rock.
Beats(h, k) == (h - k) % 3 = 1

GameInit ==
    /\ table = [s \in Seat |-> None]
    /\ score = [s \in Seat |-> 0]
    /\ over = FALSE

\* A player shows a hand, once per round. A hand may still fall on the
\* table when the referee has gone.
Show(s) ==
    /\ table[s] = None
    /\ \E h \in Hand : table' = [table EXCEPT ![s] = h]
    /\ UNCHANGED <<score, over>>

\* The referee judges the two hands together and clears the table.
Judge ==
    /\ ~over
    /\ \A s \in Seat : table[s] # None /\ score[s] < WinScore
    /\ score' = [s \in Seat |->
                   IF Beats(table[s], table[3 - s]) THEN score[s] + 1 ELSE score[s]]
    /\ table' = [s \in Seat |-> None]
    /\ over' = (\E s \in Seat : score'[s] = WinScore)

\* The referee may stop at any time (a player vanished, the referee died).
Stop ==
    /\ ~over
    /\ over' = TRUE
    /\ UNCHANGED <<table, score>>

GameNext == (\E s \in Seat : Show(s)) \/ Judge \/ Stop

GameSpec == GameInit /\ [][GameNext]_gameVars
=============================================================================
