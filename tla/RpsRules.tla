------------------------------ MODULE RpsRules ------------------------------
(***************************************************************************)
(* The rules of rock, paper, scissors as both rps programs code them: the  *)
(* same three moves and three results appear in my_rps.c and in            *)
(* mkfifo-client-02.c / mkfifo-server-02.c.                                 *)
(***************************************************************************)
EXTENDS Integers

ROCK     == 0
PAPER    == 1
SCISSORS == 2
Moves    == {ROCK, PAPER, SCISSORS}

LOST    == 0
WON     == 1
TIE     == 2
Results == {LOST, WON, TIE}

Players  == {1, 2}
Other(p) == 3 - p

\* Mutant: the three tests have my move and his the wrong way round.
WinningSwapped == {<<SCISSORS, ROCK>>, <<ROCK, PAPER>>, <<PAPER, SCISSORS>>}

\* The pairs <<mine, his>> for which the code answers WON.
Winning == {<<ROCK, SCISSORS>>, <<PAPER, ROCK>>, <<SCISSORS, PAPER>>}

\* Mutant: the test for scissors against paper is missing.
CheckWinnerTwoTests(mine, his) ==
    IF mine = his THEN TIE
    ELSE IF <<mine, his>> \in {<<ROCK, SCISSORS>>, <<PAPER, ROCK>>} THEN WON ELSE LOST

\* check_rps_winner (mkfifo-client-02.c), check_my_result (my_rps.c)
CheckWinner(mine, his) ==
    IF mine = his THEN TIE
    ELSE IF <<mine, his>> \in Winning THEN WON ELSE LOST
=============================================================================
