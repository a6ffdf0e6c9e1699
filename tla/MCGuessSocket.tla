--------------------------- MODULE MCGuessSocket ----------------------------
(* GuessSocket on small instances: the .cfg files give the constants.      *)
EXTENDS GuessSocket
=============================================================================
