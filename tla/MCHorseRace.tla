----------------------------- MODULE MCHorseRace ----------------------------
(* HorseRace on small instances: the .cfg files give the constants.        *)
EXTENDS HorseRace
=============================================================================
