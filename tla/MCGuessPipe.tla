----------------------------- MODULE MCGuessPipe ----------------------------
(* GuessPipe on small instances: the .cfg files give the constants.        *)
EXTENDS GuessPipe
=============================================================================
