----------------------------- MODULE MCRpsFifo ------------------------------
(* RpsFifo on small instances: the .cfg files give the constants.          *)
EXTENDS RpsFifo
=============================================================================
