----------------------------- MODULE MCRpsPipes -----------------------------
(* RpsPipes on small instances: the .cfg files give the constants.         *)
EXTENDS RpsPipes
=============================================================================
