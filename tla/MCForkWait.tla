----------------------------- MODULE MCForkWait ------------------------------
(* ForkWait on small instances: the .cfg file gives the constants.          *)
EXTENDS ForkWait
=============================================================================
