----------------------------- MODULE MCPollSum ------------------------------
(* PollSum on small instances: the .cfg files give the constants.          *)
EXTENDS PollSum
=============================================================================
