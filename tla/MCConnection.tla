---------------------------- MODULE MCConnection ----------------------------
(* Instance of Connection for TLC.                                         *)
EXTENDS Connection

\* The agent's fill remoteIceCh of capacity one and find it full.
MCMaxIce == [p \in Peers |-> IF p = "agent" THEN 2 ELSE 1]
=============================================================================
