---------------------------- MODULE MCSignaling ----------------------------
(* Instances of Signaling for TLC.                                         *)
EXTENDS Signaling, TLC

\* Hosts, sessions and agents are interchangeable among themselves.
NameSymmetry == Permutations(Hosts) \cup Permutations(Sessions) \cup Permutations(Agents)
=============================================================================
