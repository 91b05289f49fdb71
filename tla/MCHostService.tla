--------------------------- MODULE MCHostService ---------------------------
(* Instances of HostService for TLC.                                       *)
EXTENDS HostService, TLC

\* Hosts are interchangeable: no definition singles one out.
HostSymmetry == Permutations(Hosts)
=============================================================================
