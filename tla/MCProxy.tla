------------------------------- MODULE MCProxy -------------------------------
(* TLC instances of Proxy: its constants are numbers, given in the .cfg files. *)
EXTENDS Proxy

=============================================================================
