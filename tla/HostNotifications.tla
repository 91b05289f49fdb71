------------------------- MODULE HostNotifications --------------------------
(***************************************************************************)
(* What the host registry (src/server/host.go) promises: a host is told of *)
(* offers one by one, never of more than were announced while it was       *)
(* known, and a notification is given up only when the host cannot be      *)
(* reached or SigCap others are already waiting for it.  HostService       *)
(* implements this.                                                        *)
(***************************************************************************)
EXTENDS Naturals

CONSTANTS Hosts, SigCap

VARIABLES
  known,     \* hosts the registry announces offers to
  reachable, \* hosts that have not gone away
  pending,   \* notifications on their way, per host
  told       \* notifications each host received

vars == <<known, reachable, pending, told>>

Init ==
  /\ known = {}
  /\ reachable = Hosts
  /\ pending = [h \in Hosts |-> 0]
  /\ told = [h \in Hosts |-> 0]

Register(h) ==
  /\ known' = known \cup {h}
  /\ UNCHANGED <<reachable, pending, told>>

\* An offer for an unknown host is ignored.
Announce(h) ==
  /\ h \in known
  /\ pending' = [pending EXCEPT ![h] = @ + 1]
  /\ UNCHANGED <<known, reachable, told>>

\* One notification less is on its way.
Taken(h) ==
  /\ pending[h] > 0
  /\ pending' = [pending EXCEPT ![h] = @ - 1]
  /\ UNCHANGED <<known, reachable>>

Tell(h) ==
  /\ h \in reachable
  /\ Taken(h)
  /\ told' = [told EXCEPT ![h] = @ + 1]

GiveUp(h) ==
  /\ h \notin reachable \/ pending[h] > SigCap
  /\ Taken(h)
  /\ UNCHANGED told

Forget(h) ==
  /\ known' = known \ {h}
  /\ UNCHANGED <<reachable, pending, told>>

GoAway(h) ==
  /\ reachable' = reachable \ {h}
  /\ UNCHANGED <<known, pending, told>>

Next ==
  \E h \in Hosts :
    Register(h) \/ Announce(h) \/ Tell(h) \/ GiveUp(h) \/ Forget(h) \/ GoAway(h)

Spec == Init /\ [][Next]_vars
=============================================================================
