-------------------------- MODULE PeerConnections ---------------------------
(***************************************************************************)
(* The WebRTC peer connections of a listener and its agent, as far as      *)
(* peerConnAbstract of src/client/webrtc_abstract.go shows them.  The      *)
(* library behind it is external: a peer gathers candidates once its local *)
(* description is set, and takes the other's only once its remote one is.  *)
(* Candidates are counted: what they say plays no part.                    *)
(***************************************************************************)
EXTENDS Naturals, Messages

CONSTANTS MaxIce  \* bound: candidates each peer gathers

Peers == {"listener", "agent"}

ASSUME MaxIceAssumption == MaxIce \in [Peers -> Nat]

VARIABLES
  hasLocal,  \* peers whose SetLocalDescription returned without error
  hasRemote, \* peers whose SetRemoteDescription did
  gathered,  \* candidates each peer gathered
  added,     \* peers that added a candidate of the other
  link       \* "new", "connected", "failed", or "lost": connected, then failed

pcVars == <<hasLocal, hasRemote, gathered, added, link>>

PeersTypeOK ==
  /\ hasLocal \in SUBSET Peers
  /\ hasRemote \in SUBSET Peers
  /\ gathered \in [Peers -> Nat] /\ \A p \in Peers : gathered[p] <= MaxIce[p]
  /\ added \in SUBSET Peers
  /\ link \in {"new", "connected", "failed", "lost"}

PeersInit ==
  /\ hasLocal = {}
  /\ hasRemote = {}
  /\ gathered = [p \in Peers |-> 0]
  /\ added = {}
  /\ link = "new"

SetLocalDescription(p) ==
  /\ hasLocal' = hasLocal \cup {p}
  /\ UNCHANGED <<hasRemote, gathered, added, link>>

\* The library takes a description of the other peer only.
SetRemoteDescription(p, sdp) ==
  /\ sdp = IF p = "agent" THEN "offer" ELSE "answer"
  /\ hasRemote' = hasRemote \cup {p}
  /\ UNCHANGED <<hasLocal, gathered, added, link>>

\* The OnICECandidate callback of p is called.
OnICECandidate(p) ==
  /\ p \in hasLocal
  /\ gathered[p] < MaxIce[p]
  /\ gathered' = [gathered EXCEPT ![p] = @ + 1]
  /\ UNCHANGED <<hasLocal, hasRemote, added, link>>

\* AddICECandidate succeeds.
AddCandidate(p) ==
  /\ p \in hasRemote
  /\ added' = added \cup {p}
  /\ UNCHANGED <<hasLocal, hasRemote, gathered, link>>

\* A pair of addresses can be found once both know both descriptions and one
\* of them knows a candidate of the other, which learns its address from it.
MayConnect ==
  /\ hasRemote = Peers
  /\ hasLocal = Peers
  /\ added # {}

Establish ==
  /\ link = "new"
  /\ MayConnect
  /\ link' = "connected"
  /\ UNCHANGED <<hasLocal, hasRemote, gathered, added>>

\* No pair is found in time.
GiveUp ==
  /\ link = "new"
  /\ "listener" \in hasRemote
  /\ link' = "failed"
  /\ UNCHANGED <<hasLocal, hasRemote, gathered, added>>

LoseLink ==
  /\ link = "connected"
  /\ link' = "lost"
  /\ UNCHANGED <<hasLocal, hasRemote, gathered, added>>
=============================================================================
