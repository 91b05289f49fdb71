------------------------- MODULE SignalingChannels -------------------------
(***************************************************************************)
(* The channels that src/server/server.go creates between the offerer      *)
(* server and the answerer server, and the values that travel on them.     *)
(*                                                                         *)
(* A session is one SendOffer call and is named by the answerer id it      *)
(* allocates (a fresh UUID).  An agent is one WaitForOffer call of a host. *)
(* The bodies of offers and answers are opaque to the servers: an offer is *)
(* identified with its session, an answer with the agent that made it, a   *)
(* candidate with its sender and its position in that sender's stream.     *)
(***************************************************************************)
EXTENDS Naturals, Sequences, FiniteSets

CONSTANTS Hosts,     \* host ids
          Sessions,  \* answerer ids that SendOffer calls may allocate
          Agents,    \* WaitForOffer calls the hosts' agents may make
          Answering,    \* listeners and agents that wait for or send answers
          IceSenders,   \* listeners and agents that send candidates
          IceReceivers, \* listeners and agents that wait for candidates
          MaxIce,    \* bound: candidates each side of a session sends
          ChanCap,   \* capacity of every buffered channel (1024 in the code)
          None

ASSUME BoundsAssumption == MaxIce \in Nat /\ ChanCap \in Nat \ {0}
ASSUME NamesAssumption ==
  /\ Sessions \cap Agents = {}
  /\ Answering \cup IceSenders \cup IceReceivers \subseteq Sessions \cup Agents
  /\ None \notin Sessions \cup Agents \cup Hosts

Candidates == [from : Sessions \cup Agents, n : 1 .. MaxIce]
IcePacket == [answererID : Sessions, iceCandidate : Candidates]
AnsPacket == [answererID : Sessions, answer : Agents]

VARIABLES
  answerCh,     \* SendAnswer to answerRouter
  iceToAnsCh,   \* the offerer's SendIceCandidate to the answerer's router
  iceToOfferCh  \* the answerer's SendIceCandidate to the offerer's router

channels == <<answerCh, iceToAnsCh, iceToOfferCh>>

ChannelsTypeOK ==
  /\ answerCh \in Seq(AnsPacket)
  /\ iceToAnsCh \in Seq(IcePacket)
  /\ iceToOfferCh \in Seq(IcePacket)

ChannelsInit ==
  /\ answerCh = <<>>
  /\ iceToAnsCh = <<>>
  /\ iceToOfferCh = <<>>

\* A send on a buffered channel blocks while the buffer is full.
HasRoom(ch) == Len(ch) < ChanCap
=============================================================================
