----------------------------- MODULE Connection -----------------------------
(***************************************************************************)
(* A listener and an agent from the first call to the last byte: the host  *)
(* logs in and is told of the offer, both sides exchange descriptions and  *)
(* candidates through the servers, the link comes up, and connections are  *)
(* proxied through it.  The processes of src/cmd/yamcli, client and host,  *)
(* with the servers and the WebRTC library as SignalingLink and            *)
(* PeerConnections show them.                                              *)
(***************************************************************************)
EXTENDS Tunnel

vars == <<pcVars, sigVars, listenerVars, agentVars, tunnelVars>>

TypeOK ==
  PeersTypeOK /\ LinkTypeOK /\ ListenerTypeOK /\ AgentTypeOK /\ TunnelTypeOK

\* TheOne stands for no host by a string that is none.
ASSUME HostIdsAssumption == "none" \notin HostIds

Init == PeersInit /\ LinkInit /\ ListenerInit /\ AgentInit /\ TunnelInit

OfListener(A) == A /\ UNCHANGED <<agentVars, tunnelVars>>
OfAgent(A) == A /\ UNCHANGED <<listenerVars, tunnelVars>>
OfTunnel(A) == A /\ UNCHANGED <<pcVars, sigVars, listenerVars, agentVars>>
OfServers(A) == A /\ UNCHANGED <<pcVars, listenerVars, agentVars, tunnelVars>>
OfLibrary(A) == A /\ UNCHANGED <<sigVars, listenerVars, agentVars, tunnelVars>>

Next ==
  \/ OfListener(ListenerUp /\ ListenerStep)
  \/ ClientExits \/ HostExits
  \/ OfAgent(AgentUp /\ AgentStep)
  \/ OfTunnel(TunnelStep)
  \/ OfServers(AnnounceOffer \/ AcceptOffer \/ AcceptAnswer)
  \/ OfLibrary(ListenerUp /\ AgentUp /\ Establish)
  \/ OfLibrary(GiveUp \/ LoseLink)

Spec == Init /\ [][Next]_vars

\* What the library and the proxies of the agent owe a channel, each step once.
AgentTunnelDuty(c) == ChannelArrives(c) \/ AgentChannelOpens(c) \/ AgentProxyEnds(c)

(***************************************************************************)
(* Goroutines that can run do run; SendOffer has a deadline (see           *)
(* SendOfferReturns of Signaling), while WaitForOffer, SendAnswer and      *)
(* WaitForAnswer have none and may wait for ever; a stream of candidates   *)
(* ends once the context it was opened with is done; the library decides   *)
(* whether a link comes up, and opens channels.  Nothing is assumed of     *)
(* users, clients, services, and nothing makes a process exit.             *)
(***************************************************************************)
Fairness ==
  /\ WF_vars(OfListener(ListenerUp /\ MainStep))
  /\ WF_vars(OfListener(ListenerUp /\ ExchangeStep))
  /\ WF_vars(OfListener(ListenerUp /\ CtxDone /\ ReceiverStep))
  /\ WF_vars(OfAgent(AgentUp /\ AgentMainStep))
  /\ WF_vars(OfLibrary(ListenerUp /\ (GiveUp \/ (AgentUp /\ Establish))))
  /\ \A c \in Conns :
       /\ WF_vars(OfTunnel(ListenerUp /\ (ChannelOpens(c) \/ ListenerProxyEnds(c))))
       /\ WF_vars(OfTunnel(ListenerUp /\ AgentUp /\ CloseArrives(c)))
       /\ WF_vars(OfTunnel(AgentUp /\ AgentTunnelDuty(c)))

FairSpec == Spec /\ Fairness

-----------------------------------------------------------------------------
(* Safety.                                                                 *)

\* The send on remoteIceCh, which exchangeICE closes (listener.go:312, :326),
\* can panic only once cancelSetup was called (listener.go:361, :554, :558): not
\* while the set-up waits for its answer or its link, though exchangeICE may have
\* failed long before.  The function may not have returned by then.
PanicOnlyAfterCancel == Panicked => CtxDone

\* Listener, agent and link together keep to the exchange that the servers
\* implement (Signaling), with one host, session and agent.
TheOne(S) == IF S = {} THEN "none" ELSE CHOOSE x \in S : TRUE

Exchange ==
  INSTANCE OfferExchange WITH
    Hosts <- HostIds, Sessions <- {"session"}, Agents <- {"agent"}, None <- "none",
    offeredTo <- [s \in {"session"} |-> TheOne(announced)],
    outcome <- [s \in {"session"} |->
                  IF replies.SendOffer = {} THEN "pending" ELSE "accepted"],
    workerOf <- [a \in {"agent"} |-> IF aMain = "off" THEN "none" ELSE HostId],
    offerOf <- [a \in {"agent"} |->
                  IF replies.WaitForOffer = {} THEN "none" ELSE "session"],
    answeredBy <- [s \in {"session"} |->
                     IF replies.WaitForAnswer = {} THEN "none" ELSE "agent"]

KeepsToOfferExchange == Exchange!Spec

Ended(state) == state \in {"gone", "closed"}

\* Either end of c is closed with its process, or after the other end.
ClosedForCause(c) ==
  /\ client[c] = "open" /\ client'[c] = "closed"
       => lMain' = "exited" \/ Ended(service[c])
  /\ service[c] = "open" /\ service'[c] = "closed"
       => host' = "exited" \/ Ended(client[c])

\* A connection that takes what is written to it and, at the service, says
\* nothing before its data channel is open (agent.go:269) is closed only after it
\* ended at its other end (listener.go:123, agent.go:270) or with the process: not
\* by another connection, and not because the set-up returned and its contexts
\* ended.
NoSpuriousDisconnect == [][\A c \in Conns : ClosedForCause(c)]_vars

-----------------------------------------------------------------------------
(* What the steps keep, stronger than the properties above.                *)

\* exchangeICE starts with the session, and closes remoteIceCh only when
\* cancelSetup was called; the panic comes after.
CancelInv ==
  /\ lMain \in {"idle", "offering"} => exchange = "off"
  /\ exchange = "canceled" \/ Panicked => CtxDone

\* A channel is closed at either side only after a connection ended at one.
ClosedInv ==
  /\ \A c \in Conns : lChannel[c] = "closed" \/ aChannel[c] = "closed"
                       => Ended(client[c]) \/ Ended(service[c])
  /\ \A c \in Channels : aChannel[c] = "none" => service[c] = "none"

\* What waits to be sent was gathered.
CandidateInv == pendingIceCandidates <= gathered["listener"]

\* One offer is sent, its host is the one announced, before it is accepted.
OfferInv ==
  /\ lMain = "idle" => requests.SendOffer = {}
  /\ \A sent, other \in requests.SendOffer : sent = other
  /\ announced \subseteq {sent.host_id : sent \in requests.SendOffer}
  /\ replies.SendOffer # {} => announced # {}

\* The agent works for the host that logged in, and answers what it was given.
WorkerInv ==
  /\ host \in {"opening", "listening"} => replies.LoginHost # {}
  /\ aMain # "off" => /\ host # "out"
                      /\ replies.LoginHost # {}
                      /\ replies.ListenNewOffer # {}
  /\ \A req \in requests.WaitForOffer : aMain # "off" /\ req.host_id = HostId
  /\ aMain \in {"preparing", "described", "localSet"} \/ requests.SendAnswer # {}
       => replies.WaitForOffer # {}

ConnectionInv ==
  /\ TypeOK
  /\ CancelInv /\ ClosedInv /\ CandidateInv /\ OfferInv /\ WorkerInv

-----------------------------------------------------------------------------
(* Liveness.  P ~> Q is written []<>(P => Q) where P, once true, stands    *)
(* until Q does.                                                           *)

\* A listener that has its answer learns how the set-up ends, though the
\* exchange of candidates may have died before (listener.go:548-567).
AnsweredListenerReturns ==
  []<>("listener" \in hasRemote => Returned \/ ~ListenerUp)

\* The send of the receiver waits for room that nobody makes any more.
ReceiverAbandoned ==
  exchange = "failed" /\ receiver = "pushing" /\ remoteIceCh = IceChCap

\* What the set-up started ends soon after it (listener.go:280, :403), but for a
\* receiver that finds remoteIceCh full after exchangeICE failed: it stays for
\* ever, since only its look at ctx before the send would end it (listener.go:308).
SetupGoroutinesEnd ==
  []<>(CtxDone => \/ exchange # "running" /\ receiver \in {"off", "done"}
                  \/ ReceiverAbandoned
                  \/ ~ListenerUp)

\* The set-up of an agent that took an offer waits for ever only in SendAnswer,
\* which has no deadline (agent.go:244, anserer.go:106), or because the error of
\* SendAnswer took the place of its result (agent.go:251-254).
AgentSetupSettles ==
  []<>(aMain \in {"preparing", "described", "localSet", "answered", "reporting"}
         => aMain = "reporting" /\ aResult = "err")

TunnelUp == link = "connected" /\ ListenerUp /\ AgentUp

\* A connection to the service that the agent has not closed.
Held == {"open", "stuck", "early"}

\* The agent has dialled the service for c, or never will.
DialIsPast(c) == aChannel[c] # "none" \/ lChannel[c] = "none"

\* While the link is up, no service connection is left open for a client that
\* left, not even when it left before the agent dialled (listener.go:102,
\* agent.go:262-284): the agent closes it and has no dial yet to come.
ServiceClosedWithClient ==
  \A c \in Conns :
    []<>(client[c] \in {"gone", "closed"}
           => \/ service[c] \notin Held /\ DialIsPast(c)
              \/ ~TunnelUp)

\* A client whose service closed the connection is disconnected, if the data
\* channel was open at the agent by then: the Close of a channel that is not open
\* yet may be lost (agent.go:269, :282).
ClientClosedWithService ==
  \A c \in Conns :
    service[c] = "gone" /\ aChannel[c] = "open"
      ~> client[c] = "closed" \/ ~TunnelUp
=============================================================================
