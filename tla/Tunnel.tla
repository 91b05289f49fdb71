------------------------------- MODULE Tunnel -------------------------------
(***************************************************************************)
(* The connections that go through an established link: BindListener,      *)
(* startProxy and the proxies of src/client/listener.go, and               *)
(* onDataChannelHandler of agent.go.  Each accepted connection gets a data *)
(* channel of its own; the listener also opened one labelled "dummy".      *)
(* A proxy is reduced to what Proxy shows of its end: it comes when one of *)
(* its two ends has closed, a Write took too long or, at the agent, a Send *)
(* came before the data channel was open (NoEndWithoutCause), and closes   *)
(* the connection and the data channel (EndReleasesAll).                   *)
(***************************************************************************)
EXTENDS ListenerSetup, AgentSetup

CONSTANTS
  Conns,  \* accepted connections, and the data channels made for them
  Dummies \* data channels nobody uses: one, labelled "dummy", in the code

ASSUME ConnsAssumption == Conns \cap Dummies = {}

Channels == Conns \cup Dummies

VARIABLES
  client,    \* client connections: "gone" once the client has closed it, "stuck"
             \* once the proxy could not write to it in time
  lChannel,  \* the listener's end of each data channel
  lProxies,  \* connections with a running proxy at the listener
  aChannel,  \* the agent's end: "ignored" when no handler was there for it,
             \* "opening" while the handler runs and until the library opens it
  service,   \* the connections the agent dialled: "early" once a Send of its
             \* data failed because the channel was not open
  aProxies,  \* channels with a running proxy at the agent
  acceptFailed \* BindListener panicked on a failed Accept

tunnelVars ==
  <<client, lChannel, lProxies, aChannel, service, aProxies, acceptFailed>>

ConnStates == {"none", "open", "stuck", "early", "gone", "closed"}

TunnelTypeOK ==
  /\ client \in [Conns -> ConnStates]
  /\ lChannel \in [Channels -> {"none", "opening", "open", "closed"}]
  /\ lProxies \in SUBSET Conns
  /\ aChannel \in [Channels -> {"none", "ignored", "opening", "open", "closed"}]
  /\ service \in [Channels -> ConnStates]
  /\ aProxies \in SUBSET Channels
  /\ acceptFailed \in BOOLEAN

TunnelInit ==
  /\ client = [c \in Conns |-> "none"]
  /\ lChannel = [c \in Channels |-> IF c \in Dummies THEN "opening" ELSE "none"]
  /\ lProxies = {}
  /\ aChannel = [c \in Channels |-> "none"]
  /\ service = [c \in Channels |-> "none"]
  /\ aProxies = {}
  /\ acceptFailed = FALSE

\* The processes run.
ListenerUp == ~acceptFailed /\ ~Panicked /\ lMain # "exited"
AgentUp == host # "exited"

-----------------------------------------------------------------------------
(* The listener.                                                           *)

\* startClient calls Bind once Connect has succeeded: BindListener accepts.
Bound == ConnectResult = "ok"

\* When CreateDataChannel fails the loop continues and the connection is left
\* as it is.
Accept(c) ==
  /\ Bound
  /\ client[c] = "none"
  /\ client' = [client EXCEPT ![c] = "open"]
  /\ lChannel' \in {lChannel, [lChannel EXCEPT ![c] = "opening"]}
  /\ UNCHANGED <<lProxies, aChannel, service, aProxies, acceptFailed>>

\* conn.RemoteAddr() of a nil connection.
AcceptFails ==
  /\ Bound
  /\ acceptFailed' = TRUE
  /\ UNCHANGED <<client, lChannel, lProxies, aChannel, service, aProxies>>

\* The channel opens; OnOpen starts the proxy of a connection.  The dummy
\* channel has no OnOpen.
ChannelOpens(c) ==
  /\ link = "connected"
  /\ lChannel[c] = "opening"
  /\ lChannel' = [lChannel EXCEPT ![c] = "open"]
  /\ lProxies' = lProxies \cup ({c} \cap Conns)
  /\ UNCHANGED <<client, aChannel, service, aProxies, acceptFailed>>

\* A Write takes longer than 100 ms, and signals the end of life.
ClientStuck(c) ==
  /\ c \in lProxies
  /\ client[c] = "open"
  /\ client' = [client EXCEPT ![c] = "stuck"]
  /\ UNCHANGED <<lChannel, lProxies, aChannel, service, aProxies, acceptFailed>>

\* A proxy ends when its connection or its channel has: it closes both.
ListenerProxyEnds(c) ==
  /\ c \in lProxies
  /\ client[c] \in {"gone", "stuck"} \/ lChannel[c] = "closed"
  /\ lProxies' = lProxies \ {c}
  /\ client' = [client EXCEPT ![c] = "closed"]
  /\ lChannel' = [lChannel EXCEPT ![c] = "closed"]
  /\ UNCHANGED <<aChannel, service, aProxies, acceptFailed>>

\* The process of startClient ends, by an interrupt, by log.Fatal after a failed
\* Connect, or by a panic: what it held is gone, its connections are closed.
ClientExits ==
  /\ lMain # "exited"
  /\ lMain' = "exited"
  /\ lAnswer' = "off"
  /\ pendingIceCandidates' = 0
  /\ exchange' = "off"
  /\ receiver' = "off"
  /\ remoteIceCh' = 0
  /\ client' = [c \in Conns |-> IF client[c] = "none" THEN "none" ELSE "closed"]
  /\ lChannel' = [c \in Channels |-> "none"]
  /\ lProxies' = {}
  /\ acceptFailed' = FALSE
  /\ UNCHANGED <<pcVars, sigVars, agentVars, aChannel, service, aProxies>>

ClientLeaves(c) ==
  /\ client[c] \in {"open", "stuck"}
  /\ client' = [client EXCEPT ![c] = "gone"]
  /\ UNCHANGED <<lChannel, lProxies, aChannel, service, aProxies, acceptFailed>>

-----------------------------------------------------------------------------
(* The agent.                                                              *)

\* a.peerConn.OnDataChannel(a.onDataChannelHandler) has run.
HandlerRegistered == aMain = "ok"

\* A channel reaches the agent: it is dropped when there is no handler, else
\* the handler dials the service for it, and gives up when that fails.  The
\* proxy runs at once; OnClose plays no part before the channel is open.
ChannelArrives(c) ==
  /\ link = "connected"
  /\ lChannel[c] \in {"open", "closed"}
  /\ aChannel[c] = "none"
  /\ \/ /\ ~HandlerRegistered
        /\ aChannel' = [aChannel EXCEPT ![c] = "ignored"]
        /\ UNCHANGED <<service, aProxies>>
     \/ /\ HandlerRegistered
        /\ aChannel' = [aChannel EXCEPT ![c] = "opening"]
        /\ \/ /\ service' = [service EXCEPT ![c] = "open"]
              /\ aProxies' = aProxies \cup {c}
           \/ UNCHANGED <<service, aProxies>>
  /\ UNCHANGED <<client, lChannel, lProxies, acceptFailed>>

\* The library opens a channel after its handler has returned, whatever became
\* of its proxy.
AgentChannelOpens(c) ==
  /\ aChannel[c] = "opening"
  /\ aChannel' = [aChannel EXCEPT ![c] = "open"]
  /\ UNCHANGED <<client, lChannel, lProxies, service, aProxies, acceptFailed>>

\* The service speaks first: what it says is read before the channel is open.
ServiceSpeaksEarly(c) ==
  /\ c \in aProxies
  /\ service[c] = "open" /\ aChannel[c] = "opening"
  /\ service' = [service EXCEPT ![c] = "early"]
  /\ UNCHANGED <<client, lChannel, lProxies, aChannel, aProxies, acceptFailed>>

ReleaseAgentChannel_kept(c) == {aChannel}

\* proxy.Close(); d.Close(), which may be lost while the channel is not open.
ReleaseAgentChannel(c) ==
  {[aChannel EXCEPT ![c] = "closed"]}
    \cup (IF aChannel[c] = "opening" THEN {aChannel} ELSE {})

\* Nothing is ever written to the service of the dummy channel, nor to that of a
\* channel that is not open.
ServiceStuck(c) ==
  /\ c \in aProxies
  /\ service[c] = "open" /\ aChannel[c] # "opening"
  /\ service' = [service EXCEPT ![c] = "stuck"]
  /\ UNCHANGED <<client, lChannel, lProxies, aChannel, aProxies, acceptFailed>>

AgentSeesEnd_noOnClose(c) == service[c] \in {"gone", "stuck", "early"}

AgentSeesEnd_withSetup(c) ==
  service[c] \in {"gone", "stuck", "early"} \/ aChannel[c] = "closed" \/ aMain = "ok"

\* The loops or the OnClose callback signal the end of life.
AgentSeesEnd(c) ==
  service[c] \in {"gone", "stuck", "early"} \/ aChannel[c] = "closed"

AgentProxyEnds(c) ==
  /\ c \in aProxies
  /\ AgentSeesEnd(c)
  /\ aProxies' = aProxies \ {c}
  /\ service' = [service EXCEPT ![c] = "closed"]
  /\ aChannel' \in ReleaseAgentChannel(c)
  /\ UNCHANGED <<client, lChannel, lProxies, acceptFailed>>

\* The process of startHost ends, by an interrupt or by its panic after a failed
\* login.
HostExits ==
  /\ AgentUp
  /\ host' = "exited"
  /\ aMain' = IF aMain = "off" THEN "off" ELSE "exited"
  /\ aErr' = FALSE
  /\ aResult' = NewFuture
  /\ reporter' = "off"
  /\ aReceiver' = "off"
  /\ aChannel' = [c \in Channels |-> IF aChannel[c] = "none" THEN "none" ELSE "ignored"]
  /\ service' = [c \in Channels |-> IF service[c] = "none" THEN "none" ELSE "closed"]
  /\ aProxies' = {}
  /\ UNCHANGED <<pcVars, sigVars, listenerVars, client, lChannel, lProxies, acceptFailed>>

ServiceLeaves(c) ==
  /\ service[c] \in {"open", "stuck", "early"}
  /\ service' = [service EXCEPT ![c] = "gone"]
  /\ UNCHANGED <<client, lChannel, lProxies, aChannel, aProxies, acceptFailed>>

\* The close of one end of a channel reaches the other end.
CloseArrives(c) ==
  /\ link = "connected"
  /\ \/ /\ lChannel[c] = "closed" /\ aChannel[c] = "open"
        /\ aChannel' = [aChannel EXCEPT ![c] = "closed"]
        /\ UNCHANGED lChannel
     \/ /\ aChannel[c] = "closed" /\ lChannel[c] = "open"
        /\ lChannel' = [lChannel EXCEPT ![c] = "closed"]
        /\ UNCHANGED aChannel
  /\ UNCHANGED <<client, lProxies, service, aProxies, acceptFailed>>

-----------------------------------------------------------------------------
ListenerTunnelStep ==
  /\ ListenerUp
  /\ \/ AcceptFails
     \/ \E c \in Conns : Accept(c) \/ ListenerProxyEnds(c) \/ ClientLeaves(c) \/ ClientStuck(c)
     \/ \E c \in Channels : ChannelOpens(c)

AgentTunnelStep ==
  /\ AgentUp
  /\ \/ \E c \in Conns : ServiceStuck(c)
     \/ \E c \in Channels :
          \/ ChannelArrives(c) \/ AgentChannelOpens(c) \/ ServiceSpeaksEarly(c)
          \/ AgentProxyEnds(c) \/ ServiceLeaves(c)

TunnelStep ==
  \/ ListenerTunnelStep \/ AgentTunnelStep
  \/ ListenerUp /\ AgentUp /\ \E c \in Channels : CloseArrives(c)
=============================================================================
