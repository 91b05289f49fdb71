-------------------------- MODULE ConnectionProofs --------------------------
(***************************************************************************)
(* Proofs about Connection: for any hosts, users, tokens and sessions, any *)
(* number of candidates and connections, and any capacity of remoteIceCh.  *)
(***************************************************************************)
EXTENDS Integers, Connection, TLAPS

RequestsTyped ==
  /\ DOMAIN requests = DOMAIN RequestTypes
  /\ \A rpc \in DOMAIN RequestTypes : requests[rpc] \subseteq RequestTypes[rpc]

RepliesTyped ==
  /\ DOMAIN replies = DOMAIN ReplyTypes
  /\ \A rpc \in DOMAIN ReplyTypes : replies[rpc] \subseteq ReplyTypes[rpc]

\* A request that is asked joins those of its rpc, and no other.
LEMMA AskAdds ==
  ASSUME RequestsTyped, NEW rpc \in DOMAIN RequestTypes, NEW m \in RequestTypes[rpc],
         Ask(rpc, m)
  PROVE  /\ RequestsTyped'
         /\ requests'[rpc] = requests[rpc] \cup {m}
         /\ \A r \in DOMAIN RequestTypes : r # rpc => requests'[r] = requests[r]
BY DEF Ask, RequestsTyped, RequestTypes

\* A reply is given where there was none, and changes no other.
LEMMA ReplyAdds ==
  ASSUME RepliesTyped, NEW rpc \in DOMAIN ReplyTypes, NEW m \in ReplyTypes[rpc],
         Reply(rpc, m)
  PROVE  /\ RepliesTyped'
         /\ replies[rpc] = {} /\ replies'[rpc] = {m}
         /\ \A r \in DOMAIN ReplyTypes : r # rpc => replies'[r] = replies[r]
BY DEF Reply, RepliesTyped, ReplyTypes

\* A candidate that is sent joins those underway to its peer, at the end.
LEMMA CandidateSent ==
  ASSUME LinkTypeOK, NEW p \in Peers, NEW req, req.body \in Bodies, SendCandidateTo(p, req)
  PROVE  /\ LinkTypeOK'
         /\ \A q \in Peers : Len(underway[q]) \in Nat
         /\ Len(underway'[p]) = Len(underway[p]) + 1
         /\ \A q \in Peers : q # p => underway'[q] = underway[q]
<1>1. underway \in [Peers -> Seq(IceCandidate)]
  BY DEF LinkTypeOK
<1> DEFINE c == [candidate |-> req.body]
           line == underway[p]
<1>2. line \in Seq(IceCandidate) /\ c \in IceCandidate
  BY <1>1 DEF IceCandidate
<1>3. underway' = [underway EXCEPT ![p] = Append(line, c)]
  BY DEF SendCandidateTo
<1> HIDE DEF c, line
<1>4. /\ Append(line, c) \in Seq(IceCandidate)
      /\ Len(Append(line, c)) = Len(line) + 1
  BY <1>2
<1>5. underway' \in [Peers -> Seq(IceCandidate)] /\ underway'[p] = Append(line, c)
  BY <1>1, <1>3, <1>4
<1>6. LinkTypeOK'
  BY <1>5 DEF LinkTypeOK, SendCandidateTo
<1>7. \A q \in Peers : q # p => underway'[q] = underway[q]
  BY <1>1, <1>3
<1>8. \A q \in Peers : Len(underway[q]) \in Nat
  BY <1>1
<1> QED
  BY <1>4, <1>5, <1>6, <1>7, <1>8 DEF line

\* A candidate that is received leaves those underway to its peer.
LEMMA CandidateReceived ==
  ASSUME LinkTypeOK, NEW p \in Peers, RecvCandidateFor(p)
  PROVE  /\ LinkTypeOK'
         /\ \A q \in Peers : Len(underway[q]) \in Nat
         /\ Len(underway[p]) = Len(underway'[p]) + 1
         /\ \A q \in Peers : q # p => underway'[q] = underway[q]
<1>1. underway \in [Peers -> Seq(IceCandidate)]
  BY DEF LinkTypeOK
<1> DEFINE line == underway[p]
<1>2. line \in Seq(IceCandidate) /\ line # <<>>
  BY <1>1 DEF RecvCandidateFor
<1>3. underway' = [underway EXCEPT ![p] = Tail(line)]
  BY DEF RecvCandidateFor
<1> HIDE DEF line
<1>4. Tail(line) \in Seq(IceCandidate) /\ Len(line) = Len(Tail(line)) + 1
  BY <1>2
<1>5. underway' \in [Peers -> Seq(IceCandidate)] /\ underway'[p] = Tail(line)
  BY <1>1, <1>3, <1>4
<1>6. LinkTypeOK'
  BY <1>5 DEF LinkTypeOK, RecvCandidateFor
<1>7. \A q \in Peers : q # p => underway'[q] = underway[q]
  BY <1>1, <1>3
<1>8. \A q \in Peers : Len(underway[q]) \in Nat
  BY <1>1
<1> QED
  BY <1>4, <1>5, <1>6, <1>7, <1>8 DEF line

\* A peer gathers candidates up to its bound.
LEMMA CandidateGathered ==
  ASSUME PeersTypeOK, NEW p \in Peers, gathered[p] < MaxIce[p],
         gathered' = [gathered EXCEPT ![p] = @ + 1],
         UNCHANGED <<hasLocal, hasRemote, added, link>>
  PROVE  PeersTypeOK'
<1>1. /\ gathered \in [Peers -> Nat] /\ MaxIce \in [Peers -> Nat]
      /\ \A q \in Peers : gathered[q] <= MaxIce[q]
  BY MaxIceAssumption DEF PeersTypeOK
<1>2. gathered' \in [Peers -> Nat] /\ \A q \in Peers : gathered'[q] <= MaxIce[q]
  <2>1. gathered[p] \in Nat /\ MaxIce[p] \in Nat
    BY <1>1
  <2>2. gathered[p] + 1 \in Nat /\ gathered[p] + 1 <= MaxIce[p]
    BY <2>1
  <2> QED
    BY <1>1, <2>2
<1> QED
  BY <1>2 DEF PeersTypeOK

\* The candidates of the listener are bounded by a number.
LEMMA ListenerBound == MaxIce["listener"] \in Nat
BY MaxIceAssumption DEF Peers

\* What does not touch a part of the system keeps its types.
LEMMA PeersFrame == ASSUME PeersTypeOK, UNCHANGED pcVars PROVE PeersTypeOK'
BY DEF PeersTypeOK, pcVars

LEMMA LinkFrame == ASSUME LinkTypeOK, UNCHANGED sigVars PROVE LinkTypeOK'
BY DEF LinkTypeOK, sigVars

LEMMA ListenerFrame ==
  ASSUME ListenerTypeOK, UNCHANGED listenerVars PROVE ListenerTypeOK'
BY DEF ListenerTypeOK, listenerVars

LEMMA AgentFrame == ASSUME AgentTypeOK, UNCHANGED agentVars PROVE AgentTypeOK'
BY DEF AgentTypeOK, agentVars

LEMMA TunnelFrame == ASSUME TunnelTypeOK, UNCHANGED tunnelVars PROVE TunnelTypeOK'
BY DEF TunnelTypeOK, tunnelVars

\* The initial state satisfies everything the steps keep.
LEMMA ConnectionInitInv == Init => ConnectionInv
<1> SUFFICES ASSUME Init PROVE ConnectionInv
  OBVIOUS
<1> USE MaxIceAssumption, ListenerBound, IceChCapAssumption
    DEF Init, PeersInit, LinkInit, ListenerInit, AgentInit, TunnelInit
<1>1. PeersTypeOK /\ ListenerTypeOK /\ AgentTypeOK /\ TunnelTypeOK
  <2>1. PeersTypeOK
    BY DEF PeersTypeOK, Peers
  <2>2. ListenerTypeOK
    BY DEF ListenerTypeOK
  <2>3. AgentTypeOK
    BY DEF AgentTypeOK, NewFuture
  <2>4. TunnelTypeOK
    BY DEF TunnelTypeOK, ConnStates
  <2> QED
    BY <2>1, <2>2, <2>3, <2>4
<1>2. LinkTypeOK
  BY DEF LinkTypeOK, Peers
<1>3. CancelInv /\ CandidateInv
  BY DEF CancelInv, CandidateInv, Panicked, Peers
<1>4. ClosedInv
  BY ConnsAssumption DEF ClosedInv, Channels
<1>5. OfferInv /\ WorkerInv
  BY DEF OfferInv, WorkerInv, RequestTypes, ReplyTypes
<1> QED
  BY <1>1, <1>2, <1>3, <1>4, <1>5 DEF ConnectionInv, TypeOK
-----------------------------------------------------------------------------
\* The steps of the listener keep every variable in its type.
LEMMA ListenerTypeStep ==
  ASSUME ConnectionInv, ListenerStep, UNCHANGED <<agentVars, tunnelVars>>
  PROVE  TypeOK'
<1> SUFFICES PeersTypeOK' /\ LinkTypeOK' /\ ListenerTypeOK'
  BY AgentFrame, TunnelFrame DEF ConnectionInv, TypeOK
<1>0. PeersTypeOK /\ LinkTypeOK /\ ListenerTypeOK /\ CandidateInv
  BY DEF ConnectionInv, TypeOK
<1> USE <1>0, ListenerBound, IceChCapAssumption DEF pcVars, sigVars
<1>1. CASE CreateOffer
  <2>1. UNCHANGED <<hasRemote, gathered, added, link>> /\ hasLocal' \subseteq hasLocal \cup Peers
    BY <1>1 DEF CreateOffer, SetLocalDescription, Peers
  <2>2. PeersTypeOK'
    BY <2>1 DEF PeersTypeOK
  <2>3. ListenerTypeOK'
    BY <1>1 DEF CreateOffer, MoveMain, ListenerTypeOK
  <2>4. LinkTypeOK'
    BY <1>1, AskAdds DEF CreateOffer, ListenerToken, LinkTypeOK, RequestsTyped, RequestTypes,
       SendOfferRequest, AuthToken, Bodies
  <2> QED
    BY <2>2, <2>3, <2>4
<1>2. CASE SendOfferReturns
  <2>1. PeersTypeOK' /\ ListenerTypeOK'
    <3>1. PeersTypeOK'
      BY <1>2, PeersFrame DEF SendOfferReturns, MoveMain
    <3> QED
      BY <1>2, <3>1 DEF SendOfferReturns, MoveMain, ListenerTypeOK, NewFuture
  <2>2. CASE MoveMain("offering", "failing")
    <3>1. UNCHANGED <<requests, replies, announced, underway>>
      BY <1>2, <2>2 DEF SendOfferReturns, MoveMain
    <3> QED
      BY <2>1, <3>1 DEF LinkTypeOK
  <2>3. CASE MoveMain("offering", "awaiting")
    <3>1. PICK res \in replies.SendOffer :
            LET Waiting == [token |-> ListenerToken, answerer_id |-> res.answerer_id]
            IN  requests' = [requests EXCEPT !.WaitForAnswer = {Waiting},
                                             !.WaitForICECandidate = @ \cup {Waiting}]
      BY <1>2, <2>3 DEF SendOfferReturns, MoveMain
    <3> DEFINE Waiting == [token |-> ListenerToken, answerer_id |-> res.answerer_id]
    <3>2. Waiting \in WaitForAnswerRequest /\ Waiting \in WaitForICECandidateRequest
      BY DEF LinkTypeOK, ReplyTypes, OfferResponse, ListenerToken, AuthToken,
         WaitForAnswerRequest, WaitForICECandidateRequest
    <3>3. UNCHANGED <<replies, announced, underway>>
      BY <1>2 DEF SendOfferReturns
    <3>4. /\ DOMAIN requests' = DOMAIN requests
          /\ requests'["WaitForAnswer"] = {Waiting}
          /\ requests'["WaitForICECandidate"] = requests["WaitForICECandidate"] \cup {Waiting}
          /\ \A r \in DOMAIN RequestTypes \ {"WaitForAnswer", "WaitForICECandidate"} :
               requests'[r] = requests[r]
      BY <3>1 DEF LinkTypeOK, RequestTypes
    <3>5. RequestsTyped'
      BY <3>2, <3>4 DEF LinkTypeOK, RequestTypes, RequestsTyped
    <3> QED
      BY <2>1, <3>3, <3>5 DEF LinkTypeOK, RequestsTyped
  <2> QED
    BY <1>2, <2>1, <2>2, <2>3 DEF SendOfferReturns
<1>3. CASE AwaitAnswer
  <2>1. PeersTypeOK' /\ LinkTypeOK'
    BY <1>3, PeersFrame, LinkFrame DEF AwaitAnswer, MoveMain
  <2> QED
    BY <1>3, <2>1 DEF AwaitAnswer, MoveMain, ListenerTypeOK
<1>4. CASE SelectOutcome \/ ReturnResult
  <2>1. PeersTypeOK' /\ LinkTypeOK'
    BY <1>4, PeersFrame, LinkFrame DEF SelectOutcome, ReturnResult, MoveMain
  <2> QED
    BY <1>4, <2>1 DEF SelectOutcome, ReturnResult, MoveMain, ListenerTypeOK
<1>5. CASE WaitForAnswerReturns
  <2>1. PeersTypeOK'
    <3>1. /\ hasRemote' \in {hasRemote, hasRemote \cup {"listener"}}
          /\ UNCHANGED <<hasLocal, gathered, added, link>>
      BY <1>5 DEF WaitForAnswerReturns, SetRemoteDescription
    <3> QED
      BY <3>1 DEF PeersTypeOK, Peers
  <2>2. ListenerTypeOK'
    <3>1. /\ lAnswer' \in {"ok", "err"}
          /\ UNCHANGED <<lMain, pendingIceCandidates, exchange, receiver, remoteIceCh>>
      BY <1>5 DEF WaitForAnswerReturns
    <3> QED
      BY <3>1 DEF ListenerTypeOK
  <2>3. LinkTypeOK'
    <3>1. UNCHANGED <<requests, announced, underway>>
      BY <1>5 DEF WaitForAnswerReturns
    <3>2. CASE UNCHANGED replies
      BY <3>1, <3>2, LinkFrame
    <3>3. CASE GiveAnswer
      <4>1. PICK sent \in requests.SendAnswer : Reply("WaitForAnswer", [answer |-> sent.body])
        BY <3>3 DEF GiveAnswer
      <4>2. sent \in ReplyToRequest
        BY DEF LinkTypeOK, RequestTypes
      <4>3. [answer |-> sent.body] \in ReplyTypes["WaitForAnswer"]
        BY <4>2 DEF ReplyTypes, AnswerResponse, ReplyToRequest
      <4>4. RepliesTyped /\ "WaitForAnswer" \in DOMAIN ReplyTypes
        BY DEF LinkTypeOK, RepliesTyped, ReplyTypes
      <4>5. RepliesTyped'
        BY <4>1, <4>3, <4>4, ReplyAdds
      <4> QED
        BY <3>1, <4>5 DEF LinkTypeOK, RepliesTyped
    <3> QED
      BY <1>5, <3>2, <3>3 DEF WaitForAnswerReturns
  <2> QED
    BY <2>1, <2>2, <2>3
<1>6. CASE QueueCandidate
  <2>1. /\ gathered["listener"] < MaxIce["listener"]
        /\ gathered' = [gathered EXCEPT !["listener"] = @ + 1]
        /\ UNCHANGED <<hasLocal, hasRemote, added, link>>
    BY <1>6 DEF QueueCandidate, OnICECandidate
  <2>2. PeersTypeOK'
    BY <2>1, CandidateGathered DEF Peers
  <2>3. LinkTypeOK'
    BY <1>6, LinkFrame DEF QueueCandidate
  <2>4. pendingIceCandidates + 1 \in 0 .. MaxIce["listener"]
    <3>1. pendingIceCandidates \in Nat /\ pendingIceCandidates <= gathered["listener"]
      BY DEF ListenerTypeOK, CandidateInv
    <3>2. gathered["listener"] \in Nat /\ MaxIce["listener"] \in Nat
      BY DEF PeersTypeOK, Peers
    <3> QED
      BY <2>1, <3>1, <3>2
  <2>5. ListenerTypeOK'
    BY <1>6, <2>4 DEF QueueCandidate, ListenerTypeOK
  <2> QED
    BY <2>2, <2>3, <2>5
<1>7. CASE ExchangeCanceled
  <2>1. PeersTypeOK' /\ LinkTypeOK'
    BY <1>7, PeersFrame, LinkFrame DEF ExchangeCanceled
  <2> QED
    BY <1>7, <2>1 DEF ExchangeCanceled, ListenerTypeOK
<1>8. CASE SendListenerCandidate
  <2>1. PeersTypeOK'
    BY <1>8, PeersFrame DEF SendListenerCandidate
  <2>2. ListenerTypeOK'
    BY <1>8 DEF SendListenerCandidate, HasPending, ListenerTypeOK
  <2>3. LinkTypeOK'
    BY <1>8, CandidateSent DEF SendListenerCandidate, Peers, Bodies
  <2> QED
    BY <2>1, <2>2, <2>3
<1>9. CASE AddAgentCandidate
  <2>1. LinkTypeOK'
    BY <1>9, LinkFrame DEF AddAgentCandidate
  <2>2. ListenerTypeOK'
    BY <1>9 DEF AddAgentCandidate, ListenerTypeOK
  <2>3. CASE UNCHANGED pcVars
    BY <2>1, <2>2, <2>3, PeersFrame
  <2>4. CASE AddCandidate("listener")
    BY <2>1, <2>2, <2>4 DEF AddCandidate, PeersTypeOK, Peers
  <2> QED
    BY <1>9, <2>3, <2>4 DEF AddAgentCandidate
<1>10. CASE ReceiveCandidate
  <2>1. PeersTypeOK'
    BY <1>10, PeersFrame DEF ReceiveCandidate, MoveReceiver
  <2>2. ListenerTypeOK'
    BY <1>10 DEF ReceiveCandidate, MoveReceiver, ListenerTypeOK
  <2>3. LinkTypeOK'
    BY <1>10, CandidateReceived DEF ReceiveCandidate, Peers
  <2> QED
    BY <2>1, <2>2, <2>3
<1>11. CASE ReceiverEnds
  <2>1. PeersTypeOK' /\ LinkTypeOK'
    BY <1>11, PeersFrame, LinkFrame DEF ReceiverEnds, MoveReceiver
  <2> QED
    BY <1>11, <2>1 DEF ReceiverEnds, MoveReceiver, ListenerTypeOK
<1>12. CASE CheckContext
  <2>1. PeersTypeOK' /\ LinkTypeOK'
    BY <1>12, PeersFrame, LinkFrame DEF CheckContext, MoveReceiver
  <2> QED
    BY <1>12, <2>1 DEF CheckContext, AfterCheck, MoveReceiver, ListenerTypeOK
<1>13. CASE PushCandidate
  <2>1. PeersTypeOK' /\ LinkTypeOK'
    BY <1>13, PeersFrame, LinkFrame DEF PushCandidate, MoveReceiver
  <2> QED
    BY <1>13, <2>1 DEF PushCandidate, MoveReceiver, ListenerTypeOK
<1> QED
  BY <1>1, <1>2, <1>3, <1>4, <1>5, <1>6, <1>7, <1>8, <1>9, <1>10, <1>11, <1>12, <1>13
     DEF ListenerStep, MainStep, ExchangeStep, ReceiverStep
-----------------------------------------------------------------------------
\* Once somebody logged in, the host's id and its user's token are some.
LEMMA LoginGiven ==
  ASSUME LinkTypeOK, replies.LoginHost # {}
  PROVE  HostId \in HostIds /\ UserToken \in AuthToken
<1>1. PICK login \in replies.LoginHost : TRUE
  OBVIOUS
<1>2. (CHOOSE l \in replies.LoginHost : TRUE) \in replies.LoginHost
  BY <1>1
<1> QED
  BY <1>2 DEF HostId, UserToken, LinkTypeOK, ReplyTypes, InitHostResponse

\* What the agent replies with is a reply to its session.
LEMMA AgentReplyTyped ==
  ASSUME LinkTypeOK, replies.LoginHost # {}, replies.WaitForOffer # {}, NEW b \in Bodies
  PROVE  AgentReply(b) \in ReplyToRequest
<1>1. (CHOOSE res \in replies.WaitForOffer : TRUE) \in replies.WaitForOffer
  OBVIOUS
<1>2. (CHOOSE res \in replies.WaitForOffer : TRUE).answerer_id \in AnswererIds
  BY <1>1 DEF LinkTypeOK, ReplyTypes, OfferResponse
<1> QED
  BY <1>2, LoginGiven DEF AgentReply, ReplyToRequest

\* The steps of the host and its agent keep every variable in its type.
LEMMA AgentTypeStep ==
  ASSUME ConnectionInv, AgentStep, UNCHANGED <<listenerVars, tunnelVars>>
  PROVE  TypeOK'
<1> SUFFICES PeersTypeOK' /\ LinkTypeOK' /\ AgentTypeOK'
  BY ListenerFrame, TunnelFrame DEF ConnectionInv, TypeOK
<1>0. PeersTypeOK /\ LinkTypeOK /\ AgentTypeOK /\ WorkerInv
  BY DEF ConnectionInv, TypeOK
<1> USE <1>0 DEF pcVars, sigVars
<1>1. CASE HostLogin
  <2>1. PeersTypeOK' /\ AgentTypeOK'
    <3>1. PeersTypeOK'
      BY <1>1, PeersFrame DEF HostLogin
    <3>2. host' \in {"opening", "failed"} /\ UNCHANGED <<aMain, aErr, aResult, reporter, aReceiver>>
      BY <1>1 DEF HostLogin
    <3> QED
      BY <3>1, <3>2 DEF AgentTypeOK
  <2>2. CASE UNCHANGED <<requests, replies>>
    BY <1>1, <2>1, <2>2 DEF HostLogin, LinkTypeOK
  <2>3. ASSUME NEW u \in Users,
               LET Req == [user_login |-> [username |-> u]]
               IN  Ask("LoginHost", Req) /\ AcceptLogin(Req)
        PROVE  LinkTypeOK'
    <3>1. RequestsTyped'
      BY <2>3, AskAdds DEF LinkTypeOK, RequestsTyped, RequestTypes, InitHostRequest, UserLogin
    <3>2. RepliesTyped'
      BY <2>3, ReplyAdds DEF AcceptLogin, LinkTypeOK, RepliesTyped, ReplyTypes,
         InitHostResponse, AuthToken
    <3> QED
      BY <1>1, <3>1, <3>2 DEF HostLogin, LinkTypeOK, RequestsTyped, RepliesTyped
  <2> QED
    BY <1>1, <2>1, <2>2, <2>3 DEF HostLogin
<1>2. CASE NewOfferListener
  <2>1. PeersTypeOK' /\ AgentTypeOK'
    <3>1. PeersTypeOK'
      BY <1>2, PeersFrame DEF NewOfferListener
    <3> QED
      BY <1>2, <3>1 DEF NewOfferListener, AgentTypeOK
  <2>2. HostId \in HostIds
    BY <1>2, LoginGiven DEF NewOfferListener, WorkerInv
  <2>3. RequestsTyped'
    BY <1>2, <2>2, AskAdds DEF NewOfferListener, Subscribe, LinkTypeOK, RequestsTyped, RequestTypes,
       WaitForOfferRequest, AuthToken
  <2> QED
    BY <1>2, <2>1, <2>3 DEF NewOfferListener, LinkTypeOK, RequestsTyped
<1>3. CASE StartAgent
  <2>1. PeersTypeOK' /\ AgentTypeOK'
    <3>1. PeersTypeOK'
      BY <1>3, PeersFrame DEF StartAgent, BeginSetup
    <3> QED
      BY <1>3, <3>1 DEF StartAgent, BeginSetup, AgentTypeOK
  <2>2. HostId \in HostIds /\ UserToken \in AuthToken
    BY <1>3, LoginGiven DEF StartAgent, WorkerInv
  <2>3. RequestsTyped'
    BY <1>3, <2>2, AskAdds DEF StartAgent, BeginSetup, LinkTypeOK, RequestsTyped, RequestTypes,
       WaitForOfferRequest
  <2>4. RepliesTyped'
    BY <1>3, ReplyAdds DEF StartAgent, GiveNotice, LinkTypeOK, RepliesTyped, ReplyTypes, Empty
  <2> QED
    BY <1>3, <2>1, <2>3, <2>4 DEF StartAgent, BeginSetup, LinkTypeOK, RequestsTyped, RepliesTyped
<1>4. CASE NoticesEnd
  <2>1. PeersTypeOK' /\ LinkTypeOK'
    BY <1>4, PeersFrame, LinkFrame DEF NoticesEnd
  <2> QED
    BY <1>4, <2>1 DEF NoticesEnd, AgentTypeOK
<1>5. CASE WaitForOfferReturns
  <2>1. PeersTypeOK' /\ AgentTypeOK'
    <3>1. PeersTypeOK'
      BY <1>5, PeersFrame DEF WaitForOfferReturns, AgentFails, MoveAgent
    <3> QED
      BY <1>5, <3>1 DEF WaitForOfferReturns, AgentFails, MoveAgent, AgentTypeOK
  <2>2. CASE AgentFails("waiting") /\ UNCHANGED <<requests, replies, aReceiver>>
    BY <1>5, <2>1, <2>2 DEF WaitForOfferReturns, LinkTypeOK
  <2>3. CASE MoveAgent("waiting", "preparing") /\ GiveOffer
    <3>1. RepliesTyped'
      BY <2>3, ReplyAdds DEF GiveOffer, LinkTypeOK, RepliesTyped, ReplyTypes, RequestTypes,
         OfferResponse, SendOfferRequest
    <3>2. UserToken \in AuthToken
      BY <2>3, LoginGiven DEF MoveAgent, WorkerInv
    <3>3. PICK res \in replies'.WaitForOffer :
            Subscribe("WaitForICECandidate", [token |-> UserToken, answerer_id |-> res.answerer_id])
      BY <1>5, <2>3 DEF WaitForOfferReturns, AgentFails, MoveAgent
    <3>4. RequestsTyped'
      BY <3>1, <3>2, <3>3, AskAdds DEF Subscribe, LinkTypeOK, RequestsTyped, RepliesTyped, ReplyTypes,
         RequestTypes, OfferResponse, WaitForICECandidateRequest
    <3> QED
      BY <1>5, <2>1, <3>1, <3>4 DEF WaitForOfferReturns, LinkTypeOK, RequestsTyped, RepliesTyped
  <2> QED
    BY <1>5, <2>2, <2>3 DEF WaitForOfferReturns
<1>6. CASE SetOffer
  <2>1. LinkTypeOK'
    BY <1>6, LinkFrame DEF SetOffer
  <2>2. AgentTypeOK'
    <3>1. aMain' \in {"described", "err"} /\ UNCHANGED <<host, aErr, aResult, reporter, aReceiver>>
      BY <1>6 DEF SetOffer, AgentFails, MoveAgent
    <3> QED
      BY <3>1 DEF AgentTypeOK
  <2>3. PeersTypeOK'
    <3>1. /\ hasRemote' \in {hasRemote, hasRemote \cup {"agent"}}
          /\ UNCHANGED <<hasLocal, gathered, added, link>>
      BY <1>6 DEF SetOffer, SetRemoteDescription
    <3> QED
      BY <3>1 DEF PeersTypeOK, Peers
  <2> QED
    BY <2>1, <2>2, <2>3
<1>7. CASE SetAnswer
  <2>1. LinkTypeOK'
    BY <1>7, LinkFrame DEF SetAnswer
  <2>2. AgentTypeOK'
    <3>1. aMain' \in {"localSet", "err"} /\ UNCHANGED <<host, aResult, reporter, aReceiver>>
      BY <1>7 DEF SetAnswer, AgentFails, MoveAgent
    <3>2. aErr' = TRUE \/ aErr' = FALSE \/ aErr' = aErr
      BY <1>7 DEF SetAnswer
    <3>3. aErr \in BOOLEAN
      BY DEF AgentTypeOK
    <3>4. aErr' \in BOOLEAN
      BY <3>2, <3>3
    <3> QED
      BY <3>1, <3>4 DEF AgentTypeOK
  <2>3. PeersTypeOK'
    <3>1. /\ hasLocal' \in {hasLocal, hasLocal \cup {"agent"}}
          /\ UNCHANGED <<hasRemote, gathered, added, link>>
      BY <1>7 DEF SetAnswer, SetLocalDescription
    <3> QED
      BY <3>1 DEF PeersTypeOK, Peers
  <2> QED
    BY <2>1, <2>2, <2>3
<1>8. CASE CheckLocal
  <2>1. PeersTypeOK' /\ AgentTypeOK'
    <3>1. PeersTypeOK'
      BY <1>8, PeersFrame DEF CheckLocal, AgentFails, MoveAgent
    <3> QED
      BY <1>8, <3>1 DEF CheckLocal, AgentFails, MoveAgent, AgentTypeOK
  <2>2. AgentReply("answer") \in ReplyToRequest
    BY <1>8, AgentReplyTyped DEF CheckLocal, AgentFails, MoveAgent, WorkerInv, Bodies
  <2>3. RequestsTyped'
    BY <1>8, <2>2, AskAdds DEF CheckLocal, LinkTypeOK, RequestsTyped, RequestTypes
  <2> QED
    BY <1>8, <2>1, <2>3 DEF CheckLocal, LinkTypeOK, RequestsTyped
<1>9. CASE SendAnswerReturns
  <2>1. PeersTypeOK' /\ LinkTypeOK'
    BY <1>9, PeersFrame, LinkFrame DEF SendAnswerReturns, MoveAgent
  <2> QED
    BY <1>9, <2>1 DEF SendAnswerReturns, MoveAgent, AgentTypeOK
<1>10. CASE CheckAnswer
  <2>1. PeersTypeOK' /\ LinkTypeOK'
    BY <1>10, PeersFrame, LinkFrame DEF CheckAnswer, MoveAgent
  <2> QED
    BY <1>10, <2>1 DEF CheckAnswer, MoveAgent, AgentTypeOK
<1>11. CASE ReportError
  <2>1. PeersTypeOK' /\ LinkTypeOK'
    BY <1>11, PeersFrame, LinkFrame DEF ReportError
  <2> QED
    BY <1>11, <2>1 DEF ReportError, AgentTypeOK
<1>12. CASE ReportSuccess
  <2>1. PeersTypeOK' /\ LinkTypeOK'
    BY <1>12, PeersFrame, LinkFrame DEF ReportSuccess, MoveAgent
  <2> QED
    BY <1>12, <2>1 DEF ReportSuccess, MoveAgent, AgentTypeOK
<1>13. CASE SendAgentCandidate
  <2>1. LinkTypeOK'
    <3>1. AgentReply("candidate").body \in Bodies
      BY DEF AgentReply, Bodies
    <3> QED
      BY <1>13, <3>1, CandidateSent DEF SendAgentCandidate, Peers
  <2>2. AgentTypeOK'
    <3>1. aErr' \in BOOLEAN \/ aErr' = aErr
      BY <1>13 DEF SendAgentCandidate
    <3>2. UNCHANGED <<host, aMain, aResult, reporter, aReceiver>>
      BY <1>13 DEF SendAgentCandidate
    <3>3. aErr \in BOOLEAN
      BY DEF AgentTypeOK
    <3>4. aErr' \in BOOLEAN
      BY <3>1, <3>3
    <3> QED
      BY <3>2, <3>4 DEF AgentTypeOK
  <2>3. PeersTypeOK'
    <3>1. /\ gathered["agent"] < MaxIce["agent"]
          /\ gathered' = [gathered EXCEPT !["agent"] = @ + 1]
          /\ UNCHANGED <<hasLocal, hasRemote, added, link>>
      BY <1>13 DEF SendAgentCandidate, OnICECandidate
    <3> QED
      BY <3>1, CandidateGathered DEF Peers
  <2> QED
    BY <2>1, <2>2, <2>3
<1>14. CASE AddListenerCandidate
  <2>1. LinkTypeOK'
    BY <1>14, CandidateReceived DEF AddListenerCandidate, Peers
  <2>2. AgentTypeOK'
    BY <1>14 DEF AddListenerCandidate, MoveAgentReceiver, AgentTypeOK
  <2>3. CASE UNCHANGED pcVars
    BY <2>1, <2>2, <2>3, PeersFrame
  <2>4. CASE AddCandidate("agent")
    BY <2>1, <2>2, <2>4 DEF AddCandidate, PeersTypeOK, Peers
  <2> QED
    BY <1>14, <2>3, <2>4 DEF AddListenerCandidate
<1>15. CASE AgentReceiverEnds
  <2>1. PeersTypeOK' /\ LinkTypeOK'
    BY <1>15, PeersFrame, LinkFrame DEF AgentReceiverEnds, MoveAgentReceiver
  <2> QED
    BY <1>15, <2>1 DEF AgentReceiverEnds, MoveAgentReceiver, AgentTypeOK
<1> QED
  BY <1>1, <1>2, <1>3, <1>4, <1>5, <1>6, <1>7, <1>8, <1>9, <1>10, <1>11, <1>12, <1>13,
     <1>14, <1>15 DEF AgentStep, AgentMainStep
\* The steps of the servers, of the library, of the connections, and the ends
\* of the processes keep every variable in its type.
LEMMA OtherTypeStep ==
  ASSUME ConnectionInv,
         \/ OfServers(AnnounceOffer \/ AcceptOffer \/ AcceptAnswer)
         \/ OfLibrary(Establish \/ GiveUp \/ LoseLink)
         \/ OfTunnel(TunnelStep)
         \/ ClientExits \/ HostExits
  PROVE  TypeOK'
<1>0. PeersTypeOK /\ LinkTypeOK /\ ListenerTypeOK /\ AgentTypeOK /\ TunnelTypeOK
  BY DEF ConnectionInv, TypeOK
<1> USE <1>0, ListenerBound, IceChCapAssumption DEF TypeOK
<1>1. CASE OfServers(AnnounceOffer \/ AcceptOffer \/ AcceptAnswer)
  <2>1. PeersTypeOK' /\ ListenerTypeOK' /\ AgentTypeOK' /\ TunnelTypeOK'
    BY <1>1, PeersFrame, ListenerFrame, AgentFrame, TunnelFrame DEF OfServers
  <2>2. CASE AnnounceOffer
    <3>1. PICK req \in requests.SendOffer : announced' = announced \cup {req.host_id}
      BY <2>2 DEF AnnounceOffer
    <3>2. req.host_id \in HostIds
      BY DEF LinkTypeOK, RequestTypes, SendOfferRequest
    <3>3. LinkTypeOK'
      BY <2>2, <3>1, <3>2 DEF AnnounceOffer, LinkTypeOK
    <3> QED
      BY <2>1, <3>3
  <2>3. CASE AcceptOffer
    <3>1. RepliesTyped'
      BY <2>3, ReplyAdds DEF AcceptOffer, LinkTypeOK, RepliesTyped, ReplyTypes, OfferResponse
    <3> QED
      BY <2>1, <2>3, <3>1 DEF AcceptOffer, LinkTypeOK, RepliesTyped
  <2>4. CASE AcceptAnswer
    <3>1. RepliesTyped'
      BY <2>4, ReplyAdds DEF AcceptAnswer, LinkTypeOK, RepliesTyped, ReplyTypes, AnswerResponse
    <3> QED
      BY <2>1, <2>4, <3>1 DEF AcceptAnswer, LinkTypeOK, RepliesTyped
  <2> QED
    BY <1>1, <2>2, <2>3, <2>4 DEF OfServers
<1>2. CASE OfLibrary(Establish \/ GiveUp \/ LoseLink)
  <2>1. LinkTypeOK' /\ ListenerTypeOK' /\ AgentTypeOK' /\ TunnelTypeOK'
    BY <1>2, LinkFrame, ListenerFrame, AgentFrame, TunnelFrame DEF OfLibrary
  <2>2. PeersTypeOK'
    BY <1>2 DEF OfLibrary, Establish, GiveUp, LoseLink, PeersTypeOK
  <2> QED
    BY <2>1, <2>2
<1>3. CASE OfTunnel(TunnelStep)
  <2>1. PeersTypeOK' /\ LinkTypeOK' /\ ListenerTypeOK' /\ AgentTypeOK'
    BY <1>3, PeersFrame, LinkFrame, ListenerFrame, AgentFrame DEF OfTunnel
  <2> SUFFICES TunnelTypeOK'
    BY <2>1
  <2>2. CASE AcceptFails
    BY <2>2 DEF AcceptFails, TunnelTypeOK
  <2>3. ASSUME NEW c \in Conns,
               Accept(c) \/ ListenerProxyEnds(c) \/ ClientLeaves(c) \/ ClientStuck(c)
        PROVE  TunnelTypeOK'
    BY <2>3 DEF Accept, ListenerProxyEnds, ClientLeaves, ClientStuck, TunnelTypeOK, ConnStates
  <2>4. ASSUME NEW c \in Channels, ChannelOpens(c)
        PROVE  TunnelTypeOK'
    BY <2>4 DEF ChannelOpens, TunnelTypeOK
  <2>5. ASSUME NEW c \in Channels, ChannelArrives(c)
        PROVE  TunnelTypeOK'
    BY <2>5 DEF ChannelArrives, TunnelTypeOK, ConnStates
  <2>6. ASSUME NEW c \in Channels,
               AgentChannelOpens(c) \/ ServiceSpeaksEarly(c) \/ ServiceLeaves(c) \/ ServiceStuck(c)
        PROVE  TunnelTypeOK'
    BY <2>6 DEF AgentChannelOpens, ServiceSpeaksEarly, ServiceLeaves, ServiceStuck, TunnelTypeOK,
       ConnStates
  <2>7. ASSUME NEW c \in Channels, AgentProxyEnds(c)
        PROVE  TunnelTypeOK'
    BY <2>7 DEF AgentProxyEnds, ReleaseAgentChannel, TunnelTypeOK, ConnStates
  <2>8. ASSUME NEW c \in Channels, CloseArrives(c)
        PROVE  TunnelTypeOK'
    BY <2>8 DEF CloseArrives, TunnelTypeOK
  <2> QED
    BY <1>3, <2>2, <2>3, <2>4, <2>5, <2>6, <2>7, <2>8 DEF OfTunnel, TunnelStep,
       ListenerTunnelStep, AgentTunnelStep, Channels
<1>4. CASE ClientExits
  <2>1. PeersTypeOK' /\ LinkTypeOK' /\ AgentTypeOK'
    BY <1>4, PeersFrame, LinkFrame, AgentFrame DEF ClientExits
  <2>2. ListenerTypeOK'
    BY <1>4 DEF ClientExits, ListenerTypeOK
  <2>3. TunnelTypeOK'
    BY <1>4 DEF ClientExits, TunnelTypeOK, ConnStates
  <2> QED
    BY <2>1, <2>2, <2>3
<1>5. CASE HostExits
  <2>1. PeersTypeOK' /\ LinkTypeOK' /\ ListenerTypeOK'
    BY <1>5, PeersFrame, LinkFrame, ListenerFrame DEF HostExits
  <2>2. AgentTypeOK'
    BY <1>5 DEF HostExits, AgentTypeOK, NewFuture
  <2>3. TunnelTypeOK'
    BY <1>5 DEF HostExits, TunnelTypeOK, ConnStates
  <2> QED
    BY <2>1, <2>2, <2>3
<1> QED
  BY <1>1, <1>2, <1>3, <1>4, <1>5

\* Every step keeps every variable in its type.
LEMMA ConnectionTypeStep ==
  ASSUME ConnectionInv, [Next]_vars
  PROVE  TypeOK'
<1>1. CASE UNCHANGED vars
  BY <1>1, PeersFrame, LinkFrame, ListenerFrame, AgentFrame, TunnelFrame
     DEF vars, ConnectionInv, TypeOK
<1>2. CASE OfListener(ListenerUp /\ ListenerStep)
  BY <1>2, ListenerTypeStep DEF OfListener
<1>3. CASE OfAgent(AgentUp /\ AgentStep)
  BY <1>3, AgentTypeStep DEF OfAgent
<1>4. CASE OfLibrary(ListenerUp /\ AgentUp /\ Establish) \/ OfLibrary(GiveUp \/ LoseLink)
  <2>1. OfLibrary(Establish \/ GiveUp \/ LoseLink)
    BY <1>4 DEF OfLibrary
  <2> QED
    BY <2>1, OtherTypeStep
<1> QED
  BY <1>1, <1>2, <1>3, <1>4, OtherTypeStep DEF Next
-----------------------------------------------------------------------------
\* exchangeICE closes remoteIceCh, and the receiver panics, only after
\* cancelSetup was called, and its context stays done.
LEMMA CancelStep ==
  ASSUME ConnectionInv, [Next]_vars
  PROVE  CancelInv'
<1> USE DEF ConnectionInv, CancelInv, CtxDone, Panicked
<1>1. CASE UNCHANGED listenerVars
  BY <1>1 DEF listenerVars
<1>2. CASE MainStep
  BY <1>2 DEF MainStep, CreateOffer, SendOfferReturns, AwaitAnswer, SelectOutcome, ReturnResult,
     MoveMain, TypeOK, ListenerTypeOK
<1>3. CASE WaitForAnswerReturns \/ QueueCandidate
  BY <1>3 DEF WaitForAnswerReturns, QueueCandidate
<1>4. CASE ExchangeStep
  BY <1>4 DEF ExchangeStep, ExchangeCanceled, ExchangeCtxDone, SendListenerCandidate,
     AddAgentCandidate
<1>5. CASE ReceiverStep
  BY <1>5 DEF ReceiverStep, ReceiveCandidate, ReceiverEnds, CheckContext, AfterCheck,
     PushCandidate, IceChClosed, MoveReceiver
<1>6. CASE ClientExits
  BY <1>6 DEF ClientExits
<1> QED
  BY <1>1, <1>2, <1>3, <1>4, <1>5, <1>6
     DEF Next, OfListener, OfAgent, OfTunnel, OfServers, OfLibrary, ListenerStep, HostExits, vars

\* The rpcs of the agent are not asked by the listener.
LEMMA ListenerAsks ==
  ASSUME ConnectionInv, ListenerStep,
         NEW rpc \in {"LoginHost", "ListenNewOffer", "WaitForOffer", "SendAnswer"}
  PROVE  requests'[rpc] = requests[rpc]
<1> USE DEF ConnectionInv, TypeOK, LinkTypeOK, RequestTypes, sigVars
<1>1. CASE CreateOffer
  BY <1>1 DEF CreateOffer, Ask
<1>2. CASE SendOfferReturns
  BY <1>2 DEF SendOfferReturns
<1>3. CASE AwaitAnswer \/ SelectOutcome \/ ReturnResult \/ WaitForAnswerReturns \/ QueueCandidate
  BY <1>3 DEF AwaitAnswer, SelectOutcome, ReturnResult, WaitForAnswerReturns, QueueCandidate
<1>4. CASE ExchangeStep \/ ReceiverStep
  BY <1>4 DEF ExchangeStep, ReceiverStep, ExchangeCanceled, SendListenerCandidate,
     SendCandidateTo, AddAgentCandidate, ReceiveCandidate, RecvCandidateFor, ReceiverEnds,
     CheckContext, PushCandidate
<1> QED
  BY <1>1, <1>2, <1>3, <1>4 DEF ListenerStep, MainStep

\* A reply that came stays: each rpc is replied to once.
LEMMA RepliesStay ==
  ASSUME ConnectionInv, [Next]_vars, NEW rpc \in DOMAIN ReplyTypes, replies[rpc] # {}
  PROVE  replies'[rpc] = replies[rpc]
<1> USE DEF ConnectionInv, TypeOK, LinkTypeOK, ReplyTypes, sigVars
<1>1. CASE UNCHANGED replies
  BY <1>1
<1>2. CASE ListenerStep
  <2>1. CASE WaitForAnswerReturns
    BY <2>1 DEF WaitForAnswerReturns, GiveAnswer, Reply
  <2>2. CASE ExchangeStep \/ ReceiverStep
    BY <2>2 DEF ExchangeStep, ReceiverStep, ExchangeCanceled, SendListenerCandidate,
       SendCandidateTo, AddAgentCandidate, ReceiveCandidate, RecvCandidateFor, ReceiverEnds,
       CheckContext, PushCandidate
  <2>3. CASE MainStep \/ QueueCandidate
    BY <2>3 DEF MainStep, CreateOffer, SendOfferReturns, AwaitAnswer, SelectOutcome,
       ReturnResult, QueueCandidate
  <2> QED
    BY <1>2, <2>1, <2>2, <2>3 DEF ListenerStep
<1>3. CASE AgentStep
  <2>1. CASE HostLogin \/ StartAgent \/ WaitForOfferReturns
    BY <2>1 DEF HostLogin, AcceptLogin, StartAgent, GiveNotice, WaitForOfferReturns, GiveOffer,
       Reply
  <2>2. CASE AgentMainStep \/ SendAnswerReturns
    BY <2>2 DEF AgentMainStep, SetOffer, SetAnswer, CheckLocal, SendAnswerReturns, CheckAnswer,
       ReportError, ReportSuccess
  <2>3. CASE NewOfferListener \/ NoticesEnd \/ SendAgentCandidate \/ AddListenerCandidate
                \/ AgentReceiverEnds
    BY <2>3 DEF NewOfferListener, NoticesEnd, SendAgentCandidate, SendCandidateTo,
       AddListenerCandidate, RecvCandidateFor, AgentReceiverEnds
  <2> QED
    BY <1>3, <2>1, <2>2, <2>3 DEF AgentStep
<1>4. CASE AnnounceOffer \/ AcceptOffer \/ AcceptAnswer
  BY <1>4 DEF AnnounceOffer, AcceptOffer, AcceptAnswer, Reply
<1> QED
  BY <1>1, <1>2, <1>3, <1>4
     DEF Next, OfListener, OfAgent, OfTunnel, OfServers, OfLibrary, ClientExits, HostExits, vars

\* The step of a tunnel is one of its actions.
LEMMA TunnelCases ==
  ASSUME NEW ACTION Claim,
         AcceptFails => Claim,
         \A c \in Conns : Accept(c) => Claim,
         \A c \in Conns : ClientLeaves(c) => Claim,
         \A c \in Conns : ListenerProxyEnds(c) => Claim,
         \A c \in Conns : ClientStuck(c) => Claim,
         \A c \in Channels : ChannelOpens(c) => Claim,
         \A c \in Channels : ChannelArrives(c) => Claim,
         \A c \in Channels : AgentChannelOpens(c) => Claim,
         \A c \in Channels : ServiceSpeaksEarly(c) => Claim,
         \A c \in Channels : ServiceLeaves(c) => Claim,
         \A c \in Channels : AgentProxyEnds(c) => Claim,
         \A c \in Conns : ServiceStuck(c) => Claim,
         \A c \in Channels : CloseArrives(c) => Claim,
         TunnelStep
  PROVE  Claim
BY DEF TunnelStep, ListenerTunnelStep, AgentTunnelStep

\* A channel is closed by a proxy whose connection then is closed, or by the
\* close of its other end.
LEMMA ClosedStep ==
  ASSUME ConnectionInv, [Next]_vars
  PROVE  ClosedInv'
<1>0. ClosedInv /\ TunnelTypeOK /\ Conns \subseteq Channels
  BY DEF ConnectionInv, TypeOK, Channels
<1> USE <1>0 DEF ClosedInv, Ended, TunnelTypeOK
<1>1. CASE UNCHANGED tunnelVars
  BY <1>1 DEF tunnelVars
<1>2. CASE OfTunnel(TunnelStep)
  <2>1. AcceptFails => ClosedInv'
    BY DEF AcceptFails
  <2>2. ASSUME NEW c \in Conns, Accept(c) PROVE ClosedInv'
    <3>1. /\ client' = [client EXCEPT ![c] = "open"] /\ client[c] = "none"
          /\ \A d \in Channels : lChannel'[d] = "closed" => lChannel[d] = "closed"
          /\ UNCHANGED <<aChannel, service>>
      BY <2>2 DEF Accept
    <3> QED
      BY <3>1
  <2>3. ASSUME NEW c \in Conns, ClientLeaves(c) \/ ClientStuck(c) PROVE ClosedInv'
    BY <2>3 DEF ClientLeaves, ClientStuck
  <2>4. ASSUME NEW c \in Conns, ListenerProxyEnds(c) PROVE ClosedInv'
    BY <2>4 DEF ListenerProxyEnds
  <2>5. ASSUME NEW c \in Channels, ChannelOpens(c) PROVE ClosedInv'
    BY <2>5 DEF ChannelOpens
  <2>6. ASSUME NEW c \in Channels, ChannelArrives(c) PROVE ClosedInv'
    BY <2>6 DEF ChannelArrives
  <2>7. ASSUME NEW c \in Channels,
               AgentChannelOpens(c) \/ ServiceSpeaksEarly(c) \/ ServiceLeaves(c) \/ ServiceStuck(c)
        PROVE  ClosedInv'
    BY <2>7 DEF AgentChannelOpens, ServiceSpeaksEarly, ServiceLeaves, ServiceStuck
  <2>8. ASSUME NEW c \in Channels, AgentProxyEnds(c) PROVE ClosedInv'
    BY <2>8 DEF AgentProxyEnds, ReleaseAgentChannel
  <2>9. ASSUME NEW c \in Channels, CloseArrives(c) PROVE ClosedInv'
    BY <2>9 DEF CloseArrives
  <2> QED
    BY <1>2, <2>1, <2>2, <2>3, <2>4, <2>5, <2>6, <2>7, <2>8, <2>9, TunnelCases DEF OfTunnel
<1>3. CASE ClientExits
  BY <1>3 DEF ClientExits
<1>4. CASE HostExits
  BY <1>4 DEF HostExits
<1> QED
  BY <1>1, <1>2, <1>3, <1>4 DEF Next, OfListener, OfAgent, OfServers, OfLibrary, vars

\* What the set-up queues was gathered, and what it sends leaves the queue.
LEMMA CandidateStep ==
  ASSUME ConnectionInv, [Next]_vars
  PROVE  CandidateInv'
<1>0. /\ gathered \in [Peers -> Nat] /\ pendingIceCandidates \in Nat
      /\ pendingIceCandidates <= gathered["listener"]
  BY DEF ConnectionInv, TypeOK, PeersTypeOK, ListenerTypeOK, CandidateInv
<1> USE <1>0 DEF CandidateInv, Peers
<1>1. CASE UNCHANGED <<gathered, pendingIceCandidates>>
  BY <1>1
<1>2. CASE ListenerStep
  <2>1. CASE MainStep \/ WaitForAnswerReturns \/ ReceiverStep
    BY <2>1 DEF MainStep, CreateOffer, SendOfferReturns, AwaitAnswer, SelectOutcome, ReturnResult,
       SetLocalDescription, WaitForAnswerReturns, SetRemoteDescription, ReceiverStep,
       ReceiveCandidate, ReceiverEnds, CheckContext, PushCandidate, MoveReceiver, pcVars
  <2>2. CASE QueueCandidate
    BY <2>2 DEF QueueCandidate, OnICECandidate
  <2>3. CASE ExchangeStep
    BY <2>3 DEF ExchangeStep, ExchangeCanceled, SendListenerCandidate, AddAgentCandidate,
       AddCandidate, pcVars
  <2> QED
    BY <1>2, <2>1, <2>2, <2>3 DEF ListenerStep
<1>3. CASE AgentStep /\ UNCHANGED listenerVars
  <2>1. CASE SendAgentCandidate
    BY <1>3, <2>1 DEF SendAgentCandidate, OnICECandidate, listenerVars
  <2>2. CASE HostLogin \/ NewOfferListener \/ StartAgent \/ NoticesEnd \/ WaitForOfferReturns
    BY <1>1, <1>3, <2>2 DEF HostLogin, NewOfferListener, StartAgent, NoticesEnd,
       WaitForOfferReturns, pcVars, listenerVars
  <2>3. CASE AgentMainStep \/ SendAnswerReturns
    BY <1>1, <1>3, <2>3 DEF AgentMainStep, SetOffer, SetRemoteDescription, SetAnswer,
       SetLocalDescription, CheckLocal, SendAnswerReturns, CheckAnswer, ReportError,
       ReportSuccess, pcVars, listenerVars
  <2>4. CASE AddListenerCandidate \/ AgentReceiverEnds
    BY <1>1, <1>3, <2>4 DEF AddListenerCandidate, AddCandidate, AgentReceiverEnds, pcVars,
       listenerVars
  <2> QED
    BY <1>3, <2>1, <2>2, <2>3, <2>4 DEF AgentStep
<1>4. CASE ClientExits
  BY <1>4 DEF ClientExits, pcVars
<1>5. CASE OfLibrary(Establish \/ GiveUp \/ LoseLink)
  BY <1>1, <1>5 DEF OfLibrary, Establish, GiveUp, LoseLink, listenerVars
<1> QED
  BY <1>1, <1>2, <1>3, <1>4, <1>5
     DEF Next, OfListener, OfAgent, OfTunnel, OfServers, OfLibrary, HostExits, vars, pcVars,
         listenerVars
-----------------------------------------------------------------------------
\* SendOffer is asked by the set-up only, once, and nobody else asks it.
LEMMA OfferStep ==
  ASSUME ConnectionInv, [Next]_vars
  PROVE  OfferInv'
<1> USE DEF ConnectionInv, TypeOK, LinkTypeOK, RequestTypes, ReplyTypes, OfferInv
<1>1. CASE UNCHANGED <<lMain, requests.SendOffer, announced, replies.SendOffer>>
  BY <1>1
<1>2. CASE ListenerStep
  <2>1. CASE CreateOffer
    <3>1. UNCHANGED <<announced, replies>> /\ requests.SendOffer = {}
      BY <2>1 DEF CreateOffer, MoveMain
    <3>2. CASE UNCHANGED requests
      BY <3>1, <3>2
    <3>3. ASSUME lMain' = "offering", NEW h \in HostIds,
                 Ask("SendOffer", [token |-> ListenerToken, host_id |-> h, offer |-> "offer"])
          PROVE  OfferInv'
      BY <3>1, <3>3 DEF Ask
    <3> QED
      BY <2>1, <3>2, <3>3 DEF CreateOffer, MoveMain
  <2>2. CASE SendOfferReturns \/ AwaitAnswer \/ SelectOutcome \/ ReturnResult
    <3>1. UNCHANGED <<requests.SendOffer, announced, replies>> /\ lMain' # "idle"
      BY <2>2 DEF SendOfferReturns, AwaitAnswer, SelectOutcome, ReturnResult, MoveMain, sigVars,
         ListenerTypeOK
    <3> QED
      BY <3>1
  <2>3. CASE WaitForAnswerReturns
    BY <1>1, <2>3 DEF WaitForAnswerReturns, GiveAnswer, Reply
  <2>4. CASE QueueCandidate \/ ExchangeStep \/ ReceiverStep
    BY <1>1, <2>4 DEF QueueCandidate, ExchangeStep, ExchangeCanceled, SendListenerCandidate,
       SendCandidateTo, AddAgentCandidate, ReceiverStep, ReceiveCandidate, RecvCandidateFor,
       MoveReceiver, ReceiverEnds, CheckContext, PushCandidate, sigVars
  <2> QED
    BY <1>2, <2>1, <2>2, <2>3, <2>4 DEF ListenerStep, MainStep
<1>3. CASE AgentStep /\ UNCHANGED lMain
  <2>1. CASE HostLogin \/ NewOfferListener \/ StartAgent \/ NoticesEnd
    BY <1>1, <1>3, <2>1 DEF HostLogin, AcceptLogin, NewOfferListener, StartAgent, BeginSetup, GiveNotice,
       NoticesEnd, Ask, Subscribe, Reply, sigVars
  <2>2. CASE WaitForOfferReturns
    BY <1>1, <1>3, <2>2 DEF WaitForOfferReturns, GiveOffer, Ask, Subscribe, Reply
  <2>3. CASE AgentMainStep \/ SendAnswerReturns
    BY <1>1, <1>3, <2>3 DEF AgentMainStep, SetOffer, SetAnswer, CheckLocal, SendAnswerReturns,
       CheckAnswer, ReportError, ReportSuccess, Ask, sigVars
  <2>4. CASE SendAgentCandidate \/ AddListenerCandidate \/ AgentReceiverEnds
    BY <1>1, <1>3, <2>4 DEF SendAgentCandidate, SendCandidateTo, AddListenerCandidate,
       RecvCandidateFor, AgentReceiverEnds, sigVars
  <2> QED
    BY <1>3, <2>1, <2>2, <2>3, <2>4 DEF AgentStep
<1>4. CASE OfServers(AnnounceOffer \/ AcceptOffer \/ AcceptAnswer)
  <2>1. CASE AnnounceOffer
    BY <1>4, <2>1 DEF OfServers, AnnounceOffer, listenerVars
  <2>2. CASE AcceptOffer
    BY <1>4, <2>2 DEF OfServers, AcceptOffer, HostTold, Reply, listenerVars
  <2>3. CASE AcceptAnswer
    BY <1>1, <1>4, <2>3 DEF OfServers, AcceptAnswer, Reply, listenerVars
  <2> QED
    BY <1>4, <2>1, <2>2, <2>3 DEF OfServers
<1>5. CASE ClientExits
  BY <1>5 DEF ClientExits, sigVars
<1>6. CASE UNCHANGED <<sigVars, listenerVars>>
  BY <1>1, <1>6 DEF sigVars, listenerVars
<1> QED
  BY <1>2, <1>3, <1>4, <1>5, <1>6
     DEF Next, OfListener, OfAgent, OfTunnel, OfLibrary, HostExits, vars, listenerVars

\* The host's id is that of the one login, and its agent asks with it.
LEMMA WorkerStep ==
  ASSUME ConnectionInv, [Next]_vars
  PROVE  WorkerInv'
<1> USE DEF ConnectionInv, TypeOK, WorkerInv
<1>1. /\ replies.LoginHost # {} => replies'.LoginHost # {} /\ HostId' = HostId
      /\ replies.ListenNewOffer # {} => replies'.ListenNewOffer # {}
      /\ replies.WaitForOffer # {} => replies'.WaitForOffer # {}
  BY RepliesStay DEF ReplyTypes, HostId
<1>2. CASE UNCHANGED <<host, aMain, requests.WaitForOffer, requests.SendAnswer>>
  BY <1>1, <1>2
<1>3. CASE ListenerStep /\ UNCHANGED agentVars
  BY <1>2, <1>3, ListenerAsks DEF agentVars
<1>4. CASE AgentStep
  <2> USE DEF MoveAgent, AgentFails, Ask, Subscribe, LinkTypeOK, RequestTypes, AgentTypeOK, sigVars
  <2>1. CASE HostLogin
    <3>1. aMain = "off" /\ requests.WaitForOffer = {}
      BY <2>1 DEF HostLogin
    <3>2. UNCHANGED <<aMain, requests.WaitForOffer, requests.SendAnswer>>
      BY <2>1 DEF HostLogin
    <3>3. ASSUME NEW req, AcceptLogin(req) PROVE replies'.LoginHost # {}
      <4>1. PICK m : Reply("LoginHost", m)
        BY <3>3 DEF AcceptLogin
      <4> QED
        BY <4>1 DEF Reply, ReplyTypes
    <3>4. host' = "failed" \/ (host' = "opening" /\ replies'.LoginHost # {})
      BY <2>1, <3>3 DEF HostLogin
    <3> QED
      BY <1>1, <3>1, <3>2, <3>4
  <2>2. CASE NewOfferListener \/ NoticesEnd
    BY <1>1, <2>2 DEF NewOfferListener, NoticesEnd
  <2>3. CASE StartAgent
    <3>1. /\ aMain = "off" /\ host = "listening" /\ host' = host
          /\ replies.LoginHost # {} /\ replies'.ListenNewOffer # {}
          /\ requests.WaitForOffer = {}
      BY <2>3 DEF StartAgent, BeginSetup, GiveNotice, Reply, ReplyTypes
    <3>2. CASE aMain' = "err" /\ UNCHANGED requests
      BY <1>1, <3>1, <3>2
    <3>3. CASE /\ aMain' = "waiting"
               /\ Ask("WaitForOffer", [token |-> UserToken, host_id |-> HostId])
      BY <1>1, <3>1, <3>3
    <3> QED
      BY <2>3, <3>2, <3>3 DEF StartAgent, BeginSetup
  <2>4. CASE WaitForOfferReturns
    <3>1. /\ UNCHANGED <<host, requests.WaitForOffer, requests.SendAnswer>>
          /\ aMain = "waiting" /\ aMain' \in {"preparing", "err"}
      BY <2>4 DEF WaitForOfferReturns
    <3>2. aMain' = "preparing" => replies'.WaitForOffer # {}
      BY <2>4 DEF WaitForOfferReturns, GiveOffer, Reply, ReplyTypes
    <3> QED
      BY <1>1, <3>1, <3>2
  <2>5. CASE SetOffer \/ SetAnswer \/ CheckLocal
    BY <1>1, <2>5 DEF SetOffer, SetAnswer, CheckLocal
  <2>6. CASE SendAnswerReturns \/ CheckAnswer \/ ReportError \/ ReportSuccess
    BY <1>1, <2>6 DEF SendAnswerReturns, CheckAnswer, ReportError, ReportSuccess
  <2>7. CASE SendAgentCandidate \/ AddListenerCandidate \/ AgentReceiverEnds
    BY <1>2, <2>7 DEF SendAgentCandidate, SendCandidateTo, AddListenerCandidate,
       RecvCandidateFor, MoveAgentReceiver, AgentReceiverEnds
  <2> QED
    BY <1>4, <2>1, <2>2, <2>3, <2>4, <2>5, <2>6, <2>7 DEF AgentStep, AgentMainStep
<1>5. CASE HostExits
  BY <1>1, <1>5 DEF HostExits, sigVars
<1>6. CASE OfServers(AnnounceOffer \/ AcceptOffer \/ AcceptAnswer)
  BY <1>2, <1>6 DEF OfServers, AnnounceOffer, AcceptOffer, AcceptAnswer, agentVars
<1>7. CASE UNCHANGED <<sigVars, agentVars>>
  BY <1>2, <1>7 DEF sigVars, agentVars
<1> QED
  BY <1>3, <1>4, <1>5, <1>6, <1>7
     DEF Next, OfListener, OfAgent, OfTunnel, OfLibrary, ClientExits, vars
-----------------------------------------------------------------------------
\* The inductive invariant.
LEMMA ConnectionInvariant == Spec => []ConnectionInv
<1>1. ConnectionInv /\ [Next]_vars => ConnectionInv'
  BY ConnectionTypeStep, CancelStep, ClosedStep, CandidateStep, OfferStep, WorkerStep
     DEF ConnectionInv
<1> QED
  BY <1>1, ConnectionInitInv, PTL DEF Spec

\* Every variable keeps its type, so every message has the fields that its
\* reader takes from it, and no counter of candidates passes its bound
\* (yampr.pb.go, listener.go:329).
THEOREM ConnectionTypeOK == Spec => []TypeOK
<1>1. ConnectionInv => TypeOK
  BY DEF ConnectionInv
<1> QED
  BY <1>1, ConnectionInvariant, PTL

\* The send on the closed remoteIceCh comes only once cancelSetup was called,
\* which may be before initWebRTCAsOfferer has returned (listener.go:312, :326).
THEOREM ConnectionPanicOnlyAfterCancel == Spec => []PanicOnlyAfterCancel
<1>1. ConnectionInv => PanicOnlyAfterCancel
  BY DEF ConnectionInv, CancelInv, PanicOnlyAfterCancel
<1> QED
  BY <1>1, ConnectionInvariant, PTL

\* While both processes run, a connection that takes what is written to it, and
\* at the service says nothing before its channel is open (agent.go:269), is closed
\* only after it ended at its other end (listener.go:123, agent.go:270).
THEOREM ConnectionNoSpuriousDisconnect == Spec => NoSpuriousDisconnect
<1>1. ASSUME ConnectionInv, [Next]_vars, NEW c \in Conns
      PROVE  ClosedForCause(c)
  <2>0. ClosedInv /\ TunnelTypeOK /\ Conns \subseteq Channels
    BY <1>1 DEF ConnectionInv, TypeOK, Channels
  <2> USE DEF ClosedForCause
  <2>1. CASE UNCHANGED <<client, service>>
    BY <2>1
  <2>2. CASE OfTunnel(TunnelStep)
    <3> USE <2>0 DEF TunnelTypeOK
    <3>1. AcceptFails => ClosedForCause(c)
      BY DEF AcceptFails
    <3>2. ASSUME NEW d \in Conns, Accept(d) \/ ClientLeaves(d) \/ ClientStuck(d)
          PROVE  ClosedForCause(c)
      BY <3>2 DEF Accept, ClientLeaves, ClientStuck
    <3>3. ASSUME NEW d \in Conns, ListenerProxyEnds(d) PROVE ClosedForCause(c)
      BY <3>3 DEF ListenerProxyEnds, ClosedInv, Ended
    <3>4. ASSUME NEW d \in Channels, ChannelOpens(d) \/ CloseArrives(d) PROVE ClosedForCause(c)
      BY <3>4 DEF ChannelOpens, CloseArrives
    <3>5. ASSUME NEW d \in Channels,
                 \/ ChannelArrives(d) \/ AgentChannelOpens(d) \/ ServiceSpeaksEarly(d)
                 \/ ServiceLeaves(d) \/ ServiceStuck(d)
          PROVE  ClosedForCause(c)
      BY <3>5 DEF ChannelArrives, AgentChannelOpens, ServiceSpeaksEarly, ServiceLeaves, ServiceStuck
    <3>6. ASSUME NEW d \in Channels, AgentProxyEnds(d) PROVE ClosedForCause(c)
      BY <3>6 DEF AgentProxyEnds, AgentSeesEnd, ClosedInv, Ended
    <3> HIDE DEF ClosedForCause
    <3> QED
      BY <2>2, <3>1, <3>2, <3>3, <3>4, <3>5, <3>6, TunnelCases DEF OfTunnel
  <2>3. CASE ClientExits
    BY <2>3 DEF ClientExits
  <2>4. CASE HostExits
    BY <2>4 DEF HostExits
  <2> QED
    BY <1>1, <2>1, <2>2, <2>3, <2>4
       DEF Next, OfListener, OfAgent, OfServers, OfLibrary, vars, tunnelVars
<1>2. ConnectionInv /\ [Next]_vars => \A c \in Conns : ClosedForCause(c)
  BY <1>1
<1> QED
  BY <1>2, ConnectionInvariant, PTL DEF Spec, NoSpuriousDisconnect

-----------------------------------------------------------------------------
\* The one member of a set with one member.
LEMMA TheOneIs ==
  ASSUME NEW S, NEW x \in S, \A y \in S : y = x
  PROVE  TheOne(S) = x
BY DEF TheOne

\* The offer announced and accepted is the one that was sent.
LEMMA OfferedHost ==
  ASSUME ConnectionInv, NEW sent \in requests.SendOffer, replies.SendOffer # {}
  PROVE  TheOne(announced) = sent.host_id
<1>1. PICK h \in announced : TRUE
  BY DEF ConnectionInv, OfferInv
<1>2. \A k \in announced : k = sent.host_id
  BY DEF ConnectionInv, OfferInv
<1> QED
  BY <1>1, <1>2, TheOneIs
\* Steps that leave the exchange alone.
LEMMA ExchangeUntouched ==
  ASSUME ConnectionInv, UNCHANGED announced, UNCHANGED replies,
         (aMain = "off") = (aMain' = "off")
  PROVE  UNCHANGED Exchange!vars
BY DEF Exchange!vars, HostId

\* A step of the connection is a step of the exchange, or leaves it alone.
LEMMA ConnectionStepKeeps ==
  ASSUME ConnectionInv, [Next]_vars
  PROVE  [Exchange!Next]_(Exchange!vars)
<1>0. UNCHANGED Exchange!vars => [Exchange!Next]_(Exchange!vars)
  OBVIOUS
<1> USE DEF ConnectionInv, TypeOK
<1>1. CASE UNCHANGED <<announced, replies, aMain>>
  BY <1>0, <1>1, ExchangeUntouched
<1>2. CASE ListenerStep /\ UNCHANGED agentVars
  <2>1. CASE WaitForAnswerReturns
    <3>1. CASE UNCHANGED replies
      BY <1>1, <1>2, <2>1, <3>1 DEF WaitForAnswerReturns, agentVars
    <3>2. CASE GiveAnswer
      <4>1. /\ replies.SendOffer = replies'.SendOffer /\ replies.WaitForOffer = replies'.WaitForOffer
            /\ replies.LoginHost = replies'.LoginHost
            /\ replies.WaitForAnswer = {} /\ replies'.WaitForAnswer # {}
            /\ UNCHANGED <<announced, aMain>>
        BY <1>2, <2>1, <3>2 DEF WaitForAnswerReturns, GiveAnswer, Reply, LinkTypeOK, ReplyTypes,
           agentVars
      <4>2. replies.WaitForOffer # {}
        BY <3>2 DEF GiveAnswer, WorkerInv
      <4>3. Exchange!Answer("agent")
        BY <4>1, <4>2 DEF Exchange!Answer, HostId
      <4> QED
        BY <4>3 DEF Exchange!Next
    <3> QED
      BY <2>1, <3>1, <3>2 DEF WaitForAnswerReturns
  <2>2. CASE MainStep \/ QueueCandidate \/ ExchangeStep \/ ReceiverStep
    BY <1>1, <1>2, <2>2 DEF MainStep, CreateOffer, SendOfferReturns, AwaitAnswer, SelectOutcome,
       ReturnResult, QueueCandidate, ExchangeStep, ExchangeCanceled, SendListenerCandidate, SendCandidateTo,
       AddAgentCandidate, ReceiverStep, ReceiveCandidate, RecvCandidateFor, ReceiverEnds,
       CheckContext, PushCandidate, sigVars, agentVars
  <2> QED
    BY <1>2, <2>1, <2>2 DEF ListenerStep
<1>3. CASE AgentStep
  <2>1. CASE HostLogin
    <3>1. aMain = "off" /\ UNCHANGED <<announced, aMain>>
      BY <2>1 DEF HostLogin, WorkerInv
    <3>2. \A r \in {"SendOffer", "WaitForOffer", "WaitForAnswer"} : replies'[r] = replies[r]
      BY <2>1 DEF HostLogin, AcceptLogin, Reply, LinkTypeOK, ReplyTypes
    <3>3. UNCHANGED Exchange!vars
      BY <3>1, <3>2 DEF Exchange!vars
    <3> QED
      BY <1>0, <3>3
  <2>2. CASE StartAgent
    <3>1. aMain = "off" /\ aMain' # "off" /\ UNCHANGED announced
      BY <2>2 DEF StartAgent, BeginSetup, GiveNotice, Reply, WorkerInv
    <3>2. \A r \in {"LoginHost", "SendOffer", "WaitForOffer", "WaitForAnswer"} :
            replies'[r] = replies[r]
      BY <2>2 DEF StartAgent, GiveNotice, Reply, LinkTypeOK, ReplyTypes
    <3>3. HostId \in HostIds
      BY <2>2, LoginGiven DEF StartAgent, WorkerInv
    <3>4. HostId' = HostId
      BY <3>2 DEF HostId
    <3>5. Exchange!Join("agent", HostId)
      BY <3>1, <3>2, <3>4 DEF Exchange!Join
    <3> QED
      BY <3>3, <3>5 DEF Exchange!Next
  <2>3. CASE WaitForOfferReturns
    <3>1. aMain = "waiting" /\ aMain' # "off" /\ UNCHANGED announced
      BY <2>3 DEF WaitForOfferReturns, AgentFails, MoveAgent
    <3>2. CASE UNCHANGED replies
      BY <1>0, <3>1, <3>2, ExchangeUntouched
    <3>3. CASE GiveOffer
      <4>1. PICK req \in requests.WaitForOffer, sent \in requests.SendOffer,
                 res \in replies.SendOffer :
              /\ sent.host_id = req.host_id
              /\ Reply("WaitForOffer", [answerer_id |-> res.answerer_id, body |-> sent.offer])
        BY <3>3 DEF GiveOffer
      <4>2. TheOne(announced) = HostId
        BY <4>1, OfferedHost DEF WorkerInv
      <4>3. /\ replies.WaitForOffer = {} /\ replies'.WaitForOffer # {}
            /\ \A r \in {"LoginHost", "SendOffer", "WaitForAnswer"} : replies'[r] = replies[r]
        BY <4>1 DEF Reply, LinkTypeOK, ReplyTypes
      <4>4. Exchange!Take("agent", "session")
        BY <3>1, <4>1, <4>2, <4>3 DEF Exchange!Take, HostId
      <4> QED
        BY <4>4 DEF Exchange!Next
    <3> QED
      BY <2>3, <3>2, <3>3 DEF WaitForOfferReturns
  <2>4. CASE AgentMainStep \/ SendAnswerReturns
    <3>1. aMain # "off" => aMain' # "off"
      BY <2>4 DEF AgentMainStep, SetOffer, SetAnswer, CheckLocal, SendAnswerReturns, CheckAnswer,
         ReportError, ReportSuccess, MoveAgent, AgentFails
    <3>2. aMain = "off" => aMain' = "off"
      BY <2>4 DEF AgentMainStep, SetOffer, SetAnswer, CheckLocal, SendAnswerReturns, CheckAnswer,
         ReportError, ReportSuccess, MoveAgent, AgentFails
    <3>3. UNCHANGED <<announced, replies>>
      BY <2>4 DEF AgentMainStep, SetOffer, SetAnswer, CheckLocal, SendAnswerReturns, CheckAnswer,
         ReportError, ReportSuccess, sigVars
    <3> QED
      BY <1>0, <3>1, <3>2, <3>3, ExchangeUntouched
  <2>5. CASE NewOfferListener \/ NoticesEnd \/ SendAgentCandidate \/ AddListenerCandidate
                \/ AgentReceiverEnds
    BY <1>1, <2>5 DEF NewOfferListener, NoticesEnd, SendAgentCandidate, SendCandidateTo,
       AddListenerCandidate, RecvCandidateFor, MoveAgentReceiver, AgentReceiverEnds, sigVars
  <2> QED
    BY <1>3, <2>1, <2>2, <2>3, <2>4, <2>5 DEF AgentStep
<1>4. CASE OfServers(AnnounceOffer \/ AcceptOffer \/ AcceptAnswer)
  <2>1. CASE AnnounceOffer
    <3>1. PICK sent \in requests.SendOffer :
            sent.host_id \notin announced /\ announced' = announced \cup {sent.host_id}
      BY <2>1 DEF AnnounceOffer
    <3>2. announced = {} /\ announced' = {sent.host_id}
      BY <3>1 DEF OfferInv
    <3>3. TheOne(announced) = "none" /\ TheOne(announced') = sent.host_id
      BY <3>2, TheOneIs DEF TheOne
    <3>4. sent.host_id \in HostIds
      BY DEF LinkTypeOK, RequestTypes, SendOfferRequest
    <3>5. UNCHANGED <<replies, aMain>>
      BY <1>4, <2>1 DEF OfServers, AnnounceOffer, agentVars
    <3>6. Exchange!Offer("session", sent.host_id)
      BY <3>3, <3>5 DEF Exchange!Offer, HostId
    <3> QED
      BY <3>4, <3>6 DEF Exchange!Next
  <2>2. CASE AcceptOffer
    <3>1. PICK sent \in requests.SendOffer : HostTold(sent)
      BY <2>2 DEF AcceptOffer
    <3>2. sent.host_id \in announced /\ \A h \in announced : h = sent.host_id
      BY <3>1 DEF HostTold, OfferInv
    <3>3. TheOne(announced) # "none"
      BY <3>2, TheOneIs, HostIdsAssumption DEF LinkTypeOK
    <3>4. /\ replies.SendOffer = {} /\ replies'.SendOffer # {}
          /\ \A r \in {"LoginHost", "WaitForOffer", "WaitForAnswer"} : replies'[r] = replies[r]
      BY <2>2 DEF AcceptOffer, Reply, LinkTypeOK, ReplyTypes
    <3>5. UNCHANGED <<announced, aMain>>
      BY <1>4, <2>2 DEF OfServers, AcceptOffer, agentVars
    <3>6. HostId' = HostId
      BY <3>4 DEF HostId
    <3>7. Exchange!Decide("session", "accepted")
      BY <3>3, <3>4, <3>5, <3>6 DEF Exchange!Decide
    <3> QED
      BY <3>7 DEF Exchange!Next
  <2>3. CASE AcceptAnswer
    <3>1. /\ \A r \in {"LoginHost", "SendOffer", "WaitForOffer", "WaitForAnswer"} :
               replies'[r] = replies[r]
          /\ UNCHANGED <<announced, aMain>>
      BY <1>4, <2>3 DEF OfServers, AcceptAnswer, Reply, LinkTypeOK, ReplyTypes, agentVars
    <3>2. HostId' = HostId
      BY <3>1 DEF HostId
    <3>3. UNCHANGED Exchange!vars
      BY <3>1, <3>2 DEF Exchange!vars
    <3> QED
      BY <1>0, <3>3
  <2> QED
    BY <1>4, <2>1, <2>2, <2>3 DEF OfServers
<1>5. CASE HostExits
  <2>1. UNCHANGED <<announced, replies>> /\ (aMain = "off") = (aMain' = "off")
    BY <1>5 DEF HostExits, sigVars
  <2> QED
    BY <1>0, <2>1, ExchangeUntouched
<1>6. CASE UNCHANGED <<sigVars, agentVars>>
  BY <1>1, <1>6 DEF sigVars, agentVars
<1> QED
  BY <1>2, <1>3, <1>4, <1>5, <1>6
     DEF Next, OfListener, OfAgent, OfTunnel, OfLibrary, ClientExits, vars

\* Listener, agent and the link between them keep to the exchange that the two
\* servers implement, whatever fails or exits.
THEOREM ConnectionKeepsToOfferExchange == Spec => KeepsToOfferExchange
<1>1. Init => Exchange!Init
  <2> SUFFICES ASSUME Init PROVE Exchange!Init
    OBVIOUS
  <2>1. announced = {} /\ aMain = "off"
    BY DEF Init, LinkInit, AgentInit
  <2>2. \A r \in DOMAIN ReplyTypes : replies[r] = {}
    BY DEF Init, LinkInit
  <2> QED
    BY <2>1, <2>2 DEF Exchange!Init, TheOne, ReplyTypes
<1>2. ConnectionInv /\ [Next]_vars => [Exchange!Next]_(Exchange!vars)
  BY ConnectionStepKeeps
<1> QED
  BY <1>1, <1>2, ConnectionInvariant, PTL DEF Spec, KeepsToOfferExchange, Exchange!Spec
=============================================================================
