----------------------------- MODULE Signaling -----------------------------
(***************************************************************************)
(* The offerer server and the answerer server as src/server/server.go      *)
(* wires them.  They share the buffered channels of SignalingChannels and  *)
(* meet on two unbuffered ones: offerCh and closeIceToAnsCh.               *)
(*                                                                         *)
(* The host registry is reduced to what these servers see of it: it takes  *)
(* every announcement, and it tells a host of no more offers than were     *)
(* announced (NoSpuriousNotification of HostService), so a host's agents   *)
(* never outnumber them.                                                   *)
(***************************************************************************)
EXTENDS Offerer, Answerer

vars == <<channels, offererVars, answererVars>>

TypeOK == ChannelsTypeOK /\ OffererTypeOK /\ AnswererTypeOK

Init == ChannelsInit /\ OffererInit /\ AnswererInit

\* SendOffer hands its offer to offerRouter.
HandOverOffer(s) == PutOffer(s) /\ GetOffer(s, offerHost[s])

\* A WaitForICECandidate handler of the offerer that ends tells the router.
HandOverClose(s) == PutCloseIce(s) /\ GetCloseIce

AgentsOf(h) == {a \in Agents : agentHost[a] = h}

\* A host starts an agent for each notification; the agent waits for an offer.
StartAgent(a, h) ==
  /\ Cardinality(AgentsOf(h)) < notified[h]
  /\ WaitForOffer(a, h)
  /\ UNCHANGED offererVars

Next ==
  \/ \E s \in Sessions : OffererStep(s) /\ UNCHANGED answererVars
  \/ OffererRouting /\ UNCHANGED answererVars
  \/ \E a \in Agents : AgentStep(a) /\ UNCHANGED offererVars
  \/ AnswererRouting /\ UNCHANGED offererVars
  \/ \E s \in Sessions : HandOverOffer(s) \/ HandOverClose(s)
  \/ \E a \in Agents, h \in Hosts : StartAgent(a, h)

Spec == Init /\ [][Next]_vars

(***************************************************************************)
(* Goroutines that can run do run, timers expire and deadlines the servers *)
(* set pass.  A select with several ready cases picks at random, so a case *)
(* that is ready again and again is taken: strong fairness.  Nothing is    *)
(* assumed of listeners and agents: whether they call, give up or send.    *)
(***************************************************************************)
OffererAlone(A) == A /\ UNCHANGED answererVars
AnswererAlone(A) == A /\ UNCHANGED offererVars

OfferFairness ==
  /\ \A s \in Sessions :
       /\ WF_vars(OffererAlone(NotifyNewOffer(s) \/ SendOfferTimeout(s)))
       /\ SF_vars(HandOverOffer(s))
       /\ WF_vars(OffererAlone(Cleanup(s)))
       /\ \A h \in Hosts : WF_vars(AnswererAlone(WaitChanTimeout(s, h)))
  /\ WF_vars(AnswererAlone(OfferRouterLookup \/ OfferRouterPut))
  /\ \A a \in Agents : WF_vars(AnswererAlone(TakeOffer(a) \/ WaitForOfferReturn(a)))

AnswerFairness ==
  /\ WF_vars(OffererAlone(AnswerRouterRecv \/ AnswerRouterLookup))
  /\ \A s \in Sessions : WF_vars(OffererAlone(AnswerRouterPut(s)))

IceFairness ==
  /\ \A s \in Sessions :
       /\ WF_vars(OffererAlone(OffererIceRouterPut(s)))
       /\ WF_vars(OffererAlone(WaitForICECandidateTimeout(s)))
       /\ SF_vars(HandOverClose(s))
       /\ WF_vars(OffererAlone(DeleteIceChan(s)))
       /\ WF_vars(OffererAlone(PushListenerIce(s)))
       /\ WF_vars(AnswererAlone(IceChanTimeout(s)))
  /\ WF_vars(OffererAlone(OffererIceRouterRecv \/ OffererIceRouterLookup))
  /\ WF_vars(AnswererAlone(AnswererIceRouterLookup \/ AnswererIceRouterPut))
  /\ SF_vars(AnswererAlone(AnswererIceRouterRecv))
  /\ \A a \in Agents :
       /\ WF_vars(AnswererAlone(AgentWaitForICETimeout(a)))
       /\ WF_vars(AnswererAlone(PushAgentIce(a)))

\* The fair specification, and its parts for instances without candidates or
\* without answers, where the actions of the other part are never enabled.
FairSpec == Spec /\ OfferFairness /\ AnswerFairness /\ IceFairness
OfferFairSpec == Spec /\ OfferFairness /\ AnswerFairness
IceFairSpec == Spec /\ OfferFairness /\ IceFairness

-----------------------------------------------------------------------------
(* Safety.                                                                 *)

\* An offer is taken by one agent at most, through every router-made, agent-
\* made, expired and re-made waiting channel.
OfferTakenOnce ==
  \A a, b \in Agents : agentOffer[a] = agentOffer[b] /\ agentOffer[a] # None => a = b

\* An agent is given only offers addressed to the host it works for.
OfferReachesItsHost ==
  \A a \in Agents : agentOffer[a] # None => offerHost[agentOffer[a]] = agentHost[a]

\* The answer a listener is given was made by the agent that took its offer.
AnswerFromTaker ==
  \A s \in Sessions : answer[s] # None => agentOffer[answer[s]] = s

\* Both streams carry only the peer's candidates, in the order it sent them,
\* though the channel between may have been deleted and re-made.
InOrderFrom(ice, peer) ==
  /\ \A i \in DOMAIN ice : ice[i].from = peer
  /\ \A i, j \in DOMAIN ice : i < j => ice[i].n < ice[j].n

AgentIceInOrder ==
  \A a \in Agents : agentIce[a] # <<>> => InOrderFrom(agentIce[a], agentOffer[a])

ListenerIceInOrder ==
  \A s \in Sessions : listenerIce[s] # <<>> =>
    \E a \in Agents : agentOffer[a] = s /\ InOrderFrom(listenerIce[s], a)

\* The two servers implement the abstract exchange: every step of a handler, a
\* router or a timer is one of its steps or invisible.  In particular an offer
\* of a SendOffer (offerer.go:109) that timed out is never taken.
Exchange ==
  INSTANCE OfferExchange WITH
    offeredTo <- offerHost,
    outcome <- [s \in Sessions |->
                  CASE offerPhase[s] = "ok" -> "accepted"
                    [] offerPhase[s] = "timeout" -> "refused"
                    [] OTHER -> "pending"],
    workerOf <- agentHost,
    offerOf <- agentOffer,
    answeredBy <- answer

ImplementsOfferExchange == Exchange!Spec

-----------------------------------------------------------------------------
(* The inductive invariant of the exchange of offers and answers.          *)

InRouter(s) == offerRouter.at # "recv" /\ offerRouter.offer = s

\* What the handlers' program counters say about their variables.
HandlerInv ==
  /\ \A s \in Sessions : offerPhase[s] = "new" <=> offerHost[s] = None
  /\ \A a \in Agents :
       /\ agentPhase[a] = "idle" <=> agentHost[a] = None
       /\ agentPhase[a] = "idle" <=> agentCh[a] = None
       /\ agentPhase[a] \in {"taken", "ok"} <=> agentOffer[a] # None

\* An accepted offer is in one place at most: offerRouter, one buffer, or
\* one agent.
PlaceInv ==
  /\ \A s \in Sessions : InRouter(s) => offerPhase[s] = "ok"
  /\ \A c \in WaitChans, s \in Sessions :
       waitBuf[c] = s => offerPhase[s] = "ok" /\ ~InRouter(s)
  /\ \A c, d \in WaitChans : waitBuf[c] = waitBuf[d] /\ waitBuf[c] # None => c = d
  /\ \A a \in Agents, s \in Sessions :
       agentOffer[a] = s => /\ offerPhase[s] = "ok"
                            /\ ~InRouter(s)
                            /\ \A c \in WaitChans : waitBuf[c] # s
  /\ OfferTakenOnce

\* The host a waiting channel was made for.
ChanHost(c) == IF c \in Sessions THEN offerHost[c] ELSE agentHost[c]

\* Channels are looked up, held and filled on behalf of their own host only.
HostInv ==
  /\ \A h \in Hosts : hostID2waitingCh[h] # None => ChanHost(hostID2waitingCh[h]) = h
  /\ \A c \in WaitChans : waitBuf[c] # None => ChanHost(c) = offerHost[waitBuf[c]]
  /\ \A a \in Agents : agentCh[a] # None => ChanHost(agentCh[a]) = agentHost[a]
  /\ offerRouter.at # "recv" => offerRouter.host = offerHost[offerRouter.offer]
  /\ offerRouter.at = "put" => ChanHost(offerRouter.ch) = offerRouter.host
  /\ OfferReachesItsHost

\* An answer under way was made by the agent that took the session's offer.
FromTaker(p) == agentOffer[p.answer] = p.answererID

AnswerInv ==
  /\ \A i \in 1 .. Len(answerCh) : FromTaker(answerCh[i])
  /\ answerRouter.at # "recv" => FromTaker(answerRouter.pkt)
  /\ AnswerFromTaker

\* The types the argument needs.
ExchangeTypeOK ==
  /\ offerPhase \in [Sessions -> {"new", "notify", "offer", "ok", "timeout"}]
  /\ offerHost \in [Sessions -> Hosts \cup {None}]
  /\ answerCh \in Seq(AnsPacket)
  /\ answer \in [Sessions -> Agents \cup {None}]
  /\ answerRouter \in [at : {"recv", "lookup", "put"}, pkt : AnsPacket \cup {None}]
  /\ answerRouter.at # "recv" => answerRouter.pkt \in AnsPacket
  /\ WaitingTypeOK

ExchangeInv ==
  ExchangeTypeOK /\ HandlerInv /\ PlaceInv /\ HostInv /\ AnswerInv

-----------------------------------------------------------------------------
(* The inductive invariant of the exchange of candidates.  In both         *)
(* directions a sender holds one candidate at a time, pushes it into a     *)
(* channel, and a router passes it on: that is a line, the router in front.*)

Earlier(c, d) == c.from = d.from => c.n < d.n

Ordered(ice) == \A i, j \in DOMAIN ice : i < j => Earlier(ice[i], ice[j])

\* c has been passed on before what the router has and what the channel holds.
Precedes(c, router, ch) ==
  /\ router.at # "recv" => Earlier(c, router.pkt.iceCandidate)
  /\ \A i \in DOMAIN ch : Earlier(c, ch[i].iceCandidate)

LineInv(router, ch) ==
  /\ \A i, j \in DOMAIN ch : i < j => Earlier(ch[i].iceCandidate, ch[j].iceCandidate)
  /\ router.at # "recv" =>
       \A i \in DOMAIN ch : Earlier(router.pkt.iceCandidate, ch[i].iceCandidate)

\* The n-th candidate was received before the one its sender's goroutine holds.
WasSent(n, sent, held) == n <= sent /\ (held # 0 => n < held)

FromAgent(s, c) ==
  /\ c.from \in Agents
  /\ agentOffer[c.from] = s
  /\ WasSent(c.n, agentSent[c.from], agentHeld[c.from])

FromListener(s, c) ==
  c.from = s /\ WasSent(c.n, listenerSent[s], listenerHeld[s])

\* A listener is given candidates of agents that took its offer.
ToListenerInv ==
  /\ \A a \in Agents :
       /\ agentHeld[a] <= agentSent[a]
       /\ agentOffer[a] = None => agentStream[a] = "idle" /\ agentSent[a] = 0
  /\ LineInv(offererIceRouter, iceToOfferCh)
  /\ \A i \in DOMAIN iceToOfferCh :
       FromAgent(iceToOfferCh[i].answererID, iceToOfferCh[i].iceCandidate)
  /\ offererIceRouter.at # "recv" =>
       FromAgent(offererIceRouter.pkt.answererID, offererIceRouter.pkt.iceCandidate)
  /\ \A s \in Sessions :
       /\ Ordered(listenerIce[s])
       /\ \A i \in DOMAIN listenerIce[s] :
            /\ FromAgent(s, listenerIce[s][i])
            /\ Precedes(listenerIce[s][i], offererIceRouter, iceToOfferCh)

\* Every ICE channel ever made for a session holds candidates of its listener,
\* and the agent reads one channel only, which is behind what it was given.
ToAgentInv ==
  /\ \A s \in Sessions : listenerHeld[s] <= listenerSent[s]
  /\ LineInv(answererIceRouter, iceToAnsCh)
  /\ \A i \in DOMAIN iceToAnsCh :
       FromListener(iceToAnsCh[i].answererID, iceToAnsCh[i].iceCandidate)
  /\ answererIceRouter.at # "recv" =>
       FromListener(answererIceRouter.pkt.answererID, answererIceRouter.pkt.iceCandidate)
  /\ \A s \in Sessions : \A k \in DOMAIN iceChans[s] :
       /\ Ordered(iceChans[s][k])
       /\ \A i \in DOMAIN iceChans[s][k] :
            /\ FromListener(s, iceChans[s][k][i])
            /\ Precedes(iceChans[s][k][i], answererIceRouter, iceToAnsCh)
  /\ \A a \in Agents :
       /\ Ordered(agentIce[a])
       /\ \A i \in DOMAIN agentIce[a] :
            /\ FromListener(agentOffer[a], agentIce[a][i])
            /\ Precedes(agentIce[a][i], answererIceRouter, iceToAnsCh)
       /\ agentIceWait[a] = "idle" => agentIce[a] = <<>>
       /\ agentIceWait[a] = "streaming" =>
            /\ agentOffer[a] # None
            /\ agentIceChan[a] \in DOMAIN iceChans[agentOffer[a]]
            /\ \A i \in DOMAIN agentIce[a],
                  j \in DOMAIN iceChans[agentOffer[a]][agentIceChan[a]] :
                 Earlier(agentIce[a][i], iceChans[agentOffer[a]][agentIceChan[a]][j])

IceInv == TypeOK /\ ToListenerInv /\ ToAgentInv

-----------------------------------------------------------------------------
(* Liveness.                                                               *)

\* SendOffer always returns, also when offerRouter is stuck for good.
SendOfferReturns ==
  \A s \in Sessions : offerPhase[s] \in {"notify", "offer"} ~> offerPhase[s] \in {"ok", "timeout"}

\* Both maps of the offerer forget a session and never know it again:
\* "map should be eventually deleted even if the client isn't attached".
SessionForgotten ==
  \A s \in Sessions : offerPhase[s] # "new" ~> [](s \notin offererIceChan \cup AnsID2AnsChan)

\* The answerer's ICE channel of a session does not stay in its map once the
\* routers have passed on what there was.
AnswererIceForgotten ==
  \A s \in Sessions : [](answererIceChan[s] # 0 => <>(answererIceChan[s] = 0))

\* Both WaitForICECandidate handlers end, attached or not.
IceStreamsEnd ==
  /\ \A s \in Sessions : listenerIceWait[s] = "streaming" ~> listenerIceWait[s] = "done"
  /\ \A a \in Agents : agentIceWait[a] = "streaming" ~> agentIceWait[a] = "done"

-----------------------------------------------------------------------------
(* What comments say and the code does not do.                             *)

\* "SendOffer sends a offer to the answerer": an offer SendOffer accepted is
\* taken while an agent of its host keeps waiting.
AcceptedOfferIsTaken ==
  \A s \in Sessions :
    (offerPhase[s] = "ok" /\ \E a \in Agents : agentPhase[a] = "waiting" /\ agentHost[a] = offerHost[s])
      ~> ((\E a \in Agents : agentOffer[a] = s)
            \/ ~\E a \in Agents : agentPhase[a] = "waiting" /\ agentHost[a] = offerHost[s])

\* "SendAnswer sends a answer to the offerer": an answer SendAnswer accepted
\* reaches a listener that is waiting for it, or the listener stops waiting.
AcceptedAnswerArrives ==
  \A a \in Agents, s \in Sessions :
    (answerSend[a] = "ok" /\ agentOffer[a] = s /\ answerWait[s] = "waiting")
      ~> answerWait[s] # "waiting"
=============================================================================
