----------------------------- MODULE Answerer ------------------------------
(***************************************************************************)
(* The answerer server, src/server/anserer.go: its handlers, which run for *)
(* the agents of the hosts, its two routers and its timers.                *)
(*                                                                         *)
(* hostID2waitingCh maps a host to a channel of capacity one.  A channel   *)
(* outlives its map entry: a handler or the router may still hold it.  It  *)
(* is named by what created it, a WaitForOffer call (an agent) or the      *)
(* router on behalf of an offer (a session); each creates at most one.     *)
(* The ICE channels of a session are numbered in order of creation.        *)
(***************************************************************************)
EXTENDS SignalingChannels

WaitChans == Sessions \cup Agents

VARIABLES
  hostID2waitingCh, \* the waiting channel of each host, or None
  waitBuf,          \* the offer buffered in each waiting channel, or None
  waitTimers,       \* router-made waiting channels whose deletion is due
  offerRouter,      \* program counter, offer and channel of offerRouter
  agentPhase,       \* program counter of each agent's WaitForOffer
  agentHost,        \* the host the agent works for
  agentCh,          \* the waiting channel it reads
  agentOffer,       \* the offer it took, None before
  answerSend,       \* outcome of its SendAnswer
  iceChans,         \* the ICE channels made for each session, with contents
  answererIceChan,  \* number of the one in AnsID2iceToAnsChan, 0 for none
  iceTimers,        \* numbers of the ones whose deletion timer is running
  answererIceRouter, \* program counter, packet and channel of the router
  agentIceWait,     \* program counter of each agent's WaitForICECandidate
  agentIceChan,     \* the number of the ICE channel it reads
  agentIce,         \* history: candidates its stream delivered
  agentStream,      \* state of the SendIceCandidate stream of the agent
  agentHeld,        \* candidate its goroutine received and has not pushed yet
  agentSent         \* candidates received from that stream

waitingVars == <<hostID2waitingCh, waitBuf, waitTimers, offerRouter>>
agentVars == <<agentPhase, agentHost, agentCh, agentOffer>>
iceChanVars == <<iceChans, answererIceChan, iceTimers>>
agentIceVars == <<agentIceWait, agentIceChan, agentIce>>
agentStreamVars == <<agentStream, agentHeld, agentSent>>
answererVars == <<waitingVars, agentVars, answerSend, iceChanVars,
                  answererIceRouter, agentIceVars, agentStreamVars>>

WaitingTypeOK ==
  /\ hostID2waitingCh \in [Hosts -> WaitChans \cup {None}]
  /\ waitBuf \in [WaitChans -> Sessions \cup {None}]
  /\ waitTimers \in SUBSET (Sessions \X Hosts)
  /\ offerRouter \in [at : {"recv", "lookup", "put"}, offer : Sessions \cup {None},
                      host : Hosts \cup {None}, ch : WaitChans \cup {None}]
  /\ offerRouter.at # "recv" => offerRouter.offer # None /\ offerRouter.host # None
  /\ offerRouter.at = "put" => offerRouter.ch # None
  /\ agentPhase \in [Agents -> {"idle", "waiting", "taken", "ok", "cancelled"}]
  /\ agentHost \in [Agents -> Hosts \cup {None}]
  /\ agentCh \in [Agents -> WaitChans \cup {None}]
  /\ agentOffer \in [Agents -> Sessions \cup {None}]

AnswererTypeOK ==
  /\ WaitingTypeOK
  /\ answerSend \in [Agents -> {"idle", "ok", "timeout"}]
  /\ iceChans \in [Sessions -> Seq(Seq(Candidates))]
  /\ answererIceChan \in [Sessions -> Nat]
  /\ \A s \in Sessions : answererIceChan[s] \in 0 .. Len(iceChans[s])
  /\ iceTimers \in [Sessions -> SUBSET Nat]
  /\ answererIceRouter \in
       [at : {"recv", "lookup", "put"}, pkt : IcePacket \cup {None}, ch : Nat]
  /\ answererIceRouter.at # "recv" => answererIceRouter.pkt \in IcePacket
  /\ answererIceRouter.at = "put" =>
       answererIceRouter.ch \in 1 .. Len(iceChans[answererIceRouter.pkt.answererID])
  /\ agentIceWait \in [Agents -> {"idle", "streaming", "done", "notFound"}]
  /\ agentIceChan \in [Agents -> Nat]
  /\ agentIce \in [Agents -> Seq(Candidates)]
  /\ agentStream \in [Agents -> {"idle", "open", "ended"}]
  /\ agentHeld \in [Agents -> 0 .. MaxIce]
  /\ agentSent \in [Agents -> 0 .. MaxIce]

IdleOfferRouter == [at |-> "recv", offer |-> None, host |-> None, ch |-> None]
IdleIceRouter == [at |-> "recv", pkt |-> None, ch |-> 0]

AnswererInit ==
  /\ hostID2waitingCh = [h \in Hosts |-> None]
  /\ waitBuf = [c \in WaitChans |-> None]
  /\ waitTimers = {}
  /\ offerRouter = IdleOfferRouter
  /\ agentPhase = [a \in Agents |-> "idle"]
  /\ agentHost = [a \in Agents |-> None]
  /\ agentCh = [a \in Agents |-> None]
  /\ agentOffer = [a \in Agents |-> None]
  /\ answerSend = [a \in Agents |-> "idle"]
  /\ iceChans = [s \in Sessions |-> <<>>]
  /\ answererIceChan = [s \in Sessions |-> 0]
  /\ iceTimers = [s \in Sessions |-> {}]
  /\ answererIceRouter = IdleIceRouter
  /\ agentIceWait = [a \in Agents |-> "idle"]
  /\ agentIceChan = [a \in Agents |-> 0]
  /\ agentIce = [a \in Agents |-> <<>>]
  /\ agentStream = [a \in Agents |-> "idle"]
  /\ agentHeld = [a \in Agents |-> 0]
  /\ agentSent = [a \in Agents |-> 0]

-----------------------------------------------------------------------------
(* WaitForOffer.                                                           *)

\* The waiting channel of host h, made by c if the host has none.
WaitChanOf(h, c) == IF hostID2waitingCh[h] = None THEN c ELSE hostID2waitingCh[h]

\* First locked section: find or make the channel.  A channel made here gets
\* no timer: its map entry stays.
WaitForOffer(a, h) ==
  /\ agentPhase[a] = "idle"
  /\ agentPhase' = [agentPhase EXCEPT ![a] = "waiting"]
  /\ agentHost' = [agentHost EXCEPT ![a] = h]
  /\ agentCh' = [agentCh EXCEPT ![a] = WaitChanOf(h, a)]
  /\ hostID2waitingCh' = [hostID2waitingCh EXCEPT ![h] = WaitChanOf(h, a)]
  /\ UNCHANGED <<channels, waitBuf, waitTimers, offerRouter, agentOffer, answerSend,
                 iceChanVars, answererIceRouter, agentIceVars, agentStreamVars>>

\* case <-ctx.Done(): the caller's context, the server sets no deadline.
WaitForOfferTimeout(a) ==
  /\ agentPhase[a] = "waiting"
  /\ agentPhase' = [agentPhase EXCEPT ![a] = "cancelled"]
  /\ UNCHANGED <<channels, waitingVars, agentHost, agentCh, agentOffer, answerSend,
                 iceChanVars, answererIceRouter, agentIceVars, agentStreamVars>>

TakeFrom_peek(c) == waitBuf

\* A receive empties the one-place buffer.
TakeFrom(c) == [waitBuf EXCEPT ![c] = None]

\* case offer = <-ch
TakeOffer(a) ==
  /\ agentPhase[a] = "waiting"
  /\ waitBuf[agentCh[a]] # None
  /\ agentPhase' = [agentPhase EXCEPT ![a] = "taken"]
  /\ agentOffer' = [agentOffer EXCEPT ![a] = waitBuf[agentCh[a]]]
  /\ waitBuf' = TakeFrom(agentCh[a])
  /\ UNCHANGED <<channels, hostID2waitingCh, waitTimers, offerRouter, agentHost,
                 agentCh, answerSend, iceChanVars, answererIceRouter, agentIceVars,
                 agentStreamVars>>

IceTimerArmed_never(s, k) == {}

\* go func() { time.Sleep(...); ...; delete(a.AnsID2iceToAnsChan, ...) }()
IceTimerArmed(s, k) == {k}

\* Make an ICE channel for session s, with its timer, unless there is one.
EnsureIceChan(s) ==
  IF answererIceChan[s] # 0 THEN UNCHANGED iceChanVars
  ELSE LET k == Len(iceChans[s]) + 1
       IN  /\ iceChans' = [iceChans EXCEPT ![s] = Append(@, <<>>)]
           /\ answererIceChan' = [answererIceChan EXCEPT ![s] = k]
           /\ iceTimers' = [iceTimers EXCEPT ![s] = @ \cup IceTimerArmed(s, k)]

\* Second locked section, and the response.
WaitForOfferReturn(a) ==
  /\ agentPhase[a] = "taken"
  /\ agentPhase' = [agentPhase EXCEPT ![a] = "ok"]
  /\ EnsureIceChan(agentOffer[a])
  /\ UNCHANGED <<channels, waitingVars, agentHost, agentCh, agentOffer, answerSend,
                 answererIceRouter, agentIceVars, agentStreamVars>>

-----------------------------------------------------------------------------
(* offerRouter.                                                            *)

\* case offer := <-a.recvOfferCh: the receiver's half of the rendezvous with
\* SendOffer.
GetOffer(s, h) ==
  /\ offerRouter.at = "recv"
  /\ offerRouter' = [at |-> "lookup", offer |-> s, host |-> h, ch |-> None]
  /\ UNCHANGED <<channels, hostID2waitingCh, waitBuf, waitTimers, agentVars,
                 answerSend, iceChanVars, answererIceRouter, agentIceVars,
                 agentStreamVars>>

WaitChanForOffer_anyHost ==
  IF \E h \in Hosts : hostID2waitingCh[h] # None
    THEN hostID2waitingCh[CHOOSE h \in Hosts : hostID2waitingCh[h] # None]
    ELSE offerRouter.offer

WaitChanForOffer_notMade == hostID2waitingCh[offerRouter.host]

\* a.hostID2waitingCh[offer.hostID], made for this offer if there is none.
WaitChanForOffer == WaitChanOf(offerRouter.host, offerRouter.offer)

\* The locked section: find or make the host's channel.  Only a channel made
\* here gets a timer, which deletes the host's entry, whatever it then is.
OfferRouterLookup ==
  /\ offerRouter.at = "lookup"
  /\ offerRouter' = [offerRouter EXCEPT !.at = "put", !.ch = WaitChanForOffer]
  /\ hostID2waitingCh' = [hostID2waitingCh EXCEPT ![offerRouter.host] = WaitChanForOffer]
  /\ waitTimers' = IF hostID2waitingCh[offerRouter.host] = None
                     THEN waitTimers \cup {<<offerRouter.offer, offerRouter.host>>}
                     ELSE waitTimers
  /\ UNCHANGED <<channels, waitBuf, agentVars, answerSend, iceChanVars,
                 answererIceRouter, agentIceVars, agentStreamVars>>

\* ch <- offer: blocks while the one place is taken.
OfferRouterPut ==
  /\ offerRouter.at = "put"
  /\ waitBuf[offerRouter.ch] = None
  /\ waitBuf' = [waitBuf EXCEPT ![offerRouter.ch] = offerRouter.offer]
  /\ offerRouter' = IdleOfferRouter
  /\ UNCHANGED <<channels, hostID2waitingCh, waitTimers, agentVars, answerSend,
                 iceChanVars, answererIceRouter, agentIceVars, agentStreamVars>>

WaitChanTimeout(s, h) ==
  /\ <<s, h>> \in waitTimers
  /\ waitTimers' = waitTimers \ {<<s, h>>}
  /\ hostID2waitingCh' = [hostID2waitingCh EXCEPT ![h] = None]
  /\ UNCHANGED <<channels, waitBuf, offerRouter, agentVars, answerSend, iceChanVars,
                 answererIceRouter, agentIceVars, agentStreamVars>>

-----------------------------------------------------------------------------
(* SendAnswer.                                                             *)

SendAnswer(a) ==
  /\ a \in Answering
  /\ agentPhase[a] = "ok"
  /\ answerSend[a] = "idle"
  /\ HasRoom(answerCh)
  /\ answerCh' = Append(answerCh, [answererID |-> agentOffer[a], answer |-> a])
  /\ answerSend' = [answerSend EXCEPT ![a] = "ok"]
  /\ UNCHANGED <<iceToAnsCh, iceToOfferCh, waitingVars, agentVars, iceChanVars,
                 answererIceRouter, agentIceVars, agentStreamVars>>

SendAnswerTimeout(a) ==
  /\ a \in Answering
  /\ agentPhase[a] = "ok"
  /\ answerSend[a] = "idle"
  /\ answerSend' = [answerSend EXCEPT ![a] = "timeout"]
  /\ UNCHANGED <<channels, waitingVars, agentVars, iceChanVars, answererIceRouter,
                 agentIceVars, agentStreamVars>>

-----------------------------------------------------------------------------
(* Candidates for the agent: iceCandidateRouter and WaitForICECandidate.   *)

AnswererIceRouterRecv ==
  /\ answererIceRouter.at = "recv"
  /\ iceToAnsCh # <<>>
  /\ answererIceRouter' = [at |-> "lookup", pkt |-> Head(iceToAnsCh), ch |-> 0]
  /\ iceToAnsCh' = Tail(iceToAnsCh)
  /\ UNCHANGED <<answerCh, iceToOfferCh, waitingVars, agentVars, answerSend,
                 iceChanVars, agentIceVars, agentStreamVars>>

GetCloseIce_dropped == FALSE

\* case <-a.recvCloseIceToAnsCh: received and ignored.
GetCloseIce ==
  /\ answererIceRouter.at = "recv"
  /\ UNCHANGED <<channels, answererVars>>

AnswererIceRouterLookup ==
  LET s == answererIceRouter.pkt.answererID
  IN  /\ answererIceRouter.at = "lookup"
      /\ EnsureIceChan(s)
      /\ answererIceRouter' = [answererIceRouter EXCEPT !.at = "put",
                                                        !.ch = answererIceChan'[s]]
      /\ UNCHANGED <<channels, waitingVars, agentVars, answerSend, agentIceVars,
                     agentStreamVars>>

\* ch <- ice.iceCandidate, outside the lock.
AnswererIceRouterPut ==
  LET s == answererIceRouter.pkt.answererID
      k == answererIceRouter.ch
  IN  /\ answererIceRouter.at = "put"
      /\ HasRoom(iceChans[s][k])
      /\ iceChans' = [iceChans EXCEPT ![s][k] =
                        Append(@, answererIceRouter.pkt.iceCandidate)]
      /\ answererIceRouter' = IdleIceRouter
      /\ UNCHANGED <<channels, waitingVars, agentVars, answerSend, answererIceChan,
                     iceTimers, agentIceVars, agentStreamVars>>

\* The timer of channel k deletes the entry of s, whichever channel is there.
IceChanTimeout(s) ==
  \E k \in iceTimers[s] :
    /\ iceTimers' = [iceTimers EXCEPT ![s] = @ \ {k}]
    /\ answererIceChan' = [answererIceChan EXCEPT ![s] = 0]
    /\ UNCHANGED <<channels, waitingVars, agentVars, answerSend, iceChans,
                   answererIceRouter, agentIceVars, agentStreamVars>>

AgentWaitForICECandidate(a) ==
  /\ a \in IceReceivers
  /\ agentPhase[a] = "ok"
  /\ agentIceWait[a] = "idle"
  /\ agentIceChan' = [agentIceChan EXCEPT ![a] = answererIceChan[agentOffer[a]]]
  /\ agentIceWait' = [agentIceWait EXCEPT ![a] =
                        IF answererIceChan[agentOffer[a]] # 0
                          THEN "streaming" ELSE "notFound"]
  /\ UNCHANGED <<channels, waitingVars, agentVars, answerSend, iceChanVars,
                 answererIceRouter, agentIce, agentStreamVars>>

\* case ice := <-ch, and the srv.Send that delivers it or fails; a failure
\* ends the handler, whose deferred function deletes the session's entry.
ForwardToAgent(a) ==
  LET s == agentOffer[a]
      k == agentIceChan[a]
      Ice == Head(iceChans[s][k])
  IN  /\ agentIceWait[a] = "streaming"
      /\ iceChans[s][k] # <<>>
      /\ iceChans' = [iceChans EXCEPT ![s][k] = Tail(@)]
      /\ \/ /\ agentIce' = [agentIce EXCEPT ![a] = Append(@, Ice)]
            /\ UNCHANGED <<agentIceWait, answererIceChan>>
         \/ /\ agentIceWait' = [agentIceWait EXCEPT ![a] = "done"]
            /\ answererIceChan' = [answererIceChan EXCEPT ![s] = 0]
            /\ UNCHANGED agentIce
      /\ UNCHANGED <<channels, waitingVars, agentVars, answerSend, iceTimers,
                     answererIceRouter, agentIceChan, agentStreamVars>>

\* The handler's own ten seconds are over.
AgentWaitForICETimeout(a) ==
  /\ agentIceWait[a] = "streaming"
  /\ agentIceWait' = [agentIceWait EXCEPT ![a] = "done"]
  /\ answererIceChan' = [answererIceChan EXCEPT ![agentOffer[a]] = 0]
  /\ UNCHANGED <<channels, waitingVars, agentVars, answerSend, iceChans, iceTimers,
                 answererIceRouter, agentIceChan, agentIce, agentStreamVars>>

-----------------------------------------------------------------------------
(* Candidates from the agent: SendIceCandidate.                            *)

OpenAgentStream(a) ==
  /\ a \in IceSenders
  /\ agentPhase[a] = "ok"
  /\ agentStream[a] = "idle"
  /\ agentStream' = [agentStream EXCEPT ![a] = "open"]
  /\ UNCHANGED <<channels, waitingVars, agentVars, answerSend, iceChanVars,
                 answererIceRouter, agentIceVars, agentHeld, agentSent>>

\* srv.Recv() in the goroutine of the current round.
RecvAgentIce(a) ==
  /\ agentStream[a] = "open"
  /\ agentHeld[a] = 0
  /\ agentSent[a] < MaxIce
  /\ agentSent' = [agentSent EXCEPT ![a] = @ + 1]
  /\ agentHeld' = [agentHeld EXCEPT ![a] = agentSent[a] + 1]
  /\ UNCHANGED <<channels, waitingVars, agentVars, answerSend, iceChanVars,
                 answererIceRouter, agentIceVars, agentStream>>

AgentPush_atFront(a) ==
  <<[answererID |-> agentOffer[a], iceCandidate |-> [from |-> a, n |-> agentHeld[a]]]>>
    \o iceToOfferCh

AgentPush(a) ==
  Append(iceToOfferCh, [answererID |-> agentOffer[a],
                        iceCandidate |-> [from |-> a, n |-> agentHeld[a]]])

\* a.iceToOfferCh <- IcePacket{...}: also after the handler has returned.
PushAgentIce(a) ==
  /\ agentHeld[a] > 0
  /\ HasRoom(iceToOfferCh)
  /\ iceToOfferCh' = AgentPush(a)
  /\ agentHeld' = [agentHeld EXCEPT ![a] = 0]
  /\ UNCHANGED <<answerCh, iceToAnsCh, waitingVars, agentVars, answerSend,
                 iceChanVars, answererIceRouter, agentIceVars, agentStream, agentSent>>

\* case <-srv.Context().Done()
EndAgentStream(a) ==
  /\ agentStream[a] = "open"
  /\ agentStream' = [agentStream EXCEPT ![a] = "ended"]
  /\ UNCHANGED <<channels, waitingVars, agentVars, answerSend, iceChanVars,
                 answererIceRouter, agentIceVars, agentHeld, agentSent>>

-----------------------------------------------------------------------------
\* The steps of the answerer server that involve no step of the offerer,
\* but for the call of WaitForOffer, which a notification precedes.
AgentStep(a) ==
  \/ WaitForOfferTimeout(a) \/ TakeOffer(a) \/ WaitForOfferReturn(a)
  \/ SendAnswer(a) \/ SendAnswerTimeout(a)
  \/ AgentWaitForICECandidate(a) \/ ForwardToAgent(a) \/ AgentWaitForICETimeout(a)
  \/ OpenAgentStream(a) \/ RecvAgentIce(a) \/ PushAgentIce(a) \/ EndAgentStream(a)

AnswererRouting ==
  \/ OfferRouterLookup \/ OfferRouterPut
  \/ \E s \in Sessions, h \in Hosts : WaitChanTimeout(s, h)
  \/ AnswererIceRouterRecv \/ AnswererIceRouterLookup \/ AnswererIceRouterPut
  \/ \E s \in Sessions : IceChanTimeout(s)
=============================================================================
