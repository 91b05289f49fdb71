------------------------- MODULE SignalingProofs --------------------------
(***************************************************************************)
(* The exchange of offers and answers is safe for any hosts, sessions and  *)
(* agents and any channel capacity: ExchangeInv is inductive.  One lemma   *)
(* per action that touches its variables, one for all the others.          *)
(***************************************************************************)
EXTENDS Signaling, TLAPS

\* The variables ExchangeInv reads.
exchangeVars == <<offerPhase, offerHost, answerCh, answer, answerRouter,
                  waitingVars, agentVars>>

LEMMA InitExchangeInv == Init => ExchangeInv
<1> SUFFICES ASSUME Init PROVE ExchangeInv
  OBVIOUS
<1> USE NamesAssumption DEF Init, ChannelsInit, OffererInit, AnswererInit,
        IdleOfferRouter, WaitChans
<1>1. ExchangeTypeOK
  <2>1. waitBuf \in [WaitChans -> Sessions \cup {None}]
        /\ hostID2waitingCh \in [Hosts -> WaitChans \cup {None}]
    OBVIOUS
  <2>2. offerRouter \in [at : {"recv", "lookup", "put"}, offer : Sessions \cup {None},
                         host : Hosts \cup {None}, ch : WaitChans \cup {None}]
        /\ answerRouter \in [at : {"recv", "lookup", "put"}, pkt : AnsPacket \cup {None}]
    OBVIOUS
  <2> QED
    BY <2>1, <2>2 DEF ExchangeTypeOK, WaitingTypeOK
<1>2. HandlerInv
  BY DEF HandlerInv
<1>3. PlaceInv
  BY DEF PlaceInv, InRouter, OfferTakenOnce
<1>4. HostInv
  BY DEF HostInv, OfferReachesItsHost
<1>5. AnswerInv
  BY DEF AnswerInv, AnswerFromTaker
<1> QED
  BY <1>1, <1>2, <1>3, <1>4, <1>5 DEF ExchangeInv

LEMMA QuietStep ==
  ASSUME ExchangeInv, UNCHANGED exchangeVars
  PROVE  ExchangeInv'
BY DEF exchangeVars, waitingVars, agentVars, ExchangeInv, ExchangeTypeOK, WaitingTypeOK,
   HandlerInv, PlaceInv, InRouter, OfferTakenOnce, HostInv, ChanHost,
   OfferReachesItsHost, AnswerInv, FromTaker, AnswerFromTaker

LEMMA SendOfferInv ==
  ASSUME ExchangeInv, NEW s \in Sessions, NEW h \in Hosts, SendOffer(s, h), UNCHANGED answererVars
  PROVE  ExchangeInv'
<1> USE NamesAssumption
        DEF SendOffer, ExchangeInv, ExchangeTypeOK, WaitingTypeOK, WaitChans,
            channels, offererVars, answererVars, offerVars, answerVars,
            waitingVars, agentVars
<1>1. ExchangeTypeOK'
  OBVIOUS
<1>2. HandlerInv'
  BY DEF HandlerInv
<1>3. PlaceInv'
  BY DEF HandlerInv, PlaceInv, InRouter, OfferTakenOnce
<1>4. HostInv'
  <2>1. offerHost[s] = None /\ \A c \in WaitChans : ChanHost(c) # None => ChanHost(c)' = ChanHost(c)
    BY DEF HandlerInv, ChanHost
  <2>2. \A r \in Sessions : offerHost[r] # None => offerHost'[r] = offerHost[r]
    BY <2>1
  <2>3. \A g \in Hosts : hostID2waitingCh[g] # None => ChanHost(hostID2waitingCh[g])' = g
    BY <2>1 DEF HostInv
  <2>4. \A c \in WaitChans : waitBuf[c] # None =>
          ChanHost(c)' = offerHost'[waitBuf[c]]
    BY <2>1, <2>2 DEF HostInv, PlaceInv, HandlerInv
  <2>5. \A a \in Agents : agentCh[a] # None => ChanHost(agentCh[a])' = agentHost[a]
    BY <2>1 DEF HostInv, HandlerInv
  <2>6. offerRouter.at # "recv" => offerRouter.host = offerHost'[offerRouter.offer]
    BY <2>2 DEF HostInv
  <2>7. offerRouter.at = "put" => ChanHost(offerRouter.ch)' = offerRouter.host
    BY <2>1 DEF HostInv
  <2>8. \A a \in Agents : agentOffer[a] # None => offerHost'[agentOffer[a]] = agentHost[a]
    BY <2>2 DEF HostInv, OfferReachesItsHost, HandlerInv, PlaceInv
  <2> QED
    BY <2>3, <2>4, <2>5, <2>6, <2>7, <2>8 DEF HostInv, OfferReachesItsHost, ChanHost
<1>5. AnswerInv'
  BY DEF HandlerInv, AnswerInv, FromTaker, AnswerFromTaker, AnsPacket
<1> QED
  BY <1>1, <1>2, <1>3, <1>4, <1>5

LEMMA NotifyNewOfferInv ==
  ASSUME ExchangeInv, NEW s \in Sessions, NotifyNewOffer(s), UNCHANGED answererVars
  PROVE  ExchangeInv'
<1> USE NamesAssumption
        DEF NotifyNewOffer, ExchangeInv, ExchangeTypeOK, WaitingTypeOK, WaitChans,
            channels, offererVars, answererVars, offerVars, answerVars,
            waitingVars, agentVars
<1>1. ExchangeTypeOK'
  OBVIOUS
<1>2. HandlerInv'
  BY DEF HandlerInv
<1>3. PlaceInv'
  BY DEF HandlerInv, PlaceInv, InRouter, OfferTakenOnce
<1>4. HostInv'
  BY DEF HandlerInv, HostInv, ChanHost, OfferReachesItsHost, PlaceInv, InRouter
<1>5. AnswerInv'
  BY DEF HandlerInv, AnswerInv, FromTaker, AnswerFromTaker, AnsPacket
<1> QED
  BY <1>1, <1>2, <1>3, <1>4, <1>5

LEMMA SendOfferTimeoutInv ==
  ASSUME ExchangeInv, NEW s \in Sessions, SendOfferTimeout(s), UNCHANGED answererVars
  PROVE  ExchangeInv'
<1> USE NamesAssumption
        DEF SendOfferTimeout, SendOfferTimesOutIn, ExchangeInv, ExchangeTypeOK, WaitingTypeOK, WaitChans,
            channels, offererVars, answererVars, offerVars, answerVars,
            waitingVars, agentVars
<1>1. ExchangeTypeOK'
  OBVIOUS
<1>2. HandlerInv'
  BY DEF HandlerInv
<1>3. PlaceInv'
  BY DEF HandlerInv, PlaceInv, InRouter, OfferTakenOnce
<1>4. HostInv'
  BY DEF HandlerInv, HostInv, ChanHost, OfferReachesItsHost, PlaceInv, InRouter
<1>5. AnswerInv'
  BY DEF HandlerInv, AnswerInv, FromTaker, AnswerFromTaker, AnsPacket
<1> QED
  BY <1>1, <1>2, <1>3, <1>4, <1>5

LEMMA HandOverOfferInv ==
  ASSUME ExchangeInv, NEW s \in Sessions, HandOverOffer(s)
  PROVE  ExchangeInv'
<1> USE NamesAssumption
        DEF HandOverOffer, PutOffer, GetOffer, ExchangeInv, ExchangeTypeOK, WaitingTypeOK, WaitChans,
            channels, offererVars, answererVars, offerVars, answerVars,
            waitingVars, agentVars
<1>1. ExchangeTypeOK'
  BY DEF HandlerInv, AnsPacket
<1>2. HandlerInv'
  BY DEF HandlerInv
<1>3. PlaceInv'
  BY DEF HandlerInv, PlaceInv, InRouter, OfferTakenOnce
<1>4. HostInv'
  BY DEF HandlerInv, HostInv, ChanHost, OfferReachesItsHost, PlaceInv, InRouter
<1>5. AnswerInv'
  BY DEF HandlerInv, AnswerInv, FromTaker, AnswerFromTaker, AnsPacket
<1> QED
  BY <1>1, <1>2, <1>3, <1>4, <1>5

LEMMA AnswerRouterRecvInv ==
  ASSUME ExchangeInv, AnswerRouterRecv, UNCHANGED answererVars
  PROVE  ExchangeInv'
<1> USE NamesAssumption
        DEF AnswerRouterRecv, ExchangeInv, ExchangeTypeOK, WaitingTypeOK, WaitChans,
            channels, offererVars, answererVars, offerVars, answerVars,
            waitingVars, agentVars
<1>1. ExchangeTypeOK'
  <2>1. Head(answerCh) \in AnsPacket /\ Tail(answerCh) \in Seq(AnsPacket)
    OBVIOUS
  <2> QED
    BY <2>1
<1>2. HandlerInv'
  BY DEF HandlerInv
<1>3. PlaceInv'
  BY DEF HandlerInv, PlaceInv, InRouter, OfferTakenOnce
<1>4. HostInv'
  BY DEF HandlerInv, HostInv, ChanHost, OfferReachesItsHost, PlaceInv, InRouter
<1>5. AnswerInv'
  BY DEF HandlerInv, AnswerInv, FromTaker, AnswerFromTaker, AnsPacket
<1> QED
  BY <1>1, <1>2, <1>3, <1>4, <1>5

LEMMA AnswerRouterLookupInv ==
  ASSUME ExchangeInv, AnswerRouterLookup, UNCHANGED answererVars
  PROVE  ExchangeInv'
<1> USE NamesAssumption
        DEF AnswerRouterLookup, ExchangeInv, ExchangeTypeOK, WaitingTypeOK, WaitChans,
            channels, offererVars, answererVars, offerVars, answerVars,
            waitingVars, agentVars
<1>1. ExchangeTypeOK'
  OBVIOUS
<1>2. HandlerInv'
  BY DEF HandlerInv
<1>3. PlaceInv'
  BY DEF HandlerInv, PlaceInv, InRouter, OfferTakenOnce
<1>4. HostInv'
  BY DEF HandlerInv, HostInv, ChanHost, OfferReachesItsHost, PlaceInv, InRouter
<1>5. AnswerInv'
  BY DEF HandlerInv, AnswerInv, FromTaker, AnswerFromTaker, AnsPacket
<1> QED
  BY <1>1, <1>2, <1>3, <1>4, <1>5

LEMMA AnswerRouterPutInv ==
  ASSUME ExchangeInv, NEW s \in Sessions, AnswerRouterPut(s), UNCHANGED answererVars
  PROVE  ExchangeInv'
<1> USE NamesAssumption
        DEF AnswerRouterPut, AnswerFor, ExchangeInv, ExchangeTypeOK, WaitingTypeOK, WaitChans,
            channels, offererVars, answererVars, offerVars, answerVars,
            waitingVars, agentVars
<1>1. ExchangeTypeOK'
  BY DEF HandlerInv, AnsPacket
<1>2. HandlerInv'
  BY DEF HandlerInv
<1>3. PlaceInv'
  BY DEF HandlerInv, PlaceInv, InRouter, OfferTakenOnce
<1>4. HostInv'
  BY DEF HandlerInv, HostInv, ChanHost, OfferReachesItsHost, PlaceInv, InRouter
<1>5. AnswerInv'
  BY DEF HandlerInv, AnswerInv, FromTaker, AnswerFromTaker, AnsPacket
<1> QED
  BY <1>1, <1>2, <1>3, <1>4, <1>5

LEMMA StartAgentInv ==
  ASSUME ExchangeInv, NEW a \in Agents, NEW h \in Hosts, StartAgent(a, h)
  PROVE  ExchangeInv'
<1> USE NamesAssumption
        DEF StartAgent, WaitForOffer, WaitChanOf, ExchangeInv, ExchangeTypeOK, WaitingTypeOK, WaitChans,
            channels, offererVars, answererVars, offerVars, answerVars,
            waitingVars, agentVars
<1>1. ExchangeTypeOK'
  OBVIOUS
<1>2. HandlerInv'
  BY DEF HandlerInv
<1>3. PlaceInv'
  BY DEF HandlerInv, PlaceInv, InRouter, OfferTakenOnce
<1>4. HostInv'
  <2>1. /\ agentHost[a] = None /\ agentOffer[a] = None
        /\ \A c \in WaitChans : ChanHost(c) # None => ChanHost(c)' = ChanHost(c)
    BY DEF HandlerInv, ChanHost
  <2>2. PICK w \in WaitChans : w = WaitChanOf(h, a)
    OBVIOUS
  <2>3. /\ agentCh' = [agentCh EXCEPT ![a] = w]
         /\ hostID2waitingCh' = [hostID2waitingCh EXCEPT ![h] = w]
         /\ agentHost' = [agentHost EXCEPT ![a] = h]
    BY <2>2
  <2>4. ChanHost(w)' = h
    BY <2>1, <2>2 DEF HostInv, ChanHost, HandlerInv
  <2> HIDE DEF WaitChanOf
  <2>5. ASSUME NEW g \in Hosts
        PROVE  (hostID2waitingCh[g] # None => ChanHost(hostID2waitingCh[g]) = g)'
    <3>1. CASE g = h
      BY <2>4, <2>3, <3>1
    <3>2. CASE g # h
      BY <2>1, <2>3, <3>2 DEF HostInv
    <3> QED
      BY <3>1, <3>2
  <2>6. \A c \in WaitChans : waitBuf[c] # None => ChanHost(c)' = offerHost[waitBuf[c]]
    BY <2>1 DEF HostInv, PlaceInv, HandlerInv
  <2>7. ASSUME NEW b \in Agents
        PROVE  (agentCh[b] # None => ChanHost(agentCh[b]) = agentHost[b])'
    <3>1. CASE b = a
      BY <2>4, <2>3, <3>1
    <3>2. CASE b # a
      BY <2>1, <2>3, <3>2 DEF HostInv, HandlerInv
    <3> QED
      BY <3>1, <3>2
  <2>8. offerRouter.at = "put" => ChanHost(offerRouter.ch)' = offerRouter.host
    BY <2>1 DEF HostInv
  <2>9. \A b \in Agents : agentOffer[b] # None => offerHost[agentOffer[b]] = agentHost'[b]
    BY <2>1 DEF HostInv, OfferReachesItsHost
  <2> QED
    BY <2>5, <2>6, <2>7, <2>8, <2>9 DEF HostInv, OfferReachesItsHost, ChanHost
<1>5. AnswerInv'
  BY DEF HandlerInv, AnswerInv, FromTaker, AnswerFromTaker, AnsPacket
<1> QED
  BY <1>1, <1>2, <1>3, <1>4, <1>5

LEMMA WaitForOfferTimeoutInv ==
  ASSUME ExchangeInv, NEW a \in Agents, WaitForOfferTimeout(a), UNCHANGED offererVars
  PROVE  ExchangeInv'
<1> USE NamesAssumption
        DEF WaitForOfferTimeout, ExchangeInv, ExchangeTypeOK, WaitingTypeOK, WaitChans,
            channels, offererVars, answererVars, offerVars, answerVars,
            waitingVars, agentVars
<1>1. ExchangeTypeOK'
  OBVIOUS
<1>2. HandlerInv'
  BY DEF HandlerInv
<1>3. PlaceInv'
  BY DEF HandlerInv, PlaceInv, InRouter, OfferTakenOnce
<1>4. HostInv'
  BY DEF HandlerInv, HostInv, ChanHost, OfferReachesItsHost, PlaceInv, InRouter
<1>5. AnswerInv'
  BY DEF HandlerInv, AnswerInv, FromTaker, AnswerFromTaker, AnsPacket
<1> QED
  BY <1>1, <1>2, <1>3, <1>4, <1>5

LEMMA TakeOfferInv ==
  ASSUME ExchangeInv, NEW a \in Agents, TakeOffer(a), UNCHANGED offererVars
  PROVE  ExchangeInv'
<1> USE NamesAssumption
        DEF TakeOffer, TakeFrom, ExchangeInv, ExchangeTypeOK, WaitingTypeOK, WaitChans,
            channels, offererVars, answererVars, offerVars, answerVars,
            waitingVars, agentVars
<1>1. ExchangeTypeOK'
  BY DEF HandlerInv, AnsPacket
<1>2. HandlerInv'
  BY DEF HandlerInv
<1>3. PlaceInv'
  BY DEF HandlerInv, PlaceInv, InRouter, OfferTakenOnce
<1>4. HostInv'
  BY DEF HandlerInv, HostInv, ChanHost, OfferReachesItsHost, PlaceInv, InRouter
<1>5. AnswerInv'
  <2>1. agentOffer[a] = None
    BY DEF HandlerInv
  <2>2. \A p \in AnsPacket : FromTaker(p) => FromTaker(p)'
    BY <2>1 DEF FromTaker, AnsPacket
  <2>3. \A i \in 1 .. Len(answerCh) : answerCh[i] \in AnsPacket
    OBVIOUS
  <2>4. \A r \in Sessions : answer[r] # None => agentOffer'[answer[r]] = r
    BY <2>1 DEF AnswerInv, AnswerFromTaker
  <2> QED
    BY <2>2, <2>3, <2>4 DEF AnswerInv, AnswerFromTaker
<1> QED
  BY <1>1, <1>2, <1>3, <1>4, <1>5

LEMMA WaitForOfferReturnInv ==
  ASSUME ExchangeInv, NEW a \in Agents, WaitForOfferReturn(a), UNCHANGED offererVars
  PROVE  ExchangeInv'
<1> USE NamesAssumption
        DEF WaitForOfferReturn, ExchangeInv, ExchangeTypeOK, WaitingTypeOK, WaitChans,
            channels, offererVars, answererVars, offerVars, answerVars,
            waitingVars, agentVars
<1>1. ExchangeTypeOK'
  OBVIOUS
<1>2. HandlerInv'
  BY DEF HandlerInv
<1>3. PlaceInv'
  BY DEF HandlerInv, PlaceInv, InRouter, OfferTakenOnce
<1>4. HostInv'
  BY DEF HandlerInv, HostInv, ChanHost, OfferReachesItsHost, PlaceInv, InRouter
<1>5. AnswerInv'
  BY DEF HandlerInv, AnswerInv, FromTaker, AnswerFromTaker, AnsPacket
<1> QED
  BY <1>1, <1>2, <1>3, <1>4, <1>5

LEMMA OfferRouterLookupInv ==
  ASSUME ExchangeInv, OfferRouterLookup, UNCHANGED offererVars
  PROVE  ExchangeInv'
<1> USE NamesAssumption
        DEF OfferRouterLookup, WaitChanForOffer, WaitChanOf, ExchangeInv, ExchangeTypeOK, WaitingTypeOK, WaitChans,
            channels, offererVars, answererVars, offerVars, answerVars,
            waitingVars, agentVars
<1>1. ExchangeTypeOK'
  <2>1. offerRouter.host \in Hosts /\ offerRouter.offer \in Sessions
    OBVIOUS
  <2>2. WaitChanForOffer \in WaitChans
    BY <2>1
  <2>3. offerRouter' = [offerRouter EXCEPT !.at = "put", !.ch = WaitChanForOffer]
    OBVIOUS
  <2>4. hostID2waitingCh' = [hostID2waitingCh EXCEPT ![offerRouter.host] = WaitChanForOffer]
    OBVIOUS
  <2> HIDE DEF WaitChanForOffer
  <2>5. offerRouter' \in [at : {"recv", "lookup", "put"}, offer : Sessions \cup {None},
                          host : Hosts \cup {None}, ch : WaitChans \cup {None}]
        /\ offerRouter'.offer # None /\ offerRouter'.host # None /\ offerRouter'.ch # None
    <3>1. offerRouter' = [at |-> "put", offer |-> offerRouter.offer,
                          host |-> offerRouter.host, ch |-> WaitChanForOffer]
      BY <2>3
    <3> QED
      BY <2>1, <2>2, <3>1
  <2>6. hostID2waitingCh' \in [Hosts -> WaitChans \cup {None}]
    BY <2>1, <2>2, <2>4
  <2>7. waitTimers' \in SUBSET (Sessions \X Hosts)
    BY <2>1
  <2> QED
    BY <2>5, <2>6, <2>7
<1>2. HandlerInv'
  BY DEF HandlerInv
<1>3. PlaceInv'
  BY DEF HandlerInv, PlaceInv, InRouter, OfferTakenOnce
<1>4. HostInv'
  BY DEF HandlerInv, HostInv, ChanHost, OfferReachesItsHost, PlaceInv, InRouter
<1>5. AnswerInv'
  BY DEF HandlerInv, AnswerInv, FromTaker, AnswerFromTaker, AnsPacket
<1> QED
  BY <1>1, <1>2, <1>3, <1>4, <1>5

LEMMA OfferRouterPutInv ==
  ASSUME ExchangeInv, OfferRouterPut, UNCHANGED offererVars
  PROVE  ExchangeInv'
<1> USE NamesAssumption
        DEF OfferRouterPut, IdleOfferRouter, ExchangeInv, ExchangeTypeOK, WaitingTypeOK, WaitChans,
            channels, offererVars, answererVars, offerVars, answerVars,
            waitingVars, agentVars
<1>1. ExchangeTypeOK'
  OBVIOUS
<1>2. HandlerInv'
  BY DEF HandlerInv
<1>3. PlaceInv'
  <2> DEFINE s == offerRouter.offer
  <2>1. s \in Sessions /\ InRouter(s) /\ offerRouter'.at = "recv"
    BY DEF InRouter
  <2>2. waitBuf' = [waitBuf EXCEPT ![offerRouter.ch] = s] /\ offerRouter.ch \in WaitChans
    OBVIOUS
  <2>3. \A c \in WaitChans : waitBuf[c] # s
    BY <2>1 DEF PlaceInv
  <2>4. \A a \in Agents : agentOffer[a] # s
    BY <2>1 DEF PlaceInv
  <2>5. \A c \in WaitChans, r \in Sessions : waitBuf'[c] = r => offerPhase[r] = "ok"
    BY <2>1, <2>2 DEF PlaceInv
  <2>6. \A c, d \in WaitChans : waitBuf'[c] = waitBuf'[d] /\ waitBuf'[c] # None => c = d
    BY <2>2, <2>3 DEF PlaceInv
  <2>7. \A a \in Agents, r \in Sessions :
          agentOffer[a] = r => offerPhase[r] = "ok" /\ \A c \in WaitChans : waitBuf'[c] # r
    BY <2>2, <2>4 DEF PlaceInv
  <2> QED
    BY <2>1, <2>5, <2>6, <2>7 DEF PlaceInv, InRouter, OfferTakenOnce
<1>4. HostInv'
  BY DEF HandlerInv, HostInv, ChanHost, OfferReachesItsHost, PlaceInv, InRouter
<1>5. AnswerInv'
  BY DEF HandlerInv, AnswerInv, FromTaker, AnswerFromTaker, AnsPacket
<1> QED
  BY <1>1, <1>2, <1>3, <1>4, <1>5

LEMMA WaitChanTimeoutInv ==
  ASSUME ExchangeInv, NEW s \in Sessions, NEW h \in Hosts, WaitChanTimeout(s, h), UNCHANGED offererVars
  PROVE  ExchangeInv'
<1> USE NamesAssumption
        DEF WaitChanTimeout, ExchangeInv, ExchangeTypeOK, WaitingTypeOK, WaitChans,
            channels, offererVars, answererVars, offerVars, answerVars,
            waitingVars, agentVars
<1>1. ExchangeTypeOK'
  OBVIOUS
<1>2. HandlerInv'
  BY DEF HandlerInv
<1>3. PlaceInv'
  BY DEF HandlerInv, PlaceInv, InRouter, OfferTakenOnce
<1>4. HostInv'
  BY DEF HandlerInv, HostInv, ChanHost, OfferReachesItsHost, PlaceInv, InRouter
<1>5. AnswerInv'
  BY DEF HandlerInv, AnswerInv, FromTaker, AnswerFromTaker, AnsPacket
<1> QED
  BY <1>1, <1>2, <1>3, <1>4, <1>5

LEMMA SendAnswerInv ==
  ASSUME ExchangeInv, NEW a \in Agents, SendAnswer(a), UNCHANGED offererVars
  PROVE  ExchangeInv'
<1> USE NamesAssumption
        DEF SendAnswer, ExchangeInv, ExchangeTypeOK, WaitingTypeOK, WaitChans,
            channels, offererVars, answererVars, offerVars, answerVars,
            waitingVars, agentVars
<1>1. ExchangeTypeOK'
  BY DEF HandlerInv, AnsPacket
<1>2. HandlerInv'
  BY DEF HandlerInv
<1>3. PlaceInv'
  BY DEF HandlerInv, PlaceInv, InRouter, OfferTakenOnce
<1>4. HostInv'
  BY DEF HandlerInv, HostInv, ChanHost, OfferReachesItsHost, PlaceInv, InRouter
<1>5. AnswerInv'
  BY DEF HandlerInv, AnswerInv, FromTaker, AnswerFromTaker, AnsPacket
<1> QED
  BY <1>1, <1>2, <1>3, <1>4, <1>5

-----------------------------------------------------------------------------
\* Every step of the composition preserves the invariant.
LEMMA NextExchangeInv == ExchangeInv /\ [Next]_vars => ExchangeInv'
<1> SUFFICES ASSUME ExchangeInv, [Next]_vars PROVE ExchangeInv'
  OBVIOUS
<1>1. ASSUME NEW s \in Sessions, OffererStep(s), UNCHANGED answererVars PROVE ExchangeInv'
  <2>1. CASE \E h \in Hosts : SendOffer(s, h)
    BY <1>1, <2>1, SendOfferInv
  <2>2. CASE NotifyNewOffer(s) \/ SendOfferTimeout(s) \/ AnswerRouterPut(s)
    BY <1>1, <2>2, NotifyNewOfferInv, SendOfferTimeoutInv, AnswerRouterPutInv
  <2>3. CASE \/ Cleanup(s) \/ WaitForAnswer(s) \/ WaitForAnswerTimeout(s)
             \/ WaitForICECandidate(s) \/ WaitForICECandidateTimeout(s)
             \/ DeleteIceChan(s) \/ OffererIceRouterPut(s) \/ OpenListenerStream(s)
             \/ RecvListenerIce(s) \/ PushListenerIce(s) \/ EndListenerStream(s)
    <3>1. UNCHANGED exchangeVars
      BY <1>1, <2>3 DEF Cleanup, WaitForAnswer, WaitForAnswerTimeout,
         WaitForICECandidate, WaitForICECandidateTimeout, DeleteIceChan,
         OffererIceRouterPut, OpenListenerStream, RecvListenerIce, PushListenerIce,
         EndListenerStream, exchangeVars, channels, offerVars, answerVars, answererVars
    <3> QED
      BY <3>1, QuietStep
  <2> QED
    BY <1>1, <2>1, <2>2, <2>3 DEF OffererStep
<1>2. ASSUME OffererRouting, UNCHANGED answererVars PROVE ExchangeInv'
  <2>1. CASE OffererIceRouterRecv \/ OffererIceRouterLookup
    <3>1. UNCHANGED exchangeVars
      BY <1>2, <2>1 DEF OffererIceRouterRecv, OffererIceRouterLookup, exchangeVars,
         channels, offerVars, answerVars, answererVars
    <3> QED
      BY <3>1, QuietStep
  <2> QED
    BY <1>2, <2>1, AnswerRouterRecvInv, AnswerRouterLookupInv DEF OffererRouting
<1>3. ASSUME NEW a \in Agents, AgentStep(a), UNCHANGED offererVars PROVE ExchangeInv'
  <2>1. CASE WaitForOfferTimeout(a) \/ TakeOffer(a) \/ WaitForOfferReturn(a) \/ SendAnswer(a)
    BY <1>3, <2>1, WaitForOfferTimeoutInv, TakeOfferInv, WaitForOfferReturnInv, SendAnswerInv
  <2>2. CASE \/ SendAnswerTimeout(a) \/ AgentWaitForICECandidate(a) \/ ForwardToAgent(a)
             \/ AgentWaitForICETimeout(a) \/ OpenAgentStream(a) \/ RecvAgentIce(a)
             \/ PushAgentIce(a) \/ EndAgentStream(a)
    <3>1. UNCHANGED exchangeVars
      BY <1>3, <2>2 DEF SendAnswerTimeout, AgentWaitForICECandidate, ForwardToAgent,
         AgentWaitForICETimeout, OpenAgentStream, RecvAgentIce, PushAgentIce,
         EndAgentStream, exchangeVars, channels, offererVars, offerVars, answerVars
    <3> QED
      BY <3>1, QuietStep
  <2> QED
    BY <1>3, <2>1, <2>2 DEF AgentStep
<1>4. ASSUME AnswererRouting, UNCHANGED offererVars PROVE ExchangeInv'
  <2>1. CASE \E s \in Sessions, h \in Hosts : WaitChanTimeout(s, h)
    BY <1>4, <2>1, WaitChanTimeoutInv
  <2>2. CASE \/ AnswererIceRouterRecv \/ AnswererIceRouterLookup \/ AnswererIceRouterPut
             \/ \E s \in Sessions : IceChanTimeout(s)
    <3>1. UNCHANGED exchangeVars
      BY <1>4, <2>2 DEF AnswererIceRouterRecv, AnswererIceRouterLookup,
         AnswererIceRouterPut, IceChanTimeout, exchangeVars, channels, offererVars,
         offerVars, answerVars
    <3> QED
      BY <3>1, QuietStep
  <2> QED
    BY <1>4, <2>1, <2>2, OfferRouterLookupInv, OfferRouterPutInv DEF AnswererRouting
<1>5. ASSUME NEW s \in Sessions, HandOverOffer(s) \/ HandOverClose(s) PROVE ExchangeInv'
  <2>1. CASE HandOverClose(s)
    <3>1. UNCHANGED exchangeVars
      BY <2>1 DEF HandOverClose, PutCloseIce, GetCloseIce, exchangeVars, channels,
         offerVars, answerVars, answererVars
    <3> QED
      BY <3>1, QuietStep
  <2> QED
    BY <1>5, <2>1, HandOverOfferInv
<1>6. CASE UNCHANGED vars
  <2>1. UNCHANGED exchangeVars
    BY <1>6 DEF vars, exchangeVars, channels, offererVars, offerVars, answerVars,
       answererVars
  <2> QED
    BY <2>1, QuietStep
<1> QED
  BY <1>1, <1>2, <1>3, <1>4, <1>5, <1>6, StartAgentInv DEF Next

\* The invariant holds in every reachable state of the two servers.
THEOREM ExchangeInvariant == Spec => []ExchangeInv
  BY InitExchangeInv, NextExchangeInv, PTL DEF Spec

\* No offer is ever given to two agents, for any number of them.
THEOREM SignalingOfferTakenOnce == Spec => []OfferTakenOnce
<1>1. ExchangeInv => OfferTakenOnce
  BY DEF ExchangeInv, PlaceInv
<1> QED
  BY <1>1, ExchangeInvariant, PTL

\* No agent is ever given an offer addressed to another host.
THEOREM SignalingOfferReachesItsHost == Spec => []OfferReachesItsHost
<1>1. ExchangeInv => OfferReachesItsHost
  BY DEF ExchangeInv, HostInv
<1> QED
  BY <1>1, ExchangeInvariant, PTL

\* No listener is ever given an answer from an agent that took another offer.
THEOREM SignalingAnswerFromTaker == Spec => []AnswerFromTaker
<1>1. ExchangeInv => AnswerFromTaker
  BY DEF ExchangeInv, AnswerInv
<1> QED
  BY <1>1, ExchangeInvariant, PTL

-----------------------------------------------------------------------------
(* The servers implement OfferExchange.                                    *)

WaitOutcomes == {"idle", "waiting", "answered", "notFound", "timeout"}

\* A listener has an answer exactly when its WaitForAnswer returned one.
AnsweredInv ==
  /\ answerWait \in [Sessions -> WaitOutcomes]
  /\ \A s \in Sessions : answer[s] # None <=> answerWait[s] = "answered"

LEMMA NextAnsweredInv ==
  ASSUME ExchangeInv, AnsweredInv, [Next]_vars
  PROVE  AnsweredInv'
<1> USE NamesAssumption
<1>1. CASE UNCHANGED <<answer, answerWait>>
  BY <1>1 DEF AnsweredInv
<1>2. ASSUME NEW s \in Sessions, WaitForAnswer(s) \/ WaitForAnswerTimeout(s)
      PROVE  AnsweredInv'
  <2>1. PICK w \in {"waiting", "notFound", "timeout"} :
          /\ answerWait[s] # "answered"
          /\ answerWait' = [answerWait EXCEPT ![s] = w]
          /\ answer' = answer
    BY <1>2 DEF WaitForAnswer, WaitForAnswerTimeout
  <2> QED
    BY <2>1 DEF AnsweredInv, WaitOutcomes
<1>3. ASSUME NEW s \in Sessions, AnswerRouterPut(s)
      PROVE  AnsweredInv'
  <2>1. answerRouter.pkt.answer \in Agents
    BY <1>3 DEF AnswerRouterPut, ExchangeInv, ExchangeTypeOK, AnsPacket
  <2>2. /\ answerWait' = [answerWait EXCEPT ![s] = "answered"]
        /\ answer' = [answer EXCEPT ![s] = answerRouter.pkt.answer]
    BY <1>3 DEF AnswerRouterPut
  <2>3. answer \in [Sessions -> Agents \cup {None}]
    BY DEF ExchangeInv, ExchangeTypeOK
  <2> QED
    BY <2>1, <2>2, <2>3 DEF AnsweredInv, WaitOutcomes
<1>4. ASSUME NEW s \in Sessions,
             \/ \E h \in Hosts : SendOffer(s, h)
             \/ NotifyNewOffer(s) \/ SendOfferTimeout(s) \/ Cleanup(s)
             \/ WaitForICECandidate(s) \/ WaitForICECandidateTimeout(s)
             \/ DeleteIceChan(s) \/ OffererIceRouterPut(s) \/ OpenListenerStream(s)
             \/ RecvListenerIce(s) \/ PushListenerIce(s) \/ EndListenerStream(s)
             \/ HandOverOffer(s) \/ HandOverClose(s)
      PROVE  UNCHANGED <<answer, answerWait>>
  BY <1>4 DEF SendOffer, NotifyNewOffer, SendOfferTimeout, Cleanup,
     WaitForICECandidate, WaitForICECandidateTimeout, DeleteIceChan, OffererIceRouterPut,
     OpenListenerStream, RecvListenerIce, PushListenerIce, EndListenerStream,
     HandOverOffer, PutOffer, HandOverClose, PutCloseIce, answerVars
<1>5. ASSUME OffererRouting
      PROVE  UNCHANGED <<answer, answerWait>>
  BY <1>5 DEF OffererRouting, AnswerRouterRecv, AnswerRouterLookup,
     OffererIceRouterRecv, OffererIceRouterLookup, answerVars
<1>6. ASSUME UNCHANGED offererVars
      PROVE  UNCHANGED <<answer, answerWait>>
  BY <1>6 DEF offererVars, answerVars
<1>7. (\E a \in Agents, h \in Hosts : StartAgent(a, h)) => UNCHANGED offererVars
  BY DEF StartAgent
<1>8. (UNCHANGED vars) => UNCHANGED offererVars
  BY DEF vars
<1> QED
  BY <1>1, <1>2, <1>3, <1>4, <1>5, <1>6, <1>7, <1>8 DEF Next, OffererStep

LEMMA SignalingAnswered == Spec => []AnsweredInv
<1>1. Init => AnsweredInv
  BY DEF Init, OffererInit, AnsweredInv, WaitOutcomes
<1> QED
  BY <1>1, NextAnsweredInv, ExchangeInvariant, PTL DEF Spec

LEMMA QuietExchangeStep ==
  ASSUME UNCHANGED <<offerPhase, offerHost, agentHost, agentOffer, answer>>
  PROVE  UNCHANGED Exchange!vars
BY DEF Exchange!vars

\* Every step of the servers is a step of the abstract exchange, or invisible.
LEMMA ExchangeStepImplements ==
  ASSUME ExchangeInv, AnsweredInv, [Next]_vars
  PROVE  Exchange!Next \/ UNCHANGED Exchange!vars
<1> USE NamesAssumption DEF ExchangeInv, ExchangeTypeOK
<1>1. ASSUME NEW s \in Sessions, NEW h \in Hosts, SendOffer(s, h), UNCHANGED answererVars
      PROVE  Exchange!Next
  <2>1. Exchange!Offer(s, h)
    BY <1>1 DEF SendOffer, Exchange!Offer, HandlerInv, answererVars, agentVars, answerVars
  <2> QED
    BY <2>1 DEF Exchange!Next
<1>2. ASSUME NEW s \in Sessions, NotifyNewOffer(s), UNCHANGED answererVars
      PROVE  UNCHANGED Exchange!vars
  BY <1>2 DEF NotifyNewOffer, Exchange!vars, answererVars, agentVars, answerVars
<1>3. ASSUME NEW s \in Sessions, SendOfferTimeout(s), UNCHANGED answererVars
      PROVE  Exchange!Next
  <2>1. Exchange!Decide(s, "refused")
    BY <1>3 DEF SendOfferTimeout, SendOfferTimesOutIn, Exchange!Decide, HandlerInv,
       answererVars, agentVars, answerVars
  <2> QED
    BY <2>1 DEF Exchange!Next
<1>4. ASSUME NEW s \in Sessions, HandOverOffer(s)
      PROVE  Exchange!Next
  <2>1. Exchange!Decide(s, "accepted")
    BY <1>4 DEF HandOverOffer, PutOffer, GetOffer, Exchange!Decide, HandlerInv,
       agentVars, answerVars
  <2> QED
    BY <2>1 DEF Exchange!Next
<1>5. ASSUME NEW a \in Agents, NEW h \in Hosts, StartAgent(a, h)
      PROVE  Exchange!Next
  <2>1. Exchange!Join(a, h)
    BY <1>5 DEF StartAgent, WaitForOffer, Exchange!Join, HandlerInv, offererVars,
       offerVars, answerVars
  <2> QED
    BY <2>1 DEF Exchange!Next
<1>6. ASSUME NEW a \in Agents, TakeOffer(a), UNCHANGED offererVars
      PROVE  Exchange!Next
  <2>1. /\ agentPhase[a] = "waiting" /\ agentCh[a] \in WaitChans
        /\ waitBuf[agentCh[a]] \in Sessions
        /\ agentOffer' = [agentOffer EXCEPT ![a] = waitBuf[agentCh[a]]]
        /\ UNCHANGED <<offerPhase, offerHost, answer, agentHost>>
    BY <1>6 DEF TakeOffer, WaitingTypeOK, HandlerInv, offererVars, offerVars, answerVars
  <2> DEFINE s == waitBuf[agentCh[a]]
  <2>2. agentOffer[a] = None /\ \A b \in Agents : agentOffer[b] # s
    BY <2>1 DEF HandlerInv, PlaceInv
  <2>3. offerPhase[s] = "ok"
    BY <2>1 DEF PlaceInv
  <2>4. s # None /\ agentCh[a] # None
    BY <2>1 DEF WaitChans
  <2>5. ChanHost(agentCh[a]) = offerHost[s] /\ ChanHost(agentCh[a]) = agentHost[a]
    BY <2>1, <2>4 DEF HostInv
  <2>6. Exchange!Take(a, s)
    BY <2>1, <2>2, <2>3, <2>5 DEF Exchange!Take
  <2> QED
    BY <2>1, <2>6 DEF Exchange!Next
<1>7. ASSUME NEW s \in Sessions, AnswerRouterPut(s), UNCHANGED answererVars
      PROVE  Exchange!Next
  <2> DEFINE a == answerRouter.pkt.answer
  <2>1. a \in Agents /\ agentOffer[a] = s /\ s # None
    BY <1>7 DEF AnswerRouterPut, AnswerFor, AnsPacket, AnswerInv, FromTaker
  <2>2. answer[s] = None
    BY <1>7 DEF AnswerRouterPut, AnsweredInv
  <2>3. Exchange!Answer(a)
    BY <1>7, <2>1, <2>2 DEF AnswerRouterPut, Exchange!Answer, answererVars, agentVars,
       offerVars
  <2> QED
    BY <2>1, <2>3 DEF Exchange!Next
<1>8. ASSUME NEW s \in Sessions, UNCHANGED answererVars,
             \/ Cleanup(s) \/ WaitForAnswer(s) \/ WaitForAnswerTimeout(s)
             \/ WaitForICECandidate(s) \/ WaitForICECandidateTimeout(s)
             \/ DeleteIceChan(s) \/ OffererIceRouterPut(s) \/ OpenListenerStream(s)
             \/ RecvListenerIce(s) \/ PushListenerIce(s) \/ EndListenerStream(s)
      PROVE  UNCHANGED Exchange!vars
  <2>1. UNCHANGED <<offerPhase, offerHost, agentHost, agentOffer, answer>>
    BY <1>8 DEF Cleanup, WaitForAnswer, WaitForAnswerTimeout, WaitForICECandidate,
       WaitForICECandidateTimeout, DeleteIceChan, OffererIceRouterPut, OpenListenerStream,
       RecvListenerIce, PushListenerIce, EndListenerStream, offerVars, answerVars,
       answererVars, agentVars
  <2> QED
    BY <2>1, QuietExchangeStep
<1>9. ASSUME OffererRouting, UNCHANGED answererVars
      PROVE  UNCHANGED Exchange!vars
  <2>1. UNCHANGED <<offerPhase, offerHost, agentHost, agentOffer, answer>>
    BY <1>9 DEF OffererRouting, AnswerRouterRecv, AnswerRouterLookup,
       OffererIceRouterRecv, OffererIceRouterLookup, offerVars, answerVars,
       answererVars, agentVars
  <2> QED
    BY <2>1, QuietExchangeStep
<1>10. ASSUME NEW a \in Agents, UNCHANGED offererVars,
              \/ WaitForOfferTimeout(a) \/ WaitForOfferReturn(a) \/ SendAnswer(a)
              \/ SendAnswerTimeout(a) \/ AgentWaitForICECandidate(a) \/ ForwardToAgent(a)
              \/ AgentWaitForICETimeout(a) \/ OpenAgentStream(a) \/ RecvAgentIce(a)
              \/ PushAgentIce(a) \/ EndAgentStream(a)
       PROVE  UNCHANGED Exchange!vars
  <2>1. UNCHANGED <<offerPhase, offerHost, agentHost, agentOffer, answer>>
    BY <1>10 DEF WaitForOfferTimeout, WaitForOfferReturn, SendAnswer, SendAnswerTimeout,
       AgentWaitForICECandidate, ForwardToAgent, AgentWaitForICETimeout, OpenAgentStream,
       RecvAgentIce, PushAgentIce, EndAgentStream, offererVars, offerVars, answerVars,
       agentVars
  <2> QED
    BY <2>1, QuietExchangeStep
<1>11. ASSUME AnswererRouting, UNCHANGED offererVars
       PROVE  UNCHANGED Exchange!vars
  <2>1. UNCHANGED <<offerPhase, offerHost, agentHost, agentOffer, answer>>
    BY <1>11 DEF AnswererRouting, OfferRouterLookup, OfferRouterPut, WaitChanTimeout,
       AnswererIceRouterRecv, AnswererIceRouterLookup, AnswererIceRouterPut,
       IceChanTimeout, offererVars, offerVars, answerVars, agentVars
  <2> QED
    BY <2>1, QuietExchangeStep
<1>12. ASSUME NEW s \in Sessions, HandOverClose(s)
       PROVE  UNCHANGED Exchange!vars
  <2>1. UNCHANGED <<offerPhase, offerHost, agentHost, agentOffer, answer>>
    BY <1>12 DEF HandOverClose, PutCloseIce, GetCloseIce, offerVars, answerVars, answererVars,
       agentVars
  <2> QED
    BY <2>1, QuietExchangeStep
<1>13. CASE UNCHANGED vars
  BY <1>13, QuietExchangeStep DEF vars, offererVars, answererVars, offerVars, answerVars,
     agentVars
<1> QED
  BY <1>1, <1>2, <1>3, <1>4, <1>5, <1>6, <1>7, <1>8, <1>9, <1>10, <1>11, <1>12, <1>13
     DEF Next, OffererStep, AgentStep

\* The offerer and the answerer server (server.go:10) implement the abstract
\* exchange, for any hosts, sessions and agents and any channel capacity.
THEOREM SignalingImplementsExchange == Spec => ImplementsOfferExchange
<1>1. Init => Exchange!Init
  BY DEF Init, OffererInit, AnswererInit, Exchange!Init
<1>2. ExchangeInv /\ AnsweredInv /\ [Next]_vars => [Exchange!Next]_(Exchange!vars)
  BY ExchangeStepImplements
<1> QED
  BY <1>1, <1>2, ExchangeInvariant, SignalingAnswered, PTL
     DEF Spec, ImplementsOfferExchange, Exchange!Spec
=============================================================================
