-------------------------- MODULE CandidateProofs --------------------------
(***************************************************************************)
(* The streams of candidates are in order for any hosts, sessions, agents, *)
(* candidates and channel capacity: IceInv is inductive, given ExchangeInv *)
(* of SignalingProofs.  First lemmas about lines of candidates, then the   *)
(* types, then each direction.                                             *)
(***************************************************************************)
EXTENDS SignalingProofs

LEMMA AppendSeq ==
  ASSUME NEW S, NEW q \in Seq(S), NEW x \in S
  PROVE  /\ Append(q, x) \in Seq(S)
         /\ Len(Append(q, x)) = Len(q) + 1 /\ Len(q) \in Nat
         /\ Append(q, x)[Len(q) + 1] = x
         /\ \A i \in 1 .. Len(q) : Append(q, x)[i] = q[i]
OBVIOUS

LEMMA AppendElements ==
  ASSUME NEW S, NEW q \in Seq(S), NEW x \in S
  PROVE  \A i \in DOMAIN Append(q, x) :
           (i \in DOMAIN q /\ Append(q, x)[i] = q[i]) \/ Append(q, x)[i] = x
OBVIOUS

LEMMA OrderedAppend ==
  ASSUME NEW ice \in Seq(Candidates), NEW c \in Candidates, Ordered(ice),
         \A i \in DOMAIN ice : Earlier(ice[i], c)
  PROVE  Ordered(Append(ice, c))
<1>1. ASSUME NEW i \in DOMAIN Append(ice, c), NEW j \in DOMAIN Append(ice, c), i < j
      PROVE  Earlier(Append(ice, c)[i], Append(ice, c)[j])
  <2>1. i \in DOMAIN ice /\ Append(ice, c)[i] = ice[i]
    BY <1>1
  <2>2. CASE j \in DOMAIN ice
    BY <1>1, <2>1, <2>2 DEF Ordered
  <2>3. CASE j \notin DOMAIN ice
    BY <1>1, <2>1, <2>3
  <2> QED
    BY <2>2, <2>3
<1> QED
  BY <1>1 DEF Ordered

LEMMA OrderedTail ==
  ASSUME NEW ice \in Seq(Candidates), ice # <<>>, Ordered(ice)
  PROVE  /\ Ordered(Tail(ice))
         /\ \A i \in DOMAIN Tail(ice) : Earlier(Head(ice), Tail(ice)[i])
         /\ \A i \in DOMAIN Tail(ice) : i + 1 \in DOMAIN ice /\ Tail(ice)[i] = ice[i + 1]
BY DEF Ordered

\* The router takes the first packet of the channel.
LEMMA LineRecv ==
  ASSUME NEW ch \in Seq(IcePacket), ch # <<>>, NEW r, NEW q,
         LineInv(r, ch), q.pkt = Head(ch)
  PROVE  /\ LineInv(q, Tail(ch))
         /\ \A c : Precedes(c, r, ch) => Precedes(c, q, Tail(ch))
<1>1. /\ 1 \in DOMAIN ch /\ Head(ch) = ch[1]
      /\ \A i \in DOMAIN Tail(ch) : i \in Nat /\ i + 1 \in DOMAIN ch /\ Tail(ch)[i] = ch[i + 1]
  OBVIOUS
<1>2. LineInv(q, Tail(ch))
  BY <1>1 DEF LineInv
<1>3. ASSUME NEW c, Precedes(c, r, ch) PROVE Precedes(c, q, Tail(ch))
  BY <1>1, <1>3 DEF Precedes
<1> QED
  BY <1>2, <1>3

\* A sender pushes a packet that is later than all in the line.
LEMMA LinePush ==
  ASSUME NEW ch \in Seq(IcePacket), NEW p \in IcePacket, NEW r, LineInv(r, ch),
         \A i \in DOMAIN ch : Earlier(ch[i].iceCandidate, p.iceCandidate),
         r.at # "recv" => Earlier(r.pkt.iceCandidate, p.iceCandidate)
  PROVE  /\ LineInv(r, Append(ch, p))
         /\ \A c : Precedes(c, r, ch) /\ Earlier(c, p.iceCandidate)
                     => Precedes(c, r, Append(ch, p))
<1>1. \A i \in DOMAIN Append(ch, p) :
        \/ i \in DOMAIN ch /\ Append(ch, p)[i] = ch[i]
        \/ i = Len(ch) + 1 /\ Append(ch, p)[i] = p
  OBVIOUS
<1>2. LineInv(r, Append(ch, p))
  BY <1>1 DEF LineInv
<1>3. ASSUME NEW c, Precedes(c, r, ch), Earlier(c, p.iceCandidate)
      PROVE  Precedes(c, r, Append(ch, p))
  BY <1>1, <1>3 DEF Precedes
<1> QED
  BY <1>2, <1>3

\* The router goes on with its packet, or has passed it on or dropped it.
LEMMA LineMove ==
  ASSUME NEW ch, NEW r, NEW q, LineInv(r, ch),
         q.at # "recv" => r.at # "recv" /\ q.pkt = r.pkt
  PROVE  /\ LineInv(q, ch)
         /\ \A c : Precedes(c, r, ch) => Precedes(c, q, ch)
BY DEF LineInv, Precedes

-----------------------------------------------------------------------------
(* Types.  What the exchange of offers and answers does not read, in       *)
(* groups: an action proves again the groups it writes, the frame lemmas   *)
(* keep the others.                                                        *)

IcesTypeOK == iceToAnsCh \in Seq(IcePacket) /\ iceToOfferCh \in Seq(IcePacket)

OffererMapTypes ==
  /\ notified \in [Hosts -> Nat]
  /\ AnsID2AnsChan \in SUBSET Sessions
  /\ offererIceChan \in SUBSET Sessions
  /\ cleanupTimers \in SUBSET Sessions
  /\ answerWait \in [Sessions -> {"idle", "waiting", "answered", "notFound", "timeout"}]

ListenerIceTypes ==
  /\ listenerIceWait \in
       [Sessions -> {"idle", "streaming", "closing", "deleting", "done", "notFound"}]
  /\ listenerIce \in [Sessions -> Seq(Candidates)]
  /\ offererIceRouter \in [at : {"recv", "lookup", "put"}, pkt : IcePacket \cup {None}]
  /\ offererIceRouter.at # "recv" => offererIceRouter.pkt \in IcePacket

ListenerStreamTypes ==
  /\ listenerStream \in [Sessions -> {"idle", "open", "ended"}]
  /\ listenerHeld \in [Sessions -> 0 .. MaxIce]
  /\ listenerSent \in [Sessions -> 0 .. MaxIce]

OffererIceTypeOK == OffererMapTypes /\ ListenerIceTypes /\ ListenerStreamTypes

LEMMA OffererIceFrame ==
  ASSUME OffererIceTypeOK, IcesTypeOK
  PROVE  /\ (UNCHANGED <<notified, sessionMaps, answerWait>>) => OffererMapTypes'
         /\ (UNCHANGED listenerIceVars) => ListenerIceTypes'
         /\ (UNCHANGED listenerStreamVars) => ListenerStreamTypes'
         /\ (UNCHANGED <<iceToAnsCh, iceToOfferCh>>) => IcesTypeOK'
<1>0. OffererMapTypes /\ ListenerIceTypes /\ ListenerStreamTypes
  BY DEF OffererIceTypeOK
<1>1. ASSUME UNCHANGED <<notified, sessionMaps, answerWait>> PROVE OffererMapTypes'
  BY <1>0, <1>1 DEF OffererMapTypes, sessionMaps
<1>2. ASSUME UNCHANGED listenerIceVars PROVE ListenerIceTypes'
  BY <1>0, <1>2 DEF ListenerIceTypes, listenerIceVars
<1>3. ASSUME UNCHANGED listenerStreamVars PROVE ListenerStreamTypes'
  BY <1>0, <1>3 DEF ListenerStreamTypes, listenerStreamVars
<1>4. ASSUME UNCHANGED <<iceToAnsCh, iceToOfferCh>> PROVE IcesTypeOK'
  BY <1>4 DEF IcesTypeOK
<1> QED
  BY <1>1, <1>2, <1>3, <1>4

\* A handler or a timer of session s.
LEMMA OffererTypeStep ==
  ASSUME OffererIceTypeOK, IcesTypeOK, ExchangeInv, NEW s \in Sessions, OffererStep(s)
  PROVE  OffererIceTypeOK' /\ IcesTypeOK'
<1>0. OffererMapTypes /\ ListenerIceTypes /\ ListenerStreamTypes
  BY DEF OffererIceTypeOK
<1>a. ASSUME OffererMapTypes', UNCHANGED <<channels, listenerIceVars, listenerStreamVars>>
      PROVE  OffererIceTypeOK' /\ IcesTypeOK'
  BY <1>a, OffererIceFrame DEF OffererIceTypeOK, channels
<1>b. ASSUME OffererMapTypes', ListenerIceTypes', UNCHANGED <<channels, listenerStreamVars>>
      PROVE  OffererIceTypeOK' /\ IcesTypeOK'
  BY <1>b, OffererIceFrame DEF OffererIceTypeOK, channels
<1>c. ASSUME ListenerStreamTypes', IcesTypeOK',
             UNCHANGED <<notified, sessionMaps, answerWait, listenerIceVars>>
      PROVE  OffererIceTypeOK' /\ IcesTypeOK'
  BY <1>c, OffererIceFrame DEF OffererIceTypeOK
<1>1. ASSUME NEW h \in Hosts, SendOffer(s, h) PROVE OffererIceTypeOK' /\ IcesTypeOK'
  <2>1. OffererMapTypes'
    BY <1>0, <1>1 DEF SendOffer, CleanupArmed, OffererMapTypes, answerVars
  <2> QED
    BY <1>a, <1>1, <2>1 DEF SendOffer
<1>2. CASE NotifyNewOffer(s)
  <2>1. notified' = [notified EXCEPT ![offerHost[s]] = @ + 1]
        /\ UNCHANGED <<sessionMaps, answerVars>>
    BY <1>2 DEF NotifyNewOffer
  <2>2. notified' \in [Hosts -> Nat]
    <3>1. offerHost[s] \in Hosts
      BY <1>2 DEF NotifyNewOffer, ExchangeInv, HandlerInv, ExchangeTypeOK
    <3>2. notified \in [Hosts -> Nat] /\ notified[offerHost[s]] + 1 \in Nat
      BY <1>0, <3>1 DEF OffererMapTypes
    <3> QED
      BY <2>1, <3>1, <3>2
  <2>3. UNCHANGED <<AnsID2AnsChan, offererIceChan, cleanupTimers, answerWait>>
    BY <2>1 DEF sessionMaps, answerVars
  <2>4. OffererMapTypes'
    BY <1>0, <2>2, <2>3 DEF OffererMapTypes
  <2> QED
    BY <1>a, <1>2, <2>4 DEF NotifyNewOffer
<1>3. CASE SendOfferTimeout(s)
  <2>1. UNCHANGED <<channels, notified, sessionMaps, answerWait, listenerIceVars,
                    listenerStreamVars>>
    BY <1>3 DEF SendOfferTimeout, answerVars
  <2> QED
    BY <1>a, <2>1, OffererIceFrame
<1>4. CASE Cleanup(s)
  <2>1. OffererMapTypes'
    BY <1>0, <1>4 DEF Cleanup, OffererMapTypes, answerVars, offerVars
  <2> QED
    BY <1>a, <1>4, <2>1 DEF Cleanup
<1>5. CASE WaitForAnswer(s) \/ WaitForAnswerTimeout(s)
  <2>1. /\ \E w \in {"waiting", "notFound", "timeout"} : answerWait' = [answerWait EXCEPT ![s] = w]
        /\ UNCHANGED <<channels, offerVars, sessionMaps, listenerIceVars, listenerStreamVars>>
    BY <1>5 DEF WaitForAnswer, WaitForAnswerTimeout
  <2>2. OffererMapTypes'
    BY <1>0, <2>1 DEF OffererMapTypes, offerVars, sessionMaps
  <2> QED
    BY <1>a, <2>1, <2>2
<1>6. CASE AnswerRouterPut(s)
  <2>1. answerWait' = [answerWait EXCEPT ![s] = "answered"] /\ UNCHANGED <<offerVars, sessionMaps>>
    BY <1>6 DEF AnswerRouterPut
  <2>2. OffererMapTypes'
    BY <1>0, <2>1 DEF OffererMapTypes, offerVars, sessionMaps
  <2> QED
    BY <1>a, <1>6, <2>2 DEF AnswerRouterPut
<1>7. CASE WaitForICECandidate(s) \/ WaitForICECandidateTimeout(s) \/ DeleteIceChan(s)
  <2>1. /\ \E w \in {"streaming", "notFound", "closing", "done"} :
             listenerIceWait' = [listenerIceWait EXCEPT ![s] = w]
        /\ UNCHANGED <<listenerIce, offererIceRouter>>
    BY <1>7 DEF WaitForICECandidate, WaitForICECandidateTimeout, DeleteIceChan
  <2>2. ListenerIceTypes'
    BY <1>0, <2>1 DEF ListenerIceTypes
  <2>3. /\ offererIceChan' \in {offererIceChan, offererIceChan \ {s}}
        /\ UNCHANGED <<notified, AnsID2AnsChan, cleanupTimers, answerWait>>
    BY <1>7 DEF WaitForICECandidate, WaitForICECandidateTimeout, DeleteIceChan, offerVars,
       sessionMaps, answerVars
  <2>4. OffererMapTypes'
    BY <1>0, <2>3 DEF OffererMapTypes
  <2>5. UNCHANGED <<channels, listenerStreamVars>>
    BY <1>7 DEF WaitForICECandidate, WaitForICECandidateTimeout, DeleteIceChan
  <2> QED
    BY <1>b, <2>2, <2>4, <2>5
<1>8. CASE OffererIceRouterPut(s)
  <2>1. offererIceRouter.pkt.iceCandidate \in Candidates
    BY <1>0, <1>8 DEF OffererIceRouterPut, IcePacket, ListenerIceTypes
  <2>2. /\ \/ listenerIce' = [listenerIce EXCEPT ![s] =
                                Append(@, offererIceRouter.pkt.iceCandidate)]
           \/ listenerIce' = listenerIce
        /\ \/ listenerIceWait' = [listenerIceWait EXCEPT ![s] = "closing"]
           \/ listenerIceWait' = listenerIceWait
        /\ offererIceRouter' = [at |-> "recv", pkt |-> None]
    BY <1>8 DEF OffererIceRouterPut
  <2>3. listenerIce' \in [Sessions -> Seq(Candidates)]
    <3>1. listenerIce \in [Sessions -> Seq(Candidates)]
      BY <1>0 DEF ListenerIceTypes
    <3>2. Append(listenerIce[s], offererIceRouter.pkt.iceCandidate) \in Seq(Candidates)
      BY <2>1, <3>1, AppendSeq
    <3> QED
      BY <2>2, <3>1, <3>2
  <2>4. listenerIceWait' \in
          [Sessions -> {"idle", "streaming", "closing", "deleting", "done", "notFound"}]
    BY <1>0, <2>2 DEF ListenerIceTypes
  <2>5. ListenerIceTypes'
    BY <2>2, <2>3, <2>4 DEF ListenerIceTypes
  <2>6. UNCHANGED <<channels, notified, sessionMaps, answerWait, listenerStreamVars>>
    BY <1>8 DEF OffererIceRouterPut, offerVars, answerVars
  <2> QED
    BY <1>b, <2>5, <2>6, OffererIceFrame
<1>9. CASE OpenListenerStream(s) \/ EndListenerStream(s)
  <2>1. /\ \E w \in {"open", "ended"} : listenerStream' = [listenerStream EXCEPT ![s] = w]
        /\ UNCHANGED <<listenerHeld, listenerSent>>
    BY <1>9 DEF OpenListenerStream, EndListenerStream
  <2>2. ListenerStreamTypes'
    BY <1>0, <2>1 DEF ListenerStreamTypes
  <2>3. UNCHANGED <<channels, notified, sessionMaps, answerWait, listenerIceVars>>
    BY <1>9 DEF OpenListenerStream, EndListenerStream, offerVars, answerVars
  <2> QED
    BY <1>c, <2>2, <2>3, OffererIceFrame DEF channels
<1>10. CASE RecvListenerIce(s)
  <2>1. /\ listenerSent[s] < MaxIce
        /\ listenerSent' = [listenerSent EXCEPT ![s] = @ + 1]
        /\ listenerHeld' = [listenerHeld EXCEPT ![s] = listenerSent[s] + 1]
        /\ UNCHANGED listenerStream
    BY <1>10 DEF RecvListenerIce
  <2>2. listenerSent[s] + 1 \in 0 .. MaxIce
    BY <1>0, <2>1, BoundsAssumption DEF ListenerStreamTypes
  <2>3. ListenerStreamTypes'
    BY <1>0, <2>1, <2>2 DEF ListenerStreamTypes
  <2>4. UNCHANGED <<channels, notified, sessionMaps, answerWait, listenerIceVars>>
    BY <1>10 DEF RecvListenerIce, offerVars, answerVars
  <2> QED
    BY <1>c, <2>3, <2>4, OffererIceFrame DEF channels
<1>11. CASE PushListenerIce(s)
  <2> DEFINE p == [answererID |-> s, iceCandidate |-> [from |-> s, n |-> listenerHeld[s]]]
  <2>1. listenerHeld[s] \in 1 .. MaxIce
    BY <1>0, <1>11, BoundsAssumption DEF PushListenerIce, ListenerStreamTypes
  <2>2. p \in IcePacket
    BY <2>1 DEF IcePacket, Candidates
  <2>3. iceToAnsCh' = Append(iceToAnsCh, p)
    BY <1>11 DEF PushListenerIce, PushIce
  <2> HIDE DEF p
  <2>4. IcesTypeOK'
    <3>1. UNCHANGED iceToOfferCh
      BY <1>11 DEF PushListenerIce
    <3>2. Append(iceToAnsCh, p) \in Seq(IcePacket)
      BY <2>2, AppendSeq DEF IcesTypeOK
    <3> QED
      BY <2>3, <3>1, <3>2 DEF IcesTypeOK
  <2>5. /\ listenerHeld' = [listenerHeld EXCEPT ![s] = 0]
        /\ UNCHANGED <<listenerStream, listenerSent>>
    BY <1>11 DEF PushListenerIce
  <2>6. ListenerStreamTypes'
    BY <1>0, <2>5, BoundsAssumption DEF ListenerStreamTypes
  <2>7. UNCHANGED <<notified, sessionMaps, answerWait, listenerIceVars>>
    BY <1>11 DEF PushListenerIce, offerVars, answerVars
  <2> QED
    BY <1>c, <2>4, <2>6, <2>7
<1> QED
  BY <1>1, <1>2, <1>3, <1>4, <1>5, <1>6, <1>7, <1>8, <1>9, <1>10, <1>11 DEF OffererStep

\* A step of a router of the offerer.
LEMMA OffererRoutingTypes ==
  ASSUME OffererIceTypeOK, IcesTypeOK, OffererRouting
  PROVE  OffererIceTypeOK' /\ IcesTypeOK'
<1>0. ListenerIceTypes
  BY DEF OffererIceTypeOK
<1>1. CASE AnswerRouterRecv \/ AnswerRouterLookup
  <2>1. UNCHANGED <<iceToAnsCh, iceToOfferCh, notified, sessionMaps, answerWait>>
    BY <1>1 DEF AnswerRouterRecv, AnswerRouterLookup, offerVars, channels
  <2>2. UNCHANGED <<listenerIceVars, listenerStreamVars>>
    BY <1>1 DEF AnswerRouterRecv, AnswerRouterLookup
  <2> QED
    BY <2>1, <2>2, OffererIceFrame DEF OffererIceTypeOK
<1>2. CASE OffererIceRouterRecv
  <2>1. /\ iceToOfferCh # <<>>
        /\ iceToOfferCh' = Tail(iceToOfferCh)
        /\ offererIceRouter' = [at |-> "lookup", pkt |-> Head(iceToOfferCh)]
        /\ UNCHANGED <<iceToAnsCh, listenerIceWait, listenerIce>>
    BY <1>2 DEF OffererIceRouterRecv
  <2>2. Head(iceToOfferCh) \in IcePacket /\ Tail(iceToOfferCh) \in Seq(IcePacket)
    BY <2>1 DEF IcesTypeOK
  <2>3. IcesTypeOK'
    BY <2>1, <2>2 DEF IcesTypeOK
  <2>4. ListenerIceTypes'
    BY <1>0, <2>1, <2>2 DEF ListenerIceTypes
  <2>5. UNCHANGED <<notified, sessionMaps, answerWait, listenerStreamVars>>
    BY <1>2 DEF OffererIceRouterRecv, offerVars, answerVars
  <2> QED
    BY <2>3, <2>4, <2>5, OffererIceFrame DEF OffererIceTypeOK
<1>3. CASE OffererIceRouterLookup
  <2>1. /\ offererIceRouter.at = "lookup"
        /\ \/ offererIceRouter' = [offererIceRouter EXCEPT !.at = "put"]
           \/ offererIceRouter' = [at |-> "recv", pkt |-> None]
        /\ UNCHANGED <<listenerIceWait, listenerIce>>
    BY <1>3 DEF OffererIceRouterLookup
  <2>2. ListenerIceTypes'
    BY <1>0, <2>1 DEF ListenerIceTypes
  <2>3. UNCHANGED <<iceToAnsCh, iceToOfferCh, notified, sessionMaps, answerWait,
                    listenerStreamVars>>
    BY <1>3 DEF OffererIceRouterLookup, channels, offerVars, answerVars
  <2> QED
    BY <2>2, <2>3, OffererIceFrame DEF OffererIceTypeOK
<1> QED
  BY <1>1, <1>2, <1>3 DEF OffererRouting

\* The rest of AnswererTypeOK, in groups.
SendTypes == answerSend \in [Agents -> {"idle", "ok", "timeout"}]

IceChanTypes ==
  /\ iceChans \in [Sessions -> Seq(Seq(Candidates))]
  /\ answererIceChan \in [Sessions -> Nat]
  /\ \A s \in Sessions : answererIceChan[s] \in 0 .. Len(iceChans[s])
  /\ iceTimers \in [Sessions -> SUBSET Nat]

AnswererRouterTypes ==
  /\ answererIceRouter \in
       [at : {"recv", "lookup", "put"}, pkt : IcePacket \cup {None}, ch : Nat]
  /\ answererIceRouter.at # "recv" => answererIceRouter.pkt \in IcePacket
  /\ answererIceRouter.at = "put" =>
       answererIceRouter.ch \in 1 .. Len(iceChans[answererIceRouter.pkt.answererID])

AgentIceTypes ==
  /\ agentIceWait \in [Agents -> {"idle", "streaming", "done", "notFound"}]
  /\ agentIceChan \in [Agents -> Nat]
  /\ agentIce \in [Agents -> Seq(Candidates)]

AgentStreamTypes ==
  /\ agentStream \in [Agents -> {"idle", "open", "ended"}]
  /\ agentHeld \in [Agents -> 0 .. MaxIce]
  /\ agentSent \in [Agents -> 0 .. MaxIce]

AnswererIceTypeOK ==
  SendTypes /\ IceChanTypes /\ AnswererRouterTypes /\ AgentIceTypes /\ AgentStreamTypes

LEMMA AnswererIceFrame ==
  ASSUME AnswererIceTypeOK, IcesTypeOK
  PROVE  /\ (UNCHANGED answerSend) => SendTypes'
         /\ (UNCHANGED iceChanVars) => IceChanTypes'
         /\ (UNCHANGED <<iceChans, answererIceRouter>>) => AnswererRouterTypes'
         /\ (UNCHANGED agentIceVars) => AgentIceTypes'
         /\ (UNCHANGED agentStreamVars) => AgentStreamTypes'
         /\ (UNCHANGED <<iceToAnsCh, iceToOfferCh>>) => IcesTypeOK'
<1>0. SendTypes /\ IceChanTypes /\ AnswererRouterTypes /\ AgentIceTypes /\ AgentStreamTypes
  BY DEF AnswererIceTypeOK
<1>1. ASSUME UNCHANGED iceChanVars PROVE IceChanTypes'
  BY <1>0, <1>1 DEF IceChanTypes, iceChanVars
<1>2. ASSUME UNCHANGED <<iceChans, answererIceRouter>> PROVE AnswererRouterTypes'
  BY <1>0, <1>2 DEF AnswererRouterTypes
<1>3. ASSUME UNCHANGED agentIceVars PROVE AgentIceTypes'
  BY <1>0, <1>3 DEF AgentIceTypes, agentIceVars
<1>4. ASSUME UNCHANGED agentStreamVars PROVE AgentStreamTypes'
  BY <1>0, <1>4 DEF AgentStreamTypes, agentStreamVars
<1>5. ASSUME UNCHANGED <<iceToAnsCh, iceToOfferCh>> PROVE IcesTypeOK'
  BY <1>5 DEF IcesTypeOK
<1>6. ASSUME UNCHANGED answerSend PROVE SendTypes'
  BY <1>0, <1>6 DEF SendTypes
<1> QED
  BY <1>1, <1>2, <1>3, <1>4, <1>5, <1>6

\* The router's channel stays one of its session's while channels are added.
LEMMA AnswererRouterKept ==
  ASSUME AnswererRouterTypes, UNCHANGED answererIceRouter,
         \A r \in Sessions : DOMAIN iceChans[r] = 1 .. Len(iceChans[r]),
         \A r \in Sessions : 1 .. Len(iceChans[r]) \subseteq 1 .. Len(iceChans'[r])
  PROVE  AnswererRouterTypes'
<1>1. answererIceRouter.at # "recv" => answererIceRouter.pkt.answererID \in Sessions
  BY DEF AnswererRouterTypes, IcePacket
<1> QED
  BY <1>1 DEF AnswererRouterTypes

\* A channel made for a session, or found, is one of the session's.
LEMMA EnsureIceChanTypes ==
  ASSUME IceChanTypes, NEW s \in Sessions, EnsureIceChan(s)
  PROVE  /\ IceChanTypes'
         /\ answererIceChan'[s] \in 1 .. Len(iceChans'[s])
         /\ \A r \in Sessions : Len(iceChans[r]) <= Len(iceChans'[r])
         /\ \A r \in Sessions : \A k \in 1 .. Len(iceChans[r]) : iceChans'[r][k] = iceChans[r][k]
         /\ \A r \in Sessions : \A k \in 1 .. Len(iceChans'[r]) :
              k \in 1 .. Len(iceChans[r]) \/ iceChans'[r][k] = <<>>
<1>0. /\ iceChans \in [Sessions -> Seq(Seq(Candidates))]
      /\ answererIceChan \in [Sessions -> Nat] /\ iceTimers \in [Sessions -> SUBSET Nat]
      /\ \A r \in Sessions : answererIceChan[r] \in 0 .. Len(iceChans[r])
      /\ \A r \in Sessions : Len(iceChans[r]) \in Nat
  BY DEF IceChanTypes
<1>1. CASE answererIceChan[s] # 0
  <2>1. UNCHANGED <<iceChans, answererIceChan, iceTimers>>
    BY <1>1 DEF EnsureIceChan, iceChanVars
  <2>2. IceChanTypes'
    BY <2>1 DEF IceChanTypes
  <2>3. answererIceChan[s] \in 1 .. Len(iceChans[s])
    BY <1>0, <1>1
  <2> QED
    BY <1>0, <2>1, <2>2, <2>3
<1>2. CASE answererIceChan[s] = 0
  <2> DEFINE k == Len(iceChans[s]) + 1
  <2>1. /\ iceChans' = [iceChans EXCEPT ![s] = Append(@, <<>>)]
        /\ answererIceChan' = [answererIceChan EXCEPT ![s] = k]
        /\ iceTimers' = [iceTimers EXCEPT ![s] = @ \cup {k}]
    BY <1>2 DEF EnsureIceChan, IceTimerArmed
  <2>2. iceChans[s] \in Seq(Seq(Candidates)) /\ <<>> \in Seq(Candidates)
    BY <1>0
  <2> DEFINE new == Append(iceChans[s], <<>>)
  <2>3. /\ new \in Seq(Seq(Candidates))
        /\ Len(new) = k /\ k \in Nat \ {0} /\ new[k] = <<>>
        /\ Len(iceChans[s]) \in Nat /\ k = Len(iceChans[s]) + 1
        /\ \A i \in 1 .. Len(iceChans[s]) : new[i] = iceChans[s][i]
    BY <2>2, AppendSeq
  <2>4. iceChans' = [iceChans EXCEPT ![s] = new]
    BY <2>1
  <2> HIDE DEF k, new
  <2>5. iceTimers' \in [Sessions -> SUBSET Nat]
    BY <1>0, <2>1, <2>3
  <2>6. iceChans' \in [Sessions -> Seq(Seq(Candidates))] /\ iceChans'[s] = new
    BY <1>0, <2>3, <2>4
  <2>7. answererIceChan' \in [Sessions -> Nat] /\ answererIceChan'[s] = k
    BY <1>0, <2>1, <2>3
  <2>8. ASSUME NEW r \in Sessions, r # s
        PROVE  iceChans'[r] = iceChans[r] /\ answererIceChan'[r] = answererIceChan[r]
    BY <1>0, <2>1, <2>4, <2>8
  <2>9. /\ k \in 1 .. Len(new) /\ k \in 0 .. Len(new) /\ Len(iceChans[s]) <= Len(new)
        /\ \A j \in 1 .. Len(new) : j \in 1 .. Len(iceChans[s]) \/ new[j] = <<>>
    BY <2>3
  <2>10. \A r \in Sessions : answererIceChan'[r] \in 0 .. Len(iceChans'[r])
    BY <1>0, <2>6, <2>7, <2>8, <2>9
  <2>11. IceChanTypes'
    BY <2>5, <2>6, <2>7, <2>10 DEF IceChanTypes
  <2>12. ASSUME NEW r \in Sessions
         PROVE  /\ Len(iceChans[r]) <= Len(iceChans'[r])
                /\ \A j \in 1 .. Len(iceChans[r]) : iceChans'[r][j] = iceChans[r][j]
                /\ \A j \in 1 .. Len(iceChans'[r]) :
                     j \in 1 .. Len(iceChans[r]) \/ iceChans'[r][j] = <<>>
    <3>1. CASE r = s
      BY <2>3, <2>6, <2>9, <3>1
    <3>2. CASE r # s
      BY <1>0, <2>8, <3>2
    <3> QED
      BY <3>1, <3>2
  <2> QED
    BY <2>6, <2>7, <2>9, <2>11, <2>12
<1> QED
  BY <1>1, <1>2

\* A step of the handlers of an agent.
LEMMA AgentTypeStep ==
  ASSUME IceInv, ExchangeInv, NEW a \in Agents, AgentStep(a)
  PROVE  AnswererIceTypeOK' /\ IcesTypeOK'
<1>0. /\ AnswererIceTypeOK /\ IcesTypeOK
      /\ SendTypes /\ IceChanTypes /\ AnswererRouterTypes /\ AgentIceTypes /\ AgentStreamTypes
  BY DEF IceInv, TypeOK, ChannelsTypeOK, AnswererTypeOK, AnswererIceTypeOK, IcesTypeOK,
     SendTypes, IceChanTypes, AnswererRouterTypes, AgentIceTypes, AgentStreamTypes
<1>a. /\ agentOffer[a] # None => agentOffer[a] \in Sessions
      /\ agentPhase[a] \in {"taken", "ok"} => agentOffer[a] \in Sessions
  <2>1. agentOffer[a] \in Sessions \cup {None}
    BY DEF ExchangeInv, ExchangeTypeOK, WaitingTypeOK
  <2>2. agentPhase[a] \in {"taken", "ok"} => agentOffer[a] # None
    BY DEF ExchangeInv, HandlerInv
  <2> QED
    BY <2>1, <2>2
<1>b. \A r \in Sessions : Len(iceChans[r]) \in Nat /\ DOMAIN iceChans[r] = 1 .. Len(iceChans[r])
  BY <1>0 DEF IceChanTypes
<1>c. ASSUME AgentStreamTypes', IcesTypeOK',
             UNCHANGED <<answerSend, iceChanVars, answererIceRouter, agentIceVars>>
      PROVE  AnswererIceTypeOK' /\ IcesTypeOK'
  BY <1>0, <1>c, AnswererIceFrame DEF AnswererIceTypeOK, iceChanVars
<1>d. ASSUME IceChanTypes', AnswererRouterTypes', AgentIceTypes',
             UNCHANGED <<channels, answerSend, agentStreamVars>>
      PROVE  AnswererIceTypeOK' /\ IcesTypeOK'
  BY <1>0, <1>d, AnswererIceFrame DEF AnswererIceTypeOK, channels
<1>1. CASE WaitForOfferTimeout(a) \/ TakeOffer(a)
  <2>1. UNCHANGED <<channels, answerSend, iceChanVars, answererIceRouter, agentIceVars,
                    agentStreamVars>>
    BY <1>1 DEF WaitForOfferTimeout, TakeOffer
  <2> QED
    BY <1>0, <1>c, <2>1, AnswererIceFrame DEF channels
<1>2. CASE WaitForOfferReturn(a)
  <2>1. agentOffer[a] \in Sessions /\ EnsureIceChan(agentOffer[a])
    BY <1>a, <1>2 DEF WaitForOfferReturn
  <2>2. UNCHANGED <<channels, answerSend, answererIceRouter, agentIceVars, agentStreamVars>>
    BY <1>2 DEF WaitForOfferReturn
  <2>3. IceChanTypes' /\ \A r \in Sessions : Len(iceChans[r]) <= Len(iceChans'[r])
    BY <1>0, <2>1, EnsureIceChanTypes
  <2>4. \A r \in Sessions : Len(iceChans'[r]) \in Nat
    BY <2>3 DEF IceChanTypes
  <2>5. \A r \in Sessions : 1 .. Len(iceChans[r]) \subseteq 1 .. Len(iceChans'[r])
    BY <1>b, <2>3, <2>4
  <2>6. AnswererRouterTypes'
    BY <1>0, <1>b, <2>2, <2>5, AnswererRouterKept
  <2> QED
    BY <1>0, <1>d, <2>2, <2>3, <2>6, AnswererIceFrame
<1>3. CASE SendAnswer(a) \/ SendAnswerTimeout(a)
  <2>1. \E w \in {"ok", "timeout"} : answerSend' = [answerSend EXCEPT ![a] = w]
    BY <1>3 DEF SendAnswer, SendAnswerTimeout
  <2>2. SendTypes'
    BY <1>0, <2>1 DEF SendTypes
  <2>3. UNCHANGED <<iceToAnsCh, iceToOfferCh, iceChanVars, answererIceRouter, agentIceVars,
                    agentStreamVars>>
    BY <1>3 DEF SendAnswer, SendAnswerTimeout, channels
  <2> QED
    BY <1>0, <2>2, <2>3, AnswererIceFrame DEF AnswererIceTypeOK, iceChanVars
<1>4. CASE AgentWaitForICECandidate(a)
  <2>1. agentOffer[a] \in Sessions
    BY <1>a, <1>4 DEF AgentWaitForICECandidate
  <2>2. answererIceChan[agentOffer[a]] \in Nat
    BY <1>0, <2>1 DEF IceChanTypes
  <2>3. /\ \E w \in {"streaming", "notFound"} : agentIceWait' = [agentIceWait EXCEPT ![a] = w]
        /\ agentIceChan' = [agentIceChan EXCEPT ![a] = answererIceChan[agentOffer[a]]]
        /\ UNCHANGED agentIce
    BY <1>4 DEF AgentWaitForICECandidate
  <2>4. AgentIceTypes'
    BY <1>0, <2>2, <2>3 DEF AgentIceTypes
  <2>5. UNCHANGED <<channels, answerSend, iceChanVars, answererIceRouter, agentStreamVars>>
    BY <1>4 DEF AgentWaitForICECandidate
  <2> QED
    BY <1>0, <1>d, <2>4, <2>5, AnswererIceFrame DEF iceChanVars
<1>5. CASE ForwardToAgent(a)
  <2> DEFINE s == agentOffer[a]
             k == agentIceChan[a]
             next == [iceChans[s] EXCEPT ![k] = Tail(iceChans[s][k])]
  <2>1. s \in Sessions /\ k \in DOMAIN iceChans[s] /\ iceChans[s][k] # <<>>
    BY <1>a, <1>5 DEF ForwardToAgent, IceInv, ToAgentInv
  <2>2. /\ iceChans[s] \in Seq(Seq(Candidates)) /\ k \in 1 .. Len(iceChans[s])
        /\ iceChans[s][k] \in Seq(Candidates)
    BY <1>0, <2>1 DEF IceChanTypes
  <2>3. Head(iceChans[s][k]) \in Candidates /\ Tail(iceChans[s][k]) \in Seq(Candidates)
    BY <2>1, <2>2
  <2>4. iceChans' = [iceChans EXCEPT ![s] = next]
    BY <1>0, <1>5, <2>1 DEF ForwardToAgent, IceChanTypes
  <2>5. /\ \/ agentIce' = [agentIce EXCEPT ![a] = Append(@, Head(iceChans[s][k]))]
           \/ agentIce' = agentIce
        /\ \/ agentIceWait' = [agentIceWait EXCEPT ![a] = "done"]
           \/ agentIceWait' = agentIceWait
        /\ \/ answererIceChan' = [answererIceChan EXCEPT ![s] = 0]
           \/ answererIceChan' = answererIceChan
        /\ UNCHANGED <<iceTimers, agentIceChan>>
    BY <1>5 DEF ForwardToAgent
  <2>6. UNCHANGED <<channels, answerSend, answererIceRouter, agentStreamVars>>
    BY <1>5 DEF ForwardToAgent
  <2>7. next \in Seq(Seq(Candidates)) /\ Len(next) = Len(iceChans[s])
    BY <2>2, <2>3
  <2> HIDE DEF s, k, next
  <2>8. /\ iceChans' \in [Sessions -> Seq(Seq(Candidates))]
        /\ \A r \in Sessions : Len(iceChans'[r]) = Len(iceChans[r])
    BY <1>0, <2>1, <2>4, <2>7 DEF IceChanTypes
  <2>9. /\ answererIceChan' \in [Sessions -> Nat] /\ iceTimers' \in [Sessions -> SUBSET Nat]
        /\ \A r \in Sessions : answererIceChan'[r] \in 0 .. Len(iceChans[r])
    <3>1. \A r \in Sessions : answererIceChan'[r] \in {0, answererIceChan[r]}
      BY <1>0, <2>5 DEF IceChanTypes
    <3>2. answererIceChan' \in [Sessions -> Nat]
      BY <1>0, <2>5 DEF IceChanTypes
    <3> QED
      BY <1>0, <1>b, <2>5, <3>1, <3>2 DEF IceChanTypes
  <2>10. IceChanTypes'
    BY <2>8, <2>9 DEF IceChanTypes
  <2>11. AgentIceTypes'
    <3>1. /\ agentIce \in [Agents -> Seq(Candidates)]
          /\ agentIceWait \in [Agents -> {"idle", "streaming", "done", "notFound"}]
          /\ agentIceChan \in [Agents -> Nat]
      BY <1>0 DEF AgentIceTypes
    <3>2. Append(agentIce[a], Head(iceChans[s][k])) \in Seq(Candidates)
      BY <2>3, <3>1, AppendSeq
    <3>3. agentIce' \in [Agents -> Seq(Candidates)]
      BY <2>5, <3>1, <3>2
    <3>4. agentIceWait' \in [Agents -> {"idle", "streaming", "done", "notFound"}]
      BY <2>5, <3>1
    <3> QED
      BY <2>5, <3>1, <3>3, <3>4 DEF AgentIceTypes
  <2>12. AnswererRouterTypes'
    BY <1>0, <1>b, <2>6, <2>8, AnswererRouterKept
  <2> QED
    BY <1>d, <2>6, <2>10, <2>11, <2>12
<1>6. CASE AgentWaitForICETimeout(a)
  <2>1. /\ agentIceWait' = [agentIceWait EXCEPT ![a] = "done"]
        /\ answererIceChan' = [answererIceChan EXCEPT ![agentOffer[a]] = 0]
        /\ UNCHANGED <<iceChans, iceTimers, agentIceChan, agentIce>>
    BY <1>6 DEF AgentWaitForICETimeout
  <2>2. UNCHANGED <<channels, answerSend, answererIceRouter, agentStreamVars>>
    BY <1>6 DEF AgentWaitForICETimeout
  <2>3. IceChanTypes'
    <3>1. answererIceChan' \in [Sessions -> Nat]
      BY <1>0, <2>1 DEF IceChanTypes
    <3>2. \A r \in Sessions : answererIceChan'[r] \in {0, answererIceChan[r]}
      BY <1>0, <2>1 DEF IceChanTypes
    <3> QED
      BY <1>0, <1>b, <2>1, <3>1, <3>2 DEF IceChanTypes
  <2>4. AgentIceTypes'
    BY <1>0, <2>1 DEF AgentIceTypes
  <2> QED
    BY <1>0, <1>d, <2>1, <2>2, <2>3, <2>4, AnswererIceFrame
<1>7. CASE OpenAgentStream(a) \/ EndAgentStream(a)
  <2>1. /\ \E w \in {"open", "ended"} : agentStream' = [agentStream EXCEPT ![a] = w]
        /\ UNCHANGED <<agentHeld, agentSent>>
    BY <1>7 DEF OpenAgentStream, EndAgentStream
  <2>2. AgentStreamTypes'
    BY <1>0, <2>1 DEF AgentStreamTypes
  <2>3. UNCHANGED <<channels, answerSend, iceChanVars, answererIceRouter, agentIceVars>>
    BY <1>7 DEF OpenAgentStream, EndAgentStream
  <2> QED
    BY <1>0, <1>c, <2>2, <2>3, AnswererIceFrame DEF channels
<1>8. CASE RecvAgentIce(a)
  <2>1. /\ agentSent[a] < MaxIce
        /\ agentSent' = [agentSent EXCEPT ![a] = @ + 1]
        /\ agentHeld' = [agentHeld EXCEPT ![a] = agentSent[a] + 1]
        /\ UNCHANGED agentStream
    BY <1>8 DEF RecvAgentIce
  <2>2. agentSent[a] + 1 \in 0 .. MaxIce
    BY <1>0, <2>1, BoundsAssumption DEF AgentStreamTypes
  <2>3. AgentStreamTypes'
    BY <1>0, <2>1, <2>2 DEF AgentStreamTypes
  <2>4. UNCHANGED <<channels, answerSend, iceChanVars, answererIceRouter, agentIceVars>>
    BY <1>8 DEF RecvAgentIce
  <2> QED
    BY <1>0, <1>c, <2>3, <2>4, AnswererIceFrame DEF channels
<1>9. CASE PushAgentIce(a)
  <2> DEFINE p == [answererID |-> agentOffer[a],
                   iceCandidate |-> [from |-> a, n |-> agentHeld[a]]]
  <2>1. agentHeld[a] \in 1 .. MaxIce /\ agentHeld[a] <= agentSent[a] /\ agentSent[a] \in Nat
    BY <1>0, <1>9, BoundsAssumption DEF PushAgentIce, IceInv, ToListenerInv, AgentStreamTypes
  <2>2. agentOffer[a] \in Sessions
    <3>1. agentOffer[a] = None => agentSent[a] = 0
      BY DEF IceInv, ToListenerInv
    <3> QED
      BY <1>a, <2>1, <3>1
  <2>3. p \in IcePacket
    BY <2>1, <2>2 DEF IcePacket, Candidates
  <2>4. /\ iceToOfferCh' = Append(iceToOfferCh, p)
        /\ agentHeld' = [agentHeld EXCEPT ![a] = 0]
        /\ UNCHANGED <<iceToAnsCh, agentStream, agentSent>>
    BY <1>9 DEF PushAgentIce, AgentPush
  <2> HIDE DEF p
  <2>5. IcesTypeOK'
    <3>1. Append(iceToOfferCh, p) \in Seq(IcePacket)
      BY <1>0, <2>3, AppendSeq DEF IcesTypeOK
    <3> QED
      BY <1>0, <2>4, <3>1 DEF IcesTypeOK
  <2>6. AgentStreamTypes'
    BY <1>0, <2>4, BoundsAssumption DEF AgentStreamTypes
  <2>7. UNCHANGED <<answerSend, iceChanVars, answererIceRouter, agentIceVars>>
    BY <1>9 DEF PushAgentIce
  <2> QED
    BY <1>c, <2>5, <2>6, <2>7
<1> QED
  BY <1>1, <1>2, <1>3, <1>4, <1>5, <1>6, <1>7, <1>8, <1>9 DEF AgentStep

\* A step of a router or of a timer of the answerer.
LEMMA AnswererRoutingTypes ==
  ASSUME AnswererIceTypeOK, IcesTypeOK, AnswererRouting
  PROVE  AnswererIceTypeOK' /\ IcesTypeOK'
<1>0. SendTypes /\ IceChanTypes /\ AnswererRouterTypes /\ AgentIceTypes /\ AgentStreamTypes
  BY DEF AnswererIceTypeOK
<1>a. \A r \in Sessions : Len(iceChans[r]) \in Nat /\ DOMAIN iceChans[r] = 1 .. Len(iceChans[r])
  BY <1>0 DEF IceChanTypes
<1>b. ASSUME IceChanTypes', AnswererRouterTypes', IcesTypeOK',
             UNCHANGED <<answerSend, agentIceVars, agentStreamVars>>
      PROVE  AnswererIceTypeOK' /\ IcesTypeOK'
  BY <1>b, AnswererIceFrame DEF AnswererIceTypeOK
<1>1. CASE \/ OfferRouterLookup \/ OfferRouterPut
           \/ \E s \in Sessions, h \in Hosts : WaitChanTimeout(s, h)
  <2>1. UNCHANGED <<channels, answerSend, iceChanVars, answererIceRouter, agentIceVars,
                    agentStreamVars>>
    BY <1>1 DEF OfferRouterLookup, OfferRouterPut, WaitChanTimeout
  <2> QED
    BY <1>b, <2>1, AnswererIceFrame DEF channels, iceChanVars
<1>2. CASE AnswererIceRouterRecv
  <2>1. /\ iceToAnsCh # <<>>
        /\ answererIceRouter' = [at |-> "lookup", pkt |-> Head(iceToAnsCh), ch |-> 0]
        /\ iceToAnsCh' = Tail(iceToAnsCh)
        /\ UNCHANGED iceToOfferCh
    BY <1>2 DEF AnswererIceRouterRecv
  <2>2. Head(iceToAnsCh) \in IcePacket /\ Tail(iceToAnsCh) \in Seq(IcePacket)
    BY <2>1 DEF IcesTypeOK
  <2>3. IcesTypeOK'
    BY <2>1, <2>2 DEF IcesTypeOK
  <2>4. AnswererRouterTypes'
    BY <2>1, <2>2 DEF AnswererRouterTypes
  <2>5. UNCHANGED <<answerSend, iceChanVars, agentIceVars, agentStreamVars>>
    BY <1>2 DEF AnswererIceRouterRecv
  <2> QED
    BY <1>b, <2>3, <2>4, <2>5, AnswererIceFrame
<1>3. CASE AnswererIceRouterLookup
  <2> DEFINE s == answererIceRouter.pkt.answererID
  <2>1. answererIceRouter.pkt \in IcePacket /\ s \in Sessions /\ EnsureIceChan(s)
    BY <1>0, <1>3 DEF AnswererIceRouterLookup, IcePacket, AnswererRouterTypes
  <2>2. answererIceRouter' = [answererIceRouter EXCEPT !.at = "put", !.ch = answererIceChan'[s]]
    BY <1>3 DEF AnswererIceRouterLookup
  <2>3. IceChanTypes' /\ answererIceChan'[s] \in 1 .. Len(iceChans'[s])
    BY <1>0, <2>1, EnsureIceChanTypes
  <2>4. answererIceChan'[s] \in Nat
    BY <2>1, <2>3 DEF IceChanTypes
  <2>5. answererIceRouter' = [at |-> "put", pkt |-> answererIceRouter.pkt, ch |-> answererIceChan'[s]]
    BY <1>0, <2>2 DEF AnswererRouterTypes
  <2>6. AnswererRouterTypes'
    BY <2>1, <2>3, <2>4, <2>5 DEF AnswererRouterTypes
  <2>7. UNCHANGED <<channels, answerSend, agentIceVars, agentStreamVars>>
    BY <1>3 DEF AnswererIceRouterLookup
  <2> QED
    BY <1>b, <2>3, <2>6, <2>7, AnswererIceFrame DEF channels
<1>4. CASE AnswererIceRouterPut
  <2> DEFINE s == answererIceRouter.pkt.answererID
             k == answererIceRouter.ch
             c == answererIceRouter.pkt.iceCandidate
             next == [iceChans[s] EXCEPT ![k] = Append(iceChans[s][k], c)]
  <2>1. s \in Sessions /\ c \in Candidates /\ k \in 1 .. Len(iceChans[s])
    BY <1>0, <1>4 DEF AnswererIceRouterPut, IcePacket, AnswererRouterTypes
  <2>2. iceChans[s] \in Seq(Seq(Candidates)) /\ iceChans[s][k] \in Seq(Candidates)
    BY <1>0, <2>1 DEF IceChanTypes
  <2>3. iceChans' = [iceChans EXCEPT ![s] = next]
    BY <1>0, <1>4, <2>1 DEF AnswererIceRouterPut, IceChanTypes
  <2>4. /\ answererIceRouter' = IdleIceRouter
        /\ UNCHANGED <<answererIceChan, iceTimers>>
    BY <1>4 DEF AnswererIceRouterPut
  <2>5. Append(iceChans[s][k], c) \in Seq(Candidates)
    BY <2>1, <2>2, AppendSeq
  <2>6. next \in Seq(Seq(Candidates)) /\ Len(next) = Len(iceChans[s])
    BY <2>1, <2>2, <2>5
  <2> HIDE DEF s, k, c, next
  <2>7. /\ iceChans' \in [Sessions -> Seq(Seq(Candidates))]
        /\ \A r \in Sessions : Len(iceChans'[r]) = Len(iceChans[r])
    BY <1>0, <2>1, <2>3, <2>6 DEF IceChanTypes
  <2>8. IceChanTypes'
    BY <1>0, <2>4, <2>7 DEF IceChanTypes
  <2>9. AnswererRouterTypes'
    BY <2>4 DEF AnswererRouterTypes, IdleIceRouter
  <2>10. UNCHANGED <<channels, answerSend, agentIceVars, agentStreamVars>>
    BY <1>4 DEF AnswererIceRouterPut
  <2> QED
    BY <1>b, <2>8, <2>9, <2>10, AnswererIceFrame DEF channels
<1>5. ASSUME NEW s \in Sessions, IceChanTimeout(s)
      PROVE  AnswererIceTypeOK' /\ IcesTypeOK'
  <2>1. PICK k \in iceTimers[s] :
          /\ iceTimers' = [iceTimers EXCEPT ![s] = @ \ {k}]
          /\ answererIceChan' = [answererIceChan EXCEPT ![s] = 0]
          /\ UNCHANGED <<channels, answerSend, iceChans, answererIceRouter, agentIceVars,
                         agentStreamVars>>
    BY <1>5 DEF IceChanTimeout
  <2>2. iceTimers' \in [Sessions -> SUBSET Nat]
    BY <1>0, <2>1 DEF IceChanTypes
  <2>3. IceChanTypes'
    <3>1. answererIceChan' \in [Sessions -> Nat]
      BY <1>0, <2>1 DEF IceChanTypes
    <3>2. \A r \in Sessions : answererIceChan'[r] \in {0, answererIceChan[r]}
      BY <1>0, <2>1 DEF IceChanTypes
    <3> QED
      BY <1>0, <1>a, <2>1, <2>2, <3>1, <3>2 DEF IceChanTypes
  <2> QED
    BY <1>b, <2>1, <2>3, AnswererIceFrame DEF channels
<1> QED
  BY <1>1, <1>2, <1>3, <1>4, <1>5 DEF AnswererRouting

LEMMA NextTypeOK ==
  ASSUME IceInv, ExchangeInv, ExchangeInv', [Next]_vars
  PROVE  TypeOK'
<1>0. OffererIceTypeOK /\ AnswererIceTypeOK /\ IcesTypeOK
  <2>1. ChannelsTypeOK /\ OffererTypeOK /\ AnswererTypeOK
    BY DEF IceInv, TypeOK
  <2>2. OffererIceTypeOK
    BY <2>1 DEF OffererTypeOK, OffererIceTypeOK, OffererMapTypes, ListenerIceTypes,
       ListenerStreamTypes
  <2>3. AnswererIceTypeOK
    BY <2>1 DEF AnswererTypeOK, AnswererIceTypeOK, SendTypes, IceChanTypes, AnswererRouterTypes,
       AgentIceTypes, AgentStreamTypes
  <2> QED
    BY <2>1, <2>2, <2>3 DEF ChannelsTypeOK, IcesTypeOK
<1>1. OffererIceTypeOK' /\ AnswererIceTypeOK' /\ IcesTypeOK' => TypeOK'
  <2>1. ExchangeTypeOK'
    BY DEF ExchangeInv
  <2>2. IcesTypeOK' => ChannelsTypeOK'
    BY <2>1 DEF ChannelsTypeOK, IcesTypeOK, ExchangeTypeOK
  <2>3. OffererIceTypeOK' => OffererTypeOK'
    BY <2>1 DEF OffererTypeOK, OffererIceTypeOK, OffererMapTypes, ListenerIceTypes,
       ListenerStreamTypes, ExchangeTypeOK
  <2>4. AnswererIceTypeOK' => AnswererTypeOK'
    BY <2>1 DEF AnswererTypeOK, AnswererIceTypeOK, SendTypes, IceChanTypes, AnswererRouterTypes,
       AgentIceTypes, AgentStreamTypes, ExchangeTypeOK
  <2> QED
    BY <2>2, <2>3, <2>4 DEF TypeOK
<1>2. (UNCHANGED answererVars) => AnswererIceTypeOK'
  BY <1>0, AnswererIceFrame DEF AnswererIceTypeOK, answererVars, iceChanVars
<1>3. (UNCHANGED offererVars) => OffererIceTypeOK'
  BY <1>0, OffererIceFrame DEF OffererIceTypeOK, offererVars, offerVars, answerVars
<1>4. (UNCHANGED channels) => IcesTypeOK'
  BY <1>0 DEF IcesTypeOK, channels
<1>5. ASSUME NEW s \in Sessions, OffererStep(s), UNCHANGED answererVars PROVE TypeOK'
  BY <1>0, <1>1, <1>2, <1>5, OffererTypeStep
<1>6. ASSUME OffererRouting, UNCHANGED answererVars PROVE TypeOK'
  BY <1>0, <1>1, <1>2, <1>6, OffererRoutingTypes
<1>7. ASSUME NEW a \in Agents, AgentStep(a), UNCHANGED offererVars PROVE TypeOK'
  BY <1>1, <1>3, <1>7, AgentTypeStep
<1>8. ASSUME AnswererRouting, UNCHANGED offererVars PROVE TypeOK'
  BY <1>0, <1>1, <1>3, <1>8, AnswererRoutingTypes
<1>9. ASSUME NEW s \in Sessions, HandOverOffer(s) PROVE TypeOK'
  <2>1. UNCHANGED <<channels, notified, sessionMaps, answerWait, listenerIceVars,
                    listenerStreamVars>>
    BY <1>9 DEF HandOverOffer, PutOffer, answerVars
  <2>2. OffererIceTypeOK'
    BY <1>0, <2>1, OffererIceFrame DEF OffererIceTypeOK
  <2>3. UNCHANGED <<answerSend, iceChanVars, answererIceRouter, agentIceVars, agentStreamVars>>
    BY <1>9 DEF HandOverOffer, GetOffer
  <2>4. AnswererIceTypeOK'
    BY <1>0, <2>3, AnswererIceFrame DEF AnswererIceTypeOK, iceChanVars
  <2> QED
    BY <1>1, <1>4, <2>1, <2>2, <2>4
<1>10. ASSUME NEW s \in Sessions, HandOverClose(s) PROVE TypeOK'
  <2>1. /\ listenerIceWait' = [listenerIceWait EXCEPT ![s] = "deleting"]
        /\ UNCHANGED <<listenerIce, offererIceRouter>>
    BY <1>10 DEF HandOverClose, PutCloseIce
  <2>2. ListenerIceTypes'
    BY <1>0, <2>1 DEF ListenerIceTypes, OffererIceTypeOK
  <2>3. UNCHANGED <<channels, notified, sessionMaps, answerWait, listenerStreamVars>>
    BY <1>10 DEF HandOverClose, PutCloseIce, offerVars, answerVars
  <2>4. OffererIceTypeOK'
    BY <1>0, <2>2, <2>3, OffererIceFrame DEF OffererIceTypeOK
  <2>5. UNCHANGED answererVars
    BY <1>10 DEF HandOverClose, GetCloseIce
  <2> QED
    BY <1>1, <1>2, <1>4, <2>3, <2>4, <2>5
<1>11. ASSUME NEW a \in Agents, NEW h \in Hosts, StartAgent(a, h) PROVE TypeOK'
  <2>1. UNCHANGED <<channels, offererVars, answerSend, iceChanVars, answererIceRouter,
                    agentIceVars, agentStreamVars>>
    BY <1>11 DEF StartAgent, WaitForOffer
  <2>2. AnswererIceTypeOK'
    BY <1>0, <2>1, AnswererIceFrame DEF AnswererIceTypeOK, iceChanVars
  <2> QED
    BY <1>1, <1>3, <1>4, <2>1, <2>2
<1>12. CASE UNCHANGED vars
  BY <1>1, <1>2, <1>3, <1>4, <1>12 DEF vars
<1> QED
  BY <1>5, <1>6, <1>7, <1>8, <1>9, <1>10, <1>11, <1>12 DEF Next

LEMMA SeqElements ==
  ASSUME NEW S, NEW q \in Seq(S)
  PROVE  \A i \in DOMAIN q : q[i] \in S
OBVIOUS

\* What is underway to a listener, or has arrived, is a candidate.
LEMMA ToListenerTypes ==
  ASSUME TypeOK
  PROVE  /\ \A i \in DOMAIN iceToOfferCh : iceToOfferCh[i].iceCandidate \in Candidates
         /\ offererIceRouter.at # "recv" => offererIceRouter.pkt.iceCandidate \in Candidates
         /\ \A s \in Sessions : \A i \in DOMAIN listenerIce[s] : listenerIce[s][i] \in Candidates
<1>1. /\ iceToOfferCh \in Seq(IcePacket) /\ listenerIce \in [Sessions -> Seq(Candidates)]
      /\ offererIceRouter.at # "recv" => offererIceRouter.pkt \in IcePacket
  BY DEF TypeOK, ChannelsTypeOK, OffererTypeOK
<1>2. \A p \in IcePacket : p.iceCandidate \in Candidates
  BY DEF IcePacket
<1>3. \A i \in DOMAIN iceToOfferCh : iceToOfferCh[i] \in IcePacket
  BY <1>1, SeqElements
<1>4. \A s \in Sessions : \A i \in DOMAIN listenerIce[s] : listenerIce[s][i] \in Candidates
  BY <1>1, SeqElements
<1> QED
  BY <1>1, <1>2, <1>3, <1>4

-----------------------------------------------------------------------------
(* Candidates for the listener.                                            *)

toListenerVars ==
  <<iceToOfferCh, offererIceRouter, listenerIce, agentOffer, agentStreamVars>>

\* ToListenerInv in two parts: what is underway, and what listeners were given.
ToListenerLine ==
  /\ \A a \in Agents :
       /\ agentHeld[a] <= agentSent[a]
       /\ agentOffer[a] = None => agentStream[a] = "idle" /\ agentSent[a] = 0
  /\ LineInv(offererIceRouter, iceToOfferCh)
  /\ \A i \in DOMAIN iceToOfferCh :
       FromAgent(iceToOfferCh[i].answererID, iceToOfferCh[i].iceCandidate)
  /\ offererIceRouter.at # "recv" =>
       FromAgent(offererIceRouter.pkt.answererID, offererIceRouter.pkt.iceCandidate)

ToListenerGiven ==
  \A s \in Sessions :
    /\ Ordered(listenerIce[s])
    /\ \A i \in DOMAIN listenerIce[s] :
         /\ FromAgent(s, listenerIce[s][i])
         /\ Precedes(listenerIce[s][i], offererIceRouter, iceToOfferCh)

LEMMA ToListenerParts ==
  /\ ToListenerInv => ToListenerLine /\ ToListenerGiven
  /\ ToListenerLine' /\ ToListenerGiven' => ToListenerInv'
BY DEF ToListenerInv, ToListenerLine, ToListenerGiven

LEMMA ToListenerQuiet ==
  ASSUME ToListenerInv, UNCHANGED toListenerVars
  PROVE  ToListenerInv'
<1>0. ToListenerLine /\ ToListenerGiven
  BY ToListenerParts
<1>1. ToListenerLine'
  BY <1>0 DEF ToListenerLine, toListenerVars, agentStreamVars, LineInv, FromAgent
<1>2. ToListenerGiven'
  BY <1>0 DEF ToListenerGiven, toListenerVars, agentStreamVars, Precedes, FromAgent, Ordered
<1> QED
  BY <1>1, <1>2, ToListenerParts

\* The agent receives its next candidate: it is later than all underway.
LEMMA RecvAgentIceInv ==
  ASSUME IceInv, ExchangeInv, NEW a \in Agents, RecvAgentIce(a), UNCHANGED offererVars
  PROVE  ToListenerInv'
<1>1. /\ agentSent \in [Agents -> 0 .. MaxIce] /\ agentHeld \in [Agents -> 0 .. MaxIce]
      /\ iceToOfferCh \in Seq(IcePacket)
      /\ listenerIce \in [Sessions -> Seq(Candidates)]
      /\ offererIceRouter.at # "recv" => offererIceRouter.pkt \in IcePacket
      /\ ToListenerInv
  BY DEF IceInv, TypeOK, ChannelsTypeOK, OffererTypeOK, AnswererTypeOK
<1>2. /\ agentStream[a] = "open" /\ agentHeld[a] = 0
      /\ agentSent' = [agentSent EXCEPT ![a] = @ + 1]
      /\ agentHeld' = [agentHeld EXCEPT ![a] = agentSent[a] + 1]
      /\ UNCHANGED <<iceToOfferCh, agentOffer, agentStream, offererIceRouter, listenerIce>>
  BY DEF RecvAgentIce, channels, agentVars, offererVars, listenerIceVars
<1>3. agentOffer[a] # None
  BY <1>1, <1>2 DEF ToListenerInv
<1>4. ASSUME NEW s, NEW c \in Candidates, FromAgent(s, c) PROVE FromAgent(s, c)'
  BY <1>1, <1>2, <1>4, BoundsAssumption DEF FromAgent, WasSent, Candidates
<1>5. \A b \in Agents : agentHeld'[b] <= agentSent'[b]
                        /\ (agentOffer'[b] = None => agentStream'[b] = "idle" /\ agentSent'[b] = 0)
  BY <1>1, <1>2, <1>3, BoundsAssumption DEF ToListenerInv
<1>6. /\ \A i \in DOMAIN iceToOfferCh : iceToOfferCh[i].iceCandidate \in Candidates
      /\ offererIceRouter.at # "recv" => offererIceRouter.pkt.iceCandidate \in Candidates
      /\ \A s \in Sessions : \A i \in DOMAIN listenerIce[s] : listenerIce[s][i] \in Candidates
  BY ToListenerTypes DEF IceInv
<1> QED
  BY <1>1, <1>2, <1>4, <1>5, <1>6 DEF ToListenerInv, LineInv, Precedes, Ordered, Earlier

\* It pushes what it holds, behind all underway.
LEMMA PushAgentIceInv ==
  ASSUME IceInv, ExchangeInv, NEW a \in Agents, PushAgentIce(a), UNCHANGED offererVars
  PROVE  ToListenerInv'
<1>1. /\ agentSent \in [Agents -> 0 .. MaxIce] /\ agentHeld \in [Agents -> 0 .. MaxIce]
      /\ iceToOfferCh \in Seq(IcePacket)
      /\ listenerIce \in [Sessions -> Seq(Candidates)]
      /\ offererIceRouter.at # "recv" => offererIceRouter.pkt \in IcePacket
      /\ agentOffer[a] \in Sessions \cup {None}
      /\ ToListenerInv
  BY DEF IceInv, TypeOK, ChannelsTypeOK, OffererTypeOK, AnswererTypeOK, WaitingTypeOK
<1>2. /\ agentHeld[a] > 0
      /\ agentHeld' = [agentHeld EXCEPT ![a] = 0]
      /\ UNCHANGED <<agentSent, agentOffer, agentStream, offererIceRouter, listenerIce>>
  BY DEF PushAgentIce, agentVars, offererVars, listenerIceVars
<1>3. agentOffer[a] \in Sessions /\ agentHeld[a] <= agentSent[a]
  BY <1>1, <1>2, BoundsAssumption DEF ToListenerInv
<1>4. PICK c \in Candidates, p \in IcePacket :
        /\ c = [from |-> a, n |-> agentHeld[a]]
        /\ p = [answererID |-> agentOffer[a], iceCandidate |-> c]
        /\ iceToOfferCh' = Append(iceToOfferCh, p)
  BY <1>1, <1>2, <1>3 DEF Candidates, IcePacket, PushAgentIce, AgentPush
<1>5. FromAgent(p.answererID, p.iceCandidate)'
  BY <1>1, <1>2, <1>3, <1>4 DEF FromAgent, WasSent
<1>6. ASSUME NEW s, NEW d \in Candidates, FromAgent(s, d)
      PROVE  FromAgent(s, d)' /\ Earlier(d, c)
  BY <1>1, <1>2, <1>4, <1>6 DEF FromAgent, WasSent, Candidates, Earlier
<1>7. /\ \A i \in DOMAIN iceToOfferCh : iceToOfferCh[i].iceCandidate \in Candidates
      /\ offererIceRouter.at # "recv" => offererIceRouter.pkt.iceCandidate \in Candidates
      /\ \A s \in Sessions : \A i \in DOMAIN listenerIce[s] : listenerIce[s][i] \in Candidates
  BY ToListenerTypes DEF IceInv
<1>8. /\ LineInv(offererIceRouter, iceToOfferCh')
      /\ \A d : Precedes(d, offererIceRouter, iceToOfferCh) /\ Earlier(d, c)
                  => Precedes(d, offererIceRouter, iceToOfferCh')
  <2>1. /\ \A i \in DOMAIN iceToOfferCh : Earlier(iceToOfferCh[i].iceCandidate, p.iceCandidate)
        /\ offererIceRouter.at # "recv" => Earlier(offererIceRouter.pkt.iceCandidate, p.iceCandidate)
        /\ LineInv(offererIceRouter, iceToOfferCh)
    BY <1>1, <1>4, <1>6, <1>7 DEF ToListenerInv
  <2> QED
    BY <1>1, <1>2, <1>4, <2>1, LinePush
<1>9. \A i \in DOMAIN iceToOfferCh' :
        FromAgent(iceToOfferCh[i].answererID, iceToOfferCh[i].iceCandidate)'
  <2>1. \A i \in DOMAIN iceToOfferCh' :
          (i \in DOMAIN iceToOfferCh /\ iceToOfferCh'[i] = iceToOfferCh[i]) \/ iceToOfferCh'[i] = p
    BY <1>1, <1>2, <1>4
  <2>2. ASSUME NEW i \in DOMAIN iceToOfferCh'
        PROVE  FromAgent(iceToOfferCh[i].answererID, iceToOfferCh[i].iceCandidate)'
    <3>1. CASE iceToOfferCh'[i] = p
      BY <1>5, <3>1 DEF FromAgent
    <3>2. CASE i \in DOMAIN iceToOfferCh /\ iceToOfferCh'[i] = iceToOfferCh[i]
      <4>1. FromAgent(iceToOfferCh[i].answererID, iceToOfferCh[i].iceCandidate)
        BY <1>1, <3>2 DEF ToListenerInv
      <4>2. iceToOfferCh[i].iceCandidate \in Candidates
        BY <1>7, <3>2
      <4> QED
        BY <1>6, <3>2, <4>1, <4>2 DEF FromAgent
    <3> QED
      BY <2>1, <3>1, <3>2
  <2> QED
    BY <2>2
<1>10. \A b \in Agents : agentHeld'[b] <= agentSent'[b]
                         /\ (agentOffer'[b] = None => agentStream'[b] = "idle" /\ agentSent'[b] = 0)
  BY <1>1, <1>2, BoundsAssumption DEF ToListenerInv
<1>11. /\ LineInv(offererIceRouter, iceToOfferCh)'
       /\ offererIceRouter'.at # "recv" =>
            FromAgent(offererIceRouter.pkt.answererID, offererIceRouter.pkt.iceCandidate)'
  BY <1>1, <1>2, <1>6, <1>7, <1>8 DEF ToListenerInv, LineInv
<1>12. \A s \in Sessions :
         /\ Ordered(listenerIce'[s])
         /\ \A i \in DOMAIN listenerIce'[s] :
              /\ FromAgent(s, listenerIce[s][i])'
              /\ Precedes(listenerIce'[s][i], offererIceRouter', iceToOfferCh')
  BY <1>1, <1>2, <1>6, <1>7, <1>8 DEF ToListenerInv
<1> QED
  BY <1>9, <1>10, <1>11, <1>12 DEF ToListenerInv, Precedes, Ordered

\* Opening or ending a stream changes nothing that is underway.
LEMMA AgentStreamInv ==
  ASSUME IceInv, ExchangeInv, NEW a \in Agents, UNCHANGED offererVars,
         OpenAgentStream(a) \/ EndAgentStream(a)
  PROVE  ToListenerInv'
<1>1. /\ agentOffer[a] # None
      /\ agentStream \in [Agents -> {"idle", "open", "ended"}]
      /\ ToListenerInv
  BY DEF OpenAgentStream, EndAgentStream, IceInv, TypeOK, AnswererTypeOK, ToListenerInv,
     ExchangeInv, HandlerInv
<1>2. /\ \A b \in Agents : b # a => agentStream'[b] = agentStream[b]
      /\ UNCHANGED <<iceToOfferCh, offererIceRouter, listenerIce, agentOffer, agentHeld, agentSent>>
  BY <1>1 DEF OpenAgentStream, EndAgentStream, channels, agentVars, offererVars, listenerIceVars
<1>3. ToListenerLine /\ ToListenerGiven
  BY <1>1, ToListenerParts
<1>4. ToListenerLine'
  BY <1>1, <1>2, <1>3 DEF ToListenerLine, LineInv, FromAgent
<1>5. ToListenerGiven'
  BY <1>2, <1>3 DEF ToListenerGiven, Precedes, Ordered, FromAgent
<1> QED
  BY <1>4, <1>5, ToListenerParts

\* An agent that takes its offer has sent nothing before.
LEMMA TakeOfferIceInv ==
  ASSUME IceInv, ExchangeInv, NEW a \in Agents, TakeOffer(a), UNCHANGED offererVars
  PROVE  ToListenerInv'
<1> USE NamesAssumption
<1>1. /\ agentOffer[a] = None /\ agentOffer \in [Agents -> Sessions \cup {None}]
      /\ ToListenerInv /\ iceToOfferCh \in Seq(IcePacket)
      /\ offererIceRouter.at # "recv" => offererIceRouter.pkt \in IcePacket
  BY DEF TakeOffer, ExchangeInv, HandlerInv, IceInv, TypeOK, ChannelsTypeOK, OffererTypeOK,
     AnswererTypeOK, WaitingTypeOK
<1>2. /\ \A b \in Agents : b # a => agentOffer'[b] = agentOffer[b]
      /\ UNCHANGED <<iceToOfferCh, offererIceRouter, listenerIce, agentStreamVars>>
  BY <1>1 DEF TakeOffer, channels, offererVars, listenerIceVars
<1>3. ASSUME NEW s \in Sessions, NEW c, FromAgent(s, c) PROVE FromAgent(s, c)'
  BY <1>1, <1>2, <1>3 DEF FromAgent, agentStreamVars
<1>4. /\ \A i \in DOMAIN iceToOfferCh : iceToOfferCh[i].answererID \in Sessions
      /\ offererIceRouter.at # "recv" => offererIceRouter.pkt.answererID \in Sessions
  <2>1. \A i \in DOMAIN iceToOfferCh : iceToOfferCh[i] \in IcePacket
    BY <1>1, SeqElements
  <2> QED
    BY <1>1, <2>1 DEF IcePacket
<1>5. \A b \in Agents :
        /\ agentHeld'[b] <= agentSent'[b]
        /\ agentOffer'[b] = None => agentStream'[b] = "idle" /\ agentSent'[b] = 0
  BY <1>1, <1>2 DEF ToListenerInv, agentStreamVars
<1> QED
  BY <1>1, <1>2, <1>3, <1>4, <1>5 DEF ToListenerInv, LineInv, Precedes, Ordered, Earlier

LEMMA OffererIceRouterRecvInv ==
  ASSUME IceInv, OffererIceRouterRecv, UNCHANGED answererVars
  PROVE  ToListenerInv'
<1>1. ToListenerInv /\ iceToOfferCh \in Seq(IcePacket)
  BY DEF IceInv, TypeOK, ChannelsTypeOK
<1>2. /\ iceToOfferCh # <<>>
      /\ offererIceRouter' = [at |-> "lookup", pkt |-> Head(iceToOfferCh)]
      /\ iceToOfferCh' = Tail(iceToOfferCh)
      /\ UNCHANGED <<listenerIce, agentOffer, agentStreamVars>>
  BY DEF OffererIceRouterRecv, answererVars, agentVars
<1>3. offererIceRouter'.pkt = Head(iceToOfferCh)
  BY <1>2
<1>4. /\ LineInv(offererIceRouter', iceToOfferCh')
      /\ \A c : Precedes(c, offererIceRouter, iceToOfferCh)
                  => Precedes(c, offererIceRouter', iceToOfferCh')
  BY <1>1, <1>2, <1>3, LineRecv DEF ToListenerInv
<1>5. /\ 1 \in DOMAIN iceToOfferCh /\ Head(iceToOfferCh) = iceToOfferCh[1]
      /\ \A i \in DOMAIN iceToOfferCh' : i + 1 \in DOMAIN iceToOfferCh
                                          /\ iceToOfferCh'[i] = iceToOfferCh[i + 1]
  BY <1>1, <1>2
<1>6. /\ \A i \in DOMAIN iceToOfferCh' :
           FromAgent(iceToOfferCh'[i].answererID, iceToOfferCh'[i].iceCandidate)
      /\ FromAgent(offererIceRouter'.pkt.answererID, offererIceRouter'.pkt.iceCandidate)
  <2>1. \A i \in DOMAIN iceToOfferCh :
          FromAgent(iceToOfferCh[i].answererID, iceToOfferCh[i].iceCandidate)
    BY <1>1 DEF ToListenerInv
  <2> QED
    BY <1>3, <1>5, <2>1
<1>7. ToListenerLine /\ ToListenerGiven
  BY <1>1, ToListenerParts
<1>8. ToListenerLine'
  BY <1>2, <1>4, <1>6, <1>7 DEF ToListenerLine, LineInv, FromAgent, agentStreamVars
<1>9. ToListenerGiven'
  BY <1>2, <1>4, <1>7 DEF ToListenerGiven, Precedes, Ordered, FromAgent, agentStreamVars
<1> QED
  BY <1>8, <1>9, ToListenerParts

LEMMA OffererIceRouterLookupInv ==
  ASSUME IceInv, OffererIceRouterLookup, UNCHANGED answererVars
  PROVE  ToListenerInv'
<1>1. /\ ToListenerInv
      /\ offererIceRouter.at = "lookup"
      /\ offererIceRouter'.at # "recv" => offererIceRouter'.pkt = offererIceRouter.pkt
      /\ UNCHANGED <<iceToOfferCh, listenerIce, agentOffer, agentStreamVars>>
  BY DEF OffererIceRouterLookup, IceInv, TypeOK, OffererTypeOK, channels, answererVars, agentVars
<1>2. /\ LineInv(offererIceRouter', iceToOfferCh)
      /\ \A c : Precedes(c, offererIceRouter, iceToOfferCh)
                  => Precedes(c, offererIceRouter', iceToOfferCh)
  BY <1>1, LineMove DEF ToListenerInv
<1> QED
  BY <1>1, <1>2 DEF ToListenerInv, LineInv, Precedes, Ordered, FromAgent, agentStreamVars

LEMMA OffererIceRouterPutInv ==
  ASSUME IceInv, NEW s \in Sessions, OffererIceRouterPut(s), UNCHANGED answererVars
  PROVE  ToListenerInv'
<1>1. /\ ToListenerInv /\ listenerIce \in [Sessions -> Seq(Candidates)]
      /\ offererIceRouter.at = "put" /\ offererIceRouter.pkt.answererID = s
      /\ offererIceRouter'.at = "recv"
      /\ UNCHANGED <<iceToOfferCh, agentOffer, agentStreamVars>>
  BY DEF OffererIceRouterPut, IceInv, TypeOK, OffererTypeOK, channels, answererVars, agentVars
<1>2. PICK c \in Candidates :
        /\ c = offererIceRouter.pkt.iceCandidate
        /\ \/ listenerIce' = [listenerIce EXCEPT ![s] = Append(listenerIce[s], c)]
           \/ listenerIce' = listenerIce
  BY ToListenerTypes, <1>1 DEF OffererIceRouterPut, IceInv
<1>3. /\ LineInv(offererIceRouter', iceToOfferCh)
      /\ \A d : Precedes(d, offererIceRouter, iceToOfferCh)
                  => Precedes(d, offererIceRouter', iceToOfferCh)
  BY <1>1, LineMove DEF ToListenerInv
<1>4. FromAgent(s, c) /\ Precedes(c, offererIceRouter', iceToOfferCh)
  BY <1>1, <1>2 DEF ToListenerInv, LineInv, Precedes
<1>5. ASSUME NEW r \in Sessions
      PROVE  /\ Ordered(listenerIce'[r])
             /\ \A i \in DOMAIN listenerIce'[r] :
                  /\ FromAgent(r, listenerIce'[r][i])
                  /\ Precedes(listenerIce'[r][i], offererIceRouter', iceToOfferCh)
  <2>1. CASE listenerIce'[r] = listenerIce[r]
    BY <1>1, <1>3, <2>1 DEF ToListenerInv
  <2>2. CASE r = s /\ listenerIce'[r] = Append(listenerIce[s], c)
    <3>1. listenerIce[s] \in Seq(Candidates) /\ Ordered(listenerIce[s])
      BY <1>1 DEF ToListenerInv
    <3>2. \A i \in DOMAIN listenerIce[s] : Earlier(listenerIce[s][i], c)
      BY <1>1, <1>2 DEF ToListenerInv, Precedes
    <3>3. Ordered(listenerIce'[r])
      BY <2>2, <3>1, <3>2, OrderedAppend
    <3>4. \A i \in DOMAIN listenerIce'[r] :
            (i \in DOMAIN listenerIce[s] /\ listenerIce'[r][i] = listenerIce[s][i])
              \/ listenerIce'[r][i] = c
      BY <2>2, <3>1
    <3> QED
      BY <1>1, <1>3, <1>4, <2>2, <3>3, <3>4 DEF ToListenerInv
  <2> QED
    BY <1>1, <1>2, <2>1, <2>2
<1> QED
  BY <1>1, <1>3, <1>5 DEF ToListenerInv, LineInv, Precedes, Ordered, FromAgent, agentStreamVars

LEMMA NextToListenerInv ==
  ASSUME IceInv, ExchangeInv, [Next]_vars
  PROVE  ToListenerInv'
<1>0. ToListenerInv
  BY DEF IceInv
<1>1. (UNCHANGED toListenerVars) => ToListenerInv'
  BY <1>0, ToListenerQuiet
<1>2. ASSUME NEW s \in Sessions, OffererStep(s), UNCHANGED answererVars PROVE ToListenerInv'
  <2>1. CASE OffererIceRouterPut(s)
    BY <1>2, <2>1, OffererIceRouterPutInv
  <2>2. CASE ~OffererIceRouterPut(s)
    <3>1. UNCHANGED <<iceToOfferCh, offererIceRouter, listenerIce>>
      BY <1>2, <2>2 DEF OffererStep, SendOffer, NotifyNewOffer, SendOfferTimeout, Cleanup,
         WaitForAnswer, WaitForAnswerTimeout, AnswerRouterPut, WaitForICECandidate,
         WaitForICECandidateTimeout, DeleteIceChan, OpenListenerStream, RecvListenerIce,
         PushListenerIce, EndListenerStream, channels, listenerIceVars
    <3> QED
      BY <1>1, <1>2, <3>1 DEF toListenerVars, answererVars, agentVars, agentStreamVars
  <2> QED
    BY <2>1, <2>2
<1>3. ASSUME OffererRouting, UNCHANGED answererVars PROVE ToListenerInv'
  <2>1. CASE AnswerRouterRecv \/ AnswerRouterLookup
    <3>1. UNCHANGED toListenerVars
      BY <1>3, <2>1 DEF AnswerRouterRecv, AnswerRouterLookup, toListenerVars, channels,
         listenerIceVars, answererVars, agentVars, agentStreamVars
    <3> QED
      BY <1>1, <3>1
  <2> QED
    BY <1>3, <2>1, OffererIceRouterRecvInv, OffererIceRouterLookupInv DEF OffererRouting
<1>4. ASSUME NEW a \in Agents, AgentStep(a), UNCHANGED offererVars PROVE ToListenerInv'
  <2>1. CASE TakeOffer(a) \/ RecvAgentIce(a) \/ PushAgentIce(a)
    BY <1>4, <2>1, TakeOfferIceInv, RecvAgentIceInv, PushAgentIceInv
  <2>2. CASE OpenAgentStream(a) \/ EndAgentStream(a)
    BY <1>4, <2>2, AgentStreamInv
  <2>3. CASE \/ WaitForOfferTimeout(a) \/ WaitForOfferReturn(a) \/ SendAnswer(a)
             \/ SendAnswerTimeout(a) \/ AgentWaitForICECandidate(a) \/ ForwardToAgent(a)
             \/ AgentWaitForICETimeout(a)
    <3>1. UNCHANGED toListenerVars
      BY <1>4, <2>3 DEF WaitForOfferTimeout, WaitForOfferReturn, SendAnswer,
         SendAnswerTimeout, AgentWaitForICECandidate, ForwardToAgent,
         AgentWaitForICETimeout, toListenerVars, channels, offererVars, listenerIceVars,
         agentVars, agentStreamVars
    <3> QED
      BY <1>1, <3>1
  <2> QED
    BY <1>4, <2>1, <2>2, <2>3 DEF AgentStep
<1>5. ASSUME \/ AnswererRouting /\ UNCHANGED offererVars
             \/ \E s \in Sessions : HandOverOffer(s) \/ HandOverClose(s)
             \/ \E a \in Agents, h \in Hosts : StartAgent(a, h)
             \/ UNCHANGED vars
      PROVE  ToListenerInv'
  <2>1. (AnswererRouting /\ UNCHANGED offererVars) => UNCHANGED toListenerVars
    BY DEF AnswererRouting, OfferRouterLookup, OfferRouterPut, WaitChanTimeout,
       AnswererIceRouterRecv, AnswererIceRouterLookup, AnswererIceRouterPut,
       IceChanTimeout, toListenerVars, channels, offererVars, listenerIceVars, agentVars,
       agentStreamVars
  <2>2. (\E s \in Sessions : HandOverOffer(s) \/ HandOverClose(s)) => UNCHANGED toListenerVars
    BY DEF HandOverOffer, PutOffer, GetOffer, HandOverClose, PutCloseIce, GetCloseIce,
       toListenerVars, channels, listenerIceVars, answererVars, agentVars, agentStreamVars
  <2>3. (\E a \in Agents, h \in Hosts : StartAgent(a, h)) => UNCHANGED toListenerVars
    BY DEF StartAgent, WaitForOffer, toListenerVars, channels, offererVars,
       listenerIceVars, agentStreamVars
  <2>4. (UNCHANGED vars) => UNCHANGED toListenerVars
    BY DEF vars, toListenerVars, channels, offererVars, answererVars, listenerIceVars,
       agentVars, agentStreamVars
  <2> QED
    BY <1>1, <1>5, <2>1, <2>2, <2>3, <2>4
<1> QED
  BY <1>2, <1>3, <1>4, <1>5 DEF Next

-----------------------------------------------------------------------------
(* Candidates for the agent.                                               *)

toAgentVars ==
  <<iceToAnsCh, answererIceRouter, iceChans, agentIce, agentIceWait, agentIceChan,
    agentOffer, listenerHeld, listenerSent>>

\* ToAgentInv in three parts: what is underway, the channels, the agents.
ToAgentLine ==
  /\ \A s \in Sessions : listenerHeld[s] <= listenerSent[s]
  /\ LineInv(answererIceRouter, iceToAnsCh)
  /\ \A i \in DOMAIN iceToAnsCh :
       FromListener(iceToAnsCh[i].answererID, iceToAnsCh[i].iceCandidate)
  /\ answererIceRouter.at # "recv" =>
       FromListener(answererIceRouter.pkt.answererID, answererIceRouter.pkt.iceCandidate)

ToAgentChannels ==
  \A s \in Sessions : \A k \in DOMAIN iceChans[s] :
    /\ Ordered(iceChans[s][k])
    /\ \A i \in DOMAIN iceChans[s][k] :
         /\ FromListener(s, iceChans[s][k][i])
         /\ Precedes(iceChans[s][k][i], answererIceRouter, iceToAnsCh)

ToAgentGiven ==
  \A a \in Agents :
    /\ Ordered(agentIce[a])
    /\ \A i \in DOMAIN agentIce[a] :
         /\ FromListener(agentOffer[a], agentIce[a][i])
         /\ Precedes(agentIce[a][i], answererIceRouter, iceToAnsCh)
    /\ agentIceWait[a] = "idle" => agentIce[a] = <<>>
    /\ agentIceWait[a] = "streaming" =>
         /\ agentOffer[a] # None
         /\ agentIceChan[a] \in DOMAIN iceChans[agentOffer[a]]
         /\ \A i \in DOMAIN agentIce[a],
               j \in DOMAIN iceChans[agentOffer[a]][agentIceChan[a]] :
              Earlier(agentIce[a][i], iceChans[agentOffer[a]][agentIceChan[a]][j])

LEMMA ToAgentParts ==
  /\ ToAgentInv => ToAgentLine /\ ToAgentChannels /\ ToAgentGiven
  /\ ToAgentLine' /\ ToAgentChannels' /\ ToAgentGiven' => ToAgentInv'
BY DEF ToAgentInv, ToAgentLine, ToAgentChannels, ToAgentGiven

LEMMA ToAgentQuiet ==
  ASSUME ToAgentInv, UNCHANGED toAgentVars
  PROVE  ToAgentInv'
<1>0. ToAgentLine /\ ToAgentChannels /\ ToAgentGiven
  BY ToAgentParts
<1>1. ToAgentLine'
  BY <1>0 DEF ToAgentLine, toAgentVars, LineInv, FromListener
<1>2. ToAgentChannels'
  BY <1>0 DEF ToAgentChannels, toAgentVars, Precedes, FromListener, Ordered
<1>3. ToAgentGiven'
  BY <1>0 DEF ToAgentGiven, toAgentVars, Precedes, FromListener, Ordered
<1> QED
  BY <1>1, <1>2, <1>3, ToAgentParts

\* What is underway to an agent, or has arrived, is a candidate.
LEMMA ToAgentTypes ==
  ASSUME TypeOK
  PROVE  /\ \A i \in DOMAIN iceToAnsCh : /\ iceToAnsCh[i].iceCandidate \in Candidates
                                         /\ iceToAnsCh[i].answererID \in Sessions
         /\ answererIceRouter.at # "recv" => /\ answererIceRouter.pkt.iceCandidate \in Candidates
                                             /\ answererIceRouter.pkt.answererID \in Sessions
         /\ \A s \in Sessions : \A k \in DOMAIN iceChans[s] :
              /\ iceChans[s][k] \in Seq(Candidates)
              /\ \A i \in DOMAIN iceChans[s][k] : iceChans[s][k][i] \in Candidates
         /\ \A a \in Agents : \A i \in DOMAIN agentIce[a] : agentIce[a][i] \in Candidates
<1>1. /\ iceToAnsCh \in Seq(IcePacket) /\ agentIce \in [Agents -> Seq(Candidates)]
      /\ answererIceRouter.at # "recv" => answererIceRouter.pkt \in IcePacket
      /\ iceChans \in [Sessions -> Seq(Seq(Candidates))]
  BY DEF TypeOK, ChannelsTypeOK, AnswererTypeOK
<1>2. \A p \in IcePacket : p.iceCandidate \in Candidates /\ p.answererID \in Sessions
  BY DEF IcePacket
<1>3. \A i \in DOMAIN iceToAnsCh : iceToAnsCh[i] \in IcePacket
  BY <1>1, SeqElements
<1>4. \A a \in Agents : \A i \in DOMAIN agentIce[a] : agentIce[a][i] \in Candidates
  BY <1>1, SeqElements
<1>5. \A s \in Sessions : \A k \in DOMAIN iceChans[s] : iceChans[s][k] \in Seq(Candidates)
  BY <1>1, SeqElements
<1>6. \A s \in Sessions : \A k \in DOMAIN iceChans[s] :
        \A i \in DOMAIN iceChans[s][k] : iceChans[s][k][i] \in Candidates
  BY <1>5, SeqElements
<1> QED
  BY <1>1, <1>2, <1>3, <1>4, <1>5, <1>6

LEMMA RecvListenerIceInv ==
  ASSUME IceInv, NEW s \in Sessions, RecvListenerIce(s), UNCHANGED answererVars
  PROVE  ToAgentInv'
<1>1. /\ listenerSent \in [Sessions -> 0 .. MaxIce] /\ listenerHeld \in [Sessions -> 0 .. MaxIce]
      /\ ToAgentInv
  BY DEF IceInv, TypeOK, OffererTypeOK
<1>2. /\ listenerSent' = [listenerSent EXCEPT ![s] = @ + 1]
      /\ listenerHeld' = [listenerHeld EXCEPT ![s] = listenerSent[s] + 1]
      /\ listenerHeld[s] = 0
      /\ UNCHANGED <<iceToAnsCh, answererIceRouter, iceChans, agentIce, agentIceWait,
                     agentIceChan, agentOffer>>
  BY DEF RecvListenerIce, channels, answererVars, iceChanVars, agentIceVars, agentVars
<1>3. ASSUME NEW r, NEW c \in Candidates, FromListener(r, c) PROVE FromListener(r, c)'
  <2>1. c.n \in Nat
    BY BoundsAssumption DEF Candidates
  <2>2. CASE r = s
    BY <1>1, <1>2, <1>3, <2>1, <2>2, BoundsAssumption DEF FromListener, WasSent
  <2>3. CASE r # s
    <3>1. listenerSent'[r] = listenerSent[r] /\ listenerHeld'[r] = listenerHeld[r]
      BY <1>1, <1>2, <2>3
    <3> QED
      BY <1>3, <3>1 DEF FromListener, WasSent
  <2> QED
    BY <2>2, <2>3
<1>4. \A r \in Sessions : listenerHeld'[r] <= listenerSent'[r]
  BY <1>1, <1>2, BoundsAssumption DEF ToAgentInv
<1>5. TypeOK
  BY DEF IceInv
<1>6. ToAgentLine /\ ToAgentChannels /\ ToAgentGiven
  BY <1>1, ToAgentParts
<1>7. ToAgentLine'
  BY <1>2, <1>3, <1>4, <1>5, <1>6, ToAgentTypes DEF ToAgentLine, LineInv
<1>8. ToAgentChannels'
  BY <1>2, <1>3, <1>5, <1>6, ToAgentTypes DEF ToAgentChannels, Precedes, Ordered
<1>9. ToAgentGiven'
  BY <1>2, <1>3, <1>5, <1>6, ToAgentTypes DEF ToAgentGiven, Precedes, Ordered
<1> QED
  BY <1>7, <1>8, <1>9, ToAgentParts

LEMMA PushListenerIceInv ==
  ASSUME IceInv, NEW s \in Sessions, PushListenerIce(s), UNCHANGED answererVars
  PROVE  ToAgentInv'
<1>1. /\ listenerSent \in [Sessions -> 0 .. MaxIce] /\ listenerHeld \in [Sessions -> 0 .. MaxIce]
      /\ iceToAnsCh \in Seq(IcePacket)
      /\ TypeOK /\ ToAgentInv
  BY DEF IceInv, TypeOK, OffererTypeOK, ChannelsTypeOK
<1>2. /\ listenerHeld[s] > 0
      /\ listenerHeld' = [listenerHeld EXCEPT ![s] = 0]
      /\ UNCHANGED <<listenerSent, answererIceRouter, iceChans, agentIce, agentIceWait,
                     agentIceChan, agentOffer>>
  BY DEF PushListenerIce, answererVars, iceChanVars, agentIceVars, agentVars
<1>3. PICK c \in Candidates, p \in IcePacket :
        /\ c = [from |-> s, n |-> listenerHeld[s]]
        /\ p = [answererID |-> s, iceCandidate |-> c]
        /\ iceToAnsCh' = Append(iceToAnsCh, p)
  <2>1. [from |-> s, n |-> listenerHeld[s]] \in Candidates
    BY <1>1, <1>2 DEF Candidates
  <2> QED
    BY <2>1 DEF IcePacket, PushListenerIce, PushIce
<1>4. FromListener(p.answererID, p.iceCandidate)'
  BY <1>1, <1>2, <1>3, BoundsAssumption DEF FromListener, WasSent, ToAgentInv
<1>5. ASSUME NEW r, NEW d \in Candidates, FromListener(r, d)
      PROVE  FromListener(r, d)' /\ Earlier(d, c)
  <2>1. CASE r = s
    BY <1>1, <1>2, <1>3, <1>5, <2>1 DEF FromListener, WasSent, Earlier
  <2>2. CASE r # s
    <3>1. listenerHeld'[r] = listenerHeld[r]
      BY <1>1, <1>2, <2>2
    <3> QED
      BY <1>2, <1>3, <1>5, <2>2, <3>1 DEF FromListener, WasSent, Earlier
  <2> QED
    BY <2>1, <2>2
<1>6. /\ LineInv(answererIceRouter, iceToAnsCh')
      /\ \A d : Precedes(d, answererIceRouter, iceToAnsCh) /\ Earlier(d, c)
                  => Precedes(d, answererIceRouter, iceToAnsCh')
  <2>1. /\ \A i \in DOMAIN iceToAnsCh : Earlier(iceToAnsCh[i].iceCandidate, p.iceCandidate)
        /\ answererIceRouter.at # "recv" => Earlier(answererIceRouter.pkt.iceCandidate, p.iceCandidate)
        /\ LineInv(answererIceRouter, iceToAnsCh)
    BY <1>1, <1>3, <1>5, ToAgentTypes DEF ToAgentInv
  <2> QED
    BY <1>1, <1>3, <2>1, LinePush
<1>7. ASSUME NEW i \in DOMAIN iceToAnsCh'
      PROVE  FromListener(iceToAnsCh[i].answererID, iceToAnsCh[i].iceCandidate)'
  <2>1. (i \in DOMAIN iceToAnsCh /\ iceToAnsCh'[i] = iceToAnsCh[i]) \/ iceToAnsCh'[i] = p
    BY <1>1, <1>3
  <2>2. CASE iceToAnsCh'[i] = p
    BY <1>4, <2>2 DEF FromListener
  <2>3. CASE i \in DOMAIN iceToAnsCh /\ iceToAnsCh'[i] = iceToAnsCh[i]
    <3>1. /\ FromListener(iceToAnsCh[i].answererID, iceToAnsCh[i].iceCandidate)
          /\ iceToAnsCh[i].iceCandidate \in Candidates
      BY <1>1, <2>3, ToAgentTypes DEF ToAgentInv
    <3> QED
      BY <1>5, <2>3, <3>1 DEF FromListener
  <2> QED
    BY <2>1, <2>2, <2>3
<1>8. /\ \A r \in Sessions : listenerHeld'[r] <= listenerSent'[r]
      /\ answererIceRouter.at # "recv" =>
           FromListener(answererIceRouter.pkt.answererID, answererIceRouter.pkt.iceCandidate)'
  <2>1. \A r \in Sessions : listenerHeld'[r] <= listenerSent'[r]
    BY <1>1, <1>2, BoundsAssumption DEF ToAgentInv
  <2>2. ASSUME answererIceRouter.at # "recv"
        PROVE  FromListener(answererIceRouter.pkt.answererID, answererIceRouter.pkt.iceCandidate)'
    <3>1. /\ FromListener(answererIceRouter.pkt.answererID, answererIceRouter.pkt.iceCandidate)
          /\ answererIceRouter.pkt.iceCandidate \in Candidates
      BY <1>1, <2>2, ToAgentTypes DEF ToAgentInv
    <3> QED
      BY <1>2, <1>5, <3>1 DEF FromListener
  <2> QED
    BY <2>1, <2>2
<1>9. /\ \A r \in Sessions : \A k \in DOMAIN iceChans[r] :
           /\ Ordered(iceChans[r][k])
           /\ \A i \in DOMAIN iceChans[r][k] :
                /\ FromListener(r, iceChans[r][k][i])'
                /\ Precedes(iceChans[r][k][i], answererIceRouter, iceToAnsCh')
  BY <1>1, <1>2, <1>5, <1>6, ToAgentTypes DEF ToAgentInv, FromListener
<1>10. \A a \in Agents : \A i \in DOMAIN agentIce[a] :
         /\ FromListener(agentOffer[a], agentIce[a][i])'
         /\ Precedes(agentIce[a][i], answererIceRouter, iceToAnsCh')
  <2>1. ASSUME NEW a \in Agents, NEW i \in DOMAIN agentIce[a]
        PROVE  /\ FromListener(agentOffer[a], agentIce[a][i])'
               /\ Precedes(agentIce[a][i], answererIceRouter, iceToAnsCh')
    <3>1. /\ agentIce[a][i] \in Candidates
          /\ FromListener(agentOffer[a], agentIce[a][i])
          /\ Precedes(agentIce[a][i], answererIceRouter, iceToAnsCh)
      BY <1>1, ToAgentTypes DEF ToAgentInv
    <3>2. FromListener(agentOffer[a], agentIce[a][i])'
      BY <1>2, <1>5, <3>1 DEF FromListener
    <3> QED
      BY <1>5, <1>6, <3>1, <3>2 DEF FromListener
  <2> QED
    BY <2>1
<1>11. ToAgentLine'
  BY <1>2, <1>6, <1>7, <1>8 DEF ToAgentLine, LineInv, FromListener
<1>12. ToAgentChannels'
  BY <1>2, <1>9 DEF ToAgentChannels, Precedes, Ordered, FromListener
<1>13. ToAgentGiven'
  <2>1. ToAgentGiven
    BY <1>1, ToAgentParts
  <2> QED
    BY <1>2, <1>10, <2>1 DEF ToAgentGiven, Precedes, Ordered, FromListener
<1> QED
  BY <1>11, <1>12, <1>13, ToAgentParts

LEMMA AnswererIceRouterRecvInv ==
  ASSUME IceInv, AnswererIceRouterRecv, UNCHANGED offererVars
  PROVE  ToAgentInv'
<1>1. ToAgentInv /\ iceToAnsCh \in Seq(IcePacket)
  BY DEF IceInv, TypeOK, ChannelsTypeOK
<1>2. /\ iceToAnsCh # <<>>
      /\ answererIceRouter' = [at |-> "lookup", pkt |-> Head(iceToAnsCh), ch |-> 0]
      /\ iceToAnsCh' = Tail(iceToAnsCh)
      /\ UNCHANGED <<iceChans, agentIce, agentIceWait, agentIceChan, agentOffer, listenerHeld,
                     listenerSent>>
  BY DEF AnswererIceRouterRecv, offererVars, listenerStreamVars, iceChanVars, agentIceVars,
     agentVars
<1>3. answererIceRouter'.pkt = Head(iceToAnsCh)
  BY <1>2
<1>4. /\ LineInv(answererIceRouter', iceToAnsCh')
      /\ \A c : Precedes(c, answererIceRouter, iceToAnsCh)
                  => Precedes(c, answererIceRouter', iceToAnsCh')
  BY <1>1, <1>2, <1>3, LineRecv DEF ToAgentInv
<1>5. /\ 1 \in DOMAIN iceToAnsCh /\ Head(iceToAnsCh) = iceToAnsCh[1]
      /\ \A i \in DOMAIN iceToAnsCh' : i + 1 \in DOMAIN iceToAnsCh
                                        /\ iceToAnsCh'[i] = iceToAnsCh[i + 1]
  BY <1>1, <1>2
<1>6. /\ \A i \in DOMAIN iceToAnsCh' :
           FromListener(iceToAnsCh'[i].answererID, iceToAnsCh'[i].iceCandidate)
      /\ FromListener(answererIceRouter'.pkt.answererID, answererIceRouter'.pkt.iceCandidate)
  <2>1. \A i \in DOMAIN iceToAnsCh :
          FromListener(iceToAnsCh[i].answererID, iceToAnsCh[i].iceCandidate)
    BY <1>1 DEF ToAgentInv
  <2> QED
    BY <1>3, <1>5, <2>1
<1>7. ToAgentLine /\ ToAgentChannels /\ ToAgentGiven
  BY <1>1, ToAgentParts
<1>8. ToAgentLine'
  BY <1>2, <1>4, <1>6, <1>7 DEF ToAgentLine, LineInv, FromListener
<1>9. ToAgentChannels'
  BY <1>2, <1>4, <1>7 DEF ToAgentChannels, Precedes, Ordered, FromListener
<1>10. ToAgentGiven'
  BY <1>2, <1>4, <1>7 DEF ToAgentGiven, Precedes, Ordered, FromListener
<1> QED
  BY <1>8, <1>9, <1>10, ToAgentParts

\* A channel that is made for a session is empty.
LEMMA MadeIceChanInv ==
  ASSUME IceInv, NEW s \in Sessions, EnsureIceChan(s),
         answererIceRouter'.at # "recv" =>
           answererIceRouter.at # "recv" /\ answererIceRouter'.pkt = answererIceRouter.pkt,
         UNCHANGED <<iceToAnsCh, agentIce, agentIceWait, agentIceChan, agentOffer, listenerHeld,
                     listenerSent>>
  PROVE  ToAgentInv'
<1>1. /\ ToAgentInv /\ TypeOK /\ AnswererTypeOK
      /\ iceChans \in [Sessions -> Seq(Seq(Candidates))]
      /\ \A a \in Agents : agentOffer[a] \in Sessions \cup {None}
  BY DEF IceInv, TypeOK, AnswererTypeOK, WaitingTypeOK
<1>2. /\ iceChans' \in [Sessions -> Seq(Seq(Candidates))]
      /\ \A r \in Sessions : Len(iceChans[r]) <= Len(iceChans'[r])
      /\ \A r \in Sessions : \A k \in 1 .. Len(iceChans[r]) : iceChans'[r][k] = iceChans[r][k]
      /\ \A r \in Sessions : \A k \in 1 .. Len(iceChans'[r]) :
           k \in 1 .. Len(iceChans[r]) \/ iceChans'[r][k] = <<>>
  <2>1. IceChanTypes
    BY <1>1 DEF AnswererTypeOK, IceChanTypes
  <2>2. IceChanTypes' => iceChans' \in [Sessions -> Seq(Seq(Candidates))]
    BY DEF IceChanTypes
  <2> QED
    BY <2>1, <2>2, EnsureIceChanTypes
<1>3. /\ \A r \in Sessions : \A k \in DOMAIN iceChans[r] :
           k \in DOMAIN iceChans'[r] /\ iceChans'[r][k] = iceChans[r][k]
      /\ \A r \in Sessions : \A k \in DOMAIN iceChans'[r] :
           k \in DOMAIN iceChans[r] \/ iceChans'[r][k] = <<>>
  <2>1. ASSUME NEW r \in Sessions
        PROVE  /\ DOMAIN iceChans[r] = 1 .. Len(iceChans[r]) /\ Len(iceChans[r]) \in Nat
               /\ DOMAIN iceChans'[r] = 1 .. Len(iceChans'[r]) /\ Len(iceChans'[r]) \in Nat
    <3>1. iceChans[r] \in Seq(Seq(Candidates)) /\ iceChans'[r] \in Seq(Seq(Candidates))
      BY <1>1, <1>2
    <3> QED
      BY <3>1
  <2>2. ASSUME NEW r \in Sessions, NEW k \in DOMAIN iceChans[r]
        PROVE  k \in DOMAIN iceChans'[r] /\ iceChans'[r][k] = iceChans[r][k]
    <3>1. k \in 1 .. Len(iceChans[r])
      BY <2>1, <2>2
    <3>2. Len(iceChans[r]) <= Len(iceChans'[r]) /\ iceChans'[r][k] = iceChans[r][k]
      BY <1>2, <3>1
    <3> QED
      BY <2>1, <3>1, <3>2
  <2>3. ASSUME NEW r \in Sessions, NEW k \in DOMAIN iceChans'[r]
        PROVE  k \in DOMAIN iceChans[r] \/ iceChans'[r][k] = <<>>
    BY <1>2, <2>1, <2>3
  <2> QED
    BY <2>2, <2>3
<1>4. /\ LineInv(answererIceRouter', iceToAnsCh)
      /\ \A c : Precedes(c, answererIceRouter, iceToAnsCh)
                  => Precedes(c, answererIceRouter', iceToAnsCh)
  BY <1>1, LineMove DEF ToAgentInv
<1>5. ASSUME NEW r \in Sessions, NEW k \in DOMAIN iceChans'[r]
      PROVE  /\ Ordered(iceChans'[r][k])
             /\ \A i \in DOMAIN iceChans'[r][k] :
                  /\ FromListener(r, iceChans'[r][k][i])
                  /\ Precedes(iceChans'[r][k][i], answererIceRouter', iceToAnsCh)
  <2>1. CASE k \in DOMAIN iceChans[r]
    BY <1>1, <1>3, <1>4, <2>1 DEF ToAgentInv
  <2>2. CASE iceChans'[r][k] = <<>>
    BY <2>2 DEF Ordered
  <2> QED
    BY <1>3, <2>1, <2>2
<1>6. ASSUME NEW a \in Agents
      PROVE  /\ Ordered(agentIce[a])
             /\ \A i \in DOMAIN agentIce[a] :
                  /\ FromListener(agentOffer[a], agentIce[a][i])
                  /\ Precedes(agentIce[a][i], answererIceRouter', iceToAnsCh)
             /\ agentIceWait[a] = "idle" => agentIce[a] = <<>>
             /\ agentIceWait[a] = "streaming" =>
                  /\ agentOffer[a] # None
                  /\ agentIceChan[a] \in DOMAIN iceChans'[agentOffer[a]]
                  /\ \A i \in DOMAIN agentIce[a],
                        j \in DOMAIN iceChans'[agentOffer[a]][agentIceChan[a]] :
                       Earlier(agentIce[a][i], iceChans'[agentOffer[a]][agentIceChan[a]][j])
  BY <1>1, <1>3, <1>4 DEF ToAgentInv
<1>7. ToAgentLine'
  <2>1. ToAgentLine
    BY <1>1, ToAgentParts
  <2> QED
    BY <1>4, <2>1 DEF ToAgentLine, LineInv, FromListener
<1>8. ToAgentChannels'
  BY <1>5 DEF ToAgentChannels, Precedes, Ordered, FromListener
<1>9. ToAgentGiven'
  BY <1>6 DEF ToAgentGiven, Precedes, Ordered, FromListener
<1> QED
  BY <1>7, <1>8, <1>9, ToAgentParts

LEMMA AnswererIceRouterPutInv ==
  ASSUME IceInv, AnswererIceRouterPut, UNCHANGED offererVars
  PROVE  ToAgentInv'
<1> DEFINE s == answererIceRouter.pkt.answererID
           k == answererIceRouter.ch
           c == answererIceRouter.pkt.iceCandidate
<1>1. /\ ToAgentInv /\ TypeOK
      /\ iceChans \in [Sessions -> Seq(Seq(Candidates))]
      /\ \A a \in Agents : agentOffer[a] \in Sessions \cup {None}
      /\ answererIceRouter.at = "put"
      /\ k \in 1 .. Len(iceChans[s])
  BY DEF IceInv, TypeOK, AnswererTypeOK, WaitingTypeOK, AnswererIceRouterPut
<1>2. s \in Sessions /\ c \in Candidates
  BY <1>1, ToAgentTypes
<1>3. PICK new : new = Append(iceChans[s][k], c)
  OBVIOUS
<1>4. /\ iceChans' = [iceChans EXCEPT ![s] = [iceChans[s] EXCEPT ![k] = new]]
      /\ answererIceRouter'.at = "recv"
      /\ UNCHANGED <<iceToAnsCh, agentIce, agentIceWait, agentIceChan, agentOffer, listenerHeld,
                     listenerSent>>
  BY <1>1, <1>2, <1>3 DEF AnswererIceRouterPut, IdleIceRouter, channels, offererVars,
     listenerStreamVars, agentIceVars, agentVars
<1>5. /\ \A r \in Sessions : DOMAIN iceChans'[r] = DOMAIN iceChans[r]
      /\ iceChans'[s][k] = new
      /\ \A r \in Sessions : \A j \in DOMAIN iceChans[r] :
           r # s \/ j # k => iceChans'[r][j] = iceChans[r][j]
  BY <1>1, <1>2, <1>4
<1>6. /\ LineInv(answererIceRouter', iceToAnsCh)
      /\ \A d : Precedes(d, answererIceRouter, iceToAnsCh)
                  => Precedes(d, answererIceRouter', iceToAnsCh)
  BY <1>1, <1>4, LineMove DEF ToAgentInv
<1>7. FromListener(s, c) /\ Precedes(c, answererIceRouter', iceToAnsCh)
  BY <1>1, <1>4 DEF ToAgentInv, LineInv, Precedes
<1>8. /\ iceChans[s][k] \in Seq(Candidates) /\ k \in DOMAIN iceChans[s]
      /\ Ordered(iceChans[s][k])
      /\ \A i \in DOMAIN iceChans[s][k] : Earlier(iceChans[s][k][i], c)
      /\ \A a \in Agents : \A i \in DOMAIN agentIce[a] : Earlier(agentIce[a][i], c)
  <2>1. k \in DOMAIN iceChans[s]
    BY <1>1, <1>2
  <2>2. iceChans[s][k] \in Seq(Candidates)
    BY <1>1, <1>2, <2>1, ToAgentTypes
  <2>3. /\ Ordered(iceChans[s][k])
        /\ \A i \in DOMAIN iceChans[s][k] :
             Precedes(iceChans[s][k][i], answererIceRouter, iceToAnsCh)
        /\ \A a \in Agents : \A i \in DOMAIN agentIce[a] :
             Precedes(agentIce[a][i], answererIceRouter, iceToAnsCh)
    BY <1>1, <1>2, <2>1 DEF ToAgentInv
  <2> QED
    BY <1>1, <2>1, <2>2, <2>3 DEF Precedes
<1>9. /\ Ordered(new)
      /\ \A i \in DOMAIN new : (i \in DOMAIN iceChans[s][k] /\ new[i] = iceChans[s][k][i])
                                 \/ new[i] = c
  <2> DEFINE old == iceChans[s][k]
  <2>1. /\ old \in Seq(Candidates) /\ c \in Candidates /\ new = Append(old, c)
        /\ Ordered(old) /\ \A i \in DOMAIN old : Earlier(old[i], c)
    BY <1>2, <1>3, <1>8
  <2> HIDE DEF old, c
  <2>2. Ordered(new)
    BY <2>1, OrderedAppend
  <2>3. \A i \in DOMAIN new : (i \in DOMAIN old /\ new[i] = old[i]) \/ new[i] = c
    BY <2>1, AppendElements
  <2> QED
    BY <2>2, <2>3 DEF old
<1> HIDE DEF s, k, c
<1>10. ASSUME NEW r \in Sessions, NEW j \in DOMAIN iceChans[r]
       PROVE  /\ Ordered(iceChans'[r][j])
              /\ \A i \in DOMAIN iceChans'[r][j] :
                   /\ FromListener(r, iceChans'[r][j][i])
                   /\ Precedes(iceChans'[r][j][i], answererIceRouter', iceToAnsCh)
  <2>1. CASE r = s /\ j = k
    <3>1. \A i \in DOMAIN iceChans[s][k] :
            FromListener(s, iceChans[s][k][i])
              /\ Precedes(iceChans[s][k][i], answererIceRouter', iceToAnsCh)
      BY <1>1, <1>2, <1>6, <1>8 DEF ToAgentInv
    <3> QED
      BY <1>5, <1>7, <1>9, <2>1, <3>1
  <2>2. CASE r # s \/ j # k
    BY <1>1, <1>5, <1>6, <2>2 DEF ToAgentInv
  <2> QED
    BY <2>1, <2>2
<1>11. ASSUME NEW a \in Agents
       PROVE  /\ Ordered(agentIce[a])
              /\ \A i \in DOMAIN agentIce[a] :
                   /\ FromListener(agentOffer[a], agentIce[a][i])
                   /\ Precedes(agentIce[a][i], answererIceRouter', iceToAnsCh)
  BY <1>1, <1>6 DEF ToAgentInv
<1>12. ASSUME NEW a \in Agents, agentIceWait[a] = "streaming"
       PROVE  /\ agentOffer[a] # None
              /\ agentIceChan[a] \in DOMAIN iceChans'[agentOffer[a]]
              /\ \A i \in DOMAIN agentIce[a],
                    j \in DOMAIN iceChans'[agentOffer[a]][agentIceChan[a]] :
                   Earlier(agentIce[a][i], iceChans'[agentOffer[a]][agentIceChan[a]][j])
  <2>1. /\ agentOffer[a] \in Sessions
        /\ agentOffer[a] # None
        /\ agentIceChan[a] \in DOMAIN iceChans[agentOffer[a]]
        /\ \A i \in DOMAIN agentIce[a],
              j \in DOMAIN iceChans[agentOffer[a]][agentIceChan[a]] :
             Earlier(agentIce[a][i], iceChans[agentOffer[a]][agentIceChan[a]][j])
    BY <1>1, <1>12 DEF ToAgentInv
  <2>2. CASE agentOffer[a] = s /\ agentIceChan[a] = k
    BY <1>5, <1>8, <1>9, <2>1, <2>2
  <2>3. CASE agentOffer[a] # s \/ agentIceChan[a] # k
    BY <1>5, <2>1, <2>3
  <2> QED
    BY <2>2, <2>3
<1>13. ToAgentLine'
  <2>1. ToAgentLine
    BY <1>1, ToAgentParts
  <2> QED
    BY <1>4, <1>6, <2>1 DEF ToAgentLine, LineInv, FromListener
<1>14. ToAgentChannels'
  BY <1>4, <1>5, <1>10 DEF ToAgentChannels, Precedes, Ordered, FromListener
<1>15. ToAgentGiven'
  <2>1. ToAgentGiven
    BY <1>1, ToAgentParts
  <2> QED
    BY <1>4, <1>11, <1>12, <2>1 DEF ToAgentGiven, Precedes, Ordered, FromListener
<1> QED
  BY <1>13, <1>14, <1>15, ToAgentParts

\* An agent that takes an offer was given no candidate before.
LEMMA TakeOfferToAgentInv ==
  ASSUME IceInv, ExchangeInv, NEW a \in Agents, TakeOffer(a), UNCHANGED offererVars
  PROVE  ToAgentInv'
<1>1. /\ ToAgentInv /\ TypeOK
      /\ agentOffer \in [Agents -> Sessions \cup {None}]
      /\ agentOffer[a] = None
  BY DEF IceInv, TypeOK, AnswererTypeOK, WaitingTypeOK, ExchangeInv, HandlerInv, TakeOffer
<1>2. /\ \A b \in Agents : b # a => agentOffer'[b] = agentOffer[b]
      /\ UNCHANGED <<iceToAnsCh, answererIceRouter, iceChans, agentIce, agentIceWait,
                     agentIceChan, listenerHeld, listenerSent>>
  BY <1>1 DEF TakeOffer, channels, offererVars, listenerStreamVars, iceChanVars, agentIceVars
<1>3. ASSUME NEW i \in DOMAIN agentIce[a] PROVE FALSE
  <2>1. agentIce[a][i] \in Candidates /\ agentIce[a][i].from = None
    BY <1>1, <1>3, ToAgentTypes DEF ToAgentInv, FromListener
  <2> QED
    BY <2>1, NamesAssumption DEF Candidates
<1>4. agentIceWait[a] # "streaming"
  BY <1>1 DEF ToAgentInv
<1>5. ASSUME NEW b \in Agents
      PROVE  /\ Ordered(agentIce[b])
             /\ \A i \in DOMAIN agentIce[b] :
                  /\ FromListener(agentOffer'[b], agentIce[b][i])
                  /\ Precedes(agentIce[b][i], answererIceRouter, iceToAnsCh)
             /\ agentIceWait[b] = "idle" => agentIce[b] = <<>>
             /\ agentIceWait[b] = "streaming" =>
                  /\ agentOffer'[b] # None
                  /\ agentIceChan[b] \in DOMAIN iceChans[agentOffer'[b]]
                  /\ \A i \in DOMAIN agentIce[b],
                        j \in DOMAIN iceChans[agentOffer'[b]][agentIceChan[b]] :
                       Earlier(agentIce[b][i], iceChans[agentOffer'[b]][agentIceChan[b]][j])
  <2>1. CASE b = a
    BY <1>1, <1>3, <1>4, <2>1 DEF ToAgentInv
  <2>2. CASE b # a
    <3>1. agentOffer'[b] = agentOffer[b]
      BY <1>2, <2>2
    <3> QED
      BY <1>1, <3>1 DEF ToAgentInv
  <2> QED
    BY <2>1, <2>2
<1>6. ToAgentLine /\ ToAgentChannels
  BY <1>1, ToAgentParts
<1>7. ToAgentLine'
  BY <1>2, <1>6 DEF ToAgentLine, LineInv, FromListener
<1>8. ToAgentChannels'
  BY <1>2, <1>6 DEF ToAgentChannels, Precedes, Ordered, FromListener
<1>9. ToAgentGiven'
  BY <1>2, <1>5 DEF ToAgentGiven, Precedes, Ordered, FromListener
<1> QED
  BY <1>7, <1>8, <1>9, ToAgentParts

LEMMA WaitForOfferReturnToAgentInv ==
  ASSUME IceInv, ExchangeInv, NEW a \in Agents, WaitForOfferReturn(a), UNCHANGED offererVars
  PROVE  ToAgentInv'
<1>1. agentOffer[a] \in Sessions
  BY DEF IceInv, TypeOK, AnswererTypeOK, WaitingTypeOK, ExchangeInv, HandlerInv,
     WaitForOfferReturn
<1>2. /\ EnsureIceChan(agentOffer[a])
      /\ UNCHANGED <<iceToAnsCh, answererIceRouter, agentIce, agentIceWait, agentIceChan,
                     agentOffer, listenerHeld, listenerSent>>
  BY DEF WaitForOfferReturn, channels, offererVars, listenerStreamVars, agentIceVars
<1> QED
  BY <1>1, <1>2, MadeIceChanInv

LEMMA AnswererIceRouterLookupInv ==
  ASSUME IceInv, AnswererIceRouterLookup, UNCHANGED offererVars
  PROVE  ToAgentInv'
<1>1. /\ answererIceRouter.at = "lookup"
      /\ answererIceRouter \in
           [at : {"recv", "lookup", "put"}, pkt : IcePacket \cup {None}, ch : Nat]
      /\ TypeOK
  BY DEF IceInv, TypeOK, AnswererTypeOK, AnswererIceRouterLookup
<1>2. answererIceRouter.pkt.answererID \in Sessions
  BY <1>1, ToAgentTypes
<1>3. /\ EnsureIceChan(answererIceRouter.pkt.answererID)
      /\ answererIceRouter'.pkt = answererIceRouter.pkt
      /\ UNCHANGED <<iceToAnsCh, agentIce, agentIceWait, agentIceChan, agentOffer,
                     listenerHeld, listenerSent>>
  BY <1>1 DEF AnswererIceRouterLookup, channels, offererVars, listenerStreamVars,
     agentIceVars, agentVars
<1> QED
  BY <1>1, <1>2, <1>3, MadeIceChanInv

\* The channel an agent begins to read is the one its session has now.
LEMMA AgentWaitForICECandidateInv ==
  ASSUME IceInv, ExchangeInv, NEW a \in Agents, AgentWaitForICECandidate(a),
         UNCHANGED offererVars
  PROVE  ToAgentInv'
<1>1. /\ ToAgentInv /\ agentOffer[a] \in Sessions /\ agentOffer[a] # None
      /\ agentIceWait[a] = "idle"
      /\ agentIceWait \in [Agents -> {"idle", "streaming", "done", "notFound"}]
      /\ agentIceChan \in [Agents -> Nat]
      /\ iceChans[agentOffer[a]] \in Seq(Seq(Candidates))
      /\ answererIceChan[agentOffer[a]] \in 0 .. Len(iceChans[agentOffer[a]])
  BY DEF IceInv, TypeOK, AnswererTypeOK, WaitingTypeOK, ExchangeInv, HandlerInv,
     AgentWaitForICECandidate
<1>2. /\ agentIceWait' = [agentIceWait EXCEPT ![a] =
                            IF answererIceChan[agentOffer[a]] # 0
                              THEN "streaming" ELSE "notFound"]
      /\ agentIceChan' = [agentIceChan EXCEPT ![a] = answererIceChan[agentOffer[a]]]
  BY DEF AgentWaitForICECandidate
<1>0. UNCHANGED <<iceToAnsCh, answererIceRouter, iceChans, agentIce, agentOffer, listenerHeld,
                  listenerSent>>
  BY DEF AgentWaitForICECandidate, channels, offererVars, listenerStreamVars, iceChanVars,
     agentVars
<1>3. agentIce[a] = <<>>
  BY <1>1 DEF ToAgentInv
<1>4. ASSUME NEW b \in Agents
      PROVE  /\ agentIceWait'[b] = "idle" => agentIce[b] = <<>>
             /\ agentIceWait'[b] = "streaming" =>
                  /\ agentOffer[b] # None
                  /\ agentIceChan'[b] \in DOMAIN iceChans[agentOffer[b]]
                  /\ \A i \in DOMAIN agentIce[b],
                        j \in DOMAIN iceChans[agentOffer[b]][agentIceChan'[b]] :
                       Earlier(agentIce[b][i], iceChans[agentOffer[b]][agentIceChan'[b]][j])
  <2>1. CASE b = a
    <3>1. agentIceWait'[a] = "streaming" =>
            agentIceChan'[a] \in 1 .. Len(iceChans[agentOffer[a]])
      BY <1>1, <1>2
    <3>2. DOMAIN iceChans[agentOffer[a]] = 1 .. Len(iceChans[agentOffer[a]])
      BY <1>1
    <3> QED
      BY <1>1, <1>3, <2>1, <3>1, <3>2
  <2>2. CASE b # a
    <3>1. agentIceWait'[b] = agentIceWait[b] /\ agentIceChan'[b] = agentIceChan[b]
      BY <1>1, <1>2, <2>2
    <3> QED
      BY <1>1, <3>1 DEF ToAgentInv
  <2> QED
    BY <2>1, <2>2
<1>5. ToAgentInv
  BY <1>1
<1>6. ASSUME NEW b \in Agents
      PROVE  /\ Ordered(agentIce[b])
             /\ \A i \in DOMAIN agentIce[b] :
                  /\ FromListener(agentOffer[b], agentIce[b][i])
                  /\ Precedes(agentIce[b][i], answererIceRouter, iceToAnsCh)
  BY <1>5 DEF ToAgentInv
<1>7. ToAgentLine /\ ToAgentChannels /\ ToAgentGiven
  BY <1>5, ToAgentParts
<1>8. ToAgentLine'
  BY <1>0, <1>7 DEF ToAgentLine, LineInv, FromListener
<1>9. ToAgentChannels'
  BY <1>0, <1>7 DEF ToAgentChannels, Precedes, Ordered, FromListener
<1>10. ToAgentGiven'
  BY <1>0, <1>4, <1>6, <1>7 DEF ToAgentGiven, Precedes, Ordered, FromListener
<1> QED
  BY <1>8, <1>9, <1>10, ToAgentParts

\* A handler that ends does not read on.
LEMMA AgentWaitForICETimeoutInv ==
  ASSUME IceInv, NEW a \in Agents,
         agentIceWait[a] = "streaming",
         agentIceWait' = [agentIceWait EXCEPT ![a] = "done"],
         UNCHANGED <<iceToAnsCh, answererIceRouter, iceChans, agentIce, agentIceChan,
                     agentOffer, listenerHeld, listenerSent>>
  PROVE  ToAgentInv'
<1>1. ToAgentInv /\ agentIceWait \in [Agents -> {"idle", "streaming", "done", "notFound"}]
  BY DEF IceInv, TypeOK, AnswererTypeOK
<1>2. \A b \in Agents : agentIceWait'[b] = "done" \/ agentIceWait'[b] = agentIceWait[b]
  BY <1>1
<1>3. ASSUME NEW b \in Agents
      PROVE  /\ agentIceWait'[b] = "idle" => agentIce[b] = <<>>
             /\ agentIceWait'[b] = "streaming" =>
                  /\ agentOffer[b] # None
                  /\ agentIceChan[b] \in DOMAIN iceChans[agentOffer[b]]
                  /\ \A i \in DOMAIN agentIce[b],
                        j \in DOMAIN iceChans[agentOffer[b]][agentIceChan[b]] :
                       Earlier(agentIce[b][i], iceChans[agentOffer[b]][agentIceChan[b]][j])
  BY <1>1, <1>2 DEF ToAgentInv
<1> QED
  BY <1>1, <1>3 DEF ToAgentInv, LineInv, Precedes, Ordered, FromListener

\* The first candidate leaves the channel; the agent is given it, or not.
LEMMA ForwardToAgentInv ==
  ASSUME IceInv, NEW a \in Agents, ForwardToAgent(a), UNCHANGED offererVars
  PROVE  ToAgentInv'
<1> DEFINE s == agentOffer[a]
           k == agentIceChan[a]
<1>1. /\ ToAgentInv /\ TypeOK
      /\ iceChans \in [Sessions -> Seq(Seq(Candidates))]
      /\ agentOffer \in [Agents -> Sessions \cup {None}]
      /\ agentIce \in [Agents -> Seq(Candidates)]
      /\ agentIceWait \in [Agents -> {"idle", "streaming", "done", "notFound"}]
      /\ agentIceWait[a] = "streaming"
      /\ iceChans[s][k] # <<>>
  BY DEF IceInv, TypeOK, AnswererTypeOK, WaitingTypeOK, ForwardToAgent
<1>2. s \in Sessions /\ k \in DOMAIN iceChans[s]
  BY <1>1 DEF ToAgentInv
<1>3. iceChans[s][k] \in Seq(Candidates) /\ Ordered(iceChans[s][k])
  BY <1>1, <1>2, ToAgentTypes DEF ToAgentInv
<1>4. PICK first, rest : first = Head(iceChans[s][k]) /\ rest = Tail(iceChans[s][k])
  OBVIOUS
<1>5. /\ first \in Candidates /\ 1 \in DOMAIN iceChans[s][k] /\ first = iceChans[s][k][1]
      /\ Ordered(rest)
      /\ \A i \in DOMAIN rest : Earlier(first, rest[i])
      /\ \A i \in DOMAIN rest : i + 1 \in DOMAIN iceChans[s][k]
                                  /\ rest[i] = iceChans[s][k][i + 1]
  <2> DEFINE old == iceChans[s][k]
  <2>1. old \in Seq(Candidates) /\ old # <<>> /\ Ordered(old)
    BY <1>1, <1>3
  <2>2. first = Head(old) /\ rest = Tail(old)
    BY <1>4
  <2> HIDE DEF old
  <2>3. first \in Candidates /\ 1 \in DOMAIN old /\ first = old[1]
    BY <2>1, <2>2
  <2>4. /\ Ordered(rest)
        /\ \A i \in DOMAIN rest : Earlier(first, rest[i])
        /\ \A i \in DOMAIN rest : i + 1 \in DOMAIN old /\ rest[i] = old[i + 1]
    BY <2>1, <2>2, OrderedTail
  <2> QED
    BY <2>3, <2>4 DEF old
<1>6. /\ iceChans' = [iceChans EXCEPT ![s] = [iceChans[s] EXCEPT ![k] = rest]]
      /\ UNCHANGED <<iceToAnsCh, answererIceRouter, agentIceChan, agentOffer, listenerHeld,
                     listenerSent>>
      /\ \/ /\ agentIce' = [agentIce EXCEPT ![a] = Append(agentIce[a], first)]
            /\ UNCHANGED agentIceWait
         \/ /\ agentIceWait' = [agentIceWait EXCEPT ![a] = "done"]
            /\ UNCHANGED agentIce
  BY <1>1, <1>4 DEF ForwardToAgent, channels, offererVars, listenerStreamVars, agentVars
<1>7. /\ \A r \in Sessions : DOMAIN iceChans'[r] = DOMAIN iceChans[r]
      /\ iceChans'[s][k] = rest
      /\ \A r \in Sessions : \A j \in DOMAIN iceChans[r] :
           r # s \/ j # k => iceChans'[r][j] = iceChans[r][j]
  BY <1>1, <1>2, <1>6
<1>8. \A b \in Agents :
        /\ agentIceWait'[b] \in {agentIceWait[b], "done"}
        /\ b # a => agentIce'[b] = agentIce[b]
        /\ agentIce'[b] = agentIce[b] \/ (b = a /\ agentIce'[a] = Append(agentIce[a], first))
  BY <1>1, <1>6
<1>9. ASSUME NEW r \in Sessions, NEW j \in DOMAIN iceChans[r]
      PROVE  /\ Ordered(iceChans'[r][j])
             /\ \A i \in DOMAIN iceChans'[r][j] :
                  /\ \E m \in DOMAIN iceChans[r][j] : iceChans'[r][j][i] = iceChans[r][j][m]
                  /\ FromListener(r, iceChans'[r][j][i])
                  /\ Precedes(iceChans'[r][j][i], answererIceRouter, iceToAnsCh)
  <2>1. CASE r = s /\ j = k
    <3>1. \A m \in DOMAIN iceChans[s][k] :
            FromListener(s, iceChans[s][k][m])
              /\ Precedes(iceChans[s][k][m], answererIceRouter, iceToAnsCh)
      BY <1>1, <1>2 DEF ToAgentInv
    <3>2. \A i \in DOMAIN rest :
            i + 1 \in DOMAIN iceChans[s][k] /\ rest[i] = iceChans[s][k][i + 1]
      BY <1>5
    <3>3. iceChans'[r][j] = rest
      BY <1>7, <2>1
    <3> QED
      BY <1>5, <2>1, <3>1, <3>2, <3>3
  <2>2. CASE r # s \/ j # k
    BY <1>1, <1>7, <2>2 DEF ToAgentInv
  <2> QED
    BY <2>1, <2>2
<1>10. /\ FromListener(s, first) /\ Precedes(first, answererIceRouter, iceToAnsCh)
       /\ \A i \in DOMAIN agentIce[a] : Earlier(agentIce[a][i], first)
       /\ agentIce[a] \in Seq(Candidates) /\ Ordered(agentIce[a])
  BY <1>1, <1>2, <1>5 DEF ToAgentInv
<1>11. /\ Ordered(Append(agentIce[a], first))
       /\ \A i \in DOMAIN Append(agentIce[a], first) :
            \/ i \in DOMAIN agentIce[a] /\ Append(agentIce[a], first)[i] = agentIce[a][i]
            \/ Append(agentIce[a], first)[i] = first
  <2> DEFINE old == agentIce[a]
  <2>1. /\ old \in Seq(Candidates) /\ first \in Candidates
        /\ Ordered(old) /\ \A i \in DOMAIN old : Earlier(old[i], first)
    BY <1>5, <1>10
  <2> HIDE DEF old
  <2>2. Ordered(Append(old, first))
    BY <2>1, OrderedAppend
  <2>3. \A i \in DOMAIN Append(old, first) :
          (i \in DOMAIN old /\ Append(old, first)[i] = old[i]) \/ Append(old, first)[i] = first
    BY <2>1, AppendElements
  <2> QED
    BY <2>2, <2>3 DEF old
<1>12. ASSUME NEW b \in Agents
       PROVE  /\ Ordered(agentIce'[b])
              /\ \A i \in DOMAIN agentIce'[b] :
                   /\ FromListener(agentOffer[b], agentIce'[b][i])
                   /\ Precedes(agentIce'[b][i], answererIceRouter, iceToAnsCh)
  <2>1. CASE agentIce'[b] = agentIce[b]
    BY <1>1, <2>1 DEF ToAgentInv
  <2>2. CASE b = a /\ agentIce'[a] = Append(agentIce[a], first)
    <3>1. \A i \in DOMAIN agentIce[a] :
            FromListener(s, agentIce[a][i]) /\ Precedes(agentIce[a][i], answererIceRouter, iceToAnsCh)
      BY <1>1 DEF ToAgentInv
    <3> QED
      BY <1>10, <1>11, <2>2, <3>1
  <2> QED
    BY <1>8, <2>1, <2>2
<1>13. ASSUME NEW b \in Agents, agentIceWait'[b] = "idle" PROVE agentIce'[b] = <<>>
  BY <1>1, <1>8, <1>13 DEF ToAgentInv
<1>14. ASSUME NEW b \in Agents, agentIceWait'[b] = "streaming"
       PROVE  /\ agentOffer[b] # None
              /\ agentIceChan[b] \in DOMAIN iceChans'[agentOffer[b]]
              /\ \A i \in DOMAIN agentIce'[b],
                    j \in DOMAIN iceChans'[agentOffer[b]][agentIceChan[b]] :
                   Earlier(agentIce'[b][i], iceChans'[agentOffer[b]][agentIceChan[b]][j])
  <2>1. /\ agentOffer[b] \in Sessions /\ agentOffer[b] # None
        /\ agentIceChan[b] \in DOMAIN iceChans[agentOffer[b]]
        /\ \A i \in DOMAIN agentIce[b],
              j \in DOMAIN iceChans[agentOffer[b]][agentIceChan[b]] :
             Earlier(agentIce[b][i], iceChans[agentOffer[b]][agentIceChan[b]][j])
    BY <1>1, <1>8, <1>14 DEF ToAgentInv
  <2>2. \A j \in DOMAIN iceChans'[agentOffer[b]][agentIceChan[b]] :
          \E m \in DOMAIN iceChans[agentOffer[b]][agentIceChan[b]] :
            iceChans'[agentOffer[b]][agentIceChan[b]][j]
              = iceChans[agentOffer[b]][agentIceChan[b]][m]
    BY <1>9, <2>1
  <2>3. CASE agentIce'[b] = agentIce[b]
    BY <1>7, <2>1, <2>2, <2>3
  <2>4. CASE b = a /\ agentIce'[a] = Append(agentIce[a], first)
    <3>1. \A j \in DOMAIN iceChans'[s][k] : Earlier(first, iceChans'[s][k][j])
      BY <1>5, <1>7
    <3>2. ASSUME NEW i \in DOMAIN agentIce'[a], NEW j \in DOMAIN iceChans'[s][k]
          PROVE  Earlier(agentIce'[a][i], iceChans'[s][k][j])
      <4>1. CASE agentIce'[a][i] = first
        BY <3>1, <4>1
      <4>2. CASE i \in DOMAIN agentIce[a] /\ agentIce'[a][i] = agentIce[a][i]
        BY <2>1, <2>2, <2>4, <4>2
      <4> QED
        BY <1>11, <2>4, <4>1, <4>2
    <3> QED
      BY <1>7, <2>1, <2>4, <3>2
  <2> QED
    BY <1>8, <2>3, <2>4
<1>15. /\ \A r \in Sessions : listenerHeld[r] <= listenerSent[r]
       /\ LineInv(answererIceRouter, iceToAnsCh)
       /\ \A i \in DOMAIN iceToAnsCh :
            FromListener(iceToAnsCh[i].answererID, iceToAnsCh[i].iceCandidate)
       /\ answererIceRouter.at # "recv" =>
            FromListener(answererIceRouter.pkt.answererID, answererIceRouter.pkt.iceCandidate)
  BY <1>1 DEF ToAgentInv
<1>16. UNCHANGED <<iceToAnsCh, answererIceRouter, agentIceChan, agentOffer, listenerHeld,
                   listenerSent>>
  BY <1>6
<1>17. \A r \in Sessions : \A j \in DOMAIN iceChans'[r] :
         /\ Ordered(iceChans'[r][j])
         /\ \A i \in DOMAIN iceChans'[r][j] :
              /\ FromListener(r, iceChans'[r][j][i])
              /\ Precedes(iceChans'[r][j][i], answererIceRouter, iceToAnsCh)
  BY <1>7, <1>9
<1> QED
  BY <1>12, <1>13, <1>14, <1>15, <1>16, <1>17
     DEF ToAgentInv, LineInv, Precedes, Ordered, FromListener

LEMMA NextToAgentInv ==
  ASSUME IceInv, ExchangeInv, [Next]_vars
  PROVE  ToAgentInv'
<1>1. (UNCHANGED toAgentVars) => ToAgentInv'
  BY ToAgentQuiet DEF IceInv
<1>2. ASSUME NEW s \in Sessions, OffererStep(s), UNCHANGED answererVars PROVE ToAgentInv'
  <2>1. CASE RecvListenerIce(s) \/ PushListenerIce(s)
    BY <1>2, <2>1, RecvListenerIceInv, PushListenerIceInv
  <2>2. CASE ~(RecvListenerIce(s) \/ PushListenerIce(s))
    <3>1. UNCHANGED <<iceToAnsCh, listenerHeld, listenerSent>>
      BY <1>2, <2>2 DEF OffererStep, SendOffer, NotifyNewOffer, SendOfferTimeout, Cleanup,
         WaitForAnswer, WaitForAnswerTimeout, AnswerRouterPut, WaitForICECandidate,
         WaitForICECandidateTimeout, DeleteIceChan, OffererIceRouterPut, OpenListenerStream,
         EndListenerStream, channels, listenerStreamVars
    <3> QED
      BY <1>1, <1>2, <3>1 DEF toAgentVars, answererVars, agentVars, iceChanVars, agentIceVars
  <2> QED
    BY <2>1, <2>2
<1>3. ASSUME OffererRouting, UNCHANGED answererVars PROVE ToAgentInv'
  <2>1. UNCHANGED <<iceToAnsCh, listenerHeld, listenerSent>>
    BY <1>3 DEF OffererRouting, AnswerRouterRecv, AnswerRouterLookup, OffererIceRouterRecv,
       OffererIceRouterLookup, channels, listenerStreamVars
  <2> QED
    BY <1>1, <1>3, <2>1 DEF toAgentVars, answererVars, agentVars, iceChanVars, agentIceVars
<1>4. ASSUME NEW a \in Agents, AgentStep(a), UNCHANGED offererVars PROVE ToAgentInv'
  <2>1. CASE TakeOffer(a) \/ WaitForOfferReturn(a) \/ AgentWaitForICECandidate(a)
             \/ ForwardToAgent(a)
    BY <1>4, <2>1, TakeOfferToAgentInv, WaitForOfferReturnToAgentInv,
       AgentWaitForICECandidateInv, ForwardToAgentInv
  <2>2. CASE AgentWaitForICETimeout(a)
    <3>1. /\ agentIceWait[a] = "streaming"
          /\ agentIceWait' = [agentIceWait EXCEPT ![a] = "done"]
          /\ UNCHANGED <<iceToAnsCh, answererIceRouter, iceChans, agentIce, agentIceChan,
                         agentOffer, listenerHeld, listenerSent>>
      BY <1>4, <2>2 DEF AgentWaitForICETimeout, channels, offererVars, listenerStreamVars,
         agentVars
    <3> QED
      BY <3>1, AgentWaitForICETimeoutInv
  <2>3. CASE \/ WaitForOfferTimeout(a) \/ SendAnswer(a) \/ SendAnswerTimeout(a)
             \/ OpenAgentStream(a) \/ RecvAgentIce(a) \/ PushAgentIce(a) \/ EndAgentStream(a)
    <3>1. UNCHANGED toAgentVars
      BY <1>4, <2>3 DEF WaitForOfferTimeout, SendAnswer, SendAnswerTimeout, OpenAgentStream,
         RecvAgentIce, PushAgentIce, EndAgentStream, toAgentVars, channels, offererVars,
         listenerStreamVars, agentVars, iceChanVars, agentIceVars
    <3> QED
      BY <1>1, <3>1
  <2> QED
    BY <1>4, <2>1, <2>2, <2>3 DEF AgentStep
<1>5. ASSUME AnswererRouting, UNCHANGED offererVars PROVE ToAgentInv'
  <2>1. CASE AnswererIceRouterRecv \/ AnswererIceRouterLookup \/ AnswererIceRouterPut
    BY <1>5, <2>1, AnswererIceRouterRecvInv, AnswererIceRouterLookupInv, AnswererIceRouterPutInv
  <2>2. CASE \/ OfferRouterLookup \/ OfferRouterPut
             \/ \E s \in Sessions, h \in Hosts : WaitChanTimeout(s, h)
             \/ \E s \in Sessions : IceChanTimeout(s)
    <3>1. UNCHANGED toAgentVars
      BY <1>5, <2>2 DEF OfferRouterLookup, OfferRouterPut, WaitChanTimeout, IceChanTimeout,
         toAgentVars, channels, offererVars, listenerStreamVars, agentVars, iceChanVars,
         agentIceVars
    <3> QED
      BY <1>1, <3>1
  <2> QED
    BY <1>5, <2>1, <2>2 DEF AnswererRouting
<1>6. ASSUME \/ \E s \in Sessions : HandOverOffer(s) \/ HandOverClose(s)
             \/ \E a \in Agents, h \in Hosts : StartAgent(a, h)
             \/ UNCHANGED vars
      PROVE  ToAgentInv'
  <2>1. (\E s \in Sessions : HandOverOffer(s) \/ HandOverClose(s)) => UNCHANGED toAgentVars
    BY DEF HandOverOffer, PutOffer, GetOffer, HandOverClose, PutCloseIce, GetCloseIce,
       toAgentVars, channels, listenerStreamVars, answererVars, agentVars, iceChanVars,
       agentIceVars
  <2>2. (\E a \in Agents, h \in Hosts : StartAgent(a, h)) => UNCHANGED toAgentVars
    BY DEF StartAgent, WaitForOffer, toAgentVars, channels, offererVars, listenerStreamVars,
       iceChanVars, agentIceVars
  <2>3. (UNCHANGED vars) => UNCHANGED toAgentVars
    BY DEF vars, toAgentVars, channels, offererVars, answererVars, listenerStreamVars,
       agentVars, iceChanVars, agentIceVars
  <2> QED
    BY <1>1, <1>6, <2>1, <2>2, <2>3
<1> QED
  BY <1>2, <1>3, <1>4, <1>5, <1>6 DEF Next

-----------------------------------------------------------------------------
(* The invariant and what follows from it.                                 *)

LEMMA InitIceInv == Init => IceInv
<1> SUFFICES ASSUME Init PROVE IceInv
  OBVIOUS
<1> USE BoundsAssumption, NamesAssumption
<1>1. ExchangeTypeOK
  BY InitExchangeInv DEF ExchangeInv
<1>2. ChannelsTypeOK
  BY DEF Init, ChannelsInit, ChannelsTypeOK
<1>3. OffererTypeOK
  <2>1. /\ answerRouter \in [at : {"recv", "lookup", "put"}, pkt : AnsPacket \cup {None}]
        /\ offererIceRouter \in [at : {"recv", "lookup", "put"}, pkt : IcePacket \cup {None}]
    BY DEF Init, OffererInit
  <2> QED
    BY <2>1 DEF Init, OffererInit, OffererTypeOK
<1>4. AnswererTypeOK
  <2>1. answererIceRouter \in
          [at : {"recv", "lookup", "put"}, pkt : IcePacket \cup {None}, ch : Nat]
    BY DEF Init, AnswererInit, IdleIceRouter
  <2> QED
    BY <1>1, <2>1 DEF Init, AnswererInit, AnswererTypeOK, ExchangeTypeOK, IdleIceRouter
<1>5. ToListenerInv
  BY DEF Init, ChannelsInit, OffererInit, AnswererInit, ToListenerInv, LineInv, Ordered
<1>6. ToAgentInv
  BY DEF Init, ChannelsInit, OffererInit, AnswererInit, ToAgentInv, LineInv, Ordered,
     IdleIceRouter
<1> QED
  BY <1>2, <1>3, <1>4, <1>5, <1>6 DEF IceInv, TypeOK

\* Given who took which offer, the invariant of the candidates is inductive.
THEOREM IceInvariant == Spec => []IceInv
<1>1. IceInv /\ ExchangeInv /\ ExchangeInv' /\ [Next]_vars => IceInv'
  BY NextTypeOK, NextToListenerInv, NextToAgentInv DEF IceInv
<1> QED
  BY <1>1, InitIceInv, ExchangeInvariant, PTL DEF Spec

\* The state of the two servers (offerer.go:40, anserer.go:19) is well typed.
THEOREM SignalingTypeOK == Spec => []TypeOK
<1>1. IceInv => TypeOK
  BY DEF IceInv
<1> QED
  BY <1>1, IceInvariant, PTL

\* An agent's WaitForICECandidate (anserer.go:154) gives it the candidates of
\* the listener whose offer it took, and no others, in the order they were sent.
THEOREM SignalingAgentIceInOrder == Spec => []AgentIceInOrder
<1>1. ASSUME IceInv, NEW a \in Agents PROVE InOrderFrom(agentIce[a], agentOffer[a])
  <2>1. /\ \A i \in DOMAIN agentIce[a] : agentIce[a][i].from = agentOffer[a]
        /\ \A i, j \in DOMAIN agentIce[a] : i < j => Earlier(agentIce[a][i], agentIce[a][j])
    BY <1>1 DEF IceInv, ToAgentInv, FromListener, Ordered
  <2> QED
    BY <2>1 DEF InOrderFrom, Earlier
<1>2. IceInv => AgentIceInOrder
  BY <1>1 DEF AgentIceInOrder
<1> QED
  BY <1>2, IceInvariant, PTL

\* A listener's WaitForICECandidate (offerer.go:191) gives it candidates of one
\* agent, the one that took its offer, in the order they were sent.
THEOREM SignalingListenerIceInOrder == Spec => []ListenerIceInOrder
<1>1. ASSUME IceInv, ExchangeInv, NEW s \in Sessions, listenerIce[s] # <<>>
      PROVE  \E a \in Agents : agentOffer[a] = s /\ InOrderFrom(listenerIce[s], a)
  <2>1. listenerIce[s] \in Seq(Candidates)
    BY <1>1 DEF IceInv, TypeOK, OffererTypeOK
  <2>2. 1 \in DOMAIN listenerIce[s]
    BY <1>1, <2>1
  <2>3. /\ \A i \in DOMAIN listenerIce[s] : /\ listenerIce[s][i].from \in Agents
                                            /\ agentOffer[listenerIce[s][i].from] = s
        /\ \A i, j \in DOMAIN listenerIce[s] :
             i < j => Earlier(listenerIce[s][i], listenerIce[s][j])
    BY <1>1 DEF IceInv, ToListenerInv, FromAgent, Ordered
  <2>4. PICK a \in Agents : a = listenerIce[s][1].from /\ agentOffer[a] = s
    BY <2>2, <2>3
  <2>5. s # None
    BY NamesAssumption
  <2>6. \A b \in Agents : agentOffer[b] = s => b = a
    BY <1>1, <2>4, <2>5 DEF ExchangeInv, PlaceInv, OfferTakenOnce
  <2>7. \A i \in DOMAIN listenerIce[s] : listenerIce[s][i].from = a
    BY <2>3, <2>6
  <2>8. InOrderFrom(listenerIce[s], a)
    BY <2>3, <2>7 DEF InOrderFrom, Earlier
  <2> QED
    BY <2>4, <2>8
<1>2. IceInv /\ ExchangeInv => ListenerIceInOrder
  BY <1>1 DEF ListenerIceInOrder
<1> QED
  BY <1>2, IceInvariant, ExchangeInvariant, PTL
=============================================================================
