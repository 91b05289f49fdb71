------------------------------ MODULE Offerer ------------------------------
(***************************************************************************)
(* The offerer server, src/server/offerer.go: its handlers, which run for  *)
(* the listener of each session, its two routers and its cleanup timers.   *)
(* The maps are guarded by the server's mutex, so a locked section is one  *)
(* step; every channel operation is a step of its own.                     *)
(*                                                                         *)
(* AnsID2AnsChan and AnsID2iceToAnsChan get an unbuffered channel per      *)
(* session, made once: a map is the set of its keys, and a send on such a  *)
(* channel is one step with the receive of that session's handler.         *)
(***************************************************************************)
EXTENDS SignalingChannels

VARIABLES
  offerPhase,      \* program counter of each session's SendOffer
  offerHost,       \* the host it is addressed to
  notified,        \* offers announced on notifyNewOfferCh, per host
  AnsID2AnsChan,   \* sessions with an answer channel
  offererIceChan,  \* sessions in the offerer's AnsID2iceToAnsChan
  cleanupTimers,   \* sessions whose cleanup goroutine sleeps
  answerWait,      \* program counter of WaitForAnswer
  answer,          \* the answer it returned
  answerRouter,    \* program counter and packet of answerRouter
  listenerIceWait, \* program counter of WaitForICECandidate
  listenerIce,     \* history: candidates its stream delivered
  offererIceRouter, \* program counter and packet of iceCandidateRouter
  listenerStream,  \* state of the SendIceCandidate stream of the session
  listenerHeld,    \* candidate its goroutine received and has not pushed yet
  listenerSent     \* candidates received from that stream

offerVars == <<offerPhase, offerHost, notified>>
sessionMaps == <<AnsID2AnsChan, offererIceChan, cleanupTimers>>
answerVars == <<answerWait, answer, answerRouter>>
listenerIceVars == <<listenerIceWait, listenerIce, offererIceRouter>>
listenerStreamVars == <<listenerStream, listenerHeld, listenerSent>>
offererVars == <<offerVars, sessionMaps, answerVars, listenerIceVars, listenerStreamVars>>

OffererTypeOK ==
  /\ offerPhase \in [Sessions -> {"new", "notify", "offer", "ok", "timeout"}]
  /\ offerHost \in [Sessions -> Hosts \cup {None}]
  /\ notified \in [Hosts -> Nat]
  /\ AnsID2AnsChan \in SUBSET Sessions
  /\ offererIceChan \in SUBSET Sessions
  /\ cleanupTimers \in SUBSET Sessions
  /\ answerWait \in [Sessions -> {"idle", "waiting", "answered", "notFound", "timeout"}]
  /\ answer \in [Sessions -> Agents \cup {None}]
  /\ answerRouter \in [at : {"recv", "lookup", "put"}, pkt : AnsPacket \cup {None}]
  /\ answerRouter.at # "recv" => answerRouter.pkt \in AnsPacket
  /\ listenerIceWait \in
       [Sessions -> {"idle", "streaming", "closing", "deleting", "done", "notFound"}]
  /\ listenerIce \in [Sessions -> Seq(Candidates)]
  /\ offererIceRouter \in [at : {"recv", "lookup", "put"}, pkt : IcePacket \cup {None}]
  /\ offererIceRouter.at # "recv" => offererIceRouter.pkt \in IcePacket
  /\ listenerStream \in [Sessions -> {"idle", "open", "ended"}]
  /\ listenerHeld \in [Sessions -> 0 .. MaxIce]
  /\ listenerSent \in [Sessions -> 0 .. MaxIce]

OffererInit ==
  /\ offerPhase = [s \in Sessions |-> "new"]
  /\ offerHost = [s \in Sessions |-> None]
  /\ notified = [h \in Hosts |-> 0]
  /\ AnsID2AnsChan = {}
  /\ offererIceChan = {}
  /\ cleanupTimers = {}
  /\ answerWait = [s \in Sessions |-> "idle"]
  /\ answer = [s \in Sessions |-> None]
  /\ answerRouter = [at |-> "recv", pkt |-> None]
  /\ listenerIceWait = [s \in Sessions |-> "idle"]
  /\ listenerIce = [s \in Sessions |-> <<>>]
  /\ offererIceRouter = [at |-> "recv", pkt |-> None]
  /\ listenerStream = [s \in Sessions |-> "idle"]
  /\ listenerHeld = [s \in Sessions |-> 0]
  /\ listenerSent = [s \in Sessions |-> 0]

-----------------------------------------------------------------------------
(* SendOffer and the cleanup of what it created.                           *)

CleanupArmed_never(s) == {}

\* go func() { time.Sleep(...); delete ... }()
CleanupArmed(s) == {s}

\* Allocate the session, create its channels, start the cleanup goroutine.
SendOffer(s, h) ==
  /\ offerPhase[s] = "new"
  /\ offerPhase' = [offerPhase EXCEPT ![s] = "notify"]
  /\ offerHost' = [offerHost EXCEPT ![s] = h]
  /\ offererIceChan' = offererIceChan \cup {s}
  /\ AnsID2AnsChan' = AnsID2AnsChan \cup {s}
  /\ cleanupTimers' = cleanupTimers \cup CleanupArmed(s)
  /\ UNCHANGED <<channels, notified, answerVars, listenerIceVars, listenerStreamVars>>

\* case o.notifyNewOfferCh <- req.HostId: the registry's manager takes it.
NotifyNewOffer(s) ==
  /\ offerPhase[s] = "notify"
  /\ offerPhase' = [offerPhase EXCEPT ![s] = "offer"]
  /\ notified' = [notified EXCEPT ![offerHost[s]] = @ + 1]
  /\ UNCHANGED <<channels, offerHost, sessionMaps, answerVars, listenerIceVars,
                 listenerStreamVars>>

\* case o.offerCh <- offering{...}: the sender's half of the rendezvous with
\* the answerer's offerRouter; SendOffer returns the ids.
PutOffer(s) ==
  /\ offerPhase[s] = "offer"
  /\ offerPhase' = [offerPhase EXCEPT ![s] = "ok"]
  /\ UNCHANGED <<channels, offerHost, notified, sessionMaps, answerVars,
                 listenerIceVars, listenerStreamVars>>

SendOfferTimesOutIn_firstSelect == {"notify"}

SendOfferTimesOutIn_late == {"notify", "offer", "ok"}

\* Both selects of SendOffer have a ctx.Done() case.
SendOfferTimesOutIn == {"notify", "offer"}

SendOfferTimeout(s) ==
  /\ offerPhase[s] \in SendOfferTimesOutIn
  /\ offerPhase' = [offerPhase EXCEPT ![s] = "timeout"]
  /\ UNCHANGED <<channels, offerHost, notified, sessionMaps, answerVars,
                 listenerIceVars, listenerStreamVars>>

\* The cleanup goroutine wakes up and deletes both keys.
Cleanup(s) ==
  /\ s \in cleanupTimers
  /\ cleanupTimers' = cleanupTimers \ {s}
  /\ offererIceChan' = offererIceChan \ {s}
  /\ AnsID2AnsChan' = AnsID2AnsChan \ {s}
  /\ UNCHANGED <<channels, offerVars, answerVars, listenerIceVars, listenerStreamVars>>

-----------------------------------------------------------------------------
(* Answers.                                                                *)

WaitForAnswer(s) ==
  /\ s \in Answering
  /\ offerPhase[s] = "ok"
  /\ answerWait[s] = "idle"
  /\ answerWait' = [answerWait EXCEPT ![s] =
                      IF s \in AnsID2AnsChan THEN "waiting" ELSE "notFound"]
  /\ UNCHANGED <<channels, offerVars, sessionMaps, answer, answerRouter,
                 listenerIceVars, listenerStreamVars>>

\* case <-ctx.Done(): the caller's context, the server sets no deadline.
WaitForAnswerTimeout(s) ==
  /\ answerWait[s] = "waiting"
  /\ answerWait' = [answerWait EXCEPT ![s] = "timeout"]
  /\ UNCHANGED <<channels, offerVars, sessionMaps, answer, answerRouter,
                 listenerIceVars, listenerStreamVars>>

AnswerRouterRecv ==
  /\ answerRouter.at = "recv"
  /\ answerCh # <<>>
  /\ answerRouter' = [at |-> "lookup", pkt |-> Head(answerCh)]
  /\ answerCh' = Tail(answerCh)
  /\ UNCHANGED <<iceToAnsCh, iceToOfferCh, offerVars, sessionMaps, answerWait,
                 answer, listenerIceVars, listenerStreamVars>>

\* A session that is gone loses its answer here.
AnswerRouterLookup ==
  /\ answerRouter.at = "lookup"
  /\ answerRouter' =
       IF answerRouter.pkt.answererID \in AnsID2AnsChan
         THEN [answerRouter EXCEPT !.at = "put"]
         ELSE [at |-> "recv", pkt |-> None]
  /\ UNCHANGED <<channels, offerVars, sessionMaps, answerWait, answer,
                 listenerIceVars, listenerStreamVars>>

AnswerFor_anyWaiter(s) == TRUE

\* The channel the router sends on is the one this session's handler reads.
AnswerFor(s) == answerRouter.pkt.answererID = s

\* ch <- ansPacket.answer, received by WaitForAnswer: without a waiter the
\* router stays here, whatever happens to the map.
AnswerRouterPut(s) ==
  /\ answerRouter.at = "put"
  /\ AnswerFor(s)
  /\ answerWait[s] = "waiting"
  /\ answerWait' = [answerWait EXCEPT ![s] = "answered"]
  /\ answer' = [answer EXCEPT ![s] = answerRouter.pkt.answer]
  /\ answerRouter' = [at |-> "recv", pkt |-> None]
  /\ UNCHANGED <<channels, offerVars, sessionMaps, listenerIceVars, listenerStreamVars>>

-----------------------------------------------------------------------------
(* Candidates for the listener: WaitForICECandidate and its router.        *)

WaitForICECandidate(s) ==
  /\ s \in IceReceivers
  /\ offerPhase[s] = "ok"
  /\ listenerIceWait[s] = "idle"
  /\ listenerIceWait' = [listenerIceWait EXCEPT ![s] =
                           IF s \in offererIceChan THEN "streaming" ELSE "notFound"]
  /\ UNCHANGED <<channels, offerVars, sessionMaps, answerVars, listenerIce,
                 offererIceRouter, listenerStreamVars>>

\* The handler's own ten seconds are over: run the deferred functions.
WaitForICECandidateTimeout(s) ==
  /\ listenerIceWait[s] = "streaming"
  /\ listenerIceWait' = [listenerIceWait EXCEPT ![s] = "closing"]
  /\ UNCHANGED <<channels, offerVars, sessionMaps, answerVars, listenerIce,
                 offererIceRouter, listenerStreamVars>>

\* o.closeIceToAnsCh <- req.AnswererId: the sender's half of the rendezvous
\* with the answerer's iceCandidateRouter, which comes before the delete.
PutCloseIce(s) ==
  /\ listenerIceWait[s] = "closing"
  /\ listenerIceWait' = [listenerIceWait EXCEPT ![s] = "deleting"]
  /\ UNCHANGED <<channels, offerVars, sessionMaps, answerVars, listenerIce,
                 offererIceRouter, listenerStreamVars>>

DeleteIceChan(s) ==
  /\ listenerIceWait[s] = "deleting"
  /\ listenerIceWait' = [listenerIceWait EXCEPT ![s] = "done"]
  /\ offererIceChan' = offererIceChan \ {s}
  /\ UNCHANGED <<channels, offerVars, AnsID2AnsChan, cleanupTimers, answerVars,
                 listenerIce, offererIceRouter, listenerStreamVars>>

OffererIceRouterRecv ==
  /\ offererIceRouter.at = "recv"
  /\ iceToOfferCh # <<>>
  /\ offererIceRouter' = [at |-> "lookup", pkt |-> Head(iceToOfferCh)]
  /\ iceToOfferCh' = Tail(iceToOfferCh)
  /\ UNCHANGED <<answerCh, iceToAnsCh, offerVars, sessionMaps, answerVars,
                 listenerIceWait, listenerIce, listenerStreamVars>>

OffererIceRouterLookup ==
  /\ offererIceRouter.at = "lookup"
  /\ offererIceRouter' =
       IF offererIceRouter.pkt.answererID \in offererIceChan
         THEN [offererIceRouter EXCEPT !.at = "put"]
         ELSE [at |-> "recv", pkt |-> None]
  /\ UNCHANGED <<channels, offerVars, sessionMaps, answerVars, listenerIceWait,
                 listenerIce, listenerStreamVars>>

\* ch <- icePacket.iceCandidate, received by the handler, whose srv.Send
\* passes it on, or fails and ends the stream with the candidate lost.
OffererIceRouterPut(s) ==
  /\ offererIceRouter.at = "put"
  /\ offererIceRouter.pkt.answererID = s
  /\ listenerIceWait[s] = "streaming"
  /\ \/ /\ listenerIce' = [listenerIce EXCEPT ![s] =
                             Append(@, offererIceRouter.pkt.iceCandidate)]
        /\ UNCHANGED listenerIceWait
     \/ /\ listenerIceWait' = [listenerIceWait EXCEPT ![s] = "closing"]
        /\ UNCHANGED listenerIce
  /\ offererIceRouter' = [at |-> "recv", pkt |-> None]
  /\ UNCHANGED <<channels, offerVars, sessionMaps, answerVars, listenerStreamVars>>

-----------------------------------------------------------------------------
(* Candidates from the listener: SendIceCandidate.                         *)

OpenListenerStream(s) ==
  /\ s \in IceSenders
  /\ offerPhase[s] = "ok"
  /\ listenerStream[s] = "idle"
  /\ listenerStream' = [listenerStream EXCEPT ![s] = "open"]
  /\ UNCHANGED <<channels, offerVars, sessionMaps, answerVars, listenerIceVars,
                 listenerHeld, listenerSent>>

\* req.Recv() in the goroutine of the current round.
RecvListenerIce(s) ==
  /\ listenerStream[s] = "open"
  /\ listenerHeld[s] = 0
  /\ listenerSent[s] < MaxIce
  /\ listenerSent' = [listenerSent EXCEPT ![s] = @ + 1]
  /\ listenerHeld' = [listenerHeld EXCEPT ![s] = listenerSent[s] + 1]
  /\ UNCHANGED <<channels, offerVars, sessionMaps, answerVars, listenerIceVars,
                 listenerStream>>

PushIce_atFront(s) ==
  <<[answererID |-> s, iceCandidate |-> [from |-> s, n |-> listenerHeld[s]]]>> \o iceToAnsCh

PushIce(s) ==
  Append(iceToAnsCh,
         [answererID |-> s, iceCandidate |-> [from |-> s, n |-> listenerHeld[s]]])

\* o.iceToAnswerCh <- IcePacket{...}: also after the handler has returned.
PushListenerIce(s) ==
  /\ listenerHeld[s] > 0
  /\ HasRoom(iceToAnsCh)
  /\ iceToAnsCh' = PushIce(s)
  /\ listenerHeld' = [listenerHeld EXCEPT ![s] = 0]
  /\ UNCHANGED <<answerCh, iceToOfferCh, offerVars, sessionMaps, answerVars,
                 listenerIceVars, listenerStream, listenerSent>>

\* case <-req.Context().Done()
EndListenerStream(s) ==
  /\ listenerStream[s] = "open"
  /\ listenerStream' = [listenerStream EXCEPT ![s] = "ended"]
  /\ UNCHANGED <<channels, offerVars, sessionMaps, answerVars, listenerIceVars,
                 listenerHeld, listenerSent>>

-----------------------------------------------------------------------------
\* The steps of the offerer server that involve no step of the answerer.
OffererStep(s) ==
  \/ \E h \in Hosts : SendOffer(s, h)
  \/ NotifyNewOffer(s) \/ SendOfferTimeout(s) \/ Cleanup(s)
  \/ WaitForAnswer(s) \/ WaitForAnswerTimeout(s) \/ AnswerRouterPut(s)
  \/ WaitForICECandidate(s) \/ WaitForICECandidateTimeout(s) \/ DeleteIceChan(s)
  \/ OffererIceRouterPut(s)
  \/ OpenListenerStream(s) \/ RecvListenerIce(s) \/ PushListenerIce(s)
  \/ EndListenerStream(s)

OffererRouting ==
  \/ AnswerRouterRecv \/ AnswerRouterLookup
  \/ OffererIceRouterRecv \/ OffererIceRouterLookup
=============================================================================
