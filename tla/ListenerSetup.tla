--------------------------- MODULE ListenerSetup ----------------------------
(***************************************************************************)
(* How a listener connects to an agent: Connect, initWebRTCAsOfferer and   *)
(* the three goroutines it starts, src/client/listener.go.  ctxSetup is    *)
(* done when initWebRTCAsOfferer calls cancelSetup, itself or by its       *)
(* defer, which is before its result is known to its caller.  lCtx, the    *)
(* context of the listener, never is: nothing calls its ctxCancel.         *)
(***************************************************************************)
EXTENDS SignalingLink, Futures

CONSTANTS IceChCap  \* capacity of remoteIceCh, 1024 in the code

ASSUME IceChCapAssumption == IceChCap \in Nat

VARIABLES
  lMain,       \* initWebRTCAsOfferer: "succeeding" and "failing" once cancelSetup was
               \* called, what it returned, the end of its process
  lAnswer,     \* the future of waitForAnswer, or "off" before
  pendingIceCandidates, \* number of own candidates to send
  exchange,    \* exchangeICE: "failed" and "canceled" are its ends
  receiver,    \* the goroutine that receives the agent's candidates
  remoteIceCh  \* number of candidates it passed to exchangeICE

listenerVars ==
  <<lMain, lAnswer, pendingIceCandidates, exchange, receiver, remoteIceCh>>

ListenerTypeOK ==
  /\ lMain \in {"idle", "offering", "awaiting", "selecting", "succeeding",
                "failing", "ok", "err", "exited"}
  /\ lAnswer \in {"off", Unresolved, "ok", "err"}
  /\ pendingIceCandidates \in 0 .. MaxIce["listener"]
  /\ exchange \in {"off", "running", "failed", "canceled"}
  /\ receiver \in {"off", "receiving", "holding", "pushing", "done", "panicked"}
  /\ remoteIceCh \in 0 .. IceChCap

ListenerInit ==
  /\ lMain = "idle"
  /\ lAnswer = "off"
  /\ pendingIceCandidates = 0
  /\ exchange = "off"
  /\ receiver = "off"
  /\ remoteIceCh = 0

\* <-ctxSetup.Done()
CtxDone == lMain \in {"succeeding", "failing", "ok", "err"}

\* A panic in any goroutine ends the process.
Panicked == receiver = "panicked"

-----------------------------------------------------------------------------
(* initWebRTCAsOfferer.                                                    *)

MoveMain(from, to) ==
  /\ lMain = from
  /\ lMain' = to

\* l.authToken is never set.
ListenerToken == [token |-> Unset]

\* NewPeerConnection, and initAndSendOffer up to its call of SendOffer.
CreateOffer ==
  /\ \/ /\ MoveMain("idle", "offering")
        /\ SetLocalDescription("listener")
        /\ \E h \in HostIds :
             Ask("SendOffer",
                       [token |-> ListenerToken, host_id |-> h, offer |-> "offer"])
     \/ MoveMain("idle", "failing") /\ UNCHANGED <<pcVars, requests>>
  /\ UNCHANGED <<replies, announced, underway, lAnswer, pendingIceCandidates, exchange,
                 receiver, remoteIceCh>>

\* SendOffer returned the session, or an error, whatever the server did.
\* waitForAnswer and exchangeICE are started, and with it the receiver; the
\* stream for own candidates may fail to open.
SendOfferReturns ==
  /\ \/ /\ MoveMain("offering", "awaiting")
        /\ \E res \in replies.SendOffer :
             LET Waiting == [token |-> ListenerToken, answerer_id |-> res.answerer_id]
             IN  requests' = [requests EXCEPT !.WaitForAnswer = {Waiting},
                                              !.WaitForICECandidate = @ \cup {Waiting}]
        /\ lAnswer' = NewFuture
        /\ exchange' \in {"running", "failed"}
        /\ receiver' = "receiving"
     \/ /\ MoveMain("offering", "failing")
        /\ UNCHANGED <<requests, lAnswer, exchange, receiver>>
  /\ UNCHANGED <<pcVars, replies, announced, underway, pendingIceCandidates, remoteIceCh>>

\* errAns := answerErrFut.Await()
AwaitAnswer ==
  /\ Ready(lAnswer)
  /\ MoveMain("awaiting", IF lAnswer = "ok" THEN "selecting" ELSE "failing")
  /\ UNCHANGED <<pcVars, sigVars, lAnswer, pendingIceCandidates, exchange, receiver,
                 remoteIceCh>>

FailureSignalled_never == FALSE

\* <-connectedSig, and <-connectionFailedSig: OnConnectionStateChange signals the
\* states Connected and Failed, once each, to a set-up that may not wait yet.
ConnectedSignalled == link \in {"connected", "lost"}

FailureSignalled == link \in {"failed", "lost"}

\* The select at the end: of the cases that are ready any may be chosen.
SelectOutcome ==
  /\ \/ ConnectedSignalled /\ MoveMain("selecting", "succeeding")
     \/ FailureSignalled /\ MoveMain("selecting", "failing")
     \/ exchange = "failed" /\ MoveMain("selecting", "failing")
  /\ UNCHANGED <<pcVars, sigVars, lAnswer, pendingIceCandidates, exchange, receiver,
                 remoteIceCh>>

\* The function returns, after cancelSetup and after whatever the goroutines that
\* wait for its context do first.
ReturnResult ==
  /\ MoveMain("succeeding", "ok") \/ MoveMain("failing", "err")
  /\ UNCHANGED <<pcVars, sigVars, lAnswer, pendingIceCandidates, exchange, receiver,
                 remoteIceCh>>

Returned == lMain \in {"ok", "err"}

\* The future of initWebRTCAsOfferer as setupWebRTC sees it.
InitResult == Async(Returned, lMain)

\* setupWebRTC succeeds with the first of its candidates that does.
SetupResult ==
  LET Results == AwaitUnordered(<<InitResult>>)
  IN  IF Results = <<>> THEN Unresolved
      ELSE Ret(IF \E i \in DOMAIN Results : Results[i] = "ok" THEN "ok" ELSE "err")

\* What the channel of Connect delivers: the context of the listener is not
\* done, so its select waits for setupWebRTC.
ConnectResult == SetupResult

-----------------------------------------------------------------------------
(* waitForAnswer.                                                          *)

WaitForAnswerReturns ==
  /\ CanResolve(lAnswer)
  /\ \/ /\ GiveAnswer
        /\ \/ /\ \E res \in replies'.WaitForAnswer :
                  SetRemoteDescription("listener", res.answer)
              /\ lAnswer' = "ok"
           \/ UNCHANGED pcVars /\ lAnswer' = "err"
     \/ UNCHANGED <<replies, pcVars>> /\ lAnswer' = "err"
  /\ UNCHANGED <<requests, announced, underway, lMain, pendingIceCandidates, exchange, receiver, remoteIceCh>>

-----------------------------------------------------------------------------
(* exchangeICE.                                                            *)

\* The OnICECandidate callback queues what it is given.
QueueCandidate ==
  /\ OnICECandidate("listener")
  /\ pendingIceCandidates' = pendingIceCandidates + 1
  /\ UNCHANGED <<sigVars, lMain, lAnswer, exchange, receiver, remoteIceCh>>

ExchangeCtxDone_listeners == FALSE

\* The context exchangeICE is called with is ctxSetup.
ExchangeCtxDone == CtxDone

\* case <-ctx.Done(): close(remoteIceCh)
ExchangeCanceled ==
  /\ exchange = "running"
  /\ ExchangeCtxDone
  /\ exchange' = "canceled"
  /\ UNCHANGED <<pcVars, sigVars, lMain, lAnswer, pendingIceCandidates, receiver,
                 remoteIceCh>>

HasPending_closed == TRUE

HasPending == pendingIceCandidates > 0

\* case ice := <-pendingIceCandidates: an error of Send is logged, and the loop
\* continues.
SendListenerCandidate ==
  /\ exchange = "running"
  /\ HasPending
  /\ pendingIceCandidates' = pendingIceCandidates - 1
  /\ \E res \in replies.SendOffer :
       SendCandidateTo("agent", [token |-> ListenerToken, body |-> "candidate",
                                 answerer_id |-> res.answerer_id])
  /\ UNCHANGED <<pcVars, lMain, lAnswer, exchange, receiver, remoteIceCh>>

\* case ice := <-remoteIceCh: a candidate is refused while there is no answer, or
\* because it is malformed, and exchangeICE returns with remoteIceCh open.
AddAgentCandidate ==
  /\ exchange = "running"
  /\ remoteIceCh > 0
  /\ remoteIceCh' = remoteIceCh - 1
  /\ \/ AddCandidate("listener") /\ UNCHANGED exchange
     \/ exchange' = "failed" /\ UNCHANGED pcVars
  /\ UNCHANGED <<sigVars, lMain, lAnswer, pendingIceCandidates, receiver>>

-----------------------------------------------------------------------------
(* The goroutine that receives the agent's candidates.                     *)

MoveReceiver(from, to) ==
  /\ receiver = from
  /\ receiver' = to
  /\ UNCHANGED <<pcVars, lMain, lAnswer, pendingIceCandidates, exchange>>

ReceiveCandidate ==
  /\ MoveReceiver("receiving", "holding")
  /\ RecvCandidateFor("listener")
  /\ UNCHANGED remoteIceCh

\* ctx is done, or the stream fails to open, or ends, with an error or io.EOF.
ReceiverEnds ==
  /\ MoveReceiver("receiving", "done")
  /\ UNCHANGED <<sigVars, remoteIceCh>>

\* The second look at ctx, just before the send.
AfterCheck == IF CtxDone THEN "done" ELSE "pushing"

CheckContext ==
  /\ MoveReceiver("holding", AfterCheck)
  /\ UNCHANGED <<sigVars, remoteIceCh>>

IceChClosed_onFailure == exchange \in {"canceled", "failed"}

\* exchangeICE has closed the channel the receiver sends on.
IceChClosed == exchange = "canceled"

\* remoteIceCh <- &iceInit, with no other case: it waits for room whatever
\* becomes of ctx.
PushCandidate ==
  /\ \/ /\ ~IceChClosed
        /\ remoteIceCh < IceChCap
        /\ MoveReceiver("pushing", "receiving")
        /\ remoteIceCh' = remoteIceCh + 1
     \/ /\ IceChClosed
        /\ MoveReceiver("pushing", "panicked")
        /\ UNCHANGED remoteIceCh
  /\ UNCHANGED sigVars

-----------------------------------------------------------------------------
MainStep ==
  CreateOffer \/ SendOfferReturns \/ AwaitAnswer \/ SelectOutcome \/ ReturnResult
ExchangeStep ==
  ExchangeCanceled \/ SendListenerCandidate \/ AddAgentCandidate
ReceiverStep ==
  ReceiveCandidate \/ ReceiverEnds \/ CheckContext \/ PushCandidate

ListenerStep ==
  /\ ~Panicked
  /\ MainStep \/ WaitForAnswerReturns \/ QueueCandidate
       \/ ExchangeStep \/ ReceiverStep
=============================================================================
