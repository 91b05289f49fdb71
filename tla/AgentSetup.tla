----------------------------- MODULE AgentSetup -----------------------------
(***************************************************************************)
(* A host and the agent it starts: HostLogin and NewOfferListener of       *)
(* src/client/host.go, initWebRTCAsAnswerer and setupWebRTC of             *)
(* src/client/agent.go.                                                    *)
(*                                                                         *)
(* The variable err of initWebRTCAsAnswerer is captured by the             *)
(* OnICECandidate callback, which assigns it in a goroutine of the library *)
(* while the function goes on: a data race, modelled as assignments in any *)
(* order.  Only whether err stops the function matters; io.EOF does not.   *)
(***************************************************************************)
EXTENDS SignalingLink, Futures

VARIABLES
  host,     \* the host: "deaf" once NewOfferListener's loop has ended
  aMain,    \* initWebRTCAsAnswerer, and what setupWebRTC returned
  aErr,     \* err, while it is yet to be read, is an error other than io.EOF
  aResult,  \* the channel of capacity one that initWebRTCAsAnswerer returns
  reporter, \* the goroutine that sends the error of SendAnswer on it
  aReceiver \* the goroutine that receives the listener's candidates

agentVars == <<host, aMain, aErr, aResult, reporter, aReceiver>>

AgentTypeOK ==
  /\ host \in {"out", "opening", "listening", "deaf", "failed", "exited"}
  /\ aMain \in {"off", "waiting", "preparing", "described", "localSet", "answering",
                "answered", "reporting", "ok", "err", "exited"}
  /\ aErr \in BOOLEAN
  /\ aResult \in {Unresolved, "ok", "err"}
  /\ reporter \in {"off", "pending", "done"}
  /\ aReceiver \in {"off", "receiving", "done"}

AgentInit ==
  /\ host = "out"
  /\ aMain = "off"
  /\ aErr = FALSE
  /\ aResult = NewFuture
  /\ reporter = "off"
  /\ aReceiver = "off"

-----------------------------------------------------------------------------
(* The host.                                                               *)

\* LoginHost accepts the user, or startHost panics.
HostLogin ==
  /\ host = "out"
  /\ \/ \E u \in Users :
          LET Req == [user_login |-> [username |-> u]]
          IN  /\ Ask("LoginHost", Req)
              /\ AcceptLogin(Req)
              /\ host' = "opening"
     \/ host' = "failed" /\ UNCHANGED <<requests, replies>>
  /\ UNCHANGED <<pcVars, announced, underway, aMain, aErr, aResult, reporter, aReceiver>>

\* h.hostID and a.user.Token().
HostId == (CHOOSE login \in replies.LoginHost : TRUE).host_id
UserToken == (CHOOSE login \in replies.LoginHost : TRUE).token

\* ListenNewOffer opens the stream and newHost returns, or startHost panics.
NewOfferListener ==
  /\ host = "opening"
  /\ \/ /\ Subscribe("ListenNewOffer", [token |-> [token |-> Unset], host_id |-> HostId])
        /\ host' = "listening"
     \/ host' = "failed" /\ UNCHANGED requests
  /\ UNCHANGED <<pcVars, replies, announced, underway, aMain, aErr, aResult, reporter,
                 aReceiver>>

\* NewPeerConnection, then the agent calls WaitForOffer.
BeginSetup ==
  \/ /\ aMain' = "waiting"
     /\ Ask("WaitForOffer", [token |-> UserToken, host_id |-> HostId])
  \/ aMain' = "err" /\ UNCHANGED requests

\* res.Recv() and go h.StartAgent(), whose Connect begins the set-up.
StartAgent ==
  /\ host = "listening"
  /\ GiveNotice
  /\ BeginSetup
  /\ UNCHANGED <<pcVars, announced, underway, host, aErr, aResult, reporter, aReceiver>>

\* The stream ends or fails: the loop returns, the process stays.  With one
\* offer the end plays no part after its notice.
NoticesEnd ==
  /\ host = "listening"
  /\ replies.ListenNewOffer = {}
  /\ host' = "deaf"
  /\ UNCHANGED <<pcVars, sigVars, aMain, aErr, aResult, reporter, aReceiver>>

-----------------------------------------------------------------------------
(* initWebRTCAsAnswerer.                                                   *)

MoveAgent(from, to) ==
  /\ aMain = from
  /\ aMain' = to

\* Every error up to the answer is returned by a goroutine of its own.
AgentFails(from) == MoveAgent(from, "err")

\* WaitForOffer returned, without an error only with an offer; the receiver of
\* candidates is started.
WaitForOfferReturns ==
  /\ \/ /\ MoveAgent("waiting", "preparing")
        /\ GiveOffer
        /\ \E res \in replies'.WaitForOffer :
             Subscribe("WaitForICECandidate",
                       [token |-> UserToken, answerer_id |-> res.answerer_id])
        /\ aReceiver' = "receiving"
     \/ AgentFails("waiting") /\ UNCHANGED <<requests, replies, aReceiver>>
  /\ UNCHANGED <<pcVars, announced, underway, host, aErr, aResult, reporter>>

\* What the agent sends for the session of its offer.
AgentReply(text) ==
  [token |-> UserToken, body |-> text,
   answerer_id |-> (CHOOSE res \in replies.WaitForOffer : TRUE).answerer_id]

\* SendIceCandidate opens the stream, the offer is decoded, and
\* err = peerConn.SetRemoteDescription(sdp).
SetOffer ==
  /\ \/ /\ MoveAgent("preparing", "described")
        /\ \E res \in replies.WaitForOffer : SetRemoteDescription("agent", res.body)
     \/ AgentFails("preparing") /\ UNCHANGED pcVars
  /\ UNCHANGED <<sigVars, host, aErr, aResult, reporter, aReceiver>>

\* CreateAnswer, and err = peerConn.SetLocalDescription(answer): candidates
\* are gathered from here on, and err is shared with the callback.
SetAnswer ==
  /\ \/ /\ MoveAgent("described", "localSet")
        /\ SetLocalDescription("agent")
        /\ aErr' = FALSE
     \/ /\ MoveAgent("described", "localSet")
        /\ aErr' = TRUE
        /\ UNCHANGED pcVars
     \/ /\ AgentFails("described")
        /\ UNCHANGED <<aErr, pcVars>>
  /\ UNCHANGED <<sigVars, host, aResult, reporter, aReceiver>>

\* if err != nil && err != io.EOF after SetLocalDescription; else the agent
\* calls SendAnswer.
CheckLocal ==
  /\ IF aErr
       THEN AgentFails("localSet") /\ UNCHANGED requests
       ELSE /\ MoveAgent("localSet", "answering")
            /\ Ask("SendAnswer", AgentReply("answer"))
  /\ aErr' = FALSE
  /\ UNCHANGED <<pcVars, replies, announced, underway, host, aResult, reporter, aReceiver>>

\* _, err = a.ansAPI.SendAnswer(context.TODO(), ...): the server waits for room in
\* answerCh or for the caller's context, so the call may never return.
SendAnswerReturns ==
  /\ MoveAgent("answering", "answered")
  /\ \/ replies.SendAnswer # {} /\ aErr' = FALSE
     \/ aErr' = TRUE
  /\ UNCHANGED <<pcVars, sigVars, host, aResult, reporter, aReceiver>>

\* if err != nil && err != io.EOF { go func() { ch <- ... }() }, without a return.
CheckAnswer ==
  /\ MoveAgent("answered", "reporting")
  /\ reporter' = IF aErr THEN "pending" ELSE reporter
  /\ aErr' = FALSE
  /\ UNCHANGED <<pcVars, sigVars, host, aResult, aReceiver>>

HasRoomForResult_unbuffered == FALSE

\* The channel holds one result; nobody receives before the function returns.
HasRoomForResult == CanResolve(aResult)

\* That goroutine: when it is first, the function never returns.
ReportError ==
  /\ reporter = "pending"
  /\ HasRoomForResult
  /\ reporter' = "done"
  /\ aResult' = "err"
  /\ UNCHANGED <<pcVars, sigVars, host, aMain, aErr, aReceiver>>

\* ch <- utils.Result[peerConnAbstract]{Err: nil, Val: peerConn}; return ch:
\* setupWebRTC receives it and registers onDataChannelHandler.
ReportSuccess ==
  /\ HasRoomForResult
  /\ MoveAgent("reporting", "ok")
  /\ aResult' = "ok"
  /\ UNCHANGED <<pcVars, sigVars, host, aErr, reporter, aReceiver>>

-----------------------------------------------------------------------------
(* Candidates.                                                             *)

\* The OnICECandidate callback: the remote description is set by then, so it
\* sends at once, and assigns err, which counts while it is yet to be read.
SendAgentCandidate ==
  /\ OnICECandidate("agent")
  /\ SendCandidateTo("listener", AgentReply("candidate"))
  /\ aErr' \in IF aMain \in {"localSet", "answered"} THEN BOOLEAN ELSE {aErr}
  /\ UNCHANGED <<host, aMain, aResult, reporter, aReceiver>>

MoveAgentReceiver(from, to) ==
  /\ aReceiver = from
  /\ aReceiver' = to
  /\ UNCHANGED <<host, aMain, aErr, aResult, reporter>>

\* A candidate that is refused, because the offer is not set or it is malformed,
\* ends the receiver.
AddListenerCandidate ==
  /\ RecvCandidateFor("agent")
  /\ \/ AddCandidate("agent") /\ MoveAgentReceiver("receiving", "receiving")
     \/ MoveAgentReceiver("receiving", "done") /\ UNCHANGED pcVars

\* The stream fails to open or ends, or a thousand seconds have passed.
AgentReceiverEnds ==
  /\ MoveAgentReceiver("receiving", "done")
  /\ UNCHANGED <<pcVars, sigVars>>

-----------------------------------------------------------------------------
\* The function and its reporting goroutine, without the calls that may wait
\* for ever.
AgentMainStep ==
  \/ SetOffer \/ SetAnswer \/ CheckLocal
  \/ CheckAnswer \/ ReportError \/ ReportSuccess

AgentStep ==
  \/ HostLogin \/ NewOfferListener \/ StartAgent \/ NoticesEnd
  \/ AgentMainStep \/ WaitForOfferReturns \/ SendAnswerReturns
  \/ SendAgentCandidate \/ AddListenerCandidate \/ AgentReceiverEnds
=============================================================================
