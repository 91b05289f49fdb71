--------------------------- MODULE SignalingLink ----------------------------
(***************************************************************************)
(* What one listener and one host with its agent see of the servers: the   *)
(* requests they make, the replies that come, and a stream of candidates   *)
(* each way.  The handlers are those of Signaling and HostService, without *)
(* the queues between them.  A message that is lost is one that is never   *)
(* received: nothing makes the servers reply.  Connection shows that the   *)
(* link keeps the promises of OfferExchange.                               *)
(***************************************************************************)
EXTENDS PeerConnections, Sequences

VARIABLES
  requests,  \* the requests that reached the servers
  replies,   \* the replies that reached the callers
  announced, \* hosts the registry was told to notify
  underway   \* candidates on their way to each peer

sigVars == <<requests, replies, announced, underway>>

RequestTypes ==
  [LoginHost |-> InitHostRequest,
   ListenNewOffer |-> WaitForOfferRequest, WaitForOffer |-> WaitForOfferRequest,
   SendOffer |-> SendOfferRequest, SendAnswer |-> ReplyToRequest,
   WaitForAnswer |-> WaitForAnswerRequest,
   WaitForICECandidate |-> WaitForICECandidateRequest]

ReplyTypes ==
  [LoginHost |-> InitHostResponse, ListenNewOffer |-> Empty,
   SendOffer |-> OfferResponse, WaitForOffer |-> OfferResponse,
   SendAnswer |-> AnswerResponse, WaitForAnswer |-> AnswerResponse]

LinkTypeOK ==
  /\ DOMAIN requests = DOMAIN RequestTypes
  /\ \A rpc \in DOMAIN RequestTypes : requests[rpc] \subseteq RequestTypes[rpc]
  /\ DOMAIN replies = DOMAIN ReplyTypes
  /\ \A rpc \in DOMAIN ReplyTypes : replies[rpc] \subseteq ReplyTypes[rpc]
  /\ announced \in SUBSET HostIds
  /\ underway \in [Peers -> Seq(IceCandidate)]

LinkInit ==
  /\ requests = [rpc \in DOMAIN RequestTypes |-> {}]
  /\ replies = [rpc \in DOMAIN ReplyTypes |-> {}]
  /\ announced = {}
  /\ underway = [p \in Peers |-> <<>>]

Ask(rpc, m) == requests' = [requests EXCEPT ![rpc] = @ \cup {m}]

\* An rpc whose replies are a stream: the request is sent and the sending side
\* closed, then the caller receives.
Subscribe(rpc, m) == Ask(rpc, m)

\* Each rpc of this exchange is replied to once.
Reply(rpc, m) ==
  /\ replies[rpc] = {}
  /\ replies' = [replies EXCEPT ![rpc] = {m}]

\* LoginHost accepts the user and allocates the host.
AcceptLogin(req) ==
  \E h \in HostIds, t \in Tokens :
    Reply("LoginHost", [host_id |-> h, token |-> [token |-> t]])

\* The two selects of SendOffer: the host is told, then the offer handed over.
AnnounceOffer ==
  /\ \E req \in requests.SendOffer :
       /\ req.host_id \notin announced
       /\ announced' = announced \cup {req.host_id}
  /\ UNCHANGED <<requests, replies, underway>>

HostTold_after(req) == TRUE

\* The second select comes after the first.
HostTold(req) == req.host_id \in announced

AcceptOffer ==
  /\ \E req \in requests.SendOffer, id \in AnswererIds :
       /\ HostTold(req)
       /\ Reply("SendOffer", [answerer_id |-> id, body |-> Unset])
  /\ UNCHANGED <<requests, announced, underway>>

\* ListenNewOffer sends the host a notice.
GiveNotice ==
  \E req \in requests.ListenNewOffer :
    /\ req.host_id \in announced
    /\ Reply("ListenNewOffer", <<>>)

\* WaitForOffer returns an offer for its host.
GiveOffer ==
  \E req \in requests.WaitForOffer, sent \in requests.SendOffer,
     res \in replies.SendOffer :
    /\ sent.host_id = req.host_id
    /\ Reply("WaitForOffer", [answerer_id |-> res.answerer_id, body |-> sent.offer])

AcceptAnswer ==
  /\ requests.SendAnswer # {}
  /\ Reply("SendAnswer", [answer |-> Unset])
  /\ UNCHANGED <<requests, announced, underway>>

\* WaitForAnswer returns the answer of its session.
GiveAnswer ==
  /\ replies.SendAnswer # {}
  /\ \E req \in requests.WaitForAnswer, sent \in requests.SendAnswer :
       /\ sent.answerer_id = req.answerer_id
       /\ Reply("WaitForAnswer", [answer |-> sent.body])

\* Send on the stream of candidates, which carries them on to p.
SendCandidateTo(p, req) ==
  /\ underway' = [underway EXCEPT ![p] = Append(@, [candidate |-> req.body])]
  /\ UNCHANGED <<requests, replies, announced>>

\* Recv on the stream of candidates for p.
RecvCandidateFor(p) ==
  /\ requests.WaitForICECandidate # {}
  /\ underway[p] # <<>>
  /\ underway' = [underway EXCEPT ![p] = Tail(@)]
  /\ UNCHANGED <<requests, replies, announced>>
=============================================================================
