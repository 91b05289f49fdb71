------------------------------ MODULE Messages ------------------------------
(***************************************************************************)
(* The messages of src/proto/yampr.pb.go that clients and servers exchange,*)
(* as sets of records.  A string field that is not set is Unset, the zero  *)
(* value its getter returns.  Fields nobody reads are left out: password,  *)
(* client_secret, offerer_id.  Bodies are opaque to the servers.           *)
(***************************************************************************)

CONSTANTS Users,       \* user names
          Tokens,      \* tokens the Auth service issues
          HostIds,     \* ids it gives to hosts
          AnswererIds  \* ids SendOffer gives to sessions

\* The descriptions of the listener and of the agent, and their candidates.
Bodies == {"offer", "answer", "candidate"}

Unset == ""

AuthToken == [token : Tokens \cup {Unset}]

UserLogin == [username : Users]
InitHostRequest == [user_login : UserLogin]
InitHostResponse == [host_id : HostIds, token : AuthToken]

SendOfferRequest == [token : AuthToken, host_id : HostIds, offer : Bodies]
WaitForOfferRequest == [token : AuthToken, host_id : HostIds]

\* SendOffer leaves the body unset, WaitForOffer fills it with the offer.
OfferResponse == [answerer_id : AnswererIds, body : Bodies \cup {Unset}]

\* An answer or a candidate for a session.
ReplyToRequest == [token : AuthToken, answerer_id : AnswererIds, body : Bodies]
WaitForAnswerRequest == [token : AuthToken, answerer_id : AnswererIds]

\* SendAnswer leaves the answer unset, WaitForAnswer fills it.
AnswerResponse == [answer : Bodies \cup {Unset}]

WaitForICECandidateRequest == [token : AuthToken, answerer_id : AnswererIds]
IceCandidate == [candidate : Bodies]

\* A notice of a new offer says nothing else.
Empty == {<<>>}
=============================================================================
