--------------------------- MODULE OfferExchange ----------------------------
(***************************************************************************)
(* What the offerer and the answerer servers promise of offers and         *)
(* answers, with no channel, router, timer or handler in sight: an offer   *)
(* goes to one agent of its host at most and only if SendOffer accepted    *)
(* it, and the listener gets at most one answer, from that agent.          *)
(* Signaling implements this.                                              *)
(***************************************************************************)
CONSTANTS Hosts, Sessions, Agents, None

VARIABLES
  offeredTo,  \* the host each session's offer is addressed to
  outcome,    \* what SendOffer has told the listener
  workerOf,   \* the host each agent works for
  offerOf,    \* the offer each agent has taken
  answeredBy  \* the agent whose answer each listener was given

vars == <<offeredTo, outcome, workerOf, offerOf, answeredBy>>

Init ==
  /\ offeredTo = [s \in Sessions |-> None]
  /\ outcome = [s \in Sessions |-> "pending"]
  /\ workerOf = [a \in Agents |-> None]
  /\ offerOf = [a \in Agents |-> None]
  /\ answeredBy = [s \in Sessions |-> None]

Offer(s, h) ==
  /\ offeredTo[s] = None
  /\ offeredTo' = [offeredTo EXCEPT ![s] = h]
  /\ UNCHANGED <<outcome, workerOf, offerOf, answeredBy>>

\* SendOffer returns, once: the offer is accepted or it timed out.
Decide(s, verdict) ==
  /\ offeredTo[s] # None
  /\ outcome[s] = "pending"
  /\ outcome' = [outcome EXCEPT ![s] = verdict]
  /\ UNCHANGED <<offeredTo, workerOf, offerOf, answeredBy>>

Join(a, h) ==
  /\ workerOf[a] = None
  /\ workerOf' = [workerOf EXCEPT ![a] = h]
  /\ UNCHANGED <<offeredTo, outcome, offerOf, answeredBy>>

Take(a, s) ==
  /\ offerOf[a] = None
  /\ outcome[s] = "accepted"
  /\ offeredTo[s] = workerOf[a]
  /\ \A b \in Agents : offerOf[b] # s
  /\ offerOf' = [offerOf EXCEPT ![a] = s]
  /\ UNCHANGED <<offeredTo, outcome, workerOf, answeredBy>>

Answer(a) ==
  /\ offerOf[a] # None
  /\ answeredBy[offerOf[a]] = None
  /\ answeredBy' = [answeredBy EXCEPT ![offerOf[a]] = a]
  /\ UNCHANGED <<offeredTo, outcome, workerOf, offerOf>>

Next ==
  \/ \E s \in Sessions, h \in Hosts : Offer(s, h)
  \/ \E s \in Sessions, v \in {"accepted", "refused"} : Decide(s, v)
  \/ \E a \in Agents, h \in Hosts : Join(a, h)
  \/ \E a \in Agents, s \in Sessions : Take(a, s)
  \/ \E a \in Agents : Answer(a)

Spec == Init /\ [][Next]_vars
=============================================================================
