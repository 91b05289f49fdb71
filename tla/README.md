# Verification of YAMRP

YAMRP tunnels TCP connections between a *client*, which listens on a local
port, and a *host*, which stands beside the real service.  The two find each
other through a signaling server and then talk over WebRTC data channels.  This
directory holds TLA+ models of the server, of the set-up of a connection and of
the tunnel, the TLC configurations that check them and TLAPS proofs about them.  Paths below are
relative to `src/`.

## 1. Inventory

| Part | State it keeps | Operations | Talks to |
|---|---|---|---|
| Auth server, `server/auth.go` | none | `LoginHost`, `LoginClient` | sends each new host id on `newHostSig` (unbuffered) |
| Host registry, `server/host.go` | `clients`: host id to status, `offerSig`, `stopListeningNewOffer`; queues `gcHostCh`, `closeHostCh`, `hostClientRequestChan` | the five cases of `HostLifeManager`, the gRPC stream `ListenNewOffer`, idle timers, one notifying goroutine per offer | told of hosts by auth, of offers by the offerer (`notifyNewOfferCh`, unbuffered), tells hosts |
| Offerer server, `server/offerer.go` | `AnsID2AnsChan`, `AnsID2iceToAnsChan`: an unbuffered channel each per session | `SendOffer`, `WaitForAnswer`, `WaitForICECandidate`, `SendIceCandidate`, `answerRouter`, `iceCandidateRouter`, a clean-up timer per session | answerer over `offerCh`, `closeIceToAnsCh` (unbuffered), `answerCh`, `iceToAnsCh`, `iceToOfferCh` (1024) |
| Answerer server, `server/anserer.go` | `hostID2waitingCh` (capacity 1 each), `AnsID2iceToAnsChan` (1024 each) | `WaitForOffer`, `SendAnswer`, `SendIceCandidate`, `WaitForICECandidate`, `offerRouter`, `iceCandidateRouter`, timers of the channels | the offerer, as above |
| Wiring, `server/server.go` | the channels | `Serve` | all servers |
| Host client, `client/host.go` | host id, tokens | `HostLogin`, `NewOfferListener`, `StartAgent` | auth and registry; one agent per notification |
| Agent set-up, `client/agent.go` | its peer connection, the result channel (1), an `err` it shares with a callback | `setupWebRTC`, `initWebRTCAsAnswerer` and the goroutines they start | answerer server, WebRTC library |
| Agent connections, `client/agent.go` | a proxy and a service connection per data channel | `onDataChannelHandler` | the service, a `Proxy` each |
| Listener set-up, `client/listener.go` | its peer connection, `pendingIceCandidates`, `remoteIceCh` (1024), the context of the set-up | `Connect`, `setupWebRTC`, `initWebRTCAsOfferer`, `initAndSendOffer`, `waitForAnswer`, `exchangeICE` | offerer server, WebRTC library |
| Listener connections, `client/listener.go` | `proxies` under `proxiesMutex` | `BindListener`, `startProxy`, `cleanupProxy` | clients, a `Proxy` each |
| WebRTC, `client/webrtc_abstract.go` | the peer connection of the library | descriptions, candidates, connection states, data channels | both peers |
| Processes, `cmd/yamcli` | none | `startClient`, `startHost` | listener; host and its agents |
| Proxy, `client/proxy.go` | `writingBuf` (1024), `stopped`, two stop channels | `readingLoop`, `writingLoop`, `OnMessage` handler, `Close`, `trySendEoL` | TCP connection, data channel, `eolSig` (1) of its owner |
| Futures, `utils/async` | one buffered value | `Resolve`, `Await`, `AwaitAll`, `AwaitAny`, `AwaitUnordered` | used by the client |

The rest (plain structs, interfaces, most of the generated protocol code, mocks)
keeps no state that interacts; `PROJECT.json` lists it.

**How they interact.**  A host logs in, listens for offers and starts an agent
for every notification.  A listener sends an offer for a host id: the offerer
server first has the host notified and then gives the offer to the answerer
server, which keeps it in the waiting channel of that host until an agent takes
it.  The answer and the ICE candidates of both sides travel through buffered
channels and routers that look the session up in a map.  A peer takes the
candidates of the other only once it has its description.  When a pair of
addresses is found the link is up, `Connect` returns, and from then on each TCP
connection gets a data channel and a proxy at each end.

**What is hard.**

* Everything is a goroutine: handlers, routers, timers, one goroutine per
  received candidate, one per Write.  Maps are locked, but the channels found
  in them are used after the lock is released.
* Nearly every map entry has a timer that deletes it by key, while handlers
  still hold the channel and others may make a new one under the same key.
* Routers send on channels whose reader may be gone.
* The registry is a single goroutine, but a client's status is written outside
  it.
* The set-ups run the call for the answer, the exchange of candidates and the
  callbacks of the library side by side, with closed channels, a shared `err` and
  a result channel of one place between them; a candidate may overtake the
  description it needs; either process can end at any moment.
* The agent's proxy runs before its data channel is open: a service that speaks
  first can make a `Send` fail, and the `Close` that follows may be lost.
* A proxy can end for five reasons at once, and signals that find the buffer
  full are dropped.

**What makes each part correct.**

* Registry: no host is told of an offer that was not announced; a host that
  just logged in is found; a listening host is not collected, an idle one is;
  notifications do not pile up.
* Exchange of offers: an offer is taken once, by an agent of the right host;
  the answer is from that agent; `SendOffer` returns; sessions are forgotten.
* Candidates: only the peer's, in order; streams end; channels are forgotten.
* Set-up: a listener that has its answer learns how the set-up ends, whatever
  happens to its candidates or to the host; what it started ends with it, but for
  one goroutine that can be stuck; the process does not panic while it waits; an
  agent waits for ever in known places only.
* Connections: the two ends of a connection close together while the link is up,
  and nothing else than an end, a slow `Write` or an early `Send` closes them.
* Proxy: it is closed once and leaves nothing open; data stays in order;
  whatever ends, everything ends, but nothing ends on its own, save by a `Send`
  before the channel is open; a slow application blocks nothing for ever.

## 2. Modules

| Module | Models | Notes |
|---|---|---|
| `HostNotifications` | | abstract: what the registry promises its hosts |
| `HostService` | `server/host.go`, `LoginHost` of `server/auth.go`, the calls of `client/host.go` | one registry, a set of hosts; implements `HostNotifications` |
| `OfferExchange` | | abstract: what the servers promise of offers and answers |
| `SignalingChannels` | the buffered channels of `server/server.go` and their packets | shared by the next two |
| `Offerer` | `server/offerer.go` | handlers indexed by session |
| `Answerer` | `server/anserer.go` | handlers indexed by agent, channels by creator |
| `Signaling` | the composition in `server/server.go` | joins the two unbuffered hand-overs; implements `OfferExchange` |
| `ProxiedConnection` | | abstract: what one proxy promises |
| `Proxy` | `client/proxy.go`, `startProxy` and `cleanupProxy` of `client/listener.go`, `onDataChannelHandler` of `client/agent.go` | one proxy, listener's or agent's side; implements `ProxiedConnection` |
| `Futures` | `utils/async/future.go` | operators |
| `Messages` | the messages of `proto/yampr.pb.go` | sets of records |
| `PeerConnections` | `client/webrtc_abstract.go` and the library behind it | both peers |
| `SignalingLink` | the rpcs as one listener and one host see them | the servers without their queues |
| `ListenerSetup` | the set-up in `client/listener.go` | |
| `AgentSetup` | `client/host.go`, the set-up in `client/agent.go` | |
| `Tunnel` | `BindListener`, `onDataChannelHandler`, the ends of `startClient` and `startHost` | a set of connections |
| `Connection` | listener, host, agent, link and tunnel together | keeps to `OfferExchange` |
| `HostServiceProofs`, `SignalingProofs`, `CandidateProofs`, `ProxyProofs`, `ConnectionProofs` | | theorems |
| `MCHostService`, `MCSignaling`, `MCProxy`, `MCConnection` | | instances for TLC |

**Three levels.**  The servers and the proxy are modelled in full by themselves,
each against an abstract specification.  `Connection` is about the two
programs that use them: it has the servers as `SignalingLink`, which replies
to requests as `OfferExchange` allows, and proxies as what `ProxiedConnection`
says of their end.  That the link does not promise more than the servers do is the
property `KeepsToOfferExchange`; that the servers promise as much is
`ImplementsOfferExchange`.  A change of `Signaling` that breaks the one leaves the
other without a ground.

| Abstract | Implemented by | Refinement mapping |
|---|---|---|
| `HostNotifications` | `HostService` | pending notifications are those in goroutines, in `offerSig` or being sent |
| `OfferExchange` | `Signaling` | the outcome of an offer is where `SendOffer` stands; the rest are the handlers' variables |
| `OfferExchange` | `Connection` | the same for one session, read off the requests and replies |
| `ProxiedConnection` | `Proxy` | the stage of the end follows the closing of connection and data channel and the supervisor's report |

**State.**  A variable carries the name of the field or channel it stands for
(`clients`, `offerSig`, `hostID2waitingCh`, `writingBuf`, ...).  Program counters
of handlers and goroutines are variables such as `stream`, `offerPhase`,
`offerRouter`, `pc`, `lMain`, `exchange`, `aMain`.  Variables marked *history* in a module record what was delivered
and influence no step.

**Actions.**  An action is what a goroutine does between two points at which
another one can interfere: a locked section, a channel operation, an
unsynchronised access.  A `select` is one action per case; a deferred call is
part of the return it follows.  A send on an unbuffered channel and its receive
are one step: `HandOverOffer` and `HandOverClose` in `Signaling`, `LoginHost`,
`handleNewOffer` in `HostService`, the routers' `Put` actions.  Timers and
deadlines are actions that may happen at any time, with one exception explained
at `NotifyTimeout`.

**Abstractions.**

* An offer, an answer and a session are identified by the session's id, a
  candidate by its sender and number, a message of a data channel by its
  number.  Tokens, SDP texts, logging are left out.
* In `Signaling` the registry is a counter of notifications per host, which is
  what `NoSpuriousNotification` of `HostService` justifies; a listener makes
  one offer, an agent takes one.
* A channel that is no longer in a map is kept as long as somebody holds it,
  named by what created it.
* In `Proxy`, the send of a stop signal and the closing of that channel are one
  step (a loop ends on either), and the OnMessage handler waits as the
  data channel's delivery being disabled.  The TCP connection and the data
  channel are external: a Write may block, succeed or fail after the application
  closed; once one failed all fail; `OnClose` runs after the messages that came before.  The library runs the agent's handler to
  its end, then opens the channel, and delivers nothing before that: a `Send`
  until then fails (`sentEarly`), and a `Close` may be without effect.  A message
  that arrives before `OnMessage` is registered waits.  The listener starts its
  proxy from `OnOpen`, so its channel is open from the start (`OpenAtStart`).
* In `Connection` a request that reached the servers and a reply that reached
  its caller are kept as sets; a message that is lost is one that is never
  received.  Queues of candidates are numbers, and of the candidates a peer added
  only whether there is one is kept (`added`).  A call may fail at any time, also
  after the server has acted on it, and `AddICECandidate` may refuse any candidate:
  the servers forward whatever a peer sends, so one may be malformed as well as
  early.  The first refusal ends `exchangeICE`, or the agent's receiver.
* `initWebRTCAsOfferer` cancels its context before it returns (`listener.go:361`,
  `:554`, `:558`): `"succeeding"` and `"failing"` are the time between, in which
  `exchangeICE` may close `remoteIceCh` and the receiver may panic on it.
* A channel at the agent is `"opening"` from its arrival until the library opens
  it.  A service that speaks then is `"early"`; the close by its proxy then may
  or may not take effect (`ReleaseAgentChannel`).  `OnClose`, which is registered
  meanwhile, plays no part before the opening.
* The library is external: it gathers candidates after the local description,
  refuses the other's before the remote one, connects only when both
  descriptions are set and a candidate was added, gives up otherwise, and reports
  each state once.
* `aErr` is the variable `err` of `initWebRTCAsAnswerer`, which the candidate
  callback assigns too: a data race, modelled as assignments in any order.
* A process that exits takes its goroutines, connections and channels with it.
  Nothing is persisted, so there is no recovery to model: a restarted host logs
  in as a new one.
* The listener's own context never ends: nothing calls its `ctxCancel`.

## 3. Runs

| Run | Instance | Shows |
|---|---|---|
| `host` | 1 host, `offerSig` of 2, 4 offers | what hosts are told, who is removed, nothing stays pending; the refinement |
| `offers` | 2 hosts, 2 sessions, 2 agents | `OfferTakenOnce`, `OfferReachesItsHost`, `AnswerFromTaker`; the refinement |
| `offers_return` | 1 host, 3 sessions, 1 agent | `SendOfferReturns`, `SessionForgotten` |
| `ice_order` | 1 listener and agent, 2 candidates each way, channels of 2 | order of candidates across deleted and re-made channels |
| `ice_ends` | 1 listener and agent, 1 candidate each way, channels of 1 | streams end, the answerer's map empties |
| `proxy` | 2 messages, `writingBuf` of 1, application data | all of the proxy's properties; the refinement |
| `connect` | 1 listener, host, agent and connection, 1 candidate of the listener and 2 of the agent, `remoteIceCh` of 1 | how the set-up ends, what it leaves behind, that both ends close together and nothing else closes them |
| `host_lost_registration`, `host_check_panics` | 1 host, `offerSig` of 1, 2 offers | violations, below |
| `offer_lost`, `answer_stuck` | 1 host, 2 sessions, 1 or 2 agents | violations, below |
| `peer_data_lost` | 2 messages, `writingBuf` of 1 | violation, below |

**Why the bounds are enough.**

* Hosts do not interact in the registry except through the manager, which
  serves one at a time, so one host sees every interleaving that matters; four
  offers fill a channel of two and leave two goroutines that can time out.
* Two offers and two agents are what it takes to double, exchange or misdirect
  an offer, and with two hosts of two sessions each choice occurs.  Names are
  interchangeable; `NameSymmetry` is used in the safety run only.
* `offers_return` needs three offers: one in the waiting channel, one that
  blocks the router, one that waits in `SendOffer`.
* The runs on candidates give the routers a full channel (`ice_order`) and a
  deleted and re-made one (both).  `ice_ends` uses no more candidates than a
  buffer holds: beyond that the routers can block one another for ever (see
  the hazards at `offerer.go:209` and `:300`), so termination does not hold.
* In `proxy`, a buffer of one is full after the second message while the first Write
  blocks; after a timeout two Writes are in flight.  `MaxUnread` bounds how
  much the application is ahead of the proxy, not how much it sends.
* In `connect` a candidate can come before or after the description it needs,
  before or after the end of the set-up, and it is what connects the link.  With
  two candidates of the agent and a `remoteIceCh` of one, the channel can be full
  when `exchangeICE` has failed: the receiver then waits for ever at
  `listener.go:312` (`ReceiverAbandoned`), the one exception that
  `SetupGoroutinesEnd` makes; in the code it takes more than 1024 candidates.  One
  connection has every order of accept, open, dial, write, leave and close;
  connections share nothing but the link.  `Dummies` is empty: nobody uses the
  channel of that label (`listener.go:206`), it shares only the link with the
  connections, and with it the instance has several times the states.  The
  theorems of `ConnectionProofs` hold for any number of candidates, connections and
  dummy channels.

`CHECK_DEADLOCK FALSE` appears where the system may really stop: clients may stop
calling, a call may wait for ever, a panic ends a process, a proxy ends.

**Fairness.**  Weak fairness stands for the Go scheduler (a goroutine that can
run runs) and for timers.  A `select` chooses at random among ready cases, so a
case that is ready again and again is chosen at some time: strong fairness, used for the
manager's cases, the hand-overs and the answerer's ICE router.  Nothing is assumed of listeners, hosts, agents, applications
and peers: they may stop at any point, and a Write may block as long as the
connection is open.  In `connect` the steps of the set-ups' own
goroutines are fair.  Of the calls only `SendOffer` is made to return, which
`SendOfferReturns` shows of the server.  `WaitForOffer`, `WaitForAnswer` and
`SendAnswer` may wait for ever: `SendAnswer` waits for room in `answerCh` or for its
caller's context (`anserer.go:106-112`), and the agent passes `context.TODO()`
(`agent.go:244`).  `AgentSetupSettles` therefore speaks of an agent in every step but
these.  Nobody is made to exit, and the library decides at some time whether the
link comes up; the opening, arrival and closing of each connection's channel and
the ends of its proxies are fair too, while a `Write` that takes too long or a
service that speaks early is only possible.  The receiver's steps are fair once
the context is done, the send on a full channel excepted, since it cannot go on.

`AnsweredListenerReturns`, `SetupGoroutinesEnd`, `AgentSetupSettles` and
`ServiceClosedWithClient` have the form `[]<>(P => Q)`: again and again Q holds
whenever P does.  For a P that stands until Q comes, this is `P ~> Q`, and TLC
checks it much faster.

`OfferFairSpec` and `IceFairSpec` are the parts of `FairSpec`
whose actions occur in the respective instances.

**What the code does not do.**  Five runs violate what a comment, a test or the
README says; `PROJECT.json` quotes the lines.

1. A host can be removed from the registry although it listens and was
   notified: its status becomes `Active` outside the manager.
2. The idle check of a host that a close message removed first dereferences nil.
3. An accepted offer can stay in a waiting channel that the map has
   forgotten, while an agent waits on a newer one.
4. An accepted answer can stay behind the answer of a listener that gave up.
5. Messages that the proxy accepted from a peer are dropped when the peer
   closes.

## 4. Proofs

The theorems hold for all values of the constants, under the named assumptions
of `HostService`, `SignalingChannels`, `Proxy`, `PeerConnections`,
`ListenerSetup`, `Tunnel` and `Connection` (finite or natural bounds, capacities of
at least one where a buffer is needed, `None` and `"none"` are no names).

`HostServiceProofs` proves `TypeOK`, `NoSpuriousNotification`,
`NotFoundOnlyAfterTimeout` and `ActiveRemovedOnlyWhenStuck`.  The inductive
invariant is `HostInv`: the counting inequality of `NoSpuriousNotification`;
`RegisteringInv`, that the manager registers a host exactly while its login
has passed the id over; `RegistryInv`, that a host is in the map at least until
its idle timer expires and that a close message comes after that; `StreamInv`,
that a stream past `Activate` belongs to a host with status Active.  The close
message needs the timing argument at `NotifyTimeout`: the notifying goroutine's
five seconds start after the host's own.

`SignalingProofs` proves `OfferTakenOnce`, `OfferReachesItsHost` and
`AnswerFromTaker`.  An offer moves from the offerer's handler to the router, to
a waiting channel, to an agent.  The inductive invariant `ExchangeInv` says where
it can be: in one of these places, in one channel, and every channel holds
offers of one host only although the map may have forgotten or replaced it.
Actions that leave those variables alone are dispatched by one lemma.

`CandidateProofs` proves `TypeOK` of `Signaling`, `AgentIceInOrder` and
`ListenerIceInOrder`.  Its invariant `IceInv` is inductive given `ExchangeInv`.
In both directions a sender holds one candidate, pushes it into a channel, and a
router takes it from there: `LineInv` says that this line is ordered, candidate
by candidate of the same sender, with the router in front; `Precedes`, that
what was passed on is earlier than all of the line; `WasSent`, that all of the line is
earlier than what the sender holds.  `ToListenerInv` adds that packets of a
session come from the agent that took its offer, and needs `OfferTakenOnce` to
conclude that there is only one.  `ToAgentInv` says this of every ICE channel ever
made for a session, in the map or not, and that the one channel an agent
reads is behind what it was given: when a timer replaces it candidates are
lost, but those that arrive stay in order.

`ProxyProofs` proves `TypeOK`, `CloseCalledOnce`, `WrittenInOrder`,
`EndReleasesAll` and `NoEndWithoutCause`.  None of the last four is inductive.  `ClosingInv` adds
that whoever is in `Close` holds the mutex and took the proxy out of the map
(on the agent: is the supervisor), so nobody finds it there again; `ReleaseInv`
adds that a proxy which was in the map and is not any more has been closed
unless its closer still holds the mutex, which is why a second closer that finds
nothing may go on and report; `RelayInv` places every message: written, in flight, in
`writingBuf`, with contiguous numbers as long as no Write failed or timed
out; `CauseInv` gives every failed Read, Send or Write, every buffered signal and
everybody who reacts to one a cause: an end that closed, a `Write` that took too
long, or, on the agent's side only, a `Send` before the channel was open.  `Tunnel` reduces a
proxy to what `NoEndWithoutCause` and `EndReleasesAll` say of its end.

`ConnectionProofs` proves `TypeOK`, `PanicOnlyAfterCancel` and
`NoSpuriousDisconnect`.  The inductive invariant `ConnectionInv` joins `CancelInv`
(`remoteIceCh` is closed, and the receiver panics, only after `cancelSetup` was
called), `ClosedInv` (a channel is closed only after a connection ended at one of
its sides), `CandidateInv` (what the listener has yet to send was gathered, which
bounds its queue), `OfferInv` and `WorkerInv` (requests and replies belong to the one
offer and the host that logged in).  `NoSpuriousDisconnect` excuses a connection
that is stuck or, at the service, spoke early: these are the ends that
`NoEndWithoutCause` allows a proxy by itself.

**Layout.**  Where a type invariant has many conjuncts it is cut into the groups
that one component owns; a frame lemma for each group says that a step which
leaves its variables alone keeps it, so a step has to be examined only for the
groups it writes.  What a helper does to a queue, a reply or a set of requests
is one lemma (`AskAdds`, `ReplyAdds`, `CandidateSent`, `CandidateReceived`), and so is
the arithmetic of candidates that move from one place to the next.

**Refinements.**  Each of the four refinements of section 2 is a theorem too:
`HostImplementsNotifications`, `SignalingImplementsExchange`,
`ProxyImplementsConnection`, `ConnectionKeepsToOfferExchange`.  The initial
states map to initial states, and from the inductive invariant every step maps to a
step of the abstract specification or to a stutter.

**Only model-checked.**  Liveness, which is out of the prover's reach:
`IdleHostCollected`, `NotificationsDrain`, `SendOfferReturns`,
`SessionForgotten`, `AnswererIceForgotten`, `IceStreamsEnd`,
`EitherEndTearsDown`, `MessagesMoveOn` and `AnsweredListenerReturns`,
`SetupGoroutinesEnd`, `AgentSetupSettles`, `ServiceClosedWithClient`,
`ClientClosedWithService` of `Connection`.  The abstract specifications state safety only.

## 5. Not modelled

* `HostService` and `Signaling` in one state space.  They meet in one channel,
  `notifyNewOfferCh`, whose receiver is the manager's `select`.
  `Signaling` has the registry as a counter of notifications, which
  `NoSpuriousNotification` justifies; the product would only repeat both.
* `LoginClient`, which keeps nothing and which no client calls; the tokens'
  values, which the servers do not check.
* `AwaitAll` and `AwaitAny`, which only tests call.
* The body of `client/listener.go:410-547`, which is commented out, and
  `cmd/_bak`, which is not built.
* Flag parsing, dialling the server and logging in `cmd`; `services.go`, a
  diagram; message fields nobody reads; reflection tables and stubs of the
  generated code, whose effect is that of the rpcs in `SignalingLink`.
* Plain structs and interfaces of the root package and of `client`, which have
  no behaviour; generated mocks, which are test doubles.
* The channel `dummy_agent` the agent opens (`client/agent.go:222`): the listener has
  no handler for it and nobody uses it.
* A host with several agents at once in `Connection`: agents share nothing in the
  client (the map `agents` is never used), and what they share in the server is in
  `Signaling`.
* How many goroutines wait for ever and how often a loop spins
  (`server/offerer.go:249`, `:263`), and what the registry should do with a host that
  is gone (`server/host.go:91`): hazards without a property, with the reason,
  in `PROJECT.json`.
* Three things of the agent that are modelled but of which no property speaks,
  because nothing in the code or docs says what should happen: success reported
  although `SendAnswer` failed (`agent.go:251-254`), the data race on `err`
  (`agent.go:198`), a channel that arrives before its handler is registered and is
  dropped (`agent.go:97`).  The panic of `BindListener` on a failed `Accept`
  (`listener.go:91`) is the action `AcceptFails`.
