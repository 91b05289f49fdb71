---------------------------- MODULE HostService ----------------------------
(***************************************************************************)
(* The host registry of the signalling server: src/server/host.go with the *)
(* LoginHost handler of src/server/auth.go that feeds it, and the two      *)
(* calls src/client/host.go makes on it.                                   *)
(*                                                                         *)
(* One goroutine, HostLifeManager, owns the map of registered hosts and    *)
(* serves its channels one message at a time.  Everything else runs beside *)
(* it: the gRPC handlers LoginHost and ListenNewOffer, one five-second     *)
(* idle timer per host, and one goroutine per notification.  The handler   *)
(* ListenNewOffer writes hostClient.status without synchronisation.        *)
(*                                                                         *)
(* Host ids are fresh UUIDs, so a host is registered at most once and its  *)
(* hostClient object can be identified with it.  gcHostCh, closeHostCh and *)
(* hostClientRequestChan hold messages of different hosts in FIFO order;   *)
(* the model keeps the messages and lets the manager take any of them.     *)
(*                                                                         *)
(* An operator named D_variant is D as a plausible mistake would have it;  *)
(* it is only there to be put in D.s place by the mutants of PROJECT.json. *)
(***************************************************************************)
EXTENDS Naturals, FiniteSets

CONSTANTS Hosts,       \* host ids LoginHost may allocate
          SigCap,      \* capacity of hostClient.offerSig (1024 in the code)
          MaxOffers    \* bound: offers announced to one host

ASSUME SigCapAssumption == SigCap \in Nat \ {0}
ASSUME MaxOffersAssumption == MaxOffers \in Nat

\* What the manager is doing when it is in its select statement.
AtSelect == "select"
ASSUME HostsAssumption == AtSelect \notin Hosts

VARIABLES
  manager,     \* AtSelect, or the host id just received from newHostCh
  clients,     \* keys of HostServerImpl.clients
  status,      \* hostClient.status of every host's object
  offerSig,    \* number of signals buffered in hostClient.offerSig
  gcTimer,     \* the idle timer of registerHost and its gcHostCh message
  closeHostCh, \* number of close messages in closeHostCh, per host
  notifying,   \* number of handleNewOffer goroutines still in their select
  stream,      \* progress of the host: login, then its ListenNewOffer call
  connected,   \* the host's end of the stream is still there
  panicked,    \* chkHostIdle dereferenced a missing client
  announced,   \* history: offers announced to each host
  delivered    \* history: notifications that reached each host

registryVars == <<manager, clients, status, offerSig, gcTimer, closeHostCh,
                  notifying, panicked>>
streamVars == <<stream, connected>>
historyVars == <<announced, delivered>>
vars == <<registryVars, streamVars, historyVars>>

StreamPhases == {"loggedOut", "denied", "loggingIn", "loggedIn", "requested",
                 "granted", "notFound", "listening", "sending", "ended"}
GcPhases == {"unset", "armed", "queued", "done"}

TypeOK ==
  /\ manager \in Hosts \cup {AtSelect}
  /\ clients \in SUBSET Hosts
  /\ status \in [Hosts -> {"Idle", "Active"}]
  /\ offerSig \in [Hosts -> 0 .. SigCap]
  /\ gcTimer \in [Hosts -> GcPhases]
  /\ closeHostCh \in [Hosts -> Nat]
  /\ notifying \in [Hosts -> Nat]
  /\ stream \in [Hosts -> StreamPhases]
  /\ connected \in [Hosts -> BOOLEAN]
  /\ panicked \in BOOLEAN
  /\ announced \in [Hosts -> 0 .. MaxOffers]
  /\ delivered \in [Hosts -> Nat]

Init ==
  /\ manager = AtSelect
  /\ clients = {}
  /\ status = [h \in Hosts |-> "Idle"]
  /\ offerSig = [h \in Hosts |-> 0]
  /\ gcTimer = [h \in Hosts |-> "unset"]
  /\ closeHostCh = [h \in Hosts |-> 0]
  /\ notifying = [h \in Hosts |-> 0]
  /\ stream = [h \in Hosts |-> "loggedOut"]
  /\ connected = [h \in Hosts |-> TRUE]
  /\ panicked = FALSE
  /\ announced = [h \in Hosts |-> 0]
  /\ delivered = [h \in Hosts |-> 0]

-----------------------------------------------------------------------------
(* LoginHost, and registerHost in the manager.                             *)

ManagerReady_anyTime == ~panicked

\* The manager is back in its select statement and the process is alive.
ManagerReady == ~panicked /\ manager = AtSelect

\* auth.newHostSig is unbuffered: the handler passes the id over exactly
\* when the manager receives it.
LoginHost(h) ==
  /\ ManagerReady
  /\ stream[h] = "loggedOut"
  /\ manager' = h
  /\ stream' = [stream EXCEPT ![h] = "loggingIn"]
  /\ UNCHANGED <<clients, status, offerSig, gcTimer, closeHostCh, notifying,
                 panicked, connected, historyVars>>

\* Any other user name: Unauthenticated, and nothing is registered.
LoginDenied(h) ==
  /\ ~panicked
  /\ stream[h] = "loggedOut"
  /\ stream' = [stream EXCEPT ![h] = "denied"]
  /\ UNCHANGED <<registryVars, connected, historyVars>>

\* The response travels to the host while the manager is still registering.
LoginResponse(h) ==
  /\ ~panicked
  /\ stream[h] = "loggingIn"
  /\ stream' = [stream EXCEPT ![h] = "loggedIn"]
  /\ UNCHANGED <<registryVars, connected, historyVars>>

registerHost(h) ==
  /\ ~panicked
  /\ manager = h
  /\ manager' = AtSelect
  /\ clients' = clients \cup {h}
  /\ status' = [status EXCEPT ![h] = "Idle"]
  /\ offerSig' = [offerSig EXCEPT ![h] = 0]
  /\ gcTimer' = [gcTimer EXCEPT ![h] = "armed"]
  /\ UNCHANGED <<closeHostCh, notifying, panicked, streamVars, historyVars>>

-----------------------------------------------------------------------------
(* The idle timer and the two ways a host leaves the registry.             *)

\* The timer goroutine wakes up and sends the id on gcHostCh.
IdleTimeout(h) ==
  /\ ~panicked
  /\ gcTimer[h] = "armed"
  /\ gcTimer' = [gcTimer EXCEPT ![h] = "queued"]
  /\ UNCHANGED <<manager, clients, status, offerSig, closeHostCh, notifying,
                 panicked, streamVars, historyVars>>

ShouldCollect_always(h) == TRUE
ShouldCollect_inverted(h) == status[h] = "Active"

\* hs.clients[hostID].status == hostClientStatusIdle
ShouldCollect(h) == status[h] = "Idle"

\* hs.clients[hostID].status is read without checking that the key is there.
chkHostIdle(h) ==
  /\ ManagerReady
  /\ gcTimer[h] = "queued"
  /\ gcTimer' = [gcTimer EXCEPT ![h] = "done"]
  /\ clients' = IF ShouldCollect(h) THEN clients \ {h} ELSE clients
  /\ panicked' = (h \notin clients)
  /\ UNCHANGED <<manager, status, offerSig, closeHostCh, notifying,
                 streamVars, historyVars>>

deleteHost(h) ==
  /\ ManagerReady
  /\ closeHostCh[h] > 0
  /\ closeHostCh' = [closeHostCh EXCEPT ![h] = @ - 1]
  /\ clients' = clients \ {h}
  /\ UNCHANGED <<manager, status, offerSig, gcTimer, notifying, panicked,
                 streamVars, historyVars>>

-----------------------------------------------------------------------------
(* Announcing an offer.                                                    *)

\* newOfferCh is unbuffered too: SendOffer hands the host id to the manager,
\* which forks the notifying goroutine, or ignores an unknown host.
handleNewOffer(h) ==
  /\ ManagerReady
  /\ announced[h] < MaxOffers
  /\ announced' = [announced EXCEPT ![h] = @ + 1]
  /\ notifying' = [notifying EXCEPT ![h] = IF h \in clients THEN @ + 1 ELSE @]
  /\ UNCHANGED <<manager, clients, status, offerSig, gcTimer, closeHostCh,
                 panicked, streamVars, delivered>>

NotifyDone_loops(h) == notifying

\* The notifying goroutine leaves its select and ends.
NotifyDone(h) == [notifying EXCEPT ![h] = @ - 1]

SigFree_offByOne(h) == offerSig[h] <= SigCap

\* offerSig has a free slot.
SigFree(h) == offerSig[h] < SigCap

\* case client.offerSig <- struct{}{}
NotifySend(h) ==
  /\ ~panicked
  /\ notifying[h] > 0
  /\ SigFree(h)
  /\ notifying' = NotifyDone(h)
  /\ offerSig' = [offerSig EXCEPT ![h] = @ + 1]
  /\ UNCHANGED <<manager, clients, status, gcTimer, closeHostCh, panicked,
                 streamVars, historyVars>>

NotifyStuck_default(h) == TRUE

\* The send is still not ready when the timer expires.
NotifyStuck(h) == ~SigFree(h)

\* case <-time.After(HostClientIdleTimeout): the goroutine's timer was
\* started after the host's own idle timer and runs as long, so it does not
\* expire before that one.  The channel must have been full for as long.
NotifyTimeout(h) ==
  /\ ~panicked
  /\ notifying[h] > 0
  /\ NotifyStuck(h)
  /\ gcTimer[h] # "armed"
  /\ notifying' = NotifyDone(h)
  /\ closeHostCh' = [closeHostCh EXCEPT ![h] = @ + 1]
  /\ UNCHANGED <<manager, clients, status, offerSig, gcTimer, panicked,
                 streamVars, historyVars>>

-----------------------------------------------------------------------------
(* ListenNewOffer.                                                         *)

\* hs.client(...) puts its request on hostClientRequestChan ...
ListenNewOffer(h) ==
  /\ ~panicked
  /\ stream[h] = "loggedIn"
  /\ connected[h]
  /\ stream' = [stream EXCEPT ![h] = "requested"]
  /\ UNCHANGED <<registryVars, connected, historyVars>>

\* ... and the manager answers it with the client or nil, which the handler
\* turns into NotFound.
handleHostClientRequest(h) ==
  /\ ManagerReady
  /\ stream[h] = "requested"
  /\ stream' = [stream EXCEPT ![h] =
                  IF h \in clients THEN "granted" ELSE "notFound"]
  /\ UNCHANGED <<registryVars, connected, historyVars>>

\* client.status = hostClientStatusActive, outside the manager.
Activate(h) ==
  /\ ~panicked
  /\ stream[h] = "granted"
  /\ status' = [status EXCEPT ![h] = "Active"]
  /\ stream' = [stream EXCEPT ![h] = "listening"]
  /\ UNCHANGED <<manager, clients, offerSig, gcTimer, closeHostCh, notifying,
                 panicked, connected, historyVars>>

SignalReady_offByOne(h) == offerSig[h] > 1

\* A signal is waiting in offerSig.
SignalReady(h) == offerSig[h] > 0

\* case <-client.offerSig.  The other case, stopListeningNewOffer, never
\* fires: nothing sends on that channel.
TakeSignal(h) ==
  /\ ~panicked
  /\ stream[h] = "listening"
  /\ SignalReady(h)
  /\ offerSig' = [offerSig EXCEPT ![h] = @ - 1]
  /\ stream' = [stream EXCEPT ![h] = "sending"]
  /\ UNCHANGED <<manager, clients, status, gcTimer, closeHostCh, notifying,
                 panicked, connected, historyVars>>

\* stream.Send returns nil.  After the host went away the message may still
\* be accepted by the transport, and is lost.
SendNotification(h) ==
  /\ ~panicked
  /\ stream[h] = "sending"
  /\ stream' = [stream EXCEPT ![h] = "listening"]
  /\ delivered' = [delivered EXCEPT ![h] = IF connected[h] THEN @ + 1 ELSE @]
  /\ UNCHANGED <<registryVars, connected, announced>>

\* stream.Send returns an error: the handler returns it.  The host stays in
\* the registry, with status Active.
SendFails(h) ==
  /\ ~panicked
  /\ stream[h] = "sending"
  /\ ~connected[h]
  /\ stream' = [stream EXCEPT ![h] = "ended"]
  /\ UNCHANGED <<registryVars, connected, historyVars>>

\* The host process or its connection goes away.
Disconnect(h) ==
  /\ ~panicked
  /\ stream[h] \notin {"loggedOut", "denied"}
  /\ connected[h]
  /\ connected' = [connected EXCEPT ![h] = FALSE]
  /\ UNCHANGED <<registryVars, stream, historyVars>>

-----------------------------------------------------------------------------
\* Steps the server takes by itself once they are enabled.
ServerStep(h) ==
  \/ LoginResponse(h) \/ registerHost(h)
  \/ IdleTimeout(h) \/ chkHostIdle(h) \/ deleteHost(h)
  \/ NotifySend(h) \/ NotifyTimeout(h)
  \/ handleHostClientRequest(h) \/ Activate(h)
  \/ TakeSignal(h) \/ SendNotification(h) \/ SendFails(h)

\* Steps of hosts and offerers.
ClientStep(h) ==
  \/ LoginHost(h) \/ LoginDenied(h) \/ ListenNewOffer(h)
  \/ handleNewOffer(h) \/ Disconnect(h)

Next == \E h \in Hosts : ServerStep(h) \/ ClientStep(h)

Spec == Init /\ [][Next]_vars

\* Go runs every goroutine that can run, expires every timer, and its select
\* statement picks fairly among ready cases.  Clients owe nothing.
Fairness ==
  \A h \in Hosts :
    /\ WF_vars(LoginResponse(h)) /\ WF_vars(registerHost(h))
    /\ WF_vars(IdleTimeout(h))
    /\ SF_vars(chkHostIdle(h)) /\ SF_vars(deleteHost(h))
    /\ SF_vars(handleHostClientRequest(h))
    /\ WF_vars(NotifySend(h) \/ NotifyTimeout(h))
    /\ WF_vars(Activate(h)) /\ WF_vars(TakeSignal(h))
    /\ WF_vars(SendNotification(h) \/ SendFails(h))

FairSpec == Spec /\ Fairness

-----------------------------------------------------------------------------
(* Properties.                                                             *)

\* Notifications of host h that are somewhere between handleNewOffer and the
\* host: waiting goroutines, buffered signals, the one being sent.
InFlight(h) ==
  notifying[h] + offerSig[h] + (IF stream[h] = "sending" THEN 1 ELSE 0)

\* A host is never told of more offers than were announced to it, however
\* the notifying goroutines, their timeouts and the stream interleave: a
\* signal that timed out is not also delivered, and none is delivered twice.
NoSpuriousNotification ==
  \A h \in Hosts :
    delivered[h] + InFlight(h) + closeHostCh[h] <= announced[h]

\* A host that logged in and calls ListenNewOffer is told NotFound only after
\* its idle timer has expired: the response of LoginHost may overtake
\* registerHost, but the request cannot.
NotFoundOnlyAfterTimeout ==
  \A h \in Hosts : stream[h] = "notFound" => gcTimer[h] \in {"queued", "done"}

\* A host whose status became Active before the idle check ran is taken out
\* of the registry only by the close message of a notification that found
\* offerSig full for five seconds; the idle check never removes it.
ActiveRemovedOnlyWhenStuck ==
  [][\A h \in Hosts :
       h \in clients /\ h \notin clients' /\ stream[h] \in {"listening", "sending", "ended"}
         => closeHostCh[h] > closeHostCh'[h]]_vars

\* TestHostTimeout: a host that logs in and does not listen is collected.
IdleHostCollected ==
  \A h \in Hosts :
    h \in clients ~> (h \notin clients \/ status[h] = "Active" \/ panicked)

\* A notification for a host that is listening is not left behind: it is
\* delivered, or dropped by its timeout, unless the host went away.
NotificationsDrain ==
  \A h \in Hosts :
    stream[h] = "listening" ~> (InFlight(h) = 0 \/ ~connected[h] \/ panicked)

\* The registry (host.go:106) implements its abstract specification: every
\* step of every goroutine is one of its steps or invisible, and a notification
\* is dropped (host.go:169) only while SigCap others are waiting in offerSig.
Notifications ==
  INSTANCE HostNotifications WITH
    known <- clients,
    reachable <- {h \in Hosts : connected[h]},
    pending <- [h \in Hosts |-> InFlight(h)],
    told <- delivered

ImplementsHostNotifications == Notifications!Spec

-----------------------------------------------------------------------------
(* The inductive invariant behind the safety properties.                   *)

Registered(h) == gcTimer[h] # "unset"
TimerExpired(h) == gcTimer[h] \in {"queued", "done"}

\* The manager registers a host once, while the host is past LoginHost.
RegisteringInv(h) ==
  /\ manager = h => ~Registered(h) /\ stream[h] \notin {"loggedOut", "denied"}
  /\ ~Registered(h) /\ stream[h] \notin {"loggedOut", "denied"} => manager = h
  /\ stream[h] \in {"loggedOut", "denied"} => ~Registered(h)

\* A host is in the map from registration until its idle timer has expired
\* at least; goroutines and close messages exist for registered hosts only.
RegistryInv(h) ==
  /\ h \in clients => Registered(h)
  /\ gcTimer[h] = "armed" => h \in clients
  /\ notifying[h] > 0 \/ offerSig[h] > 0 => Registered(h)
  /\ closeHostCh[h] > 0 => TimerExpired(h)

\* What the progress of ListenNewOffer says about the host's object.
StreamInv(h) ==
  /\ stream[h] = "notFound" => TimerExpired(h)
  /\ stream[h] \in {"granted", "listening", "sending", "ended"} => Registered(h)
  /\ stream[h] \in {"listening", "sending", "ended"} => status[h] = "Active"

HostInv ==
  /\ TypeOK
  /\ NoSpuriousNotification
  /\ \A h \in Hosts : RegisteringInv(h) /\ RegistryInv(h) /\ StreamInv(h)

-----------------------------------------------------------------------------
(* What comments and tests say and the code does not do.                   *)

\* TestHostServer: once a notification came through the stream, the server
\* finds the client of that host, and it is Active.
NotifiedHostIsRegistered ==
  \A h \in Hosts :
    delivered[h] > 0 => h \in clients /\ status[h] = "Active"

\* gcHostCh "is the signal to check if the host is idle": the check itself
\* does not bring the server down.
IdleCheckIsSafe == ~panicked
=============================================================================
