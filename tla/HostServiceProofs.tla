------------------------- MODULE HostServiceProofs -------------------------
(***************************************************************************)
(* Safety of the host registry for any set of hosts, any capacity of       *)
(* offerSig and any number of offers.  HostInv is inductive: the lemmas    *)
(* below show that every action of HostService preserves each part of it.  *)
(***************************************************************************)
EXTENDS HostService, TLAPS

USE DEF AtSelect

\* An update at h leaves the other hosts' entries alone, so each part of the
\* invariant is proved host by host.
LEMMA InitHostInv == Init => HostInv
<1> SUFFICES ASSUME Init PROVE HostInv
  OBVIOUS
<1> USE SigCapAssumption, MaxOffersAssumption, HostsAssumption DEF Init
<1>1. TypeOK
  <2>1. offerSig \in [Hosts -> 0 .. SigCap] /\ announced \in [Hosts -> 0 .. MaxOffers]
    OBVIOUS
  <2>2. connected \in [Hosts -> BOOLEAN] /\ panicked \in BOOLEAN
    OBVIOUS
  <2>3. /\ closeHostCh \in [Hosts -> Nat]
        /\ notifying \in [Hosts -> Nat]
        /\ delivered \in [Hosts -> Nat]
    OBVIOUS
  <2>4. status \in [Hosts -> {"Idle", "Active"}] /\ gcTimer \in [Hosts -> GcPhases]
        /\ stream \in [Hosts -> StreamPhases]
    BY DEF GcPhases, StreamPhases
  <2> QED
    BY <2>1, <2>2, <2>3, <2>4 DEF TypeOK
<1>2. NoSpuriousNotification
  BY DEF NoSpuriousNotification, InFlight
<1>3. ASSUME NEW h \in Hosts
      PROVE  RegisteringInv(h) /\ RegistryInv(h) /\ StreamInv(h)
  <2>1. manager # h
    OBVIOUS
  <2> QED
    BY <2>1 DEF RegisteringInv, RegistryInv, StreamInv, Registered, TimerExpired
<1> QED
  BY <1>1, <1>2, <1>3 DEF HostInv

\* Every step keeps every variable in its type.
LEMMA StepTypeOK ==
  ASSUME HostInv, NEW h \in Hosts, ServerStep(h) \/ ClientStep(h)
  PROVE  TypeOK'
<1> USE SigCapAssumption, MaxOffersAssumption, HostsAssumption
        DEF HostInv, TypeOK, registryVars, streamVars, historyVars, GcPhases, StreamPhases
<1>1. CASE LoginHost(h) BY <1>1 DEF LoginHost, ManagerReady
<1>2. CASE LoginDenied(h) BY <1>2 DEF LoginDenied
<1>3. CASE LoginResponse(h) BY <1>3 DEF LoginResponse
<1>4. CASE registerHost(h) BY <1>4 DEF registerHost
<1>5. CASE IdleTimeout(h) BY <1>5 DEF IdleTimeout
<1>6. CASE chkHostIdle(h) BY <1>6 DEF chkHostIdle
<1>7. CASE deleteHost(h) BY <1>7 DEF deleteHost
<1>8. CASE handleNewOffer(h) BY <1>8 DEF handleNewOffer
<1>9. CASE NotifySend(h) BY <1>9 DEF NotifySend, NotifyDone, SigFree
<1>10. CASE NotifyTimeout(h) BY <1>10 DEF NotifyTimeout, NotifyDone
<1>11. CASE ListenNewOffer(h) BY <1>11 DEF ListenNewOffer
<1>12. CASE handleHostClientRequest(h) BY <1>12 DEF handleHostClientRequest
<1>13. CASE Activate(h) BY <1>13 DEF Activate
<1>14. CASE TakeSignal(h) BY <1>14 DEF TakeSignal, SignalReady
<1>15. CASE SendNotification(h) BY <1>15 DEF SendNotification
<1>16. CASE SendFails(h) BY <1>16 DEF SendFails
<1>17. CASE Disconnect(h) BY <1>17 DEF Disconnect
<1> QED BY <1>1, <1>2, <1>3, <1>4, <1>5, <1>6, <1>7, <1>8, <1>9, <1>10, <1>11,
           <1>12, <1>13, <1>14, <1>15, <1>16, <1>17 DEF ServerStep, ClientStep

\* Signals move from goroutine to buffer to stream to host, or to a close
\* message, and are never copied on the way.
LEMMA StepNoSpuriousNotification ==
  ASSUME HostInv, NEW h \in Hosts, ServerStep(h) \/ ClientStep(h)
  PROVE  NoSpuriousNotification'
<1> SUFFICES ASSUME NEW g \in Hosts
             PROVE  (delivered[g] + InFlight(g) + closeHostCh[g] <= announced[g])'
  BY DEF NoSpuriousNotification
<1> USE DEF HostInv, TypeOK, NoSpuriousNotification, InFlight,
            registryVars, streamVars, historyVars
<1>1. CASE LoginHost(h) BY <1>1 DEF LoginHost, ManagerReady
<1>2. CASE LoginDenied(h) BY <1>2 DEF LoginDenied
<1>3. CASE LoginResponse(h) BY <1>3 DEF LoginResponse
<1>4. CASE registerHost(h) BY <1>4 DEF registerHost
<1>5. CASE IdleTimeout(h) BY <1>5 DEF IdleTimeout
<1>6. CASE chkHostIdle(h) BY <1>6 DEF chkHostIdle, ShouldCollect
<1>7. CASE deleteHost(h) BY <1>7 DEF deleteHost
<1>8. CASE handleNewOffer(h) BY <1>8 DEF handleNewOffer
<1>9. CASE NotifySend(h) BY <1>9 DEF NotifySend, NotifyDone, SigFree
<1>10. CASE NotifyTimeout(h) BY <1>10 DEF NotifyTimeout, NotifyDone
<1>11. CASE ListenNewOffer(h) BY <1>11 DEF ListenNewOffer
<1>12. CASE handleHostClientRequest(h) BY <1>12 DEF handleHostClientRequest, ManagerReady
<1>13. CASE Activate(h) BY <1>13 DEF Activate
<1>14. CASE TakeSignal(h) BY <1>14 DEF TakeSignal, SignalReady
<1>15. CASE SendNotification(h) BY <1>15 DEF SendNotification
<1>16. CASE SendFails(h) BY <1>16 DEF SendFails
<1>17. CASE Disconnect(h) BY <1>17 DEF Disconnect
<1> QED BY <1>1, <1>2, <1>3, <1>4, <1>5, <1>6, <1>7, <1>8, <1>9, <1>10, <1>11,
           <1>12, <1>13, <1>14, <1>15, <1>16, <1>17 DEF ServerStep, ClientStep

\* The three parts about login, registry and stream depend on each other and
\* are preserved together.
LEMMA StepHostParts ==
  ASSUME HostInv, NEW h \in Hosts, ServerStep(h) \/ ClientStep(h), NEW g \in Hosts
  PROVE  (RegisteringInv(g) /\ RegistryInv(g) /\ StreamInv(g))'
<1>0. RegisteringInv(g) /\ RegistryInv(g) /\ StreamInv(g) /\ RegisteringInv(h)
      /\ RegistryInv(h) /\ StreamInv(h) /\ TypeOK
  BY DEF HostInv
<1> USE <1>0, HostsAssumption
        DEF TypeOK, RegisteringInv, RegistryInv, StreamInv, Registered, TimerExpired,
            GcPhases, StreamPhases, registryVars, streamVars, historyVars, ManagerReady
<1>1. CASE LoginHost(h) BY <1>1 DEF LoginHost
<1>2. CASE LoginDenied(h) BY <1>2 DEF LoginDenied
<1>3. CASE LoginResponse(h) BY <1>3 DEF LoginResponse
<1>4. CASE registerHost(h)
  <2>1. manager = h /\ manager' # g /\ stream' = stream
    BY <1>4 DEF registerHost
  <2>2. CASE g = h
    BY <1>4, <2>1, <2>2 DEF registerHost
  <2>3. CASE g # h
    BY <1>4, <2>1, <2>3 DEF registerHost
  <2> QED
    BY <2>2, <2>3
<1>5. CASE IdleTimeout(h) BY <1>5 DEF IdleTimeout
<1>6. CASE chkHostIdle(h) BY <1>6 DEF chkHostIdle, ShouldCollect
<1>7. CASE deleteHost(h) BY <1>7 DEF deleteHost
<1>8. CASE handleNewOffer(h) BY <1>8 DEF handleNewOffer
<1>9. CASE NotifySend(h) BY <1>9 DEF NotifySend, NotifyDone, SigFree
<1>10. CASE NotifyTimeout(h) BY <1>10 DEF NotifyTimeout, NotifyDone
<1>11. CASE ListenNewOffer(h) BY <1>11 DEF ListenNewOffer
<1>12. CASE handleHostClientRequest(h) BY <1>12 DEF handleHostClientRequest
<1>13. CASE Activate(h) BY <1>13 DEF Activate
<1>14. CASE TakeSignal(h) BY <1>14 DEF TakeSignal, SignalReady
<1>15. CASE SendNotification(h) BY <1>15 DEF SendNotification
<1>16. CASE SendFails(h) BY <1>16 DEF SendFails
<1>17. CASE Disconnect(h) BY <1>17 DEF Disconnect
<1> QED BY <1>1, <1>2, <1>3, <1>4, <1>5, <1>6, <1>7, <1>8, <1>9, <1>10, <1>11,
           <1>12, <1>13, <1>14, <1>15, <1>16, <1>17 DEF ServerStep, ClientStep

LEMMA NextHostInv == HostInv /\ [Next]_vars => HostInv'
<1> SUFFICES ASSUME HostInv, [Next]_vars PROVE HostInv'
  OBVIOUS
<1>1. CASE Next
  <2>1. PICK h \in Hosts : ServerStep(h) \/ ClientStep(h)
    BY <1>1 DEF Next
  <2> QED
    BY <2>1, StepTypeOK, StepNoSpuriousNotification, StepHostParts DEF HostInv
<1>2. CASE UNCHANGED vars
  BY <1>2 DEF vars, registryVars, streamVars, historyVars, HostInv, TypeOK,
     NoSpuriousNotification, InFlight, RegisteringInv, RegistryInv, StreamInv,
     Registered, TimerExpired
<1> QED
  BY <1>1, <1>2

-----------------------------------------------------------------------------
\* The invariant HostInv holds in every reachable state of the registry.
THEOREM HostInvariant == Spec => []HostInv
  BY InitHostInv, NextHostInv, PTL DEF Spec

\* Every variable stays in its type: in particular offerSig never holds more
\* than its capacity and no counter goes below zero.
THEOREM HostTypeOK == Spec => []TypeOK
<1>1. HostInv => TypeOK
  BY DEF HostInv
<1> QED
  BY <1>1, HostInvariant, PTL

\* No host is told of more offers than were announced to it.
THEOREM HostNoSpuriousNotification == Spec => []NoSpuriousNotification
<1>1. HostInv => NoSpuriousNotification
  BY DEF HostInv
<1> QED
  BY <1>1, HostInvariant, PTL

\* NotFound is an answer to late listeners only: the login response cannot
\* make ListenNewOffer overtake registerHost.
THEOREM HostNotFoundOnlyAfterTimeout == Spec => []NotFoundOnlyAfterTimeout
<1>1. HostInv => NotFoundOnlyAfterTimeout
  BY DEF HostInv, NotFoundOnlyAfterTimeout, StreamInv, TimerExpired
<1> QED
  BY <1>1, HostInvariant, PTL

\* A listening host leaves the registry only with a close message.
THEOREM HostActiveRemovedOnlyWhenStuck == Spec => ActiveRemovedOnlyWhenStuck
<1> DEFINE OnlyWhenStuck ==
      \A h \in Hosts :
        h \in clients /\ h \notin clients' /\ stream[h] \in {"listening", "sending", "ended"}
          => closeHostCh[h] > closeHostCh'[h]
<1>1. HostInv /\ [Next]_vars => [OnlyWhenStuck]_vars
  <2> SUFFICES ASSUME HostInv, Next, NEW g \in Hosts, g \in clients, g \notin clients',
                      stream[g] \in {"listening", "sending", "ended"}
               PROVE  closeHostCh[g] > closeHostCh'[g]
    BY DEF vars
  <2>1. PICK h \in Hosts : ServerStep(h) \/ ClientStep(h)
    BY DEF Next
  <2>2. status[g] = "Active" /\ closeHostCh \in [Hosts -> Nat]
    BY DEF HostInv, StreamInv, TypeOK
  <2>3. chkHostIdle(h) \/ deleteHost(h)
    BY <2>1 DEF ServerStep, ClientStep, LoginHost, LoginDenied, LoginResponse,
       registerHost, IdleTimeout, handleNewOffer, NotifySend, NotifyTimeout,
       ListenNewOffer, handleHostClientRequest, Activate, TakeSignal,
       SendNotification, SendFails, Disconnect, registryVars
  <2>4. ~chkHostIdle(h)
    BY <2>2 DEF chkHostIdle, ShouldCollect
  <2> QED
    BY <2>2, <2>3, <2>4 DEF deleteHost
<1> QED
  BY <1>1, HostInvariant, PTL DEF Spec, ActiveRemovedOnlyWhenStuck

-----------------------------------------------------------------------------
(* The registry implements HostNotifications.                              *)

\* A step that leaves what the abstract specification sees is a stutter.
LEMMA QuietHostStep ==
  ASSUME UNCHANGED <<clients, connected, notifying, offerSig, delivered>>,
         \A g \in Hosts : (stream[g] = "sending") = (stream'[g] = "sending")
  PROVE  UNCHANGED Notifications!vars
<1>1. \A g \in Hosts : InFlight(g)' = InFlight(g)
  BY DEF InFlight
<1> QED
  BY <1>1 DEF Notifications!vars

\* A step of one host's notifications leaves those of the others alone.
LEMMA PendingStep ==
  ASSUME TypeOK, NEW h \in Hosts, NEW n \in Nat, InFlight(h)' = n,
         \A g \in Hosts \ {h} : InFlight(g)' = InFlight(g)
  PROVE  [g \in Hosts |-> InFlight(g)'] = [[g \in Hosts |-> InFlight(g)] EXCEPT ![h] = n]
OBVIOUS

\* Every step of the registry, of a host or of an offerer is a step of the
\* abstract specification, or one that it does not see.
LEMMA HostStepImplements ==
  ASSUME HostInv, NEW h \in Hosts, ServerStep(h) \/ ClientStep(h)
  PROVE  Notifications!Next \/ UNCHANGED Notifications!vars
<1> DEFINE Pending == [g \in Hosts |-> InFlight(g)]
<1>0. /\ TypeOK /\ RegistryInv(h) /\ RegisteringInv(h)
      /\ \A g \in Hosts : InFlight(g) \in Nat /\ Pending[g] = InFlight(g)
      /\ Pending' = [g \in Hosts |-> InFlight(g)']
  BY DEF HostInv, TypeOK, InFlight
<1> USE <1>0 DEF TypeOK, registryVars, streamVars, historyVars
<1>1. CASE \/ LoginHost(h) \/ LoginDenied(h) \/ LoginResponse(h) \/ IdleTimeout(h)
           \/ ListenNewOffer(h) \/ handleHostClientRequest(h) \/ Activate(h)
  <2>1. UNCHANGED <<clients, connected, notifying, offerSig, delivered>>
    BY <1>1 DEF LoginHost, LoginDenied, LoginResponse, IdleTimeout, ListenNewOffer,
       handleHostClientRequest, Activate
  <2>2. \A g \in Hosts : (stream[g] = "sending") = (stream'[g] = "sending")
    BY <1>1 DEF LoginHost, LoginDenied, LoginResponse, IdleTimeout, ListenNewOffer,
       handleHostClientRequest, Activate
  <2> QED
    BY <2>1, <2>2, QuietHostStep
<1>2. CASE registerHost(h)
  <2>1. offerSig[h] = 0
    BY <1>2 DEF RegistryInv, RegisteringInv, registerHost
  <2>2. \A g \in Hosts : InFlight(g)' = InFlight(g)
    BY <1>2, <2>1 DEF registerHost, InFlight
  <2>3. Notifications!Register(h)
    BY <1>2, <2>2 DEF registerHost, Notifications!Register
  <2> QED
    BY <2>3 DEF Notifications!Next
<1>3. CASE chkHostIdle(h) \/ deleteHost(h)
  <2>1. clients' \in {clients, clients \ {h}}
    BY <1>3 DEF chkHostIdle, deleteHost
  <2>2. UNCHANGED <<connected, notifying, offerSig, delivered, stream>>
    BY <1>3 DEF chkHostIdle, deleteHost
  <2>3. CASE clients' = clients
    BY <2>2, <2>3, QuietHostStep
  <2>4. CASE clients' = clients \ {h}
    <3>1. \A g \in Hosts : InFlight(g)' = InFlight(g)
      BY <2>2 DEF InFlight
    <3>2. Notifications!Forget(h)
      BY <2>2, <2>4, <3>1 DEF Notifications!Forget
    <3> QED
      BY <3>2 DEF Notifications!Next
  <2> QED
    BY <2>1, <2>3, <2>4
<1>4. CASE handleNewOffer(h)
  <2>1. CASE h \notin clients
    <3>1. notifying' = notifying
      BY <1>4, <2>1 DEF handleNewOffer
    <3> QED
      BY <1>4, <3>1, QuietHostStep DEF handleNewOffer
  <2>2. CASE h \in clients
    <3>1. InFlight(h)' = InFlight(h) + 1 /\ \A g \in Hosts \ {h} : InFlight(g)' = InFlight(g)
      BY <1>4, <2>2 DEF handleNewOffer, InFlight
    <3>2. Pending' = [Pending EXCEPT ![h] = InFlight(h) + 1]
      BY <3>1, PendingStep
    <3>3. Notifications!Announce(h)
      BY <1>4, <2>2, <3>2 DEF handleNewOffer, Notifications!Announce
    <3> QED
      BY <3>3 DEF Notifications!Next
  <2> QED
    BY <2>1, <2>2
<1>5. CASE NotifySend(h)
  <2>1. \A g \in Hosts : InFlight(g)' = InFlight(g)
    <3>1. /\ notifying' = [notifying EXCEPT ![h] = @ - 1]
          /\ offerSig' = [offerSig EXCEPT ![h] = @ + 1]
          /\ stream' = stream /\ offerSig[h] \in Nat /\ notifying[h] \in Nat
      BY <1>5 DEF NotifySend, NotifyDone
    <3>2. InFlight(h)' = InFlight(h)
      BY <3>1 DEF InFlight
    <3>3. \A g \in Hosts \ {h} : InFlight(g)' = InFlight(g)
      BY <3>1 DEF InFlight
    <3> QED
      BY <3>2, <3>3
  <2> QED
    BY <1>5, <2>1 DEF NotifySend, Notifications!vars
<1>6. CASE NotifyTimeout(h)
  <2>1. InFlight(h) > SigCap
    BY <1>6, SigCapAssumption DEF NotifyTimeout, NotifyStuck, SigFree, InFlight
  <2>2. InFlight(h)' = InFlight(h) - 1 /\ \A g \in Hosts \ {h} : InFlight(g)' = InFlight(g)
    BY <1>6 DEF NotifyTimeout, NotifyDone, InFlight
  <2>3. Pending' = [Pending EXCEPT ![h] = InFlight(h) - 1]
    BY <2>1, <2>2, PendingStep, SigCapAssumption
  <2>4. Notifications!GiveUp(h)
    BY <1>6, <2>1, <2>3, SigCapAssumption
       DEF NotifyTimeout, Notifications!GiveUp, Notifications!Taken
  <2> QED
    BY <2>4 DEF Notifications!Next
<1>7. CASE TakeSignal(h)
  <2>1. \A g \in Hosts : InFlight(g)' = InFlight(g)
    BY <1>7 DEF TakeSignal, SignalReady, InFlight
  <2> QED
    BY <1>7, <2>1 DEF TakeSignal, Notifications!vars
<1>8. CASE SendNotification(h) \/ SendFails(h)
  <2>1. /\ InFlight(h) > 0 /\ InFlight(h)' = InFlight(h) - 1
        /\ \A g \in Hosts \ {h} : InFlight(g)' = InFlight(g)
    BY <1>8 DEF SendNotification, SendFails, InFlight
  <2>2. Pending' = [Pending EXCEPT ![h] = InFlight(h) - 1]
    BY <2>1, PendingStep
  <2>3. Notifications!Taken(h)
    BY <1>8, <2>1, <2>2 DEF SendNotification, SendFails, Notifications!Taken
  <2>4. CASE connected[h] /\ SendNotification(h)
    <3>1. Notifications!Tell(h)
      BY <2>3, <2>4 DEF SendNotification, Notifications!Tell
    <3> QED
      BY <3>1 DEF Notifications!Next
  <2>5. CASE ~connected[h]
    <3>1. delivered' = delivered
      BY <1>8, <2>5 DEF SendNotification, SendFails
    <3>2. Notifications!GiveUp(h)
      BY <2>3, <2>5, <3>1 DEF Notifications!GiveUp
    <3> QED
      BY <3>2 DEF Notifications!Next
  <2> QED
    BY <1>8, <2>4, <2>5 DEF SendFails
<1>9. CASE Disconnect(h)
  <2>1. \A g \in Hosts : InFlight(g)' = InFlight(g)
    BY <1>9 DEF Disconnect, InFlight
  <2>2. {g \in Hosts : connected'[g]} = {g \in Hosts : connected[g]} \ {h}
    BY <1>9 DEF Disconnect
  <2>3. Notifications!GoAway(h)
    BY <1>9, <2>1, <2>2 DEF Disconnect, Notifications!GoAway
  <2> QED
    BY <2>3 DEF Notifications!Next
<1> QED
  BY <1>1, <1>2, <1>3, <1>4, <1>5, <1>6, <1>7, <1>8, <1>9 DEF ServerStep, ClientStep

\* The registry (host.go:106) implements its abstract specification, for any
\* number of hosts and any capacity of offerSig.
THEOREM HostImplementsNotifications == Spec => ImplementsHostNotifications
<1>1. Init => Notifications!Init
  BY DEF Init, Notifications!Init, InFlight
<1>2. HostInv /\ [Next]_vars => [Notifications!Next]_(Notifications!vars)
  <2> SUFFICES ASSUME HostInv, [Next]_vars
               PROVE  Notifications!Next \/ UNCHANGED Notifications!vars
    OBVIOUS
  <2>1. CASE Next
    BY <2>1, HostStepImplements DEF Next
  <2>2. CASE UNCHANGED vars
    BY <2>2, QuietHostStep DEF vars, registryVars, streamVars, historyVars
  <2> QED
    BY <2>1, <2>2
<1> QED
  BY <1>1, <1>2, HostInvariant, PTL DEF Spec, ImplementsHostNotifications, Notifications!Spec
=============================================================================
