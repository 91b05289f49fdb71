---------------------------- MODULE ProxyProofs ----------------------------
(***************************************************************************)
(* Proofs about Proxy: for any number of messages, any amount of data and  *)
(* any capacity of writingBuf, on either side.                             *)
(***************************************************************************)
EXTENDS Proxy, Integers, TLAPS

\* The proxy starts with nothing in flight and nothing to release.
LEMMA ProxyInitInv == Init => ProxyInv
<1> SUFFICES ASSUME Init PROVE ProxyInv
  OBVIOUS
<1> USE ProxyAssumption DEF Init, OpenAtStart
<1>1. TypeOK
  <2>1. writingBuf \in Seq(Messages) /\ Len(writingBuf) <= BufCap /\ written \in Seq(Messages)
    OBVIOUS
  <2>2. pc \in [Closers -> PcStates]
    BY DEF PcStates
  <2>3. /\ appClosed \in BOOLEAN /\ connClosed \in BOOLEAN /\ remoteClosed \in BOOLEAN
        /\ dcOpen \in BOOLEAN /\ dcClosed \in BOOLEAN /\ sentEarly \in BOOLEAN /\ broken \in BOOLEAN /\ timedOut \in BOOLEAN
        /\ eolSig \in BOOLEAN /\ inMap \in BOOLEAN /\ stopSent \in BOOLEAN
        /\ stopClosed \in BOOLEAN
    OBVIOUS
  <2>4. /\ unread \in 0 .. MaxUnread /\ incoming \in 0 .. MaxMessages
        /\ delivered \in 0 .. incoming
    OBVIOUS
  <2>5. /\ side \in {"listener", "agent"} /\ setup = "new" /\ reader = "off"
        /\ readOp = "none" /\ writer = "off" /\ current = 0 /\ writeResult = "none"
        /\ inFlight = {} /\ mutex = "free" /\ closes = 0
    OBVIOUS
  <2> HIDE DEF Init
  <2> QED
    BY <2>1, <2>2, <2>3, <2>4, <2>5 DEF TypeOK
<1>2. ClosingInv
  BY DEF ClosingInv, Closers
<1>3. ReleaseInv
  BY DEF ReleaseInv, Closers
<1>4. RelayInv
  BY DEF RelayInv
<1>5. OnceInv
  BY DEF OnceInv
<1>6. CauseInv
  BY DEF CauseInv, Closers
<1>7. OpenInv
  BY DEF OpenInv
<1> QED
  BY <1>1, <1>2, <1>3, <1>4, <1>5, <1>6, <1>7 DEF ProxyInv

-----------------------------------------------------------------------------
\* Every step keeps every variable in its type.
LEMMA ProxyTypeStep ==
  ASSUME ProxyInv, [Next]_vars
  PROVE  TypeOK'
<1> USE ProxyAssumption DEF ProxyInv, TypeOK, Messages, Closers, PcStates, RelayInv,
            appVars, dcVars, readVars, writeVars, closeVars
<1>1. CASE AppSends BY <1>1 DEF AppSends
<1>2. CASE AppCloses BY <1>2 DEF AppCloses
<1>3. CASE RemoteSends BY <1>3 DEF RemoteSends
<1>4. CASE RemoteCloses BY <1>4 DEF RemoteCloses
<1>5. CASE NewProxy BY <1>5 DEF NewProxy, AfterNewProxy
<1>6. CASE InsertProxy BY <1>6 DEF InsertProxy
<1>7. CASE ForkSupervisor BY <1>7 DEF ForkSupervisor
<1>8. CASE OnMessage BY <1>8 DEF OnMessage, BufHasRoom
<1>9. CASE ReadData BY <1>9 DEF ReadData
<1>10. CASE ReadFails BY <1>10 DEF ReadFails
<1>11. CASE SendData
  <2>1. sentEarly' \in BOOLEAN /\ readOp' \in {"ok", "failed"}
    BY <1>11 DEF SendData
  <2>2. UNCHANGED <<side, setup, appVars, connClosed, incoming, remoteClosed, dcOpen, dcClosed,
                    delivered, writingBuf, reader, writeVars, eolSig, closeVars>>
    BY <1>11 DEF SendData
  <2> QED
    BY <2>1, <2>2
<1>12. CASE ReadDone BY <1>12 DEF ReadDone
<1>13. CASE ReadError BY <1>13 DEF ReadError, TrySendEoL, EoLAccepted
<1>14. CASE StopReader BY <1>14 DEF StopReader
<1>15. CASE TakeMessage
  <2>1. writingBuf # <<>> /\ writingBuf' = Tail(writingBuf) /\ current' = Head(writingBuf)
    BY <1>15 DEF TakeMessage
  <2>2. Head(writingBuf) \in Messages /\ Tail(writingBuf) \in Seq(Messages)
    BY <2>1
  <2>3. Len(Tail(writingBuf)) <= BufCap
    BY <2>1
  <2>4. inFlight' \in SUBSET Messages
    BY <1>15, <2>1, <2>2 DEF TakeMessage
  <2>5. TypeOK
    OBVIOUS
  <2>6. /\ writer' = "waiting" /\ writeResult' = "none"
        /\ UNCHANGED <<side, setup, appVars, connClosed, dcVars, delivered, readVars, broken,
                       written, timedOut, eolSig, closeVars>>
    BY <1>15 DEF TakeMessage
  <2> HIDE DEF ProxyInv, RelayInv, Messages, Closers, PcStates
  <2> QED
    BY <2>1, <2>2, <2>3, <2>4, <2>5, <2>6
<1>16. CASE WriteDone BY <1>16 DEF WriteDone
<1>17. CASE WriteError BY <1>17 DEF WriteError, SignalOrStop, TrySendEoL, EoLAccepted
<1>18. CASE WriteTimeout BY <1>18 DEF WriteTimeout, WriteTimerArmed, SignalOrStop, TrySendEoL, EoLAccepted
<1>19. CASE StopWriter BY <1>19 DEF StopWriter
<1>20. CASE OnClose BY <1>20 DEF OnClose
<1>21. CASE CallbackEoL BY <1>21 DEF CallbackEoL, TrySendEoL
<1>22. CASE ReceiveEoL
  <2>1. pc' \in [Closers -> PcStates]
    BY <1>22 DEF ReceiveEoL
  <2>2. eolSig' \in BOOLEAN
    BY <1>22 DEF ReceiveEoL
  <2> QED
    BY <1>22, <2>1, <2>2 DEF ReceiveEoL
<1>23. CASE CloseDataChannel BY <1>23 DEF CloseDataChannel
<1>24. CASE Resolve BY <1>24 DEF Resolve
<1>25. ASSUME NEW m \in inFlight, WriteSucceeds(m) PROVE TypeOK'
  BY <1>25 DEF WriteSucceeds, WriteReturns
<1>26. ASSUME NEW m \in inFlight, WriteFails(m) PROVE TypeOK'
  BY <1>26 DEF WriteFails, WriteReturns
<1>27. ASSUME NEW c \in Closers, CleanupProxy(c) PROVE TypeOK'
  <2>1. pc' \in [Closers -> PcStates]
    BY <1>27 DEF CleanupProxy, After
  <2>2. inMap' \in BOOLEAN /\ mutex' \in Closers \cup {"free"}
    BY <1>27 DEF CleanupProxy, ForgetProxy
  <2> QED
    BY <1>27, <2>1, <2>2 DEF CleanupProxy
<1>28. ASSUME NEW c \in Closers, CloseConn(c) PROVE TypeOK'
  <2>1. pc' \in [Closers -> PcStates]
    BY <1>28 DEF CloseConn, After
  <2>2. connClosed' \in BOOLEAN /\ broken' \in BOOLEAN /\ mutex' \in Closers \cup {"free"}
    BY <1>28 DEF CloseConn
  <2>3. closes' \in Nat /\ stopSent' \in BOOLEAN
    BY <1>28 DEF CloseConn
  <2> QED
    BY <1>28, <2>1, <2>2, <2>3 DEF CloseConn
<1>29. ASSUME NEW c \in Closers, CloseStopSigs(c) PROVE TypeOK'
  BY <1>29 DEF CloseStopSigs, After
<1>30. CASE UNCHANGED vars BY <1>30 DEF vars
<1>31. CASE ChannelOpens BY <1>31 DEF ChannelOpens
<1> QED
  BY <1>1, <1>2, <1>3, <1>4, <1>5, <1>6, <1>7, <1>8, <1>9, <1>10, <1>11, <1>12,
     <1>13, <1>14, <1>15, <1>16, <1>17, <1>18, <1>19, <1>20, <1>21, <1>22, <1>23,
     <1>24, <1>25, <1>26, <1>27, <1>28, <1>29, <1>30, <1>31
     DEF Next, Environment, Starting, ReadOperation, ReadingLoop, WritingLoop, Callback,
         Supervisor, Closer, Closers

\* Close is entered by one closer, once.
LEMMA ProxyClosingStep ==
  ASSUME ProxyInv, [Next]_vars
  PROVE  ClosingInv'
<1> USE DEF ProxyInv, TypeOK, ClosingInv, Closers, PcStates,
            appVars, dcVars, readVars, writeVars, closeVars
<1>1. CASE AppSends BY <1>1 DEF AppSends
<1>2. CASE AppCloses BY <1>2 DEF AppCloses
<1>3. CASE RemoteSends BY <1>3 DEF RemoteSends
<1>4. CASE RemoteCloses BY <1>4 DEF RemoteCloses
<1>5. CASE NewProxy BY <1>5 DEF NewProxy, AfterNewProxy
<1>6. CASE InsertProxy BY <1>6 DEF InsertProxy
<1>7. CASE ForkSupervisor BY <1>7 DEF ForkSupervisor
<1>8. CASE OnMessage BY <1>8 DEF OnMessage, BufHasRoom
<1>9. CASE ReadData BY <1>9 DEF ReadData
<1>10. CASE ReadFails BY <1>10 DEF ReadFails
<1>11. CASE SendData BY <1>11 DEF SendData
<1>12. CASE ReadDone BY <1>12 DEF ReadDone
<1>13. CASE ReadError BY <1>13 DEF ReadError, TrySendEoL, EoLAccepted
<1>14. CASE StopReader BY <1>14 DEF StopReader
<1>15. CASE TakeMessage BY <1>15 DEF TakeMessage, WriterFree
<1>16. CASE WriteDone BY <1>16 DEF WriteDone
<1>17. CASE WriteError BY <1>17 DEF WriteError, SignalOrStop, TrySendEoL, EoLAccepted
<1>18. CASE WriteTimeout BY <1>18 DEF WriteTimeout, WriteTimerArmed, SignalOrStop, TrySendEoL, EoLAccepted
<1>19. CASE StopWriter BY <1>19 DEF StopWriter
<1>20. CASE OnClose BY <1>20 DEF OnClose
<1>21. CASE CallbackEoL BY <1>21 DEF CallbackEoL, TrySendEoL
<1>22. CASE ReceiveEoL BY <1>22 DEF ReceiveEoL
<1>23. CASE CloseDataChannel BY <1>23 DEF CloseDataChannel
<1>24. CASE Resolve BY <1>24 DEF Resolve
<1>25. ASSUME NEW m \in inFlight, WriteSucceeds(m) PROVE ClosingInv'
  BY <1>25 DEF WriteSucceeds, WriteReturns
<1>26. ASSUME NEW m \in inFlight, WriteFails(m) PROVE ClosingInv'
  BY <1>26 DEF WriteFails, WriteReturns
<1>27. ASSUME NEW c \in Closers, CleanupProxy(c) PROVE ClosingInv'
  BY <1>27 DEF CleanupProxy, ForgetProxy, After
<1>28. ASSUME NEW c \in Closers, CloseConn(c) PROVE ClosingInv'
  <2>1. closes = 0 /\ ~inMap /\ ~stopSent
    BY <1>28 DEF CloseConn
  <2>2. /\ closes' = 1 /\ connClosed'
        /\ pc' = [pc EXCEPT ![c] = "signal"]
        /\ UNCHANGED <<side, setup, inMap, mutex>>
    BY <1>28, <2>1 DEF CloseConn
  <2>3. setup \notin {"new", "insert"}
    BY <1>28 DEF CloseConn, ReleaseInv
  <2> QED
    BY <1>28, <2>1, <2>2, <2>3 DEF CloseConn
<1>29. ASSUME NEW c \in Closers, CloseStopSigs(c) PROVE ClosingInv'
  BY <1>29 DEF CloseStopSigs, After
<1>30. CASE UNCHANGED vars BY <1>30 DEF vars
<1>31. CASE ChannelOpens BY <1>31 DEF ChannelOpens
<1> QED
  BY <1>1, <1>2, <1>3, <1>4, <1>5, <1>6, <1>7, <1>8, <1>9, <1>10, <1>11, <1>12,
     <1>13, <1>14, <1>15, <1>16, <1>17, <1>18, <1>19, <1>20, <1>21, <1>22, <1>23,
     <1>24, <1>25, <1>26, <1>27, <1>28, <1>29, <1>30, <1>31
     DEF Next, Environment, Starting, ReadOperation, ReadingLoop, WritingLoop, Callback,
         Supervisor, Closer, Closers

\* What was released stays released, and is before anybody is told.
LEMMA ProxyReleaseStep ==
  ASSUME ProxyInv, [Next]_vars
  PROVE  ReleaseInv'
<1> USE DEF ProxyInv, TypeOK, ClosingInv, ReleaseInv, Closers,
            appVars, dcVars, readVars, writeVars, closeVars
<1>1. CASE AppSends BY <1>1 DEF AppSends
<1>2. CASE AppCloses BY <1>2 DEF AppCloses
<1>3. CASE RemoteSends BY <1>3 DEF RemoteSends
<1>4. CASE RemoteCloses BY <1>4 DEF RemoteCloses
<1>5. CASE NewProxy BY <1>5 DEF NewProxy, AfterNewProxy
<1>6. CASE InsertProxy BY <1>6 DEF InsertProxy
<1>7. CASE ForkSupervisor BY <1>7 DEF ForkSupervisor
<1>8. CASE OnMessage BY <1>8 DEF OnMessage, BufHasRoom
<1>9. CASE ReadData BY <1>9 DEF ReadData
<1>10. CASE ReadFails BY <1>10 DEF ReadFails
<1>11. CASE SendData BY <1>11 DEF SendData
<1>12. CASE ReadDone BY <1>12 DEF ReadDone
<1>13. CASE ReadError BY <1>13 DEF ReadError, TrySendEoL, EoLAccepted
<1>14. CASE StopReader BY <1>14 DEF StopReader
<1>15. CASE TakeMessage BY <1>15 DEF TakeMessage, WriterFree
<1>16. CASE WriteDone BY <1>16 DEF WriteDone
<1>17. CASE WriteError BY <1>17 DEF WriteError, SignalOrStop, TrySendEoL, EoLAccepted
<1>18. CASE WriteTimeout BY <1>18 DEF WriteTimeout, WriteTimerArmed, SignalOrStop, TrySendEoL, EoLAccepted
<1>19. CASE StopWriter BY <1>19 DEF StopWriter
<1>20. CASE OnClose BY <1>20 DEF OnClose
<1>21. CASE CallbackEoL BY <1>21 DEF CallbackEoL, TrySendEoL
<1>22. CASE ReceiveEoL BY <1>22 DEF ReceiveEoL
<1>23. CASE CloseDataChannel BY <1>23 DEF CloseDataChannel
<1>24. CASE Resolve BY <1>24 DEF Resolve
<1>25. ASSUME NEW m \in inFlight, WriteSucceeds(m) PROVE ReleaseInv'
  BY <1>25 DEF WriteSucceeds, WriteReturns
<1>26. ASSUME NEW m \in inFlight, WriteFails(m) PROVE ReleaseInv'
  BY <1>26 DEF WriteFails, WriteReturns
<1>27. ASSUME NEW c \in Closers, CleanupProxy(c) PROVE ReleaseInv'
  BY <1>27 DEF CleanupProxy, ForgetProxy, After
<1>28. ASSUME NEW c \in Closers, CloseConn(c) PROVE ReleaseInv'
  BY <1>28 DEF CloseConn, After
<1>29. ASSUME NEW c \in Closers, CloseStopSigs(c) PROVE ReleaseInv'
  BY <1>29 DEF CloseStopSigs, After
<1>30. CASE UNCHANGED vars BY <1>30 DEF vars
<1>31. CASE ChannelOpens BY <1>31 DEF ChannelOpens
<1> QED
  BY <1>1, <1>2, <1>3, <1>4, <1>5, <1>6, <1>7, <1>8, <1>9, <1>10, <1>11, <1>12,
     <1>13, <1>14, <1>15, <1>16, <1>17, <1>18, <1>19, <1>20, <1>21, <1>22, <1>23,
     <1>24, <1>25, <1>26, <1>27, <1>28, <1>29, <1>30, <1>31
     DEF Next, Environment, Starting, ReadOperation, ReadingLoop, WritingLoop, Callback,
         Supervisor, Closer, Closers

\* Messages move from the data channel to the connection in order.
LEMMA ProxyRelayStep ==
  ASSUME ProxyInv, [Next]_vars
  PROVE  RelayInv'
<1> USE DEF ProxyInv, TypeOK, ReleaseInv, RelayInv, Messages, Closers,
            appVars, dcVars, readVars, writeVars, closeVars
<1>1. CASE AppSends BY <1>1 DEF AppSends
<1>2. CASE AppCloses BY <1>2 DEF AppCloses
<1>3. CASE RemoteSends BY <1>3 DEF RemoteSends
<1>4. CASE RemoteCloses BY <1>4 DEF RemoteCloses
<1>5. CASE NewProxy
  <2>1. setup = "new" /\ writer' = "select"
    BY <1>5 DEF NewProxy
  <2>2. writer = "off" /\ setup' # "new"
    BY <1>5 DEF NewProxy, AfterNewProxy
  <2> QED
    BY <1>5, <2>1, <2>2 DEF NewProxy
<1>6. CASE InsertProxy BY <1>6 DEF InsertProxy
<1>7. CASE ForkSupervisor BY <1>7 DEF ForkSupervisor
<1>8. CASE OnMessage
  <2>1. /\ writingBuf' = Append(writingBuf, delivered + 1) /\ delivered' = delivered + 1
        /\ UNCHANGED <<writer, writeResult, inFlight, broken, written, timedOut>>
    BY <1>8 DEF OnMessage
  <2>2. Len(writingBuf') = Len(writingBuf) + 1
    BY <2>1
  <2>3. ASSUME NEW i \in DOMAIN writingBuf'
        PROVE  writingBuf'[i] = delivered' - Len(writingBuf') + i
    <3>1. i \in 1 .. Len(writingBuf) + 1
      BY <2>1
    <3>2. CASE i = Len(writingBuf) + 1
      BY <2>1, <2>2, <3>2
    <3>3. CASE i \in 1 .. Len(writingBuf)
      BY <2>1, <2>2, <3>3
    <3> QED
      BY <3>1, <3>2, <3>3
  <2>4. Len(writingBuf) \in Nat /\ Len(written) \in Nat
    OBVIOUS
  <2>5. ASSUME ~timedOut, ~broken
        PROVE  delivered' =
                 Len(written) + (IF inFlight = {} THEN 0 ELSE 1) + Len(writingBuf')
    <3>1. delivered = Len(written) + (IF inFlight = {} THEN 0 ELSE 1) + Len(writingBuf)
      BY <2>5
    <3>2. delivered \in Nat
      BY <2>5
    <3>3. CASE inFlight = {}
      BY <2>1, <2>2, <2>4, <3>1, <3>2, <3>3
    <3>4. CASE inFlight # {}
      <4>1. delivered = Len(written) + 1 + Len(writingBuf)
        BY <3>1, <3>4
      <4>2. delivered + 1 = Len(written) + 1 + (Len(writingBuf) + 1)
        BY <2>4, <4>1
      <4> HIDE DEF ProxyInv
      <4> QED
        BY <2>1, <2>2, <3>4, <4>2
    <3> QED
      BY <3>3, <3>4
  <2>6. /\ (setup = "new" => writer = "off")'
        /\ (writeResult = "failed" => broken)'
        /\ (~timedOut => \A i \in DOMAIN written : written[i] = i)'
    BY <1>8 DEF OnMessage
  <2>7. (~timedOut /\ ~broken =>
           /\ inFlight \in {{}, {Len(written) + 1}}
           /\ writer \in {"off", "select"} \/ writeResult = "ok" => inFlight = {})'
    BY <2>1
  <2> HIDE DEF ProxyInv
  <2> QED
    BY <2>1, <2>3, <2>5, <2>6, <2>7
<1>9. CASE ReadData BY <1>9 DEF ReadData
<1>10. CASE ReadFails BY <1>10 DEF ReadFails
<1>11. CASE SendData BY <1>11 DEF SendData
<1>12. CASE ReadDone BY <1>12 DEF ReadDone
<1>13. CASE ReadError BY <1>13 DEF ReadError, TrySendEoL, EoLAccepted
<1>14. CASE StopReader BY <1>14 DEF StopReader
<1>15. CASE TakeMessage
  <2>1. /\ writer = "select" /\ writingBuf # <<>> /\ writingBuf' = Tail(writingBuf)
        /\ writer' = "waiting" /\ writeResult' = "none"
        /\ inFlight' = inFlight \cup {Head(writingBuf)}
        /\ UNCHANGED <<delivered, broken, written, timedOut>>
    BY <1>15 DEF TakeMessage, WriterFree
  <2>2. /\ Len(Tail(writingBuf)) = Len(writingBuf) - 1 /\ Len(writingBuf) \in Nat \ {0}
        /\ \A i \in 1 .. Len(writingBuf) - 1 : Tail(writingBuf)[i] = writingBuf[i + 1]
        /\ DOMAIN Tail(writingBuf) = 1 .. Len(writingBuf) - 1
        /\ Head(writingBuf) = writingBuf[1]
    BY <2>1
  <2>3. Head(writingBuf) = delivered - Len(writingBuf) + 1
    BY <2>2
  <2>4. ASSUME NEW i \in DOMAIN writingBuf'
        PROVE  writingBuf'[i] = delivered' - Len(writingBuf') + i
    <3>1. i \in 1 .. Len(writingBuf) - 1 /\ i + 1 \in DOMAIN writingBuf
      BY <2>1, <2>2
    <3>2. writingBuf[i + 1] = delivered - Len(writingBuf) + (i + 1)
      BY <3>1
    <3> QED
      BY <2>1, <2>2, <3>1, <3>2
  <2>5. ASSUME ~timedOut, ~broken
        PROVE  /\ inFlight' = {Len(written) + 1}
               /\ delivered = Len(written) + 1 + Len(Tail(writingBuf))
    <3>1. inFlight = {} /\ delivered = Len(written) + Len(writingBuf)
      BY <2>1, <2>5
    <3> QED
      BY <2>1, <2>2, <2>3, <3>1
  <2> QED
    BY <1>15, <2>1, <2>4, <2>5 DEF TakeMessage
<1>16. CASE WriteDone BY <1>16 DEF WriteDone
<1>17. CASE WriteError BY <1>17 DEF WriteError, SignalOrStop, TrySendEoL, EoLAccepted
<1>18. CASE WriteTimeout BY <1>18 DEF WriteTimeout, WriteTimerArmed, SignalOrStop, TrySendEoL, EoLAccepted
<1>19. CASE StopWriter BY <1>19 DEF StopWriter
<1>20. CASE OnClose BY <1>20 DEF OnClose
<1>21. CASE CallbackEoL BY <1>21 DEF CallbackEoL, TrySendEoL
<1>22. CASE ReceiveEoL BY <1>22 DEF ReceiveEoL
<1>23. CASE CloseDataChannel BY <1>23 DEF CloseDataChannel
<1>24. CASE Resolve BY <1>24 DEF Resolve
<1>25. ASSUME NEW m \in inFlight, WriteSucceeds(m) PROVE RelayInv'
  <2>1. /\ ~broken /\ broken' = broken /\ written' = Append(written, m)
        /\ inFlight' = inFlight \ {m}
        /\ writeResult' \in {"ok", writeResult} /\ (m = current => writeResult' = "ok")
        /\ UNCHANGED <<setup, writer, writingBuf, delivered, timedOut>>
    BY <1>25 DEF WriteSucceeds, WriteReturns
  <2>2. ~timedOut => /\ inFlight = {Len(written) + 1} /\ m = Len(written) + 1
                     /\ delivered = Len(written) + 1 + Len(writingBuf)
    BY <1>25, <2>1
  <2>3. /\ Len(written') = Len(written) + 1 /\ DOMAIN written' = 1 .. Len(written) + 1
        /\ \A i \in 1 .. Len(written) : written'[i] = written[i]
        /\ written'[Len(written) + 1] = m
    BY <2>1
  <2>4. ~timedOut => \A i \in DOMAIN written' : written'[i] = i
    BY <2>2, <2>3
  <2>5. ~timedOut => /\ inFlight' = {}
                     /\ delivered = Len(written') + Len(writingBuf)
    BY <2>1, <2>2, <2>3
  <2>6. /\ \A i \in DOMAIN writingBuf : writingBuf[i] = delivered - Len(writingBuf) + i
        /\ (setup = "new" => writer = "off") /\ (writeResult = "failed" => broken)
    OBVIOUS
  <2>7. ~timedOut =>
          delivered = Len(written') + (IF inFlight' = {} THEN 0 ELSE 1) + Len(writingBuf)
    BY <2>5
  <2> HIDE DEF ProxyInv, TypeOK, Messages
  <2> QED
    BY <2>1, <2>4, <2>5, <2>6, <2>7
<1>26. ASSUME NEW m \in inFlight, WriteFails(m) PROVE RelayInv'
  BY <1>26 DEF WriteFails, WriteReturns
<1>27. ASSUME NEW c \in Closers, CleanupProxy(c) PROVE RelayInv'
  BY <1>27 DEF CleanupProxy, ForgetProxy, After
<1>28. ASSUME NEW c \in Closers, CloseConn(c) PROVE RelayInv'
  BY <1>28 DEF CloseConn, After
<1>29. ASSUME NEW c \in Closers, CloseStopSigs(c) PROVE RelayInv'
  BY <1>29 DEF CloseStopSigs, After
<1>30. CASE UNCHANGED vars BY <1>30 DEF vars
<1>31. CASE ChannelOpens BY <1>31 DEF ChannelOpens
<1> QED
  BY <1>1, <1>2, <1>3, <1>4, <1>5, <1>6, <1>7, <1>8, <1>9, <1>10, <1>11, <1>12,
     <1>13, <1>14, <1>15, <1>16, <1>17, <1>18, <1>19, <1>20, <1>21, <1>22, <1>23,
     <1>24, <1>25, <1>26, <1>27, <1>28, <1>29, <1>30, <1>31
     DEF Next, Environment, Starting, ReadOperation, ReadingLoop, WritingLoop, Callback,
         Supervisor, Closer, Closers

\* No message is taken twice from writingBuf or written twice.
LEMMA ProxyOnceStep ==
  ASSUME ProxyInv, [Next]_vars
  PROVE  OnceInv'
<1>0. /\ writingBuf \in Seq(Messages) /\ written \in Seq(Messages) /\ delivered \in Nat
      /\ inFlight \in SUBSET Messages /\ Messages \subseteq Nat \ {0}
      /\ \A i \in DOMAIN writingBuf : writingBuf[i] = delivered - Len(writingBuf) + i
  <2>1. delivered \in Nat /\ Messages \subseteq Nat \ {0}
    BY ProxyAssumption DEF ProxyInv, TypeOK, Messages
  <2> QED
    BY <2>1 DEF ProxyInv, TypeOK, RelayInv
<1>1. OnceInv
  BY DEF ProxyInv
<1>2. CASE UNCHANGED <<delivered, writingBuf, inFlight, written>>
  BY <1>1, <1>2 DEF OnceInv, Taken
<1>3. CASE OnMessage
  <2>1. /\ delivered' = delivered + 1 /\ writingBuf' = Append(writingBuf, delivered + 1)
        /\ UNCHANGED <<inFlight, written>>
    BY <1>3 DEF OnMessage, writeVars
  <2>2. Taken' = Taken
    BY <1>0, <2>1 DEF Taken
  <2> QED
    BY <1>1, <2>1, <2>2 DEF OnceInv
<1>4. CASE TakeMessage
  <2>1. /\ writingBuf # <<>> /\ writingBuf' = Tail(writingBuf)
        /\ inFlight' = inFlight \cup {Head(writingBuf)}
        /\ UNCHANGED <<delivered, written>>
    BY <1>4 DEF TakeMessage
  <2>2. Len(writingBuf) \in Nat \ {0} /\ Head(writingBuf) = writingBuf[1] /\ 1 \in DOMAIN writingBuf
    BY <1>0, <2>1
  <2>3. Taken \in Nat /\ Head(writingBuf) = Taken + 1
    <3>1. writingBuf[1] = delivered - Len(writingBuf) + 1 /\ writingBuf[1] \in Nat \ {0}
      BY <1>0, <2>2
    <3> QED
      BY <1>0, <2>2, <3>1 DEF Taken
  <2>4. Taken' = Taken + 1
    BY <1>0, <2>1, <2>2 DEF Taken
  <2>5. ASSUME NEW m \in inFlight' PROVE m <= Taken'
    <3>1. CASE m = Head(writingBuf)
      BY <2>3, <2>4, <3>1
    <3>2. CASE m \in inFlight
      <4>1. m \in Nat /\ m <= Taken
        BY <1>0, <1>1, <3>2 DEF OnceInv
      <4> QED
        BY <2>3, <2>4, <4>1
    <3> QED
      BY <2>1, <3>1, <3>2
  <2>6. ASSUME NEW i \in DOMAIN written
        PROVE  written[i] <= Taken' /\ written[i] \notin inFlight'
    <3>1. written[i] \in Messages
      BY <1>0
    <3>2. written[i] \in Nat /\ written[i] <= Taken /\ written[i] \notin inFlight
      BY <1>0, <1>1, <3>1 DEF OnceInv
    <3>3. written[i] <= Taken + 1 /\ written[i] # Taken + 1
      BY <2>3, <3>2
    <3> QED
      BY <2>1, <2>3, <2>4, <3>2, <3>3
  <2> QED
    BY <2>1, <2>5, <2>6 DEF OnceInv
<1>5. ASSUME NEW m \in inFlight, WriteSucceeds(m) \/ WriteFails(m)
      PROVE  OnceInv'
  <2>1. /\ inFlight' = inFlight \ {m} /\ UNCHANGED <<delivered, writingBuf>>
        /\ written' \in {written, Append(written, m)}
    BY <1>5 DEF WriteSucceeds, WriteFails, WriteReturns
  <2>2. Taken' = Taken
    BY <2>1 DEF Taken
  <2>3. CASE written' = written
    BY <1>1, <2>1, <2>2, <2>3 DEF OnceInv
  <2>4. CASE written' = Append(written, m)
    <3>1. ASSUME NEW i \in DOMAIN written'
          PROVE  written'[i] <= Taken /\ written'[i] \notin inFlight'
      <4>1. i \in DOMAIN written \/ i = Len(written) + 1
        BY <1>0, <2>4
      <4>2. CASE i \in DOMAIN written
        BY <1>0, <1>1, <2>1, <2>4, <4>2 DEF OnceInv
      <4>3. CASE i = Len(written) + 1
        BY <1>0, <1>1, <1>5, <2>1, <2>4, <4>3 DEF OnceInv
      <4> QED
        BY <4>1, <4>2, <4>3
    <3> QED
      BY <1>1, <2>1, <2>2, <3>1 DEF OnceInv
  <2> QED
    BY <2>1, <2>3, <2>4
<1>6. CASE \/ Environment \/ Starting \/ ChannelOpens \/ ReadOperation \/ ReadingLoop
           \/ WriteDone \/ WriteError \/ WriteTimeout \/ StopWriter
           \/ Callback \/ Supervisor \/ UNCHANGED vars
  <2>1. UNCHANGED <<delivered, writingBuf, inFlight, written>>
    BY <1>6 DEF Environment, Starting, ReadOperation, ReadingLoop, Callback, Supervisor,
       Closer, AppSends, AppCloses, RemoteSends, RemoteCloses, NewProxy, InsertProxy,
       ForkSupervisor, ChannelOpens, ReadData, ReadFails, SendData, ReadDone, ReadError,
       StopReader, WriteDone, WriteError, WriteTimeout, SignalOrStop, StopWriter, OnClose,
       CallbackEoL, ReceiveEoL, CloseDataChannel, Resolve, CleanupProxy, CloseConn,
       CloseStopSigs, writeVars, vars
  <2> QED
    BY <1>2, <2>1
<1> QED
  BY <1>3, <1>4, <1>5, <1>6 DEF Next, WritingLoop

\* A Send is early only while the channel is not open, which is at the agent.
LEMMA ProxyOpenStep ==
  ASSUME ProxyInv, [Next]_vars
  PROVE  OpenInv'
<1>1. CASE SendData
  BY <1>1 DEF SendData, ProxyInv, TypeOK, OpenInv
<1>2. CASE ~SendData
  <2>1. UNCHANGED <<side, sentEarly>> /\ (dcOpen => dcOpen')
    BY <1>2 DEF Next, Environment, Starting, ReadOperation, ReadingLoop, WritingLoop, Callback,
       Supervisor, Closer, AppSends, AppCloses, RemoteSends, RemoteCloses, NewProxy,
       InsertProxy, ForkSupervisor, ChannelOpens, OnMessage, ReadData, ReadFails, ReadDone,
       ReadError, StopReader, TakeMessage, WriteSucceeds, WriteFails, WriteReturns,
       WriteDone, WriteError, WriteTimeout, SignalOrStop, StopWriter, OnClose, CallbackEoL,
       ReceiveEoL, CloseDataChannel, Resolve, CleanupProxy, CloseConn, CloseStopSigs,
       dcVars, vars
  <2> QED
    BY <2>1 DEF ProxyInv, OpenInv
<1> QED
  BY <1>1, <1>2

-----------------------------------------------------------------------------
\* The end of the proxy spreads from the application, the peer, a Write that
\* timed out or a Send that came early: each failure, signal and reaction has another one before it.
LEMMA ProxyCauseStep ==
  ASSUME ProxyInv, [Next]_vars
  PROVE  CauseInv'
<1>0. CauseInv /\ pc \in [Closers -> PcStates]
  BY DEF ProxyInv, TypeOK
<1> DEFINE Cause == appClosed \/ remoteClosed \/ timedOut \/ sentEarly
<1>1. Cause => Cause'
  BY DEF Next, Environment, Starting, ReadOperation, ReadingLoop, WritingLoop, Callback,
     Supervisor, Closer, AppSends, AppCloses, RemoteSends, RemoteCloses, NewProxy, InsertProxy,
     ForkSupervisor, ChannelOpens, OnMessage, ReadData, ReadFails, SendData, ReadDone, ReadError, StopReader,
     TakeMessage, WriteSucceeds, WriteFails, WriteReturns, WriteDone, WriteError,
     WriteTimeout, SignalOrStop, StopWriter, OnClose, CallbackEoL, ReceiveEoL,
     CloseDataChannel, Resolve, CleanupProxy, CloseConn, CloseStopSigs, appVars, dcVars,
     writeVars, vars
<1> SUFFICES ASSUME ~Cause, ~Cause' PROVE CauseInv'
  BY <1>1 DEF CauseInv
<1>2. /\ ~eolSig /\ ~connClosed /\ ~dcClosed /\ ~broken
      /\ readOp # "failed" /\ writeResult # "failed"
      /\ \A c \in Closers : pc[c] = "idle"
  BY <1>0 DEF CauseInv
<1>3. ~Callback /\ ~Supervisor
  BY <1>2 DEF Callback, Supervisor, Closer, Closers, OnClose, CleanupProxy, CloseConn,
     CloseStopSigs, CallbackEoL, ReceiveEoL, CloseDataChannel, Resolve
<1>4. UNCHANGED <<connClosed, dcClosed, pc>>
  BY <1>3 DEF Next, Environment, Starting, ReadOperation, ReadingLoop, WritingLoop, AppSends,
     AppCloses, RemoteSends, RemoteCloses, NewProxy, InsertProxy, ForkSupervisor, ChannelOpens, OnMessage,
     ReadData, ReadFails, SendData, ReadDone, ReadError, StopReader, TakeMessage,
     WriteSucceeds, WriteFails, WriteReturns, WriteDone, WriteError, WriteTimeout,
     SignalOrStop, StopWriter, dcVars, closeVars, vars
<1>5. ~eolSig' /\ ~broken' /\ writeResult' # "failed"
  <2>1. CASE Environment \/ Starting \/ ChannelOpens \/ OnMessage \/ ReadOperation \/ UNCHANGED vars
    BY <1>2, <2>1 DEF Environment, Starting, ReadOperation, AppSends, AppCloses, RemoteSends,
       RemoteCloses, NewProxy, InsertProxy, ForkSupervisor, ChannelOpens, OnMessage, ReadData, ReadFails,
       SendData, writeVars, vars
  <2>2. CASE ReadingLoop
    BY <1>2, <2>2 DEF ReadingLoop, ReadDone, ReadError, ReadFailed, StopReader, writeVars
  <2>3. CASE WritingLoop
    BY <1>2, <2>3 DEF WritingLoop, TakeMessage, WriteDone, WriteError, WriteTimeout, StopWriter
  <2>4. ASSUME NEW m \in inFlight, WriteSucceeds(m) \/ WriteFails(m)
        PROVE  ~eolSig' /\ ~broken' /\ writeResult' # "failed"
    BY <1>2, <2>4 DEF WriteSucceeds, WriteFails, WriteReturns
  <2> QED
    BY <1>3, <2>1, <2>2, <2>3, <2>4 DEF Next
<1>6. readOp' # "failed"
  BY <1>2, <1>3 DEF Next, Environment, Starting, ReadOperation, ReadingLoop, WritingLoop,
     AppSends, AppCloses, RemoteSends, RemoteCloses, NewProxy, InsertProxy, ForkSupervisor,
     ChannelOpens, OnMessage, ReadData, ReadFails, SendData, ReadDone, ReadError, StopReader, TakeMessage,
     WriteSucceeds, WriteFails, WriteReturns, WriteDone, WriteError, WriteTimeout,
     SignalOrStop, StopWriter, readVars, vars
<1> QED
  BY <1>2, <1>4, <1>5, <1>6 DEF CauseInv

-----------------------------------------------------------------------------
\* The invariant the properties follow from.
THEOREM ProxyInvariant == Spec => []ProxyInv
<1>1. ProxyInv /\ [Next]_vars => ProxyInv'
  BY ProxyTypeStep, ProxyClosingStep, ProxyReleaseStep, ProxyRelayStep,
     ProxyOnceStep, ProxyOpenStep, ProxyCauseStep DEF ProxyInv
<1> QED
  BY ProxyInitInv, <1>1, PTL DEF Spec

\* The type invariant of the proxy and of the goroutine that ends it.
THEOREM ProxyTypeOK == Spec => []TypeOK
BY ProxyInvariant, PTL DEF ProxyInv

\* Close (proxy.go:66) is called once, whoever cleans up first.
THEOREM ProxyCloseCalledOnce == Spec => []CloseCalledOnce
<1>1. ProxyInv => CloseCalledOnce
  BY DEF ProxyInv, ClosingInv, CloseCalledOnce
<1> QED
  BY ProxyInvariant, <1>1, PTL

\* writingLoop (proxy.go:180) writes what OnMessage pushed in order and without
\* gaps until a Write times out.
THEOREM ProxyWrittenInOrder == Spec => []WrittenInOrder
<1>1. ProxyInv => WrittenInOrder
  BY DEF ProxyInv, RelayInv, WrittenInOrder
<1> QED
  BY ProxyInvariant, <1>1, PTL

\* When the future of startProxy (listener.go:154) is resolved, connection and
\* data channel are closed, the loops are told to stop, the entry is gone.
THEOREM ProxyEndReleasesAll == Spec => []EndReleasesAll
<1>1. ProxyInv => EndReleasesAll
  BY DEF ProxyInv, ReleaseInv, EndReleasesAll, Resolved
<1> QED
  BY ProxyInvariant, <1>1, PTL

\* The loops (proxy.go:161, :204), the timer (:207) and OnClose (listener.go:123)
\* begin the end of a proxy, and none of them but after an end closed, a Write
\* timed out or, at the agent only, a Send came before the channel was open.
THEOREM ProxyNoEndWithoutCause == Spec => []NoEndWithoutCause
<1>1. ProxyInv => NoEndWithoutCause
  BY DEF ProxyInv, OpenInv, CauseInv, NoEndWithoutCause
<1> QED
  BY ProxyInvariant, <1>1, PTL

-----------------------------------------------------------------------------
(* The proxy implements ProxiedConnection.                                 *)

\* A step that changes nothing the abstract specification sees.
LEMMA QuietProxyStep ==
  ASSUME UNCHANGED <<incoming, written, timedOut, dcClosed, connClosed, pc>>
  PROVE  UNCHANGED Connection!vars
BY DEF Connection!vars, Resolved

\* Steps of the goroutines that end the proxy, while the connection stays
\* open, closed or released, whatever else they do.
LEMMA SameStageStep ==
  ASSUME UNCHANGED <<incoming, written, timedOut, dcClosed, connClosed>>,
         Resolved' = Resolved
  PROVE  UNCHANGED Connection!vars
BY DEF Connection!vars

\* Every step of the proxy, of its connection and of its data channel is a
\* step of the abstract specification or one that it does not see.
LEMMA ProxyStepImplements ==
  ASSUME ProxyInv, [Next]_vars
  PROVE  Connection!Next \/ UNCHANGED Connection!vars
<1>0. /\ incoming \in Nat /\ written \in Seq(Messages) /\ pc \in [Closers -> PcStates]
      /\ delivered \in 0 .. incoming /\ writingBuf \in Seq(Messages)
      /\ inFlight \in SUBSET Messages /\ Messages \subseteq Nat \ {0}
      /\ ClosingInv /\ ReleaseInv /\ RelayInv /\ OnceInv
  BY ProxyAssumption DEF ProxyInv, TypeOK, Messages
<1>1. CASE \/ AppSends \/ AppCloses \/ RemoteCloses \/ Starting \/ ChannelOpens \/ OnMessage
           \/ ReadOperation \/ ReadingLoop
           \/ TakeMessage \/ WriteDone \/ WriteError \/ StopWriter \/ UNCHANGED vars
  <2>1. UNCHANGED <<incoming, written, timedOut, dcClosed, connClosed, pc>>
    BY <1>1 DEF AppSends, AppCloses, RemoteCloses, Starting, ChannelOpens, OnMessage,
       ReadOperation, ReadingLoop, NewProxy, InsertProxy, ForkSupervisor, ReadData, ReadFails, SendData,
       ReadDone, ReadError, StopReader, TakeMessage, WriteDone, WriteError, SignalOrStop,
       StopWriter, closeVars, dcVars, writeVars, vars
  <2> QED
    BY <2>1, QuietProxyStep
<1>2. CASE RemoteSends
  <2>1. Connection!Send
    BY <1>2 DEF RemoteSends, Connection!Send, Resolved, writeVars, closeVars
  <2> QED
    BY <2>1 DEF Connection!Next
<1>3. CASE WriteTimeout
  <2>1. Connection!Stall
    BY <1>3 DEF WriteTimeout, SignalOrStop, Connection!Stall, Resolved, dcVars, closeVars
  <2> QED
    BY <2>1 DEF Connection!Next
<1>4. ASSUME NEW m \in inFlight, WriteSucceeds(m)
      PROVE  Connection!Next
  <2>1. /\ ~broken /\ written' = Append(written, m)
        /\ UNCHANGED <<incoming, timedOut, dcClosed, connClosed, pc>>
    BY <1>4 DEF WriteSucceeds, WriteReturns, dcVars, closeVars
  <2>2. ~connClosed /\ ~dcClosed /\ ~Resolved
    BY <1>0, <2>1 DEF ReleaseInv, Resolved
  <2>3. m \in 1 .. incoming
    <3>1. m \in Nat \ {0} /\ m <= Taken
      BY <1>0 DEF OnceInv
    <3>2. Taken \in Int /\ Taken <= incoming
      <4>1. Len(writingBuf) \in Nat /\ delivered \in Nat /\ delivered <= incoming
        BY <1>0
      <4> QED
        BY <1>0, <4>1 DEF Taken
    <3> QED
      BY <1>0, <3>1, <3>2
  <2>4. \A i \in DOMAIN written : written[i] # m
    BY <1>0 DEF OnceInv
  <2>5. ~timedOut => m = Len(written) + 1
    BY <1>0, <2>1 DEF RelayInv
  <2>6. Connection!Receive(m)
    BY <2>1, <2>2, <2>4, <2>5 DEF Connection!Receive, Resolved
  <2> QED
    BY <2>3, <2>6 DEF Connection!Next
<1>5. ASSUME NEW m \in inFlight, WriteFails(m)
      PROVE  UNCHANGED Connection!vars
  <2>1. UNCHANGED <<incoming, written, timedOut, dcClosed, connClosed, pc>>
    BY <1>5 DEF WriteFails, WriteReturns, dcVars, closeVars
  <2> QED
    BY <2>1, QuietProxyStep
<1>6. CASE OnClose \/ CallbackEoL \/ ReceiveEoL
  <2>1. /\ UNCHANGED <<incoming, written, timedOut, dcClosed, connClosed>>
        /\ pc'["supervisor"] = "done" <=> pc["supervisor"] = "done"
    BY <1>0, <1>6 DEF OnClose, CallbackEoL, ReceiveEoL, Closers, dcVars, writeVars
  <2> QED
    BY <2>1, SameStageStep DEF Resolved
<1>7. ASSUME NEW c \in Closers, CleanupProxy(c) \/ CloseStopSigs(c)
      PROVE  UNCHANGED Connection!vars
  <2>1. /\ UNCHANGED <<incoming, written, timedOut, dcClosed, connClosed>>
        /\ pc'["supervisor"] = "done" <=> pc["supervisor"] = "done"
    BY <1>0, <1>7 DEF CleanupProxy, CloseStopSigs, After, Closers, dcVars, writeVars
  <2> QED
    BY <2>1, SameStageStep DEF Resolved
<1>8. ASSUME NEW c \in Closers, CloseConn(c)
      PROVE  Connection!Next
  <2>1. ~stopSent
    BY <1>0, <1>8 DEF CloseConn, ClosingInv
  <2>2. /\ connClosed' = TRUE /\ pc' = [pc EXCEPT ![c] = "signal"]
        /\ UNCHANGED <<incoming, written, timedOut, dcClosed>>
    BY <1>8, <2>1 DEF CloseConn, dcVars
  <2>3. closes = 0 /\ ~dcClosed /\ pc["supervisor"] \notin {"resolve", "done"}
        /\ pc'["supervisor"] # "done"
    <3>1. closes = 0 /\ ~inMap
      BY <1>0, <1>8 DEF CloseConn, ClosingInv
    <3>2. pc["supervisor"] \in {"closeDc", "resolve", "done"} => stopClosed
      BY <1>0 DEF ReleaseInv
    <3>3. ~stopClosed
      BY <1>0, <2>1 DEF ReleaseInv
    <3> QED
      BY <1>0, <2>2, <3>1, <3>2, <3>3 DEF ReleaseInv, Closers
  <2>4. ~connClosed
    BY <1>0, <2>1 DEF ReleaseInv
  <2>5. Connection!CloseConnection
    BY <2>2, <2>3, <2>4 DEF Connection!CloseConnection, Connection!MoveTo, Resolved
  <2> QED
    BY <2>5 DEF Connection!Next
<1>9. CASE CloseDataChannel
  <2>1. /\ dcClosed' = TRUE /\ pc["supervisor"] = "closeDc" /\ pc'["supervisor"] = "resolve"
        /\ UNCHANGED <<incoming, written, timedOut, connClosed>>
    BY <1>0, <1>9 DEF CloseDataChannel, Closers, writeVars
  <2>2. ~dcClosed /\ connClosed
    BY <1>0, <2>1 DEF ReleaseInv
  <2>3. Connection!ReleaseChannel
    BY <2>1, <2>2 DEF Connection!ReleaseChannel, Connection!MoveTo, Resolved
  <2> QED
    BY <2>3 DEF Connection!Next
<1>10. CASE Resolve
  <2>1. /\ pc["supervisor"] = "resolve" /\ pc'["supervisor"] = "done"
        /\ UNCHANGED <<incoming, written, timedOut, dcClosed, connClosed>>
    BY <1>0, <1>10 DEF Resolve, Closers, dcVars, writeVars
  <2>2. dcClosed
    BY <1>0, <2>1 DEF ReleaseInv
  <2>3. Connection!Report
    BY <2>1, <2>2 DEF Connection!Report, Connection!MoveTo, Resolved
  <2> QED
    BY <2>3 DEF Connection!Next
<1> QED
  BY <1>1, <1>2, <1>3, <1>4, <1>5, <1>6, <1>7, <1>8, <1>9, <1>10
     DEF Next, Environment, WritingLoop, Callback, Supervisor, Closer, Closers

\* One proxy, on either side, implements its abstract specification, for any
\* capacity of writingBuf and any number of messages.
THEOREM ProxyImplementsConnection == Spec => ImplementsProxiedConnection
<1>1. Init => Connection!Init
  BY DEF Init, Connection!Init, Resolved, Closers
<1>2. ProxyInv /\ [Next]_vars => [Connection!Next]_(Connection!vars)
  BY ProxyStepImplements
<1> QED
  BY <1>1, <1>2, ProxyInvariant, PTL
     DEF Spec, ImplementsProxiedConnection, Connection!Spec
=============================================================================
