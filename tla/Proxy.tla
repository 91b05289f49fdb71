------------------------------- MODULE Proxy --------------------------------
(***************************************************************************)
(* One proxied TCP connection, src/client/proxy.go, with the goroutine     *)
(* that supervises it on the side of the listener (startProxy and          *)
(* cleanupProxy of listener.go) or of the agent (onDataChannelHandler of   *)
(* agent.go).  The TCP connection and the data channel are external.       *)
(*                                                                         *)
(* What the peer sends is numbered 1, 2, ... and each message is written   *)
(* to the connection by one Write; of what is read from the connection     *)
(* only the amount matters.  The context of the listener is not modelled:  *)
(* nothing calls its ctxCancel.                                            *)
(***************************************************************************)
EXTENDS Naturals, Sequences

CONSTANTS
  MaxMessages, \* bound: messages the data channel receives
  MaxUnread,   \* bound: chunks the connection holds for the proxy
  BufCap       \* capacity of writingBuf, 1024 in the code

ASSUME ProxyAssumption ==
  /\ MaxMessages \in Nat
  /\ MaxUnread \in Nat
  /\ BufCap \in Nat \ {0}

\* The goroutines that may call Close: the OnClose callback of the listener,
\* and the one that waits for the end of life.
Closers == {"callback", "supervisor"}

VARIABLES
  side,       \* "listener" or "agent"
  setup,      \* program counter of the function that starts the proxy
  unread,     \* chunks in the connection the proxy has not read
  appClosed,  \* the application closed its end of the connection
  connClosed, \* the proxy closed its end
  incoming,   \* messages that reached the data channel
  remoteClosed, \* the peer closed the data channel
  dcOpen,     \* it is open at this side: Send is possible, handlers run
  dcClosed,   \* this side called its Close
  sentEarly,  \* history: a Send came before it was open
  delivered,  \* messages OnMessage pushed to writingBuf
  writingBuf, \* the messages in it
  reader,     \* readingLoop: "off", "select" or "stopped"
  readOp,     \* the operation its future stands for
  writer,     \* writingLoop: "off", "select", "waiting" or "stopped"
  current,    \* the message whose future the writer waits for
  writeResult, \* the value of that future
  inFlight,   \* messages whose Write has not returned
  broken,     \* the connection was closed or a Write failed: every Write fails
  written,    \* history: messages written to the connection, in order
  timedOut,   \* history: the writer gave up on some Write
  eolSig,     \* an end-of-life signal is buffered
  inMap,      \* the listener's proxies maps the id to this proxy
  mutex,      \* the holder of proxiesMutex, or "free"
  pc,         \* program counters of the callback and of the supervisor
  stopSent,   \* the buffered channel stopped is full
  stopClosed, \* stopSigRead and stopSigWrite are closed
  closes      \* history: number of calls of Close

appVars == <<unread, appClosed>>
dcVars == <<incoming, remoteClosed, dcOpen, dcClosed, sentEarly>>
readVars == <<reader, readOp>>
writeVars == <<writer, current, writeResult, inFlight, broken, written, timedOut>>
closeVars == <<inMap, mutex, pc, stopSent, stopClosed, closes>>
vars == <<side, setup, appVars, connClosed, dcVars, delivered, writingBuf, readVars,
          writeVars, eolSig, closeVars>>

Messages == 1 .. MaxMessages

PcStates == {"idle", "lock", "close", "signal", "eol", "closeDc", "resolve", "done"}

TypeOK ==
  /\ side \in {"listener", "agent"}
  /\ setup \in {"new", "insert", "fork", "done"}
  /\ unread \in 0 .. MaxUnread
  /\ incoming \in 0 .. MaxMessages
  /\ delivered \in 0 .. incoming
  /\ appClosed \in BOOLEAN /\ connClosed \in BOOLEAN
  /\ remoteClosed \in BOOLEAN /\ dcOpen \in BOOLEAN /\ dcClosed \in BOOLEAN
  /\ sentEarly \in BOOLEAN
  /\ writingBuf \in Seq(Messages) /\ Len(writingBuf) <= BufCap
  /\ reader \in {"off", "select", "stopped"}
  /\ readOp \in {"none", "reading", "sending", "ok", "failed"}
  /\ writer \in {"off", "select", "waiting", "stopped"}
  /\ current \in Messages \cup {0}
  /\ writeResult \in {"none", "ok", "failed"}
  /\ inFlight \in SUBSET Messages
  /\ broken \in BOOLEAN /\ timedOut \in BOOLEAN
  /\ written \in Seq(Messages)
  /\ eolSig \in BOOLEAN /\ inMap \in BOOLEAN
  /\ mutex \in Closers \cup {"free"}
  /\ pc \in [Closers -> PcStates]
  /\ stopSent \in BOOLEAN /\ stopClosed \in BOOLEAN
  /\ closes \in Nat

OpenAtStart_neither == FALSE

\* The listener starts its proxy from OnOpen; the handler of the agent starts it
\* before the library opens the channel.
OpenAtStart == side = "listener"

Init ==
  /\ side \in {"listener", "agent"}
  /\ setup = "new"
  /\ unread = 0 /\ appClosed = FALSE /\ connClosed = FALSE
  /\ incoming = 0 /\ remoteClosed = FALSE
  /\ dcOpen = OpenAtStart /\ dcClosed = FALSE /\ sentEarly = FALSE
  /\ delivered = 0 /\ writingBuf = <<>>
  /\ reader = "off" /\ readOp = "none"
  /\ writer = "off" /\ current = 0 /\ writeResult = "none"
  /\ inFlight = {} /\ broken = FALSE /\ written = <<>> /\ timedOut = FALSE
  /\ eolSig = FALSE
  /\ inMap = FALSE /\ mutex = "free"
  /\ pc = [c \in Closers |-> "idle"]
  /\ stopSent = FALSE /\ stopClosed = FALSE /\ closes = 0

-----------------------------------------------------------------------------
(* Environment: the application at the other end of the connection, and    *)
(* the peer at the other end of the data channel.                          *)

AppSends ==
  /\ ~appClosed /\ unread < MaxUnread
  /\ unread' = unread + 1
  /\ UNCHANGED <<side, setup, appClosed, connClosed, dcVars, delivered, writingBuf,
                 readVars, writeVars, eolSig, closeVars>>

AppCloses ==
  /\ ~appClosed
  /\ appClosed' = TRUE
  /\ UNCHANGED <<side, setup, unread, connClosed, dcVars, delivered, writingBuf,
                 readVars, writeVars, eolSig, closeVars>>

RemoteSends ==
  /\ ~remoteClosed /\ incoming < MaxMessages
  /\ incoming' = incoming + 1
  /\ UNCHANGED <<side, setup, appVars, connClosed, remoteClosed, dcOpen, dcClosed,
                 sentEarly, delivered, writingBuf, readVars, writeVars, eolSig, closeVars>>

RemoteCloses ==
  /\ ~remoteClosed
  /\ remoteClosed' = TRUE
  /\ UNCHANGED <<side, setup, appVars, connClosed, incoming, dcOpen, dcClosed, sentEarly,
                 delivered, writingBuf, readVars, writeVars, eolSig, closeVars>>

-----------------------------------------------------------------------------
(* Starting a proxy.  The listener registers OnClose first, when the data  *)
(* channel opens; the agent registers it last, while its loops run but     *)
(* before the channel opens and runs any handler.                          *)

AfterNewProxy_noInsert == "fork"

\* Only the listener keeps its proxies in a map.
AfterNewProxy == IF side = "listener" THEN "insert" ELSE "fork"

NewProxy ==
  /\ setup = "new"
  /\ setup' = AfterNewProxy
  /\ reader' = "select" /\ readOp' = "reading" /\ writer' = "select"
  /\ UNCHANGED <<side, appVars, connClosed, dcVars, delivered, writingBuf, current,
                 writeResult, inFlight, broken, written, timedOut, eolSig, closeVars>>

InsertProxy ==
  /\ setup = "insert" /\ mutex = "free"
  /\ setup' = "fork" /\ inMap' = TRUE
  /\ UNCHANGED <<side, appVars, connClosed, dcVars, delivered, writingBuf, readVars,
                 writeVars, eolSig, mutex, pc, stopSent, stopClosed, closes>>

ForkSupervisor ==
  /\ setup = "fork"
  /\ setup' = "done"
  /\ UNCHANGED <<side, appVars, connClosed, dcVars, delivered, writingBuf, readVars,
                 writeVars, eolSig, closeVars>>

\* The library opens the agent's channel when the handler has returned.  A Close
\* that came before may be lost: then the channel opens all the same.
ChannelOpens ==
  /\ setup = "done" /\ ~dcOpen
  /\ dcOpen' = TRUE
  /\ UNCHANGED <<side, setup, appVars, connClosed, incoming, remoteClosed, dcClosed,
                 sentEarly, delivered, writingBuf, readVars, writeVars, eolSig, closeVars>>

BufHasRoom_offByOne == Len(writingBuf) <= BufCap

BufHasRoom == Len(writingBuf) < BufCap

\* OnMessage: the data channel's only reading goroutine waits for room.  It may
\* still hand over messages when this side has called Close.
OnMessage ==
  /\ setup # "new" /\ dcOpen
  /\ delivered < incoming /\ BufHasRoom
  /\ delivered' = delivered + 1
  /\ writingBuf' = Append(writingBuf, delivered + 1)
  /\ UNCHANGED <<side, setup, appVars, connClosed, dcVars, readVars, writeVars, eolSig,
                 closeVars>>

-----------------------------------------------------------------------------
(* trySendEoL: a signal that finds the buffer full is dropped.             *)

TrySendEoL_lost == UNCHANGED eolSig

TrySendEoL == eolSig' = TRUE

EoLAccepted == ~eolSig

-----------------------------------------------------------------------------
(* readingLoop.                                                            *)

\* conn.Read returns data, which is sent next.
ReadData ==
  /\ readOp = "reading" /\ ~connClosed /\ unread > 0
  /\ unread' = unread - 1 /\ readOp' = "sending"
  /\ UNCHANGED <<side, setup, appClosed, connClosed, dcVars, delivered, writingBuf,
                 reader, writeVars, eolSig, closeVars>>

\* conn.Read returns EOF or an error.
ReadFails ==
  /\ readOp = "reading"
  /\ connClosed \/ (appClosed /\ unread = 0)
  /\ readOp' = "failed"
  /\ UNCHANGED <<side, setup, appVars, connClosed, dcVars, delivered, writingBuf, reader,
                 writeVars, eolSig, closeVars>>

\* dataChannel.Send buffers the data, or finds the channel not open yet, or
\* closed.
SendData ==
  /\ readOp = "sending"
  /\ \/ dcOpen /\ readOp' = "ok" /\ UNCHANGED sentEarly
     \/ ~dcOpen /\ readOp' = "failed" /\ sentEarly' = TRUE
     \/ dcOpen /\ (dcClosed \/ remoteClosed) /\ readOp' = "failed" /\ UNCHANGED sentEarly
  /\ UNCHANGED <<side, setup, appVars, connClosed, incoming, remoteClosed, dcOpen,
                 dcClosed, delivered, writingBuf, reader, writeVars, eolSig, closeVars>>

\* The next operation starts when the loop comes back to its select.
ReadDone ==
  /\ reader = "select" /\ readOp = "ok"
  /\ readOp' = "reading"
  /\ UNCHANGED <<side, setup, appVars, connClosed, dcVars, delivered, writingBuf, reader,
                 writeVars, eolSig, closeVars>>

\* Only an error of Read or Send is the end of the proxy.
ReadFailed == readOp = "failed"

\* The loop ends only if another end-of-life signal is still buffered.
ReadError ==
  /\ reader = "select" /\ ReadFailed
  /\ IF EoLAccepted THEN readOp' = "reading" /\ UNCHANGED reader
                    ELSE reader' = "stopped" /\ readOp' = "none"
  /\ TrySendEoL
  /\ UNCHANGED <<side, setup, appVars, connClosed, dcVars, delivered, writingBuf,
                 writeVars, closeVars>>

StopReader ==
  /\ reader = "select" /\ stopClosed
  /\ reader' = "stopped"
  /\ UNCHANGED <<side, setup, appVars, connClosed, dcVars, delivered, writingBuf, readOp,
                 writeVars, eolSig, closeVars>>

-----------------------------------------------------------------------------
(* writingLoop.                                                            *)

WriterFree_notAwaiting == writer \in {"select", "waiting"}

\* The loop awaits a Write before it takes the next message.
WriterFree == writer = "select"

\* Each message is written by a goroutine of its own.
TakeMessage ==
  /\ WriterFree /\ writingBuf # <<>>
  /\ writer' = "waiting" /\ writeResult' = "none"
  /\ current' = Head(writingBuf)
  /\ inFlight' = inFlight \cup {Head(writingBuf)}
  /\ writingBuf' = Tail(writingBuf)
  /\ UNCHANGED <<side, setup, appVars, connClosed, dcVars, delivered, readVars, broken,
                 written, timedOut, eolSig, closeVars>>

\* conn.Write(m) returns r.  Of several in flight any may be the next to return.
WriteReturns(m, r) ==
  /\ m \in inFlight
  /\ inFlight' = inFlight \ {m}
  /\ writeResult' = IF m = current THEN r ELSE writeResult
  /\ UNCHANGED <<side, setup, appVars, connClosed, dcVars, delivered, writingBuf, readVars,
                 writer, current, timedOut, eolSig, closeVars>>

WriteSucceeds(m) ==
  /\ ~broken
  /\ WriteReturns(m, "ok")
  /\ written' = Append(written, m)
  /\ UNCHANGED broken

WriteFails(m) ==
  /\ appClosed \/ broken
  /\ WriteReturns(m, "failed")
  /\ broken' = TRUE
  /\ UNCHANGED written

\* The loop comes back to its select, or ends if it cannot send the signal.
SignalOrStop ==
  /\ writer' = IF EoLAccepted THEN "select" ELSE "stopped"
  /\ TrySendEoL
  /\ current' = 0 /\ writeResult' = "none"
  /\ UNCHANGED <<side, setup, appVars, connClosed, dcVars, delivered, writingBuf, readVars,
                 inFlight, broken, written, closeVars>>

WriteDone ==
  /\ writer = "waiting" /\ writeResult = "ok"
  /\ writer' = "select" /\ current' = 0 /\ writeResult' = "none"
  /\ UNCHANGED <<side, setup, appVars, connClosed, dcVars, delivered, writingBuf, readVars,
                 inFlight, broken, written, timedOut, eolSig, closeVars>>

WriteError ==
  /\ writer = "waiting" /\ writeResult = "failed"
  /\ SignalOrStop
  /\ UNCHANGED timedOut

WriteTimerArmed_never == FALSE

\* time.After(100 ms) runs while the loop awaits the Write.
WriteTimerArmed == writer = "waiting"

\* The Write stays in flight.
WriteTimeout ==
  /\ WriteTimerArmed
  /\ SignalOrStop
  /\ timedOut' = TRUE

StopWriter ==
  /\ writer \in {"select", "waiting"} /\ stopClosed
  /\ writer' = "stopped" /\ current' = 0 /\ writeResult' = "none"
  /\ UNCHANGED <<side, setup, appVars, connClosed, dcVars, delivered, writingBuf, readVars,
                 inFlight, broken, written, timedOut, eolSig, closeVars>>

-----------------------------------------------------------------------------
(* End of life.  On the listener both closers go through cleanupProxy; on  *)
(* the agent only the supervisor closes.                                   *)

After_keepsChannel(c) == IF c = "callback" THEN "eol" ELSE "resolve"

\* What a closer does next.
After(c) == IF c = "callback" THEN "eol" ELSE "closeDc"

\* OnClose runs when the messages before the end of the channel are handled.
OnClose ==
  /\ pc["callback"] = "idle"
  /\ dcOpen
  /\ dcClosed \/ (remoteClosed /\ delivered = incoming)
  /\ pc' = [pc EXCEPT !["callback"] = IF side = "listener" THEN "lock" ELSE "eol"]
  /\ UNCHANGED <<side, setup, appVars, connClosed, dcVars, delivered, writingBuf, readVars,
                 writeVars, eolSig, inMap, mutex, stopSent, stopClosed, closes>>

\* errL := <-eolSig
ReceiveEoL ==
  /\ pc["supervisor"] = "idle" /\ setup = "done" /\ eolSig
  /\ eolSig' = FALSE
  /\ pc' = [pc EXCEPT !["supervisor"] = IF side = "listener" THEN "lock" ELSE "close"]
  /\ UNCHANGED <<side, setup, appVars, connClosed, dcVars, delivered, writingBuf, readVars,
                 writeVars, inMap, mutex, stopSent, stopClosed, closes>>

ForgetProxy_kept == UNCHANGED inMap

ForgetProxy == inMap' = FALSE

\* cleanupProxy holds the mutex until Close returns.
CleanupProxy(c) ==
  /\ pc[c] = "lock" /\ mutex = "free"
  /\ IF inMap
     THEN ForgetProxy /\ mutex' = c /\ pc' = [pc EXCEPT ![c] = "close"]
     ELSE pc' = [pc EXCEPT ![c] = After(c)] /\ UNCHANGED <<inMap, mutex>>
  /\ UNCHANGED <<side, setup, appVars, connClosed, dcVars, delivered, writingBuf, readVars,
                 writeVars, eolSig, stopSent, stopClosed, closes>>

\* Close gives up if it was called before; the deferred Unlock follows.
CloseConn(c) ==
  /\ pc[c] = "close"
  /\ closes' = closes + 1
  /\ stopSent' = TRUE
  /\ IF stopSent
     THEN /\ pc' = [pc EXCEPT ![c] = After(c)] /\ mutex' = "free"
          /\ UNCHANGED <<connClosed, broken>>
     ELSE /\ pc' = [pc EXCEPT ![c] = "signal"]
          /\ connClosed' = TRUE /\ broken' = TRUE
          /\ UNCHANGED mutex
  /\ UNCHANGED <<side, setup, appVars, dcVars, delivered, writingBuf, readVars, writer,
                 current, writeResult, inFlight, written, timedOut, eolSig, inMap,
                 stopClosed>>

\* A loop that is sent the stop signal and one that finds the channel closed
\* both end, so the send and the close of each channel are one step.
CloseStopSigs(c) ==
  /\ pc[c] = "signal"
  /\ stopClosed' = TRUE /\ mutex' = "free"
  /\ pc' = [pc EXCEPT ![c] = After(c)]
  /\ UNCHANGED <<side, setup, appVars, connClosed, dcVars, delivered, writingBuf, readVars,
                 writeVars, eolSig, inMap, stopSent, closes>>

CallbackEoL ==
  /\ pc["callback"] = "eol"
  /\ TrySendEoL
  /\ pc' = [pc EXCEPT !["callback"] = "done"]
  /\ UNCHANGED <<side, setup, appVars, connClosed, dcVars, delivered, writingBuf, readVars,
                 writeVars, inMap, mutex, stopSent, stopClosed, closes>>

CloseDataChannel ==
  /\ pc["supervisor"] = "closeDc"
  /\ dcClosed' = TRUE
  /\ pc' = [pc EXCEPT !["supervisor"] = "resolve"]
  /\ UNCHANGED <<side, setup, appVars, connClosed, incoming, remoteClosed, dcOpen,
                 sentEarly, delivered, writingBuf, readVars, writeVars, eolSig, inMap,
                 mutex, stopSent, stopClosed, closes>>

\* closed.Resolve(err); the supervisor of the agent just ends.
Resolve ==
  /\ pc["supervisor"] = "resolve"
  /\ pc' = [pc EXCEPT !["supervisor"] = "done"]
  /\ UNCHANGED <<side, setup, appVars, connClosed, dcVars, delivered, writingBuf, readVars,
                 writeVars, eolSig, inMap, mutex, stopSent, stopClosed, closes>>

-----------------------------------------------------------------------------
Environment == AppSends \/ AppCloses \/ RemoteSends \/ RemoteCloses

Starting == NewProxy \/ InsertProxy \/ ForkSupervisor

ReadOperation == ReadData \/ ReadFails \/ SendData

ReadingLoop == ReadDone \/ ReadError \/ StopReader

WritingLoop == TakeMessage \/ WriteDone \/ WriteError \/ WriteTimeout \/ StopWriter

Closer(c) == CleanupProxy(c) \/ CloseConn(c) \/ CloseStopSigs(c)

Callback == OnClose \/ Closer("callback") \/ CallbackEoL

Supervisor == ReceiveEoL \/ Closer("supervisor") \/ CloseDataChannel \/ Resolve

Next ==
  \/ Environment \/ Starting \/ ChannelOpens \/ OnMessage
  \/ ReadOperation \/ ReadingLoop \/ WritingLoop
  \/ \E m \in inFlight : WriteSucceeds(m) \/ WriteFails(m)
  \/ Callback \/ Supervisor

Spec == Init /\ [][Next]_vars

\* Goroutines that can run do run, timers expire, an operation on a closed
\* connection fails, and the library opens a channel and hands over its messages
\* while this side has not called Close.  Nothing is assumed of the application and of the peer; in
\* particular a Write may block for ever while the connection is open.
FairSpec ==
  /\ Spec
  /\ WF_vars(Starting)
  /\ WF_vars(~dcClosed /\ ChannelOpens) /\ WF_vars(~dcClosed /\ OnMessage)
  /\ WF_vars(ReadOperation) /\ WF_vars(ReadingLoop)
  /\ WF_vars(TakeMessage) /\ WF_vars(WriteDone \/ WriteError \/ WriteTimeout)
  /\ WF_vars(StopReader) /\ WF_vars(StopWriter)
  /\ WF_vars(Callback) /\ WF_vars(Supervisor)

-----------------------------------------------------------------------------
(* Properties.                                                             *)

\* The future of startProxy is resolved; on the agent, the supervisor is done.
Resolved == pc["supervisor"] = "done"

\* Close is called once (proxy.go:66), though the callback, the supervisor and
\* the function that inserts the proxy in the map run in any order.
CloseCalledOnce == closes <= 1

\* While no Write timed out, the connection gets the messages of the peer in
\* order and without gaps, through writingBuf and a goroutine per Write.
WrittenInOrder == ~timedOut => \A i \in DOMAIN written : written[i] = i

\* Whoever is told that the proxy ended finds nothing of it left: the connection
\* closed and the data channel's Close called, both loops told to stop, the map
\* entry gone (listener.go:150-154, agent.go:281-283).
EndReleasesAll == Resolved => connClosed /\ dcClosed /\ stopClosed /\ ~inMap

\* While the application and the peer keep their ends open, two things close the
\* connection or the channel: a Write that took too long (proxy.go:207) and, at
\* the agent only, a Send before the channel was open (agent.go:269, proxy.go:144;
\* the listener waits for OnOpen, listener.go:102).  No signal of the loops, the
\* callback or the supervisor arises from anything else.
NoEndWithoutCause ==
  connClosed \/ dcClosed =>
    appClosed \/ remoteClosed \/ timedOut \/ (side = "agent" /\ sentEarly)

\* The proxy implements its abstract specification on both sides: messages
\* arrive once and in order, and the end comes in the order connection, data
\* channel, report (listener.go:150-154, agent.go:281-283).
Connection ==
  INSTANCE ProxiedConnection WITH
    sent <- incoming,
    got <- written,
    stalled <- timedOut,
    stage <- CASE Resolved -> "reported"
               [] dcClosed /\ ~Resolved -> "released"
               [] connClosed /\ ~dcClosed /\ ~Resolved -> "closed"
               [] OTHER -> "open"

ImplementsProxiedConnection == Connection!Spec

\* When either end closes, the proxy ends and both its loops do, whichever
\* signals were dropped and whether or not a Write blocks.
EitherEndTearsDown ==
  appClosed \/ remoteClosed ~> Resolved /\ reader = "stopped" /\ writer = "stopped"

\* A message waits in the data channel or in writingBuf only for a while or
\* until the proxy has ended: an application that reads nothing cannot block
\* the channel.
MessagesMoveOn ==
  delivered < incoming \/ writingBuf # <<>>
    ~> (delivered = incoming /\ writingBuf = <<>>) \/ Resolved

-----------------------------------------------------------------------------
(* The inductive invariants behind the safety properties.                  *)

\* Who is in Close: on the listener the holder of the mutex, which has taken
\* the proxy out of the map; on the agent only the supervisor.
ClosingInv ==
  /\ \A c \in Closers : pc[c] \in {"close", "signal"} =>
       IF side = "listener" THEN mutex = c ELSE c = "supervisor"
  /\ mutex # "free" => pc[mutex] \in {"close", "signal"}
  /\ \A c \in Closers : pc[c] = "close" => closes = 0 /\ ~inMap
  /\ \A c \in Closers : pc[c] = "signal" => connClosed /\ ~inMap
  /\ inMap => closes = 0
  /\ setup \in {"new", "insert"} => closes = 0 /\ ~inMap /\ mutex = "free"
  /\ stopSent => closes > 0
  /\ closes <= 1
  /\ side = "agent" =>
       /\ mutex = "free" /\ ~inMap /\ setup # "insert"
       /\ pc["callback"] \in {"idle", "eol", "done"}
       /\ pc["supervisor"] # "lock"
       /\ pc["supervisor"] = "idle" => closes = 0

\* What has been released: a proxy that was in the map and is not any more was
\* closed, unless its closer still holds the mutex.
ReleaseInv ==
  /\ stopClosed => connClosed
  /\ connClosed => broken /\ stopSent
  /\ pc["supervisor"] # "idle" => setup = "done"
  /\ side = "listener" /\ setup \in {"fork", "done"} /\ ~inMap /\ mutex = "free" =>
       stopClosed
  /\ pc["supervisor"] \in {"closeDc", "resolve", "done"} => stopClosed /\ ~inMap
  /\ pc["supervisor"] \in {"resolve", "done"} <=> dcClosed

\* Where the messages are: the last ones delivered are in writingBuf and,
\* while no Write failed or timed out, the one in flight is the next to be
\* written and there are no others.
RelayInv ==
  /\ \A i \in DOMAIN writingBuf : writingBuf[i] = delivered - Len(writingBuf) + i
  /\ setup = "new" => writer = "off"
  /\ writeResult = "failed" => broken
  /\ ~timedOut => \A i \in DOMAIN written : written[i] = i
  /\ ~timedOut /\ ~broken =>
       /\ inFlight \in {{}, {Len(written) + 1}}
       /\ delivered =
            Len(written) + (IF inFlight = {} THEN 0 ELSE 1) + Len(writingBuf)
       /\ writer \in {"off", "select"} \/ writeResult = "ok" => inFlight = {}

\* A message is in writingBuf, in a Write or written, and leaves each for good.
Taken == delivered - Len(writingBuf)

OnceInv ==
  /\ \A m \in inFlight : m <= Taken
  /\ \A i \in DOMAIN written : written[i] <= Taken /\ written[i] \notin inFlight

\* The listener's channel is open from the start, so only the agent sends early.
OpenInv ==
  /\ side = "listener" => dcOpen
  /\ sentEarly => side = "agent"

\* Until there is a cause, nothing failed, signals the end or reacts to it.
CauseInv ==
  \/ appClosed \/ remoteClosed \/ timedOut \/ sentEarly
  \/ /\ ~eolSig /\ ~connClosed /\ ~dcClosed /\ ~broken
     /\ readOp # "failed" /\ writeResult # "failed"
     /\ \A c \in Closers : pc[c] = "idle"

ProxyInv ==
  TypeOK /\ ClosingInv /\ ReleaseInv /\ RelayInv /\ OnceInv /\ OpenInv /\ CauseInv

-----------------------------------------------------------------------------
(* What the README says and the code does not do.                          *)

\* README.md:3, the proxy can be used for any TCP based protocol: what the peer
\* sent before it closed reaches an application that keeps its end open.
PeerDataReachesApp ==
  Resolved /\ ~appClosed /\ ~timedOut /\ ~sentEarly => Len(written) = incoming

=============================================================================
