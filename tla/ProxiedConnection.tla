------------------------- MODULE ProxiedConnection --------------------------
(***************************************************************************)
(* What one proxy promises (src/client/proxy.go and the goroutine that     *)
(* supervises it): the connection receives the peer's messages each at     *)
(* most once, in order and without gaps until some Write stalls; then the  *)
(* connection is closed, after it the data channel, and only then is the   *)
(* end reported.  Proxy implements this, on the listener's side and on the *)
(* agent's.                                                                *)
(***************************************************************************)
EXTENDS Naturals, Sequences

VARIABLES
  sent,    \* number of messages the peer sent
  got,     \* messages the connection received
  stalled, \* a Write took too long and was abandoned
  stage    \* progress of the end: "open", "closed", "released", "reported"

vars == <<sent, got, stalled, stage>>

Init ==
  /\ sent = 0
  /\ got = <<>>
  /\ stalled = FALSE
  /\ stage = "open"

Send ==
  /\ sent' = sent + 1
  /\ UNCHANGED <<got, stalled, stage>>

\* Nothing reaches a connection that is closed.
Receive(m) ==
  /\ stage = "open"
  /\ \A i \in DOMAIN got : got[i] # m
  /\ ~stalled => m = Len(got) + 1
  /\ got' = Append(got, m)
  /\ UNCHANGED <<sent, stalled, stage>>

Stall ==
  /\ stalled' = TRUE
  /\ UNCHANGED <<sent, got, stage>>

MoveTo(from, to) ==
  /\ stage = from
  /\ stage' = to
  /\ UNCHANGED <<sent, got, stalled>>

CloseConnection == MoveTo("open", "closed")
ReleaseChannel == MoveTo("closed", "released")
Report == MoveTo("released", "reported")

Next ==
  \/ Send \/ Stall
  \/ \E m \in 1 .. sent : Receive(m)
  \/ CloseConnection \/ ReleaseChannel \/ Report

Spec == Init /\ [][Next]_vars
=============================================================================
