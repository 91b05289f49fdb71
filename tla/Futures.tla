------------------------------ MODULE Futures -------------------------------
(***************************************************************************)
(* The futures of src/utils/async/future.go: a channel that holds one      *)
(* value.  A future is the value Unresolved or what it was resolved with;  *)
(* it is resolved once and awaited by one goroutine, as its callers do.    *)
(***************************************************************************)
EXTENDS Naturals, Sequences

Unresolved == "unresolved"

NewFuture == Unresolved

\* ch <- v goes through at once only while the one place is free.
CanResolve(f) == f = Unresolved

\* <-f.ch: Await and Ch go through once there is a value.
Ready(f) == f # Unresolved

\* A function run in a goroutine of its own resolves its future by returning.
Async(returned, v) == IF returned THEN v ELSE Unresolved

\* A future that has its value.
Ret(v) == v

\* The select of AwaitUnordered evaluates <-f.ch before it looks at its cases:
\* it waits for the futures in the order they are passed, and returns their
\* results in that order once the last one has come.
AwaitUnordered(fs) ==
  IF \A i \in DOMAIN fs : Ready(fs[i]) THEN fs ELSE <<>>
=============================================================================
