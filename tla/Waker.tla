------------------------------- MODULE Waker -------------------------------
(***************************************************************************)
(* src/waker.rs: a shared eventfd used as a flag.  Both wakeup and finish  *)
(* turn WouldBlock into Ok, so neither ever fails towards its caller and   *)
(* the caller cannot tell whether the flag changed.                        *)
(***************************************************************************)
EXTENDS EventFd, Ready

Wakeup == Write(1)

Finish == Read

\* Only the three exact values readable, writable and empty have an effect:
\* any other Ready value leaves the eventfd alone.
SetReadiness(ready) ==
  /\ ready \in {Readable, Writable} => Wakeup
  /\ ready = Empty => Finish
  /\ ready \notin {Readable, Writable, Empty} => UNCHANGED count
=============================================================================
