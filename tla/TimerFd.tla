------------------------------- MODULE TimerFd -------------------------------
(***************************************************************************)
(* src/sys/timerfd.rs: create, settime, gettime and read, over an external *)
(* model of timerfd(2).                                                    *)
(*                                                                         *)
(* A relative timer runs on monotonic time, and so does an absolute one of *)
(* a clock that nobody sets; on a real-time clock it runs on real time,    *)
(* which an administrator may set forward.  A value of zero disarms.  The  *)
(* expirations that no read has taken are counted; settime forgets them.   *)
(* Setting the clock cancels its timers set with ABSTIME and CANCEL_ON_SET:*)
(* the next read fails with ECANCELED and may leave it stopped, and        *)
(* settime with the same flags fails too, although it sets the timer.      *)
(***************************************************************************)
EXTENDS Naturals

CONSTANTS
  Durations,
  MaxSec,       \* the longest Duration that time_t holds
  MaxMono,      \* bound of the monotonic clock
  MaxShift,     \* bound of how far the real clock is set forward
  NotAsked      \* the timer was never set, or was cancelled

ASSUME TimerFdAssumption ==
  /\ Durations \subseteq Nat
  /\ {MaxSec, MaxMono, MaxShift} \subseteq Nat

VARIABLES
  clockId,      \* given to create
  mono, shift,  \* monotonic time, and real time less monotonic time
  timer,        \* the kernel's timer: next expiration (0: none), interval, clock
  ticks,        \* expirations no read has taken
  cancelable,   \* set with ABSTIME and CANCEL_ON_SET
  cancelled,    \* the clock was set since
  asked,        \* what the caller of settime wanted, and when
  reported,     \* expirations read since
  clockSet      \* the clock was set since

clockVars == <<clockId, mono, shift>>
timerVars == <<clockVars, timer, ticks, cancelable, cancelled, asked, reported, clockSet>>

\* Suspending the machine, which tells the last two and the alarms from the
\* others, is left out.
Clock == {"Realtime", "RealtimeAlarm", "Monotonic", "Boottime", "BoottimeAlarm"}

SetTimeFlags == {"Default", "Abstime", "TimerCancelOnSet"}

IsReal == clockId \in {"Realtime", "RealtimeAlarm"}
At(clock, m, s) == IF clock = "mono" THEN m ELSE m + s
Now == At(timer.clock, mono, shift)

Init ==
  /\ clockId \in Clock
  /\ mono = 0 /\ shift = 0
  /\ timer = [due |-> 0, interval |-> 0, clock |-> "mono"]
  /\ ticks = 0
  /\ cancelable = FALSE /\ cancelled = FALSE
  /\ asked = NotAsked /\ reported = 0 /\ clockSet = FALSE

-----------------------------------------------------------------------------
(* The kernel.                                                             *)

Expirations(t, now) ==
  IF t.due = 0 \/ now < t.due THEN 0
  ELSE IF t.interval = 0 THEN 1 ELSE 1 + (now - t.due) \div t.interval

Advanced(t, now) ==
  LET n == Expirations(t, now)
  IN  [t EXCEPT !.due = IF n = 0 THEN @ ELSE IF t.interval = 0 THEN 0 ELSE @ + n * t.interval]

\* The clocks are at m and s, and timer t has n expirations from before.
Run(t, n, m, s) ==
  LET now == At(t.clock, m, s)
  IN  /\ ticks' = n + Expirations(t, now)
      /\ timer' = Advanced(t, now)

Pass ==
  /\ mono < MaxMono
  /\ mono' = mono + 1
  /\ UNCHANGED <<clockId, shift>>
  /\ Run(timer, ticks, mono + 1, shift)
  /\ UNCHANGED <<cancelable, cancelled, asked, reported, clockSet>>

SetClock ==
  /\ shift < MaxShift
  /\ shift' = shift + 1
  /\ UNCHANGED <<clockId, mono>>
  /\ Run(timer, ticks, mono, shift + 1)
  /\ cancelled' = (cancelled \/ cancelable)
  /\ clockSet' = TRUE
  /\ UNCHANGED <<cancelable, asked, reported>>

-----------------------------------------------------------------------------

\* The flags of the system call.  Mutants: the setting for cancellation
\* without the one it needs, and an absolute time taken as relative.
SetTimeMaskCancelOnly(flags) ==
  CASE flags = "Default" -> {}
    [] flags = "Abstime" -> {"ABSTIME"}
    [] flags = "TimerCancelOnSet" -> {"CANCEL_ON_SET"}
SetTimeMaskRelative(flags) == IF flags = "TimerCancelOnSet" THEN {"ABSTIME", "CANCEL_ON_SET"} ELSE {}

SetTimeMask(flags) ==
  CASE flags = "Default" -> {}
    [] flags = "Abstime" -> {"ABSTIME"}
    [] flags = "TimerCancelOnSet" -> {"ABSTIME", "CANCEL_ON_SET"}

\* duration_to_timespec: the unwrap panics, before the system call, on what
\* does not fit.  Mutant: it never does.
FitsAlways(duration) == TRUE
Fits(duration) == duration <= MaxSec

\* An overdue timer fires at once.
SetTime(interval, value, flags) ==
  LET kernel == SetTimeMask(flags)
      clock == IF "ABSTIME" \in kernel /\ IsReal THEN "real" ELSE "mono"
      due == IF value = 0 THEN 0 ELSE IF "ABSTIME" \in kernel THEN value ELSE mono + value
  IN  /\ Fits(interval) /\ Fits(value)
      /\ cancelable' = (IsReal /\ {"ABSTIME", "CANCEL_ON_SET"} \subseteq kernel)
      /\ cancelled' = (cancelled /\ ~(cancelable' /\ value # 0))   \* settime fails: ECANCELED
      /\ UNCHANGED clockVars
      /\ Run([due |-> due, interval |-> interval, clock |-> clock], 0, mono, shift)
      /\ asked' = [interval |-> interval, value |-> value, flags |-> flags, at |-> mono]
      /\ reported' = 0
      /\ clockSet' = FALSE

\* Mutant: the fields of the answer are exchanged.
GetTimeSwapped ==
  [interval |-> IF timer.due = 0 THEN 0 ELSE timer.due - Now,
   value |-> timer.interval]

\* The answer of gettime, and of settime for the timer before it.
GetTime ==
  [interval |-> timer.interval,
   value |-> IF timer.due = 0 THEN 0 ELSE timer.due - Now]

Read ==
  /\ ~(cancelable /\ cancelled)
  /\ ticks > 0                      \* else WouldBlock
  /\ reported' = reported + ticks
  /\ ticks' = 0
  /\ UNCHANGED <<clockVars, timer, cancelable, cancelled, asked, clockSet>>

ReadCancelled ==
  /\ cancelable /\ cancelled
  /\ cancelled' = FALSE
  /\ ticks' = 0
  /\ timer' \in {timer, [timer EXCEPT !.due = 0]}
  /\ asked' = NotAsked /\ reported' = 0 /\ clockSet' = FALSE
  /\ UNCHANGED <<clockVars, cancelable>>

Next ==
  \/ Pass \/ SetClock
  \/ \E interval, value \in Durations, flags \in SetTimeFlags : SetTime(interval, value, flags)
  \/ Read \/ ReadCancelled

Spec == Init /\ [][Next]_timerVars

-----------------------------------------------------------------------------
(* Properties, in terms of what the caller asked for.                      *)

TimerTypeOK ==
  /\ asked # NotAsked => /\ {asked.interval, asked.value} \subseteq 0 .. MaxSec
                         /\ asked.flags \in SetTimeFlags
  /\ timer.due > 0 => timer.due > Now
  /\ ticks \in Nat /\ reported \in Nat

\* Time on the scale of asked.value: since settime, or of the real clock.
Elapsed ==
  CASE asked.flags = "Default" -> mono - asked.at
    [] asked.flags # "Default" /\ IsReal -> mono + shift
    [] OTHER -> mono

DueSoFar ==
  IF asked.value = 0 \/ Elapsed < asked.value THEN 0
  ELSE IF asked.interval = 0 THEN 1 ELSE 1 + (Elapsed - asked.value) \div asked.interval

TimeToNext ==
  IF asked.value = 0 THEN 0
  ELSE IF Elapsed < asked.value THEN asked.value - Elapsed
  ELSE IF asked.interval = 0 THEN 0
  ELSE asked.interval - ((Elapsed - asked.value) % asked.interval)

\* What read has answered since settime, and what it will answer next
\* (timerfd.rs:195-200), add up to the expirations that are due by the
\* arguments of settime, however reads and the clocks interleave.
ExpirationsReported == asked # NotAsked => reported + ticks = DueSoFar

\* TimerCancelOnSet is effective: when a real-time clock was set, the next
\* read says so (timerfd.rs:58-63).
ClockChangeNoticed ==
  asked # NotAsked /\ asked.flags = "TimerCancelOnSet" /\ IsReal /\ clockSet =>
    cancelable /\ cancelled

\* gettime, and settime for the timer before, give the interval asked for
\* and the time to the next expiration that is due, so that settime with
\* Default restores the timer; for a timer that was set with Abstime too.
GetTimeRestores ==
  asked # NotAsked => GetTime = [interval |-> asked.interval, value |-> TimeToNext]
=============================================================================
