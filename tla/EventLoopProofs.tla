-------------------------- MODULE EventLoopProofs --------------------------
(***************************************************************************)
(* Proofs about TimerFd.tla, for any durations and clocks, and about       *)
(* EventLoop.tla, for any workers, streams and programs.                   *)
(***************************************************************************)
EXTENDS EventLoop, TLAPS

-----------------------------------------------------------------------------
(* The timer alone.                                                        *)

Timers == [due : Nat, interval : Nat, clock : {"mono", "real"}]
Requests == [interval : 0 .. MaxSec, value : 0 .. MaxSec, flags : SetTimeFlags, at : Nat]

-----------------------------------------------------------------------------
(* Arithmetic.                                                             *)

LEMMA DivMod ==
  ASSUME NEW a \in Nat, NEW b \in Nat \ {0}
  PROVE  /\ a \div b \in Nat /\ a % b \in Nat /\ a % b < b
         /\ a = b * (a \div b) + (a % b)
<1>0. a \div b \in Nat
  OBVIOUS
<1>1. a % b \in Nat
  OBVIOUS
<1>2. a % b < b
  OBVIOUS
<1>3. a = b * (a \div b) + (a % b)
  OBVIOUS
<1> QED
  BY <1>0, <1>1, <1>2, <1>3

LEMMA Distribute ==
  ASSUME NEW i \in Nat, NEW m \in Nat, NEW n \in Nat
  PROVE  /\ i * m \in Nat /\ m * i = i * m
         /\ (m + n) * i = m * i + n * i
         /\ (1 + n) * i = i * n + i
  OBVIOUS

LEMMA Monotone ==
  ASSUME NEW p \in Nat, NEW q \in Nat, NEW b \in Nat, p <= q
  PROVE  p * b <= q * b
<1>1. PICK d \in Nat : q = p + d
  <2>1. q - p \in Nat /\ q = p + (q - p)
    OBVIOUS
  <2> QED
    BY <2>1
<1>2. q * b = p * b + d * b /\ d * b \in Nat /\ p * b \in Nat
  BY <1>1
<1> QED
  BY <1>2

\* The quotient is the only number of times that b fits into a.
LEMMA Quotient ==
  ASSUME NEW a \in Nat, NEW b \in Nat \ {0}, NEW q \in Nat, q * b <= a, a < (q + 1) * b
  PROVE  a \div b = q /\ a % b = a - q * b
<1> DEFINE d == a \div b
<1>1. d \in Nat /\ a % b \in Nat /\ a % b < b /\ a = b * d + (a % b)
  BY DivMod
<1> HIDE DEF d
<1>2. /\ d * b <= a
      /\ a < (d + 1) * b
  <2>1. d * b \in Nat /\ b * d = d * b
    BY <1>1
  <2>2. (d + 1) * b = d * b + b
    BY <1>1
  <2> QED
    BY <1>1, <2>1, <2>2
<1>3. d * b \in Nat /\ q * b \in Nat /\ (d + 1) * b \in Nat /\ (q + 1) * b \in Nat
  BY <1>1
<1>4. ~(q + 1 <= d)
  BY <1>1, <1>2, <1>3, Monotone
<1>5. ~(d + 1 <= q)
  BY <1>1, <1>2, <1>3, Monotone
<1>6. d = q
  BY <1>1, <1>4, <1>5
<1> QED
  BY <1>1, <1>6 DEF d

-----------------------------------------------------------------------------
(* The kernel's step.                                                      *)

\* A timer that is due fires, as often as it was due until now, and is due
\* next in the future, less than an interval away.
LEMMA RunEffect ==
  ASSUME NEW t \in Timers, NEW now \in Nat
  PROVE  LET n == Expirations(t, now)
             u == Advanced(t, now)
         IN  /\ n \in Nat /\ u \in Timers /\ u.interval = t.interval /\ u.clock = t.clock
             /\ t.due = 0 \/ now < t.due => n = 0 /\ u = t
             /\ t.due > 0 /\ t.due <= now => n > 0
             /\ t.due > 0 /\ t.due <= now /\ t.interval = 0 => n = 1 /\ u.due = 0
             /\ t.due > 0 /\ t.due <= now /\ t.interval > 0 =>
                  /\ u.due = t.due + n * t.interval
                  /\ now < u.due /\ u.due <= now + t.interval
<1> DEFINE n == Expirations(t, now)
           u == Advanced(t, now)
<1>1. CASE t.due = 0 \/ now < t.due
  BY <1>1 DEF Expirations, Advanced, Timers
<1>2. CASE t.due > 0 /\ t.due <= now /\ t.interval = 0
  BY <1>2 DEF Expirations, Advanced, Timers
<1>3. CASE t.due > 0 /\ t.due <= now /\ t.interval > 0
  <2> DEFINE d == (now - t.due) \div t.interval
  <2>1. /\ now - t.due \in Nat /\ t.interval \in Nat \ {0} /\ t.due \in Nat
        /\ t.clock \in {"mono", "real"}
    BY <1>3 DEF Timers
  <2>2. /\ d \in Nat
        /\ \E r \in Nat : r < t.interval /\ now - t.due = t.interval * d + r
    BY <2>1, DivMod
  <2>3. n = 1 + d
    BY <1>3, <2>1 DEF Expirations
  <2> HIDE DEF d
  <2>8. n # 0
    BY <2>2, <2>3
  <2>9. u = [t EXCEPT !.due = @ + n * t.interval]
    BY <1>3, <2>1, <2>8 DEF Advanced
  <2> HIDE DEF n, u
  <2>10. t.interval * d \in Nat /\ (1 + d) * t.interval = t.interval * d + t.interval
    BY <2>1, <2>2, Distribute
  <2>4. n \in Nat /\ n > 0 /\ n * t.interval = t.interval * d + t.interval
    BY <2>1, <2>2, <2>3, <2>10
  <2>5. t.due + n * t.interval \in Nat
    BY <2>1, <2>4, <2>10
  <2>6. now < t.due + n * t.interval /\ t.due + n * t.interval <= now + t.interval
    BY <2>1, <2>2, <2>4, <2>10
  <2>7. u \in Timers /\ u.interval = t.interval /\ u.clock = t.clock
        /\ u.due = t.due + n * t.interval
    BY <2>1, <2>5, <2>9 DEF Timers
  <2> QED
    BY <1>3, <2>1, <2>4, <2>6, <2>7 DEF n, u
<1> QED
  BY <1>1, <1>2, <1>3 DEF Timers

\* Timer t, whose first expiration is at first (0: never), has expired n times
\* at time now.
OnSchedule(t, n, now, first) ==
  /\ n = 0 => t.due = first
  /\ n > 0 => 0 < first /\ first <= now
  /\ n > 0 /\ t.interval = 0 => n = 1 /\ t.due = 0
  /\ n > 0 /\ t.interval > 0 => t.due = first + n * t.interval /\ t.due <= now + t.interval

\* A timer stays on its schedule, however far the clock goes.
LEMMA RunKeepsSchedule ==
  ASSUME NEW t \in Timers, NEW n \in Nat, NEW now \in Nat, NEW later \in Nat, NEW first \in Nat,
         now <= later, OnSchedule(t, n, now, first)
  PROVE  OnSchedule(Advanced(t, later), n + Expirations(t, later), later, first)
<1> DEFINE e == Expirations(t, later)
           u == Advanced(t, later)
<1>1. /\ e \in Nat /\ u \in Timers /\ u.interval = t.interval
      /\ t.due = 0 \/ later < t.due => e = 0 /\ u = t
      /\ t.due > 0 /\ t.due <= later => e > 0
      /\ t.due > 0 /\ t.due <= later /\ t.interval = 0 => e = 1 /\ u.due = 0
      /\ t.due > 0 /\ t.due <= later /\ t.interval > 0 =>
           u.due = t.due + e * t.interval /\ u.due <= later + t.interval
  BY RunEffect
<1> HIDE DEF e, u
<1>2. t.due \in Nat /\ t.interval \in Nat
  BY DEF Timers
<1>3. CASE t.due = 0 \/ later < t.due
  <2>1. e = 0 /\ u = t /\ n + e = n
    BY <1>1, <1>3
  <2> QED
    BY <1>2, <2>1 DEF OnSchedule, e, u
<1>4. CASE t.due > 0 /\ t.due <= later /\ t.interval = 0
  <2>1. n = 0
    BY <1>2, <1>4 DEF OnSchedule
  <2> QED
    BY <1>1, <1>2, <1>4, <2>1 DEF OnSchedule, e, u
<1>5. CASE t.due > 0 /\ t.due <= later /\ t.interval > 0
  <2>1. e > 0 /\ u.due = t.due + e * t.interval /\ u.due <= later + t.interval
    BY <1>1, <1>5
  <2>2. /\ n * t.interval \in Nat /\ e * t.interval \in Nat
        /\ (n + e) * t.interval = n * t.interval + e * t.interval
    BY <1>1, <1>2, Distribute
  <2>3. t.due = first + n * t.interval
    BY <1>2, <1>5 DEF OnSchedule
  <2>4. first > 0 /\ first <= later
    BY <1>5, <2>2, <2>3 DEF OnSchedule
  <2>5. u.due = first + (n + e) * t.interval
    BY <2>1, <2>2, <2>3
  <2>6. n + e > 0 /\ u.interval = t.interval
    BY <1>1, <2>1
  <2> QED
    BY <1>5, <2>1, <2>4, <2>5, <2>6 DEF OnSchedule, e, u
<1> QED
  BY <1>2, <1>3, <1>4, <1>5

-----------------------------------------------------------------------------
(* The inductive invariant.                                                *)

TimerTyped ==
  /\ clockId \in Clock /\ mono \in Nat /\ shift \in Nat
  /\ timer \in Timers
  /\ timer.due > 0 => timer.due > Now
  /\ ticks \in Nat /\ reported \in Nat
  /\ asked # NotAsked => asked \in Requests /\ asked.at <= mono

\* When the request wants the first expiration, on the clock of the timer.
FirstDue ==
  IF asked.value = 0 THEN 0
  ELSE IF asked.flags = "Default" THEN asked.at + asked.value ELSE asked.value

Followed ==
  asked # NotAsked =>
    /\ timer.interval = asked.interval
    /\ timer.clock = IF asked.flags # "Default" /\ IsReal THEN "real" ELSE "mono"
    /\ OnSchedule(timer, reported + ticks, Now, FirstDue)
    /\ asked.flags = "TimerCancelOnSet" /\ IsReal => cancelable /\ (clockSet => cancelled)

TimerInv == TimerTyped /\ Followed

LEMMA RunTyped ==
  ASSUME NEW t \in Timers, NEW n \in Nat, NEW m \in Nat, NEW s \in Nat, Run(t, n, m, s)
  PROVE  /\ ticks' \in Nat /\ timer' \in Timers
         /\ timer'.interval = t.interval /\ timer'.clock = t.clock
         /\ timer'.due > 0 => timer'.due > At(timer'.clock, m, s)
<1> DEFINE now == At(t.clock, m, s)
<1>1. now \in Nat
  BY DEF At
<1>2. timer' = Advanced(t, now) /\ ticks' = n + Expirations(t, now)
  BY DEF Run
<1> HIDE DEF now
<1>3. t.due \in Nat /\ t.interval \in Nat
  BY DEF Timers
<1> DEFINE e == Expirations(t, now)
           u == Advanced(t, now)
<1>4. /\ e \in Nat /\ u \in Timers /\ u.interval = t.interval /\ u.clock = t.clock
      /\ t.due = 0 \/ now < t.due => u = t
      /\ t.due > 0 /\ t.due <= now /\ t.interval = 0 => u.due = 0
      /\ t.due > 0 /\ t.due <= now /\ t.interval > 0 => now < u.due
  BY <1>1, RunEffect
<1>5. timer' = u /\ ticks' = n + e
  BY <1>2
<1> HIDE DEF e, u
<1>6. u.due > 0 => u.due > now
  BY <1>1, <1>3, <1>4
<1> QED
  BY <1>4, <1>5, <1>6 DEF now

\* Both clocks only go forward.
LEMMA RunsInv ==
  ASSUME TimerInv, NEW m \in Nat, NEW s \in Nat, mono <= m, shift <= s, mono' = m, shift' = s,
         Run(timer, ticks, m, s), UNCHANGED <<clockId, cancelable, asked, reported>>,
         asked # NotAsked /\ cancelable /\ clockSet' /\ (clockSet => cancelled) => cancelled'
  PROVE  TimerInv'
<1>1. TimerTyped'
  <2>1. /\ ticks' \in Nat /\ timer' \in Timers
        /\ timer'.due > 0 => timer'.due > At(timer'.clock, m, s)
    BY RunTyped DEF TimerInv, TimerTyped
  <2>2. asked' # NotAsked => asked' \in Requests /\ asked'.at <= mono'
    BY DEF TimerInv, TimerTyped, Requests
  <2> QED
    BY <2>1, <2>2 DEF TimerInv, TimerTyped, Now
<1>2. ASSUME asked # NotAsked
      PROVE  Followed'
  <2>1. asked \in Requests /\ FirstDue \in Nat /\ FirstDue' = FirstDue
    BY <1>2 DEF TimerInv, TimerTyped, Requests, FirstDue
  <2>2. timer'.interval = timer.interval /\ timer'.clock = timer.clock /\ timer \in Timers
    BY RunTyped DEF TimerInv, TimerTyped
  <2>3. Now \in Nat /\ Now' \in Nat /\ Now <= Now'
    BY <2>2 DEF Now, At, TimerInv, TimerTyped
  <2>4. timer' = Advanced(timer, Now') /\ ticks' = ticks + Expirations(timer, Now')
    BY <2>2 DEF Run, Now
  <2>5. Expirations(timer, Now') \in Nat /\ ticks \in Nat /\ reported \in Nat
    BY <2>2, <2>3, RunEffect DEF TimerInv, TimerTyped
  <2>6. reported' + ticks' = reported + ticks + Expirations(timer, Now')
    BY <2>4, <2>5
  <2>7. OnSchedule(timer, reported + ticks, Now, FirstDue)
    BY <1>2 DEF TimerInv, Followed
  <2>8. OnSchedule(timer', reported' + ticks', Now', FirstDue')
    BY <2>1, <2>2, <2>3, <2>4, <2>5, <2>6, <2>7, RunKeepsSchedule
  <2> QED
    BY <1>2, <2>2, <2>8 DEF TimerInv, Followed, IsReal
<1> QED
  BY <1>1, <1>2 DEF TimerInv, Followed

LEMMA SetTimeInv ==
  ASSUME TimerInv, NEW interval \in Durations, NEW value \in Durations, NEW mode \in SetTimeFlags,
         SetTime(interval, value, mode)
  PROVE  TimerInv'
<1> DEFINE kernel == SetTimeMask(mode)
           clock == IF "ABSTIME" \in kernel /\ IsReal THEN "real" ELSE "mono"
           due == IF value = 0 THEN 0 ELSE IF "ABSTIME" \in kernel THEN value ELSE mono + value
           t == [due |-> due, interval |-> interval, clock |-> clock]
           now == At(clock, mono, shift)
<1>1. /\ kernel = IF mode = "Default" THEN {}
                  ELSE IF mode = "Abstime" THEN {"ABSTIME"} ELSE {"ABSTIME", "CANCEL_ON_SET"}
  BY DEF SetTimeMask, SetTimeFlags
<1>2. /\ interval \in 0 .. MaxSec /\ value \in 0 .. MaxSec /\ {interval, value} \subseteq Nat
      /\ mono \in Nat /\ shift \in Nat
  BY TimerFdAssumption DEF SetTime, Fits, TimerInv, TimerTyped
<1>3. t \in Timers /\ due \in Nat /\ now \in Nat
  BY <1>2 DEF Timers, At
<1>4. /\ Run(t, 0, mono, shift) /\ UNCHANGED <<clockId, mono, shift>>
      /\ cancelable' = (IsReal /\ {"ABSTIME", "CANCEL_ON_SET"} \subseteq kernel)
      /\ cancelled' = (cancelled /\ ~(cancelable' /\ value # 0))
      /\ asked' = [interval |-> interval, value |-> value, flags |-> mode, at |-> mono]
      /\ reported' = 0 /\ clockSet' = FALSE
  BY DEF SetTime, clockVars
<1>5. /\ ticks' \in Nat /\ timer' \in Timers
      /\ timer'.interval = interval /\ timer'.clock = clock
      /\ timer'.due > 0 => timer'.due > At(timer'.clock, mono, shift)
  BY <1>2, <1>3, <1>4, RunTyped
<1>6. FirstDue' = due /\ asked' \in Requests /\ asked'.at = mono
  BY <1>1, <1>2, <1>4 DEF FirstDue, Requests, SetTimeFlags
<1>7. Now' = now
  BY <1>4, <1>5 DEF Now
<1>8. OnSchedule(t, 0, 0, due)
  BY DEF OnSchedule
<1>9. timer' = Advanced(t, now) /\ ticks' = 0 + Expirations(t, now)
  BY <1>4 DEF Run
<1>10. clock = IF mode # "Default" /\ IsReal THEN "real" ELSE "mono"
  BY <1>1 DEF SetTimeFlags
<1> HIDE DEF now, t, due, clock, kernel
<1>11. OnSchedule(timer', reported' + ticks', Now', FirstDue')
  <2>1. OnSchedule(Advanced(t, now), 0 + Expirations(t, now), now, due)
    BY <1>3, <1>8, RunKeepsSchedule
  <2>2. reported' + ticks' = 0 + Expirations(t, now)
    BY <1>4, <1>5, <1>9
  <2> QED
    BY <1>6, <1>7, <1>9, <2>1, <2>2
<1>12. TimerTyped'
  BY <1>2, <1>4, <1>5, <1>6 DEF TimerTyped, TimerInv, Now
<1>13. Followed'
  BY <1>1, <1>4, <1>5, <1>10, <1>11 DEF Followed, IsReal
<1> QED
  BY <1>12, <1>13 DEF TimerInv

LEMMA InitTimerInv ==
  ASSUME Init
  PROVE  TimerInv
  BY DEF Init, TimerInv, TimerTyped, Followed, Timers, Now

LEMMA NextTimerInv ==
  ASSUME TimerInv, [Next]_timerVars
  PROVE  TimerInv'
<1>1. CASE Pass
  <2>1. mono + 1 \in Nat /\ shift \in Nat /\ mono <= mono + 1
    BY DEF TimerInv, TimerTyped
  <2> QED
    BY <1>1, <2>1, RunsInv DEF Pass, TimerInv, TimerTyped
<1>2. CASE SetClock
  <2>1. mono \in Nat /\ shift + 1 \in Nat /\ shift <= shift + 1
    BY DEF TimerInv, TimerTyped
  <2>2. cancelable => cancelled'
    BY <1>2 DEF SetClock
  <2> QED
    BY <1>2, <2>1, <2>2, RunsInv DEF SetClock, TimerInv, TimerTyped
<1>3. CASE Read
  <2>1. /\ UNCHANGED <<clockVars, timer, cancelable, cancelled, asked, clockSet>>
        /\ reported' = reported + ticks /\ ticks' = 0
    BY <1>3 DEF Read
  <2>2. reported' \in Nat /\ ticks' \in Nat /\ reported' + ticks' = reported + ticks
    BY <2>1 DEF TimerInv, TimerTyped
  <2>3. TimerTyped'
    BY <2>1, <2>2 DEF TimerInv, TimerTyped, clockVars, Now
  <2>4. Followed'
    BY <2>1, <2>2 DEF TimerInv, Followed, clockVars, Now, FirstDue, IsReal
  <2> QED
    BY <2>3, <2>4 DEF TimerInv
<1>4. CASE ReadCancelled
  <2>1. timer' \in Timers /\ timer'.clock = timer.clock /\ timer'.due \in {0, timer.due}
    BY <1>4 DEF ReadCancelled, TimerInv, TimerTyped, Timers
  <2>2. TimerTyped'
    BY <1>4, <2>1 DEF ReadCancelled, TimerInv, TimerTyped, clockVars, Now
  <2> QED
    BY <1>4, <2>2 DEF ReadCancelled, TimerInv, Followed
<1>5. CASE UNCHANGED timerVars
  BY <1>5 DEF timerVars, clockVars, TimerInv, TimerTyped, Followed, Now, FirstDue, IsReal
<1> QED
  BY <1>1, <1>2, <1>3, <1>4, <1>5, SetTimeInv DEF Next

LEMMA TimerInvariant == Spec => []TimerInv
<1>1. Init => TimerInv
  BY InitTimerInv
<1>2. TimerInv /\ [Next]_timerVars => TimerInv'
  BY NextTimerInv
<1> QED
  BY <1>1, <1>2, PTL DEF Spec

-----------------------------------------------------------------------------
(* What the caller sees follows from the invariant.                        *)

\* Both clocks tell the same distance from the first expiration.
LEMMA Distance ==
  ASSUME TimerInv, asked # NotAsked
  PROVE  /\ asked.interval \in Nat /\ asked.value \in Nat /\ Elapsed \in Nat /\ Now \in Nat
         /\ FirstDue \in Nat /\ (FirstDue = 0 <=> asked.value = 0)
         /\ asked.value > 0 => Elapsed - asked.value = Now - FirstDue
<1>1. /\ asked \in Requests /\ asked.at <= mono /\ mono \in Nat /\ shift \in Nat
      /\ timer.clock = IF asked.flags # "Default" /\ IsReal THEN "real" ELSE "mono"
  BY DEF TimerInv, TimerTyped, Followed
<1>2. /\ asked.interval \in Nat /\ asked.value \in Nat /\ asked.at \in Nat
      /\ asked.flags \in SetTimeFlags
  BY <1>1, TimerFdAssumption DEF Requests
<1>3. mono - asked.at \in Nat /\ mono + shift \in Nat
  BY <1>1, <1>2
<1>4. CASE asked.flags = "Default"
  <2>1. Elapsed = mono - asked.at /\ Now = mono
    BY <1>1, <1>4 DEF Elapsed, Now, At
  <2> QED
    BY <1>1, <1>2, <1>3, <1>4, <2>1 DEF FirstDue
<1>5. CASE asked.flags # "Default"
  <2>1. Elapsed = Now /\ Now \in Nat
    BY <1>1, <1>3, <1>5 DEF Elapsed, Now, At
  <2> QED
    BY <1>1, <1>2, <1>5, <2>1 DEF FirstDue
<1> QED
  BY <1>4, <1>5

\* The number of expirations and the time to the next one, as the schedule and
\* as the request have them.
LEMMA Answers ==
  ASSUME TimerInv, asked # NotAsked
  PROVE  /\ reported + ticks = DueSoFar
         /\ TimeToNext = IF timer.due = 0 THEN 0 ELSE timer.due - Now
<1> DEFINE n == reported + ticks
           late == Now - FirstDue
<1>1. /\ asked.interval \in Nat /\ asked.value \in Nat /\ Elapsed \in Nat /\ Now \in Nat
      /\ FirstDue \in Nat /\ (FirstDue = 0 <=> asked.value = 0)
      /\ asked.value > 0 => Elapsed - asked.value = late
  BY Distance
<1>2. /\ n \in Nat /\ timer.due \in Nat /\ (timer.due > 0 => timer.due > Now)
      /\ timer.interval = asked.interval /\ OnSchedule(timer, n, Now, FirstDue)
  BY DEF TimerInv, TimerTyped, Followed, Timers
<1> HIDE DEF n
<1>3. CASE n = 0
  <2>1. timer.due = FirstDue
    BY <1>2, <1>3 DEF OnSchedule
  <2>2. asked.value > 0 => Elapsed < asked.value /\ asked.value - Elapsed = timer.due - Now
    BY <1>1, <1>2, <2>1
  <2> QED
    BY <1>1, <1>3, <2>1, <2>2 DEF DueSoFar, TimeToNext, n
<1>4. CASE n > 0 /\ asked.interval = 0
  <2>1. n = 1 /\ timer.due = 0 /\ 0 < FirstDue /\ FirstDue <= Now
    BY <1>2, <1>4 DEF OnSchedule
  <2>2. asked.value > 0 /\ Elapsed >= asked.value
    BY <1>1, <2>1
  <2> QED
    BY <1>1, <1>4, <2>1, <2>2 DEF DueSoFar, TimeToNext, n
<1>5. CASE n > 0 /\ asked.interval > 0
  <2> DEFINE i == asked.interval
             q == n - 1
  <2>1. /\ timer.due = FirstDue + n * i /\ timer.due <= Now + i
        /\ 0 < FirstDue /\ FirstDue <= Now
    BY <1>2, <1>5 DEF OnSchedule
  <2>2. q \in Nat /\ i \in Nat \ {0} /\ late \in Nat /\ n = q + 1
    BY <1>1, <1>2, <1>5, <2>1
  <2>3. q * i \in Nat /\ (q + 1) * i = q * i + i
    BY <2>2, Distribute
  <2>4. n * i = q * i + i
    BY <2>2, <2>3
  <2>5. timer.due > Now
    BY <1>1, <1>2, <2>1, <2>3, <2>4
  <2>6. q * i <= late /\ late < (q + 1) * i
    BY <1>1, <2>1, <2>2, <2>3, <2>4, <2>5
  <2>7. late \div i = q /\ late % i = late - q * i
    BY <2>2, <2>6, Quotient
  <2>8. asked.value > 0 /\ Elapsed >= asked.value /\ Elapsed - asked.value = late
    BY <1>1, <2>1
  <2>9. DueSoFar = 1 + q
    BY <1>1, <1>5, <2>7, <2>8 DEF DueSoFar
  <2>10. TimeToNext = i - (late - q * i)
    BY <1>1, <1>5, <2>7, <2>8 DEF TimeToNext
  <2>11. TimeToNext = timer.due - Now
    BY <1>1, <2>1, <2>2, <2>3, <2>4, <2>10
  <2>12. 1 + q = n
    BY <2>2, <1>2
  <2> QED
    BY <1>1, <1>2, <2>1, <2>3, <2>4, <2>9, <2>11, <2>12 DEF n
<1> QED
  BY <1>1, <1>2, <1>3, <1>4, <1>5

-----------------------------------------------------------------------------
(* Theorems.                                                               *)

\* The timer's fields have their types, and it is never overdue.
THEOREM TimerTypeCorrect == Spec => []TimerTypeOK
<1>1. TimerInv => TimerTypeOK
  BY DEF TimerInv, TimerTyped, TimerTypeOK, Requests
<1> QED
  BY <1>1, TimerInvariant, PTL

\* What reads have answered and will answer next is what settime asked for
\* (timerfd.rs:195-200), at any length of time and of the interval.
THEOREM NothingMissed == Spec => []ExpirationsReported
<1>1. TimerInv => ExpirationsReported
  BY Answers DEF ExpirationsReported
<1> QED
  BY <1>1, TimerInvariant, PTL

\* TimerCancelOnSet works on every clock that can be set (timerfd.rs:58-63).
THEOREM CancelsOnSet == Spec => []ClockChangeNoticed
<1>1. TimerInv => ClockChangeNoticed
  BY DEF TimerInv, Followed, ClockChangeNoticed
<1> QED
  BY <1>1, TimerInvariant, PTL

\* What gettime answers can be given to settime again.
THEOREM Restores == Spec => []GetTimeRestores
<1>1. ASSUME TimerInv, asked # NotAsked
      PROVE  GetTime = [interval |-> asked.interval, value |-> TimeToNext]
  <2>1. timer.interval = asked.interval
    BY <1>1 DEF TimerInv, Followed
  <2> QED
    BY <1>1, <2>1, Answers DEF GetTime
<1>2. TimerInv => GetTimeRestores
  BY <1>1 DEF GetTimeRestores
<1> QED
  BY <1>2, TimerInvariant, PTL

-----------------------------------------------------------------------------
(* The event loop.                                                         *)

Flags == {"CLOEXEC", "NONBLOCK", "SEMAPHORE"}
MaskFlags == KernelFlags \cup {"ET", "ONESHOT"}
Steps == {"wait", "handle", "blocked", "add", "renew", "delete", "close", "end"}
Places == [step : Steps, source : Sources \cup {"none"}, rest : SUBSET Sources]

\* The program made its timer and its job counter with new().
MadeWithNew ==
  /\ "timer" \in program.sources => "NONBLOCK" \in program.timerFlags
  /\ "jobs" \in program.sources => "NONBLOCK" \in program.jobFlags

OneShots == Contains(program.opts, OneShot)

\* What can come into the hands of w.
Reach(w) == program.sources \cup open \cup (IF w \in program.direct THEN {"timer"} ELSE {})

-----------------------------------------------------------------------------
(* The inductive invariant.                                                *)

Typed ==
  /\ program \in Programs
  /\ flags \in [Sources -> SUBSET Flags]
  /\ mask \in [Sources -> SUBSET MaskFlags]
  /\ listed \subseteq Sources
  /\ open \subseteq Streams
  /\ at \in [Workers -> Places]
  /\ arrivals \in Nat /\ arrivals <= MaxArrivals

\* Of the descriptors: who is registered, and how it was opened.
Registered ==
  /\ \A d \in listed : mask[d] # {}
  /\ \A d \in Sources : mask[d] # {} => d \in program.sources \cup open
  /\ OneShots => \A d \in Sources \ {"stop"} : mask[d] # {} => "ONESHOT" \in mask[d]
  /\ data \cup ended \subseteq open
  /\ open # {} => "listener" \in program.sources

Opened ==
  /\ flags["timer"] = program.timerFlags
  /\ flags["jobs"] = program.jobFlags
  /\ \A d \in {"stop", "listener"} \cup open : "NONBLOCK" \in flags[d]

\* Of worker w alone.
Placed(w) ==
  /\ at[w].rest \subseteq Reach(w) /\ at[w].source \notin at[w].rest
  /\ at[w].step \in {"wait", "end"} => at[w].source = "none"
  /\ at[w].step \in {"handle", "blocked", "renew"} => at[w].source \in Reach(w)
  /\ at[w].step = "renew" => OneShots /\ at[w].source # "stop"
  /\ at[w].step \in {"add", "delete", "close"} => at[w].source \in open
  /\ at[w].step \in {"delete", "close"} => at[w].source \in ended \ data
  /\ at[w].step = "close" => mask[at[w].source] = {}
  /\ at[w].step = "add" => "listener" \notin at[w].rest
  /\ MadeWithNew /\ w \notin program.direct => at[w].step # "blocked"

\* What w holds is not reported to anybody.
Owned(w) == \A d \in Holds(w) : "IN" \notin mask[d] /\ (d \notin Streams => mask[d] # {})

Inv ==
  /\ Typed /\ Registered /\ Opened
  /\ \A w \in Workers : Placed(w)
  /\ OneShots => /\ \A w \in Workers : Owned(w)
                 /\ \A v, w \in Workers : v # w => Holds(v) \cap Holds(w) = {}

-----------------------------------------------------------------------------
(* Helpers.                                                                *)

LEMMA Names ==
  /\ {"timer", "jobs", "listener", "stop"} \cup Streams = Sources
  /\ "none" \notin Sources
  /\ Streams \cap {"timer", "jobs", "listener", "stop", "none"} = {}
  BY EventLoopAssumption DEF Sources

LEMMA ProgramFacts ==
  ASSUME Typed
  PROVE  /\ program.sources \subseteq {"timer", "jobs", "listener", "stop"}
         /\ program.direct \subseteq Workers
         /\ "listener" \in program.sources => OneShots
         /\ program.direct # {} => ~OneShots
         /\ program.timerFlags \in SUBSET Flags /\ program.jobFlags \in SUBSET Flags
         /\ program.settings \subseteq [interval : Durations, value : Durations, flags : SetTimeFlags]
  BY EventLoopAssumption DEF Typed, OneShots, Flags

\* A worker goes to a step with a descriptor, and the others stay.
LEMMA GoesEffect ==
  ASSUME Typed, NEW w \in Workers, NEW step \in Steps, NEW d \in Sources \cup {"none"},
         Goes(w, step, d)
  PROVE  /\ at' \in [Workers -> Places]
         /\ at'[w] = [step |-> step, source |-> d, rest |-> at[w].rest]
         /\ \A v \in Workers : v # w => at'[v] = at[v]
  BY DEF Typed, Goes, Places

\* What Ask writes.
LEMMA AskEffect ==
  ASSUME Typed, NEW d \in Sources, Ask(d)
  PROVE  /\ mask' \in [Sources -> SUBSET MaskFlags]
         /\ mask'[d] # {} /\ (d # "stop" /\ OneShots => "ONESHOT" \in mask'[d])
         /\ \A e \in Sources : e # d => mask'[e] = mask[e]
         /\ listed' \subseteq listed \cup {d}
<1> DEFINE new == InterestMask(Readable \cup Hup) \cup OptMask(OptsOf(d)) \cup {"ERR", "HUP"}
<1>1. new \in SUBSET MaskFlags
  BY DEF InterestMask, OptMask, MaskFlags, KernelFlags
<1>2. d # "stop" /\ OneShots => "ONESHOT" \in new
  BY DEF OptMask, OptsOf, OneShots
<1>3. new # {}
  OBVIOUS
<1>4. mask' = [mask EXCEPT ![d] = new]
  BY DEF Ask
<1> HIDE DEF new
<1> QED
  BY <1>1, <1>2, <1>3, <1>4 DEF Typed, Ask

\* An action that only moves worker w, and takes nothing into its hands.
LEMMA MovesOn ==
  ASSUME Inv, NEW w \in Workers,
         UNCHANGED <<program, flags, mask, listed, open, ended, arrivals>>, data' \subseteq data,
         at' \in [Workers -> Places], \A v \in Workers : v # w => at'[v] = at[v],
         Placed(w)', Holds(w)' \subseteq Holds(w)
  PROVE  Inv'
<1>1. Typed' /\ Registered' /\ Opened'
  BY DEF Inv, Typed, Registered, Opened, OneShots
<1>2. \A v \in Workers : Placed(v)'
  BY DEF Inv, Placed, Reach, OneShots, MadeWithNew
<1>3. \A v \in Workers : Holds(v)' \subseteq Holds(v)
  BY DEF Holds
<1>4. ASSUME OneShots'
      PROVE  /\ \A v \in Workers : Owned(v)'
             /\ \A u, v \in Workers : u # v => Holds(u)' \cap Holds(v)' = {}
  <2>1. OneShots
    BY <1>4 DEF OneShots
  <2> QED
    BY <1>3, <2>1 DEF Inv, Owned
<1> QED
  BY <1>1, <1>2, <1>4 DEF Inv

\* An action that moves no worker.
LEMMA Outside ==
  ASSUME Inv, UNCHANGED <<program, flags, mask, open, at>>,
         \A d \in listed' : d \in listed \/ (d \in Sources /\ mask[d] # {}),
         data' \cup ended' \subseteq open, ended \subseteq ended', data' \cap ended \subseteq data,
         arrivals' \in Nat, arrivals' <= MaxArrivals
  PROVE  Inv'
<1>1. Typed' /\ Registered' /\ Opened'
  BY DEF Inv, Typed, Registered, Opened, OneShots
<1>2. \A v \in Workers : Placed(v)'
  BY DEF Inv, Placed, Reach, OneShots, MadeWithNew
<1>3. \A v \in Workers : Holds(v)' = Holds(v)
  BY DEF Holds
<1>4. OneShots' = OneShots
  BY DEF OneShots
<1> QED
  BY <1>1, <1>2, <1>3, <1>4 DEF Inv, Owned

-----------------------------------------------------------------------------
(* Init.                                                                   *)

LEMMA InitInv ==
  ASSUME LoopInit
  PROVE  Inv
<1>1. Typed
  <2>1. program \in Programs /\ program.timerFlags \in SUBSET Flags /\ program.jobFlags \in SUBSET Flags
    BY EventLoopAssumption DEF LoopInit, Flags
  <2>2. flags \in [Sources -> SUBSET Flags]
    BY <2>1 DEF LoopInit, EventFdNew, Listener, Std, Flags
  <2>3. mask \in [Sources -> SUBSET MaskFlags]
    BY DEF LoopInit
  <2>4. at \in [Workers -> Places]
    BY DEF LoopInit, Doing, Idle, Places, Steps, Sources
  <2> QED
    BY <2>1, <2>2, <2>3, <2>4, EventLoopAssumption DEF LoopInit, Typed
<1>2. Registered
  BY DEF LoopInit, Registered
<1>3. Opened
  BY DEF LoopInit, Opened, EventFdNew, Listener, Std, Sources
<1>4. ASSUME NEW w \in Workers
      PROVE  Placed(w) /\ (OneShots => Holds(w) = {})
  <2>1. CASE w \in program.direct
    BY <1>1, <2>1, ProgramFacts, Names DEF LoopInit, Doing, Placed, Reach
  <2>2. CASE w \notin program.direct
    BY <2>2 DEF LoopInit, Doing, Idle, Placed, Reach, Holds
  <2> QED
    BY <2>1, <2>2
<1> QED
  BY <1>1, <1>2, <1>3, <1>4 DEF Inv, Owned

-----------------------------------------------------------------------------
(* The steps of a worker that only move it.                                *)

\* After an event, and after a read that gave something.
LEMMA FinishesInv ==
  ASSUME Inv, NEW w \in Workers, NEW d \in Sources, Finishes(w, d) \/ Continues(w, d),
         UNCHANGED <<program, flags, mask, listed, open, ended, arrivals>>, data' \subseteq data,
         at[w].source = d, d \in Reach(w)
  PROVE  Inv'
<1>1. PICK step \in Steps, e \in {d, "none"} :
        /\ Goes(w, step, e)
        /\ \/ step = "renew" /\ e = d /\ Contains(OptsOf(d), OneShot)
           \/ step = "wait" /\ e = "none"
           \/ step = "handle" /\ e = d
  BY DEF Finishes, Continues, Steps
<1>2. step = "renew" => OneShots /\ d # "stop"
  BY <1>1 DEF OneShots, OptsOf, Level, Contains, OneShot
<1>3. at[w].source \notin at[w].rest /\ at[w].rest \subseteq Reach(w) /\ at[w] \in Places
  BY DEF Inv, Typed, Placed
<1>4. /\ at' \in [Workers -> Places]
      /\ at'[w] = [step |-> step, source |-> e, rest |-> at[w].rest]
      /\ \A v \in Workers : v # w => at'[v] = at[v]
  BY <1>1, GoesEffect DEF Inv
<1>5. Placed(w)'
  BY <1>1, <1>2, <1>3, <1>4, Names DEF Placed, Places, Reach, OneShots, MadeWithNew
<1>6. Holds(w)' \subseteq Holds(w)
  BY <1>1, <1>4 DEF Holds
<1> QED
  BY <1>4, <1>5, <1>6, MovesOn

LEMMA TakesInv ==
  ASSUME Inv, NEW w \in Workers, NEW d \in Sources,
         at[w].step \in {"handle", "blocked"}, at[w].source = d
  PROVE  d \in Reach(w)
  BY DEF Inv, Placed

LEMMA NextEventInv ==
  ASSUME Inv, NEW w \in Workers, NEW d \in Sources, NextEvent(w, d)
  PROVE  Inv'
<1>1. /\ at[w] \in Places /\ d \in at[w].rest /\ at[w].rest \subseteq Reach(w)
      /\ at[w].step = "wait"
  BY DEF Inv, Typed, Placed, NextEvent
<1>2. /\ at' \in [Workers -> Places]
      /\ at'[w] = [step |-> "handle", source |-> d, rest |-> at[w].rest \ {d}]
      /\ \A v \in Workers : v # w => at'[v] = at[v]
  BY <1>1 DEF NextEvent, Doing, Places, Steps, Inv, Typed
<1>3. Placed(w)'
  BY <1>1, <1>2, Names DEF NextEvent, Placed, Reach, inputVars, socketVars, epollVars, MadeWithNew, OneShots
<1>4. Holds(w)' \subseteq Holds(w)
  BY <1>1, <1>2 DEF Holds
<1> QED
  BY <1>2, <1>3, <1>4, MovesOn DEF NextEvent, inputVars, socketVars, epollVars

LEMMA SeeStopInv ==
  ASSUME Inv, NEW w \in Workers, SeeStop(w)
  PROVE  Inv'
<1>1. /\ at' \in [Workers -> Places]
      /\ at'[w] = [step |-> "end", source |-> "none", rest |-> {}]
      /\ \A v \in Workers : v # w => at'[v] = at[v]
  BY DEF SeeStop, Doing, Places, Steps, Inv, Typed
<1>2. Placed(w)' /\ Holds(w)' \subseteq Holds(w)
  BY <1>1 DEF Placed, Holds
<1> QED
  BY <1>1, <1>2, MovesOn DEF SeeStop, Takes, inputVars, socketVars, epollVars

\* A read of length zero, of a stream.
LEMMA TakeEndInv ==
  ASSUME Inv, NEW w \in Workers, NEW s \in Streams, TakeEnd(w, s)
  PROVE  Inv'
<1>1. /\ at[w] \in Places /\ at[w].source = s /\ s \in Sources /\ s \notin at[w].rest
      /\ at[w].rest \subseteq Reach(w) /\ s \in open /\ s \in ended \ data
  BY Names DEF Inv, Typed, Registered, Placed, TakeEnd, Takes
<1>2. /\ at' \in [Workers -> Places]
      /\ at'[w] = [step |-> "delete", source |-> s, rest |-> at[w].rest]
      /\ \A v \in Workers : v # w => at'[v] = at[v]
  BY <1>1, GoesEffect DEF TakeEnd, Inv, Steps
<1>3. Placed(w)' /\ Holds(w)' \subseteq Holds(w)
  BY <1>1, <1>2 DEF Placed, Holds, Reach, TakeEnd, Takes, inputVars, socketVars
<1> QED
  BY <1>2, <1>3, MovesOn DEF TakeEnd, Takes, inputVars, socketVars, epollVars

\* A read blocks only on a descriptor that was opened without NONBLOCK.
LEMMA BlockInv ==
  ASSUME Inv, NEW w \in Workers, NEW d \in Sources, Block(w, d)
  PROVE  Inv'
<1>1. /\ at[w] \in Places /\ at[w].source = d /\ d \in Reach(w) /\ d \notin at[w].rest
      /\ at[w].rest \subseteq Reach(w)
  BY DEF Inv, Typed, Placed, Block, Empties
<1>2. /\ at' \in [Workers -> Places]
      /\ at'[w] = [step |-> "blocked", source |-> d, rest |-> at[w].rest]
      /\ \A v \in Workers : v # w => at'[v] = at[v]
  BY GoesEffect DEF Block, Inv, Steps
<1>3. ~(MadeWithNew /\ w \notin program.direct)
  <2>1. "NONBLOCK" \notin flags[d]
    BY DEF Block
  <2>2. d \notin {"stop", "listener"} \cup open
    BY <2>1 DEF Inv, Opened
  <2>3. program.sources \subseteq {"timer", "jobs", "listener", "stop"}
    BY ProgramFacts DEF Inv
  <2> QED
    BY <1>1, <2>1, <2>2, <2>3 DEF Reach, MadeWithNew, Inv, Opened
<1>4. Placed(w)' /\ Holds(w)' \subseteq Holds(w)
  BY <1>1, <1>2, <1>3, Names DEF Placed, Holds, Reach, MadeWithNew, Block, Empties, inputVars, socketVars
<1> QED
  BY <1>2, <1>4, MovesOn DEF Block, Empties, inputVars, socketVars, epollVars

-----------------------------------------------------------------------------
(* The steps that write to the kernel's lists.                             *)

\* A worker that the action leaves alone stays well placed, when the streams
\* in its hands stay open and one that it is closing is not registered again.
LEMMA PlacedKept ==
  ASSUME Inv, NEW v \in Workers, at'[v] = at[v],
         UNCHANGED <<program, data>>, mask' \in [Sources -> SUBSET MaskFlags],
         Holds(v) \cap open \subseteq open', Holds(v) \cap ended \subseteq ended',
         at[v].step = "close" => mask'[at[v].source] = {}
  PROVE  Placed(v)'
<1>1. Placed(v) /\ Typed
  BY DEF Inv
<1>2. at[v] \in Places /\ open \subseteq Streams
  BY <1>1 DEF Typed
<1>3. (at[v].rest \cup {at[v].source}) \cap open \subseteq Holds(v)
  BY <1>2, Names DEF Holds
<1>4. at[v].rest \subseteq Reach(v)'
  BY <1>1, <1>3 DEF Placed, Reach
<1>5. at[v].step \in {"handle", "blocked", "renew"} => at[v].source \in Reach(v)'
  BY <1>1, <1>3 DEF Placed, Reach
<1>6. at[v].step \in {"add", "delete", "close"} => at[v].source \in open'
  BY <1>1, <1>3 DEF Placed
<1>7. at[v].step \in {"delete", "close"} => at[v].source \in ended' \ data'
  BY <1>1, <1>3 DEF Placed
<1> QED
  BY <1>1, <1>4, <1>5, <1>6, <1>7 DEF Placed, MadeWithNew, OneShots

\* A new or renewed registration of d, which nobody has in hands afterwards.
LEMMA AsksInv ==
  ASSUME Inv, NEW d \in Sources, Ask(d), d \in program.sources \cup open,
         UNCHANGED <<program, flags, open, data, ended, arrivals>>,
         at' \in [Workers -> Places],
         \A v \in Workers : Placed(v)' /\ (OneShots => Holds(v)' \subseteq Holds(v) \ {d})
  PROVE  Inv'
<1>1. Typed'
  BY AskEffect DEF Inv, Typed
<1>2. Registered'
  BY AskEffect DEF Inv, Typed, Registered, OneShots
<1>3. Opened'
  BY DEF Inv, Opened
<1>4. ASSUME OneShots', NEW v \in Workers, NEW e \in Holds(v)'
      PROVE  "IN" \notin mask'[e] /\ (e \notin Streams => mask'[e] # {})
  <2>1. OneShots /\ e \in Holds(v) /\ e # d
    BY <1>4 DEF OneShots
  <2>2. e \in Sources
    BY <2>1, Names DEF Holds, Inv, Typed, Places
  <2> QED
    BY <2>1, <2>2, AskEffect DEF Inv, Owned
<1>5. ASSUME OneShots', NEW u \in Workers, NEW v \in Workers, u # v
      PROVE  Holds(u)' \cap Holds(v)' = {}
  BY <1>5 DEF OneShots, Inv
<1> QED
  BY <1>1, <1>2, <1>3, <1>4, <1>5 DEF Inv, Owned

LEMMA RegisterInv ==
  ASSUME Inv, NEW d \in Sources, Register(d)
  PROVE  Inv'
<1> USE DEF Register, inputVars, socketVars
<1>1. d \in program.sources /\ d \notin Streams
  BY ProgramFacts, Names DEF Inv
<1>2. ASSUME NEW v \in Workers
      PROVE  Placed(v)' /\ Holds(v)' = Holds(v)
  <2>1. at[v].step = "close" => at[v].source \in Streams /\ mask[at[v].source] = {}
    BY DEF Inv, Placed, Typed
  <2> QED
    BY <1>1, <2>1, AskEffect, PlacedKept, Names DEF Holds, Inv
<1>3. OneShots => \A v \in Workers : d \notin Holds(v)
  BY <1>1 DEF Inv, Owned
<1> QED
  BY <1>1, <1>2, <1>3, AsksInv DEF Inv, Typed

\* w goes to step with e after it has registered d, and does not hold d then.
LEMMA AsksAndGoesInv ==
  ASSUME Inv, NEW w \in Workers, NEW d \in Sources, Ask(d), at[w].source = d, d # "stop",
         d \in Reach(w), at[w].step \in {"add", "renew"},
         UNCHANGED <<program, flags, open, data, ended, arrivals>>,
         NEW step \in Steps, NEW e \in Sources \cup {"none"}, Goes(w, step, e),
         \/ step = "wait" /\ e = "none"
         \/ step \in {"handle", "renew"} /\ e = "listener" /\ at[w].step = "add"
  PROVE  Inv'
<1>1. /\ Placed(w) /\ Typed /\ Registered /\ at[w] \in Places
  BY DEF Inv, Typed
<1>2. OneShots /\ program.direct = {}
  BY <1>1, ProgramFacts DEF Placed, Registered
<1>3. d \in program.sources \cup open
  BY <1>1, <1>2 DEF Reach
<1>4. /\ at' \in [Workers -> Places]
      /\ at'[w] = [step |-> step, source |-> e, rest |-> at[w].rest]
      /\ \A v \in Workers : v # w => at'[v] = at[v]
  BY <1>1, GoesEffect
<1>5. d \in Holds(w) /\ d \notin at[w].rest
  BY <1>1, Names DEF Holds, Placed
<1>6. at[w].step = "add" => "listener" \in program.sources /\ "listener" \notin at[w].rest /\ d \in Streams
  BY <1>1 DEF Placed, Registered, Typed
<1>7. Placed(w)'
  BY <1>1, <1>2, <1>4, <1>6, Names DEF Placed, Places, Reach, OneShots, MadeWithNew
<1>8. Holds(w)' \subseteq Holds(w) \ {d}
  BY <1>4, <1>5, <1>6, Names DEF Holds
<1>9. ASSUME NEW v \in Workers, v # w
      PROVE  Placed(v)' /\ Holds(v)' \subseteq Holds(v) \ {d}
  <2>1. d \notin Holds(v)
    BY <1>2, <1>5, <1>9 DEF Inv
  <2>2. at[v].step = "close" => at[v].source \in Sources /\ at[v].source # d /\ mask[at[v].source] = {}
    BY <1>1, <2>1, Names DEF Inv, Placed, Typed, Holds
  <2>3. Placed(v)'
    BY <1>1, <1>4, <1>9, <2>2, AskEffect, PlacedKept
  <2> QED
    BY <1>4, <1>9, <2>1, <2>3 DEF Holds
<1> QED
  BY <1>3, <1>4, <1>7, <1>8, <1>9, AsksInv

LEMMA RenewInv ==
  ASSUME Inv, NEW w \in Workers, Renew(w)
  PROVE  Inv'
<1>1. at[w].source \in Sources /\ at[w].source # "stop" /\ at[w].source \in Reach(w)
  BY ProgramFacts, Names DEF Renew, Inv, Placed, Reach, Typed
<1> QED
  BY <1>1, AsksAndGoesInv DEF Renew, inputVars, socketVars, Steps

LEMMA AddStreamInv ==
  ASSUME Inv, NEW w \in Workers, AddStream(w)
  PROVE  Inv'
<1>1. at[w].source \in Sources /\ at[w].source # "stop" /\ at[w].source \in Reach(w)
  BY Names DEF AddStream, Inv, Placed, Reach, Typed
<1>2. PICK step \in Steps, e \in {"listener", "none"} :
        /\ Goes(w, step, e)
        /\ \/ step = "wait" /\ e = "none"
           \/ step \in {"handle", "renew"} /\ e = "listener"
  BY DEF AddStream, Continues, Finishes, Steps
<1> QED
  BY <1>1, <1>2, AsksAndGoesInv, Names DEF AddStream, inputVars, socketVars

\* A one-shot source is reported to one worker, since it is disarmed then.
LEMMA ReportInv ==
  ASSUME Inv, NEW w \in Workers, NEW batch \in SUBSET listed, Report(w, batch)
  PROVE  Inv'
<1> USE DEF Report, inputVars, socketVars
<1>1. Typed /\ Registered /\ Placed(w) /\ at[w] = Idle /\ batch \subseteq Sources
  BY DEF Inv, Typed
<1>2. \A d \in batch : "IN" \in mask[d]
  BY DEF kSubset
<1>3. batch \subseteq program.sources \cup open
  BY <1>1, <1>2 DEF Registered
<1>4. /\ at' \in [Workers -> Places]
      /\ at'[w] = [step |-> "wait", source |-> "none", rest |-> batch]
      /\ \A v \in Workers : v # w => at'[v] = at[v]
  BY <1>1 DEF Typed, Places, Idle, Doing
<1>5. mask' \in [Sources -> SUBSET MaskFlags]
  BY <1>1 DEF Typed
<1>6. \A d \in Sources : /\ mask'[d] \subseteq mask[d]
                         /\ (mask[d] # {} => mask'[d] # {})
                         /\ ("ONESHOT" \in mask[d] => "ONESHOT" \in mask'[d])
                         /\ (d \in batch /\ "ONESHOT" \in mask[d] => "IN" \notin mask'[d])
  BY <1>1 DEF Typed
<1>7. Typed' /\ Opened'
  BY <1>1, <1>4, <1>5 DEF Inv, Typed, Opened
<1>8. Registered'
  BY <1>1, <1>6 DEF Registered, OneShots, Typed
<1>9. Placed(w)'
  BY <1>1, <1>3, <1>4, Names DEF Placed, Reach
<1>10. ASSUME NEW v \in Workers, v # w
       PROVE  Placed(v)' /\ Holds(v)' = Holds(v)
  <2>1. at[v].step = "close" => at[v].source \in Sources /\ mask[at[v].source] = {}
    BY <1>1, Names DEF Inv, Placed, Typed
  <2> QED
    BY <1>4, <1>5, <1>6, <1>10, <2>1, PlacedKept DEF Holds
<1>11. Holds(w)' = batch \ {"stop"}
  BY <1>1, <1>4, Names DEF Holds
<1>12. ASSUME OneShots
       PROVE  /\ \A v \in Workers : Owned(v)'
              /\ \A u, v \in Workers : u # v => Holds(u)' \cap Holds(v)' = {}
  <2>1. Owned(w)'
    BY <1>1, <1>2, <1>6, <1>11, <1>12 DEF Owned, Registered
  <2>2. \A v \in Workers : v # w => Holds(v) \subseteq Sources
    BY <1>1, Names DEF Holds, Typed, Places
  <2>3. \A v \in Workers : v # w => Owned(v)' /\ Holds(v)' \cap batch = {}
    BY <1>2, <1>6, <1>10, <1>12, <2>2 DEF Inv, Owned
  <2> QED
    BY <1>10, <1>11, <1>12, <2>1, <2>3 DEF Inv
<1> QED
  BY <1>7, <1>8, <1>9, <1>10, <1>12 DEF Inv, OneShots

\* A new connection gets a number that nobody has in hands.
LEMMA AcceptInv ==
  ASSUME Inv, NEW w \in Workers, Accept(w)
  PROVE  Inv'
<1> USE DEF Accept, Takes, inputVars, socketVars, epollVars
<1>1. Typed /\ Registered /\ Placed(w) /\ at[w] \in Places
  BY DEF Inv, Typed
<1>2. at[w].source = "listener" /\ "listener" \in program.sources
  BY <1>1, Names DEF Placed, Reach, Typed
<1>3. OneShots /\ program.direct = {}
  BY <1>1, <1>2, ProgramFacts
<1>4. PICK s \in Streams \ open :
        /\ open' = open \cup {s}
        /\ flags' = [flags EXCEPT ![s] = Accepted(Std)]
        /\ Goes(w, "add", s)
  <2>1. Streams \ open # {}
    BY <1>1 DEF Typed
  <2> QED
    BY <2>1
<1>5. s \in Sources /\ s \notin {"timer", "jobs", "listener", "stop", "none"}
  BY Names
<1>6. /\ at' \in [Workers -> Places]
      /\ at'[w] = [step |-> "add", source |-> s, rest |-> at[w].rest]
      /\ \A v \in Workers : v # w => at'[v] = at[v]
  BY <1>1, <1>4, <1>5, GoesEffect DEF Steps
<1>7. /\ flags' \in [Sources -> SUBSET Flags] /\ "NONBLOCK" \in flags'[s]
      /\ \A d \in Sources : d # s => flags'[d] = flags[d]
  BY <1>1, <1>4, <1>5 DEF Typed, Accepted, Std, Flags
<1>8. Typed' /\ Registered'
  BY <1>1, <1>2, <1>4, <1>6, <1>7 DEF Typed, Registered, OneShots
<1>9. Opened'
  BY <1>1, <1>4, <1>5, <1>7, Names DEF Inv, Opened, Typed
<1>10. s \notin Reach(w) /\ mask[s] = {}
  BY <1>1, <1>3, <1>4, <1>5, ProgramFacts DEF Reach, Registered
<1>11. Placed(w)'
  BY <1>1, <1>2, <1>4, <1>5, <1>6, <1>10 DEF Placed, Reach
<1>12. ASSUME NEW v \in Workers, v # w
       PROVE  Placed(v)' /\ Holds(v)' = Holds(v) /\ s \notin Holds(v)
  <2>1. Placed(v)'
    BY <1>1, <1>4, <1>6, <1>12, PlacedKept DEF Inv, Placed, Typed
  <2>2. s \notin Reach(v)
    BY <1>3, <1>4, <1>5, <1>1, ProgramFacts DEF Reach
  <2>3. s \notin Holds(v)
    BY <1>4, <1>5, <2>2 DEF Inv, Placed, Holds, Typed, Places, Steps
  <2> QED
    BY <1>6, <1>12, <2>1, <2>3 DEF Holds
<1>13. Holds(w)' \subseteq Holds(w) \cup {s}
  BY <1>2, <1>5, <1>6 DEF Holds
<1>14. /\ \A v \in Workers : Owned(v)'
       /\ \A u, v \in Workers : u # v => Holds(u)' \cap Holds(v)' = {}
  BY <1>3, <1>10, <1>12, <1>13 DEF Inv, Owned
<1> QED
  BY <1>8, <1>9, <1>11, <1>12, <1>14 DEF Inv

\* The steps of a worker about a stream that its peer has closed: it alone has it.
LEMMA Closing ==
  ASSUME Inv, NEW w \in Workers, at[w].step \in {"delete", "close"}
  PROVE  /\ at[w].source \in open \cap ended \cap Sources /\ at[w].source \notin data
         /\ at[w].source \in Holds(w) /\ at[w].source \notin at[w].rest
         /\ OneShots /\ program.direct = {}
         /\ \A v \in Workers : v # w => at[w].source \notin Holds(v)
<1>1. Typed /\ Registered /\ Placed(w)
  BY DEF Inv
<1>2. /\ at[w].source \in open \cap ended \cap Sources /\ at[w].source \notin data
      /\ at[w].source \notin at[w].rest
  BY <1>1, Names DEF Placed, Typed
<1>3. at[w].source \in Holds(w)
  BY <1>1, <1>2, Names DEF Holds, Typed
<1>4. OneShots /\ program.direct = {}
  BY <1>1, <1>2, ProgramFacts DEF Registered
<1> QED
  BY <1>2, <1>3, <1>4 DEF Inv

LEMMA DeleteInv ==
  ASSUME Inv, NEW w \in Workers, Delete(w)
  PROVE  Inv'
<1> USE DEF Delete, inputVars, socketVars
<1> DEFINE s == at[w].source
<1>1. Typed /\ Registered /\ Placed(w) /\ at[w] \in Places
  BY DEF Inv, Typed
<1>2. /\ at' \in [Workers -> Places]
      /\ at'[w] = [step |-> "close", source |-> s, rest |-> at[w].rest]
      /\ \A v \in Workers : v # w => at'[v] = at[v]
  BY <1>1, GoesEffect DEF Steps, Places
<1>3. /\ mask' \in [Sources -> SUBSET MaskFlags] /\ mask'[s] = {}
      /\ \A d \in Sources : d # s => mask'[d] = mask[d]
  BY <1>1, Closing DEF Typed
<1>4. Typed' /\ Registered' /\ Opened'
  BY <1>1, <1>2, <1>3, Closing DEF Inv, Typed, Registered, Opened, OneShots
<1>5. Placed(w)' /\ Holds(w)' = Holds(w)
  BY <1>1, <1>2, <1>3, Closing DEF Placed, Reach, Holds
<1>6. ASSUME NEW v \in Workers, v # w
      PROVE  Placed(v)' /\ Holds(v)' = Holds(v)
  <2>1. at[v].step = "close" => mask'[at[v].source] = {}
    BY <1>1, <1>3, Names DEF Inv, Placed, Typed
  <2> QED
    BY <1>2, <1>3, <1>6, <2>1, PlacedKept DEF Holds
<1>7. ASSUME NEW v \in Workers
      PROVE  Owned(v)'
  <2>1. Holds(v) \subseteq Sources
    BY <1>1, Names DEF Holds, Typed, Places
  <2>2. s \in Streams
    BY <1>1, Closing DEF Typed
  <2> QED
    BY <1>3, <1>5, <1>6, <2>1, <2>2, Closing DEF Inv, Owned
<1>8. \A u, v \in Workers : u # v => Holds(u)' \cap Holds(v)' = {}
  BY <1>5, <1>6, Closing DEF Inv
<1> QED
  BY <1>4, <1>5, <1>6, <1>7, <1>8 DEF Inv

LEMMA CloseInv ==
  ASSUME Inv, NEW w \in Workers, Close(w)
  PROVE  Inv'
<1> USE DEF Close, epollVars
<1> DEFINE s == at[w].source
<1>1. Typed /\ Registered /\ Placed(w) /\ at[w] \in Places
  BY DEF Inv, Typed
<1>2. /\ at' \in [Workers -> Places]
      /\ at'[w] = [step |-> "wait", source |-> "none", rest |-> at[w].rest]
      /\ \A v \in Workers : v # w => at'[v] = at[v]
  BY <1>1, GoesEffect DEF Steps
<1>3. /\ flags' \in [Sources -> SUBSET Flags]
      /\ \A d \in Sources : d # s => flags'[d] = flags[d]
  BY <1>1 DEF Typed
<1>4. s \in Streams /\ mask[s] = {} /\ s \in Holds(w) /\ s \in open
  BY <1>1, Closing DEF Placed, Typed
<1>5. Typed' /\ Registered'
  BY <1>1, <1>2, <1>3, <1>4, Closing DEF Typed, Registered, OneShots
<1>6. Opened'
  BY <1>1, <1>3, <1>4, Names DEF Inv, Opened, Typed
<1>7. Placed(w)' /\ Holds(w)' \subseteq Holds(w)
  BY <1>1, <1>2, <1>4, Closing, Names DEF Placed, Reach, Holds, Typed, Places
<1>8. ASSUME NEW v \in Workers, v # w
      PROVE  Placed(v)' /\ Holds(v)' = Holds(v)
  BY <1>1, <1>2, <1>8, Closing, PlacedKept DEF Inv, Placed, Typed, Holds
<1> QED
  BY <1>5, <1>6, <1>7, <1>8 DEF Inv, Owned, OneShots

-----------------------------------------------------------------------------
(* The other steps, and Next.                                              *)

LEMMA WorksInv ==
  ASSUME Inv, NEW w \in Workers, Works(w)
  PROVE  Inv'
<1> USE DEF inputVars, socketVars, epollVars
<1>1. {"timer", "jobs", "listener", "stop"} \cup Streams \subseteq Sources
  BY Names
<1>2. CASE TakeTicks(w)
  BY <1>1, <1>2, FinishesInv, TakesInv DEF TakeTicks, Takes
<1>3. CASE TakeJob(w)
  BY <1>1, <1>3, FinishesInv, TakesInv DEF TakeJob, Takes
<1>4. CASE AcceptFails(w)
  BY <1>1, <1>4, FinishesInv, TakesInv DEF AcceptFails, Takes
<1>5. ASSUME NEW s \in Streams, TakeData(w, s)
      PROVE  Inv'
  BY <1>1, <1>5, FinishesInv, TakesInv DEF TakeData, Takes
<1>6. ASSUME NEW d \in Sources, WouldBlock(w, d)
      PROVE  Inv'
  BY <1>6, FinishesInv, TakesInv DEF WouldBlock, Empties
<1> QED
  BY <1>2, <1>3, <1>4, <1>5, <1>6, NextEventInv, SeeStopInv, TakeEndInv, BlockInv,
     AcceptInv, AddStreamInv, DeleteInv, CloseInv, RenewInv DEF Works

LEMMA NotifyEffect ==
  ASSUME Inv, NEW d \in Sources, NEW some, Notify(d, some)
  PROVE  mask' = mask /\ \A e \in listed' : e \in listed \/ (e \in Sources /\ mask[e] # {})
  BY DEF Notify

LEMMA NextInv ==
  ASSUME Inv, [LoopNext]_eventLoopVars
  PROVE  Inv'
<1> USE DEF World, socketVars
<1>1. Typed /\ Registered /\ {"timer", "jobs", "listener", "stop"} \cup Streams \subseteq Sources
  BY Names DEF Inv
<1>2. CASE TimePasses
  BY <1>1, <1>2, NotifyEffect, Outside DEF TimePasses, Typed, Registered
<1>3. CASE ClockIsSet
  BY <1>1, <1>3, NotifyEffect, Outside DEF ClockIsSet, Typed, Registered
<1>4. CASE SetTimer
  BY <1>1, <1>4, NotifyEffect, Outside DEF SetTimer, Typed, Registered
<1>5. CASE Stopping
  BY <1>1, <1>5, NotifyEffect, Outside DEF Stopping, Typed, Registered
<1>6. ASSUME NEW d \in Sources, Arrives(d)
      PROVE  /\ UNCHANGED <<program, flags, at, mask>>
             /\ \A e \in listed' : e \in listed \/ (e \in Sources /\ mask[e] # {})
             /\ arrivals' \in Nat /\ arrivals' <= MaxArrivals
  <2>1. arrivals' \in Nat /\ arrivals' <= MaxArrivals
    BY <1>1, <1>6, EventLoopAssumption DEF Arrives, Typed
  <2> QED
    BY <1>6, <2>1, NotifyEffect DEF Arrives
<1>7. CASE PostJob
  BY <1>1, <1>6, <1>7, Outside DEF PostJob, Registered
<1>8. CASE Connect
  BY <1>1, <1>6, <1>8, Outside DEF Connect, Registered
<1>9. ASSUME NEW s \in Streams, Send(s)
      PROVE  Inv'
  BY <1>1, <1>6, <1>9, Outside DEF Send, Registered
<1>10. ASSUME NEW s \in Streams, PeerCloses(s)
       PROVE  Inv'
  BY <1>1, <1>10, NotifyEffect, Outside DEF PeerCloses, Registered, Typed
<1>11. CASE UNCHANGED eventLoopVars
  BY <1>1, <1>11, Outside DEF eventLoopVars, inputVars, epollVars, Registered, Typed
<1> QED
  BY <1>2, <1>3, <1>4, <1>5, <1>7, <1>8, <1>9, <1>10, <1>11,
     RegisterInv, ReportInv, WorksInv DEF LoopNext

LEMMA Invariant == LoopSpec => []Inv
<1>1. LoopInit => Inv
  BY InitInv
<1>2. Inv /\ [LoopNext]_eventLoopVars => Inv'
  BY NextInv
<1> QED
  BY <1>1, <1>2, PTL DEF LoopSpec

-----------------------------------------------------------------------------
(* Theorems.                                                               *)

\* Workers that share one-shot sources never have the same one in hands, and
\* never a stream that is closed.
THEOREM Ownership == LoopSpec => []OneAtATime
<1>1. ASSUME Inv, OneShots, NEW w \in Workers
      PROVE  Holds(w) \cap Streams \subseteq open
  BY <1>1, ProgramFacts, Names DEF Inv, Typed, Placed, Reach, Holds, Places, Steps
<1>2. Inv => OneAtATime
  BY <1>1 DEF Inv, OneAtATime, OneShots
<1> QED
  BY <1>2, Invariant, PTL

\* Descriptors that new() and accept() made never block a worker that waits
\* for their events (eventfd.rs and timerfd.rs: the flags of new).
THEOREM Nonblocking == LoopSpec => [](MadeWithNew => NeverBlocks)
<1>1. Inv => (MadeWithNew => NeverBlocks)
  BY DEF Inv, Placed, NeverBlocks
<1> QED
  BY <1>1, Invariant, PTL

\* In the loop the timer is used as TimerFd.tla has it, whoever reads it: what
\* is proved of the timer holds in the loop.
THEOREM TimerInLoop == LoopSpec => Spec
<1>1. LoopInit => Init
  BY DEF LoopInit
<1>2. Inv /\ [LoopNext]_eventLoopVars => [Next]_timerVars
  <2> SUFFICES ASSUME Inv, [LoopNext]_eventLoopVars
               PROVE  Next \/ UNCHANGED timerVars
    OBVIOUS
  <2> USE DEF inputVars
  <2>1. ASSUME NEW w \in Workers, Works(w)
        PROVE  Next \/ UNCHANGED timerVars
    BY <2>1 DEF Works, TakeTicks, TakeJob, SeeStop, Accept, AcceptFails, AddStream, Delete, Close,
                Renew, TakeData, TakeEnd, NextEvent, WouldBlock, Block, Empties, Takes, Next
  <2>2. CASE TimePasses \/ ClockIsSet
    BY <2>2 DEF TimePasses, ClockIsSet, Next
  <2>3. CASE SetTimer
    <3>1. PICK s \in program.settings : SetTime(s.interval, s.value, s.flags)
      BY <2>3 DEF SetTimer
    <3>2. s.interval \in Durations /\ s.value \in Durations /\ s.flags \in SetTimeFlags
      BY ProgramFacts DEF Inv
    <3> QED
      BY <3>1, <3>2 DEF Next
  <2>4. CASE Stopping \/ PostJob \/ Connect \/ \E s \in Streams : Send(s) \/ PeerCloses(s)
    BY <2>4 DEF Stopping, PostJob, Connect, Send, PeerCloses, Arrives
  <2>5. CASE \/ \E d \in Sources : Register(d)
             \/ \E w \in Workers, batch \in SUBSET listed : Report(w, batch)
    BY <2>5 DEF Register, Report
  <2>6. CASE UNCHANGED eventLoopVars
    BY <2>6 DEF eventLoopVars
  <2> QED
    BY <2>1, <2>2, <2>3, <2>4, <2>5, <2>6 DEF LoopNext
<1> QED
  BY <1>1, <1>2, Invariant, PTL DEF LoopSpec, Spec

\* The types; and what has data, or is registered, is open.
THEOREM LoopTypeCorrect == LoopSpec => []LoopTypeOK
<1>1. ASSUME Inv, TimerTypeOK
      PROVE  LoopTypeOK
  <2>1. {s \in Streams : mask[s] # {}} \subseteq open
    BY <1>1, ProgramFacts, Names DEF Inv, Registered
  <2>2. at \in [Workers -> [step : {"wait", "handle", "blocked", "add", "renew", "delete", "close", "end"},
                            source : Sources \cup {"none"}, rest : SUBSET Sources]]
    BY <1>1 DEF Inv, Typed, Places, Steps
  <2> QED
    BY <1>1, <2>1, <2>2 DEF Inv, Typed, Registered, LoopTypeOK
<1>2. Inv /\ TimerTypeOK => LoopTypeOK
  BY <1>1
<1> QED
  BY <1>2, Invariant, TimerInLoop, TimerTypeCorrect, PTL
=============================================================================
