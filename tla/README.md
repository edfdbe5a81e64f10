# A verification of queen-io in TLA+

queen-io is a small I/O library for Linux: a wrapper of epoll and poll, event
and timer descriptors, non-blocking sockets that register with an epoll, a
concurrent queue that can be waited for with an epoll, and two caches. This
directory holds TLA+ modules of the parts with logic of their own, the TLC
configurations that check them on small instances, and TLAPS proofs about all of
them. `PROJECT.json` lists runs, theorems, hazards, findings, and for every
definition the lines of `src/` it models.

    tlc -config MCQueue.cfg MCQueue.tla      # one run; see the table below
    tlapm QueueProofs.tla                    # the proofs of one module: a few
                                             # seconds to two minutes each

## 1. Inventory of the system

| component | state | operations | what is hard about it | what makes it correct |
|---|---|---|---|---|
| `queue.rs` Queue | a `ConcurrentQueue`, the atomic `pending`, a Waker, shared by all clones | push, pop, close, wake, registration | three pieces of shared state touched one after another without a lock; `pending` wraps below zero | no value in the queue without a wakeup; the counter does not drift |
| `waker.rs` Waker | a shared eventfd | wakeup, finish, set_readiness | a refused write or read is reported as success | as a flag it is up after wakeup and down after finish |
| `sys/eventfd.rs` EventFd | the kernel's 64-bit counter | new, with_options, read, write | saturation; the mode and EFD_SEMAPHORE are the caller's | readable exactly when positive; a read after somebody else's read does not block |
| `epoll/`, `sys/epoll.rs` Epoll | an id, a descriptor; the kernel's interest and ready lists; the caller's buffer of events | wait, add, modify, delete | SelectorId is checked and set in two steps, and never reset; masks, options and timeouts are converted; a failed wait leaves the old buffer | a handle belongs to one epoll; events say what holds, once or for as long as asked |
| `net/` sockets | the std socket, a SelectorId | new, accept, registration, try_clone, std's I/O | clones copy the SelectorId and share a file; accept must set the mode; a number is used again after a close | as above, across clones; what arrives is read, by one worker at a time |
| `cache/lru_cache.rs` LruCache | a HashMap of boxed entries, a circular list of raw pointers through them | put, get, pop, change_capacity | two structures over the same memory, and `pop` updates only one | list and map agree; at most capacity pairs; eviction in order of use |
| `cache/ttl_cache.rs` TtlCache | an insertion-ordered map of entries with expiration times; hit and miss counters | insert, get, get_mut, remove, entry, iter, set_capacity | expired entries linger; the clock moves during a call and while an entry or iterator is held | no expired value is returned, no live one is lost except to eviction of the oldest |
| `poll/` | a buffer of `pollfd` that is used again | poll, wait | interruption is not an error, a closed descriptor looks like a timeout, timeouts are cut | results belong to the last call; a timeout is honoured |
| `sys/timerfd.rs` TimerFd | the kernel's timer | create, settime, gettime, read | absolute and relative times on clocks that are or are not set, zero disarms, cancellation, two readers of one count | reads add up to the expirations due by settime's arguments |
| `sys/fd.rs`, `sys/socket.rs`, `sys/mod.rs` | none | forward to std and libc | - | - |

How they interact: a Queue raises and lowers its Waker, which writes and reads
an EventFd; adding a Queue to an Epoll adds that descriptor. Sockets, timers,
event descriptors and raw descriptors reach `sys::Epoll` through the `Source`
trait, sockets after a SelectorId check. A program is a number of threads that
wait on one Epoll, read what they are told of, and are stopped by a Waker. The
caches use nothing of the rest.

## 2. The modules

    Ready <- Waker <- Queue <- QueueLoop        EventFd <- Waker
    Ready <- EventMasks <- EpollEvents, Poll
    TimerFd, EventMasks, Waker, EventFd <- EventLoop
    SignalledQueue  (abstract)  <= implemented by Queue
    Registration
    Sublists <- EpollEvents, Lru, TtlCache, ExpiringMap
    Lru             (abstract)  <= implemented by LruCache without pop
    ExpiringMap     (abstract)  <= implemented by TtlCache
    <M>Proofs       theorems about M, for M = Queue (with QueueLoop), EpollEvents,
                    Poll, EventLoop (with TimerFd), Registration, LruCache, TtlCache
    SublistLemmas   what is true of the operators of Sublists and of sequences,
                    for those proofs

**EventFd, Waker, Ready** are the operators beneath the queue. `count` is the
kernel's counter; a write that does not fit leaves it alone, and `Wakeup` is
that write with the refusal swallowed, as `wakeup()` does. `ReadOne` is the read
of a descriptor with EFD_SEMAPHORE. `SetReadiness`
compares for equality like the code: a combination of flags does nothing.

**Queue** has one action per atomic step. `pc[t]` says where thread t is:

| code | steps |
|---|---|
| `push` and `inc` (43-50, 68-72) | `PushValue`, `IncAdd`, `IncWake` |
| `pop` and `dec` (52-66, 74-78) | `PopValue`, `DecLoad`, `DecFinish`, `DecSub`, `DecWake` |
| `close`, `wake` (100-110) | `Close`, `Wake` |
| `Source::add` (128-136) | `AddCtl`, `AddLoad`, `AddWake` |

A call that changes nothing (push on a full or closed queue, pop on an empty
one) is no step. `modify` and `delete` only concern the epoll. The arithmetic on
`pending` wraps at `MaxUsize`, and the comparison `second > 1` is unsigned, as
in the code. The `ConcurrentQueue` crate is taken as a linearizable queue.
Atomics are interleaved sequentially. The code uses weaker orderings; the
decisions hang on read-modify-writes of one atomic and on system calls, and the
proof never uses that the value loaded in `DecLoad` is fresh beyond
`pending = 1`, but a stale load is not an action of the model.

**QueueLoop** puts the queue in an epoll: consumers `Register` (or `Join` an
epoll the queue is registered with), are woken by `WaitReports`, pop once or
until an error, and go back to wait; a closer calls `close()` and then `wake()`.
`setup` says which of three programs runs. The kernel is external: a successful
write puts the descriptor on the ready list of every epoll it is registered
with; `wait` takes it off again when it does not poll readable any more, or when
it is edge-triggered.

**EventMasks** holds the conversions between the crate's flags and the
kernel's: `InterestMask` and `OptMask` are the two halves of `ioevent_to_epoll`,
`ReadyOfEpoll` is `Events::get`, `PollMask` and `ReadyOfPoll` are
`ioevent_to_poll` and `poll_to_ioevent`. Bits are names in sets.

**EpollEvents** is one epoll with several descriptors that change at any time
(`Change`, `Repeat`). `Add` and `Modify` are `epoll::Epoll`'s, with
`validate_args` and the masks; the kernel's ready list, level and edge
triggering and the disabling of one-shot registrations are external, after
epoll(7). `Chosen`, of **Sublists**, goes through a list and keeps the members
of a set, as a function that the provers can unfold; `WaitReports` stops where the buffer is full. `wait` has
three outcomes: events, nothing, and an error that leaves
the old events in the buffer (`set_len` is not reached).

**Poll** is `poll()` and `wait()`: a call enters the kernel (`Enter`), time passes
(`Tick`) and descriptors change, and it comes back ready, at its timeout,
interrupted (which the code answers with `Ok`) or with an error. `Millis` is the
conversion of the timeout, the same lines as in `sys::Epoll::wait`. The buffer
is kept from call to call as in the code, with the revents in it.

**TimerFd** is a timer of any of the five clocks over monotonic and real time.
`SetTimeMask` and `Fits` are the conversions of `settime`, `GetTime` is the answer
of `gettime` and of `settime`, `Read` takes the count. The kernel's timer is
external; that settime may answer ECANCELED although it armed the timer, and that
a cancelled read may leave it stopped, is Linux's `fs/timerfd.c`. Suspending the
machine, by which the boot-time and alarm clocks differ from the others, and
setting the real clock back are left out.

**EventLoop** composes the pieces: workers that share an epoll wait (`Report`),
go through the events in any order (`NextEvent`), and handle one: `TakeTicks` is
TimerFd's read, `TakeJob` EventFd's (or `ReadOne`), `SeeStop` the Waker, which
nobody lowers, `Accept` with `AddStream` a new connection, `TakeData` and
`TakeEnd` a stream, which at its end is deleted from the epoll and closed. A read
that finds nothing is a `WouldBlock`, or blocks (`Block`) if the descriptor was
not made non-blocking: `flags` is what the constructors and `accept` ask for.
`AcceptFails` is the lack of a descriptor. The crate has no loop of its own, so
what a worker does between the calls is external, after the crate's example and
the documented use of epoll: `Programs` is a constant, a record per program, with
the sources it registers and their options, whether it drains a source or handles
one thing per event, the flags its timer and counter are made with, what is given
to settime, and workers that read the timer directly without the epoll. A number
is used again after a close, with the stale events in other workers' buffers.

**Registration** models `SelectorId`, `Epoll::add/modify/delete`, the lifetime
of epolls and sockets, and `try_clone`. `associate_selector` is two steps
(`AddLoad`, `AddStore`), epoll_ctl the third (`AddCtl`, or `AddFails`). The
kernel's interest list is keyed by epoll, file and descriptor number, so what a
dropped handle leaves behind when its file has another handle (`orphans`) is in
the model, and so is the reuse of its number by a later clone. The four types
in `net/` have the same code, so a handle is any of them.

**LruCache** models the memory: `heap` holds an entry at every address, `map`
owns some of them. `Detach`, `Attach` and `RemoveLru` are the pointer operations
in the code's order of assignments. `pop` frees an entry that the list still
links; reading it later is undefined, and the model lets the memory keep its key
or read as garbage, and lets a later allocation reuse the address. (Overwritten
links, which would crash, are not among the outcomes.)

**TtlCache** models the calls on the map, the entries and the iterators. What
the caller borrows is part of the state, because entries expire while they are
held; `&mut self` excludes other calls meanwhile. Every `Instant::now()` may be
later than the one before. Where several reads judge entries and drop the
expired ones, judging them all at the last time has the same result; `insert`,
where it matters, keeps two times. `iter_mut` yields the same entries as
`iter`; the assignment through what it yields is `GetMut`'s. `Count` is the
counting of hits and misses by `get` and `get_mut`, on counters that wrap (in a
release build), and `InsertPanics` an expiration that does not fit an Instant,
which `Instant + Duration` refuses before the map is touched. `get(&self)` looks
and counts only, so that calls of several threads through a shared reference are
the same as one after another, except that the two relaxed counters are then
read at different times.

## 3. What is checked

| run | shows | bounds | states |
|---|---|---|---|
| `queue` | `PendingAccounting`, `ValueAnnounced`, `CounterAnnounced`, `QuietConsistent` under every interleaving; the queue implements `SignalledQueue`; an owed signal is not owed for ever | 3 threads, 1 value, capacity 2, counter of 2 | 28 150 |
| `loop` | nobody sleeps over a value, every value is taken, close with wake ends a consumer | three programs: 2 producers and 2 consumers on one epoll, level-triggered, one pop per event; the same with an epoll each, edge-triggered, draining; 1 producer, 1 draining consumer, 1 closer; 3 values | 79 134 |
| `epoll_events` | events are true, level-triggered readiness is kept and reported, one-shot means one | 2 descriptors, 3 conditions, 2 valid interests, 3 options, a buffer of one event | 13 461 |
| `poll` | answers are true and fresh, timeouts are honoured, calls return | 2 descriptors, 4 conditions, 2 interests, 2 entries, 2 time units per millisecond, `MaxInt = 1` | 144 928 |
| `event_loop` | reads add up to what is due, a set clock is noticed, gettime restores; no worker blocks, each one-shot source has one worker, everything that arrives is taken, the Waker ends all workers | six programs; 2 workers, 2 stream numbers, buffers of 2 events, 3 arrivals, durations 0-3 of which 3 does not fit, clock 0-3, set forward once | 34 143 |
| `registration` | a handle is in one epoll, the one it names; a socket whose handles are all associated reaches no other | 2 threads, 2 handles, 2 sockets, 2 epolls, 2 settings | 247 447 |
| `lru` | list and map agree, capacity, documented eviction order (refinement of `Lru`) | 3 keys, 2 values, 3 addresses, capacities 0-3, without `pop` | 37 858 |
| `ttl` | iterators miss nothing that is live, what overfills the cache, refinement of `ExpiringMap` with its counters | 3 keys, 2 values, capacities 1-2, durations 0 and 2, clock 0-2, Instants 0-3, counters of 2, symmetry | 118 408 |

Four runs expect a violation; each shows a disagreement between the code and
what it says of itself:

| run | what happens |
|---|---|
| `lru_pop` | `pop` (lru_cache.rs:176) leaves the freed entry in the list. With capacity 2: put a, put b, pop a, change_capacity(0); the eviction finds the freed a in place of b, and b stays in a cache of capacity 0 ("at most `capacity` items", line 56). Nothing is allocated after the pop (`PopLastSpec`), so what that memory is used for again plays no part, nor does whether it still holds the key. Capacities 0 and 2 |
| `ttl_entry` | `VacantEntry::insert` (ttl_cache.rs:112) never compares with the capacity ("at most `capacity` items", line 166). Inserting new keys keeps the excess; re-inserting a key that is there, or removing one, reduces it. No other call adds to it (`OnlyVacantOverfills`, `CapacityWithoutFills`) |
| `ttl_back` | `next_back` (ttl_cache.rs:648) gives up at an expired entry; the comment at 649 holds only if all times to live are equal and no entry is renewed in place (`BackwardEndOfEqualTimes`) |
| `registration_race` | two threads that add one socket to two epolls both pass `associate_selector` (epoll/mod.rs:118), which exists to refuse the second ("socket already added", line 122) |

### The properties in words

- `PendingAccounting`: `pending` equals the length of the queue plus the pops
  that have not decremented yet minus the pushes that have not incremented yet,
  modulo the width of usize. It can thus be `usize::MAX` for a moment, which
  `pending()` shows to callers.
- `ValueAnnounced`: if the queue holds a value, the descriptor polls readable or
  some thread is still going to raise it. `dec` clears the descriptor before it
  knows that it took the last value, and `inc` is silent unless the counter was
  zero, so this takes the interplay of both to hold.
- `QuietConsistent`: between calls the counter is exact and a non-empty queue is
  readable. The converse does not hold: an empty queue may stay readable until
  the next push and pop.
- `SignalIsPrompt`: an owed signal is raised or the queue drained, unless pops
  keep overtaking it.
- The queue implements `SignalledQueue`, in which the signal may be raised at
  any time: spurious readiness is allowed; a value with no signal, raised or owed, is
  not.
- `EventsTellTruth`: what `Events::get` gives after a wait is, among the
  readiness asked for, exactly what the descriptor shows, and otherwise only
  error or hup; never nothing.
- `ReadinessKept`, `ReadyReported`: asked for with `level()`, also together with
  `edge()`, or with no trigger, readiness stays on the kernel's list and is
  reported in the end, although the buffer holds one event and the other
  descriptor is always ready.
- `OneShotOnce`: whatever happens, a one-shot registration gives one event per
  add or modify.
- `PollTellsTruth`: the same for poll(), whose buffer is used again: nothing in
  it after a call that did not fail comes from an earlier call, and the count is
  positive exactly if `get` has something to show or a descriptor is closed.
  `wait()` on a closed descriptor answers an empty `Ready` at once, which a caller
  cannot tell from a timeout. Half-closed peers are reported by epoll (RDHUP is
  part of hup there) and not by poll.
- `TimeoutHonoured`: no timeout is overslept; less than a millisecond is cut off,
  so a shorter one does not wait at all, and what c_int cannot hold. How late
  the kernel wakes a thread is left out.
- `ExpirationsReported`: the sum of what `read` answered since `settime` and what
  it would answer now is the number of expirations due by the arguments of
  settime, on the clock the flags select.
- `ClockChangeNoticed`: the comment on `TimerCancelOnSet` says that it implies
  `Abstime`; without that the kernel ignores it.
- `GetTimeRestores`: the answer is relative to now, for absolute timers too, so
  it restores a timer when given back with `Default`.
- `NeverBlocks`: two workers may be told of one level-triggered timer or counter,
  and the second finds it empty; what `new` and `accept` give answers WouldBlock
  then, so no worker is lost in a read while its other sources wait.
- `OneAtATime`: with one-shot registrations, what a worker has in its hands, be it
  an event it has not come to, a read under way or a renewal, nobody else has, and
  it is not a stream that was closed. Events that a wait reported before a `delete`
  (sys/epoll.rs:79) therefore never name the next connection with that number.
- `EverythingTaken`: what arrives at a registered source is taken, with every
  combination of triggers and ways of reading in `Programs`, until the workers are
  told to stop. A connection that found no free number is the exception: with
  one-shot or edge-triggered listeners nothing tells of it again before the next.
- `AllStop`: one `wakeup` ends all workers whatever else is ready, because nobody
  calls `finish` and the Waker is level-triggered.
- `CloseObserved` holds for a single consumer that drains: with several, the
  `finish()` of one pop can swallow the `wake()` meant for another consumer.
- `OneEpollPerHandle`: with adds of one handle that do not overlap, the kernel
  has the handle in the epoll its `SelectorId` names and in no other.
  Registrations that a dropped handle left behind under a number that is used
  again (`orphans`) are not among those it speaks of; nothing in the crate
  prevents them.
- `RingMatchesMap`: the list is one cycle through the sentinel and exactly the
  entries the map owns, with consistent back links.
- `OnlyVacantOverfills`: whatever was done before, no call except
  `VacantEntry::insert` makes an over-full cache longer.
- `ImplementsExpiringMap`: seen through its unexpired entries, the cache loses
  pairs only to their time, to removal, or to eviction of the oldest, counts an
  expired entry as a miss, and loses nothing to an insert that panics. It does
  evict a live oldest pair while expired ones remain, and a pair renewed through
  an occupied entry keeps its place and is evicted as old; both are what the code
  does and the abstract map allows it.

### Bounds

Three threads give every pattern in which two calls disturb a third: a pusher
between two poppers, two poppers around a pusher. Capacity 2 distinguishes the
counter values the code compares with (0, 1, more). `MaxUsize = 9` is the
smallest that satisfies `QueueAssumption` with room; wrap-around happens (a pop
overtakes a push). `MaxCount = 2` makes the eventfd saturate in the queue runs;
in the loop runs it is large, since 2^64 - 2 unread wakeups cannot happen there,
and the pushes of 3 distinct values bound the run. In the loop every value is
pushed once, so `EveryValueTaken` is a property of each value.

Two handles suffice for clones, orphans and number reuse, two epolls for a
conflict. Three keys with capacities up to 3 reach a ring of four nodes and an
eviction from the middle of use order. A clock of 0..2 with durations 0..2
lets each of three entries be expired, about to expire, or live in any order;
an Instant ends at 3, so that a duration of 2 is out of range at the last clock
value only, and counters of 2 wrap.

In `epoll_events` a buffer of one event with two descriptors makes every wait a
partial one. The conditions of a descriptor carry flags that were not asked for
(PRI, RDHUP, ERR, HUP) next to those that were. In `poll`, timeouts of 1, 3 and 5
units of half a millisecond are cut to 0, rounded down to 1, and limited by
`MaxInt`; a cast without the limit would turn the last into a negative number.

In `event_loop` the six programs are: a level-triggered timer shared by two
workers; jobs taken one by one from a semaphore registered with `edge | level`; an
edge-triggered counter that is drained; a server with one-shot registrations;
the loop of `examples/timerfd.rs` over a blocking timer; and the same on a clock
that is never set. Two workers can hold events about one descriptor at once, two
stream numbers with three arrivals (connections and messages together) exhaust
the numbers, close one and use it again, and a buffer of two holds a second event
while the first is handled. The timers are set to expire once or several times
within the clock's range, and before or after it.

`CHECK_DEADLOCK FALSE` is set for two runs: in `loop`, when all values are pushed
and taken and every consumer waits, the program rests; in `event_loop`, when all
workers have ended and every bound is reached.

### Fairness

`Queue!FairSpec` and `LoopFairness` are weak fairness of the steps that finish a
call already begun, and of a consumer's loop: the operating system schedules
every thread, and no step of a call waits for another thread. The kernel is
fair to an epoll with a reportable event but not to a particular thread blocked
on it. No thread has to push, pop, close or wake. The closer's `wake()` after its
`close()` is its next statement, hence fair.

`EpollEvents!FairSpec` has the program call `wait` again and again while there is
something to report: it is an event loop. `Poll!FairSpec` lets time pass and the
kernel answer a call that is ready or out of time; no signal or error has to
come.

`EventLoop!LoopFairSpec` has every worker and the registering thread run on (weak
fairness), while nobody has to send, connect, set the timer or stop. Strong
fairness is assumed of the report of each source: the kernel's ready list is first
in, first out and a level-triggered descriptor goes to its end, so one that can be
reported again and again is, although in between another worker may hold it. Time
need not pass.

## 4. What is proved

Eight modules hold the theorems. Each is about the specification the runs check,
for every value of the constants that satisfies the module's assumption; the
assumptions bound nothing that the code does not bound.

| module | theorem | statement |
|---|---|---|
| `QueueProofs` | `TypeCorrect`, `AccountingCorrect`, `CounterAnnouncedCorrect`, `NoLostWakeup`, `QuietCorrect` | `Spec =>` always `TypeOK`, `PendingAccounting`, `CounterAnnounced`, `ValueAnnounced`, `QuietConsistent` |
| | `Implementation` | `Spec => ImplementsSignalledQueue` |
| | `QueueInLoop` | `LoopSpec => Spec` of Queue |
| | `LoopTypeCorrect` | `LoopSpec => []LoopTypeOK` |
| | `NobodySleeps` | `LoopSpec => [](setup.trigger = "level" => NoSleepOverValue)` |
| | `NobodySleepsEdge` | `LoopSpec /\ [](count < MaxCount) => [](EdgeDraining => NoSleepOverValue)` |
| `EpollEventsProofs` | `EventsTypeCorrect`, `ReadinessIsKept`, `OneShotFiresOnce` | `Spec =>` always `EventsTypeOK`, `ReadinessKept`, `OneShotOnce` |
| | `EventsTruthful` | `Spec => EventsTellTruth` |
| `PollProofs` | `PollTypeCorrect`, `NeverOversleeps`, `TellsTruth` | `Spec =>` always `PollTypeOK`, `TimeoutHonoured`; `Spec => PollTellsTruth` |
| `RegistrationProofs` | `TypeCorrect` | `Spec => []TypeOK` |
| | `OneEpoll`, `StaysHome` | if `~Overlap`: `Spec => []OneEpollPerHandle`, `Spec => SocketStaysHome` |
| `EventLoopProofs` | `TimerTypeCorrect`, `NothingMissed`, `CancelsOnSet`, `Restores` | TimerFd's `Spec =>` always `TimerTypeOK`, `ExpirationsReported`, `ClockChangeNoticed`, `GetTimeRestores` |
| | `TimerInLoop` | `LoopSpec => Spec` of TimerFd |
| | `LoopTypeCorrect`, `Ownership` | `LoopSpec =>` always `LoopTypeOK`, `OneAtATime` |
| | `Nonblocking` | `LoopSpec => [](MadeWithNew => NeverBlocks)` |
| `LruCacheProofs` | `CacheTypeCorrect`, `RingKept`, `WithinCapacity` | `PoplessSpec =>` always `TypeOK`, `RingMatchesMap`, `CapacityRespected` |
| | `DropsLeastRecent` | `PoplessSpec => ImplementsLru` |
| `TtlCacheProofs` | `TypeCorrect`, `IteratesAll` | `Spec =>` always `TypeOK`, `IterationComplete` |
| | `VacantOverfills`, `Refinement` | `Spec => OnlyVacantOverfills`, `Spec => ImplementsExpiringMap` |
| | `CapacityWithoutFills` | `CapacityRespected` always, if no vacant entry is filled |
| | `BackwardEndOfEqualTimes` | `BackwardEndIsFinal`, if all times to live are equal and no occupied entry is renewed |
| `SublistLemmas` | - | the laws of sequences that the others cite |

**The queue.** The theorems hold for any finite set of threads, any values, any
capacity and any widths of the two counters that satisfy `QueueAssumption` and
`MaxCountAssumption` (2^64 - 1 satisfies the first for any real number of
threads). `Outstanding` is the length of the queue plus the threads in `dec`
before their subtraction minus the threads before their addition. Every step
moves it and `pending` by the same amount (`OutstandingStep`), and it stays within
one unit per thread of 0..Capacity, which is why the assumption makes `pending`
decide its sign: `pending` in 1..Capacity + threads means that it is positive, 0
that it is zero, and the rest that it is negative.

`ValueAnnounced` is not inductive: a pusher between its push and its increment
excuses a value, and the increment may be silent. `CounterAnnounced` asks the
same whenever `Outstanding > 0` and does not accept that excuse; an increment is
silent only if `pending` was not zero, and then either it was positive and
somebody had announced already, or it was negative and `Outstanding` is still
not positive. For `dec`, a thread that saw 1 counts as a raiser until its
subtraction; `FinishSawOne` (a thread about to clear the descriptor did see 1)
shows that only such threads clear it, and the comparison `second > 1` that the
others, if any, rely on is decided by `pending`, hence by `Outstanding`.
`RaisersStay` carries the other threads' promises over a step.
`ValueAnnounced` follows: a value in the queue either makes `Outstanding`
positive or there is a pusher that has not incremented yet.

`Implementation` maps `signal` to "on" when the descriptor is readable, "owed"
when some thread will raise it, else "off", and goes through the steps one by
one, with the invariants above at both ends.

**The queue in a loop.** Every step of a program is a step of the queue or leaves
it alone (`QueueInLoop`), so the queue's theorems hold in the loop. What is added
is `Watched`: a level-triggered epoll that has the queue registered has it on its
list whenever it polls readable. With `QuietConsistent` that gives `NobodySleeps`.
With edge-triggered epolls the property needs that consumers drain, and
`Watched` is no help: a report takes the queue off the list, readable or not. The
invariant is `Told`, the analogue of `CounterAnnounced` one level up: outstanding
work has an event on some list, a thread that will write to the descriptor, or a
consumer that was told and is still popping. A consumer stops only at an empty
queue, and if work is outstanding then, others took it; `PoppersDrain` says that
these are draining consumers too (`DrainedByOthers`). The hypothesis
`count < MaxCount` is needed: a write to a saturated eventfd is refused, which
`wakeup()` hides, and a refused write makes no edge. With `MaxCount = 1` TLC finds
such a state in seconds; 2^64 - 2 wakeups without a read are needed in the kernel.
With level-triggered epolls it does not matter, and the theorem has no such
condition.

**Epoll events.** The inductive part is `Masked`: the kernel's mask is the one that
was asked for, or, of a one-shot descriptor that was reported once, only its marks,
which nothing shows. `MaskEffect` says of the conversion that a mask contains all
kernel flags that mean a readiness asked for and nothing else beyond ERR and HUP,
with the marks the options ask for, and `ConversionEffect` that what comes back
through `Events::get` is then the truth. A wait takes a prefix of the list
(`WaitEffect`), puts back the level-triggered, and so forgets only what shows
nothing.

**Sublists.** `Only(seq, S)` is the members of S in the order of seq. That it has
the right members (`ChosenEffect`) is proved by least counterexample; that
it commutes with concatenation, deletion, replacement and mapping (`OnlyConcat`,
`OnlyCut`, `Replace`, `OnlyMapped`) by `SeqInduction`: a *set* of sequences that has
the empty one and is closed under Append has all of them. (An induction theorem
about a predicate is out of the provers' reach, one about a set is not.)

**poll.** A call works on the buffer it was given (`Pending`), for which the
conversion of timeouts loses less than a millisecond or everything beyond c_int
(`MillisEffect`).

**Registration.** `TypeOK` holds under any interleaving. `OneEpollPerHandle` does
not: `registration_race` shows two overlapping adds of one handle. `OneEpoll`
proves that this is the only way: with `SeparateAdds`, that no two adds of one
handle are under way, which `~Overlap` gives, the id that an add checked is the id
that it stores and registers under. `StaysHome` follows for clones.

**The timer.** `OnSchedule` relates the kernel's timer to what was asked: the next
expiration is the first one not yet counted, on the clock that the flags select.
The rest is division with remainder (`DivMod`, `Distribute`, `Quotient`): running
the kernel's timer forward counts as many expirations as the difference of what is
due at both ends (`RunKeepsSchedule`).

**The event loop.** The invariant says of a worker alone what it can have in its
hands (`Placed`), that a one-shot source in somebody's hands is not reported to
anybody, because its mask has no IN until it is renewed (`Owned`), and that no two
workers hold one. A worker's `rest`, its events not yet handled, is part of what it
holds: that is what makes the reuse of a number safe, since a stream is closed by
the only worker that holds it. `MadeWithNew` (the timer and the counter were made
non-blocking) is the assumption of `Nonblocking`; streams and the listener are
non-blocking by `accept` and `new`.

**LruCache.** `Ring(h, L)` says that the links of h form one cycle through exactly
L. `DetachRing` and `AttachRing` show what the pointer assignments of `detach` and
`attach` do to it. The invariant adds that the entry of a key holds that key, so
that `remove_lru` finds the victim in the map, which is what `pop` destroys.
`change_capacity`'s loop is a recursive function; `EvictionsExist` and
`RemoveLrusEffect` show by least counterexample that it removes one entry at a time.

`DropsLeastRecent` relates the ring to the abstract list. `Linked(h, s)`: s lists
the entries from the most recent to the least, each node's `next` being the
following one. `DetachLinked` and `AttachLinked` show that the pointer assignments
cut a node out of s and put it ahead, `RemoveLruOrder` and `EvictOne` that an
eviction drops the last, which the recursive function then repeats. The lemmas
`ContentOfData`, `ContentCut`, `ContentAhead` and their like carry this from the
addresses to the pairs at them, and each call of the code is then the abstract one.

**TtlCache.** `TypeOK` says that no key is in the map twice and that what the caller
holds still refers to what it did. `Passed` is the invariant of an iterator: what it
has passed from either end was given or is expired, and expired entries stay so.
`Refinement` maps the cache to its live part, `Only(map, Fresh(now))`: time passing
is one more `Only` (`OnlyOnly`), an eviction is a `Drop` that the abstract map makes
of its oldest if it lived, and each call is a lookup, replacement or append under
the filter. `InOrder`, that the entries are in the order of their expirations,
is what makes `next_back` right for equal times to live.

Only model-checked: liveness (`SignalIsPrompt`, `EveryValueTaken`, `CloseObserved`,
`ReadyReported`, `CallReturns`, `EverythingTaken`, `AllStop`), which needs reasoning
about fairness and ENABLED that the prover does not do. Every invariant, action
property and refinement that a passing run checks has a theorem. Those of
`NoSleepOverValue`, `NeverBlocks`, `OneEpollPerHandle` and `SocketStaysHome` have a
condition, named in the table, without which they fail.

## 5. What is not modelled, and the plan

Not modelled: memory orderings weaker than sequential consistency; file
descriptors taken out of their owners and put into others (`from_raw_fd`, `into_raw_fd`);
failure to create a descriptor; a clock that is set back and the suspension of
the machine; writes to sockets and back-pressure, datagrams, and the socket
options, which forward to std; `Debug` and `Clone` of the TtlCache, the latter a
second cache that shares nothing with the first; the wrappers in `sys/fd.rs`,
`sys/socket.rs` and `sys/mod.rs`, which keep no state.

Done, in this order: (1) EventFd, Waker, Queue, SignalledQueue; (2) QueueProofs;
(3) QueueLoop; (4) LruCache, TtlCache and their abstract specifications;
(5) Registration; (6) EventMasks, EpollEvents; (7) Poll; (8) TimerFd; (9) the
statistics and panics of TtlCache; (10) EventLoop; (11) the other proof modules; (12) Sublists and its lemmas, TtlCacheProofs, and the
refinement of Lru; (13) edge-triggered epolls in QueueProofs.

To do:

1. **QueueLoop**: one-shot registrations renewed by `modify`, and a queue next to
   another source in EventLoop.
2. **Sockets**: writability in EventLoop, with a stream whose buffer is full.
3. **Proofs**: a bound on the wakeups of a program that pushes finitely often, to
   replace `count < MaxCount` in `NobodySleepsEdge`; what `pop` of the LruCache
   leaves intact; the safety half of what liveness rests on, such as that a worker
   with events in hand always has a step.
