----------------------------- MODULE EventLoop -----------------------------
(***************************************************************************)
(* Worker threads around one epoll, the way the crate is meant to be used: *)
(* a TimerFd, an EventFd that counts jobs, a listener with the streams it  *)
(* accepts, and a Waker that stops them all.  A worker waits, goes through *)
(* the events, handles one by reading or accepting, once or until          *)
(* WouldBlock, renews a one-shot registration with modify, deletes and     *)
(* closes a stream whose peer is gone, and ends when it sees the Waker.    *)
(*                                                                         *)
(* What the program does between the calls, the peers and the kernel are   *)
(* external.  A descriptor that got input is on the ready list while its   *)
(* mask has IN; wait() passes over the ones that have nothing any more.    *)
(***************************************************************************)
EXTENDS TimerFd, EventMasks, FiniteSetsExt

CONSTANTS
  Workers,
  Streams,      \* descriptor numbers for accepted connections
  Programs,     \* the programs that are checked, one of which runs
  BufferSize,   \* Events::with_capacity, of each worker
  MaxArrivals,  \* bound of jobs, connections and messages together
  MaxCount      \* of the eventfds

\* A program registers its sources with opts, except for the Waker, which is
\* level-triggered, and makes its timer and its job counter with the flags;
\* or workers of it read the timer directly.  Workers that share streams
\* need one-shot registrations: each stream has one owner.
ASSUME EventLoopAssumption ==
  /\ BufferSize \in Nat \ {0} /\ MaxArrivals \in Nat
  /\ Streams \cap {"timer", "jobs", "listener", "stop", "none"} = {}
  /\ \A p \in Programs :
       /\ p.sources \subseteq {"timer", "jobs", "listener", "stop"}
       /\ p.opts \in EpollOpt
       /\ p.draining \in BOOLEAN
       /\ p.direct \subseteq Workers
       /\ p.clockId \in Clock
       /\ p.timerFlags \cup p.jobFlags \subseteq {"CLOEXEC", "NONBLOCK", "SEMAPHORE"}
       /\ p.settings \subseteq [interval : Durations, value : Durations, flags : SetTimeFlags]
       /\ "listener" \in p.sources => Contains(p.opts, OneShot)
       /\ p.direct # {} => ~Contains(p.opts, OneShot)

VARIABLES
  program,
  flags,        \* of each descriptor
  mask, listed, \* the kernel's interest and ready lists
  at,           \* what each worker does, with which descriptor, and the events
                \* it has not come to
  stop, jobs,   \* counters of the Waker and of the job EventFd
  backlog,      \* connections not accepted yet
  open,         \* streams
  data, ended,  \* those with unread data, and those whose peer has closed
  arrivals

Stop == INSTANCE Waker WITH count <- stop
Jobs == INSTANCE EventFd WITH count <- jobs

socketVars == <<backlog, open, data, ended>>
inputVars == <<timerVars, stop, jobs, socketVars>>
epollVars == <<mask, listed>>
eventLoopVars == <<inputVars, program, flags, epollVars, at, arrivals>>

Sources == {"timer", "jobs", "listener", "stop"} \cup Streams

-----------------------------------------------------------------------------
(* Descriptors.                                                            *)

\* What the constructors ask for.  Mutants: one that forgets the mode, and
\* accept with the constructor that leaves it.
TimerFdNewBlocking == {"CLOEXEC"}
TimerFdNew == {"CLOEXEC", "NONBLOCK"}
EventFdNew == {"CLOEXEC", "NONBLOCK"}

\* TcpListener::new, and accept with TcpStream::new, over what std gives.
Listener(inner) == inner \cup {"NONBLOCK"}
AcceptedFromStream(inner) == inner
Accepted(inner) == inner \cup {"NONBLOCK"}
Std == {"CLOEXEC"}

HasInput(d) ==
  \/ d = "timer" /\ (ticks > 0 \/ (cancelable /\ cancelled))
  \/ d = "stop" /\ Stop!PollsReadable
  \/ d = "jobs" /\ Jobs!PollsReadable
  \/ d = "listener" /\ backlog > 0
  \/ d \in data \cup ended

OptsOf(d) == IF d = "stop" THEN Level ELSE program.opts

\* Source::add and modify, for readable and hup.
Ask(d) ==
  /\ mask' = [mask EXCEPT ![d] = InterestMask(Readable \cup Hup) \cup OptMask(OptsOf(d))
                                   \cup {"ERR", "HUP"}]
  /\ listed' = IF HasInput(d) THEN listed \cup {d} ELSE listed

\* New input at d, if there is some.
Notify(d, some) ==
  /\ listed' = IF some /\ "IN" \in mask[d] THEN listed \cup {d} ELSE listed
  /\ UNCHANGED mask

-----------------------------------------------------------------------------
(* Workers.                                                                *)

Doing(step, d) == [step |-> step, source |-> d, rest |-> {}]
Idle == Doing("wait", "none")

Goes(w, step, d) == at' = [at EXCEPT ![w].step = step, ![w].source = d]

\* The event about d is done with.
Finishes(w, d) ==
  IF Contains(OptsOf(d), OneShot) THEN Goes(w, "renew", d) ELSE Goes(w, "wait", "none")

\* A read or accept gave something.
Continues(w, d) == IF program.draining THEN Goes(w, "handle", d) ELSE Finishes(w, d)

LoopInit ==
  /\ Init
  /\ program \in {p \in Programs : p.clockId = clockId}
  /\ flags = [d \in Sources |-> CASE d = "timer" -> program.timerFlags
                                  [] d = "jobs" -> program.jobFlags
                                  [] d = "stop" -> EventFdNew
                                  [] d = "listener" -> Listener(Std)
                                  [] OTHER -> {}]
  /\ mask = [d \in Sources |-> {}] /\ listed = {}
  /\ at = [w \in Workers |-> IF w \in program.direct THEN Doing("handle", "timer") ELSE Idle]
  /\ Stop!InitEventFd /\ Jobs!InitEventFd
  /\ backlog = 0 /\ open = {} /\ data = {} /\ ended = {}
  /\ arrivals = 0

\* The main thread adds a source, workers waiting or not.
Register(d) ==
  /\ d \in program.sources
  /\ mask[d] = {}
  /\ Ask(d)
  /\ UNCHANGED <<inputVars, program, flags, at, arrivals>>

\* Epoll::wait returns to w: with the whole ready list, if the buffer has room.
Report(w, batch) ==
  LET ready == {d \in listed : HasInput(d) /\ "IN" \in mask[d]}
  IN  /\ at[w] = Idle
      /\ batch \in kSubset(IF Cardinality(ready) < BufferSize THEN Cardinality(ready)
                                                          ELSE BufferSize, ready)
      /\ batch # {}
      /\ at' = [at EXCEPT ![w].rest = batch]
      /\ listed' = listed \ {d \in batch : mask[d] \cap {"ET", "ONESHOT"} # {}}
      /\ mask' = [d \in Sources |-> IF d \in batch /\ "ONESHOT" \in mask[d]
                                     THEN mask[d] \cap {"ET", "ONESHOT"} ELSE mask[d]]
      /\ UNCHANGED <<inputVars, program, flags, arrivals>>

\* The next event of the iterator over the buffer, in any order.
NextEvent(w, d) ==
  /\ at[w].step = "wait" /\ d \in at[w].rest
  /\ at' = [at EXCEPT ![w] = [Doing("handle", d) EXCEPT !.rest = at[w].rest \ {d}]]
  /\ UNCHANGED <<inputVars, program, flags, epollVars, arrivals>>

\* w reads or accepts, or is blocked in it, and there is something.
Takes(w, d) ==
  /\ at[w].step \in {"handle", "blocked"} /\ at[w].source = d
  /\ HasInput(d)
  /\ UNCHANGED <<program, epollVars, arrivals>>

TakeTicks(w) ==
  /\ Takes(w, "timer")
  /\ Read \/ ReadCancelled
  /\ Continues(w, "timer")
  /\ UNCHANGED <<flags, stop, jobs, socketVars>>

TakeJob(w) ==
  /\ Takes(w, "jobs")
  /\ IF "SEMAPHORE" \in flags["jobs"] THEN Jobs!ReadOne ELSE Jobs!Read
  /\ Continues(w, "jobs")
  /\ UNCHANGED <<timerVars, flags, stop, socketVars>>

\* The Waker stays up, for the others.
SeeStop(w) ==
  /\ Takes(w, "stop")
  /\ at' = [at EXCEPT ![w] = Doing("end", "none")]
  /\ UNCHANGED <<inputVars, flags>>

Accept(w) ==
  /\ Takes(w, "listener")
  /\ open # Streams
  /\ LET s == CHOOSE s \in Streams \ open : TRUE   \* the lowest free number
     IN  /\ open' = open \cup {s}
         /\ flags' = [flags EXCEPT ![s] = Accepted(Std)]
         /\ Goes(w, "add", s)
  /\ backlog' = backlog - 1
  /\ UNCHANGED <<timerVars, stop, jobs, data, ended>>

\* No number is free (EMFILE): the connection stays in the backlog.
AcceptFails(w) ==
  /\ Takes(w, "listener")
  /\ open = Streams
  /\ Finishes(w, "listener")
  /\ UNCHANGED <<inputVars, flags>>

\* Its SelectorId is fresh, so the check passes.
AddStream(w) ==
  /\ at[w].step = "add"
  /\ Ask(at[w].source)
  /\ Continues(w, "listener")
  /\ UNCHANGED <<inputVars, program, flags, arrivals>>

TakeData(w, s) ==
  /\ s \in data
  /\ Takes(w, s)
  /\ data' = data \ {s}
  /\ Continues(w, s)
  /\ UNCHANGED <<timerVars, flags, stop, jobs, backlog, open, ended>>

\* A read of length zero.
TakeEnd(w, s) ==
  /\ s \in ended \ data
  /\ Takes(w, s)
  /\ Goes(w, "delete", s)
  /\ UNCHANGED <<inputVars, flags>>

Delete(w) ==
  /\ at[w].step = "delete"
  /\ mask' = [mask EXCEPT ![at[w].source] = {}]
  /\ listed' = listed \ {at[w].source}
  /\ Goes(w, "close", at[w].source)
  /\ UNCHANGED <<inputVars, program, flags, arrivals>>

\* The stream is dropped and its number free.
Close(w) ==
  /\ at[w].step = "close"
  /\ open' = open \ {at[w].source} /\ ended' = ended \ {at[w].source}
  /\ flags' = [flags EXCEPT ![at[w].source] = {}]
  /\ Goes(w, "wait", "none")
  /\ UNCHANGED <<timerVars, stop, jobs, backlog, data, program, epollVars, arrivals>>

Empties(w, d) ==
  /\ at[w].step = "handle" /\ at[w].source = d
  /\ ~HasInput(d)
  /\ UNCHANGED <<inputVars, program, flags, epollVars, arrivals>>

WouldBlock(w, d) ==
  /\ Empties(w, d)
  /\ "NONBLOCK" \in flags[d]
  /\ Finishes(w, d)

Block(w, d) ==
  /\ Empties(w, d)
  /\ "NONBLOCK" \notin flags[d]
  /\ Goes(w, "blocked", d)

Renew(w) ==
  /\ at[w].step = "renew"
  /\ Ask(at[w].source)
  /\ Goes(w, "wait", "none")
  /\ UNCHANGED <<inputVars, program, flags, arrivals>>

-----------------------------------------------------------------------------
(* Everybody else.                                                         *)

World == UNCHANGED <<program, flags, at>>

TimePasses ==
  /\ program.settings # {}     \* nothing else depends on time
  /\ Pass
  /\ Notify("timer", ticks' > ticks)
  /\ World /\ UNCHANGED <<stop, jobs, socketVars, arrivals>>

ClockIsSet ==
  /\ program.settings # {}
  /\ SetClock
  /\ Notify("timer", ticks' > ticks \/ cancelled' # cancelled)
  /\ World /\ UNCHANGED <<stop, jobs, socketVars, arrivals>>

SetTimer ==
  /\ \E s \in program.settings : SetTime(s.interval, s.value, s.flags)
  /\ Notify("timer", ticks' > 0)
  /\ World /\ UNCHANGED <<stop, jobs, socketVars, arrivals>>

Stopping ==
  /\ "stop" \in program.sources /\ stop = 0
  /\ Stop!Wakeup
  /\ Notify("stop", TRUE)
  /\ World /\ UNCHANGED <<timerVars, jobs, socketVars, arrivals>>

Arrives(d) ==
  /\ arrivals < MaxArrivals
  /\ arrivals' = arrivals + 1
  /\ Notify(d, TRUE)
  /\ World /\ UNCHANGED <<timerVars, stop>>

PostJob ==
  /\ "jobs" \in program.sources
  /\ Arrives("jobs")
  /\ Jobs!Write(1)
  /\ UNCHANGED socketVars

Connect ==
  /\ "listener" \in program.sources
  /\ Arrives("listener")
  /\ backlog' = backlog + 1
  /\ UNCHANGED <<jobs, open, data, ended>>

Send(s) ==
  /\ s \in open \ ended
  /\ Arrives(s)
  /\ data' = data \cup {s}
  /\ UNCHANGED <<jobs, backlog, open, ended>>

PeerCloses(s) ==
  /\ s \in open \ ended
  /\ ended' = ended \cup {s}
  /\ Notify(s, TRUE)
  /\ World /\ UNCHANGED <<timerVars, stop, jobs, backlog, open, data, arrivals>>

-----------------------------------------------------------------------------

Works(w) ==
  \/ TakeTicks(w) \/ TakeJob(w) \/ SeeStop(w)
  \/ Accept(w) \/ AcceptFails(w)
  \/ AddStream(w) \/ Delete(w) \/ Close(w) \/ Renew(w)
  \/ \E s \in Streams : TakeData(w, s) \/ TakeEnd(w, s)
  \/ \E d \in Sources : NextEvent(w, d) \/ WouldBlock(w, d) \/ Block(w, d)

LoopNext ==
  \/ \E d \in Sources : Register(d)
  \/ \E w \in Workers, batch \in SUBSET listed : Report(w, batch)
  \/ \E w \in Workers : Works(w)
  \/ TimePasses \/ ClockIsSet \/ SetTimer
  \/ Stopping \/ PostJob \/ Connect
  \/ \E s \in Streams : Send(s) \/ PeerCloses(s)

LoopSpec == LoopInit /\ [][LoopNext]_eventLoopVars

\* Workers run.  The ready list is first in, first out, and a descriptor that
\* stays on it goes to its end: one that can be reported again and again is.
LoopFairSpec ==
  /\ LoopSpec
  /\ \A w \in Workers : WF_eventLoopVars(Works(w))
  /\ WF_eventLoopVars(\E d \in Sources : Register(d))
  /\ \A d \in Sources :
       SF_eventLoopVars(\E w \in Workers, batch \in SUBSET listed :
                          d \in batch /\ Report(w, batch))

-----------------------------------------------------------------------------
(* Properties.                                                             *)

LoopTypeOK ==
  /\ TimerTypeOK
  /\ program \in Programs
  /\ \A d \in listed : mask[d] # {}
  /\ data \cup ended \cup {s \in Streams : mask[s] # {}} \subseteq open
  /\ at \in [Workers -> [step : {"wait", "handle", "blocked", "add", "renew", "delete", "close", "end"},
                         source : Sources \cup {"none"}, rest : SUBSET Sources]]
  /\ arrivals <= MaxArrivals

\* A worker that waits for events never blocks in a read or accept of a
\* descriptor made by new() or accept(), although another worker may have
\* taken what the event was about.
NeverBlocks == \A w \in Workers : at[w].step = "blocked" => w \in program.direct

\* The work sources a worker has in its hands.
Holds(w) ==
  (at[w].rest \cup {at[w].source} \cup IF at[w].step = "add" THEN {"listener"} ELSE {})
    \ {"stop", "none"}

\* With one-shot registrations a descriptor is in the hands of one worker,
\* from the event to the renewal or the close: no worker comes to an event
\* that another has dealt with, or to one about a connection that had the
\* number before.
OneAtATime ==
  Contains(program.opts, OneShot) =>
    /\ \A v, w \in Workers : v # w => Holds(v) \cap Holds(w) = {}
    /\ \A w \in Workers : Holds(w) \cap Streams \subseteq open

\* What arrives is taken, unless the workers are told to stop or there is no
\* number for a connection.
EverythingTaken ==
  \A d \in Sources \ {"stop"} :
    HasInput(d) /\ mask[d] # {} ~>
      ~HasInput(d) \/ stop > 0 \/ (d = "listener" /\ open = Streams)

\* One wakeup of the Waker ends all workers, whatever else is ready.
AllStop == stop > 0 ~> \A w \in Workers : at[w].step = "end"
=============================================================================
