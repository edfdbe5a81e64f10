----------------------------- MODULE QueueLoop -----------------------------
(***************************************************************************)
(* A Queue used the way src/epoll is meant to be used: consumers register  *)
(* it with an epoll (Source::add), block in Epoll::wait and pop when they  *)
(* are told that it is readable, while producers push from other threads   *)
(* and a closer shuts it down.                                             *)
(*                                                                         *)
(* The kernel side of epoll is external.  The queue's descriptor is on the *)
(* ready list of an epoll after a successful write to it, or after it was  *)
(* registered while readable.  wait() reports a descriptor of the list if  *)
(* it still polls readable, and takes it off the list if it does not or if *)
(* it is registered with EPOLLET.                                          *)
(***************************************************************************)
EXTENDS Queue

CONSTANTS
  Epolls,
  Setups   \* the programs that are checked, one of which runs

\* A program has producers, consumers, each with the epoll it waits on, and
\* closers; it registers with EpollOpt::level() or EpollOpt::edge(), and its
\* consumers pop once after an event or drain, until pop gives an error.
ASSUME LoopAssumption ==
  \A s \in Setups :
    /\ s.producers \cup s.consumers \cup s.closers \subseteq Threads
    /\ s.consumers # {}
    /\ s.epollOf \in [s.consumers -> Epolls]
    /\ s.trigger \in {"level", "edge"}
    /\ s.draining \in BOOLEAN

VARIABLES
  setup,        \* the program
  registered,   \* the epolls the queue is registered with
  listed,       \* the epolls that have it on their ready list
  loop,         \* where each thread is in its program, between queue calls
  sent          \* the values pushed so far; each is pushed once

loopVars == <<queueVars, setup, registered, listed, loop, sent>>

LoopInit ==
  /\ Init
  /\ setup \in Setups
  /\ registered = {}
  /\ listed = {}
  /\ loop = [t \in Threads |-> "start"]
  /\ sent = {}

\* A write that succeeds puts the descriptor on every ready list.
Notify == listed' = IF count' > count THEN registered ELSE listed

Continue(t, from, to) == loop[t] = from /\ loop' = [loop EXCEPT ![t] = to]

\* The next step of a queue call in progress.
CallStep(t) ==
  /\ Resume(t)
  /\ Notify
  /\ UNCHANGED <<setup, registered, loop, sent>>

Produce(t) ==
  /\ \E v \in Values \ sent : PushValue(t, v) /\ sent' = sent \cup {v}
  /\ UNCHANGED <<setup, registered, listed, loop>>

\* Epoll::add, up to and including epoll_ctl; Source::add goes on from there.
Register(c) ==
  LET e == setup.epollOf[c] IN
  /\ e \notin registered
  /\ AddCtl(c)
  /\ Continue(c, "start", "wait")
  /\ registered' = registered \cup {e}
  /\ listed' = IF PollsReadable THEN listed \cup {e} ELSE listed
  /\ UNCHANGED <<setup, sent>>

\* The epoll was given to this consumer with the queue registered.
Join(c) ==
  /\ setup.epollOf[c] \in registered
  /\ Continue(c, "start", "wait")
  /\ UNCHANGED <<queueVars, setup, registered, listed, sent>>

\* Epoll::wait returns the event to a consumer blocked in it.
WaitReports(c) ==
  LET e == setup.epollOf[c] IN
  /\ pc[c] = "idle"
  /\ e \in listed
  /\ PollsReadable
  /\ Continue(c, "wait", "pop")
  /\ listed' = IF setup.trigger = "edge" THEN listed \ {e} ELSE listed
  /\ UNCHANGED <<queueVars, setup, registered, sent>>

\* Epoll::wait finds the descriptor unreadable again and keeps blocking.
WaitDrops(c) ==
  LET e == setup.epollOf[c] IN
  /\ pc[c] = "idle" /\ loop[c] = "wait"
  /\ e \in listed
  /\ ~PollsReadable
  /\ listed' = listed \ {e}
  /\ UNCHANGED <<queueVars, setup, registered, loop, sent>>

PopSucceeds(c) ==
  /\ PopValue(c)
  /\ Continue(c, "pop", IF setup.draining THEN "pop" ELSE "wait")
  /\ UNCHANGED <<setup, registered, listed, sent>>

\* PopError::Empty sends the consumer back to wait, PopError::Closed ends it.
PopFails(c) ==
  /\ pc[c] = "idle"
  /\ queue = <<>>
  /\ Continue(c, "pop", IF closed THEN "done" ELSE "wait")
  /\ UNCHANGED <<queueVars, setup, registered, listed, sent>>

\* close() wakes nobody, so wake() follows.
BeginClose(t) ==
  /\ Close(t)
  /\ Continue(t, "start", "closing")
  /\ UNCHANGED <<setup, registered, listed, sent>>

WakeAfterClose(t) ==
  /\ Wake(t)
  /\ Notify
  /\ Continue(t, "closing", "done")
  /\ UNCHANGED <<setup, registered, sent>>

-----------------------------------------------------------------------------

\* A consumer that is not blocked goes on.
Proceed(c) == Register(c) \/ Join(c) \/ PopSucceeds(c) \/ PopFails(c)

\* One of the consumers blocked on epoll e is given the event.
Report(e) == \E c \in setup.consumers : setup.epollOf[c] = e /\ WaitReports(c)

LoopNext ==
  \/ \E t \in Threads : CallStep(t)
  \/ \E t \in setup.producers : Produce(t)
  \/ \E c \in setup.consumers :
       \/ Register(c) \/ Join(c)
       \/ WaitReports(c) \/ WaitDrops(c)
       \/ PopSucceeds(c) \/ PopFails(c)
  \/ \E t \in setup.closers : BeginClose(t) \/ WakeAfterClose(t)

LoopSpec == LoopInit /\ [][LoopNext]_loopVars

\* Threads run: a consumer registers, pops and comes back to wait, a call
\* in progress goes on, a closer that has closed wakes.  The kernel reports
\* an event to one of the threads blocked on its epoll, to which is its own
\* choice.  Nobody is obliged to push or to close.
LoopFairness ==
  /\ \A t \in Threads :
       /\ WF_loopVars(CallStep(t))
       /\ WF_loopVars(t \in setup.consumers /\ Proceed(t))
       /\ WF_loopVars(t \in setup.closers /\ WakeAfterClose(t))
  /\ \A e \in Epolls :
       WF_loopVars(Report(e))

LoopFairSpec == LoopSpec /\ LoopFairness

-----------------------------------------------------------------------------
(* Properties.                                                             *)

LoopTypeOK ==
  /\ TypeOK
  /\ setup \in Setups
  /\ listed \subseteq registered /\ registered \subseteq Epolls
  /\ loop \in [Threads -> {"start", "wait", "pop", "closing", "done"}]
  /\ sent \subseteq Values

\* When every thread is between calls and every consumer is blocked, a value
\* left in the queue has an event waiting in an epoll: nobody sleeps over it.
NoSleepOverValue ==
  Quiet /\ queue # <<>> /\ (\A c \in setup.consumers : loop[c] = "wait") =>
    PollsReadable /\ listed # {}

\* Every value that was pushed is popped, whenever the push falls between
\* registration, wait, pop and the two halves of another call.
EveryValueTaken ==
  \A v \in Values :
    (\E i \in DOMAIN queue : queue[i] = v) ~> ~(\E i \in DOMAIN queue : queue[i] = v)

\* A consumer that pops until it gets an error ends after close() and wake().
CloseObserved ==
  (\E t \in setup.closers : loop[t] = "closing") ~> (\A c \in setup.consumers : loop[c] = "done")
=============================================================================
