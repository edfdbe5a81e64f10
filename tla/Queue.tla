------------------------------- MODULE Queue -------------------------------
(***************************************************************************)
(* src/queue.rs: a concurrent queue that can be registered with an epoll.  *)
(*                                                                         *)
(* Every clone of a Queue shares one QueueInner: the concurrent_queue, the *)
(* atomic counter pending and the Waker.  push and pop touch the three one *)
(* after another without a lock, so each access is a step of its own and   *)
(* pc[t] is what thread t does next.  A call that changes nothing (push on *)
(* a full or closed queue, pop on an empty one) is no step at all.         *)
(***************************************************************************)
EXTENDS Waker, Integers, Sequences, FiniteSets

CONSTANTS
  Threads,    \* the threads that hold a clone of the Queue
  Values,     \* what is pushed
  Capacity,   \* bounded(cap); for unbounded(), a length the run never exceeds
  MaxUsize    \* usize::MAX, where the counter pending wraps

\* MaxUsize leaves room for one negative unit per thread below zero and one
\* surplus unit per thread above the capacity, as 2^64 - 1 always does.
ASSUME QueueAssumption ==
  /\ IsFiniteSet(Threads)
  /\ Capacity \in Nat \ {0}
  /\ MaxUsize \in Nat
  /\ Capacity + 2 * Cardinality(Threads) <= MaxUsize

VARIABLES
  queue,      \* contents of the concurrent_queue
  closed,     \* whether close() was called
  pending,    \* the atomic counter, 0 .. MaxUsize
  pc,         \* next step of each thread
  first       \* the local variable of dec(); 0 when dead

queueVars == <<queue, closed, pending, count, pc, first>>

Steps == {"idle", "inc", "inc_wake",
          "dec_load", "dec_finish", "dec_sub", "dec_wake",
          "add_load", "add_wake"}

Init ==
  /\ InitEventFd
  /\ queue = <<>>
  /\ closed = FALSE
  /\ pending = 0
  /\ pc = [t \in Threads |-> "idle"]
  /\ first = [t \in Threads |-> 0]

Goto(t, from, to) == pc[t] = from /\ pc' = [pc EXCEPT ![t] = to]

\* fetch_add and fetch_sub on an AtomicUsize wrap around.
WrapInc(n) == IF n = MaxUsize THEN 0 ELSE n + 1
\* Mutant: a counter that goes below zero.
WrapDecNever(n) == n - 1
WrapDec(n) == IF n = 0 THEN MaxUsize ELSE n - 1

-----------------------------------------------------------------------------
(* push: queue.push(value), then inc().                                    *)

PushValue(t, v) ==
  /\ ~closed
  /\ Len(queue) < Capacity
  /\ queue' = Append(queue, v)
  /\ Goto(t, "idle", "inc")
  /\ UNCHANGED <<closed, pending, count, first>>

\* let cnt = pending.fetch_add(1); the waker is raised only when cnt was 0.
\* Mutant: the value after the increment is taken for the one before it.
IncAddOffByOne(t) ==
  /\ Goto(t, "inc", IF pending = 1 THEN "inc_wake" ELSE "idle")
  /\ pending' = WrapInc(pending)
  /\ UNCHANGED <<queue, closed, count, first>>

IncAdd(t) ==
  /\ Goto(t, "inc", IF pending = 0 THEN "inc_wake" ELSE "idle")
  /\ pending' = WrapInc(pending)
  /\ UNCHANGED <<queue, closed, count, first>>

IncWake(t) ==
  /\ Goto(t, "inc_wake", "idle")
  /\ SetReadiness(Readable)
  /\ UNCHANGED <<queue, closed, pending, first>>

-----------------------------------------------------------------------------
(* pop: queue.pop(), then dec() if a value came out.                       *)

PopValue(t) ==
  /\ queue # <<>>
  /\ queue' = Tail(queue)
  /\ Goto(t, "idle", "dec_load")
  /\ UNCHANGED <<closed, pending, count, first>>

\* Mutant: the waker is also lowered when the counter was already zero.
DecLoadAtMostOne(t) ==
  /\ Goto(t, "dec_load", IF pending <= 1 THEN "dec_finish" ELSE "dec_sub")
  /\ first' = [first EXCEPT ![t] = pending]
  /\ UNCHANGED <<queue, closed, pending, count>>

DecLoad(t) ==
  /\ Goto(t, "dec_load", IF pending = 1 THEN "dec_finish" ELSE "dec_sub")
  /\ first' = [first EXCEPT ![t] = pending]
  /\ UNCHANGED <<queue, closed, pending, count>>

DecFinish(t) ==
  /\ Goto(t, "dec_finish", "dec_sub")
  /\ SetReadiness(Empty)
  /\ UNCHANGED <<queue, closed, pending, first>>

\* Mutant: the waker is not raised again.
DecSubSilent(t) ==
  /\ Goto(t, "dec_sub", "idle")
  /\ pending' = WrapDec(pending)
  /\ first' = [first EXCEPT ![t] = 0]
  /\ UNCHANGED <<queue, closed, count>>

\* Mutant: a store of first - 1 instead of an atomic fetch_sub.
DecSubStores(t) ==
  /\ Goto(t, "dec_sub",
          IF first[t] = 1 /\ pending > 1 THEN "dec_wake" ELSE "idle")
  /\ pending' = WrapDec(first[t])
  /\ first' = [first EXCEPT ![t] = 0]
  /\ UNCHANGED <<queue, closed, count>>

\* Mutant: a compare-and-swap loop that never loads the counter again.
DecSubSpins(t) ==
  /\ Goto(t, "dec_sub", IF first[t] = pending THEN "idle" ELSE "dec_sub")
  /\ pending' = IF first[t] = pending THEN WrapDec(pending) ELSE pending
  /\ UNCHANGED <<queue, closed, count, first>>

\* let second = pending.fetch_sub(1); raise the waker again when the counter
\* was 1 at the load but more than 1, as an unsigned number, here.
DecSub(t) ==
  /\ Goto(t, "dec_sub",
          IF first[t] = 1 /\ pending > 1 THEN "dec_wake" ELSE "idle")
  /\ pending' = WrapDec(pending)
  /\ first' = [first EXCEPT ![t] = 0]
  /\ UNCHANGED <<queue, closed, count>>

DecWake(t) ==
  /\ Goto(t, "dec_wake", "idle")
  /\ SetReadiness(Readable)
  /\ UNCHANGED <<queue, closed, pending, first>>

-----------------------------------------------------------------------------
(* The other operations that change state.                                 *)

Close(t) ==
  /\ pc[t] = "idle"
  /\ closed' = TRUE
  /\ UNCHANGED <<queue, pending, count, pc, first>>

\* Mutant: wake() does nothing when nothing is pending.
WakeIfPending(t) ==
  /\ pc[t] = "idle"
  /\ IF pending > 0 THEN SetReadiness(Readable) ELSE UNCHANGED count
  /\ UNCHANGED <<queue, closed, pending, pc, first>>

\* wake(): raise the waker whatever the queue holds.
Wake(t) ==
  /\ pc[t] = "idle"
  /\ SetReadiness(Readable)
  /\ UNCHANGED <<queue, closed, pending, pc, first>>

\* Source::add: epoll_ctl on the waker's descriptor (which changes only the
\* epoll), then a load of pending, then possibly a raise.
AddCtl(t) ==
  /\ Goto(t, "idle", "add_load")
  /\ UNCHANGED <<queue, closed, pending, count, first>>

AddLoad(t) ==
  /\ Goto(t, "add_load", IF pending > 0 THEN "add_wake" ELSE "idle")
  /\ UNCHANGED <<queue, closed, pending, count, first>>

AddWake(t) ==
  /\ Goto(t, "add_wake", "idle")
  /\ SetReadiness(Readable)
  /\ UNCHANGED <<queue, closed, pending, first>>

-----------------------------------------------------------------------------

\* The steps that finish a call already begun.
Resume(t) ==
  \/ IncAdd(t) \/ IncWake(t)
  \/ DecLoad(t) \/ DecFinish(t) \/ DecSub(t) \/ DecWake(t)
  \/ AddLoad(t) \/ AddWake(t)

\* The steps that begin a call.
Call(t) ==
  \/ \E v \in Values : PushValue(t, v)
  \/ PopValue(t)
  \/ Close(t) \/ Wake(t) \/ AddCtl(t)

Next == \E t \in Threads : Call(t) \/ Resume(t)

Spec == Init /\ [][Next]_queueVars

\* A call that was begun is finished: the operating system runs every thread
\* again.  Nothing obliges a thread to begin a call.
FairSpec == Spec /\ \A t \in Threads : WF_queueVars(Resume(t))

-----------------------------------------------------------------------------
(* Properties.                                                             *)

TypeOK ==
  /\ queue \in Seq(Values)
  /\ Len(queue) <= Capacity
  /\ closed \in BOOLEAN
  /\ pending \in 0 .. MaxUsize
  /\ count \in 0 .. MaxCount
  /\ pc \in [Threads -> Steps]
  /\ first \in [Threads -> 0 .. MaxUsize]

\* Threads that pushed and have not incremented the counter yet, and threads
\* that popped and have not decremented it yet.
Pushers == {t \in Threads : pc[t] = "inc"}
Poppers == {t \in Threads : pc[t] \in {"dec_load", "dec_finish", "dec_sub"}}

\* What pending stands for: negative while pops overtake the increments of
\* the pushes whose values they took.
Outstanding == Len(queue) + Cardinality(Poppers) - Cardinality(Pushers)

\* The counter is the queue's length corrected by the calls in flight, up to
\* wrap-around: no interleaving of pushes and pops loses or invents a unit
\* (queue.rs:43-78 updates queue and counter in separate steps).
PendingAccounting ==
  pending = IF Outstanding >= 0 THEN Outstanding ELSE Outstanding + MaxUsize + 1

\* A thread that is bound to raise the waker if a raise is still needed when
\* it takes its next steps.
WillRaise(t) ==
  \/ pc[t] \in {"inc", "inc_wake", "dec_wake"}
  \/ pc[t] = "dec_sub" /\ first[t] = 1

\* No lost wakeup: a value in the queue is announced by a readable descriptor
\* or by a thread that is about to announce it.  At risk in dec() (queue.rs:
\* 52-66), which clears the descriptor before it knows that it took the last
\* value, and in inc(), which stays silent unless the counter was 0.
ValueAnnounced ==
  queue # <<>> => PollsReadable \/ \E t \in Threads : WillRaise(t)

\* The strengthening that makes ValueAnnounced inductive: the same for every
\* positive amount of outstanding work, whether or not it is still queued.
\* An increment that waits ("inc") is no excuse here.
CounterAnnounced ==
  Outstanding > 0 =>
    \/ PollsReadable
    \/ \E t \in Threads : WillRaise(t) /\ pc[t] # "inc"

\* Between calls the counter is exact and a non-empty queue polls readable.
Quiet == \A t \in Threads : pc[t] = "idle"
QuietConsistent ==
  Quiet => /\ pending = Len(queue)
           /\ queue # <<>> => PollsReadable

-----------------------------------------------------------------------------
(* The abstract specification this module implements.                      *)

Signal ==
  IF PollsReadable THEN "on"
  ELSE IF \E t \in Threads : WillRaise(t) THEN "owed" ELSE "off"

Takers == {t \in Threads : pc[t] \in {"dec_load", "dec_finish"}}

Signalled == INSTANCE SignalledQueue
  WITH Clients <- Threads, Items <- Values, items <- queue,
       signal <- Signal, takers <- Takers

\* Every step of push, pop, wake, close and Source::add is a step of the
\* abstract queue or none of it: the signal is never dropped over an item,
\* and only a pop in flight lowers it.
ImplementsSignalledQueue == Signalled!Spec

\* An owed signal is raised, or the queue is drained, in finitely many steps
\* of the threads that owe it.
SignalIsPrompt == Signalled!Prompt
=============================================================================
