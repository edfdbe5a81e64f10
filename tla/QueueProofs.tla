---------------------------- MODULE QueueProofs ----------------------------
(***************************************************************************)
(* Proofs about Queue.tla and QueueLoop.tla, for every number of threads,  *)
(* every capacity, and every program in a loop.                            *)
(***************************************************************************)
EXTENDS QueueLoop, FiniteSetTheorems, SequenceTheorems, TLAPS

-----------------------------------------------------------------------------
(* Helpers: what the wrap-around and the eventfd operators compute.        *)

\* The waker's operators, reduced to what they do to the eventfd: raising
\* leaves the counter positive, finishing clears it, and both keep its type.
LEMMA SetReadinessEffect ==
  ASSUME count \in 0 .. MaxCount
  PROVE  /\ SetReadiness(Readable) => count' \in 0 .. MaxCount /\ count' > 0
         /\ SetReadiness(Empty) => count' = 0 /\ count' \in 0 .. MaxCount
<1>1. Readable # Empty
  BY DEF Readable, Empty
<1>2. ASSUME SetReadiness(Readable)
      PROVE  count' \in 0 .. MaxCount /\ count' > 0
  <2>1. count' = IF count + 1 <= MaxCount THEN count + 1 ELSE count
    BY <1>2 DEF SetReadiness, Wakeup, Write, WriteFits
  <2> QED
    BY <2>1, MaxCountAssumption
<1>3. ASSUME SetReadiness(Empty)
      PROVE  count' = 0 /\ count' \in 0 .. MaxCount
  BY <1>3, MaxCountAssumption DEF SetReadiness, Finish, Read
<1> QED
  BY <1>2, <1>3

\* The facts about the constants that most steps need.
LEMMA ConstantTypes ==
  /\ Capacity \in Nat /\ Capacity > 0
  /\ MaxUsize \in Nat
  /\ MaxCount \in Nat /\ MaxCount > 0
  BY QueueAssumption, MaxCountAssumption

\* Incrementing and decrementing stay within a usize.
LEMMA WrapType ==
  ASSUME NEW n \in 0 .. MaxUsize
  PROVE  /\ WrapInc(n) \in 0 .. MaxUsize
         /\ WrapDec(n) \in 0 .. MaxUsize
  BY ConstantTypes DEF WrapInc, WrapDec

-----------------------------------------------------------------------------
(* Type correctness.                                                       *)

LEMMA InitTypeOK ==
  ASSUME Init
  PROVE  TypeOK
<1>1. queue \in Seq(Values) /\ Len(queue) <= Capacity
  BY ConstantTypes DEF Init
<1>2. pc \in [Threads -> Steps] /\ first \in [Threads -> 0 .. MaxUsize]
  BY ConstantTypes DEF Init, Steps
<1>3. pending \in 0 .. MaxUsize /\ count \in 0 .. MaxCount
  BY ConstantTypes DEF Init, InitEventFd
<1>4. closed \in BOOLEAN
  BY DEF Init
<1> QED
  BY <1>1, <1>2, <1>3, <1>4 DEF TypeOK

\* No interleaving of queue calls takes a variable out of its range: the
\* queue stays within its capacity, pending within a usize and the eventfd
\* within its maximum.
THEOREM TypeCorrect == Spec => []TypeOK
<1>1. Init => TypeOK
  BY InitTypeOK
<1>2. ASSUME TypeOK, [Next]_queueVars
      PROVE  TypeOK'
  <2> USE <1>2 DEF TypeOK
  <2>1. ASSUME NEW t \in Threads, NEW v \in Values, PushValue(t, v)
        PROVE  TypeOK'
    <3>1. Append(queue, v) \in Seq(Values) /\ Len(Append(queue, v)) = Len(queue) + 1
      BY AppendProperties
    <3>2. Len(queue) \in Nat
      BY LenProperties
    <3> QED
      BY <2>1, <3>1, <3>2, ConstantTypes DEF PushValue, Goto, Steps
  <2>2. ASSUME NEW t \in Threads, PopValue(t)
        PROVE  TypeOK'
    <3>1. Tail(queue) \in Seq(Values) /\ Len(Tail(queue)) = Len(queue) - 1
      BY <2>2, HeadTailProperties DEF PopValue
    <3>2. Len(queue) \in Nat
      BY LenProperties
    <3> QED
      BY <2>2, <3>1, <3>2, ConstantTypes DEF PopValue, Goto, Steps
  <2>3. ASSUME NEW t \in Threads, IncAdd(t)
        PROVE  TypeOK'
    BY <2>3, WrapType DEF IncAdd, Goto, Steps
  <2>4. ASSUME NEW t \in Threads, IncWake(t) \/ DecWake(t) \/ AddWake(t)
        PROVE  TypeOK'
    BY <2>4, SetReadinessEffect DEF IncWake, DecWake, AddWake, Goto, Steps
  <2>5. ASSUME NEW t \in Threads, DecLoad(t)
        PROVE  TypeOK'
    BY <2>5 DEF DecLoad, Goto, Steps
  <2>6. ASSUME NEW t \in Threads, DecFinish(t)
        PROVE  TypeOK'
    BY <2>6, SetReadinessEffect DEF DecFinish, Goto, Steps
  <2>7. ASSUME NEW t \in Threads, DecSub(t)
        PROVE  TypeOK'
    <3>1. pending' \in 0 .. MaxUsize
      BY <2>7, WrapType DEF DecSub
    <3>2. first' \in [Threads -> 0 .. MaxUsize]
      BY <2>7, ConstantTypes DEF DecSub
    <3> QED
      BY <2>7, <3>1, <3>2 DEF DecSub, Goto, Steps
  <2>8. ASSUME NEW t \in Threads, Close(t) \/ AddCtl(t) \/ AddLoad(t)
        PROVE  TypeOK'
    BY <2>8 DEF Close, AddCtl, AddLoad, Goto, Steps
  <2>9. ASSUME NEW t \in Threads, Wake(t)
        PROVE  TypeOK'
    BY <2>9, SetReadinessEffect DEF Wake
  <2>10. CASE UNCHANGED queueVars
    BY <2>10 DEF queueVars
  <2> QED
    BY <1>2, <2>1, <2>2, <2>3, <2>4, <2>5, <2>6, <2>7, <2>8, <2>9, <2>10
    DEF Next, Call, Resume
<1> QED
  BY <1>1, <1>2, PTL DEF Spec

-----------------------------------------------------------------------------
(* Counting the calls in flight.                                           *)

\* The threads whose next step is one of labels.
At(control, labels) == {t \in Threads : control[t] \in labels}

LEMMA AtType ==
  ASSUME NEW control, NEW labels
  PROVE  /\ IsFiniteSet(At(control, labels))
         /\ Cardinality(At(control, labels)) \in Nat
         /\ Cardinality(At(control, labels)) <= Cardinality(Threads)
<1>1. At(control, labels) \in SUBSET Threads
  BY DEF At
<1>2. IsFiniteSet(Threads)
  BY QueueAssumption
<1> QED
  BY <1>1, <1>2, FS_Subset, FS_CardinalityType

\* Moving one thread from one step to another adds it to, or removes it from,
\* the threads counted, by whether the two steps are among the labels.
LEMMA AtMove ==
  ASSUME NEW control, NEW t \in Threads, NEW to, NEW labels, NEW next,
         \A u \in Threads : next[u] = IF u = t THEN to ELSE control[u]
  PROVE  Cardinality(At(next, labels))
           = Cardinality(At(control, labels)) + (IF to \in labels THEN 1 ELSE 0)
               - (IF control[t] \in labels THEN 1 ELSE 0)
<1> DEFINE before == At(control, labels)
           after  == At(next, labels)
<1>1. IsFiniteSet(before) /\ Cardinality(before) \in Nat
  BY AtType
<1>2. CASE (to \in labels) = (control[t] \in labels)
  <2>1. after = before
    BY <1>2 DEF At
  <2> QED
    BY <2>1, <1>1, <1>2
<1>3. CASE to \in labels /\ control[t] \notin labels
  <2>1. after = before \cup {t} /\ t \notin before
    BY <1>3 DEF At
  <2>2. Cardinality(before \cup {t}) = Cardinality(before) + 1
    BY <2>1, <1>1, FS_AddElement
  <2> QED
    BY <2>1, <2>2, <1>1, <1>3
<1>4. CASE to \notin labels /\ control[t] \in labels
  <2>1. after = before \ {t} /\ t \in before
    BY <1>4 DEF At
  <2>2. Cardinality(before \ {t}) = Cardinality(before) - 1
    BY <2>1, <1>1, FS_RemoveElement
  <2> QED
    BY <2>1, <2>2, <1>1, <1>4
<1> QED
  BY <1>2, <1>3, <1>4

PopperSteps == {"dec_load", "dec_finish", "dec_sub"}

\* The terms of Outstanding are integers, and their sum is far enough from
\* the ends of a usize that one more unit in either direction still fits.
LEMMA OutstandingType ==
  ASSUME TypeOK
  PROVE  /\ Len(queue) \in Nat
         /\ Cardinality(Pushers) \in Nat
         /\ Cardinality(Poppers) \in Nat
         /\ Outstanding \in Int
         /\ Threads # {} => Outstanding < MaxUsize /\ -MaxUsize <= Outstanding
<1>1. Pushers = At(pc, {"inc"}) /\ Poppers = At(pc, PopperSteps)
  BY DEF Pushers, Poppers, At, PopperSteps
<1>2. Len(queue) \in Nat /\ Len(queue) <= Capacity
  BY LenProperties DEF TypeOK
<1>3. /\ Cardinality(Pushers) \in Nat /\ Cardinality(Poppers) \in Nat
      /\ Cardinality(Pushers) <= Cardinality(Threads)
      /\ Cardinality(Poppers) <= Cardinality(Threads)
  BY <1>1, AtType
<1>4. Cardinality(Threads) \in Nat /\ (Threads # {} => Cardinality(Threads) > 0)
  BY QueueAssumption, FS_CardinalityType, FS_EmptySet
<1> QED
  BY <1>2, <1>3, <1>4, QueueAssumption DEF Outstanding

\* How a step of one thread changes the calls in flight.
LEMMA FlightMove ==
  ASSUME TypeOK, NEW t \in Threads, NEW from, NEW to \in Steps, Goto(t, from, to)
  PROVE  /\ Cardinality(Pushers)' =
              Cardinality(Pushers) + (IF to = "inc" THEN 1 ELSE 0) - (IF from = "inc" THEN 1 ELSE 0)
         /\ Cardinality(Poppers)' =
              Cardinality(Poppers) + (IF to \in PopperSteps THEN 1 ELSE 0)
                                   - (IF from \in PopperSteps THEN 1 ELSE 0)
<1>1. pc[t] = from /\ \A u \in Threads : pc'[u] = IF u = t THEN to ELSE pc[u]
  BY DEF TypeOK, Goto
<1>2. Pushers = At(pc, {"inc"}) /\ Poppers = At(pc, PopperSteps)
  BY DEF Pushers, Poppers, At, PopperSteps
<1>3. Pushers' = At(pc', {"inc"}) /\ Poppers' = At(pc', PopperSteps)
  BY DEF Pushers, Poppers, At, PopperSteps
<1>4. ASSUME NEW labels
      PROVE  Cardinality(At(pc', labels)) = Cardinality(At(pc, labels))
               + (IF to \in labels THEN 1 ELSE 0) - (IF from \in labels THEN 1 ELSE 0)
  BY <1>1, AtMove
<1>5. Cardinality(Pushers)' =
        Cardinality(Pushers) + (IF to = "inc" THEN 1 ELSE 0) - (IF from = "inc" THEN 1 ELSE 0)
  BY <1>2, <1>3, <1>4 DEF Steps
<1> QED
  BY <1>2, <1>3, <1>4, <1>5 DEF Steps, PopperSteps

\* What each step does to the outstanding work: only the two atomic updates
\* of pending change it.
LEMMA OutstandingStep ==
  ASSUME TypeOK, NEW t \in Threads
  PROVE  /\ \A v \in Values : PushValue(t, v) => Outstanding' = Outstanding
         /\ PopValue(t) => Outstanding' = Outstanding
         /\ IncAdd(t) => Outstanding' = Outstanding + 1
         /\ DecSub(t) => Outstanding' = Outstanding - 1
         /\ DecLoad(t) \/ DecFinish(t) => Outstanding' = Outstanding
         /\ IncWake(t) \/ DecWake(t) => Outstanding' = Outstanding
         /\ AddCtl(t) \/ AddLoad(t) \/ AddWake(t) => Outstanding' = Outstanding
         /\ Close(t) \/ Wake(t) => Outstanding' = Outstanding
<1>0. /\ Len(queue) \in Nat
      /\ Cardinality(Pushers) \in Nat
      /\ Cardinality(Poppers) \in Nat
  BY OutstandingType
<1>a. Outstanding = Len(queue) + Cardinality(Poppers) - Cardinality(Pushers)
  BY DEF Outstanding
<1>b. Outstanding' = Len(queue') + Cardinality(Poppers)' - Cardinality(Pushers)'
  BY DEF Outstanding
<1>1. ASSUME NEW v \in Values, PushValue(t, v)
      PROVE  Outstanding' = Outstanding
  <2>1. Len(queue') = Len(queue) + 1
    BY <1>1, AppendProperties DEF PushValue, TypeOK
  <2>2. Goto(t, "idle", "inc")
    BY <1>1 DEF PushValue
  <2>3. /\ Cardinality(Pushers)' = Cardinality(Pushers) + 1
        /\ Cardinality(Poppers)' = Cardinality(Poppers)
    BY <2>2, <1>0, FlightMove DEF Steps, PopperSteps
  <2> QED
    BY <2>1, <2>3, <1>0, <1>a, <1>b
<1>2. ASSUME PopValue(t)
      PROVE  Outstanding' = Outstanding
  <2>1. Len(queue') = Len(queue) - 1
    BY <1>2, HeadTailProperties DEF PopValue, TypeOK
  <2>2. Goto(t, "idle", "dec_load")
    BY <1>2 DEF PopValue
  <2>3. /\ Cardinality(Pushers)' = Cardinality(Pushers)
        /\ Cardinality(Poppers)' = Cardinality(Poppers) + 1
    BY <2>2, <1>0, FlightMove DEF Steps, PopperSteps
  <2> QED
    BY <2>1, <2>3, <1>0, <1>a, <1>b
<1>3. ASSUME IncAdd(t)
      PROVE  Outstanding' = Outstanding + 1
  <2>1. PICK to \in {"inc_wake", "idle"} : Goto(t, "inc", to)
    BY <1>3 DEF IncAdd
  <2>2. /\ Cardinality(Pushers)' = Cardinality(Pushers) - 1
        /\ Cardinality(Poppers)' = Cardinality(Poppers)
    BY <2>1, <1>0, FlightMove DEF Steps, PopperSteps
  <2>3. queue' = queue
    BY <1>3 DEF IncAdd
  <2> QED
    BY <2>2, <2>3, <1>0, <1>a, <1>b
<1>4. ASSUME DecSub(t)
      PROVE  Outstanding' = Outstanding - 1
  <2>1. PICK to \in {"dec_wake", "idle"} : Goto(t, "dec_sub", to)
    BY <1>4 DEF DecSub
  <2>2. /\ Cardinality(Pushers)' = Cardinality(Pushers)
        /\ Cardinality(Poppers)' = Cardinality(Poppers) - 1
    BY <2>1, <1>0, FlightMove DEF Steps, PopperSteps
  <2>3. queue' = queue
    BY <1>4 DEF DecSub
  <2> QED
    BY <2>2, <2>3, <1>0, <1>a, <1>b
<1>5. ASSUME DecLoad(t) \/ DecFinish(t)
      PROVE  Outstanding' = Outstanding
  <2>1. PICK from \in {"dec_load", "dec_finish"}, to \in {"dec_finish", "dec_sub"} :
          Goto(t, from, to)
    BY <1>5 DEF DecLoad, DecFinish
  <2>2. /\ Cardinality(Pushers)' = Cardinality(Pushers)
        /\ Cardinality(Poppers)' = Cardinality(Poppers)
    BY <2>1, <1>0, FlightMove DEF Steps, PopperSteps
  <2>3. queue' = queue
    BY <1>5 DEF DecLoad, DecFinish
  <2> QED
    BY <2>2, <2>3, <1>0, <1>a, <1>b
<1>6. ASSUME IncWake(t) \/ DecWake(t) \/ AddCtl(t) \/ AddLoad(t) \/ AddWake(t)
      PROVE  Outstanding' = Outstanding
  <2>1. PICK from \in {"inc_wake", "dec_wake", "idle", "add_load", "add_wake"},
             to \in {"idle", "add_load", "add_wake"} :
          Goto(t, from, to)
    BY <1>6 DEF IncWake, DecWake, AddCtl, AddLoad, AddWake
  <2>2. /\ Cardinality(Pushers)' = Cardinality(Pushers)
        /\ Cardinality(Poppers)' = Cardinality(Poppers)
    BY <2>1, <1>0, FlightMove DEF Steps, PopperSteps
  <2>3. queue' = queue
    BY <1>6 DEF IncWake, DecWake, AddCtl, AddLoad, AddWake
  <2> QED
    BY <2>2, <2>3, <1>0, <1>a, <1>b
<1>7. ASSUME Close(t) \/ Wake(t)
      PROVE  Outstanding' = Outstanding
  BY <1>7 DEF Close, Wake, Outstanding, Pushers, Poppers
<1> QED
  BY <1>1, <1>2, <1>3, <1>4, <1>5, <1>6, <1>7

\* Nothing is in flight between calls, so the queue alone is outstanding.
LEMMA QuietOutstanding ==
  ASSUME Quiet, TypeOK
  PROVE  Outstanding = Len(queue)
<1>1. Pushers = {} /\ Poppers = {}
  BY DEF Quiet, Pushers, Poppers
<1>2. Cardinality(Pushers) = 0 /\ Cardinality(Poppers) = 0
  BY <1>1, FS_EmptySet
<1> QED
  BY <1>2, OutstandingType DEF Outstanding

-----------------------------------------------------------------------------
(* The counter.                                                            *)

\* However push and pop overlap, pending is the length of the queue plus the
\* pops that have not decremented it minus the pushes that have not
\* incremented it, modulo the width of a usize.
THEOREM AccountingCorrect == Spec => []PendingAccounting
<1>1. ASSUME Init
      PROVE  PendingAccounting
  <2>1. Quiet /\ TypeOK
    <3>1. Quiet
      BY <1>1 DEF Init, Quiet
    <3>2. TypeOK
      BY <1>1, InitTypeOK
    <3> QED
      BY <3>1, <3>2
  <2>2. Outstanding = Len(queue) /\ Len(queue) = 0 /\ pending = 0
    BY <2>1, <1>1, QuietOutstanding DEF Init
  <2> QED
    BY <2>2 DEF PendingAccounting
<1>2. ASSUME TypeOK, PendingAccounting, [Next]_queueVars
      PROVE  PendingAccounting'
  <2> USE <1>2
  <2>1. ASSUME Outstanding' = Outstanding, pending' = pending
        PROVE  PendingAccounting'
    BY <2>1 DEF PendingAccounting
  <2>2. CASE UNCHANGED queueVars
    BY <2>1, <2>2 DEF queueVars, Outstanding, Pushers, Poppers
  <2>3. ASSUME NEW t \in Threads, IncAdd(t)
        PROVE  PendingAccounting'
    <3>1. Outstanding' = Outstanding + 1 /\ pending' = WrapInc(pending)
      BY <2>3, OutstandingStep DEF IncAdd
    <3>2. Outstanding \in Int /\ Outstanding < MaxUsize /\ -MaxUsize <= Outstanding
      BY OutstandingType
    <3>3. pending = IF Outstanding >= 0 THEN Outstanding ELSE Outstanding + MaxUsize + 1
      BY DEF PendingAccounting
    <3>4. pending' = IF Outstanding + 1 >= 0 THEN Outstanding + 1
                     ELSE Outstanding + 1 + MaxUsize + 1
      BY <3>1, <3>2, <3>3, ConstantTypes DEF WrapInc
    <3> QED
      BY <3>1, <3>4 DEF PendingAccounting
  <2>4. ASSUME NEW t \in Threads, DecSub(t)
        PROVE  PendingAccounting'
    <3>1. Outstanding' = Outstanding - 1 /\ pending' = WrapDec(pending)
      BY <2>4, OutstandingStep DEF DecSub
    <3>2. Outstanding \in Int /\ Outstanding < MaxUsize /\ -MaxUsize <= Outstanding
      BY OutstandingType
    <3>3. pending = IF Outstanding >= 0 THEN Outstanding ELSE Outstanding + MaxUsize + 1
      BY DEF PendingAccounting
    <3>4. pending' = IF Outstanding - 1 >= 0 THEN Outstanding - 1
                     ELSE Outstanding - 1 + MaxUsize + 1
      BY <3>1, <3>2, <3>3, ConstantTypes DEF WrapDec
    <3> QED
      BY <3>1, <3>4 DEF PendingAccounting
  <2>5. ASSUME NEW t \in Threads,
               \/ \E v \in Values : PushValue(t, v)
               \/ PopValue(t) \/ Close(t) \/ Wake(t) \/ AddCtl(t)
               \/ IncWake(t) \/ DecLoad(t) \/ DecFinish(t) \/ DecWake(t)
               \/ AddLoad(t) \/ AddWake(t)
        PROVE  PendingAccounting'
    <3>1. Outstanding' = Outstanding
      BY <2>5, OutstandingStep
    <3>2. pending' = pending
      BY <2>5 DEF PushValue, PopValue, Close, Wake, AddCtl, IncWake, DecLoad,
                  DecFinish, DecWake, AddLoad, AddWake
    <3> QED
      BY <3>1, <3>2, <2>1
  <2> QED
    BY <2>2, <2>3, <2>4, <2>5 DEF Next, Call, Resume
<1> QED
  BY <1>1, <1>2, TypeCorrect, PTL DEF Spec

-----------------------------------------------------------------------------
(* No lost wakeup.                                                         *)

\* dec() lowers the waker only after it loaded 1 from the counter.
FinishSawOne == \A t \in Threads : pc[t] = "dec_finish" => first[t] = 1

\* The threads CounterAnnounced relies on.
Raiser(t) == WillRaise(t) /\ pc[t] # "inc"

LEMMA FinishSawOneCorrect == Spec => []FinishSawOne
<1>1. Init => FinishSawOne
  BY DEF Init, FinishSawOne
<1>2. ASSUME TypeOK, FinishSawOne, [Next]_queueVars
      PROVE  FinishSawOne'
  <2> USE <1>2 DEF FinishSawOne, TypeOK, Goto
  <2>1. ASSUME NEW t \in Threads, DecLoad(t)
        PROVE  FinishSawOne'
    BY <2>1 DEF DecLoad
  <2>2. ASSUME NEW t \in Threads, DecSub(t)
        PROVE  FinishSawOne'
    BY <2>2 DEF DecSub
  <2>3. ASSUME NEW t \in Threads, Call(t)
        PROVE  FinishSawOne'
    BY <2>3 DEF Call, PushValue, PopValue, Close, Wake, AddCtl
  <2>4. ASSUME NEW t \in Threads,
               IncAdd(t) \/ IncWake(t) \/ DecFinish(t) \/ DecWake(t)
                 \/ AddLoad(t) \/ AddWake(t)
        PROVE  FinishSawOne'
    BY <2>4 DEF IncAdd, IncWake, DecFinish, DecWake, AddLoad, AddWake
  <2>5. CASE UNCHANGED queueVars
    BY <2>5 DEF queueVars
  <2> QED
    BY <2>1, <2>2, <2>3, <2>4, <2>5 DEF Next, Resume
<1> QED
  BY <1>1, <1>2, TypeCorrect, PTL DEF Spec

\* A step that leaves the outstanding work and the eventfd alone keeps every
\* raiser but, possibly, the thread that takes it.
LEMMA RaisersStay ==
  ASSUME TypeOK, CounterAnnounced,
         NEW t \in Threads, ~Raiser(t),
         \A u \in Threads \ {t} : pc'[u] = pc[u] /\ first'[u] = first[u],
         Outstanding > 0, count' = count
  PROVE  PollsReadable' \/ \E u \in Threads : Raiser(u)'
<1>1. PollsReadable \/ \E u \in Threads : Raiser(u)
  BY DEF CounterAnnounced, Raiser
<1>2. CASE PollsReadable
  BY <1>2 DEF PollsReadable
<1>3. CASE \E u \in Threads : Raiser(u)
  <2>1. PICK u \in Threads \ {t} : Raiser(u)
    BY <1>3
  <2>2. Raiser(u)'
    BY <2>1 DEF Raiser, WillRaise
  <2> QED
    BY <2>2
<1> QED
  BY <1>1, <1>2, <1>3

\* Outstanding work is always announced: by the eventfd, or by a thread past
\* its update of pending that goes on to raise it.  The step that could break
\* it is the decrement of a thread that lowered the eventfd; that thread
\* raises it again unless nothing was left, because it compares the two
\* values of the counter it saw.
THEOREM CounterAnnouncedCorrect == Spec => []CounterAnnounced
<1>1. ASSUME Init
      PROVE  CounterAnnounced
  <2>1. Quiet /\ TypeOK
    BY <1>1, InitTypeOK DEF Init, Quiet
  <2>2. Outstanding = 0
    BY <2>1, <1>1, QuietOutstanding DEF Init
  <2> QED
    BY <2>2 DEF CounterAnnounced
<1>2. ASSUME TypeOK, PendingAccounting, FinishSawOne, CounterAnnounced,
             [Next]_queueVars
      PROVE  CounterAnnounced'
  <2> USE <1>2
  <2> SUFFICES ASSUME Outstanding' > 0
               PROVE  PollsReadable' \/ \E u \in Threads : Raiser(u)'
    BY DEF CounterAnnounced, Raiser
  <2>1. CASE UNCHANGED queueVars
    BY <2>1 DEF queueVars, CounterAnnounced, Outstanding, Pushers, Poppers,
                PollsReadable, Raiser, WillRaise
  <2>2. ASSUME NEW t \in Threads,
               \/ \E v \in Values : PushValue(t, v)
               \/ PopValue(t) \/ Close(t) \/ AddCtl(t)
               \/ DecLoad(t) \/ AddLoad(t)
        PROVE  PollsReadable' \/ \E u \in Threads : Raiser(u)'
    <3>1. Outstanding > 0
      BY <2>2, OutstandingStep
    <3>2. count' = count
      BY <2>2 DEF PushValue, PopValue, Close, AddCtl, DecLoad, AddLoad
    <3>3. \A u \in Threads \ {t} : pc'[u] = pc[u] /\ first'[u] = first[u]
      BY <2>2 DEF PushValue, PopValue, Close, AddCtl, DecLoad, AddLoad, Goto, TypeOK
    <3>4. CASE ~Close(t)
      <4>1. pc[t] \in {"idle", "dec_load", "add_load"}
        BY <2>2, <3>4 DEF PushValue, PopValue, AddCtl, DecLoad, AddLoad, Goto
      <4>2. ~Raiser(t)
        BY <4>1 DEF Raiser, WillRaise
      <4> QED
        BY <4>2, <3>1, <3>2, <3>3, RaisersStay
    <3>5. CASE Close(t)
      BY <3>5, <3>1 DEF Close, CounterAnnounced, PollsReadable, Raiser, WillRaise
    <3> QED
      BY <3>4, <3>5
  <2>3. ASSUME NEW t \in Threads,
               IncWake(t) \/ DecWake(t) \/ AddWake(t) \/ Wake(t)
        PROVE  PollsReadable'
    <3>1. SetReadiness(Readable)
      BY <2>3 DEF IncWake, DecWake, AddWake, Wake
    <3> QED
      BY <3>1, SetReadinessEffect DEF PollsReadable, TypeOK
  <2>4. ASSUME NEW t \in Threads, DecFinish(t)
        PROVE  Raiser(t)'
    BY <2>4 DEF DecFinish, Goto, FinishSawOne, TypeOK, Raiser, WillRaise
  <2>5. ASSUME NEW t \in Threads, IncAdd(t)
        PROVE  PollsReadable' \/ \E u \in Threads : Raiser(u)'
    <3>1. CASE pending = 0
      BY <3>1, <2>5 DEF IncAdd, Goto, TypeOK, Raiser, WillRaise
    <3>2. CASE pending # 0
      <4>1. Outstanding # 0
        BY <3>2 DEF PendingAccounting
      <4>2. Outstanding > 0
        BY <4>1, <2>5, OutstandingStep, OutstandingType
      <4>3. ~Raiser(t)
        BY <2>5 DEF IncAdd, Goto, Raiser
      <4>4. count' = count
        BY <2>5 DEF IncAdd
      <4>5. \A u \in Threads \ {t} : pc'[u] = pc[u] /\ first'[u] = first[u]
        BY <2>5 DEF IncAdd, Goto, TypeOK
      <4> QED
        BY <4>2, <4>3, <4>4, <4>5, RaisersStay
    <3> QED
      BY <3>1, <3>2
  <2>6. ASSUME NEW t \in Threads, DecSub(t)
        PROVE  PollsReadable' \/ \E u \in Threads : Raiser(u)'
    <3>1. Outstanding > 1
      BY <2>6, OutstandingStep, OutstandingType
    <3>2. pending > 1
      BY <3>1, OutstandingType DEF PendingAccounting
    <3>3. CASE first[t] = 1
      BY <3>2, <3>3, <2>6 DEF DecSub, Goto, TypeOK, Raiser, WillRaise
    <3>4. CASE first[t] # 1
      <4>1. ~Raiser(t)
        BY <3>4, <2>6 DEF DecSub, Goto, Raiser, WillRaise
      <4>2. count' = count
        BY <2>6 DEF DecSub
      <4>3. \A u \in Threads \ {t} : pc'[u] = pc[u] /\ first'[u] = first[u]
        BY <2>6 DEF DecSub, Goto, TypeOK
      <4>4. Outstanding > 0
        BY <3>1, OutstandingType
      <4> QED
        BY <4>1, <4>2, <4>3, <4>4, RaisersStay
    <3> QED
      BY <3>3, <3>4
  <2> QED
    BY <2>1, <2>2, <2>3, <2>4, <2>5, <2>6 DEF Next, Call, Resume
<1> QED
  BY <1>1, <1>2, TypeCorrect, AccountingCorrect, FinishSawOneCorrect, PTL DEF Spec

LEMMA ValueAnnouncedFromCounter ==
  ASSUME TypeOK, CounterAnnounced
  PROVE  ValueAnnounced
<1> SUFFICES ASSUME queue # <<>>
             PROVE  PollsReadable \/ \E t \in Threads : WillRaise(t)
  BY DEF ValueAnnounced
<1>1. CASE Pushers # {}
  BY <1>1 DEF Pushers, WillRaise
<1>2. CASE Pushers = {}
  <2>1. Cardinality(Pushers) = 0
    BY <1>2, FS_EmptySet
  <2>2. Len(queue) > 0
    BY EmptySeq DEF TypeOK
  <2>3. Outstanding > 0
    BY <2>1, <2>2, OutstandingType DEF Outstanding
  <2> QED
    BY <2>3 DEF CounterAnnounced
<1> QED
  BY <1>1, <1>2

\* A value in the queue is never left without a readable descriptor and
\* without a thread on its way to raise it.
THEOREM NoLostWakeup == Spec => []ValueAnnounced
  BY TypeCorrect, CounterAnnouncedCorrect, ValueAnnouncedFromCounter, PTL

\* Whenever no call is in progress, pending() is the length of the queue and
\* a non-empty queue polls readable.
THEOREM QuietCorrect == Spec => []QuietConsistent
<1>1. ASSUME TypeOK, PendingAccounting, ValueAnnounced
      PROVE  QuietConsistent
  <2> SUFFICES ASSUME Quiet
               PROVE  pending = Len(queue) /\ (queue # <<>> => PollsReadable)
    BY DEF QuietConsistent
  <2>1. pending = Len(queue)
    BY <1>1, QuietOutstanding, OutstandingType DEF PendingAccounting
  <2>2. queue # <<>> => PollsReadable
    BY <1>1 DEF ValueAnnounced, Quiet, WillRaise
  <2> QED
    BY <2>1, <2>2
<1> QED
  BY <1>1, TypeCorrect, AccountingCorrect, NoLostWakeup, PTL

-----------------------------------------------------------------------------
(* The queue implements SignalledQueue.                                    *)

\* A step that keeps the eventfd and moves one thread that is not bound to
\* raise it, neither before nor after, keeps the abstract signal.
LEMMA SignalKept ==
  ASSUME TypeOK, NEW t \in Threads, ~WillRaise(t), ~WillRaise(t)', count' = count,
         \A u \in Threads \ {t} : pc'[u] = pc[u] /\ first'[u] = first[u]
  PROVE  Signal' = Signal
<1>1. \A u \in Threads : WillRaise(u)' <=> WillRaise(u)
  BY DEF WillRaise
<1> QED
  BY <1>1 DEF Signal, PollsReadable

\* The threads a step leaves alone, as the lemmas want them.
LEMMA OthersUntouched ==
  ASSUME TypeOK, NEW t \in Threads,
         \/ \E v \in Values : PushValue(t, v)
         \/ PopValue(t) \/ AddCtl(t) \/ Resume(t)
  PROVE  \A u \in Threads \ {t} : pc'[u] = pc[u] /\ first'[u] = first[u]
  BY DEF Resume, PushValue, PopValue, AddCtl, IncAdd, IncWake, DecLoad, DecFinish,
         DecSub, DecWake, AddLoad, AddWake, Goto, TypeOK

LEMMA TakersOf ==
  ASSUME TypeOK, NEW t \in Threads, NEW from, NEW to, Goto(t, from, to)
  PROVE  Takers' = IF to \in {"dec_load", "dec_finish"} THEN Takers \cup {t}
                   ELSE Takers \ {t}
  BY DEF Takers, Goto, TypeOK

\* Every step of the queue is a step of the abstract queue under the mapping
\* of Signal and Takers, or leaves it unchanged.
THEOREM Implementation == Spec => ImplementsSignalledQueue
<1>1. ASSUME Init
      PROVE  Signalled!Init
  <2>1. Takers = {} /\ \A t \in Threads : ~WillRaise(t)
    BY <1>1 DEF Init, Takers, WillRaise
  <2>2. count = 0
    BY <1>1 DEF Init, InitEventFd
  <2>3. Signal = "off"
    BY <2>1, <2>2 DEF Signal, PollsReadable
  <2> QED
    BY <1>1, <2>1, <2>3 DEF Init, Signalled!Init
<1>2. ASSUME TypeOK, FinishSawOne, ValueAnnounced', [Next]_queueVars
      PROVE  [Signalled!Next]_(Signalled!vars)
  <2> USE <1>2
  <2>1. ASSUME NEW t \in Threads, NEW v \in Values, PushValue(t, v)
        PROVE  Signalled!Push(v)
    <3>1. Takers' = Takers
      BY <2>1, TakersOf DEF PushValue, Goto, Takers
    <3>2. ~WillRaise(t) /\ WillRaise(t)'
      BY <2>1 DEF PushValue, Goto, WillRaise, TypeOK
    <3>3. \A u \in Threads \ {t} : WillRaise(u)' <=> WillRaise(u)
      BY <2>1, OthersUntouched DEF WillRaise
    <3>4. Signal' = IF Signal = "off" THEN "owed" ELSE Signal
      BY <2>1, <3>2, <3>3 DEF PushValue, Signal, PollsReadable
    <3> QED
      BY <2>1, <3>1, <3>4 DEF PushValue, Signalled!Push
  <2>2. ASSUME NEW t \in Threads, PopValue(t)
        PROVE  Signalled!Pop(t)
    <3>1. t \notin Takers /\ Takers' = Takers \cup {t}
      BY <2>2, TakersOf DEF PopValue, Goto, Takers
    <3>2. ~WillRaise(t) /\ ~WillRaise(t)'
      BY <2>2 DEF PopValue, Goto, WillRaise, TypeOK
    <3>3. Signal' = Signal
      BY <2>2, <3>2, OthersUntouched, SignalKept DEF PopValue
    <3> QED
      BY <2>2, <3>1, <3>3 DEF PopValue, Signalled!Pop
  <2>3. ASSUME NEW t \in Threads, DecLoad(t)
        PROVE  Signalled!Release(t) \/ UNCHANGED Signalled!vars
    <3>1. ~WillRaise(t) /\ ~WillRaise(t)'
      BY <2>3 DEF DecLoad, Goto, WillRaise, TypeOK
    <3>2. Signal' = Signal
      BY <2>3, <3>1, OthersUntouched, SignalKept DEF DecLoad, Resume
    <3>3. t \in Takers /\ (Takers' = Takers \/ Takers' = Takers \ {t})
      BY <2>3, TakersOf DEF DecLoad, Goto, Takers
    <3> QED
      BY <2>3, <3>2, <3>3 DEF DecLoad, Signalled!Release, Signalled!vars
  <2>4. ASSUME NEW t \in Threads, DecFinish(t)
        PROVE  Signalled!Release(t)
    <3>1. t \in Takers /\ Takers' = Takers \ {t}
      BY <2>4, TakersOf DEF DecFinish, Goto, Takers
    <3>2. WillRaise(t)'
      BY <2>4 DEF DecFinish, Goto, FinishSawOne, WillRaise, TypeOK
    <3>3. ~PollsReadable'
      BY <2>4, SetReadinessEffect DEF DecFinish, PollsReadable, TypeOK
    <3>4. Signal' = "owed"
      BY <3>2, <3>3 DEF Signal
    <3> QED
      BY <2>4, <3>1, <3>4 DEF DecFinish, Signalled!Release
  <2>5. ASSUME NEW t \in Threads,
               IncWake(t) \/ DecWake(t) \/ AddWake(t) \/ Wake(t)
        PROVE  Signalled!Raise
    <3>1. Takers' = Takers
      BY <2>5, TakersOf DEF IncWake, DecWake, AddWake, Wake, Goto, Takers
    <3>2. SetReadiness(Readable)
      BY <2>5 DEF IncWake, DecWake, AddWake, Wake
    <3>3. Signal' = "on"
      BY <3>2, SetReadinessEffect DEF Signal, PollsReadable, TypeOK
    <3> QED
      BY <2>5, <3>1, <3>3 DEF IncWake, DecWake, AddWake, Wake, Signalled!Raise
  <2>6. ASSUME NEW t \in Threads, IncAdd(t) \/ DecSub(t)
        PROVE  Signalled!Settle \/ UNCHANGED Signalled!vars
    <3>1. Takers' = Takers
      BY <2>6, TakersOf DEF IncAdd, DecSub, Goto, Takers
    <3>2. queue' = queue /\ closed' = closed /\ count' = count
      BY <2>6 DEF IncAdd, DecSub
    <3>3. WillRaise(t)' => WillRaise(t)
      BY <2>6 DEF IncAdd, DecSub, Goto, WillRaise, TypeOK
    <3>4. \A u \in Threads \ {t} : WillRaise(u)' <=> WillRaise(u)
      BY <2>6, OthersUntouched DEF Resume, WillRaise
    <3>5. Signal' = Signal \/ (Signal = "owed" /\ Signal' = "off")
      BY <3>2, <3>3, <3>4 DEF Signal, PollsReadable
    <3>6. Signal' = "off" => queue' = <<>>
      BY DEF ValueAnnounced, Signal
    <3> QED
      BY <3>1, <3>2, <3>5, <3>6 DEF Signalled!Settle, Signalled!vars
  <2>7. ASSUME NEW t \in Threads, AddCtl(t) \/ AddLoad(t)
        PROVE  UNCHANGED Signalled!vars
    <3>1. Takers' = Takers
      BY <2>7, TakersOf DEF AddCtl, AddLoad, Goto, Takers
    <3>2. ~WillRaise(t) /\ ~WillRaise(t)'
      BY <2>7 DEF AddCtl, AddLoad, Goto, WillRaise, TypeOK
    <3>3. Signal' = Signal
      BY <2>7, <3>2, OthersUntouched, SignalKept DEF AddCtl, AddLoad, Resume
    <3> QED
      BY <2>7, <3>1, <3>3 DEF AddCtl, AddLoad, Signalled!vars
  <2>8. ASSUME NEW t \in Threads, Close(t)
        PROVE  Signalled!Close
    BY <2>8 DEF Close, Signalled!Close, Signal, Takers, PollsReadable, WillRaise
  <2>9. CASE UNCHANGED queueVars
    BY <2>9 DEF queueVars, Signalled!vars, Signal, Takers, PollsReadable, WillRaise
  <2> QED
    BY <2>1, <2>2, <2>3, <2>4, <2>5, <2>6, <2>7, <2>8, <2>9
    DEF Next, Call, Resume, Signalled!Next
<1> QED
  BY <1>1, <1>2, TypeCorrect, FinishSawOneCorrect, NoLostWakeup, PTL
  DEF Spec, ImplementsSignalledQueue, Signalled!Spec

-----------------------------------------------------------------------------
(* The queue in a loop, for any program, threads and epolls.               *)

LEMMA SetupFacts ==
  ASSUME setup \in Setups
  PROVE  /\ setup.producers \subseteq Threads /\ setup.consumers \subseteq Threads
         /\ setup.closers \subseteq Threads /\ setup.consumers # {}
         /\ \A c \in setup.consumers : setup.epollOf[c] \in Epolls
  BY LoopAssumption

-----------------------------------------------------------------------------
(* The loop uses the queue as Queue.tla has it.                            *)

\* Every step of a program is a step of the queue or leaves it alone: what is
\* proved of the queue holds in the loop.
THEOREM QueueInLoop == LoopSpec => Spec
<1>1. LoopInit => Init /\ setup \in Setups
  BY DEF LoopInit
<1>2. ASSUME setup \in Setups, [LoopNext]_loopVars
      PROVE  [Next]_queueVars /\ setup' = setup
  <2> USE <1>2
  <2>1. CASE \E t \in Threads : CallStep(t)
    BY <2>1 DEF CallStep, Next
  <2>2. CASE \E t \in setup.producers : Produce(t)
    <3>1. PICK t \in setup.producers, v \in Values : PushValue(t, v) /\ setup' = setup
      BY <2>2 DEF Produce
    <3>2. t \in Threads
      BY SetupFacts
    <3> QED
      BY <3>1, <3>2 DEF Next, Call
  <2>3. ASSUME NEW c \in setup.consumers,
               \/ Register(c) \/ Join(c) \/ WaitReports(c) \/ WaitDrops(c)
               \/ PopSucceeds(c) \/ PopFails(c)
        PROVE  [Next]_queueVars /\ setup' = setup
    <3>1. c \in Threads
      BY SetupFacts
    <3> QED
      BY <2>3, <3>1 DEF Register, Join, WaitReports, WaitDrops, PopSucceeds, PopFails, Next, Call
  <2>4. ASSUME NEW t \in setup.closers, BeginClose(t) \/ WakeAfterClose(t)
        PROVE  [Next]_queueVars /\ setup' = setup
    <3>1. t \in Threads
      BY SetupFacts
    <3> QED
      BY <2>4, <3>1 DEF BeginClose, WakeAfterClose, Next, Call
  <2>5. CASE UNCHANGED loopVars
    BY <2>5 DEF loopVars
  <2> QED
    BY <2>1, <2>2, <2>3, <2>4, <2>5 DEF LoopNext
<1>3. setup \in Setups /\ [LoopNext]_loopVars => [Next]_queueVars /\ (setup \in Setups)'
  BY <1>2
<1> QED
  BY <1>1, <1>3, PTL DEF LoopSpec, Spec

-----------------------------------------------------------------------------
(* Types of the loop.                                                      *)

Places == {"start", "wait", "pop", "closing", "done"}

\* A consumer that has begun has an epoll that the queue is registered with, and
\* a level-triggered epoll has a readable queue on its list.
Watched ==
  /\ setup \in Setups
  /\ listed \subseteq registered /\ registered \subseteq Epolls
  /\ loop \in [Threads -> Places]
  /\ sent \subseteq Values
  /\ \A c \in setup.consumers : loop[c] \in {"wait", "pop"} => setup.epollOf[c] \in registered
  /\ setup.trigger = "level" /\ PollsReadable => registered \subseteq listed

LEMMA NotifyKeeps ==
  ASSUME TypeOK, TypeOK', Watched, Notify, UNCHANGED <<setup, registered>>
  PROVE  /\ listed' \subseteq registered
         /\ setup.trigger = "level" /\ PollsReadable' => registered \subseteq listed'
<1>1. count \in Nat /\ count' \in Nat
  BY ConstantTypes DEF TypeOK
<1>2. CASE count' > count
  BY <1>2 DEF Notify
<1>3. CASE ~(count' > count)
  <2>1. listed' = listed
    BY <1>3 DEF Notify
  <2>2. PollsReadable' => PollsReadable
    BY <1>1, <1>3 DEF PollsReadable
  <2> QED
    BY <2>1, <2>2 DEF Watched
<1> QED
  BY <1>2, <1>3

LEMMA WatchedStep ==
  ASSUME TypeOK, TypeOK', Watched, [LoopNext]_loopVars
  PROVE  Watched'
<1> USE DEF Watched
<1>1. ASSUME NEW t \in Threads, CallStep(t)
      PROVE  Watched'
  BY <1>1, NotifyKeeps DEF CallStep
<1>2. ASSUME NEW t \in setup.producers, Produce(t)
      PROVE  Watched'
  BY <1>2 DEF Produce, PushValue, PollsReadable
<1>3. ASSUME NEW c \in setup.consumers
      PROVE  c \in Threads /\ setup.epollOf[c] \in Epolls
  BY SetupFacts
<1>4. ASSUME NEW c \in setup.consumers, Register(c)
      PROVE  Watched'
  BY <1>3, <1>4 DEF Register, AddCtl, Continue, PollsReadable, Places
<1>5. ASSUME NEW c \in setup.consumers, Join(c)
      PROVE  Watched'
  BY <1>3, <1>5 DEF Join, queueVars, Continue, PollsReadable, Places
<1>6. ASSUME NEW c \in setup.consumers, WaitReports(c)
      PROVE  Watched'
  BY <1>3, <1>6 DEF WaitReports, queueVars, Continue, PollsReadable, Places
<1>7. ASSUME NEW c \in setup.consumers, WaitDrops(c)
      PROVE  Watched'
  BY <1>3, <1>7 DEF WaitDrops, queueVars, Continue, PollsReadable, Places
<1>8. ASSUME NEW c \in setup.consumers, PopSucceeds(c)
      PROVE  Watched'
  <2>1. UNCHANGED <<setup, registered, listed, sent, count>>
    BY <1>8 DEF PopSucceeds, PopValue
  <2>2. loop[c] = "pop" /\ loop' \in [Threads -> Places]
        /\ loop' = [loop EXCEPT ![c] = IF setup.draining THEN "pop" ELSE "wait"]
    BY <1>3, <1>8 DEF PopSucceeds, Continue, Places
  <2> QED
    BY <2>1, <2>2 DEF PollsReadable
<1>9. ASSUME NEW c \in setup.consumers, PopFails(c)
      PROVE  Watched'
  <2>1. UNCHANGED <<setup, registered, listed, sent, count>>
    BY <1>9 DEF PopFails, queueVars
  <2>2. PICK to \in {"done", "wait"} :
          loop[c] = "pop" /\ loop' = [loop EXCEPT ![c] = to]
    BY <1>9 DEF PopFails, Continue
  <2>3. loop' \in [Threads -> Places]
    BY <1>3, <2>2 DEF Places
  <2> QED
    BY <1>3, <2>1, <2>2, <2>3 DEF PollsReadable
<1>10. ASSUME NEW t \in setup.closers, BeginClose(t)
       PROVE  Watched'
  <2>1. UNCHANGED <<setup, registered, listed, sent, count>>
    BY <1>10 DEF BeginClose, Close
  <2>2. t \in Threads /\ loop' = [loop EXCEPT ![t] = "closing"]
    BY <1>10, SetupFacts DEF BeginClose, Continue
  <2>3. loop' \in [Threads -> Places]
    BY <2>2 DEF Places
  <2> QED
    BY <2>1, <2>2, <2>3 DEF PollsReadable
<1>11. ASSUME NEW t \in setup.closers, WakeAfterClose(t)
       PROVE  Watched'
  <2>1. UNCHANGED <<setup, registered, sent>> /\ Notify
    BY <1>11 DEF WakeAfterClose
  <2>2. t \in Threads /\ loop' = [loop EXCEPT ![t] = "done"]
    BY <1>11, SetupFacts DEF WakeAfterClose, Continue
  <2>3. loop' \in [Threads -> Places]
    BY <2>2 DEF Places
  <2> QED
    BY <2>1, <2>2, <2>3, NotifyKeeps
<1>12. CASE UNCHANGED loopVars
  BY <1>12 DEF loopVars, queueVars, PollsReadable
<1> QED
  BY <1>1, <1>2, <1>4, <1>5, <1>6, <1>7, <1>8, <1>9, <1>10, <1>11, <1>12 DEF LoopNext

LEMMA WatchedInvariant == LoopSpec => []Watched
<1>1. LoopInit => Watched
  <2> SUFFICES ASSUME LoopInit
               PROVE  Watched
    OBVIOUS
  <2>1. loop \in [Threads -> Places] /\ \A t \in Threads : loop[t] = "start"
    BY DEF LoopInit, Places
  <2>2. setup \in Setups /\ registered = {} /\ listed = {} /\ sent = {}
    BY DEF LoopInit
  <2> QED
    BY <2>1, <2>2, SetupFacts DEF Watched
<1>2. TypeOK /\ TypeOK' /\ Watched /\ [LoopNext]_loopVars => Watched'
  BY WatchedStep
<1> QED
  BY <1>1, <1>2, QueueInLoop, TypeCorrect, PTL DEF LoopSpec

-----------------------------------------------------------------------------
(* Edge-triggered epolls.                                                  *)

\* Consumers pop until they get an error, and hear of the queue only when its
\* descriptor is written to.
EdgeDraining == setup.trigger = "edge" /\ setup.draining

\* Who took a value comes back for the next one: only draining consumers pop.
PoppersDrain ==
  EdgeDraining =>
    \A t \in Threads :
      pc[t] \in {"dec_load", "dec_finish", "dec_sub", "dec_wake"} =>
        t \in setup.consumers /\ loop[t] = "pop"

\* Outstanding work has an event on some list, a thread that will make one, or
\* a consumer that has been told and is not done.
Told ==
  EdgeDraining /\ registered # {} /\ Outstanding > 0 =>
    \/ listed # {}
    \/ \E t \in Threads : Raiser(t)
    \/ \E c \in setup.consumers : loop[c] = "pop"

LEMMA PoppersDrainStep ==
  ASSUME TypeOK, Watched, PoppersDrain, [LoopNext]_loopVars
  PROVE  PoppersDrain'
<1> SUFFICES ASSUME EdgeDraining'
             PROVE  \A t \in Threads :
                      pc'[t] \in {"dec_load", "dec_finish", "dec_sub", "dec_wake"} =>
                        t \in setup'.consumers /\ loop'[t] = "pop"
  BY DEF PoppersDrain
<1> USE DEF PoppersDrain, EdgeDraining, TypeOK, Watched
<1>1. ASSUME NEW t \in Threads, CallStep(t)
      PROVE  PoppersDrain'
  <2>1. UNCHANGED <<setup, loop>> /\ Resume(t)
    BY <1>1 DEF CallStep
  <2>2. CASE IncAdd(t) \/ IncWake(t) \/ AddLoad(t) \/ AddWake(t)
    BY <2>1, <2>2 DEF IncAdd, IncWake, AddLoad, AddWake, Goto
  <2>3. CASE DecLoad(t) \/ DecFinish(t) \/ DecSub(t) \/ DecWake(t)
    BY <2>1, <2>3 DEF DecLoad, DecFinish, DecSub, DecWake, Goto
  <2> QED
    BY <2>1, <2>2, <2>3 DEF Resume
<1>2. ASSUME NEW t \in setup.producers, Produce(t)
      PROVE  PoppersDrain'
  BY <1>2, SetupFacts DEF Produce, PushValue, Goto
<1>3. ASSUME NEW c \in setup.consumers, Register(c)
      PROVE  PoppersDrain'
  BY <1>3, SetupFacts DEF Register, AddCtl, Goto, Continue
<1>4. ASSUME NEW c \in setup.consumers, Join(c) \/ WaitReports(c) \/ WaitDrops(c)
      PROVE  PoppersDrain'
  BY <1>4, SetupFacts DEF Join, WaitReports, WaitDrops, queueVars, Continue
<1>5. ASSUME NEW c \in setup.consumers, PopSucceeds(c)
      PROVE  PoppersDrain'
  <2>1. c \in Threads /\ UNCHANGED setup /\ loop[c] = "pop"
    BY <1>5, SetupFacts DEF PopSucceeds, Continue
  <2>2. setup.draining => loop' = [loop EXCEPT ![c] = "pop"]
    BY <1>5 DEF PopSucceeds, Continue
  <2>3. pc' = [pc EXCEPT ![c] = "dec_load"]
    BY <1>5 DEF PopSucceeds, PopValue, Goto
  <2> QED
    BY <2>1, <2>2, <2>3
<1>6. ASSUME NEW c \in setup.consumers, PopFails(c)
      PROVE  PoppersDrain'
  <2>1. pc[c] = "idle" /\ UNCHANGED <<pc, setup>>
    BY <1>6 DEF PopFails, queueVars
  <2>2. \A t \in Threads \ {c} : loop'[t] = loop[t]
    BY <1>6 DEF PopFails, Continue
  <2> QED
    BY <2>1, <2>2
<1>7. ASSUME NEW t \in setup.closers, BeginClose(t) \/ WakeAfterClose(t)
      PROVE  PoppersDrain'
  BY <1>7, SetupFacts DEF BeginClose, Close, WakeAfterClose, Wake, Continue
<1>8. CASE UNCHANGED loopVars
  BY <1>8 DEF loopVars, queueVars
<1> QED
  BY <1>1, <1>2, <1>3, <1>4, <1>5, <1>6, <1>7, <1>8 DEF LoopNext

\* A write that is not refused reaches every epoll.
LEMMA RaiseNotifies ==
  ASSUME TypeOK, count < MaxCount, SetReadiness(Readable), Notify
  PROVE  listed' = registered
<1>1. count' = count + 1
  BY ConstantTypes DEF TypeOK, SetReadiness, Readable, Empty, Writable, Wakeup, Write, WriteFits
<1> QED
  BY <1>1, ConstantTypes DEF TypeOK, Notify

\* A step that leaves everything else alone keeps what was told.
LEMMA ToldStays ==
  ASSUME TypeOK, Told, NEW t \in Threads, ~Raiser(t),
         \A u \in Threads \ {t} : pc'[u] = pc[u] /\ first'[u] = first[u],
         Outstanding > 0, UNCHANGED <<setup, registered, listed>>,
         \A c \in setup.consumers : loop[c] = "pop" => loop'[c] = "pop"
  PROVE  Told'
<1>1. ASSUME NEW u \in Threads, Raiser(u)
      PROVE  Raiser(u)'
  BY <1>1 DEF Raiser, WillRaise
<1> QED
  BY <1>1 DEF Told, EdgeDraining

\* A consumer that stops found the queue empty: what is still outstanding was
\* taken by others, who have not finished.
LEMMA DrainedByOthers ==
  ASSUME TypeOK, Watched, PoppersDrain, EdgeDraining, Outstanding > 0,
         NEW c \in setup.consumers, PopFails(c)
  PROVE  \E d \in setup.consumers : d # c /\ loop[d] = "pop"
<1>1. Poppers # {}
  <2> SUFFICES ASSUME Poppers = {}
               PROVE  FALSE
    OBVIOUS
  <2>1. Cardinality(Poppers) = 0
    BY FS_EmptySet
  <2>2. Len(queue) = 0
    BY DEF PopFails
  <2> QED
    BY <2>1, <2>2, OutstandingType DEF Outstanding
<1>2. PICK d \in Threads : pc[d] \in PopperSteps
  BY <1>1 DEF Poppers, PopperSteps
<1> QED
  BY <1>2 DEF PopperSteps, PoppersDrain, PopFails

LEMMA ToldStep ==
  ASSUME TypeOK, TypeOK', PendingAccounting, CounterAnnounced, Watched, PoppersDrain, Told,
         count < MaxCount, [LoopNext]_loopVars
  PROVE  Told'
<1> SUFFICES ASSUME EdgeDraining', registered' # {}, Outstanding' > 0
             PROVE  Told'
  BY DEF Told
<1>1. ASSUME NEW t \in Threads, CallStep(t)
      PROVE  Told'
  <2>1. UNCHANGED <<setup, registered, loop>> /\ Notify /\ Resume(t) /\ EdgeDraining
    BY <1>1 DEF CallStep, EdgeDraining
  <2>2. \A u \in Threads \ {t} : pc'[u] = pc[u] /\ first'[u] = first[u]
    BY <2>1, OthersUntouched
  <2>3. CASE IncWake(t) \/ AddWake(t)
    <3>1. listed' = registered
      BY <2>1, <2>3, RaiseNotifies DEF IncWake, AddWake
    <3> QED
      BY <2>1, <3>1 DEF Told
  <2>4. CASE DecLoad(t) \/ DecFinish(t) \/ DecSub(t) \/ DecWake(t)
    <3>1. t \in setup.consumers /\ loop[t] = "pop"
      BY <2>1, <2>4 DEF PoppersDrain, DecLoad, DecFinish, DecSub, DecWake, Goto
    <3> QED
      BY <2>1, <3>1 DEF Told
  <2>5. CASE IncAdd(t) /\ pending = 0
    <3>1. Raiser(t)'
      BY <2>5 DEF IncAdd, Goto, TypeOK, Raiser, WillRaise
    <3> QED
      BY <3>1 DEF Told
  <2>6. CASE AddLoad(t) \/ (IncAdd(t) /\ pending # 0)
    <3>1. count' = count
      BY <2>6 DEF AddLoad, IncAdd
    <3>2. listed' = listed
      BY <2>1, <3>1, ConstantTypes DEF Notify, TypeOK
    <3>3. ~Raiser(t)
      BY <2>6 DEF AddLoad, IncAdd, Goto, Raiser, WillRaise
    <3>4. Outstanding > 0
      <4>1. CASE AddLoad(t)
        BY <4>1, OutstandingStep
      <4>2. CASE IncAdd(t) /\ pending # 0
        BY <4>2, OutstandingStep, OutstandingType DEF PendingAccounting
      <4> QED
        BY <2>6, <4>1, <4>2
    <3> QED
      BY <2>1, <2>2, <3>2, <3>3, <3>4, ToldStays
  <2> QED
    BY <2>1, <2>3, <2>4, <2>5, <2>6 DEF Resume
<1>2. ASSUME NEW t \in setup.producers, Produce(t)
      PROVE  Told'
  <2>1. PICK v \in Values : PushValue(t, v)
    BY <1>2 DEF Produce
  <2>2. t \in Threads
    BY SetupFacts DEF Watched
  <2>3. Outstanding > 0 /\ \A u \in Threads \ {t} : pc'[u] = pc[u] /\ first'[u] = first[u]
    BY <2>1, <2>2, OutstandingStep, OthersUntouched
  <2>4. ~Raiser(t)
    BY <2>1 DEF PushValue, Goto, Raiser, WillRaise
  <2> QED
    BY <1>2, <2>2, <2>3, <2>4, ToldStays DEF Produce
<1>3. ASSUME NEW c \in setup.consumers, Register(c)
      PROVE  Told'
  <2>1. c \in Threads
    BY SetupFacts DEF Watched
  <2>2. AddCtl(c) /\ Outstanding > 0
    BY <1>3, <2>1, OutstandingStep DEF Register
  <2>3. PollsReadable \/ \E t \in Threads : Raiser(t)
    BY <2>2 DEF CounterAnnounced, Raiser
  <2>4. CASE PollsReadable
    BY <1>3, <2>4 DEF Register, Told
  <2>5. ASSUME NEW t \in Threads, Raiser(t)
        PROVE  Told'
    <3>1. t # c
      BY <2>2, <2>5 DEF AddCtl, Goto, Raiser, WillRaise
    <3>2. Raiser(t)'
      BY <2>1, <2>2, <2>5, <3>1, OthersUntouched DEF Raiser, WillRaise
    <3> QED
      BY <3>2 DEF Told
  <2> QED
    BY <2>3, <2>4, <2>5
<1>4. ASSUME NEW c \in setup.consumers, Join(c)
      PROVE  Told'
  <2>1. UNCHANGED <<queueVars, setup, registered, listed>>
    BY <1>4 DEF Join
  <2>2. Outstanding' = Outstanding /\ \A t \in Threads : Raiser(t)' <=> Raiser(t)
    BY <2>1 DEF queueVars, Outstanding, Pushers, Poppers, Raiser, WillRaise
  <2>3. \A d \in setup.consumers : loop[d] = "pop" => loop'[d] = "pop"
    BY <1>4, SetupFacts DEF Join, Continue, Watched
  <2> QED
    BY <2>1, <2>2, <2>3 DEF Told, EdgeDraining
<1>5. ASSUME NEW c \in setup.consumers, WaitReports(c)
      PROVE  Told'
  <2>1. loop'[c] = "pop" /\ setup' = setup
    BY <1>5, SetupFacts DEF WaitReports, Continue, Watched
  <2> QED
    BY <2>1 DEF Told
<1>6. ASSUME NEW c \in setup.consumers, WaitDrops(c)
      PROVE  Told'
  <2>1. UNCHANGED <<queueVars, setup, registered, loop>> /\ ~PollsReadable
    BY <1>6 DEF WaitDrops
  <2>2. Outstanding' = Outstanding /\ \A t \in Threads : Raiser(t)' <=> Raiser(t)
    BY <2>1 DEF queueVars, Outstanding, Pushers, Poppers, Raiser, WillRaise
  <2>3. \E t \in Threads : Raiser(t)
    BY <2>1, <2>2 DEF CounterAnnounced, Raiser
  <2> QED
    BY <2>2, <2>3 DEF Told
<1>7. ASSUME NEW c \in setup.consumers, PopSucceeds(c)
      PROVE  Told'
  <2>1. c \in Threads /\ UNCHANGED setup /\ setup.draining
    BY <1>7, SetupFacts DEF PopSucceeds, Watched, EdgeDraining
  <2>2. loop'[c] = "pop"
    BY <1>7, <2>1 DEF PopSucceeds, Continue, Watched
  <2> QED
    BY <2>1, <2>2 DEF Told
<1>8. ASSUME NEW c \in setup.consumers, PopFails(c)
      PROVE  Told'
  <2>1. UNCHANGED <<queueVars, setup, registered, listed>>
    BY <1>8 DEF PopFails
  <2>2. Outstanding' = Outstanding
    BY <2>1 DEF queueVars, Outstanding, Pushers, Poppers
  <2>3. PICK d \in setup.consumers : d # c /\ loop[d] = "pop"
    BY <1>8, <2>1, <2>2, DrainedByOthers DEF EdgeDraining
  <2>4. loop'[d] = "pop"
    BY <1>8, <2>3, SetupFacts DEF PopFails, Continue, Watched
  <2> QED
    BY <2>1, <2>4 DEF Told
<1>9. ASSUME NEW t \in setup.closers, BeginClose(t)
      PROVE  Told'
  <2>1. UNCHANGED <<queue, pc, first, setup, registered, listed>>
    BY <1>9 DEF BeginClose, Close
  <2>2. Outstanding' = Outstanding /\ \A u \in Threads : Raiser(u)' <=> Raiser(u)
    BY <2>1 DEF Outstanding, Pushers, Poppers, Raiser, WillRaise
  <2>3. \A d \in setup.consumers : loop[d] = "pop" => loop'[d] = "pop"
    BY <1>9, SetupFacts DEF BeginClose, Continue, Watched
  <2> QED
    BY <2>1, <2>2, <2>3 DEF Told, EdgeDraining
<1>10. ASSUME NEW t \in setup.closers, WakeAfterClose(t)
       PROVE  Told'
  <2>1. listed' = registered /\ UNCHANGED registered
    BY <1>10, RaiseNotifies DEF WakeAfterClose, Wake
  <2> QED
    BY <2>1 DEF Told
<1>11. CASE UNCHANGED loopVars
  BY <1>11 DEF loopVars, queueVars, Told, EdgeDraining, Outstanding, Pushers, Poppers,
               Raiser, WillRaise
<1> QED
  BY <1>1, <1>2, <1>3, <1>4, <1>5, <1>6, <1>7, <1>8, <1>9, <1>10, <1>11 DEF LoopNext

-----------------------------------------------------------------------------
(* Theorems.                                                               *)

\* Types; and only registered epolls have the queue on their list.
THEOREM LoopTypeCorrect == LoopSpec => []LoopTypeOK
<1>1. TypeOK /\ Watched => LoopTypeOK
  BY DEF LoopTypeOK, Watched, Places
<1> QED
  BY <1>1, WatchedInvariant, QueueInLoop, TypeCorrect, PTL

\* With level-triggered epolls nobody sleeps over a value: the queue's promise
\* between calls (QuietCorrect) and the kernel's, which keeps a readable
\* descriptor on the list of every epoll, meet at the consumers' epolls.
THEOREM NobodySleeps == LoopSpec => [](setup.trigger = "level" => NoSleepOverValue)
<1>1. ASSUME Watched, QuietConsistent, setup.trigger = "level"
      PROVE  NoSleepOverValue
  <2> SUFFICES ASSUME Quiet, queue # <<>>, \A c \in setup.consumers : loop[c] = "wait"
               PROVE  PollsReadable /\ listed # {}
    BY DEF NoSleepOverValue
  <2>1. PollsReadable
    BY <1>1 DEF QuietConsistent
  <2>2. PICK c \in setup.consumers : setup.epollOf[c] \in registered
    BY <1>1, SetupFacts DEF Watched
  <2>3. registered \subseteq listed
    BY <1>1, <2>1 DEF Watched
  <2> QED
    BY <2>1, <2>2, <2>3
<1>2. Watched /\ QuietConsistent => (setup.trigger = "level" => NoSleepOverValue)
  BY <1>1
<1> QED
  BY <1>2, WatchedInvariant, QueueInLoop, QuietCorrect, PTL

\* The same with edge-triggered epolls, for consumers that pop until they get an
\* error, provided that the eventfd never saturates: a write that is refused
\* (waker.rs answers Ok) makes no edge, so nobody would be told.
THEOREM NobodySleepsEdge ==
  LoopSpec /\ [](count < MaxCount) => [](EdgeDraining => NoSleepOverValue)
<1>1. ASSUME LoopInit
      PROVE  PoppersDrain /\ Told
  BY <1>1 DEF LoopInit, Init, PoppersDrain, Told
<1>2. ASSUME TypeOK, Watched, QuietConsistent, Told, EdgeDraining
      PROVE  NoSleepOverValue
  <2> SUFFICES ASSUME Quiet, queue # <<>>, \A c \in setup.consumers : loop[c] = "wait"
               PROVE  PollsReadable /\ listed # {}
    BY DEF NoSleepOverValue
  <2>1. PollsReadable
    BY <1>2 DEF QuietConsistent
  <2>2. registered # {}
    BY <1>2, SetupFacts DEF Watched
  <2>3. Outstanding > 0
    BY <1>2, QuietOutstanding, OutstandingType, EmptySeq DEF TypeOK
  <2>4. \A t \in Threads : ~Raiser(t)
    BY DEF Quiet, Raiser, WillRaise
  <2> QED
    BY <1>2, <2>1, <2>2, <2>3, <2>4 DEF Told
<1>3. TypeOK /\ Watched /\ PoppersDrain /\ [LoopNext]_loopVars => PoppersDrain'
  BY PoppersDrainStep
<1>4. TypeOK /\ TypeOK' /\ PendingAccounting /\ CounterAnnounced /\ Watched /\ PoppersDrain
        /\ Told /\ count < MaxCount /\ [LoopNext]_loopVars => Told'
  BY ToldStep
<1>5. TypeOK /\ Watched /\ QuietConsistent /\ Told => (EdgeDraining => NoSleepOverValue)
  BY <1>2
<1> QED
  BY <1>1, <1>3, <1>4, <1>5, QueueInLoop, TypeCorrect, AccountingCorrect,
     CounterAnnouncedCorrect, QuietCorrect, WatchedInvariant, PTL DEF LoopSpec
=============================================================================
