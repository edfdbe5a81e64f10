------------------------- MODULE EpollEventsProofs -------------------------
(***************************************************************************)
(* Proofs about EpollEvents.tla, for any descriptors, interests and        *)
(* options, and a buffer of any size.                                      *)
(***************************************************************************)
EXTENDS EpollEvents, SublistLemmas

Requests == [interest : {i \in Interests : Valid(i)}, opts : Options]
Marks == {"ET", "ONESHOT"}

FullMask(request) ==
  InterestMask(request.interest) \cup OptMask(request.opts) \cup {"ERR", "HUP"}

IsOneShot(fd) == Contains(asked[fd].opts, OneShot)

-----------------------------------------------------------------------------
(* The inductive invariant.                                                *)

Typed ==
  /\ shows \in [Fds -> Conditions]
  /\ asked \in [Fds -> Requests \cup {NotAsked}]
  /\ mask \in [Fds -> SUBSET (KernelFlags \cup Marks)]
  /\ told \in [Fds -> 0 .. 2]
  /\ list \in Seq(Fds)
  /\ events \in Seq([source : Fds, flags : SUBSET KernelFlags])

\* The kernel's mask is the one asked for, until a one-shot descriptor is
\* reported and only the marks are left of it.
Masked(fd) ==
  IF Registered(fd)
  THEN \/ mask[fd] = FullMask(asked[fd]) /\ (IsOneShot(fd) => told[fd] = 0)
       \/ mask[fd] \subseteq Marks /\ IsOneShot(fd) /\ told[fd] = 1
  ELSE mask[fd] = {} /\ fd \notin Range(list)

EventsInv ==
  /\ Typed
  /\ IsInjective(list)
  /\ Len(events) <= BufferSize
  /\ \A fd \in Fds : Masked(fd)
  /\ ReadinessKept

-----------------------------------------------------------------------------
(* Waiting.                                                               *)

\* The kernel stops at a position of the list, with no more than the buffer
\* holds.
LEMMA StopEffect ==
  ASSUME NEW seen, NEW n \in Nat, NEW stop,
         \A i \in 0 .. n : /\ Len(seen[i]) \in Nat
                           /\ i = 0 => Len(seen[i]) = 0
                           /\ i # 0 => Len(seen[i]) <= Len(seen[i - 1]) + 1,
         stop = Min({i \in 0 .. n : Len(seen[i]) >= BufferSize} \cup {n})
  PROVE  stop \in 0 .. n /\ Len(seen[stop]) <= BufferSize
<1> DEFINE Stops == {i \in 0 .. n : Len(seen[i]) >= BufferSize} \cup {n}
<1>1. Stops \in SUBSET Nat /\ Stops # {} /\ BufferSize \in Nat \ {0}
  BY EpollEventsAssumption
<1>2. stop = CHOOSE i \in Stops : \A j \in Stops : i <= j
  BY DEF Min
<1>3. stop \in Stops /\ \A j \in Stops : stop <= j
  <2> HIDE DEF Stops
  <2> QED BY <1>1, <1>2, Least
<1>4. stop \in 0 .. n
  BY <1>3
<1>5. CASE stop = 0
  BY <1>1, <1>4, <1>5
<1>6. CASE stop # 0
  <2>1. stop - 1 \in 0 .. n /\ ~ (stop <= stop - 1)
    BY <1>4, <1>6
  <2>2. ~ (Len(seen[stop - 1]) >= BufferSize)
    BY <1>3, <2>1
  <2>3. /\ Len(seen[stop]) \in Nat /\ Len(seen[stop - 1]) \in Nat
        /\ Len(seen[stop]) <= Len(seen[stop - 1]) + 1
    BY <1>4, <1>6, <2>1
  <2> QED BY <1>1, <1>4, <2>2, <2>3
<1> QED BY <1>4, <1>5, <1>6
-----------------------------------------------------------------------------
(* Masks.                                                                  *)

LEMMA RequestType ==
  ASSUME NEW request \in Requests
  PROVE  /\ request \in [interest : Interests, opts : Options]
         /\ request # NotAsked
         /\ request.interest \in ReadySet /\ request.opts \in EpollOpt
         /\ request.interest \cap {"readable", "writable"} # {}
  BY EpollEventsAssumption DEF Requests, Valid, Contains, Readable, Writable

\* What a mask says: all that shows the readiness asked for, the marks by the
\* options, and nothing else beyond ERR and HUP.
LEMMA MaskEffect ==
  ASSUME NEW request \in Requests
  PROVE  /\ FullMask(request) \subseteq KernelFlags \cup Marks
         /\ FullMask(request) \cap {"PRI", "NVAL"} = {}
         /\ \A flag \in request.interest : Meaning[flag] \subseteq FullMask(request)
         /\ "IN" \in FullMask(request) => "readable" \in request.interest
         /\ "OUT" \in FullMask(request) => "writable" \in request.interest
         /\ "ONESHOT" \in FullMask(request) <=> Contains(request.opts, OneShot)
         /\ "ET" \in FullMask(request) <=>
              Contains(request.opts, Edge) /\ ~Contains(request.opts, Level)
<1> USE DEF FullMask, InterestMask, OptMask, KernelFlags, Marks, Contains, Readable,
        Writable, Hup
<1>1. FullMask(request) \subseteq KernelFlags \cup Marks
  OBVIOUS
<1>2. FullMask(request) \cap {"PRI", "NVAL"} = {}
  OBVIOUS
<1>3. \A flag \in request.interest : Meaning[flag] \subseteq FullMask(request)
  <2>1. \A flag \in request.interest : flag \in ReadyFlags
    BY RequestType DEF ReadySet
  <2>2. /\ Meaning["readable"] = {"IN"} /\ Meaning["writable"] = {"OUT"}
        /\ Meaning["error"] = {"ERR"} /\ Meaning["hup"] = {"HUP", "RDHUP"}
    BY DEF Meaning
  <2>3. {"HUP", "ERR"} \subseteq FullMask(request)
    OBVIOUS
  <2>4. "readable" \in request.interest => "IN" \in FullMask(request)
    OBVIOUS
  <2>5. "writable" \in request.interest => "OUT" \in FullMask(request)
    OBVIOUS
  <2>6. "hup" \in request.interest => "RDHUP" \in FullMask(request)
    OBVIOUS
  <2> HIDE DEF FullMask
  <2> QED BY <2>1, <2>2, <2>3, <2>4, <2>5, <2>6 DEF ReadyFlags
<1>4. "IN" \in FullMask(request) => "readable" \in request.interest
  OBVIOUS
<1>5. "OUT" \in FullMask(request) => "writable" \in request.interest
  OBVIOUS
<1>6. "ONESHOT" \in FullMask(request) <=> Contains(request.opts, OneShot)
  OBVIOUS
<1>7. "ET" \in FullMask(request) <=>
        Contains(request.opts, Edge) /\ ~Contains(request.opts, Level)
  OBVIOUS
<1> QED BY <1>1, <1>2, <1>3, <1>4, <1>5, <1>6, <1>7

LEMMA ConditionType ==
  ASSUME NEW flags \in Conditions
  PROVE  flags \subseteq KernelFlags \ {"NVAL"}
  BY EpollEventsAssumption

\* The mask of a descriptor is a mask, and it shows nothing once it is spent.
LEMMA MaskedEffect ==
  ASSUME Typed, NEW fd \in Fds, Masked(fd)
  PROVE  /\ Registered(fd) => asked[fd] \in Requests
         /\ Registered(fd) /\ Visible(fd) # {} =>
              mask[fd] = FullMask(asked[fd]) /\ (IsOneShot(fd) => told[fd] = 0)
         /\ Visible(fd) # {} => Registered(fd)
<1>1. Registered(fd) => asked[fd] \in Requests
  BY DEF Typed, Registered
<1>2. mask[fd] \subseteq Marks => Visible(fd) = {}
  <2>1. shows[fd] \subseteq KernelFlags
    BY ConditionType DEF Typed
  <2> QED BY <2>1 DEF Visible, Marks, KernelFlags
<1> QED BY <1>1, <1>2 DEF Masked, Visible

\* A level-triggered descriptor keeps its mask, which has no mark and shows
\* what is wanted.
LEMMA WantedEffect ==
  ASSUME Typed, NEW fd \in Fds, Masked(fd), LevelTriggered(fd)
  PROVE  /\ mask[fd] = FullMask(asked[fd]) /\ asked[fd] \in Requests
         /\ mask[fd] \cap {"ET", "ONESHOT"} = {}
         /\ Wanted(fd) => Visible(fd) # {}
<1>1. mask[fd] = FullMask(asked[fd]) /\ asked[fd] \in Requests
  BY MaskedEffect DEF LevelTriggered, Masked, IsOneShot
<1>2. mask[fd] \cap {"ET", "ONESHOT"} = {}
  BY <1>1, MaskEffect DEF LevelTriggered
<1>3. Wanted(fd) => Visible(fd) # {}
  BY <1>1, MaskEffect DEF Wanted, Truth, Visible
<1> QED BY <1>1, <1>2, <1>3

-----------------------------------------------------------------------------
(* The steps.                                                              *)

LEMMA EnlistEffect ==
  ASSUME list \in Seq(Fds), IsInjective(list), NEW fd \in Fds
  PROVE  /\ Enlist(fd) \in Seq(Fds) /\ IsInjective(Enlist(fd))
         /\ Range(Enlist(fd)) = Range(list) \cup {fd}
  BY AppendEffect DEF Enlist

LEMMA ChangeKeeps ==
  ASSUME EventsInv, NEW fd \in Fds, NEW flags \in Conditions, Change(fd, flags)
  PROVE  EventsInv'
<1> USE DEF EventsInv
<1>1. /\ shows' = [shows EXCEPT ![fd] = flags]
      /\ list' = IF (flags \ shows[fd]) \cap mask[fd] # {} THEN Enlist(fd) ELSE list
      /\ UNCHANGED <<asked, mask, events, told>>
  BY DEF Change
<1>2. /\ list' \in Seq(Fds) /\ IsInjective(list')
      /\ Range(list) \subseteq Range(list') /\ Range(list') \subseteq Range(list) \cup {fd}
      /\ (flags \ shows[fd]) \cap mask[fd] # {} => fd \in Range(list')
  BY <1>1, EnlistEffect DEF Typed
<1>3. Typed'
  BY <1>1, <1>2 DEF Typed
<1>4. \A other \in Fds : Masked(other)'
  <2> TAKE other \in Fds
  <2>1. Masked(other)
    OBVIOUS
  <2>2. ~Registered(other) => other \notin Range(list')
    <3>1. CASE other = fd
      BY <1>1, <2>1, <3>1 DEF Masked
    <3>2. CASE other # fd
      BY <1>2, <2>1, <3>2 DEF Masked
    <3> QED BY <3>1, <3>2
  <2> QED BY <1>1, <2>1, <2>2 DEF Masked, Registered, IsOneShot, FullMask
<1>5. ReadinessKept'
  <2> SUFFICES ASSUME NEW other \in Fds, Wanted(other)' PROVE other \in Range(list')
    BY DEF ReadinessKept
  <2>1. CASE other \in Range(list)
    BY <1>2, <2>1
  <2>2. CASE other \notin Range(list)
    <3>1. ~Wanted(other) /\ Masked(other) /\ LevelTriggered(other)
      BY <1>1, <2>2 DEF ReadinessKept, Wanted, LevelTriggered, Registered
    <3>2. other = fd
      BY <1>1, <3>1 DEF Wanted, Typed
    <3>3. Truth(flags) \cap asked[fd].interest # {} /\ Truth(shows[fd]) \cap asked[fd].interest = {}
      <4>1. shows'[fd] = flags
        BY <1>1 DEF Typed
      <4> QED BY <1>1, <3>1, <3>2, <4>1 DEF Wanted
    <3>4. PICK flag \in asked[fd].interest : flag \in Truth(flags) /\ flag \notin Truth(shows[fd])
      BY <3>3
    <3>5. PICK kernelFlag \in flags \cap Meaning[flag] : kernelFlag \notin shows[fd]
      BY <3>4 DEF Truth
    <3>6. kernelFlag \in mask[fd]
      BY <3>1, <3>2, <3>5, WantedEffect, MaskEffect
    <3> QED BY <1>2, <3>2, <3>5, <3>6
  <2> QED BY <2>1, <2>2
<1> QED BY <1>1, <1>2, <1>3, <1>4, <1>5

LEMMA RepeatKeeps ==
  ASSUME EventsInv, NEW fd \in Fds, Repeat(fd)
  PROVE  EventsInv'
<1> USE DEF EventsInv
<1>1. /\ Visible(fd) # {} /\ list' = Enlist(fd)
      /\ UNCHANGED <<shows, asked, mask, events, told>>
  BY DEF Repeat
<1>2. list' \in Seq(Fds) /\ IsInjective(list') /\ Range(list') = Range(list) \cup {fd}
  BY <1>1, EnlistEffect DEF Typed
<1>3. Registered(fd)
  BY <1>1, MaskedEffect
<1>4. Typed'
  BY <1>1, <1>2 DEF Typed
<1>5. \A other \in Fds : Masked(other)'
  BY <1>1, <1>2, <1>3 DEF Masked, Registered, IsOneShot, FullMask
<1>6. ReadinessKept'
  BY <1>1, <1>2 DEF ReadinessKept, Wanted, LevelTriggered, Registered
<1> QED BY <1>1, <1>2, <1>4, <1>5, <1>6

LEMMA AskKeeps ==
  ASSUME EventsInv, NEW fd \in Fds, NEW interest \in Interests, NEW opts \in Options,
         Ask(fd, interest, opts)
  PROVE  EventsInv'
<1> USE DEF EventsInv
<1> DEFINE request == [interest |-> interest, opts |-> opts]
<1>1. /\ asked' = [asked EXCEPT ![fd] = request]
      /\ mask' = [mask EXCEPT ![fd] = FullMask(request)]
      /\ list' = IF shows[fd] \cap mask'[fd] # {} THEN Enlist(fd) ELSE list
      /\ told' = [told EXCEPT ![fd] = 0]
      /\ UNCHANGED <<shows, events>>
  BY DEF Ask, FullMask
<1>2. request \in Requests /\ request # NotAsked
  <2>1. request \in Requests
    BY DEF Requests, Ask
  <2> QED BY <2>1, RequestType
<1> HIDE DEF request
<1>3. /\ asked'[fd] = request /\ mask'[fd] = FullMask(request) /\ told'[fd] = 0
      /\ \A other \in Fds \ {fd} :
           asked'[other] = asked[other] /\ mask'[other] = mask[other] /\ told'[other] = told[other]
  BY <1>1 DEF Typed
<1>4. /\ list' \in Seq(Fds) /\ IsInjective(list')
      /\ Range(list) \subseteq Range(list') /\ Range(list') \subseteq Range(list) \cup {fd}
      /\ shows[fd] \cap FullMask(request) # {} => fd \in Range(list')
  BY <1>1, <1>3, EnlistEffect DEF Typed
<1>5. Typed'
  <2>1. asked' \in [Fds -> Requests \cup {NotAsked}]
    BY <1>1, <1>2 DEF Typed
  <2>2. FullMask(request) \subseteq KernelFlags \cup Marks
    BY <1>2, MaskEffect
  <2>3. mask' \in [Fds -> SUBSET (KernelFlags \cup Marks)]
    BY <1>1, <2>2 DEF Typed
  <2>4. told' \in [Fds -> 0 .. 2]
    BY <1>1 DEF Typed
  <2> QED BY <1>1, <1>4, <2>1, <2>3, <2>4 DEF Typed
<1>6. \A other \in Fds : Masked(other)'
  <2> TAKE other \in Fds
  <2>1. CASE other = fd
    BY <1>2, <1>3, <2>1 DEF Masked, Registered, IsOneShot, FullMask
  <2>2. CASE other # fd
    BY <1>3, <1>4, <2>2 DEF Masked, Registered, IsOneShot, FullMask
  <2> QED BY <2>1, <2>2
<1>7. ReadinessKept'
  <2> SUFFICES ASSUME NEW other \in Fds, Wanted(other)' PROVE other \in Range(list')
    BY DEF ReadinessKept
  <2>1. CASE other = fd
    <3>1. PICK flag \in request.interest : shows[fd] \cap Meaning[flag] # {}
      BY <1>1, <1>3, <2>1 DEF Wanted, Truth
    <3>2. Meaning[flag] \subseteq FullMask(request)
      BY <1>2, MaskEffect
    <3> QED BY <1>4, <2>1, <3>1, <3>2
  <2>2. CASE other # fd
    BY <1>1, <1>3, <1>4, <2>2 DEF ReadinessKept, Wanted, LevelTriggered, Registered
  <2> QED BY <2>1, <2>2
<1> QED BY <1>1, <1>4, <1>5, <1>6, <1>7

LEMMA DeleteKeeps ==
  ASSUME EventsInv, NEW fd \in Fds, Delete(fd)
  PROVE  EventsInv'
<1> USE DEF EventsInv
<1>1. /\ asked' = [asked EXCEPT ![fd] = NotAsked]
      /\ mask' = [mask EXCEPT ![fd] = {}]
      /\ list' = Only(list, Fds \ {fd})
      /\ told' = [told EXCEPT ![fd] = 0]
      /\ UNCHANGED <<shows, events>>
  BY DEF Delete
<1>2. /\ list' \in Seq(Fds) /\ IsInjective(list')
      /\ Range(list') = Range(list) \cap (Fds \ {fd})
  BY <1>1, OnlyEffect DEF Typed
<1>3. /\ asked'[fd] = NotAsked /\ mask'[fd] = {}
      /\ \A other \in Fds \ {fd} :
           asked'[other] = asked[other] /\ mask'[other] = mask[other] /\ told'[other] = told[other]
  BY <1>1 DEF Typed
<1>4. Typed'
  BY <1>1, <1>2 DEF Typed
<1>5. \A other \in Fds : Masked(other)'
  <2> TAKE other \in Fds
  <2>1. CASE other = fd
    BY <1>2, <1>3, <2>1 DEF Masked, Registered
  <2>2. CASE other # fd
    BY <1>2, <1>3, <2>2 DEF Masked, Registered, IsOneShot, FullMask
  <2> QED BY <2>1, <2>2
<1>6. ReadinessKept'
  <2> SUFFICES ASSUME NEW other \in Fds, Wanted(other)' PROVE other \in Range(list')
    BY DEF ReadinessKept
  <2>1. other # fd
    BY <1>3 DEF Wanted, LevelTriggered, Registered
  <2>2. Wanted(other)
    BY <1>1, <1>3, <2>1 DEF Wanted, LevelTriggered, Registered
  <2> QED BY <1>2, <2>1, <2>2 DEF ReadinessKept
<1> QED BY <1>1, <1>2, <1>4, <1>5, <1>6
Quiet == {fd \in Fds : mask[fd] \cap {"ET", "ONESHOT"} = {}}

\* A wait that reports takes descriptors that show something, at most as many
\* as the buffer holds; only those with a mark leave the list, beside those
\* that show nothing.
Taking(taken) ==
  /\ taken \in Seq(Fds) /\ Len(taken) <= BufferSize
  /\ Range(taken) \subseteq Range(list) \cap Showing
  /\ list' \in Seq(Fds) /\ IsInjective(list') /\ Range(list') \subseteq Range(list)
  /\ Range(list) \cap Showing \cap Quiet \subseteq Range(list')
  /\ (Range(list) \cap Showing) \ Range(taken) \subseteq Range(list')
  /\ events' = [i \in DOMAIN taken |-> [source |-> taken[i], flags |-> Visible(taken[i])]]
  /\ mask' = [fd \in Fds |-> IF fd \in Range(taken) /\ "ONESHOT" \in mask[fd]
                             THEN mask[fd] \cap {"ET", "ONESHOT"} ELSE mask[fd]]
  /\ told' = [fd \in Fds |-> IF fd \in Range(taken) /\ Contains(asked[fd].opts, OneShot)
                                /\ told[fd] < 2
                             THEN told[fd] + 1 ELSE told[fd]]

LEMMA WaitEffect ==
  ASSUME list \in Seq(Fds), IsInjective(list), WaitReports
  PROVE  \E taken : Taking(taken)
<1> DEFINE n == Len(list)
           seen == Chosen(list, Showing)
           stop == Min({i \in 0 .. n : Len(seen[i]) >= BufferSize} \cup {n})
           taken == seen[stop]
           kept == SubSeq(list, stop + 1, n)
           again == Only(taken, Quiet)
<1>1. /\ list' = kept \o again
      /\ events' = [i \in DOMAIN taken |-> [source |-> taken[i], flags |-> Visible(taken[i])]]
      /\ mask' = [fd \in Fds |-> IF fd \in Range(taken) /\ "ONESHOT" \in mask[fd]
                                 THEN mask[fd] \cap {"ET", "ONESHOT"} ELSE mask[fd]]
      /\ told' = [fd \in Fds |-> IF fd \in Range(taken) /\ Contains(asked[fd].opts, OneShot)
                                    /\ told[fd] < 2
                                 THEN told[fd] + 1 ELSE told[fd]]
  BY DEF WaitReports, Quiet
<1>2. n \in Nat /\ DOMAIN list = 1 .. n
  OBVIOUS
<1>3. \A i \in 0 .. n : WellChosen(Fds, list, Showing, i)
  BY ChosenEffect
<1>4. stop \in 0 .. n /\ Len(taken) <= BufferSize
  <2>1. \A i \in 0 .. n : /\ Len(seen[i]) \in Nat
                          /\ i = 0 => Len(seen[i]) = 0
                          /\ i # 0 => Len(seen[i]) <= Len(seen[i - 1]) + 1
    <3> TAKE i \in 0 .. n
    <3>1. WellChosen(Fds, list, Showing, i)
      BY <1>3
    <3> QED BY <3>1 DEF WellChosen
  <2> HIDE DEF seen, n
  <2> QED BY <1>2, <2>1, StopEffect
<1>5. /\ taken \in Seq(Fds) /\ IsInjective(taken)
      /\ Range(taken) = {list[j] : j \in 1 .. stop} \cap Showing
  <2>1. WellChosen(Fds, list, Showing, stop)
    BY <1>3, <1>4
  <2> QED BY <2>1 DEF WellChosen
<1>6. /\ kept \in Seq(Fds) /\ IsInjective(kept)
      /\ Range(kept) = {list[j] : j \in stop + 1 .. n}
  <2> HIDE DEF stop
  <2> QED BY <1>4, RestEffect
<1> HIDE DEF taken, stop, kept, seen
<1>7. /\ again \in Seq(Fds) /\ IsInjective(again)
      /\ Range(again) = Range(taken) \cap Quiet
  BY <1>5, OnlyEffect
<1> HIDE DEF again, n
<1>8. Range(list) = {list[j] : j \in 1 .. stop} \cup {list[j] : j \in stop + 1 .. n}
  <2>1. 1 .. n = (1 .. stop) \cup (stop + 1 .. n)
    BY <1>2, <1>4
  <2> QED BY <1>2, <2>1 DEF Range
<1>9. {list[j] : j \in 1 .. stop} \cap {list[j] : j \in stop + 1 .. n} = {}
  <2>1. \A i \in 1 .. stop, j \in stop + 1 .. n : i \in DOMAIN list /\ j \in DOMAIN list /\ i # j
    BY <1>2, <1>4
  <2> QED BY <2>1 DEF IsInjective
<1>10. Range(kept) \cap Range(again) = {}
  BY <1>5, <1>6, <1>7, <1>9
<1>11. /\ list' \in Seq(Fds) /\ IsInjective(list')
       /\ Range(list') = Range(kept) \cup Range(again)
  BY <1>1, <1>6, <1>7, <1>10, JoinEffect
<1>12. /\ Range(taken) \subseteq Range(list) \cap Showing
       /\ Range(list') \subseteq Range(list)
       /\ Range(list) \cap Showing \cap Quiet \subseteq Range(list')
       /\ (Range(list) \cap Showing) \ Range(taken) \subseteq Range(list')
  BY <1>5, <1>6, <1>7, <1>8, <1>11
<1>13. Taking(taken)
  BY <1>1, <1>4, <1>5, <1>11, <1>12 DEF Taking
<1> QED BY <1>13

LEMMA WaitReportsKeeps ==
  ASSUME EventsInv, WaitReports
  PROVE  EventsInv'
<1> USE DEF EventsInv
<1>1. PICK taken : Taking(taken)
  BY WaitEffect DEF Typed
<1>2. UNCHANGED <<shows, asked>>
  BY DEF WaitReports
<1>3. \A fd \in Range(taken) : fd \in Fds /\ Visible(fd) # {} /\ Visible(fd) \in SUBSET KernelFlags
  BY <1>1, ConditionType DEF Taking, Showing, Visible, Typed
<1>4. /\ events' \in Seq([source : Fds, flags : SUBSET KernelFlags])
      /\ Len(events') <= BufferSize
  <2>1. /\ events' = [i \in DOMAIN taken |-> [source |-> taken[i], flags |-> Visible(taken[i])]]
        /\ DOMAIN taken = 1 .. Len(taken) /\ Len(taken) \in Nat /\ Len(taken) <= BufferSize
    BY <1>1 DEF Taking
  <2>2. \A i \in DOMAIN taken : taken[i] \in Fds /\ Visible(taken[i]) \in SUBSET KernelFlags
    BY <1>3 DEF Range
  <2>3. events' \in [1 .. Len(taken) -> [source : Fds, flags : SUBSET KernelFlags]]
    BY <2>1, <2>2
  <2>4. Len(events') = Len(taken)
    BY <2>1, <2>3
  <2> QED BY <2>1, <2>3, <2>4
<1>5. \A fd \in Fds :
        /\ mask'[fd] = IF fd \in Range(taken) /\ "ONESHOT" \in mask[fd]
                       THEN mask[fd] \cap Marks ELSE mask[fd]
        /\ told'[fd] = IF fd \in Range(taken) /\ Contains(asked[fd].opts, OneShot)
                          /\ told[fd] < 2
                       THEN told[fd] + 1 ELSE told[fd]
  BY <1>1 DEF Taking, Marks
<1>6. Typed'
  <2>1. mask' \in [Fds -> SUBSET (KernelFlags \cup Marks)]
    BY <1>1, <1>5 DEF Typed, Taking
  <2>2. told' \in [Fds -> 0 .. 2]
    <3>1. \A fd \in Fds : told[fd] \in 0 .. 2
      BY DEF Typed
    <3>2. \A fd \in Fds : told'[fd] = told[fd] \/ (told[fd] < 2 /\ told'[fd] = told[fd] + 1)
      BY <1>5
    <3>3. \A fd \in Fds : told'[fd] \in 0 .. 2
      BY <3>1, <3>2
    <3> QED BY <1>1, <3>3 DEF Taking
  <2> QED BY <1>1, <1>2, <1>4, <2>1, <2>2 DEF Typed, Taking
<1>7. \A fd \in Fds : Masked(fd)'
  <2> TAKE fd \in Fds
  <2>1. Masked(fd)
    OBVIOUS
  <2>2. CASE fd \in Range(taken)
    <3>1. /\ Registered(fd) /\ asked[fd] \in Requests
          /\ mask[fd] = FullMask(asked[fd]) /\ (IsOneShot(fd) => told[fd] = 0)
      BY <1>3, <2>1, <2>2, MaskedEffect
    <3>2. "ONESHOT" \in mask[fd] <=> IsOneShot(fd)
      BY <3>1, MaskEffect DEF IsOneShot
    <3>3. CASE IsOneShot(fd)
      <4>1. mask'[fd] \subseteq Marks
        BY <1>5, <2>2, <3>2, <3>3
      <4>2. told[fd] = 0 /\ Contains(asked[fd].opts, OneShot)
        BY <3>1, <3>3 DEF IsOneShot
      <4>3. told'[fd] = 1
        <5>1. told'[fd] = IF told[fd] < 2 THEN told[fd] + 1 ELSE told[fd]
          BY <1>5, <2>2, <4>2
        <5> QED BY <4>2, <5>1
      <4> QED BY <1>2, <3>1, <3>3, <4>1, <4>3 DEF Masked, Registered, IsOneShot
    <3>4. CASE ~IsOneShot(fd)
      <4>1. mask'[fd] = mask[fd]
        BY <1>5, <3>2, <3>4
      <4> QED BY <1>2, <3>1, <3>4, <4>1 DEF Masked, Registered, IsOneShot, FullMask
    <3> QED BY <3>3, <3>4
  <2>3. CASE fd \notin Range(taken)
    <3>1. mask'[fd] = mask[fd] /\ told'[fd] = told[fd] /\ Range(list') \subseteq Range(list)
      BY <1>1, <1>5, <2>3 DEF Taking
    <3> QED BY <1>2, <2>1, <3>1 DEF Masked, Registered, IsOneShot, FullMask
  <2> QED BY <2>2, <2>3
<1>8. ReadinessKept'
  <2> SUFFICES ASSUME NEW fd \in Fds, Wanted(fd)' PROVE fd \in Range(list')
    BY DEF ReadinessKept
  <2>1. Wanted(fd) /\ LevelTriggered(fd)
    BY <1>2 DEF Wanted, LevelTriggered, Registered
  <2>2. fd \in Showing /\ fd \in Quiet
    BY <2>1, WantedEffect DEF Showing, Quiet
  <2>3. fd \in Range(list)
    BY <2>1 DEF ReadinessKept
  <2> QED BY <1>1, <2>2, <2>3 DEF Taking
<1> QED BY <1>1, <1>4, <1>6, <1>7, <1>8 DEF Taking

\* A wait with nothing to report forgets descriptors that show nothing.
LEMMA WaitEmptyKeeps ==
  ASSUME EventsInv, WaitTimesOut \/ WaitFails
  PROVE  EventsInv'
<1> USE DEF EventsInv
<1>1. /\ Only(list, Showing) = <<>> /\ list' = <<>>
      /\ events' = <<>> \/ events' = events
      /\ UNCHANGED <<shows, asked, mask, told>>
  BY DEF WaitTimesOut, WaitFails
<1>2. Range(list) \cap Showing = {}
  <2>1. Range(Only(list, Showing)) = Range(list) \cap Showing
    BY OnlyEffect DEF Typed
  <2>2. Range(Only(list, Showing)) = {}
    BY <1>1 DEF Range
  <2> QED BY <2>1, <2>2
<1>3. \A fd \in Fds : ~Wanted(fd)
  BY <1>2, WantedEffect DEF Showing, ReadinessKept, Wanted
<1>4. list' \in Seq(Fds) /\ IsInjective(list') /\ Range(list') = {}
  BY <1>1 DEF IsInjective, Range
<1>5. /\ events' \in Seq([source : Fds, flags : SUBSET KernelFlags])
      /\ Len(events') <= BufferSize
  <2>1. CASE events' = events
    BY <2>1 DEF Typed
  <2>2. CASE events' = <<>>
    <3>1. <<>> \in Seq([source : Fds, flags : SUBSET KernelFlags]) /\ Len(<<>>) = 0
      OBVIOUS
    <3>2. 0 <= BufferSize
      BY EpollEventsAssumption
    <3> QED BY <2>2, <3>1, <3>2
  <2> QED BY <1>1, <2>1, <2>2
<1>6. Typed'
  BY <1>1, <1>4, <1>5 DEF Typed
<1>7. \A fd \in Fds : Masked(fd)'
  BY <1>1, <1>4 DEF Masked, Registered, IsOneShot, FullMask
<1>8. ReadinessKept'
  BY <1>1, <1>3 DEF ReadinessKept, Wanted, LevelTriggered, Registered
<1> QED BY <1>4, <1>5, <1>6, <1>7, <1>8

LEMMA EventsInitially == Init => EventsInv
<1> SUFFICES ASSUME Init PROVE EventsInv
  OBVIOUS
<1>1. Range(list) = {} /\ IsInjective(list)
  BY DEF Init, Range, IsInjective
<1>2. Typed /\ Len(events) <= BufferSize
  BY EpollEventsAssumption DEF Init, Typed
<1>3. \A fd \in Fds : ~Registered(fd) /\ Masked(fd)
  BY <1>1 DEF Init, Registered, Masked
<1> QED BY <1>1, <1>2, <1>3 DEF EventsInv, ReadinessKept, Wanted, LevelTriggered

LEMMA EventsStep == EventsInv /\ [Next]_eventVars => EventsInv'
<1> SUFFICES ASSUME EventsInv, [Next]_eventVars PROVE EventsInv'
  OBVIOUS
<1>1. ASSUME NEW fd \in Fds, NEW flags \in Conditions, Change(fd, flags) PROVE EventsInv'
  BY <1>1, ChangeKeeps
<1>2. ASSUME NEW fd \in Fds, NEW interest \in Interests, NEW opts \in Options,
             Add(fd, interest, opts) \/ Modify(fd, interest, opts)
      PROVE  EventsInv'
  BY <1>2, AskKeeps DEF Add, Modify
<1>3. ASSUME NEW fd \in Fds, Repeat(fd) \/ Delete(fd) PROVE EventsInv'
  BY <1>3, RepeatKeeps, DeleteKeeps
<1>4. CASE WaitReports
  BY <1>4, WaitReportsKeeps
<1>5. CASE WaitTimesOut \/ WaitFails
  BY <1>5, WaitEmptyKeeps
<1>6. CASE UNCHANGED eventVars
  <2> USE <1>6 DEF eventVars
  <2>1. Typed'
    BY DEF EventsInv, Typed
  <2>2. \A fd \in Fds : Masked(fd)'
    BY DEF EventsInv, Masked, Registered, IsOneShot, FullMask
  <2>3. ReadinessKept'
    BY DEF EventsInv, ReadinessKept, Wanted, LevelTriggered, Registered
  <2> QED BY <2>1, <2>2, <2>3 DEF EventsInv
<1> QED BY <1>1, <1>2, <1>3, <1>4, <1>5, <1>6 DEF Next

LEMMA EventsInvariant == Spec => []EventsInv
  BY EventsInitially, EventsStep, PTL DEF Spec

-----------------------------------------------------------------------------
(* What follows.                                                           *)

\* A registration has an interest that validate_args accepts, the kernel
\* lists registered descriptors only and each once, and wait() fills no more
\* of the buffer than there is.
THEOREM EventsTypeCorrect == Spec => []EventsTypeOK
<1>1. EventsInv => EventsTypeOK
  <2> SUFFICES ASSUME EventsInv PROVE EventsTypeOK
    OBVIOUS
  <2>1. \A fd \in Fds : /\ Registered(fd) => asked[fd].interest \cap {"readable", "writable"} # {}
                        /\ fd \in Range(list) => Registered(fd)
    BY MaskedEffect, RequestType DEF EventsInv, Masked
  <2> QED BY <2>1 DEF EventsInv, Typed, EventsTypeOK
<1> QED BY <1>1, EventsInvariant, PTL

\* A level-triggered descriptor that shows what was asked for is on the
\* kernel's list whatever the waits before took: no wait forgets readiness
\* (sys/epoll.rs:34-49, :106-120).
THEOREM ReadinessIsKept == Spec => []ReadinessKept
<1>1. EventsInv => ReadinessKept
  BY DEF EventsInv
<1> QED BY <1>1, EventsInvariant, PTL

\* A one-shot registration is reported once until it is renewed.
THEOREM OneShotFiresOnce == Spec => []OneShotOnce
<1>1. EventsInv => OneShotOnce
  BY DEF EventsInv, Masked, IsOneShot, OneShotOnce
<1> QED BY <1>1, EventsInvariant, PTL

\* What the conversions of masks there and back leave of the truth.
LEMMA ConversionEffect ==
  ASSUME NEW request \in Requests, NEW flags \in Conditions,
         NEW said, said = ReadyOfEpoll(flags \cap FullMask(request)),
         flags \cap FullMask(request) # {}
  PROVE  /\ said \cap request.interest = Truth(flags) \cap request.interest
         /\ said \subseteq request.interest \cup {"error", "hup"}
         /\ said # {}
<1> DEFINE mine == FullMask(request)
           seen == flags \cap mine
<1>1. /\ mine \cap {"PRI", "NVAL"} = {}
      /\ \A flag \in request.interest : Meaning[flag] \subseteq mine
      /\ "IN" \in mine => "readable" \in request.interest
      /\ "OUT" \in mine => "writable" \in request.interest
  BY MaskEffect
<1>2. flags \subseteq {"IN", "OUT", "PRI", "RDHUP", "HUP", "ERR"}
  BY ConditionType DEF KernelFlags
<1> HIDE DEF mine
<1>3. /\ Meaning["readable"] = {"IN"} /\ Meaning["writable"] = {"OUT"}
      /\ Meaning["error"] = {"ERR"} /\ Meaning["hup"] = {"HUP", "RDHUP"}
  BY DEF Meaning
<1>4. seen \subseteq {"IN", "OUT", "RDHUP", "HUP", "ERR"} /\ seen # {}
  BY <1>1, <1>2 DEF mine
<1>5. said = {flag \in ReadyFlags : seen \cap Meaning[flag] # {}}
  <2>1. \A flag \in ReadyFlags : flag \in said <=> seen \cap Meaning[flag] # {}
    <3>1. said = ReadyOfEpoll(seen)
      BY DEF mine
    <3> HIDE DEF seen
    <3>2. "readable" \in said <=> seen \cap Meaning["readable"] # {}
      BY <1>3, <1>4, <3>1 DEF ReadyOfEpoll, ReadyFlags
    <3>3. "writable" \in said <=> seen \cap Meaning["writable"] # {}
      BY <1>3, <1>4, <3>1 DEF ReadyOfEpoll, ReadyFlags
    <3>4. "error" \in said <=> seen \cap Meaning["error"] # {}
      BY <1>3, <1>4, <3>1 DEF ReadyOfEpoll, ReadyFlags
    <3>5. "hup" \in said <=> seen \cap Meaning["hup"] # {}
      BY <1>3, <1>4, <3>1 DEF ReadyOfEpoll, ReadyFlags
    <3> QED BY <3>2, <3>3, <3>4, <3>5 DEF ReadyFlags
  <2>2. said \subseteq ReadyFlags
    BY DEF ReadyOfEpoll
  <2> QED BY <2>1, <2>2
<1>6. said \cap request.interest = Truth(flags) \cap request.interest
  BY <1>1, <1>5 DEF Truth
<1>7. said \subseteq request.interest \cup {"error", "hup"}
  <2>1. seen \subseteq mine /\ seen \subseteq flags
    OBVIOUS
  <2> HIDE DEF seen
  <2>2. "readable" \in said => "readable" \in request.interest
    BY <1>1, <1>3, <1>5, <2>1
  <2>3. "writable" \in said => "writable" \in request.interest
    BY <1>1, <1>3, <1>5, <2>1
  <2>4. said \subseteq ReadyFlags
    BY <1>5
  <2> QED BY <2>2, <2>3, <2>4 DEF ReadyFlags
<1>8. said # {}
  BY <1>3, <1>4, <1>5 DEF ReadyFlags
<1> QED BY <1>6, <1>7, <1>8

\* Every event says exactly what holds of its descriptor among the readiness
\* asked for, adds at most error and hup, and is never empty: the masks of
\* ioevent_to_epoll and the flags of Events::get fit each other
\* (sys/epoll.rs:94-120, :159-185).
THEOREM EventsTruthful == Spec => EventsTellTruth
<1> DEFINE Truthful(event) ==
             /\ ReadyOfEpoll(event.flags) \cap asked[event.source].interest
                  = Truth(shows[event.source]) \cap asked[event.source].interest
             /\ ReadyOfEpoll(event.flags) \subseteq
                  asked[event.source].interest \cup {"error", "hup"}
             /\ ReadyOfEpoll(event.flags) # {}
<1>1. EventsInv /\ WaitReports => \A i \in DOMAIN events' : Truthful(events'[i])
  <2> SUFFICES ASSUME EventsInv, WaitReports PROVE \A i \in DOMAIN events' : Truthful(events'[i])
    OBVIOUS
  <2>1. PICK taken : Taking(taken)
    BY WaitEffect DEF EventsInv, Typed
  <2> TAKE i \in DOMAIN events'
  <2> DEFINE fd == taken[i]
  <2>2. i \in DOMAIN taken /\ events'[i] = [source |-> fd, flags |-> Visible(fd)]
    BY <2>1 DEF Taking
  <2>3. fd \in Range(taken) /\ fd \in Showing /\ fd \in Fds
    BY <2>1, <2>2 DEF Taking, Range, Showing
  <2> HIDE DEF fd
  <2>4. Visible(fd) # {} /\ Masked(fd) /\ Typed /\ shows[fd] \in Conditions
    BY <2>3 DEF Showing, EventsInv, Typed
  <2>5. asked[fd] \in Requests /\ mask[fd] = FullMask(asked[fd])
    BY <2>3, <2>4, MaskedEffect
  <2>6. Visible(fd) = shows[fd] \cap FullMask(asked[fd])
    BY <2>5 DEF Visible
  <2>7. LET said == ReadyOfEpoll(Visible(fd))
        IN  /\ said \cap asked[fd].interest = Truth(shows[fd]) \cap asked[fd].interest
            /\ said \subseteq asked[fd].interest \cup {"error", "hup"}
            /\ said # {}
    BY <2>4, <2>5, <2>6, ConversionEffect
  <2>8. events'[i].source = fd /\ events'[i].flags = Visible(fd)
    BY <2>2
  <2> QED BY <2>7, <2>8
<1>2. EventsInv =>
        (WaitReports =>
           \A i \in DOMAIN events' :
             LET fd == events'[i].source
                 said == ReadyOfEpoll(events'[i].flags)
             IN  /\ said \cap asked[fd].interest = Truth(shows[fd]) \cap asked[fd].interest
                 /\ said \subseteq asked[fd].interest \cup {"error", "hup"}
                 /\ said # {})
  BY <1>1
<1> QED BY <1>2, EventsInvariant, PTL DEF EventsTellTruth
=============================================================================
