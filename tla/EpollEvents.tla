---------------------------- MODULE EpollEvents ----------------------------
(***************************************************************************)
(* What a program that registers descriptors with an epoll is told about   *)
(* them: Epoll::add, modify, delete and wait with their flags, over an     *)
(* external model of epoll(7).                                             *)
(*                                                                         *)
(* The kernel keeps a list of the descriptors that may have something to   *)
(* report.  wait() goes through it from the head, reports a descriptor     *)
(* whose flags meet its mask, and drops it from the list unless it is      *)
(* level-triggered; then it goes to the tail.  A reported one-shot         *)
(* descriptor keeps only the ET and ONESHOT bits of its mask.  ERR and HUP *)
(* are part of every mask.  The kernel hands back the token of the last    *)
(* add or modify: a descriptor stands for its token here.                  *)
(***************************************************************************)
EXTENDS EventMasks, Sublists, Functions, FiniteSetsExt

CONSTANTS
  Fds,
  Conditions,   \* the sets of flags a descriptor can show
  Interests, Options,
  BufferSize,   \* Events::with_capacity
  NotAsked      \* no registration

ASSUME EpollEventsAssumption ==
  /\ Conditions \subseteq SUBSET (KernelFlags \ {"NVAL"})
  /\ Interests \subseteq ReadySet
  /\ Options \subseteq EpollOpt
  /\ BufferSize \in Nat \ {0}   \* epoll_wait refuses an empty buffer
  /\ NotAsked \notin [interest : Interests, opts : Options]

VARIABLES
  shows,    \* the flags each descriptor shows
  asked,    \* the arguments of the last successful add or modify
  mask,     \* the mask the kernel has of it
  list,     \* the kernel's ready list
  events,   \* the buffer, as wait() left it: the flags and source of each event
  told      \* how often a one-shot descriptor was reported since it was asked
            \* for, up to 2

eventVars == <<shows, asked, mask, list, events, told>>

Registered(fd) == asked[fd] # NotAsked

Init ==
  /\ shows \in [Fds -> Conditions]
  /\ asked = [fd \in Fds |-> NotAsked]
  /\ mask = [fd \in Fds |-> {}]
  /\ list = <<>>
  /\ events = <<>>
  /\ told = [fd \in Fds |-> 0]

Visible(fd) == shows[fd] \cap mask[fd]

Enlist(fd) == IF fd \in Range(list) THEN list ELSE Append(list, fd)

-----------------------------------------------------------------------------

\* The descriptor changes; the kernel hears of flags that are new.
Change(fd, flags) ==
  /\ shows[fd] # flags
  /\ shows' = [shows EXCEPT ![fd] = flags]
  /\ list' = IF (flags \ shows[fd]) \cap mask[fd] # {} THEN Enlist(fd) ELSE list
  /\ UNCHANGED <<asked, mask, events, told>>

\* More of the same: another byte for a readable descriptor.
Repeat(fd) ==
  /\ Visible(fd) # {}
  /\ list' = Enlist(fd)
  /\ UNCHANGED <<shows, asked, mask, events, told>>

\* Mutant: an interest in anything or nothing passes.
ValidAlways(interest) == TRUE

\* validate_args
Valid(interest) == Contains(interest, Readable) \/ Contains(interest, Writable)

\* Both set the mask and look at the descriptor at once.
Ask(fd, interest, opts) ==
  /\ Valid(interest)
  /\ asked' = [asked EXCEPT ![fd] = [interest |-> interest, opts |-> opts]]
  /\ mask' = [mask EXCEPT ![fd] = InterestMask(interest) \cup OptMask(opts) \cup {"ERR", "HUP"}]
  /\ list' = IF shows[fd] \cap mask'[fd] # {} THEN Enlist(fd) ELSE list
  /\ told' = [told EXCEPT ![fd] = 0]
  /\ UNCHANGED <<shows, events>>

Add(fd, interest, opts) == ~Registered(fd) /\ Ask(fd, interest, opts)

Modify(fd, interest, opts) == Registered(fd) /\ Ask(fd, interest, opts)

Delete(fd) ==
  /\ Registered(fd)
  /\ asked' = [asked EXCEPT ![fd] = NotAsked]
  /\ mask' = [mask EXCEPT ![fd] = {}]
  /\ list' = Only(list, Fds \ {fd})
  /\ told' = [told EXCEPT ![fd] = 0]
  /\ UNCHANGED <<shows, events>>

-----------------------------------------------------------------------------

Showing == {fd \in Fds : Visible(fd) # {}}

\* The kernel goes through the list and stops where the buffer is full.
WaitReports ==
  LET seen == Chosen(list, Showing)
      stop == Min({i \in 0 .. Len(list) : Len(seen[i]) >= BufferSize} \cup {Len(list)})
      taken == seen[stop]
      kept == SubSeq(list, stop + 1, Len(list))
      again == Only(taken, {fd \in Fds : mask[fd] \cap {"ET", "ONESHOT"} = {}})
  IN  /\ taken # <<>>
      /\ events' = [i \in DOMAIN taken |-> [source |-> taken[i], flags |-> Visible(taken[i])]]
      /\ list' = kept \o again
      /\ mask' = [fd \in Fds |-> IF fd \in Range(taken) /\ "ONESHOT" \in mask[fd]
                                 THEN mask[fd] \cap {"ET", "ONESHOT"} ELSE mask[fd]]
      /\ told' = [fd \in Fds |-> IF fd \in Range(taken) /\ Contains(asked[fd].opts, OneShot)
                                    /\ told[fd] < 2
                                 THEN told[fd] + 1 ELSE told[fd]]
      /\ UNCHANGED <<shows, asked>>

\* The timeout passes with nothing to report: Ok with an empty buffer.
WaitTimesOut ==
  /\ Only(list, Showing) = <<>>
  /\ list' = <<>>
  /\ events' = <<>>
  /\ UNCHANGED <<shows, asked, mask, told>>

\* A signal arrives first: wait() returns the error before set_len, and the
\* buffer keeps the events of the call before.
WaitFails ==
  /\ Only(list, Showing) = <<>>
  /\ list' = <<>>
  /\ UNCHANGED <<shows, asked, mask, events, told>>

Next ==
  \/ \E fd \in Fds, flags \in Conditions : Change(fd, flags)
  \/ \E fd \in Fds, interest \in Interests, opts \in Options :
       Add(fd, interest, opts) \/ Modify(fd, interest, opts)
  \/ \E fd \in Fds : Repeat(fd) \/ Delete(fd)
  \/ WaitReports \/ WaitTimesOut \/ WaitFails

Spec == Init /\ [][Next]_eventVars

\* The program calls wait again and again.
FairSpec == Spec /\ WF_eventVars(WaitReports)

-----------------------------------------------------------------------------
(* Properties.                                                             *)

EventsTypeOK ==
  /\ shows \in [Fds -> Conditions]
  /\ \A fd \in Fds : /\ Registered(fd) => asked[fd].interest \cap {"readable", "writable"} # {}
                     /\ fd \in Range(list) => Registered(fd)
  /\ IsInjective(list)
  /\ Len(events) <= BufferSize

\* Readiness by the meaning of the flags, whatever was asked for.
Meaning == [readable |-> {"IN"}, writable |-> {"OUT"}, error |-> {"ERR"}, hup |-> {"HUP", "RDHUP"}]
Truth(flags) == {flag \in ReadyFlags : flags \cap Meaning[flag] # {}}

\* An event that wait() reports says exactly what holds of its descriptor
\* among the readiness asked for, adds at most error and hup, and is never
\* empty.
EventsTellTruth ==
  [][WaitReports =>
       \A i \in DOMAIN events' :
         LET fd == events'[i].source
             said == ReadyOfEpoll(events'[i].flags)
         IN  /\ said \cap asked[fd].interest = Truth(shows[fd]) \cap asked[fd].interest
             /\ said \subseteq asked[fd].interest \cup {"error", "hup"}
             /\ said # {}]_eventVars

\* Level-triggered, which is asked for with level() whether or not edge()
\* is given too (sys/epoll.rs:111-113): readiness is never forgotten.
LevelTriggered(fd) ==
  /\ Registered(fd) /\ ~Contains(asked[fd].opts, OneShot)
  /\ Contains(asked[fd].opts, Level) \/ ~Contains(asked[fd].opts, Edge)

Wanted(fd) == LevelTriggered(fd) /\ Truth(shows[fd]) \cap asked[fd].interest # {}

ReadinessKept == \A fd \in Fds : Wanted(fd) => fd \in Range(list)

\* A one-shot registration gives one event until it is renewed by modify.
OneShotOnce ==
  \A fd \in Fds : Registered(fd) /\ Contains(asked[fd].opts, OneShot) => told[fd] <= 1

\* A level-triggered descriptor that stays ready is reported, however small
\* the buffer and however busy the others.
ReadyReported ==
  \A fd \in Fds : Wanted(fd) ~> \/ \E i \in DOMAIN events : events[i].source = fd
                               \/ ~Wanted(fd)
=============================================================================
