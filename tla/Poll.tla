-------------------------------- MODULE Poll --------------------------------
(***************************************************************************)
(* src/poll: poll() over a buffer of descriptors that its caller fills     *)
(* with put() and reads with get(), and wait() for one descriptor, over an *)
(* external model of poll(2).                                              *)
(*                                                                         *)
(* Linux computes and writes the revents of every entry before it answers: *)
(* the number of entries with any, 0 at the timeout, EINTR after a signal. *)
(* It reports ERR, HUP and NVAL (a closed descriptor) unasked.  Only a     *)
(* call that is refused beforehand leaves the buffer alone.                *)
(***************************************************************************)
EXTENDS EventMasks, Integers, Sequences, FiniteSets

CONSTANTS
  Fds,
  Conditions,   \* the sets of flags a descriptor can show
  Interests,
  Timeouts,     \* durations, in parts of a millisecond
  PerMilli,     \* parts of a millisecond
  MaxInt,       \* c_int::MAX
  MaxEntries,   \* bound of the buffer
  Forever,      \* None
  NoCall        \* no call is in progress

ASSUME PollAssumption ==
  /\ Conditions \subseteq SUBSET KernelFlags
  /\ Interests \subseteq ReadySet
  /\ Timeouts \subseteq Nat
  /\ {PerMilli, MaxInt} \subseteq Nat \ {0}

VARIABLES
  shows,    \* the flags each descriptor shows; {"NVAL"} when closed
  buffer,   \* Events: pollfds, with the interest that put() was given
  call,     \* the call in progress, with the time it has waited
  answer    \* what the last call answered: ok or not, a count, or a Ready

pollVars == <<shows, buffer, call, answer>>

\* Mutants: the duration is cast without a limit, and rounded up.
MillisWraps(timeout) ==
  IF timeout = Forever THEN -1
  ELSE ((timeout \div PerMilli + MaxInt + 1) % (2 * (MaxInt + 1))) - (MaxInt + 1)
MillisUp(timeout) ==
  LET ms == (timeout + PerMilli - 1) \div PerMilli
  IN  IF timeout = Forever THEN -1 ELSE IF ms < MaxInt THEN ms ELSE MaxInt

\* The timeout as the kernel takes it; below 0 is for ever.
Millis(timeout) ==
  LET ms == timeout \div PerMilli
  IN  IF timeout = Forever THEN -1 ELSE IF ms < MaxInt THEN ms ELSE MaxInt

Refused == [ok |-> FALSE, ret |-> 0, ready |-> Empty]

PollFd(fd, interest) ==
  [fd |-> fd, mask |-> PollMask(interest), revents |-> {}, interest |-> interest]

Init ==
  /\ shows \in [Fds -> Conditions]
  /\ buffer = <<>>
  /\ call = NoCall
  /\ answer = Refused

\* A descriptor changes, is closed, or its number is opened again.
Change(fd, flags) ==
  /\ shows' = [shows EXCEPT ![fd] = flags]
  /\ UNCHANGED <<buffer, call, answer>>

-----------------------------------------------------------------------------
(* The calls on the buffer, and the two that enter the kernel.             *)

Put(fd, interest) ==
  /\ call = NoCall
  /\ Len(buffer) < MaxEntries
  /\ buffer' = Append(buffer, PollFd(fd, interest))
  /\ UNCHANGED <<shows, call, answer>>

Clear ==
  /\ call = NoCall
  /\ buffer' = <<>>
  /\ UNCHANGED <<shows, call, answer>>

Enter(of, entries, timeout) ==
  /\ call = NoCall
  /\ call' = [of |-> of, entries |-> entries, timeout |-> timeout,
              limit |-> Millis(timeout), waited |-> 0]
  /\ answer' = Refused
  /\ UNCHANGED <<shows, buffer>>

Poll(timeout) == Enter("poll", buffer, timeout)

Wait(fd, interest, timeout) == Enter("wait", <<PollFd(fd, interest)>>, timeout)

-----------------------------------------------------------------------------
(* In the kernel.                                                          *)

Scanned == [i \in DOMAIN call.entries |->
              LET entry == call.entries[i]
              IN  [entry EXCEPT !.revents =
                     shows[entry.fd] \cap (entry.mask \cup {"ERR", "HUP", "NVAL"})]]

Count == Cardinality({i \in DOMAIN Scanned : Scanned[i].revents # {}})

TimeIsUp == call.limit >= 0 /\ call.waited >= call.limit * PerMilli

Tick ==
  /\ call # NoCall /\ ~TimeIsUp
  /\ call.waited < MaxInt * PerMilli   \* bound: no limit is higher
  /\ call' = [call EXCEPT !.waited = @ + 1]
  /\ UNCHANGED <<shows, buffer, answer>>

\* poll() answers the count and leaves the revents in the buffer, wait()
\* translates those of its one entry.  Interrupted is not an error: poll()
\* answers Ok(-1) and wait() an empty Ready.
Answer(ret) ==
  /\ buffer' = IF call.of = "poll" THEN Scanned ELSE buffer
  /\ answer' = IF call.of = "poll" THEN [ok |-> TRUE, ret |-> ret, ready |-> Empty]
               ELSE [ok |-> TRUE, ret |-> 0, ready |-> ReadyOfPoll(Scanned[1].revents)]
  /\ call' = NoCall
  /\ UNCHANGED shows

AnswerReady == call # NoCall /\ Count > 0 /\ Answer(Count)

AnswerTimeout == call # NoCall /\ Count = 0 /\ TimeIsUp /\ Answer(0)

AnswerInterrupted == call # NoCall /\ Count = 0 /\ Answer(-1)

AnswerError ==
  /\ call # NoCall
  /\ answer' = Refused
  /\ call' = NoCall
  /\ UNCHANGED <<shows, buffer>>

Next ==
  \/ \E fd \in Fds, flags \in Conditions : Change(fd, flags)
  \/ \E fd \in Fds, interest \in Interests : Put(fd, interest)
  \/ Clear
  \/ \E timeout \in Timeouts \cup {Forever} :
       \/ Poll(timeout)
       \/ \E fd \in Fds, interest \in Interests : Wait(fd, interest, timeout)
  \/ Tick
  \/ AnswerReady \/ AnswerTimeout \/ AnswerInterrupted \/ AnswerError

Spec == Init /\ [][Next]_pollVars

\* Time passes, and the kernel answers when a descriptor is ready or the time
\* is up.
FairSpec == Spec /\ WF_pollVars(Tick) /\ WF_pollVars(AnswerReady \/ AnswerTimeout)

-----------------------------------------------------------------------------
(* Properties.                                                             *)

PollTypeOK ==
  /\ shows \in [Fds -> Conditions]
  /\ \A i \in DOMAIN buffer :
       buffer[i].revents \subseteq buffer[i].mask \cup {"ERR", "HUP", "NVAL"}
  /\ call # NoCall => call.limit \in -1 .. MaxInt

\* Readiness by the meaning of the flags.  A peer that only stopped writing
\* (RDHUP), which epoll reports as hup, is never asked for here.
Meaning == [readable |-> {"IN"}, writable |-> {"OUT"}, error |-> {"ERR"}, hup |-> {"HUP"}]
Truth(flags) == {flag \in ReadyFlags : flags \cap Meaning[flag] # {}}

\* What the caller reads after a call that did not fail: wait()'s answer, or
\* get() of every entry.
Said == IF call.of = "wait" THEN <<answer'.ready>>
        ELSE [i \in DOMAIN buffer' |-> ReadyOfPoll(buffer'[i].revents)]

\* A call that does not fail (poll/mod.rs:13, 35) leaves the caller with
\* exactly what holds of each descriptor among the readiness asked for, plus
\* at most error and hup, and nothing of earlier calls, interrupted or not.
\* poll() answers a positive count exactly if there is something to read
\* there or a descriptor is closed, which no Ready says.
PollTellsTruth ==
  [][(call # NoCall /\ call' = NoCall /\ answer'.ok) =>
       /\ \A i \in DOMAIN call.entries :
            LET entry == call.entries[i]
            IN  /\ Said[i] \cap entry.interest = Truth(shows[entry.fd]) \cap entry.interest
                /\ Said[i] \subseteq entry.interest \cup {"error", "hup"}
       /\ call.of = "poll" =>
            ((answer'.ret > 0) <=> \E i \in DOMAIN call.entries :
                                 Said[i] # {} \/ "NVAL" \in shows[call.entries[i].fd])]_pollVars

\* A timeout (poll/mod.rs:14-16, 36-38) is never overslept; at most the part
\* of it below a millisecond is cut off, and what c_int cannot hold.
TimeoutHonoured ==
  call # NoCall /\ call.timeout # Forever =>
    /\ call.waited <= call.timeout
    /\ TimeIsUp => \/ call.waited > call.timeout - PerMilli
                   \/ call.waited = MaxInt * PerMilli

\* A call comes back if it has a timeout, or if a descriptor stays ready.
CallReturns ==
  LET due == call # NoCall /\ (call.timeout # Forever \/ Count > 0)
  IN  due ~> ~due
=============================================================================
