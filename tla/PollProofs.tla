----------------------------- MODULE PollProofs -----------------------------
(***************************************************************************)
(* Proofs about Poll.tla, for any descriptors, conditions and timeouts,    *)
(* and buffers of any length.                                              *)
(***************************************************************************)
EXTENDS Poll, FiniteSetTheorems, SequenceTheorems, TLAPS

Unasked == {"ERR", "HUP", "NVAL"}

Entries == {e \in [fd : Fds, mask : SUBSET KernelFlags, revents : SUBSET KernelFlags,
                   interest : Interests] :
              /\ e.mask = PollMask(e.interest)
              /\ e.revents \subseteq e.mask \cup Unasked}

Calls == [of : {"poll", "wait"}, entries : Seq(Entries), timeout : Timeouts \cup {Forever},
          limit : -1 .. MaxInt, waited : Nat]

-----------------------------------------------------------------------------
(* The inductive invariant.                                                *)

\* A call looks at the buffer, or at one entry; it has answered nothing yet,
\* and a limit is not overstepped.
Pending ==
  call # NoCall =>
    /\ call \in Calls
    /\ IF call.of = "poll" THEN call.entries = buffer ELSE Len(call.entries) = 1
    /\ call.limit = Millis(call.timeout)
    /\ call.timeout # Forever => call.waited <= call.limit * PerMilli
    /\ answer = Refused

PollInv ==
  /\ shows \in [Fds -> Conditions]
  /\ buffer \in Seq(Entries)
  /\ Pending

-----------------------------------------------------------------------------
(* Helpers.                                                                *)

LEMMA PollFdType ==
  ASSUME NEW fd \in Fds, NEW interest \in Interests
  PROVE  PollFd(fd, interest) \in Entries
  BY DEF PollFd, Entries, PollMask, Unasked

\* The division that turns a timeout into milliseconds only cuts off.
LEMMA MillisEffect ==
  ASSUME NEW timeout \in Timeouts, timeout # Forever
  PROVE  /\ Millis(timeout) \in 0 .. MaxInt
         /\ Millis(timeout) * PerMilli <= timeout
         /\ \/ Millis(timeout) = MaxInt
            \/ timeout < Millis(timeout) * PerMilli + PerMilli
<1> DEFINE ms == timeout \div PerMilli
           part == timeout % PerMilli
<1>1. timeout \in Nat /\ PerMilli \in Nat \ {0} /\ MaxInt \in Nat \ {0}
  BY PollAssumption
<1>2. ms \in Nat
  BY <1>1
<1>3. part \in Nat
  BY <1>1
<1>4. part < PerMilli
  BY <1>1
<1>5. timeout = PerMilli * ms + part
  BY <1>1
<1>6. Millis(timeout) = IF ms < MaxInt THEN ms ELSE MaxInt
  BY DEF Millis
<1> HIDE DEF ms, part
<1>7. CASE ms < MaxInt
  <2>1. Millis(timeout) = ms /\ ms * PerMilli = PerMilli * ms /\ ms * PerMilli \in Nat
    BY <1>1, <1>2, <1>6, <1>7
  <2> QED
    BY <1>1, <1>2, <1>3, <1>4, <1>5, <1>7, <2>1
<1>8. CASE ~(ms < MaxInt)
  <2>1. Millis(timeout) = MaxInt
    BY <1>6, <1>8
  <2>2. PICK d \in Nat : ms = MaxInt + d
    <3>1. ms - MaxInt \in Nat /\ ms = MaxInt + (ms - MaxInt)
      BY <1>1, <1>2, <1>8
    <3> QED
      BY <3>1
  <2>3. /\ PerMilli * ms = MaxInt * PerMilli + PerMilli * d
        /\ PerMilli * d \in Nat /\ MaxInt * PerMilli \in Nat
    BY <1>1, <2>2
  <2> QED
    BY <1>1, <1>3, <1>5, <2>1, <2>3
<1> QED
  BY <1>7, <1>8

\* What one entry says after the kernel looked at its descriptor.
LEMMA EntryTellsTruth ==
  ASSUME NEW interest \in Interests, NEW flags \in SUBSET KernelFlags,
         NEW revents, revents = flags \cap (PollMask(interest) \cup Unasked)
  PROVE  LET said == ReadyOfPoll(revents)
         IN  /\ said \cap interest = Truth(flags) \cap interest
             /\ said \subseteq interest \cup {"error", "hup"}
             /\ (revents # {}) <=> (said # {} \/ "NVAL" \in flags)
<1> DEFINE said == ReadyOfPoll(revents)
<1>1. interest \in SUBSET ReadyFlags
  BY PollAssumption DEF ReadySet
<1>2. revents \subseteq {"IN", "OUT", "HUP", "ERR", "NVAL"}
  BY DEF PollMask, Unasked
<1>3. /\ "IN" \in revents <=> "IN" \in flags /\ "readable" \in interest
      /\ "OUT" \in revents <=> "OUT" \in flags /\ "writable" \in interest
      /\ "HUP" \in revents <=> "HUP" \in flags
      /\ "ERR" \in revents <=> "ERR" \in flags
      /\ "NVAL" \in revents <=> "NVAL" \in flags
  BY DEF PollMask, Unasked, Contains, Readable, Writable, Hup, KernelFlags
<1>4. /\ said \subseteq ReadyFlags
      /\ "readable" \in said <=> "IN" \in revents
      /\ "writable" \in said <=> "OUT" \in revents
      /\ "error" \in said <=> "ERR" \in revents
      /\ "hup" \in said <=> "HUP" \in revents
  BY <1>2 DEF ReadyOfPoll, ReadyFlags
<1>5. /\ Truth(flags) \subseteq ReadyFlags
      /\ "readable" \in Truth(flags) <=> "IN" \in flags
      /\ "writable" \in Truth(flags) <=> "OUT" \in flags
      /\ "error" \in Truth(flags) <=> "ERR" \in flags
      /\ "hup" \in Truth(flags) <=> "HUP" \in flags
  BY DEF Truth, Meaning, ReadyFlags
<1> HIDE DEF said
<1>6. \A flag \in ReadyFlags : flag \in interest => (flag \in said <=> flag \in Truth(flags))
  BY <1>3, <1>4, <1>5 DEF ReadyFlags
<1>7. said \cap interest = Truth(flags) \cap interest
  BY <1>1, <1>6
<1>8. said \subseteq interest \cup {"error", "hup"}
  BY <1>3, <1>4 DEF ReadyFlags
<1>9. (revents # {}) <=> (said # {} \/ "NVAL" \in flags)
  BY <1>2, <1>3, <1>4 DEF ReadyFlags
<1> QED
  BY <1>7, <1>8, <1>9 DEF said

\* The kernel keeps the entries and writes their revents.
LEMMA ScannedEffect ==
  ASSUME PollInv, call # NoCall
  PROVE  /\ Scanned \in Seq(Entries) /\ Len(Scanned) = Len(call.entries)
         /\ DOMAIN Scanned = DOMAIN call.entries /\ DOMAIN Scanned = 1 .. Len(call.entries)
         /\ \A i \in DOMAIN Scanned :
              LET entry == call.entries[i]
              IN  /\ entry \in Entries /\ entry.interest \in Interests
                  /\ shows[entry.fd] \in SUBSET KernelFlags
                  /\ Scanned[i].revents = shows[entry.fd] \cap (PollMask(entry.interest) \cup Unasked)
<1>1. call.entries \in Seq(Entries) /\ Len(call.entries) \in Nat
  BY DEF PollInv, Pending, Calls
<1>2. DOMAIN call.entries = 1 .. Len(call.entries)
  BY <1>1
<1>3. DOMAIN Scanned = 1 .. Len(call.entries)
  BY <1>2 DEF Scanned
<1>4. ASSUME NEW i \in 1 .. Len(call.entries)
      PROVE  /\ call.entries[i] \in Entries
             /\ shows[call.entries[i].fd] \in SUBSET KernelFlags
             /\ Scanned[i] = [call.entries[i] EXCEPT !.revents =
                                shows[call.entries[i].fd] \cap (call.entries[i].mask \cup Unasked)]
  <2>1. call.entries[i] \in Entries
    BY <1>1, <1>4, ElementOfSeq
  <2>2. shows[call.entries[i].fd] \in Conditions
    BY <2>1 DEF PollInv, Entries
  <2> QED
    BY <1>2, <2>1, <2>2, PollAssumption DEF Scanned, Unasked
<1>5. \A i \in 1 .. Len(call.entries) :
        /\ Scanned[i] \in Entries /\ call.entries[i].interest \in Interests
        /\ Scanned[i].revents = shows[call.entries[i].fd]
                                  \cap (PollMask(call.entries[i].interest) \cup Unasked)
  <2> SUFFICES ASSUME NEW i \in 1 .. Len(call.entries)
               PROVE  /\ Scanned[i] \in Entries /\ call.entries[i].interest \in Interests
                      /\ Scanned[i].revents = shows[call.entries[i].fd]
                                  \cap (PollMask(call.entries[i].interest) \cup Unasked)
    OBVIOUS
  <2> DEFINE e == call.entries[i]
             r == shows[e.fd] \cap (e.mask \cup Unasked)
  <2>1. e \in Entries /\ shows[e.fd] \in SUBSET KernelFlags /\ Scanned[i] = [e EXCEPT !.revents = r]
    BY <1>4
  <2>2. r \in SUBSET KernelFlags /\ r \subseteq e.mask \cup Unasked
    BY <2>1
  <2> HIDE DEF r
  <2>3. [e EXCEPT !.revents = r] \in Entries /\ e.interest \in Interests
        /\ [e EXCEPT !.revents = r].revents = r /\ e.mask = PollMask(e.interest)
    BY <2>1, <2>2 DEF Entries
  <2> QED
    BY <2>1, <2>3 DEF r
<1>6. Scanned \in [1 .. Len(call.entries) -> Entries]
  <2>1. Scanned = [i \in 1 .. Len(call.entries) |-> Scanned[i]]
    BY <1>2 DEF Scanned
  <2> HIDE DEF Scanned
  <2> QED
    BY <1>5, <2>1
<1> HIDE DEF Scanned
<1>7. Scanned \in Seq(Entries) /\ Len(Scanned) = Len(call.entries)
  <2>1. \A seq, n : n \in Nat /\ seq \in [1 .. n -> Entries] => seq \in Seq(Entries) /\ Len(seq) = n
    OBVIOUS
  <2> QED
    BY <1>1, <1>6, <2>1
<1> QED
  BY <1>1, <1>2, <1>3, <1>4, <1>5, <1>7

-----------------------------------------------------------------------------
(* The steps.                                                              *)

LEMMA InitPollInv ==
  ASSUME Init
  PROVE  PollInv
  BY EmptySeq DEF Init, PollInv, Pending

LEMMA EnterInv ==
  ASSUME PollInv, NEW entries \in Seq(Entries), NEW timeout \in Timeouts \cup {Forever},
         \/ Enter("poll", entries, timeout) /\ entries = buffer
         \/ Enter("wait", entries, timeout) /\ Len(entries) = 1
  PROVE  PollInv'
<1>1. PICK of \in {"poll", "wait"} :
        /\ Enter(of, entries, timeout)
        /\ IF of = "poll" THEN entries = buffer ELSE Len(entries) = 1
  OBVIOUS
<1>2. Millis(timeout) \in -1 .. MaxInt
  BY PollAssumption, MillisEffect DEF Millis
<1>3. timeout # Forever => 0 <= Millis(timeout) * PerMilli
  BY PollAssumption, MillisEffect
<1>4. call' = [of |-> of, entries |-> entries, timeout |-> timeout,
               limit |-> Millis(timeout), waited |-> 0]
  BY <1>1 DEF Enter
<1>5. call' \in Calls
  BY <1>2, <1>4 DEF Calls
<1> QED
  BY <1>1, <1>3, <1>4, <1>5 DEF Enter, PollInv, Pending

LEMMA TickInv ==
  ASSUME PollInv, Tick
  PROVE  PollInv'
<1>1. call \in Calls /\ call' = [call EXCEPT !.waited = @ + 1] /\ ~TimeIsUp
  BY DEF Tick, PollInv, Pending
<1>2. call' \in Calls /\ call'.waited = call.waited + 1 /\ call'.of = call.of
      /\ call'.entries = call.entries /\ call'.limit = call.limit /\ call'.timeout = call.timeout
  BY <1>1 DEF Calls
<1>3. call.timeout # Forever => call.waited + 1 <= call.limit * PerMilli
  <2> SUFFICES ASSUME call.timeout # Forever
               PROVE  call.waited + 1 <= call.limit * PerMilli
    OBVIOUS
  <2>1. call.limit \in 0 .. MaxInt
    BY <1>1, MillisEffect DEF Tick, PollInv, Pending, Calls
  <2>2. call.limit * PerMilli \in Nat /\ call.waited \in Nat
    BY <1>1, <2>1, PollAssumption DEF Calls
  <2>3. ~(call.waited >= call.limit * PerMilli)
    BY <1>1, <2>1 DEF TimeIsUp
  <2> QED
    BY <2>2, <2>3
<1> QED
  BY <1>2, <1>3 DEF Tick, PollInv, Pending

\* The kernel answers: the call is over, and the buffer may be scanned.
Answers == AnswerReady \/ AnswerTimeout \/ AnswerInterrupted \/ AnswerError

LEMMA AnswersInv ==
  ASSUME PollInv, Answers
  PROVE  PollInv'
<1>1. call # NoCall /\ call' = NoCall /\ shows' = shows
  BY DEF Answers, AnswerReady, AnswerTimeout, AnswerInterrupted, AnswerError, Answer
<1>2. buffer' = buffer \/ buffer' = Scanned
  BY DEF Answers, AnswerReady, AnswerTimeout, AnswerInterrupted, AnswerError, Answer
<1> QED
  BY <1>1, <1>2, ScannedEffect DEF PollInv, Pending

LEMMA NextPollInv ==
  ASSUME PollInv, [Next]_pollVars
  PROVE  PollInv'
<1>1. ASSUME NEW fd \in Fds, NEW flags \in Conditions, Change(fd, flags)
      PROVE  PollInv'
  BY <1>1 DEF Change, PollInv, Pending
<1>2. ASSUME NEW fd \in Fds, NEW interest \in Interests, Put(fd, interest)
      PROVE  PollInv'
  BY <1>2, PollFdType, AppendProperties DEF Put, PollInv, Pending
<1>3. CASE Clear
  BY <1>3, EmptySeq DEF Clear, PollInv, Pending
<1>4. ASSUME NEW timeout \in Timeouts \cup {Forever}, Poll(timeout)
      PROVE  PollInv'
  BY <1>4, EnterInv DEF Poll, PollInv
<1>5. ASSUME NEW timeout \in Timeouts \cup {Forever}, NEW fd \in Fds, NEW interest \in Interests,
             Wait(fd, interest, timeout)
      PROVE  PollInv'
  <2>1. <<PollFd(fd, interest)>> \in Seq(Entries) /\ Len(<<PollFd(fd, interest)>>) = 1
    BY PollFdType
  <2> QED
    BY <1>5, <2>1, EnterInv DEF Wait
<1>6. CASE UNCHANGED pollVars
  BY <1>6 DEF pollVars, PollInv, Pending
<1> QED
  BY <1>1, <1>2, <1>3, <1>4, <1>5, <1>6, TickInv, AnswersInv DEF Next, Answers

LEMMA PollInvariant == Spec => []PollInv
<1>1. Init => PollInv
  BY InitPollInv
<1>2. PollInv /\ [Next]_pollVars => PollInv'
  BY NextPollInv
<1> QED
  BY <1>1, <1>2, PTL DEF Spec

-----------------------------------------------------------------------------
(* Theorems.                                                               *)

\* No entry of the buffer ever says what its interest did not ask for.
THEOREM PollTypeCorrect == Spec => []PollTypeOK
<1>1. ASSUME PollInv
      PROVE  PollTypeOK
  <2>1. \A i \in DOMAIN buffer : buffer[i] \in Entries
    BY <1>1, LenProperties DEF PollInv
  <2> QED
    BY <1>1, <2>1 DEF PollInv, PollTypeOK, Pending, Calls, Entries, Unasked
<1>2. PollInv => PollTypeOK
  BY <1>1
<1> QED
  BY <1>2, PollInvariant, PTL

\* A call never waits longer than its timeout, and gives up only in the last
\* millisecond of it or at the longest time that c_int holds.
THEOREM NeverOversleeps == Spec => []TimeoutHonoured
<1>1. ASSUME PollInv, call # NoCall, call.timeout # Forever
      PROVE  /\ call.waited <= call.timeout
             /\ TimeIsUp => \/ call.waited > call.timeout - PerMilli
                            \/ call.waited = MaxInt * PerMilli
  <2>1. /\ call \in Calls /\ call.limit = Millis(call.timeout) /\ call.timeout \in Timeouts
        /\ call.waited <= call.limit * PerMilli
    BY <1>1 DEF PollInv, Pending, Calls
  <2>2. /\ call.limit \in 0 .. MaxInt /\ call.limit * PerMilli <= call.timeout
        /\ call.limit = MaxInt \/ call.timeout < call.limit * PerMilli + PerMilli
    BY <1>1, <2>1, MillisEffect
  <2>5. call.limit \in Nat /\ call.waited \in Nat /\ call.timeout \in Nat /\ PerMilli \in Nat
    <3>1. MaxInt \in Nat /\ PerMilli \in Nat /\ Timeouts \subseteq Nat
      BY PollAssumption
    <3>2. call.waited \in Nat
      BY <2>1 DEF Calls
    <3>3. call.limit \in 0 .. MaxInt /\ call.timeout \in Timeouts
      BY <2>1, <2>2
    <3>4. call.limit \in Nat
      BY <3>1, <3>3
    <3>5. call.timeout \in Nat
      BY <3>1, <3>3
    <3> QED
      BY <3>1, <3>2, <3>4, <3>5
  <2>3. call.limit * PerMilli \in Nat
    BY <2>5
  <2>4. TimeIsUp => call.waited = call.limit * PerMilli
    BY <2>1, <2>3, <2>5 DEF TimeIsUp
  <2> QED
    BY <2>1, <2>2, <2>3, <2>4, <2>5
<1>2. PollInv => TimeoutHonoured
  BY <1>1 DEF TimeoutHonoured
<1> QED
  BY <1>2, PollInvariant, PTL

\* The count that the kernel answers is positive if an entry has revents.
LEMMA CountEffect ==
  ASSUME PollInv, call # NoCall
  PROVE  /\ Count \in Nat
         /\ Count > 0 <=> \E i \in DOMAIN Scanned : Scanned[i].revents # {}
<1> DEFINE some == {i \in DOMAIN Scanned : Scanned[i].revents # {}}
<1>1. DOMAIN Scanned = 1 .. Len(call.entries) /\ Len(call.entries) \in Nat
  BY ScannedEffect, LenProperties DEF PollInv, Pending, Calls
<1>2. IsFiniteSet(some)
  <2>1. IsFiniteSet(1 .. Len(call.entries))
    BY <1>1, FS_Interval
  <2>2. some \in SUBSET (1 .. Len(call.entries))
    BY <1>1
  <2> QED
    BY <2>1, <2>2, FS_Subset
<1>3. Cardinality(some) \in Nat /\ (Cardinality(some) = 0 <=> some = {})
  BY <1>2, FS_CardinalityType, FS_EmptySet
<1> QED
  BY <1>3 DEF Count

\* What the entries say when the kernel has scanned them.
LEMMA ScannedTellsTruth ==
  ASSUME PollInv, call # NoCall, NEW i \in DOMAIN call.entries
  PROVE  LET entry == call.entries[i]
             said == ReadyOfPoll(Scanned[i].revents)
         IN  /\ said \cap entry.interest = Truth(shows[entry.fd]) \cap entry.interest
             /\ said \subseteq entry.interest \cup {"error", "hup"}
             /\ (Scanned[i].revents # {}) <=> (said # {} \/ "NVAL" \in shows[entry.fd])
<1> DEFINE entry == call.entries[i]
           revents == Scanned[i].revents
<1>1. /\ entry.interest \in Interests /\ shows[entry.fd] \in SUBSET KernelFlags
      /\ revents = shows[entry.fd] \cap (PollMask(entry.interest) \cup Unasked)
  BY ScannedEffect
<1> DEFINE interest == entry.interest
           flags == shows[entry.fd]
<1> HIDE DEF entry, revents, interest, flags
<1>2. /\ interest \in Interests /\ flags \in SUBSET KernelFlags
      /\ revents = flags \cap (PollMask(interest) \cup Unasked)
  BY <1>1 DEF interest, flags
<1>3. LET said == ReadyOfPoll(revents)
      IN  /\ said \cap interest = Truth(flags) \cap interest
          /\ said \subseteq interest \cup {"error", "hup"}
          /\ (revents # {}) <=> (said # {} \/ "NVAL" \in flags)
  BY <1>2, EntryTellsTruth
<1> QED
  BY <1>3 DEF entry, revents, interest, flags

\* Calls that do not fail leave the truth with the caller, for a buffer of any
\* length and any flags of the kernel.
THEOREM TellsTruth == Spec => PollTellsTruth
<1> DEFINE Ends == call # NoCall /\ call' = NoCall /\ answer'.ok
           True(i) ==
             LET entry == call.entries[i]
             IN  /\ Said[i] \cap entry.interest = Truth(shows[entry.fd]) \cap entry.interest
                 /\ Said[i] \subseteq entry.interest \cup {"error", "hup"}
           Counted ==
             (answer'.ret > 0) <=> \E i \in DOMAIN call.entries :
                                Said[i] # {} \/ "NVAL" \in shows[call.entries[i].fd]
<1>1. ASSUME PollInv, Next, Ends
      PROVE  \E ret \in {-1, 0, Count} :
               Answer(ret) /\ ((ret > 0) <=> (Count > 0))
  <2>1. answer # Refused => call = NoCall
    BY <1>1 DEF PollInv, Pending
  <2>2. ~Refused.ok /\ answer = Refused
    BY <1>1, <2>1 DEF Refused
  <2>3. answer' # answer
    BY <1>1, <2>2
  <2>4. Answers
    BY <1>1, <2>3 DEF Next, Change, Put, Clear, Poll, Wait, Enter, Tick, Answers
  <2>5. ~AnswerError
    BY <1>1, <2>2 DEF AnswerError
  <2>6. Count \in Nat
    BY <1>1, CountEffect
  <2> QED
    BY <2>4, <2>5, <2>6 DEF Answers, AnswerReady, AnswerTimeout, AnswerInterrupted
<1>2. ASSUME PollInv, Ends, NEW ret, Answer(ret), (ret > 0) <=> (Count > 0)
      PROVE  /\ \A i \in DOMAIN call.entries : True(i)
             /\ call.of = "poll" => Counted
  <2>1. call \in Calls /\ DOMAIN Scanned = DOMAIN call.entries
    BY <1>2, ScannedEffect DEF PollInv, Pending
  <2>2. CASE call.of = "poll"
    <3>1. answer'.ret = ret /\ buffer' = Scanned
      BY <1>2, <2>2 DEF Answer
    <3>2. \A i \in DOMAIN call.entries : Said[i] = ReadyOfPoll(Scanned[i].revents)
      BY <2>1, <2>2, <3>1 DEF Said
    <3> HIDE DEF Said
    <3>3. \A i \in DOMAIN call.entries :
            True(i) /\ ((Scanned[i].revents # {})
                          <=> (Said[i] # {} \/ "NVAL" \in shows[call.entries[i].fd]))
      BY <1>2, <3>2, ScannedTellsTruth
    <3>4. (Count > 0) <=> \E i \in DOMAIN call.entries : Scanned[i].revents # {}
      BY <1>2, <2>1, CountEffect
    <3>5. Counted
      BY <1>2, <3>1, <3>3, <3>4
    <3> QED
      BY <3>3, <3>5
  <2>3. CASE call.of = "wait"
    <3>1. DOMAIN call.entries = {1}
      <4>1. call.entries \in Seq(Entries) /\ Len(call.entries) = 1
        BY <1>2, <2>1, <2>3 DEF PollInv, Pending, Calls
      <4> QED
        BY <4>1, LenProperties
    <3>2. Said[1] = ReadyOfPoll(Scanned[1].revents)
      BY <1>2, <2>3 DEF Answer, Said
    <3> HIDE DEF Said
    <3>3. True(1)
      BY <1>2, <3>1, <3>2, ScannedTellsTruth
    <3> QED
      BY <2>3, <3>1, <3>3
  <2> QED
    BY <2>1, <2>2, <2>3 DEF Calls
<1>3. PollInv /\ [Next]_pollVars =>
        [Ends => /\ \A i \in DOMAIN call.entries : True(i)
                 /\ call.of = "poll" => Counted]_pollVars
  BY <1>1, <1>2
<1> QED
  BY <1>3, PollInvariant, PTL DEF Spec, PollTellsTruth
=============================================================================
