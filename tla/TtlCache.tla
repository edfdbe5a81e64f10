------------------------------ MODULE TtlCache ------------------------------
(***************************************************************************)
(* src/cache/ttl_cache.rs over the external indexmap crate: an insertion-  *)
(* ordered map whose entries expire.  Expired entries stay in the map until*)
(* a call removes them.                                                    *)
(*                                                                         *)
(* The cache is used through &mut self, so calls do not overlap, but every *)
(* Instant::now() in a call is a read of its own and time passes between   *)
(* them.  What a caller borrows from the cache (an entry, an iterator) is  *)
(* part of the state: no other call is possible while it is held.          *)
(***************************************************************************)
EXTENDS Sublists, FiniteSetsExt

CONSTANTS
  Keys, Values, Capacities,
  Durations,   \* the times to live given to insert
  MaxTime,     \* the clock stops here
  MaxInstant,  \* the last Instant there is
  UsizeRange,  \* 2^64 in the code: where the counters wrap
  None         \* Option::None

ASSUME TtlAssumption ==
  /\ Capacities \subseteq Nat /\ Durations \subseteq Nat /\ {MaxTime, MaxInstant} \subseteq Nat
  /\ UsizeRange \in Nat \ {0}
  /\ None \notin Values

VARIABLES
  map,         \* the IndexMap, oldest entry first
  maxSize,
  now,         \* the last value of Instant::now()
  borrow,      \* what the caller holds
  answer,      \* the value the last lookup, removal or iteration returned
  hits, misses \* of lookups, with the feature stats

stats == <<hits, misses>>
ttlVars == <<map, maxSize, now, borrow, answer, stats>>

\* Instant::now() + duration panics on what does not fit.
InRange(t, ttl) == t + ttl <= MaxInstant

InternalEntry(k, v, expiration) == [key |-> k, value |-> v, expiration |-> expiration]
InternalEntries == [key : Keys, value : Values, expiration : 0 .. MaxInstant]

NoBorrow == [kind |-> "none"]
Occupied(k) == [kind |-> "occupied", key |-> k]
Vacant(k) == [kind |-> "vacant", key |-> k]
\* An iterator has front .. back of the map still to visit.
IterOver(front, back, given) ==
  [kind |-> "iter", front |-> front, back |-> back, given |-> given]

Init ==
  /\ map = <<>>
  /\ maxSize \in Capacities
  /\ now = 0
  /\ borrow = NoBorrow
  /\ answer = None
  /\ hits = 0 /\ misses = 0

Clock == now .. MaxTime

IsExpired(entry, t) == t > entry.expiration

At(k) == {i \in DOMAIN map : map[i].key = k}

\* The position of k in the map, 0 if it has none.
IndexOf(k) == IF At(k) = {} THEN 0 ELSE Min(At(k))

ShiftRemove(k) == Only(map, {entry \in InternalEntries : entry.key # k})

\* Mutant: removal from the wrong end.
RemoveNewest(seq, n) == SubSeq(seq, 1, Len(seq) - n)

\* n calls of remove_oldest.
RemoveOldest(seq, n) == Drop(seq, n)

\* What and_then(is_expired) makes of the entry of k at time t.
Unexpired(k, t) ==
  IF IndexOf(k) = 0 \/ IsExpired(map[IndexOf(k)], t) THEN None ELSE map[IndexOf(k)].value

Free == borrow = NoBorrow

\* A lookup of k at time t is counted.
Count(k, t) ==
  IF Unexpired(k, t) # None THEN hits' = (hits + 1) % UsizeRange /\ UNCHANGED misses
  ELSE misses' = (misses + 1) % UsizeRange /\ UNCHANGED hits

-----------------------------------------------------------------------------
(* Calls on the cache.                                                     *)

\* Mutant: the length is compared before the entry is added.
InsertThenCompare(k, v, ttl) ==
  /\ Free
  /\ \E t \in {time \in Clock : InRange(time, ttl)} :
       LET kept == ShiftRemove(k)
           fitted == IF Len(kept) > maxSize THEN RemoveOldest(kept, 1) ELSE kept
       IN  /\ map' = Append(fitted, InternalEntry(k, v, t + ttl))
           /\ now' \in t .. MaxTime
  /\ answer' = Unexpired(k, now')
  /\ UNCHANGED <<maxSize, borrow, stats>>

\* The new entry takes its time first, the old one is judged last.
Insert(k, v, ttl) ==
  /\ Free
  /\ \E t \in {time \in Clock : InRange(time, ttl)} :
       LET added == Append(ShiftRemove(k), InternalEntry(k, v, t + ttl))
       IN  /\ map' = IF Len(added) > maxSize THEN RemoveOldest(added, 1) ELSE added
           /\ now' \in t .. MaxTime
  /\ answer' = Unexpired(k, now')
  /\ UNCHANGED <<maxSize, borrow, stats>>

\* get, contains_key which calls it, and get_mut that finds nothing.
Get(k) ==
  /\ Free
  /\ now' \in Clock
  /\ answer' = Unexpired(k, now')
  /\ Count(k, now')
  /\ UNCHANGED <<map, maxSize, borrow>>

\* get_mut, with the assignment of v through the reference it returns.
GetMut(k, v) ==
  /\ Free
  /\ now' \in Clock
  /\ Unexpired(k, now') # None
  /\ map' = [map EXCEPT ![IndexOf(k)].value = v]
  /\ Count(k, now')
  /\ UNCHANGED <<maxSize, borrow, answer>>

ResetStatsCounter ==
  /\ Free
  /\ hits' = 0 /\ misses' = 0
  /\ UNCHANGED <<map, maxSize, now, borrow, answer>>

RemoveKey(k) ==
  /\ Free
  /\ now' \in Clock
  /\ answer' = Unexpired(k, now')
  /\ map' = ShiftRemove(k)
  /\ UNCHANGED <<maxSize, borrow, stats>>

\* Mutant: the capacity is stored off by one, and kept to.
SetCapacityPlusOne(capacity) ==
  /\ Free
  /\ map' = IF Len(map) > capacity THEN RemoveOldest(map, Len(map) - capacity) ELSE map
  /\ maxSize' = capacity + 1
  /\ UNCHANGED <<now, borrow, answer, stats>>

SetCapacity(capacity) ==
  /\ Free
  /\ map' = IF Len(map) > capacity THEN RemoveOldest(map, Len(map) - capacity) ELSE map
  /\ maxSize' = capacity
  /\ UNCHANGED <<now, borrow, answer, stats>>

Clear ==
  /\ Free
  /\ map' = <<>>
  /\ UNCHANGED <<maxSize, now, borrow, answer, stats>>

-----------------------------------------------------------------------------
(* entry() and what it returns.                                            *)

\* An expired entry is removed first, so that its key counts as vacant.
EntryOf(k) ==
  /\ Free
  /\ now' \in Clock
  /\ IF Unexpired(k, now') = None
     THEN map' = ShiftRemove(k) /\ borrow' = Vacant(k)
     ELSE map' = map /\ borrow' = Occupied(k)
  /\ UNCHANGED <<maxSize, answer, stats>>

\* OccupiedEntry::get looks at no clock.
OccupiedGet ==
  /\ borrow.kind = "occupied"
  /\ answer' = map[IndexOf(borrow.key)].value
  /\ UNCHANGED <<map, maxSize, now, borrow, stats>>

\* OccupiedEntry::get_mut, with an assignment through it.
OccupiedGetMut(v) ==
  /\ borrow.kind = "occupied"
  /\ map' = [map EXCEPT ![IndexOf(borrow.key)].value = v]
  /\ UNCHANGED <<maxSize, now, borrow, answer, stats>>

\* The entry is replaced where it is.
OccupiedInsert(v, ttl) ==
  /\ borrow.kind = "occupied"
  /\ now' \in Clock /\ InRange(now', ttl)
  /\ map' = [map EXCEPT ![IndexOf(borrow.key)] = InternalEntry(borrow.key, v, now' + ttl)]
  /\ answer' = map[IndexOf(borrow.key)].value
  /\ UNCHANGED <<maxSize, borrow, stats>>

VacantInsert(v, ttl) ==
  /\ borrow.kind = "vacant"
  /\ now' \in Clock /\ InRange(now', ttl)
  /\ map' = Append(map, InternalEntry(borrow.key, v, now' + ttl))
  /\ borrow' = NoBorrow
  /\ UNCHANGED <<maxSize, answer, stats>>

\* An insert, of the cache or of an entry, whose expiration is out of range
\* panics before it touches the map; what the caller holds is dropped.
InsertPanics(ttl) ==
  /\ borrow.kind # "iter"
  /\ now' \in Clock /\ ~InRange(now', ttl)
  /\ borrow' = NoBorrow
  /\ UNCHANGED <<map, maxSize, answer, stats>>

\* The caller lets go of an entry or an iterator.
Release ==
  /\ ~Free
  /\ borrow' = NoBorrow
  /\ UNCHANGED <<map, maxSize, now, answer, stats>>

-----------------------------------------------------------------------------
(* Iteration.  A run of is_expired() calls at successive times that skips  *)
(* or removes the entries found expired has the effect of judging them all *)
(* at the time of its last call: what expired earlier is expired then.     *)

\* The first position of from .. to whose entry is unexpired at t, or to + 1.
FirstUnexpired(seq, from, to, t) ==
  LET positions == {i \in from .. to : ~IsExpired(seq[i], t)}
  IN  IF positions = {} THEN to + 1 ELSE Min(positions)

\* iter and iter_mut: remove_expired stops at the first unexpired entry.
Iter ==
  /\ Free
  /\ now' \in Clock
  /\ map' = RemoveOldest(map, FirstUnexpired(map, 1, Len(map), now') - 1)
  /\ borrow' = IterOver(1, Len(map'), {})
  /\ UNCHANGED <<maxSize, answer, stats>>

\* Mutant: next ends at the first expired entry, as next_back does.
IterNextEndsEarly ==
  /\ borrow.kind = "iter" /\ borrow.front <= borrow.back
  /\ now' \in Clock
  /\ LET entry == map[borrow.front]
     IN  IF IsExpired(entry, now')
         THEN borrow' = IterOver(borrow.back + 1, borrow.back, borrow.given) /\ answer' = None
         ELSE /\ borrow' = IterOver(borrow.front + 1, borrow.back,
                                    borrow.given \cup {entry.key})
              /\ answer' = entry.value
  /\ UNCHANGED <<map, maxSize, stats>>

IterNext ==
  /\ borrow.kind = "iter"
  /\ now' \in Clock
  /\ LET i == FirstUnexpired(map, borrow.front, borrow.back, now')
     IN  IF i > borrow.back
         THEN /\ borrow' = IterOver(i, borrow.back, borrow.given)
              /\ answer' = None
         ELSE /\ borrow' = IterOver(i + 1, borrow.back, borrow.given \cup {map[i].key})
              /\ answer' = map[i].value
  /\ UNCHANGED <<map, maxSize, stats>>

\* next_back does not look further when the entry is expired.  At the end of
\* the entries it is next that returns None in the same way.
IterNextBack ==
  /\ borrow.kind = "iter" /\ borrow.front <= borrow.back
  /\ now' \in Clock
  /\ LET entry == map[borrow.back]
     IN  IF IsExpired(entry, now')
         THEN /\ borrow' = IterOver(borrow.front, borrow.back - 1, borrow.given)
              /\ answer' = None
         ELSE /\ borrow' = IterOver(borrow.front, borrow.back - 1,
                                    borrow.given \cup {entry.key})
              /\ answer' = entry.value
  /\ UNCHANGED <<map, maxSize, stats>>

-----------------------------------------------------------------------------

Next ==
  \/ \E k \in Keys, v \in Values, ttl \in Durations : Insert(k, v, ttl)
  \/ \E k \in Keys : Get(k) \/ RemoveKey(k) \/ EntryOf(k)
  \/ \E k \in Keys, v \in Values : GetMut(k, v)
  \/ \E n \in Capacities : SetCapacity(n)
  \/ \E ttl \in Durations : InsertPanics(ttl)
  \/ ResetStatsCounter \/ Clear \/ Release \/ OccupiedGet
  \/ \E v \in Values : OccupiedGetMut(v)
  \/ \E v \in Values, ttl \in Durations : OccupiedInsert(v, ttl) \/ VacantInsert(v, ttl)
  \/ Iter \/ IterNext \/ IterNextBack

Spec == Init /\ [][Next]_ttlVars

-----------------------------------------------------------------------------
(* Properties.                                                             *)

\* Keys are unique, an entry that is held matches the map, and the capacity is
\* one that new() or set_capacity was called with.
TypeOK ==
  /\ map \in Seq(InternalEntries)
  /\ \A i, j \in DOMAIN map : map[i].key = map[j].key => i = j
  /\ maxSize \in Capacities
  /\ now \in 0 .. MaxTime
  /\ answer \in Values \cup {None}
  /\ borrow \in {NoBorrow} \cup [kind : {"occupied", "vacant"}, key : Keys]
                 \cup [kind : {"iter"}, front : 1 .. Len(map) + 1, back : 0 .. Len(map),
                       given : SUBSET Keys]
  /\ borrow.kind = "occupied" => IndexOf(borrow.key) # 0
  /\ borrow.kind = "vacant" => IndexOf(borrow.key) = 0
  /\ hits \in 0 .. UsizeRange - 1 /\ misses \in 0 .. UsizeRange - 1

\* An iterator that has met its end, from whatever mixture of next and
\* next_back, has returned every entry that is still unexpired, although
\* remove_expired left expired entries in its way (ttl_cache.rs:581-589) and
\* entries expire while it runs.
IterationComplete ==
  borrow.kind = "iter" /\ borrow.front > borrow.back =>
    \A i \in DOMAIN map : ~IsExpired(map[i], now) => map[i].key \in borrow.given

\* "can hold at most `capacity` items" (ttl_cache.rs:166).
CapacityRespected == Len(map) <= maxSize

\* What is true of the capacity: only VacantEntry::insert takes the cache
\* over it, and no other call makes an over-full cache longer: insert removes
\* an entry for the one it adds (ttl_cache.rs:245).
OnlyVacantOverfills ==
  [][Len(map') <= maxSize' \/ Len(map') <= Len(map) \/ borrow.kind = "vacant"]_ttlVars

\* "if the previous entry is expired, every else before it will be expired
\* too" (ttl_cache.rs:649-650): next_back ends only when nothing is left.
BackwardEndIsFinal ==
  [][(/\ borrow.kind = "iter" /\ borrow'.kind = "iter"
      /\ borrow'.back < borrow.back /\ answer' = None)
       => \A i \in borrow.front .. borrow.back : IsExpired(map[i], now')]_ttlVars

\* Seen through its unexpired entries the cache is an ExpiringMap: the lazy
\* removal of expired entries in entry, iter and insert never takes a live
\* one, eviction only takes the oldest, no lookup returns an expired value or
\* counts one as a hit ("Entries that have expired count as a miss",
\* ttl_cache.rs:543-544), and an insert that panics leaves the old pair.
Observed == INSTANCE ExpiringMap
  WITH live <- Only(map, {entry \in InternalEntries : ~IsExpired(entry, now)})
ImplementsExpiringMap == Observed!Spec
=============================================================================
