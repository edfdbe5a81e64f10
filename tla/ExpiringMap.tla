---------------------------- MODULE ExpiringMap ----------------------------
(***************************************************************************)
(* What a user of src/cache/ttl_cache.rs can observe: the unexpired pairs, *)
(* oldest first.  A pair disappears by itself when its time is over, and   *)
(* the cache may evict pairs, but only from the oldest end.                *)
(***************************************************************************)
EXTENDS Sublists

CONSTANTS Keys, Values, Durations, MaxTime, UsizeRange, None

VARIABLES
  live,     \* the unexpired pairs, each with its expiration time
  now,
  answer,   \* the result of the last call that looked at a pair
  hits, misses

stats == <<hits, misses>>
vars == <<live, now, answer, stats>>

Pair(k, v, expiration) == [key |-> k, value |-> v, expiration |-> expiration]
Pairs == [key : Keys, value : Values, expiration : Nat]

Alive(seq, t) == Only(seq, {pair \in Pairs : pair.expiration >= t})
Without(seq, k) == Only(seq, {pair \in Pairs : pair.key # k})

ValuesOf(seq, k) == {seq[i].value : i \in {j \in DOMAIN seq : seq[j].key = k}}

\* The value of k at time t, or None.
ValueAt(k, t) ==
  IF ValuesOf(Alive(live, t), k) = {} THEN None
  ELSE CHOOSE v \in Values : v \in ValuesOf(Alive(live, t), k)

Init == live = <<>> /\ now = 0 /\ answer = None /\ hits = 0 /\ misses = 0

\* Every call takes the time it takes.
Elapse == now' \in now .. MaxTime

\* A call that gives nothing back, or one that panics.
Wait ==
  /\ Elapse
  /\ live' = Alive(live, now')
  /\ UNCHANGED <<answer, stats>>

Insert(k, v, d) ==
  /\ Elapse
  /\ UNCHANGED stats
  /\ answer' = ValueAt(k, now')
  /\ \E t \in now .. now', evicted \in {0, 1} :
       live' = Alive(Drop(Append(Without(live, k), Pair(k, v, t + d)), evicted), now')

\* A value is assigned in place, through get_mut or an occupied entry.
Write(k, v) ==
  /\ Elapse
  /\ UNCHANGED answer
  /\ live' = Alive([i \in DOMAIN live |->
                      IF live[i].key = k THEN [live[i] EXCEPT !.value = v] ELSE live[i]],
                   now')

\* A lookup by key gives the value and is counted, a hit or a miss.
Lookup(k) ==
  /\ Elapse
  /\ live' = Alive(live, now')
  /\ answer' = ValueAt(k, now')
  /\ IF answer' = None THEN misses' = (misses + 1) % UsizeRange /\ UNCHANGED hits
                       ELSE hits' = (hits + 1) % UsizeRange /\ UNCHANGED misses

\* A lookup that gives a reference, through which v is assigned, is a hit.
Update(k, v) ==
  /\ hits' = (hits + 1) % UsizeRange
  /\ UNCHANGED misses
  /\ Write(k, v)
  /\ ValueAt(k, now') # None

\* The pairs stay; one is handed out by an iterator, or none.
Read ==
  /\ Elapse
  /\ live' = Alive(live, now')
  /\ answer' \in {None} \cup {live'[i].value : i \in DOMAIN live'}
  /\ UNCHANGED stats

Reset ==
  /\ hits' = 0 /\ misses' = 0
  /\ UNCHANGED <<live, now, answer>>

\* An occupied entry is given a new value and duration.  It keeps its place
\* in the order, which the caller no longer knows if it expired meanwhile.
Renew(k, v, d) ==
  /\ Elapse
  /\ UNCHANGED stats
  /\ answer' \in Values
  /\ \E t \in now .. now', place \in 0 .. Len(Without(live, k)) :
       LET others == Without(live, k)
       IN  live' = Alive(SubSeq(others, 1, place) \o <<Pair(k, v, t + d)>>
                           \o Drop(others, place), now')

\* A vacant entry is filled.
Fill(k, v, d) ==
  /\ Elapse
  /\ UNCHANGED <<answer, stats>>
  /\ Without(live, k) = live
  /\ live' = Append(Alive(live, now'), Pair(k, v, now' + d))

Remove(k) ==
  /\ Elapse
  /\ answer' = ValueAt(k, now')
  /\ live' = Alive(Without(live, k), now')
  /\ UNCHANGED stats

Evict ==
  /\ \E n \in 1 .. Len(live) : live' = Drop(live, n)
  /\ UNCHANGED <<now, answer, stats>>

\* An occupied entry shows its value even after its time is over.
Stale ==
  /\ answer' \in Values
  /\ UNCHANGED <<live, now, stats>>

Next ==
  \/ Wait \/ Read \/ Evict \/ Stale \/ Reset
  \/ \E k \in Keys : Lookup(k) \/ Remove(k)
  \/ \E k \in Keys, v \in Values : (Write(k, v) /\ UNCHANGED stats) \/ Update(k, v)
  \/ \E k \in Keys, v \in Values, d \in Durations : Fill(k, v, d) \/ Insert(k, v, d) \/ Renew(k, v, d)

Spec == Init /\ [][Next]_vars
=============================================================================
