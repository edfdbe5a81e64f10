-------------------------------- MODULE Lru --------------------------------
(***************************************************************************)
(* What the documentation of src/cache/lru_cache.rs promises: a dictionary *)
(* that holds at most capacity pairs and drops the least recently used one *)
(* first.  Reading a pair or writing it again makes it the most recent.    *)
(***************************************************************************)
EXTENDS Sublists

CONSTANTS Keys, Values, Capacities

VARIABLES
  items,      \* the pairs, most recently used first
  capacity

vars == <<items, capacity>>

Pairs == [key : Keys, value : Values]

Present(k) == \E i \in DOMAIN items : items[i].key = k

Without(k) == Only(items, {pair \in Pairs : pair.key # k})

\* The n most recent pairs.
Newest(seq, n) == SubSeq(seq, 1, IF Len(seq) < n THEN Len(seq) ELSE n)

Init == items = <<>> /\ capacity \in Capacities

Put(k, v) ==
  /\ items' = Newest(<<[key |-> k, value |-> v]>> \o Without(k), capacity)
  /\ UNCHANGED capacity

Get(k) ==
  \E i \in DOMAIN items :
    /\ items[i].key = k
    /\ items' = <<items[i]>> \o Without(k)
    /\ UNCHANGED capacity

ChangeCapacity(n) ==
  /\ items' = Newest(items, n)
  /\ capacity' = n

Pop(k) ==
  /\ Present(k)
  /\ items' = Without(k)
  /\ UNCHANGED capacity

Next ==
  \/ \E k \in Keys, v \in Values : Put(k, v)
  \/ \E k \in Keys : Get(k) \/ Pop(k)
  \/ \E n \in Capacities : ChangeCapacity(n)

Spec == Init /\ [][Next]_vars
=============================================================================
