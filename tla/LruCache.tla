------------------------------ MODULE LruCache ------------------------------
(***************************************************************************)
(* src/cache/lru_cache.rs: a HashMap that owns the entries, and a circular *)
(* doubly linked list of raw pointers through the same entries, with a     *)
(* sentinel head.  The cache is used through &mut self, so a call is one   *)
(* step.                                                                   *)
(*                                                                         *)
(* An entry lives at an address.  Freeing it only makes the address        *)
(* available to a later allocation: pointers to it keep working on what    *)
(* the memory then holds, which is the outcome modelled for the reads and  *)
(* writes through dangling pointers that the code performs after pop.      *)
(***************************************************************************)
EXTENDS Naturals, Sequences, FiniteSets, Functions

CONSTANTS
  Keys, Values,
  Capacities,   \* the capacities a cache is created with or changed to
  Addresses,    \* where entries are allocated
  Sigil,         \* the address of the sentinel
  Garbage       \* what uninitialised or overwritten memory reads as

\* Every key can have an entry of its own at once.
ASSUME LruAssumption ==
  /\ Capacities \subseteq Nat /\ Capacities # {}
  /\ Cardinality(Keys) <= Cardinality(Addresses)
  /\ Sigil \notin Addresses
  /\ Garbage \notin Keys \cup Values

VARIABLES
  map,      \* the HashMap: from the keys present to their entries' addresses
  heap,     \* the memory: an LruEntry at every address
  maxSize

lruVars == <<map, heap, maxSize>>

Pointers == Addresses \cup {Sigil}
LruEntry == [next : Pointers, prev : Pointers,
             key : Keys \cup {Garbage}, value : Values \cup {Garbage}]

Size(m) == Cardinality(DOMAIN m)

\* new(): the sentinel's key and value are never initialised, and neither is
\* the memory nothing was allocated in.
Init ==
  /\ map = <<>>
  /\ heap = [a \in Pointers |->
               [next |-> Sigil, prev |-> Sigil, key |-> Garbage, value |-> Garbage]]
  /\ maxSize \in Capacities

-----------------------------------------------------------------------------
(* The list.                                                               *)

\* Mutant: only the forward link is taken out.
DetachForward(h, node) == [h EXCEPT ![h[node].prev].next = h[node].next]

Detach(h, node) ==
  LET unlinked == [h EXCEPT ![h[node].prev].next = h[node].next]
  IN  [unlinked EXCEPT ![unlinked[node].next].prev = unlinked[node].prev]

Attach(h, node) ==
  LET linked == [h EXCEPT ![node].next = h[Sigil].next, ![node].prev = Sigil]
      headed == [linked EXCEPT ![Sigil].next = node]
  IN  [headed EXCEPT ![headed[node].next].prev = node]

\* HashMap::remove; nothing happens to a key that is not in the map.
RemoveKey(m, k) == Restrict(m, DOMAIN m \ {k})

\* remove_lru: the victim is looked up in the map by the key its memory holds.
RemoveLru(cache) ==
  LET lru == cache.heap[Sigil].prev
  IN  IF Size(cache.map) = 0 THEN cache
      ELSE [map  |-> RemoveKey(cache.map, cache.heap[lru].key),
            heap |-> Detach(cache.heap, lru)]

\* Mutant: the range capacity..len runs one short.
RemoveLrusOneShort(cache, n) ==
  LET after[i \in 0 .. n] == IF i <= 1 THEN cache ELSE RemoveLru(after[i - 1])
  IN  after[n]

\* n calls of remove_lru.
RemoveLrus(cache, n) ==
  LET after[i \in 0 .. n] == IF i = 0 THEN cache ELSE RemoveLru(after[i - 1])
  IN  after[n]

Become(cache) == map' = cache.map /\ heap' = cache.heap

-----------------------------------------------------------------------------
(* The operations.                                                         *)

\* Mutant: writing a pair again does not count as a use.
PutExistingInPlace(k, v) ==
  /\ k \in DOMAIN map
  /\ heap' = [heap EXCEPT ![map[k]].value = v]
  /\ UNCHANGED <<map, maxSize>>

PutExisting(k, v) ==
  /\ k \in DOMAIN map
  /\ LET updated == [heap EXCEPT ![map[k]].value = v]
     IN  heap' = Attach(Detach(updated, map[k]), map[k])
  /\ UNCHANGED <<map, maxSize>>

\* Box::new may return any address that no entry of the map occupies.
PutNew(k, v) ==
  /\ k \notin DOMAIN map
  /\ \E node \in Addresses \ Range(map) :
       LET written == [heap EXCEPT ![node].key = k, ![node].value = v]
           added == [map  |-> [x \in DOMAIN map \cup {k} |->
                                 IF x = k THEN node ELSE map[x]],
                     heap |-> Attach(written, node)]
       IN  Become(IF Size(added.map) > maxSize THEN RemoveLru(added) ELSE added)
  /\ UNCHANGED maxSize

Get(k) ==
  /\ k \in DOMAIN map
  /\ heap' = Attach(Detach(heap, map[k]), map[k])
  /\ UNCHANGED <<map, maxSize>>

\* pop: the entry leaves the map and is freed, and stays in the list.  The
\* freed memory keeps its key or is overwritten.
Pop(k) ==
  /\ k \in DOMAIN map
  /\ map' = RemoveKey(map, k)
  /\ \E left \in {k, Garbage} : heap' = [heap EXCEPT ![map[k]].key = left]
  /\ UNCHANGED maxSize

\* Mutant: the new capacity is one too large.
ChangeCapacityPlusOne(n) ==
  /\ LET surplus == IF Size(map) > n THEN Size(map) - n ELSE 0
     IN  Become(RemoveLrus([map |-> map, heap |-> heap], surplus))
  /\ maxSize' = n + 1

ChangeCapacity(n) ==
  /\ LET surplus == IF Size(map) > n THEN Size(map) - n ELSE 0
     IN  Become(RemoveLrus([map |-> map, heap |-> heap], surplus))
  /\ maxSize' = n

PoplessNext ==
  \/ \E k \in Keys, v \in Values : PutExisting(k, v) \/ PutNew(k, v)
  \/ \E k \in Keys : Get(k)
  \/ \E n \in Capacities : ChangeCapacity(n)

Next == PoplessNext \/ \E k \in Keys : Pop(k)

Spec == Init /\ [][Next]_lruVars

\* The behaviours of a cache from which nothing is ever popped.
PoplessSpec == Init /\ [][PoplessNext]_lruVars

\* The pairs Debug and Display print: as many as the map has, in list order.
Format ==
  LET node[i \in 0 .. Size(map)] == IF i = 0 THEN Sigil ELSE heap[node[i - 1]].next
  IN  [i \in 1 .. Size(map) |->
         [key |-> heap[node[i]].key, value |-> heap[node[i]].value]]

-----------------------------------------------------------------------------
(* Properties.                                                             *)

TypeOK ==
  /\ DOMAIN map \subseteq Keys
  /\ \A k \in DOMAIN map : map[k] \in Addresses
  /\ heap \in [Pointers -> LruEntry]
  /\ maxSize \in Capacities

\* The list holds the sentinel and the entries the map owns, each once and
\* linked the same way in both directions: what every raw-pointer access of
\* detach, attach and remove_lru relies on (lru_cache.rs:243-271).
RingMatchesMap ==
  LET linked == Range(map) \cup {Sigil}
      ring == [a \in linked |-> heap[a].next]
  IN  /\ IsInjective(map)
      /\ \A a \in linked :
           /\ heap[a].next \in linked /\ heap[heap[a].next].prev = a
           /\ heap[a].prev \in linked /\ heap[heap[a].prev].next = a
      /\ \A part \in SUBSET linked :
           (part # {} /\ \A a \in part : ring[a] \in part) => part = linked

\* "holds at most `capacity` items" (lru_cache.rs:56).
CapacityRespected == Size(map) <= maxSize

\* put, get and change_capacity evict in the order the documentation gives,
\* and what is printed is the content from most to least recently used.
Documented == INSTANCE Lru WITH items <- Format, capacity <- maxSize
ImplementsLru == Documented!Spec
=============================================================================
