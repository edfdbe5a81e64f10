--------------------------- MODULE LruCacheProofs ---------------------------
(***************************************************************************)
(* Proofs about LruCache.tla, for any keys, values, addresses and          *)
(* capacities: while nothing is popped, the linked list stays a ring       *)
(* through exactly the entries of the map, in the order of their last use, *)
(* the cache stays within its capacity, and it implements Lru.tla.         *)
(***************************************************************************)
EXTENDS LruCache, SublistLemmas, FiniteSetTheorems

\* The nodes of linked, and no others, form one ring.
Ring(h, linked) ==
  /\ \A a \in linked :
       /\ h[a].next \in linked /\ h[h[a].next].prev = a
       /\ h[a].prev \in linked /\ h[h[a].prev].next = a
  /\ \A part \in SUBSET linked :
       (part # {} /\ \A a \in part : h[a].next \in part) => part = linked

Occupied(m) == {m[k] : k \in DOMAIN m}

\* The memory holds what was last linked; heaps of one layout differ in it.
SameLinks(g, h) == \A a \in Pointers : g[a].next = h[a].next /\ g[a].prev = h[a].prev
SameData(g, h) == \A a \in Pointers : g[a].key = h[a].key /\ g[a].value = h[a].value

-----------------------------------------------------------------------------
(* The inductive invariant.                                                *)

Mapped(m) ==
  /\ DOMAIN m \subseteq Keys
  /\ IsFiniteSet(DOMAIN m)
  /\ m \in [DOMAIN m -> Addresses]
  /\ \A j, k \in DOMAIN m : m[j] = m[k] => j = k

\* What a call of the cache finds and leaves: the entry of a key holds that
\* key, which is how remove_lru finds the victim in the map.
Well(cache) ==
  /\ Mapped(cache.map)
  /\ cache.heap \in [Pointers -> LruEntry]
  /\ Ring(cache.heap, Occupied(cache.map) \cup {Sigil})
  /\ \A k \in DOMAIN cache.map :
       cache.heap[cache.map[k]].key = k /\ cache.heap[cache.map[k]].value \in Values

\* The node at place i of a list, which begins and ends at the sentinel.
Node(s, i) == IF i \in DOMAIN s THEN s[i] ELSE Sigil

\* s is the list: the nodes behind the sentinel, in the order of their links.
Linked(h, s) ==
  /\ s \in Seq(Addresses)
  /\ IsInjective(s)
  /\ \A i \in 0 .. Len(s) :
       h[Node(s, i)].next = Node(s, i + 1) /\ h[Node(s, i + 1)].prev = Node(s, i)

Ordered(cache, s) ==
  /\ Linked(cache.heap, s)
  /\ Range(s) = Occupied(cache.map)
  /\ Len(s) = Size(cache.map)

Now == [map |-> map, heap |-> heap]

LruInv ==
  /\ Well(Now)
  /\ maxSize \in Capacities
  /\ CapacityRespected
  /\ \E s : Ordered(Now, s)

-----------------------------------------------------------------------------
(* The list.                                                               *)

\* A ring is a matter of the links alone.
LEMMA RingOfLinks ==
  ASSUME NEW g, NEW h, NEW linked \in SUBSET Pointers,
         SameLinks(g, h), Ring(h, linked)
  PROVE  Ring(g, linked)
<1>1. \A a \in linked : g[a].next = h[a].next /\ g[a].prev = h[a].prev
  BY DEF SameLinks
<1>2. \A a \in linked :
        /\ g[a].next \in linked /\ g[g[a].next].prev = a
        /\ g[a].prev \in linked /\ g[g[a].prev].next = a
  BY <1>1 DEF Ring
<1>3. \A part \in SUBSET linked :
        (part # {} /\ \A a \in part : g[a].next \in part) => part = linked
  BY <1>1 DEF Ring
<1> QED BY <1>2, <1>3 DEF Ring

\* What detach does to each node.
LEMMA DetachEffect ==
  ASSUME NEW h \in [Pointers -> LruEntry], NEW node \in Pointers, h[node].prev # node
  PROVE  /\ Detach(h, node) \in [Pointers -> LruEntry]
         /\ SameData(Detach(h, node), h)
         /\ \A a \in Pointers :
              /\ Detach(h, node)[a].next =
                   IF a = h[node].prev THEN h[node].next ELSE h[a].next
              /\ Detach(h, node)[a].prev =
                   IF a = h[node].next THEN h[node].prev ELSE h[a].prev
<1> DEFINE before == h[node].prev
           after == h[node].next
           unlinked == [h EXCEPT ![before].next = after]
<1>1. before \in Pointers /\ after \in Pointers
  BY DEF LruEntry
<1>2. unlinked \in [Pointers -> LruEntry]
  BY <1>1 DEF LruEntry
<1>3. unlinked[node] = h[node]
  BY <1>1
<1>4. Detach(h, node) = [unlinked EXCEPT ![after].prev = before]
  BY <1>3 DEF Detach
<1>5. \A a \in Pointers :
        /\ unlinked[a].next = IF a = before THEN after ELSE h[a].next
        /\ unlinked[a].prev = h[a].prev
        /\ unlinked[a].key = h[a].key /\ unlinked[a].value = h[a].value
  BY <1>1 DEF LruEntry
<1> HIDE DEF unlinked
<1>6. [unlinked EXCEPT ![after].prev = before] \in [Pointers -> LruEntry]
  BY <1>1, <1>2 DEF LruEntry
<1>7. \A a \in Pointers :
        /\ [unlinked EXCEPT ![after].prev = before][a].next = unlinked[a].next
        /\ [unlinked EXCEPT ![after].prev = before][a].key = unlinked[a].key
        /\ [unlinked EXCEPT ![after].prev = before][a].value = unlinked[a].value
        /\ [unlinked EXCEPT ![after].prev = before][a].prev =
             IF a = after THEN before ELSE unlinked[a].prev
  BY <1>1, <1>2 DEF LruEntry
<1> QED BY <1>4, <1>5, <1>6, <1>7 DEF SameData

\* Taking a node out of a ring leaves the ring of the others.
LEMMA DetachRing ==
  ASSUME NEW h \in [Pointers -> LruEntry], NEW linked \in SUBSET Pointers,
         NEW node \in linked, linked # {node}, Ring(h, linked)
  PROVE  /\ Detach(h, node) \in [Pointers -> LruEntry]
         /\ SameData(Detach(h, node), h)
         /\ Ring(Detach(h, node), linked \ {node})
<1> DEFINE before == h[node].prev
           after == h[node].next
           d == Detach(h, node)
           rest == linked \ {node}
<1>1. before \in linked /\ after \in linked /\ h[before].next = node /\ h[after].prev = node
  BY DEF Ring
<1>2. after # node
  <2>1. SUFFICES ASSUME after = node PROVE FALSE
    OBVIOUS
  <2>2. {node} \in SUBSET linked /\ {node} # {} /\ \A a \in {node} : h[a].next \in {node}
    BY <2>1
  <2> QED BY <2>2 DEF Ring
<1>3. before # node
  BY <1>1, <1>2
<1>4. /\ d \in [Pointers -> LruEntry]
      /\ SameData(d, h)
      /\ \A a \in Pointers :
           /\ d[a].next = IF a = before THEN after ELSE h[a].next
           /\ d[a].prev = IF a = after THEN before ELSE h[a].prev
  BY <1>3, DetachEffect
<1> HIDE DEF d
<1>5. \A a \in rest : d[a].next \in rest /\ d[d[a].next].prev = a
  <2> TAKE a \in rest
  <2>1. a \in Pointers /\ h[a].next \in linked /\ h[h[a].next].prev = a
    BY DEF Ring
  <2>2. CASE a = before
    BY <1>1, <1>2, <1>4, <2>1, <2>2
  <2>3. CASE a # before
    BY <1>1, <1>2, <1>4, <2>1, <2>3
  <2> QED BY <2>2, <2>3
<1>6. \A a \in rest : d[a].prev \in rest /\ d[d[a].prev].next = a
  <2> TAKE a \in rest
  <2>1. a \in Pointers /\ h[a].prev \in linked /\ h[h[a].prev].next = a
    BY DEF Ring
  <2>2. CASE a = after
    BY <1>1, <1>3, <1>4, <2>1, <2>2
  <2>3. CASE a # after
    BY <1>1, <1>3, <1>4, <2>1, <2>3
  <2> QED BY <2>2, <2>3
<1>7. ASSUME NEW part \in SUBSET rest, part # {}, \A a \in part : d[a].next \in part
      PROVE  part = rest
  <2>1. CASE before \in part
    <3>1. \A a \in part \cup {node} : h[a].next \in part \cup {node}
      BY <1>1, <1>4, <1>7, <2>1
    <3>2. part \cup {node} = linked
      <4>1. part \cup {node} \in SUBSET linked /\ part \cup {node} # {}
        OBVIOUS
      <4> QED BY <3>1, <4>1 DEF Ring
    <3> QED BY <3>2
  <2>2. CASE before \notin part
    <3>1. \A a \in part : h[a].next \in part
      BY <1>4, <1>7, <2>2
    <3>2. part = linked
      BY <1>7, <3>1 DEF Ring
    <3> QED BY <3>2
  <2> QED BY <2>1, <2>2
<1>8. Ring(d, rest)
  BY <1>5, <1>6, <1>7 DEF Ring
<1> QED BY <1>4, <1>8 DEF d

\* What attach does to each node.
LEMMA AttachEffect ==
  ASSUME NEW h \in [Pointers -> LruEntry], NEW node \in Pointers \ {Sigil},
         h[Sigil].next # node
  PROVE  /\ Attach(h, node) \in [Pointers -> LruEntry]
         /\ SameData(Attach(h, node), h)
         /\ \A a \in Pointers :
              /\ Attach(h, node)[a].next =
                   IF a = node THEN h[Sigil].next
                   ELSE IF a = Sigil THEN node ELSE h[a].next
              /\ Attach(h, node)[a].prev =
                   IF a = h[Sigil].next THEN node
                   ELSE IF a = node THEN Sigil ELSE h[a].prev
<1> DEFINE first == h[Sigil].next
           linked == [h EXCEPT ![node].next = first, ![node].prev = Sigil]
           headed == [linked EXCEPT ![Sigil].next = node]
<1>1. first \in Pointers /\ Sigil \in Pointers /\ node # Sigil
  BY DEF LruEntry, Pointers
<1>2. linked \in [Pointers -> LruEntry]
  BY <1>1 DEF LruEntry
<1>3. \A a \in Pointers :
        /\ linked[a].next = IF a = node THEN first ELSE h[a].next
        /\ linked[a].prev = IF a = node THEN Sigil ELSE h[a].prev
        /\ linked[a].key = h[a].key /\ linked[a].value = h[a].value
  BY <1>1 DEF LruEntry
<1> HIDE DEF linked
<1>4. headed \in [Pointers -> LruEntry]
  BY <1>1, <1>2 DEF LruEntry
<1>5. \A a \in Pointers :
        /\ headed[a].next = IF a = Sigil THEN node ELSE linked[a].next
        /\ headed[a].prev = linked[a].prev
        /\ headed[a].key = linked[a].key /\ headed[a].value = linked[a].value
  BY <1>1, <1>2 DEF LruEntry
<1>6. headed[node].next = first
  BY <1>1, <1>3, <1>5
<1>7. Attach(h, node) = [headed EXCEPT ![first].prev = node]
  BY <1>6 DEF Attach, headed, linked
<1> HIDE DEF headed
<1>8. [headed EXCEPT ![first].prev = node] \in [Pointers -> LruEntry]
  BY <1>1, <1>4 DEF LruEntry
<1>9. \A a \in Pointers :
        /\ [headed EXCEPT ![first].prev = node][a].next = headed[a].next
        /\ [headed EXCEPT ![first].prev = node][a].key = headed[a].key
        /\ [headed EXCEPT ![first].prev = node][a].value = headed[a].value
        /\ [headed EXCEPT ![first].prev = node][a].prev =
             IF a = first THEN node ELSE headed[a].prev
  BY <1>1, <1>4 DEF LruEntry
<1> QED BY <1>1, <1>3, <1>5, <1>7, <1>8, <1>9 DEF SameData

\* Putting a node behind the sentinel of a ring makes the ring of both.
LEMMA AttachRing ==
  ASSUME NEW h \in [Pointers -> LruEntry], NEW linked \in SUBSET Pointers,
         Sigil \in linked, NEW node \in Pointers \ linked, Ring(h, linked)
  PROVE  /\ Attach(h, node) \in [Pointers -> LruEntry]
         /\ SameData(Attach(h, node), h)
         /\ Ring(Attach(h, node), linked \cup {node})
<1> DEFINE first == h[Sigil].next
           t == Attach(h, node)
           all == linked \cup {node}
<1>1. first \in linked /\ first # node /\ h[first].prev = Sigil
  BY DEF Ring
<1>2. /\ t \in [Pointers -> LruEntry]
      /\ SameData(t, h)
      /\ \A a \in Pointers :
           /\ t[a].next = IF a = node THEN first ELSE IF a = Sigil THEN node ELSE h[a].next
           /\ t[a].prev = IF a = first THEN node ELSE IF a = node THEN Sigil ELSE h[a].prev
  BY <1>1, AttachEffect
<1> HIDE DEF t
<1>3. \A a \in all : t[a].next \in all /\ t[t[a].next].prev = a
  <2> TAKE a \in all
  <2>1. CASE a = node
    BY <1>1, <1>2, <2>1
  <2>2. CASE a = Sigil
    BY <1>1, <1>2, <2>2
  <2>3. CASE a # node /\ a # Sigil
    <3>1. a \in linked /\ h[a].next \in linked /\ h[h[a].next].prev = a
      BY <2>3 DEF Ring
    <3> QED BY <1>1, <1>2, <2>3, <3>1
  <2> QED BY <2>1, <2>2, <2>3
<1>4. \A a \in all : t[a].prev \in all /\ t[t[a].prev].next = a
  <2> TAKE a \in all
  <2>1. CASE a = first
    BY <1>1, <1>2, <2>1
  <2>2. CASE a = node
    BY <1>1, <1>2, <2>2
  <2>3. CASE a # node /\ a # first
    <3>1. a \in linked /\ h[a].prev \in linked /\ h[h[a].prev].next = a
      BY <2>3 DEF Ring
    <3> QED BY <1>1, <1>2, <2>3, <3>1
  <2> QED BY <2>1, <2>2, <2>3
<1>5. ASSUME NEW part \in SUBSET all, part # {}, \A a \in part : t[a].next \in part
      PROVE  part = all
  <2> DEFINE old == part \ {node}
  <2>1. old # {}
    BY <1>1, <1>2, <1>5
  <2>2. \A a \in old : h[a].next \in old
    <3> TAKE a \in old
    <3>1. a \in linked /\ h[a].next \in linked
      BY DEF Ring
    <3>2. CASE a = Sigil
      <4>1. node \in part
        BY <1>2, <1>5, <3>2
      <4> QED BY <1>1, <1>2, <1>5, <3>2, <4>1
    <3>3. CASE a # Sigil
      BY <1>2, <1>5, <3>1, <3>3
    <3> QED BY <3>2, <3>3
  <2>3. old = linked
    BY <2>1, <2>2 DEF Ring
  <2>4. node \in part
    BY <1>2, <1>5, <2>3
  <2> QED BY <2>3, <2>4
<1>6. Ring(t, all)
  BY <1>3, <1>4, <1>5 DEF Ring
<1> QED BY <1>2, <1>6 DEF t
-----------------------------------------------------------------------------
(* The order of the list.                                                  *)

\* No node is at two places, but for the sentinel at the two ends.
LEMMA NodePlaces ==
  ASSUME NEW s \in Seq(Addresses), IsInjective(s)
  PROVE  /\ Len(s) \in Nat /\ DOMAIN s = 1 .. Len(s)
         /\ \A i \in Nat : Node(s, i) \in Pointers
         /\ \A i \in DOMAIN s : Node(s, i) = s[i] /\ s[i] \in Addresses
         /\ Node(s, 0) = Sigil /\ Node(s, Len(s) + 1) = Sigil
         /\ \A i, j \in 0 .. Len(s) + 1 :
              Node(s, i) = Node(s, j) =>
                i = j \/ (i \in {0, Len(s) + 1} /\ j \in {0, Len(s) + 1})
<1> DEFINE n == Len(s)
<1>1. /\ n \in Nat /\ DOMAIN s = 1 .. n /\ \A i \in 1 .. n : s[i] \in Addresses
      /\ \A i, j \in 1 .. n : s[i] = s[j] => i = j
  BY DEF IsInjective
<1> HIDE DEF n
<1>2. \A i \in 1 .. n : Node(s, i) = s[i]
  BY <1>1 DEF Node
<1>3. \A i \in Nat : i \notin 1 .. n => Node(s, i) = Sigil
  BY <1>1 DEF Node
<1>4. \A i \in Nat : Node(s, i) \in Pointers
  BY <1>1, <1>2, <1>3 DEF Pointers
<1>5. Node(s, 0) = Sigil /\ Node(s, n + 1) = Sigil
  BY <1>1, <1>3
<1>6. ASSUME NEW i \in 0 .. n + 1, NEW j \in 0 .. n + 1, Node(s, i) = Node(s, j)
      PROVE  i = j \/ (i \in {0, n + 1} /\ j \in {0, n + 1})
  <2>1. CASE i \in 1 .. n /\ j \in 1 .. n
    BY <1>1, <1>2, <1>6, <2>1
  <2>2. CASE i \notin 1 .. n /\ j \notin 1 .. n
    BY <1>1, <2>2
  <2>3. CASE i \in 1 .. n /\ j \notin 1 .. n
    <3>1. Node(s, i) \in Addresses /\ Node(s, j) = Sigil
      BY <1>1, <1>2, <1>3, <2>3
    <3> QED BY <1>6, <3>1, LruAssumption
  <2>4. CASE i \notin 1 .. n /\ j \in 1 .. n
    <3>1. Node(s, j) \in Addresses /\ Node(s, i) = Sigil
      BY <1>1, <1>2, <1>3, <2>4
    <3> QED BY <1>6, <3>1, LruAssumption
  <2> QED BY <2>1, <2>2, <2>3, <2>4
<1> QED BY <1>1, <1>2, <1>4, <1>5, <1>6 DEF n

\* The links of a list, for the steps that change a few of them.
LEMMA LinkedSteps ==
  ASSUME NEW h, NEW s, Linked(h, s)
  PROVE  /\ s \in Seq(Addresses) /\ Len(s) \in Nat
         /\ \A i \in 0 .. Len(s) : h[Node(s, i)].next = Node(s, i + 1)
         /\ \A i \in 1 .. Len(s) + 1 : h[Node(s, i)].prev = Node(s, i - 1)
<1>1. Len(s) \in Nat /\ s \in Seq(Addresses)
  BY DEF Linked
<1>2. \A i \in 1 .. Len(s) + 1 : i - 1 \in 0 .. Len(s) /\ i - 1 + 1 = i
  BY <1>1
<1> QED BY <1>1, <1>2 DEF Linked

\* A list is a matter of the links alone.
LEMMA LinkedByLinks ==
  ASSUME NEW g, NEW h, NEW s, SameLinks(g, h), Linked(h, s)
  PROVE  Linked(g, s)
<1>1. Len(s) \in Nat /\ \A i \in Nat : Node(s, i) \in Pointers
  BY NodePlaces DEF Linked
<1>2. \A i \in 0 .. Len(s) : Node(s, i) \in Pointers /\ Node(s, i + 1) \in Pointers
  BY <1>1
<1> QED BY <1>2 DEF Linked, SameLinks

\* Detach takes one place out of the list.
LEMMA DetachLinked ==
  ASSUME NEW h \in [Pointers -> LruEntry], NEW s, Linked(h, s), NEW i \in DOMAIN s
  PROVE  Linked(Detach(h, s[i]), Cut(s, i))
<1> DEFINE n == Len(s)
           node == s[i]
           before == Node(s, i - 1)
           after == Node(s, i + 1)
           d == Detach(h, node)
           c == Cut(s, i)
<1>1. s \in Seq(Addresses) /\ IsInjective(s)
  BY DEF Linked
<1>2. n \in Nat /\ DOMAIN s = 1 .. n /\ i \in 1 .. n
  BY <1>1, NodePlaces
<1>3. /\ \A j \in 0 .. n : h[Node(s, j)].next = Node(s, j + 1)
      /\ \A j \in 1 .. n + 1 : h[Node(s, j)].prev = Node(s, j - 1)
  BY LinkedSteps
<1>4. /\ \A j \in Nat : Node(s, j) \in Pointers
      /\ Node(s, i) = node /\ Node(s, 0) = Sigil /\ Node(s, n + 1) = Sigil
  BY <1>1, <1>2, NodePlaces
<1>5. \A j, l \in 0 .. n + 1 :
        Node(s, j) = Node(s, l) => j = l \/ (j \in {0, n + 1} /\ l \in {0, n + 1})
  BY <1>1, NodePlaces
<1>6. c \in Seq(Addresses) /\ Len(c) = n - 1 /\ IsInjective(c) /\ DOMAIN c = 1 .. n - 1
      /\ \A j \in 1 .. n - 1 : c[j] = IF j < i THEN s[j] ELSE s[j + 1]
  BY <1>1, CutItems, CutRange
<1> HIDE DEF n, node, c
<1>7. /\ h[node].next = after /\ h[node].prev = before
      /\ before # node /\ node \in Pointers
  <2>1. i \in 0 .. n /\ i \in 1 .. n + 1 /\ i - 1 \in 0 .. n + 1 /\ i \in Nat
    BY <1>2
  <2>2. Node(s, i - 1) # Node(s, i)
    BY <1>2, <1>5, <2>1
  <2> QED BY <1>3, <1>4, <2>1, <2>2
<1>8. \A a \in Pointers :
        /\ d[a].next = IF a = before THEN after ELSE h[a].next
        /\ d[a].prev = IF a = after THEN before ELSE h[a].prev
  BY <1>7, DetachEffect
<1> HIDE DEF d
<1>9. \A j \in 0 .. n : Node(c, j) = IF j < i THEN Node(s, j) ELSE Node(s, j + 1)
  <2> TAKE j \in 0 .. n
  <2>1. CASE j = 0
    BY <1>2, <1>4, <1>6, <2>1 DEF Node
  <2>2. CASE j = n
    BY <1>2, <1>4, <1>6, <2>2 DEF Node
  <2>3. CASE j \in 1 .. n - 1
    BY <1>2, <1>6, <2>3 DEF Node
  <2> QED BY <1>2, <2>1, <2>2, <2>3
<1> HIDE DEF before, after
<1>10. ASSUME NEW j \in 0 .. n - 1
       PROVE  d[Node(c, j)].next = Node(c, j + 1) /\ d[Node(c, j + 1)].prev = Node(c, j)
  <2>1. CASE j + 1 < i
    <3>1. Node(c, j) = Node(s, j) /\ Node(c, j + 1) = Node(s, j + 1)
      BY <1>2, <1>9, <2>1
    <3>2. Node(s, j) # before
      BY <1>2, <1>5, <2>1 DEF before
    <3>3. Node(s, j + 1) # after
      BY <1>2, <1>5, <2>1 DEF after
    <3>4. h[Node(s, j)].next = Node(s, j + 1) /\ h[Node(s, j + 1)].prev = Node(s, j)
      BY <1>2, <1>3
    <3>5. Node(s, j) \in Pointers /\ Node(s, j + 1) \in Pointers
      BY <1>2, <1>4
    <3> QED BY <1>8, <3>1, <3>2, <3>3, <3>4, <3>5
  <2>2. CASE j + 1 = i
    <3>1. Node(c, j) = before /\ Node(c, j + 1) = after
      BY <1>2, <1>9, <2>2 DEF before, after
    <3>2. before \in Pointers /\ after \in Pointers
      BY <1>2, <1>4 DEF before, after
    <3> QED BY <1>8, <3>1, <3>2
  <2>3. CASE j + 1 > i
    <3>1. Node(c, j) = Node(s, j + 1) /\ Node(c, j + 1) = Node(s, j + 2)
      BY <1>2, <1>9, <2>3
    <3>2. Node(s, j + 1) # before
      BY <1>2, <1>5, <2>3 DEF before
    <3>3. Node(s, j + 2) # after
      BY <1>2, <1>5, <2>3 DEF after
    <3>4. h[Node(s, j + 1)].next = Node(s, j + 2) /\ h[Node(s, j + 2)].prev = Node(s, j + 1)
      BY <1>2, <1>3
    <3>5. Node(s, j + 1) \in Pointers /\ Node(s, j + 2) \in Pointers
      BY <1>2, <1>4
    <3> QED BY <1>8, <3>1, <3>2, <3>3, <3>4, <3>5
  <2> QED BY <1>2, <2>1, <2>2, <2>3
<1>11. Linked(d, c)
  BY <1>6, <1>10 DEF Linked
<1> QED BY <1>11 DEF d, c, node

\* Attach puts a node that is not in the list first.
LEMMA AttachLinked ==
  ASSUME NEW h \in [Pointers -> LruEntry], NEW s, Linked(h, s),
         NEW node \in Addresses \ Range(s)
  PROVE  Linked(Attach(h, node), Ahead(node, s))
<1> DEFINE n == Len(s)
           first == Node(s, 1)
           t == Attach(h, node)
           u == Ahead(node, s)
<1>1. s \in Seq(Addresses) /\ IsInjective(s)
  BY DEF Linked
<1>2. n \in Nat /\ DOMAIN s = 1 .. n
  BY <1>1, NodePlaces
<1>3. /\ \A j \in 0 .. n : h[Node(s, j)].next = Node(s, j + 1)
      /\ \A j \in 1 .. n + 1 : h[Node(s, j)].prev = Node(s, j - 1)
  BY LinkedSteps
<1>4. /\ \A j \in Nat : Node(s, j) \in Pointers
      /\ \A j \in 1 .. n : Node(s, j) = s[j]
      /\ Node(s, 0) = Sigil /\ Node(s, n + 1) = Sigil
  BY <1>1, <1>2, NodePlaces
<1>5. \A j, l \in 0 .. n + 1 :
        Node(s, j) = Node(s, l) => j = l \/ (j \in {0, n + 1} /\ l \in {0, n + 1})
  BY <1>1, NodePlaces
<1>6. u \in Seq(Addresses) /\ Len(u) = n + 1 /\ u[1] = node /\ DOMAIN u = 1 .. n + 1
      /\ \A j \in 1 .. n : u[j + 1] = s[j]
  BY <1>1, AheadItems
<1>7. IsInjective(u)
  BY <1>1, AheadRange
<1> HIDE DEF n, u
<1>8. node \in Pointers \ {Sigil} /\ Sigil \in Pointers
  BY LruAssumption DEF Pointers
<1>9. \A j \in 0 .. n + 1 : Node(s, j) # node
  <2> TAKE j \in 0 .. n + 1
  <2>1. CASE j \in 1 .. n
    BY <1>2, <1>4, <2>1 DEF Range
  <2>2. CASE j \notin 1 .. n
    BY <1>2, <1>4, <1>8, <2>2
  <2> QED BY <2>1, <2>2
<1>10. h[Sigil].next = first /\ first # node /\ first \in Pointers
  BY <1>2, <1>3, <1>4, <1>9
<1>11. \A a \in Pointers :
         /\ t[a].next = IF a = node THEN first ELSE IF a = Sigil THEN node ELSE h[a].next
         /\ t[a].prev = IF a = first THEN node ELSE IF a = node THEN Sigil ELSE h[a].prev
  BY <1>8, <1>10, AttachEffect
<1> HIDE DEF t
<1>12. Node(u, 0) = Sigil /\ Node(u, 1) = node
  BY <1>2, <1>6 DEF Node
<1>13. \A j \in 1 .. n + 1 : Node(u, j + 1) = Node(s, j)
  <2> TAKE j \in 1 .. n + 1
  <2>1. CASE j = n + 1
    BY <1>2, <1>4, <1>6, <2>1 DEF Node
  <2>2. CASE j \in 1 .. n
    BY <1>2, <1>4, <1>6, <2>2 DEF Node
  <2> QED BY <1>2, <2>1, <2>2
<1> HIDE DEF first
<1>14. ASSUME NEW j \in 0 .. n + 1
       PROVE  t[Node(u, j)].next = Node(u, j + 1) /\ t[Node(u, j + 1)].prev = Node(u, j)
  <2>1. CASE j = 0
    BY <1>8, <1>10, <1>11, <1>12, <2>1
  <2>2. CASE j = 1
    <3>1. Node(u, 2) = first
      BY <1>2, <1>13 DEF first
    <3> QED BY <1>8, <1>10, <1>11, <1>12, <2>2, <3>1
  <2>3. CASE j > 1
    <3>1. Node(u, j) = Node(s, j - 1) /\ Node(u, j + 1) = Node(s, j)
      <4>1. j - 1 \in 1 .. n + 1 /\ j \in 1 .. n + 1 /\ j - 1 + 1 = j
        BY <1>2, <2>3
      <4>2. Node(u, j - 1 + 1) = Node(s, j - 1)
        BY <1>13, <4>1
      <4> QED BY <1>13, <4>1, <4>2
    <3>2. Node(s, j - 1) # Sigil
      BY <1>2, <1>4, <1>5, <2>3
    <3>3. Node(s, j) # first
      BY <1>2, <1>5, <2>3 DEF first
    <3>4. Node(s, j - 1) # node /\ Node(s, j) # node
      BY <1>2, <1>9, <2>3
    <3>5. h[Node(s, j - 1)].next = Node(s, j) /\ h[Node(s, j)].prev = Node(s, j - 1)
      <4>1. j - 1 \in 0 .. n /\ j \in 1 .. n + 1 /\ j - 1 + 1 = j
        BY <1>2, <2>3
      <4>2. h[Node(s, j - 1)].next = Node(s, j - 1 + 1)
        BY <1>3, <4>1
      <4> QED BY <1>3, <4>1, <4>2
    <3>6. Node(s, j - 1) \in Pointers /\ Node(s, j) \in Pointers
      BY <1>2, <1>4, <2>3
    <3> QED BY <1>11, <3>1, <3>2, <3>3, <3>4, <3>5, <3>6
  <2> QED BY <1>2, <2>1, <2>2, <2>3
<1>15. Linked(t, u)
  <2>1. \A j \in 0 .. Len(u) :
          t[Node(u, j)].next = Node(u, j + 1) /\ t[Node(u, j + 1)].prev = Node(u, j)
    BY <1>6, <1>14
  <2> QED BY <1>6, <1>7, <2>1 DEF Linked
<1> QED BY <1>15 DEF t, u

-----------------------------------------------------------------------------
(* Evicting.                                                               *)

\* The map without one key, and the entries it is left with.
LEMMA RemoveKeyEffect ==
  ASSUME NEW m, Mapped(m), NEW k \in DOMAIN m
  PROVE  /\ Mapped(RemoveKey(m, k))
         /\ DOMAIN RemoveKey(m, k) = DOMAIN m \ {k}
         /\ \A j \in DOMAIN m \ {k} : RemoveKey(m, k)[j] = m[j]
         /\ Occupied(RemoveKey(m, k)) = Occupied(m) \ {m[k]}
         /\ Size(RemoveKey(m, k)) = Size(m) - 1
<1> DEFINE r == RemoveKey(m, k)
<1>1. r = [j \in DOMAIN m \ {k} |-> m[j]]
  BY DEF RemoveKey, Restrict
<1>2. IsFiniteSet(DOMAIN m \ {k}) /\ Cardinality(DOMAIN m \ {k}) = Cardinality(DOMAIN m) - 1
  BY FS_RemoveElement DEF Mapped
<1>3. DOMAIN r = DOMAIN m \ {k} /\ \A j \in DOMAIN m \ {k} : r[j] = m[j]
  BY <1>1
<1> HIDE DEF r
<1>4. Mapped(r)
  <2>1. r \in [DOMAIN r -> Addresses]
    BY <1>1 DEF Mapped, r
  <2> QED BY <1>2, <1>3, <2>1 DEF Mapped
<1>5. Occupied(r) = Occupied(m) \ {m[k]}
  BY <1>3 DEF Occupied, Mapped
<1> QED BY <1>2, <1>3, <1>4, <1>5 DEF Size, r

\* The sizes that the map can have.
LEMMA SizeType ==
  ASSUME NEW m, Mapped(m)
  PROVE  Size(m) \in Nat /\ (Size(m) = 0 <=> DOMAIN m = {})
  BY FS_CardinalityType, FS_EmptySet DEF Mapped, Size

\* remove_lru takes one entry out of the map and out of the ring.
LEMMA RemoveLruEffect ==
  ASSUME NEW cache, Well(cache), Size(cache.map) # 0
  PROVE  /\ Well(RemoveLru(cache))
         /\ Size(RemoveLru(cache).map) = Size(cache.map) - 1
<1> DEFINE m == cache.map
           h == cache.heap
           linked == Occupied(m) \cup {Sigil}
           lru == h[Sigil].prev
<1>1. /\ Mapped(m) /\ h \in [Pointers -> LruEntry] /\ Ring(h, linked)
      /\ \A k \in DOMAIN m : h[m[k]].key = k /\ h[m[k]].value \in Values
  BY DEF Well
<1> HIDE DEF m, h
<1>2. /\ Occupied(m) \subseteq Addresses /\ linked \subseteq Pointers
      /\ Sigil \notin Addresses
  BY <1>1, LruAssumption DEF Mapped, Occupied, Pointers
<1>3. PICK some \in DOMAIN m : TRUE
  BY <1>1, SizeType DEF m
<1>4. lru \in linked /\ h[lru].next = Sigil
  BY <1>1 DEF Ring
<1>5. lru # Sigil
  <2>1. SUFFICES ASSUME lru = Sigil PROVE FALSE
    OBVIOUS
  <2>2. {Sigil} \in SUBSET linked /\ {Sigil} # {} /\ \A a \in {Sigil} : h[a].next \in {Sigil}
    BY <1>4, <2>1
  <2>3. {Sigil} = linked
    BY <1>1, <2>2 DEF Ring
  <2> QED BY <1>2, <1>3, <2>3 DEF Occupied
<1>6. PICK k \in DOMAIN m : m[k] = lru
  BY <1>4, <1>5 DEF Occupied
<1> DEFINE r == RemoveKey(m, k)
           d == Detach(h, lru)
<1>7. RemoveLru(cache) = [map |-> r, heap |-> d]
  BY <1>1, <1>6 DEF RemoveLru, m, h
<1> HIDE DEF r, d, lru, linked
<1>8. /\ Mapped(r) /\ DOMAIN r = DOMAIN m \ {k}
      /\ \A j \in DOMAIN m \ {k} : r[j] = m[j]
      /\ Occupied(r) = Occupied(m) \ {lru} /\ Size(r) = Size(m) - 1
  BY <1>1, <1>6, RemoveKeyEffect DEF r
<1>9. d \in [Pointers -> LruEntry] /\ SameData(d, h) /\ Ring(d, linked \ {lru})
  <2>1. lru \in linked /\ linked \in SUBSET Pointers /\ linked # {lru}
    BY <1>2, <1>4, <1>5 DEF linked
  <2> QED BY <1>1, <2>1, DetachRing DEF d
<1>10. linked \ {lru} = Occupied(r) \cup {Sigil}
  BY <1>5, <1>8 DEF linked
<1>11. \A j \in DOMAIN r : d[r[j]].key = j /\ d[r[j]].value \in Values
  <2> TAKE j \in DOMAIN r
  <2>1. j \in DOMAIN m /\ r[j] = m[j] /\ m[j] \in Pointers
    BY <1>1, <1>8 DEF Mapped, Pointers
  <2> QED BY <1>1, <1>9, <2>1 DEF SameData
<1>12. RemoveLru(cache).map = r /\ RemoveLru(cache).heap = d
  BY <1>7
<1>13. Well(RemoveLru(cache))
  <2>1. Ring(d, Occupied(r) \cup {Sigil})
    BY <1>9, <1>10
  <2> QED BY <1>8, <1>9, <1>11, <1>12, <2>1 DEF Well
<1> QED BY <1>8, <1>12, <1>13 DEF m

\* The entry that remove_lru takes is the last of the list.
LEMMA RemoveLruOrder ==
  ASSUME NEW cache, Well(cache), Size(cache.map) # 0, NEW s, Ordered(cache, s)
  PROVE  /\ Ordered(RemoveLru(cache), Cut(s, Len(s)))
         /\ SameData(RemoveLru(cache).heap, cache.heap)
<1> DEFINE m == cache.map
           h == cache.heap
           n == Len(s)
           lru == s[n]
<1>1. /\ Mapped(m) /\ h \in [Pointers -> LruEntry]
      /\ \A k \in DOMAIN m : h[m[k]].key = k
      /\ Linked(h, s) /\ Range(s) = Occupied(m) /\ n = Size(m)
  BY DEF Well, Ordered
<1> HIDE DEF m, h
<1>2. s \in Seq(Addresses) /\ IsInjective(s)
  BY <1>1 DEF Linked
<1>3. n \in Nat \ {0} /\ DOMAIN s = 1 .. n /\ n \in DOMAIN s
  BY <1>1, <1>2, NodePlaces DEF m
<1>4. h[Sigil].prev = lru /\ lru \in Pointers /\ Sigil \in Pointers /\ lru # Sigil
  <2>1. Node(s, n + 1) = Sigil /\ Node(s, n) = lru /\ lru \in Addresses
    BY <1>2, <1>3, NodePlaces
  <2>2. h[Node(s, n + 1)].prev = Node(s, n + 1 - 1)
    BY <1>1, <1>3, LinkedSteps
  <2> QED BY <1>3, <2>1, <2>2, LruAssumption DEF Pointers
<1>5. PICK k \in DOMAIN m : m[k] = lru
  BY <1>1, <1>3 DEF Occupied, Range
<1> DEFINE r == RemoveKey(m, k)
           d == Detach(h, lru)
           c == Cut(s, n)
<1>6. RemoveLru(cache) = [map |-> r, heap |-> d]
  BY <1>1, <1>3, <1>4, <1>5 DEF RemoveLru, m, h
<1>7. Occupied(r) = Occupied(m) \ {lru} /\ Size(r) = n - 1
  <2>1. Mapped(m) /\ k \in DOMAIN m
    BY <1>1, <1>5
  <2>2. Occupied(r) = Occupied(m) \ {m[k]} /\ Size(r) = Size(m) - 1
    BY <2>1, RemoveKeyEffect
  <2> HIDE DEF r, n
  <2> QED BY <1>1, <1>5, <2>2
<1>8. Linked(d, c)
  BY <1>1, <1>3, DetachLinked
<1>9. Range(c) = Range(s) \ {lru} /\ Len(c) = n - 1
  BY <1>2, <1>3, CutItems, CutRange
<1>10. SameData(d, h)
  <2>1. h[lru].prev # lru
    <3>1. h[Node(s, n)].prev = Node(s, n - 1) /\ Node(s, n) = lru
      BY <1>1, <1>2, <1>3, LinkedSteps, NodePlaces
    <3>2. Node(s, n - 1) # Node(s, n)
      BY <1>2, <1>3, NodePlaces
    <3> QED BY <3>1, <3>2
  <2> QED BY <1>1, <1>4, <2>1, DetachEffect
<1>11. RemoveLru(cache).map = r /\ RemoveLru(cache).heap = d
  BY <1>6
<1> HIDE DEF r, d, c, lru, n
<1>12. Ordered(RemoveLru(cache), c)
  BY <1>1, <1>7, <1>8, <1>9, <1>11 DEF Ordered
<1> QED BY <1>10, <1>11, <1>12 DEF h, c, n

Evictions(cache, g, n) ==
  g = [i \in 0 .. n |-> IF i = 0 THEN cache ELSE RemoveLru(g[i - 1])]

\* What k evictions leave: the first entries of the list, as they were.
Evicted(cache, s, left, k) ==
  /\ Well(left)
  /\ Size(left.map) = Size(cache.map) - k
  /\ Ordered(left, SubSeq(s, 1, Len(s) - k))
  /\ SameData(left.heap, cache.heap)

LEMMA EvictNone ==
  ASSUME NEW cache, Well(cache), NEW s, Ordered(cache, s)
  PROVE  Evicted(cache, s, cache, 0)
<1>1. Len(s) \in Nat /\ Size(cache.map) \in Nat /\ s \in Seq(Addresses)
  BY SizeType DEF Well, Ordered, Linked
<1>2. SubSeq(s, 1, Len(s) - 0) = s
  BY <1>1, SubSeqFull
<1>3. SameData(cache.heap, cache.heap)
  BY DEF SameData
<1>4. Size(cache.map) - 0 = Size(cache.map)
  BY <1>1
<1>5. Ordered(cache, SubSeq(s, 1, Len(s) - 0))
  BY <1>2
<1> QED BY <1>3, <1>4, <1>5 DEF Evicted

LEMMA EvictOne ==
  ASSUME NEW cache, NEW s \in Seq(Addresses), Ordered(cache, s),
         NEW left, NEW k \in 1 .. Len(s), Evicted(cache, s, left, k - 1)
  PROVE  Evicted(cache, s, RemoveLru(left), k)
<1> DEFINE n == Len(s)
           before == SubSeq(s, 1, n - (k - 1))
           after == SubSeq(s, 1, n - k)
           r == RemoveLru(left)
<1>1. /\ n \in Nat /\ Size(cache.map) = n /\ k \in 1 .. n
      /\ n - k \in 0 .. n /\ n - (k - 1) \in 1 .. n
  BY DEF Ordered
<1>2. /\ Well(left) /\ Size(left.map) = n - (k - 1) /\ Ordered(left, before)
      /\ SameData(left.heap, cache.heap)
  BY <1>1 DEF Evicted
<1>3. /\ before \in Seq(Addresses) /\ Len(before) = n - (k - 1)
      /\ \A i \in 1 .. n - (k - 1) : before[i] = s[i]
  BY <1>1, Split
<1>4. /\ after \in Seq(Addresses) /\ Len(after) = n - k
      /\ \A i \in 1 .. n - k : after[i] = s[i]
  BY <1>1, Split
<1> HIDE DEF before, after, r
<1>5. Cut(before, Len(before)) = after
  <2> DEFINE l == Len(before)
             c == Cut(before, l)
  <2>1. l = n - (k - 1) /\ l \in DOMAIN before /\ l - 1 = n - k
    BY <1>1, <1>3
  <2>2. /\ c \in Seq(Addresses) /\ Len(c) = l - 1
        /\ \A j \in 1 .. l - 1 : c[j] = IF j < l THEN before[j] ELSE before[j + 1]
    BY <1>3, <2>1, CutItems
  <2> HIDE DEF l, c
  <2>3. Len(c) = n - k /\ \A j \in 1 .. n - k : c[j] = after[j]
    <3>1. Len(c) = n - k
      BY <2>1, <2>2
    <3>2. ASSUME NEW j \in 1 .. n - k PROVE c[j] = after[j]
      <4>1. j \in 1 .. l - 1 /\ j < l /\ j \in 1 .. n - (k - 1)
        BY <1>1, <2>1
      <4>2. c[j] = before[j]
        BY <2>2, <4>1
      <4> QED BY <1>3, <1>4, <4>1, <4>2
    <3> QED BY <3>1, <3>2
  <2>4. c = after
    BY <1>4, <2>2, <2>3, SeqEqual
  <2> QED BY <2>4 DEF c, l
<1>6. Well(r) /\ Size(r.map) = n - k
  BY <1>1, <1>2, RemoveLruEffect DEF r
<1>7. Ordered(r, after) /\ SameData(r.heap, left.heap)
  <2>1. Size(left.map) # 0
    BY <1>1, <1>2
  <2>2. Ordered(r, Cut(before, Len(before))) /\ SameData(r.heap, left.heap)
    BY <1>2, <2>1, RemoveLruOrder DEF r
  <2> QED BY <1>5, <2>2
<1>8. SameData(r.heap, cache.heap)
  BY <1>2, <1>7 DEF SameData
<1> QED BY <1>1, <1>6, <1>7, <1>8 DEF Evicted, after, n, r

\* The caches that the loop of change_capacity goes through, one entry
\* smaller each.
LEMMA EvictionsExist ==
  ASSUME NEW cache, Well(cache), NEW s, Ordered(cache, s), NEW n \in 0 .. Size(cache.map)
  PROVE  \E g : Evictions(cache, g, n) /\ Evicted(cache, s, g[n], n)
<1> DEFINE size == Size(cache.map)
           Runs(k) == \E g : Evictions(cache, g, k) /\ Evicted(cache, s, g[k], k)
           Fails == {k \in 0 .. size : ~ Runs(k)}
<1>1. size \in Nat /\ Len(s) = size /\ s \in Seq(Addresses)
  BY SizeType DEF Well, Ordered, Linked
<1>2. SUFFICES ASSUME Fails # {} PROVE FALSE
  OBVIOUS
<1>3. PICK k \in Fails : \A l \in Fails : k <= l
  <2>1. Fails \in SUBSET Nat
    BY <1>1
  <2> HIDE DEF Fails
  <2> QED BY <1>2, <2>1, Least
<1>4. Runs(0)
  <2> DEFINE g == [i \in 0 .. 0 |-> cache]
  <2>1. g[0] = cache
    OBVIOUS
  <2>2. Evictions(cache, g, 0)
    BY DEF Evictions
  <2> QED BY <2>1, <2>2, EvictNone
<1> HIDE DEF Runs
<1>5. k \in 1 .. size /\ k - 1 \in 0 .. size
  BY <1>1, <1>3, <1>4
<1>6. Runs(k - 1)
  BY <1>1, <1>3, <1>5
<1>7. PICK g : Evictions(cache, g, k - 1) /\ Evicted(cache, s, g[k - 1], k - 1)
  BY <1>6 DEF Runs
<1> DEFINE h == [i \in 0 .. k |-> IF i = k THEN RemoveLru(g[k - 1]) ELSE g[i]]
<1>8. Evicted(cache, s, h[k], k)
  <2>1. h[k] = RemoveLru(g[k - 1])
    BY <1>5
  <2>2. Evicted(cache, s, RemoveLru(g[k - 1]), k)
    BY <1>1, <1>5, <1>7, EvictOne
  <2> QED BY <2>1, <2>2
<1>9. \A i \in 0 .. k : h[i] = IF i = 0 THEN cache ELSE RemoveLru(h[i - 1])
  <2> TAKE i \in 0 .. k
  <2>1. CASE i = k
    BY <1>5, <2>1
  <2>2. CASE i # k
    <3>1. i \in 0 .. k - 1 /\ (i # 0 => i - 1 \in 0 .. k - 1)
      BY <1>5, <2>2
    <3>2. g[i] = IF i = 0 THEN cache ELSE RemoveLru(g[i - 1])
      BY <1>7, <3>1 DEF Evictions
    <3>3. h[i] = g[i] /\ (i # 0 => h[i - 1] = g[i - 1])
      BY <1>5, <2>2, <3>1
    <3> QED BY <3>2, <3>3
  <2> QED BY <2>1, <2>2
<1>10. Evictions(cache, h, k)
  BY <1>9 DEF Evictions
<1> HIDE DEF h
<1> QED BY <1>3, <1>8, <1>10 DEF Runs

\* change_capacity's loop, as the module writes it: those caches are the only
\* ones that its recursive definition allows.
LEMMA RemoveLrusEffect ==
  ASSUME NEW cache, Well(cache), NEW s, Ordered(cache, s), NEW n \in 0 .. Size(cache.map)
  PROVE  Evicted(cache, s, RemoveLrus(cache, n), n)
<1> DEFINE built == CHOOSE g : Evictions(cache, g, n)
<1>1. n \in Nat
  BY SizeType DEF Well
<1>2. PICK g : Evictions(cache, g, n) /\ Evicted(cache, s, g[n], n)
  BY EvictionsExist
<1>3. Evictions(cache, built, n)
  BY <1>2
<1>4. RemoveLrus(cache, n) = built[n]
  BY DEF RemoveLrus, Evictions
<1> HIDE DEF built
<1>5. \A i \in 0 .. n : built[i] = g[i]
  <2> DEFINE Differ == {i \in 0 .. n : built[i] # g[i]}
  <2>1. SUFFICES ASSUME Differ # {} PROVE FALSE
    OBVIOUS
  <2>2. PICK i \in Differ : \A j \in Differ : i <= j
    <3>1. Differ \in SUBSET Nat
      BY <1>1
    <3> HIDE DEF Differ
    <3> QED BY <2>1, <3>1, Least
  <2>3. /\ built[i] = IF i = 0 THEN cache ELSE RemoveLru(built[i - 1])
        /\ g[i] = IF i = 0 THEN cache ELSE RemoveLru(g[i - 1])
    BY <1>2, <1>3, <2>2 DEF Evictions
  <2>4. i # 0
    BY <2>2, <2>3
  <2>5. i - 1 \in 0 .. n /\ i - 1 \notin Differ
    BY <1>1, <2>2, <2>4
  <2>6. built[i - 1] = g[i - 1]
    BY <2>5
  <2> QED BY <2>2, <2>3, <2>4, <2>6
<1> QED BY <1>1, <1>2, <1>4, <1>5

-----------------------------------------------------------------------------
(* The contents.                                                           *)

Slots == [key : Keys \cup {Garbage}, value : Values \cup {Garbage}]

Pair(k, v) == [key |-> k, value |-> v]

\* What the nodes of a list hold, in its order.
Held(h, a) == Pair(h[a].key, h[a].value)
Content(h, s) == [i \in 1 .. Len(s) |-> Held(h, s[i])]

Others(k) == {pair \in Documented!Pairs : pair.key # k}

LEMMA ContentItems ==
  ASSUME NEW h \in [Pointers -> LruEntry], NEW s \in Seq(Addresses)
  PROVE  /\ Content(h, s) \in Seq(Slots) /\ Len(Content(h, s)) = Len(s)
         /\ Len(s) \in Nat
         /\ \A i \in 1 .. Len(s) : Content(h, s)[i] = Held(h, s[i])
<1> DEFINE n == Len(s)
           c == Content(h, s)
<1>1. n \in Nat /\ \A i \in 1 .. n : s[i] \in Addresses
  OBVIOUS
<1>2. c = [i \in 1 .. n |-> Held(h, s[i])]
  BY DEF Content
<1> HIDE DEF c, n
<1>3. \A i \in 1 .. n : Held(h, s[i]) \in Slots
  BY <1>1 DEF Held, Pair, Slots, LruEntry, Pointers
<1>4. c \in Seq(Slots) /\ Len(c) = n /\ \A i \in 1 .. n : c[i] = Held(h, s[i])
  BY <1>1, <1>2, <1>3
<1> QED BY <1>1, <1>4 DEF c, n

LEMMA ContentSame ==
  ASSUME NEW g, NEW h, NEW s \in Seq(Addresses),
         \A a \in Range(s) : Held(g, a) = Held(h, a)
  PROVE  Content(g, s) = Content(h, s)
<1>1. \A i \in 1 .. Len(s) : s[i] \in Range(s)
  BY DEF Range
<1> QED BY <1>1 DEF Content

LEMMA ContentOfData ==
  ASSUME NEW g, NEW h, SameData(g, h), NEW s \in Seq(Addresses)
  PROVE  Content(g, s) = Content(h, s)
<1>1. \A a \in Range(s) : Held(g, a) = Held(h, a)
  BY DEF Range, Held, SameData, Pointers
<1> QED BY <1>1, ContentSame

LEMMA ContentCut ==
  ASSUME NEW h \in [Pointers -> LruEntry], NEW s \in Seq(Addresses), NEW i \in DOMAIN s
  PROVE  Content(h, Cut(s, i)) = Cut(Content(h, s), i)
<1> DEFINE n == Len(s)
           c == Cut(s, i)
           a == Content(h, s)
           b == Content(h, c)
           d == Cut(a, i)
<1>1. n \in Nat /\ i \in 1 .. n
  OBVIOUS
<1>2. /\ c \in Seq(Addresses) /\ Len(c) = n - 1
      /\ \A j \in 1 .. n - 1 : c[j] = IF j < i THEN s[j] ELSE s[j + 1]
  BY CutItems
<1>3. a \in Seq(Slots) /\ Len(a) = n /\ \A j \in 1 .. n : a[j] = Held(h, s[j])
  BY ContentItems
<1> HIDE DEF n, c, a
<1>4. b \in Seq(Slots) /\ Len(b) = n - 1 /\ \A j \in 1 .. n - 1 : b[j] = Held(h, c[j])
  <2>1. /\ b \in Seq(Slots) /\ Len(b) = Len(c)
        /\ \A j \in 1 .. Len(c) : b[j] = Held(h, c[j])
    BY <1>2, ContentItems
  <2> QED BY <1>2, <2>1
<1>5. /\ d \in Seq(Slots) /\ Len(d) = n - 1
      /\ \A j \in 1 .. n - 1 : d[j] = IF j < i THEN a[j] ELSE a[j + 1]
  <2>1. i \in DOMAIN a
    BY <1>1, <1>3
  <2>2. /\ d \in Seq(Slots) /\ Len(d) = Len(a) - 1
        /\ \A j \in 1 .. Len(a) - 1 : d[j] = IF j < i THEN a[j] ELSE a[j + 1]
    BY <1>3, <2>1, CutItems
  <2> HIDE DEF d
  <2> QED BY <1>3, <2>2
<1> HIDE DEF b, d
<1>6. \A j \in 1 .. n - 1 : b[j] = d[j]
  <2> TAKE j \in 1 .. n - 1
  <2>1. j \in 1 .. n /\ j + 1 \in 1 .. n
    BY <1>1
  <2>2. CASE j < i
    BY <1>2, <1>3, <1>4, <1>5, <2>1, <2>2
  <2>3. CASE ~ (j < i)
    BY <1>2, <1>3, <1>4, <1>5, <2>1, <2>3
  <2> QED BY <2>2, <2>3
<1>7. b = d
  BY <1>4, <1>5, <1>6, SeqEqual
<1> QED BY <1>7 DEF b, d, a, c

LEMMA ContentAhead ==
  ASSUME NEW h \in [Pointers -> LruEntry], NEW s \in Seq(Addresses), NEW node \in Addresses
  PROVE  Content(h, Ahead(node, s)) = Ahead(Held(h, node), Content(h, s))
<1> DEFINE n == Len(s)
           u == Ahead(node, s)
           x == Held(h, node)
           a == Content(h, s)
           b == Content(h, u)
           d == Ahead(x, a)
<1>1. n \in Nat /\ x \in Slots
  BY DEF Held, Pair, Slots, LruEntry, Pointers
<1>2. /\ u \in Seq(Addresses) /\ Len(u) = n + 1 /\ u[1] = node
      /\ \A j \in 1 .. n : u[j + 1] = s[j]
  BY AheadItems
<1>3. a \in Seq(Slots) /\ Len(a) = n /\ \A j \in 1 .. n : a[j] = Held(h, s[j])
  BY ContentItems
<1> HIDE DEF n, u, a
<1>4. b \in Seq(Slots) /\ Len(b) = n + 1 /\ \A j \in 1 .. n + 1 : b[j] = Held(h, u[j])
  <2>1. /\ b \in Seq(Slots) /\ Len(b) = Len(u)
        /\ \A j \in 1 .. Len(u) : b[j] = Held(h, u[j])
    BY <1>2, ContentItems
  <2> QED BY <1>2, <2>1
<1>5. /\ d \in Seq(Slots) /\ Len(d) = n + 1 /\ d[1] = x
      /\ \A j \in 1 .. n : d[j + 1] = a[j]
  <2> HIDE DEF x
  <2>1. /\ d \in Seq(Slots) /\ Len(d) = Len(a) + 1 /\ d[1] = x
        /\ \A j \in 1 .. Len(a) : d[j + 1] = a[j]
    <3>1. a \in Seq(Slots) /\ x \in Slots
      BY <1>1, <1>3
    <3> QED BY <3>1, AheadItems
  <2> HIDE DEF d
  <2> QED BY <1>3, <2>1
<1> HIDE DEF b, d
<1>6. \A j \in 1 .. n + 1 : b[j] = d[j]
  <2> TAKE j \in 1 .. n + 1
  <2>1. CASE j = 1
    BY <1>1, <1>2, <1>4, <1>5, <2>1
  <2>2. CASE j # 1
    <3>1. j - 1 \in 1 .. n /\ j - 1 + 1 = j
      BY <1>1, <2>2
    <3>2. u[j - 1 + 1] = s[j - 1] /\ d[j - 1 + 1] = a[j - 1]
      BY <1>2, <1>5, <3>1
    <3> QED BY <1>3, <1>4, <3>1, <3>2
  <2> QED BY <2>1, <2>2
<1>7. b = d
  BY <1>4, <1>5, <1>6, SeqEqual
<1> QED BY <1>7 DEF b, d, a, u, x

LEMMA ContentFirst ==
  ASSUME NEW h \in [Pointers -> LruEntry], NEW s \in Seq(Addresses), NEW n \in 0 .. Len(s)
  PROVE  Content(h, SubSeq(s, 1, n)) = SubSeq(Content(h, s), 1, n)
<1> DEFINE u == SubSeq(s, 1, n)
           a == Content(h, s)
           b == Content(h, u)
           d == SubSeq(a, 1, n)
<1>1. Len(s) \in Nat /\ n \in Nat /\ n <= Len(s)
  OBVIOUS
<1>2. u \in Seq(Addresses) /\ Len(u) = n /\ \A j \in 1 .. n : u[j] = s[j]
  BY Split
<1>3. a \in Seq(Slots) /\ Len(a) = Len(s) /\ \A j \in 1 .. Len(s) : a[j] = Held(h, s[j])
  BY ContentItems
<1> HIDE DEF u, a
<1>4. b \in Seq(Slots) /\ Len(b) = n /\ \A j \in 1 .. n : b[j] = Held(h, u[j])
  BY <1>2, ContentItems
<1>5. d \in Seq(Slots) /\ Len(d) = n /\ \A j \in 1 .. n : d[j] = a[j]
  <2>1. n \in 0 .. Len(a)
    BY <1>3
  <2> QED BY <1>3, <2>1, Split
<1> HIDE DEF b, d
<1>6. \A j \in 1 .. n : b[j] = d[j]
  <2> TAKE j \in 1 .. n
  <2>1. j \in 1 .. Len(s)
    BY <1>1
  <2>2. a[j] = Held(h, s[j]) /\ u[j] = s[j]
    BY <1>2, <1>3, <2>1
  <2> QED BY <1>4, <1>5, <2>2
<1>7. b = d
  BY <1>4, <1>5, <1>6, SeqEqual
<1> QED BY <1>7 DEF b, d, a, u

\* The list holds the pairs of the map, each at one place.
LEMMA ContentPairs ==
  ASSUME NEW cache, Well(cache), NEW s, Ordered(cache, s)
  PROVE  /\ s \in Seq(Addresses) /\ IsInjective(s)
         /\ cache.heap \in [Pointers -> LruEntry]
         /\ \A i \in DOMAIN s :
              /\ Held(cache.heap, s[i]) \in Documented!Pairs
              /\ \E k \in DOMAIN cache.map :
                   cache.map[k] = s[i] /\ Held(cache.heap, s[i]).key = k
         /\ \A k \in DOMAIN cache.map : \E i \in DOMAIN s : s[i] = cache.map[k]
<1> DEFINE m == cache.map
           h == cache.heap
<1>1. /\ Mapped(m) /\ h \in [Pointers -> LruEntry]
      /\ \A k \in DOMAIN m : h[m[k]].key = k /\ h[m[k]].value \in Values
      /\ s \in Seq(Addresses) /\ IsInjective(s) /\ Range(s) = Occupied(m)
  BY DEF Well, Ordered, Linked
<1> HIDE DEF m, h
<1>2. ASSUME NEW i \in DOMAIN s
      PROVE  /\ Held(h, s[i]) \in Documented!Pairs
             /\ \E k \in DOMAIN m : m[k] = s[i] /\ Held(h, s[i]).key = k
  <2>1. s[i] \in Occupied(m)
    BY <1>1 DEF Range
  <2>2. PICK k \in DOMAIN m : m[k] = s[i]
    BY <2>1 DEF Occupied
  <2>3. h[s[i]].key = k /\ k \in Keys /\ h[s[i]].value \in Values
    BY <1>1, <2>2 DEF Mapped
  <2> QED BY <2>2, <2>3 DEF Held, Pair, Documented!Pairs
<1>3. \A k \in DOMAIN m : \E i \in DOMAIN s : s[i] = m[k]
  BY <1>1 DEF Occupied, Range
<1> QED BY <1>1, <1>2, <1>3 DEF m, h

\* All pairs but that of a key in the map, or not in it.
LEMMA ContentOthers ==
  ASSUME NEW cache, Well(cache), NEW s, Ordered(cache, s), NEW k
  PROVE  /\ \A i \in DOMAIN s :
              k \in DOMAIN cache.map /\ s[i] = cache.map[k] =>
                Only(Content(cache.heap, s), Others(k)) = Content(cache.heap, Cut(s, i))
         /\ k \notin DOMAIN cache.map =>
              Only(Content(cache.heap, s), Others(k)) = Content(cache.heap, s)
<1> DEFINE m == cache.map
           h == cache.heap
           c == Content(h, s)
<1>1. /\ s \in Seq(Addresses) /\ IsInjective(s) /\ h \in [Pointers -> LruEntry]
      /\ \A i \in DOMAIN s :
           /\ Held(h, s[i]) \in Documented!Pairs
           /\ \E j \in DOMAIN m : m[j] = s[i] /\ Held(h, s[i]).key = j
  BY ContentPairs
<1>2. \A i, j \in DOMAIN m : m[i] = m[j] => i = j
  BY DEF Well, Mapped
<1> HIDE DEF m, h
<1>3. c \in Seq(Slots) /\ Len(c) = Len(s) /\ \A i \in 1 .. Len(s) : c[i] = Held(h, s[i])
  BY <1>1, ContentItems
<1> HIDE DEF c
<1>4. DOMAIN c = DOMAIN s /\ \A i \in DOMAIN s : c[i] = Held(h, s[i])
  BY <1>1, <1>3
<1>5. ASSUME NEW i \in DOMAIN s, k \in DOMAIN m, s[i] = m[k]
      PROVE  Only(c, Others(k)) = Content(h, Cut(s, i))
  <2>1. ASSUME NEW j \in DOMAIN c PROVE c[j] \in Others(k) <=> j # i
    <3>1. PICK l \in DOMAIN m : m[l] = s[j] /\ c[j].key = l
      BY <1>1, <1>4
    <3>2. c[j] \in Others(k) <=> l # k
      BY <1>1, <1>4, <3>1 DEF Others
    <3>3. l = k <=> s[j] = s[i]
      BY <1>2, <1>5, <3>1
    <3>4. s[j] = s[i] <=> j = i
      BY <1>1, <1>4 DEF IsInjective
    <3> QED BY <3>2, <3>3, <3>4
  <2>2. i \in DOMAIN c
    BY <1>4
  <2>3. Only(c, Others(k)) = Cut(c, i)
    BY <1>3, <2>1, <2>2, OnlyCut
  <2> QED BY <1>1, <2>3, ContentCut DEF c
<1>6. ASSUME k \notin DOMAIN m
      PROVE  Only(c, Others(k)) = c
  <2>1. \A j \in DOMAIN c : c[j] \in Others(k)
    BY <1>1, <1>4, <1>6 DEF Others
  <2> QED BY <1>3, <2>1, OnlyAll
<1> QED BY <1>5, <1>6 DEF c, m, h

\* Evicting shortens the contents.
LEMMA EvictedContent ==
  ASSUME NEW cache, Well(cache), NEW s, Ordered(cache, s), NEW left,
         NEW k \in 0 .. Len(s), Evicted(cache, s, left, k)
  PROVE  /\ Ordered(left, SubSeq(s, 1, Len(s) - k))
         /\ Content(left.heap, SubSeq(s, 1, Len(s) - k)) =
              SubSeq(Content(cache.heap, s), 1, Len(s) - k)
<1> DEFINE u == SubSeq(s, 1, Len(s) - k)
<1>1. s \in Seq(Addresses) /\ cache.heap \in [Pointers -> LruEntry]
  BY DEF Well, Ordered, Linked
<1>2. Len(s) - k \in 0 .. Len(s)
  BY <1>1
<1>3. Ordered(left, u) /\ SameData(left.heap, cache.heap)
  BY DEF Evicted
<1>4. u \in Seq(Addresses)
  BY <1>3 DEF Ordered, Linked
<1> HIDE DEF u
<1>5. Content(left.heap, u) = Content(cache.heap, u)
  BY <1>3, <1>4, ContentOfData
<1>6. Content(cache.heap, u) = SubSeq(Content(cache.heap, s), 1, Len(s) - k)
  BY <1>1, <1>2, ContentFirst DEF u
<1> QED BY <1>3, <1>5, <1>6 DEF u

-----------------------------------------------------------------------------
(* The operations keep the cache well formed.                              *)

\* get and put of a key that is there: its node goes to the head of the ring.
LEMMA TouchEffect ==
  ASSUME NEW m, NEW h, Well([map |-> m, heap |-> h]), NEW k \in DOMAIN m
  PROVE  Well([map |-> m, heap |-> Attach(Detach(h, m[k]), m[k])])
<1> DEFINE node == m[k]
           linked == Occupied(m) \cup {Sigil}
           d == Detach(h, node)
           t == Attach(d, node)
<1>1. /\ Mapped(m) /\ h \in [Pointers -> LruEntry] /\ Ring(h, linked)
      /\ \A j \in DOMAIN m : h[m[j]].key = j /\ h[m[j]].value \in Values
  BY DEF Well
<1>2. /\ node \in linked /\ linked \in SUBSET Pointers /\ Sigil \in linked
      /\ node # Sigil /\ \A j \in DOMAIN m : m[j] \in Pointers
  BY <1>1, LruAssumption DEF Mapped, Occupied, Pointers
<1> HIDE DEF node, linked, d, t
<1>3. d \in [Pointers -> LruEntry] /\ SameData(d, h) /\ Ring(d, linked \ {node})
  <2>1. linked # {node} /\ Ring(h, linked)
    BY <1>1, <1>2 DEF linked
  <2>2. /\ SameData(Detach(h, node), h) /\ Ring(Detach(h, node), linked \ {node})
        /\ Detach(h, node) \in [Pointers -> LruEntry]
    BY <1>1, <1>2, <2>1, DetachRing
  <2> QED BY <2>2 DEF d
<1>4. t \in [Pointers -> LruEntry] /\ SameData(t, d) /\ Ring(t, (linked \ {node}) \cup {node})
  <2>1. /\ Sigil \in linked \ {node} /\ linked \ {node} \in SUBSET Pointers
        /\ node \in Pointers \ (linked \ {node})
    BY <1>2
  <2> QED BY <1>3, <2>1, AttachRing DEF t
<1>5. (linked \ {node}) \cup {node} = linked
  BY <1>2
<1>6. \A j \in DOMAIN m : t[m[j]].key = j /\ t[m[j]].value \in Values
  BY <1>1, <1>2, <1>3, <1>4 DEF SameData
<1>7. Well([map |-> m, heap |-> t])
  BY <1>1, <1>4, <1>5, <1>6 DEF Well, linked
<1> QED BY <1>7 DEF t, d, node

\* Where a touched node goes in the list, with what it holds.
LEMMA TouchOrder ==
  ASSUME NEW m, NEW h, Well([map |-> m, heap |-> h]),
         NEW s, Ordered([map |-> m, heap |-> h], s),
         NEW k \in DOMAIN m, NEW i \in DOMAIN s, s[i] = m[k]
  PROVE  LET t == Attach(Detach(h, m[k]), m[k])
         IN  /\ Ordered([map |-> m, heap |-> t], Ahead(m[k], Cut(s, i)))
             /\ Content(t, Ahead(m[k], Cut(s, i))) =
                  Ahead(Held(h, m[k]), Content(h, Cut(s, i)))
<1> DEFINE node == m[k]
           d == Detach(h, node)
           t == Attach(d, node)
           c == Cut(s, i)
           u == Ahead(node, c)
<1>1. /\ h \in [Pointers -> LruEntry] /\ Linked(h, s)
      /\ Range(s) = Occupied(m) /\ Len(s) = Size(m)
  BY DEF Well, Ordered
<1>2. s \in Seq(Addresses) /\ IsInjective(s) /\ Len(s) \in Nat
  BY <1>1 DEF Linked
<1>3. node \in Addresses /\ node \in Pointers /\ node \in Range(s)
  <2>1. node \in Range(s) /\ s[i] \in Addresses
    BY <1>2 DEF Range
  <2> QED BY <2>1 DEF Pointers
<1>4. /\ c \in Seq(Addresses) /\ Len(c) = Len(s) - 1
      /\ IsInjective(c) /\ Range(c) = Range(s) \ {node}
  BY <1>2, CutItems, CutRange
<1>5. /\ u \in Seq(Addresses) /\ Len(u) = Len(s) /\ Range(u) = Range(s)
  <2> HIDE DEF c, node
  <2>1. u \in Seq(Addresses) /\ Len(u) = Len(c) + 1 /\ Range(u) = Range(c) \cup {node}
    <3>1. c \in Seq(Addresses) /\ node \in Addresses
      BY <1>3, <1>4
    <3>2. u \in Seq(Addresses) /\ Len(u) = Len(c) + 1
      BY <3>1, AheadItems
    <3>3. Range(u) = Range(c) \cup {node}
      BY <3>1, AheadRange
    <3> QED BY <3>2, <3>3
  <2> QED BY <1>2, <1>3, <1>4, <2>1
<1>6. d \in [Pointers -> LruEntry] /\ SameData(d, h) /\ Linked(d, c)
  <2>1. Linked(d, c)
    BY <1>1, DetachLinked
  <2>2. h[node].prev # node
    <3>1. i \in 1 .. Len(s) /\ i \in 1 .. Len(s) + 1 /\ i - 1 \in 0 .. Len(s) + 1
          /\ i \in 0 .. Len(s) + 1 /\ i - 1 # i /\ i \notin {0, Len(s) + 1}
      BY <1>2
    <3>2. Node(s, i) = node
      BY <1>2, NodePlaces
    <3>3. h[Node(s, i)].prev = Node(s, i - 1)
      BY <1>1, <3>1, LinkedSteps
    <3>4. Node(s, i - 1) # Node(s, i)
      BY <1>2, <3>1, NodePlaces
    <3> QED BY <3>2, <3>3, <3>4
  <2> QED BY <1>1, <1>3, <2>1, <2>2, DetachEffect
<1> HIDE DEF c, d, node
<1>7. Linked(t, u)
  BY <1>3, <1>4, <1>6, AttachLinked
<1>8. t \in [Pointers -> LruEntry] /\ SameData(t, d)
  <2>1. node \in Pointers \ {Sigil}
    BY <1>3, LruAssumption
  <2>2. d[Sigil].next # node
    <3>1. d[Node(c, 0)].next = Node(c, 1) /\ Node(c, 0) = Sigil
      BY <1>2, <1>4, <1>6, LinkedSteps, NodePlaces
    <3>2. Node(c, 1) # node
      BY <1>3, <1>4, LruAssumption DEF Node, Range
    <3> QED BY <3>1, <3>2
  <2> QED BY <1>6, <2>1, <2>2, AttachEffect
<1> HIDE DEF t
<1>9. SameData(t, h)
  BY <1>6, <1>8 DEF SameData
<1>10. Ordered([map |-> m, heap |-> t], u)
  BY <1>1, <1>5, <1>7 DEF Ordered
<1>11. Content(t, u) = Ahead(Held(h, node), Content(h, c))
  <2>1. Content(t, u) = Content(h, u)
    BY <1>5, <1>9, ContentOfData
  <2>2. Content(h, u) = Ahead(Held(h, node), Content(h, c))
    BY <1>1, <1>3, <1>4, ContentAhead
  <2> QED BY <2>1, <2>2
<1> QED BY <1>10, <1>11 DEF t, d, u, c, node

\* What writing a value into an entry leaves alone.
LEMMA UpdateEffect ==
  ASSUME Well(Now), NEW k \in DOMAIN map, NEW v \in Values,
         NEW updated, updated = [heap EXCEPT ![map[k]].value = v]
  PROVE  /\ Well([map |-> map, heap |-> updated])
         /\ SameLinks(updated, heap)
         /\ Held(updated, map[k]) = Pair(k, v)
         /\ \A a \in Pointers \ {map[k]} : Held(updated, a) = Held(heap, a)
<1>1. /\ Mapped(map) /\ heap \in [Pointers -> LruEntry]
      /\ Ring(heap, Occupied(map) \cup {Sigil})
      /\ \A j \in DOMAIN map : heap[map[j]].key = j /\ heap[map[j]].value \in Values
  BY DEF Well, Now
<1>2. Occupied(map) \cup {Sigil} \in SUBSET Pointers /\ \A j \in DOMAIN map : map[j] \in Pointers
  BY <1>1 DEF Mapped, Occupied, Pointers
<1>3. /\ updated \in [Pointers -> LruEntry]
      /\ SameLinks(updated, heap)
      /\ \A a \in Pointers :
           /\ updated[a].key = heap[a].key
           /\ updated[a].value = IF a = map[k] THEN v ELSE heap[a].value
  BY <1>1, <1>2 DEF LruEntry, SameLinks
<1>4. Ring(updated, Occupied(map) \cup {Sigil})
  BY <1>1, <1>2, <1>3, RingOfLinks
<1>5. \A j \in DOMAIN map : updated[map[j]].key = j /\ updated[map[j]].value \in Values
  BY <1>1, <1>2, <1>3
<1>6. Well([map |-> map, heap |-> updated])
  BY <1>1, <1>3, <1>4, <1>5 DEF Well
<1>7. Held(updated, map[k]) = Pair(k, v)
  BY <1>1, <1>2, <1>3 DEF Held
<1>8. \A a \in Pointers \ {map[k]} : Held(updated, a) = Held(heap, a)
  BY <1>3 DEF Held
<1> QED BY <1>3, <1>6, <1>7, <1>8

LEMMA PutExistingWell ==
  ASSUME Well(Now), NEW k \in Keys, NEW v \in Values, PutExisting(k, v)
  PROVE  Well(Now')
<1> DEFINE updated == [heap EXCEPT ![map[k]].value = v]
<1>1. k \in DOMAIN map /\ map' = map
  BY DEF PutExisting
<1>2. heap' = Attach(Detach(updated, map[k]), map[k])
  BY DEF PutExisting
<1>3. Well([map |-> map, heap |-> updated])
  BY <1>1, UpdateEffect
<1> HIDE DEF updated
<1>4. Well([map |-> map, heap |-> Attach(Detach(updated, map[k]), map[k])])
  BY <1>1, <1>3, TouchEffect
<1> QED BY <1>1, <1>2, <1>4 DEF Now

\* The contents after a call, given those before.
LEMMA PutExistingOrder ==
  ASSUME Well(Now), NEW s, Ordered(Now, s),
         NEW k \in Keys, NEW v \in Values, PutExisting(k, v)
  PROVE  \E u : /\ Ordered(Now', u)
                /\ Content(heap', u) = Ahead(Pair(k, v), Only(Content(heap, s), Others(k)))
<1> DEFINE updated == [heap EXCEPT ![map[k]].value = v]
           t == Attach(Detach(updated, map[k]), map[k])
<1>1. k \in DOMAIN map /\ map' = map /\ heap' = t
  BY DEF PutExisting
<1>2. /\ Well([map |-> map, heap |-> updated]) /\ SameLinks(updated, heap)
      /\ Held(updated, map[k]) = Pair(k, v)
      /\ \A a \in Pointers \ {map[k]} : Held(updated, a) = Held(heap, a)
  BY <1>1, UpdateEffect
<1> HIDE DEF updated
<1>3. Now.map = map /\ Now.heap = heap /\ s \in Seq(Addresses) /\ IsInjective(s)
  BY DEF Now, Ordered, Linked
<1>4. Ordered([map |-> map, heap |-> updated], s)
  BY <1>2, <1>3, LinkedByLinks DEF Ordered
<1>5. PICK i \in DOMAIN s : s[i] = map[k]
  BY <1>1, <1>3, ContentPairs
<1> DEFINE c == Cut(s, i)
           u == Ahead(map[k], c)
<1>6. /\ Ordered([map |-> map, heap |-> t], u)
      /\ Content(t, u) = Ahead(Held(updated, map[k]), Content(updated, c))
  BY <1>1, <1>2, <1>4, <1>5, TouchOrder
<1>7. Content(updated, c) = Content(heap, c)
  <2>1. c \in Seq(Addresses) /\ Range(c) = Range(s) \ {map[k]}
    BY <1>3, <1>5, CutItems, CutRange
  <2>2. Range(s) \subseteq Pointers
    BY <1>3 DEF Range, Pointers
  <2> HIDE DEF c
  <2>3. \A a \in Range(c) : Held(updated, a) = Held(heap, a)
    BY <1>2, <2>1, <2>2
  <2> QED BY <2>1, <2>3, ContentSame
<1>8. Only(Content(heap, s), Others(k)) = Content(heap, c)
  <2>1. k \in DOMAIN Now.map /\ s[i] = Now.map[k]
    BY <1>1, <1>3, <1>5
  <2> QED BY <1>3, <2>1, ContentOthers
<1>9. Now' = [map |-> map, heap |-> t]
  BY <1>1 DEF Now
<1> HIDE DEF c, u, t
<1> QED BY <1>1, <1>2, <1>6, <1>7, <1>8, <1>9

LEMMA GetOrder ==
  ASSUME Well(Now), NEW s, Ordered(Now, s), NEW k \in Keys, Get(k)
  PROVE  \E u, i : /\ Ordered(Now', u)
                   /\ i \in DOMAIN s /\ Held(heap, s[i]).key = k
                   /\ Content(heap', u) =
                        Ahead(Held(heap, s[i]), Only(Content(heap, s), Others(k)))
<1> DEFINE t == Attach(Detach(heap, map[k]), map[k])
<1>1. k \in DOMAIN map /\ map' = map /\ heap' = t
  BY DEF Get
<1>2. /\ Now.map = map /\ Now.heap = heap /\ Now = [map |-> map, heap |-> heap]
      /\ heap[map[k]].key = k
  BY <1>1 DEF Now, Well
<1>3. PICK i \in DOMAIN s : s[i] = map[k]
  BY <1>1, <1>2, ContentPairs
<1> DEFINE u == Ahead(map[k], Cut(s, i))
<1>4. /\ Ordered([map |-> map, heap |-> t], u)
      /\ Content(t, u) = Ahead(Held(heap, map[k]), Content(heap, Cut(s, i)))
  BY <1>1, <1>2, <1>3, TouchOrder
<1>5. Only(Content(heap, s), Others(k)) = Content(heap, Cut(s, i))
  <2>1. k \in DOMAIN Now.map /\ s[i] = Now.map[k]
    BY <1>1, <1>2, <1>3
  <2> QED BY <1>2, <2>1, ContentOthers
<1>6. Held(heap, s[i]).key = k
  BY <1>2, <1>3 DEF Held, Pair
<1>7. Now' = [map |-> map, heap |-> t]
  BY <1>1 DEF Now
<1> HIDE DEF u, t
<1> QED BY <1>1, <1>3, <1>4, <1>5, <1>6, <1>7

\* A new entry, at an address no other occupies, before anything is evicted.
LEMMA AddEffect ==
  ASSUME Well(Now), NEW k \in Keys \ DOMAIN map, NEW v \in Values,
         NEW node \in Addresses \ Range(map),
         NEW added,
         added = [map  |-> [x \in DOMAIN map \cup {k} |->
                              IF x = k THEN node ELSE map[x]],
                  heap |-> Attach([heap EXCEPT ![node].key = k, ![node].value = v], node)]
  PROVE  Well(added) /\ Size(added.map) = Size(map) + 1
<1> DEFINE linked == Occupied(map) \cup {Sigil}
           written == [heap EXCEPT ![node].key = k, ![node].value = v]
           m == [x \in DOMAIN map \cup {k} |-> IF x = k THEN node ELSE map[x]]
           t == Attach(written, node)
<1>1. /\ Mapped(map) /\ heap \in [Pointers -> LruEntry] /\ Ring(heap, linked)
      /\ \A j \in DOMAIN map : heap[map[j]].key = j /\ heap[map[j]].value \in Values
  BY DEF Well, Now
<1>2. /\ linked \in SUBSET Pointers /\ Sigil \in linked
      /\ node \in Pointers \ linked /\ \A j \in DOMAIN map : map[j] \in Pointers \ {node}
  BY <1>1, LruAssumption DEF Mapped, Occupied, Pointers, Range
<1>3. added.map = m /\ added.heap = t
  OBVIOUS
<1>4. /\ DOMAIN m = DOMAIN map \cup {k} /\ m[k] = node
      /\ \A j \in DOMAIN map : m[j] = map[j]
  OBVIOUS
<1>5. IsFiniteSet(DOMAIN m) /\ Size(m) = Size(map) + 1
  BY <1>1, <1>4, FS_AddElement DEF Mapped, Size
<1>6. Mapped(m)
  <2>1. m \in [DOMAIN m -> Addresses]
    BY <1>1, <1>4 DEF Mapped
  <2>2. \A i, j \in DOMAIN m : m[i] = m[j] => i = j
    BY <1>1, <1>2, <1>4 DEF Mapped
  <2>3. DOMAIN m \subseteq Keys
    BY <1>1, <1>4 DEF Mapped
  <2> HIDE DEF m
  <2> QED BY <1>5, <2>1, <2>2, <2>3 DEF Mapped
<1>7. Occupied(m) \cup {Sigil} = linked \cup {node}
  <2> HIDE DEF m
  <2> QED BY <1>4 DEF Occupied
<1>8. /\ written \in [Pointers -> LruEntry] /\ SameLinks(written, heap)
      /\ written[node].key = k /\ written[node].value = v
      /\ \A a \in Pointers \ {node} :
           written[a].key = heap[a].key /\ written[a].value = heap[a].value
  BY <1>1, <1>2 DEF LruEntry, SameLinks
<1> HIDE DEF m, t, written, linked
<1>9. Ring(written, linked)
  BY <1>1, <1>2, <1>8, RingOfLinks
<1>10. t \in [Pointers -> LruEntry] /\ SameData(t, written) /\ Ring(t, linked \cup {node})
  BY <1>2, <1>8, <1>9, AttachRing DEF t
<1>11. \A j \in DOMAIN m : t[m[j]].key = j /\ t[m[j]].value \in Values
  BY <1>1, <1>2, <1>4, <1>8, <1>10 DEF SameData
<1> QED BY <1>3, <1>5, <1>6, <1>7, <1>10, <1>11 DEF Well

LEMMA AddOrder ==
  ASSUME Well(Now), NEW s, Ordered(Now, s),
         NEW k \in Keys \ DOMAIN map, NEW v \in Values,
         NEW node \in Addresses \ Range(map),
         NEW added,
         added = [map  |-> [x \in DOMAIN map \cup {k} |->
                              IF x = k THEN node ELSE map[x]],
                  heap |-> Attach([heap EXCEPT ![node].key = k, ![node].value = v], node)]
  PROVE  /\ Ordered(added, Ahead(node, s))
         /\ Content(added.heap, Ahead(node, s)) = Ahead(Pair(k, v), Content(heap, s))
<1> DEFINE written == [heap EXCEPT ![node].key = k, ![node].value = v]
           m == [x \in DOMAIN map \cup {k} |-> IF x = k THEN node ELSE map[x]]
           t == Attach(written, node)
           u == Ahead(node, s)
<1>1. /\ heap \in [Pointers -> LruEntry] /\ Linked(heap, s)
      /\ Range(s) = Occupied(map) /\ Len(s) = Size(map)
  BY DEF Well, Ordered, Now
<1>2. s \in Seq(Addresses) /\ node \in Pointers /\ node \notin Range(s)
  BY <1>1 DEF Linked, Occupied, Range, Pointers
<1>3. /\ written \in [Pointers -> LruEntry] /\ SameLinks(written, heap)
      /\ Held(written, node) = Pair(k, v)
      /\ \A a \in Pointers \ {node} : Held(written, a) = Held(heap, a)
  BY <1>1, <1>2 DEF LruEntry, SameLinks, Held, Pair
<1>4. added.map = m /\ added.heap = t
  OBVIOUS
<1>5. Size(added.map) = Size(map) + 1
  BY AddEffect
<1>6. Occupied(m) = Occupied(map) \cup {node}
  <2>1. /\ DOMAIN m = DOMAIN map \cup {k} /\ m[k] = node
        /\ \A j \in DOMAIN map : m[j] = map[j]
    OBVIOUS
  <2> HIDE DEF m
  <2> QED BY <2>1 DEF Occupied
<1> HIDE DEF written, m
<1>7. Linked(written, s)
  BY <1>1, <1>3, LinkedByLinks
<1>8. Linked(t, u)
  BY <1>2, <1>3, <1>7, AttachLinked
<1>9. u \in Seq(Addresses) /\ Len(u) = Len(s) + 1 /\ Range(u) = Range(s) \cup {node}
  <2>1. u \in Seq(Addresses) /\ Len(u) = Len(s) + 1
    BY <1>2, AheadItems
  <2>2. Range(u) = Range(s) \cup {node}
    BY <1>2, AheadRange
  <2> QED BY <2>1, <2>2
<1>10. SameData(t, written)
  <2>1. node \in Pointers \ {Sigil}
    BY <1>2, LruAssumption
  <2>2. written[Sigil].next # node
    <3>1. written[Node(s, 0)].next = Node(s, 1) /\ Node(s, 0) = Sigil
      BY <1>2, <1>7, LinkedSteps, NodePlaces DEF Linked
    <3>2. Node(s, 1) # node
      BY <1>2, LruAssumption DEF Node, Range
    <3> QED BY <3>1, <3>2
  <2> QED BY <1>3, <2>1, <2>2, AttachEffect
<1> HIDE DEF t, u
<1>11. Content(t, u) = Content(written, u)
  BY <1>9, <1>10, ContentOfData
<1>12. Content(written, u) = Ahead(Pair(k, v), Content(written, s))
  BY <1>2, <1>3, ContentAhead DEF u
<1>13. Content(written, s) = Content(heap, s)
  <2>1. \A a \in Range(s) : Held(written, a) = Held(heap, a)
    BY <1>2, <1>3 DEF Range, Pointers
  <2> QED BY <1>2, <2>1, ContentSame
<1>14. Ordered(added, u)
  BY <1>1, <1>4, <1>5, <1>6, <1>8, <1>9 DEF Ordered
<1> QED BY <1>4, <1>11, <1>12, <1>13, <1>14 DEF u

\* Evicting the last entry if the new one is too many.
LEMMA PutNewOrder ==
  ASSUME LruInv, NEW s, Ordered(Now, s), NEW k \in Keys, NEW v \in Values, PutNew(k, v)
  PROVE  \E u : /\ Ordered(Now', u)
                /\ Content(heap', u) =
                     Documented!Newest(Ahead(Pair(k, v), Content(heap, s)), maxSize)
<1>1. PICK node \in Addresses \ Range(map) :
        LET written == [heap EXCEPT ![node].key = k, ![node].value = v]
            added == [map  |-> [x \in DOMAIN map \cup {k} |->
                                  IF x = k THEN node ELSE map[x]],
                      heap |-> Attach(written, node)]
        IN  Become(IF Size(added.map) > maxSize THEN RemoveLru(added) ELSE added)
  BY DEF PutNew
<1> DEFINE added == [map  |-> [x \in DOMAIN map \cup {k} |->
                                 IF x = k THEN node ELSE map[x]],
                     heap |-> Attach([heap EXCEPT ![node].key = k, ![node].value = v], node)]
           all == Ahead(node, s)
           c == Ahead(Pair(k, v), Content(heap, s))
           n == Len(all)
<1>2. Become(IF Size(added.map) > maxSize THEN RemoveLru(added) ELSE added)
  BY <1>1
<1>3. k \notin DOMAIN map
  BY DEF PutNew
<1>4. Well(added) /\ Size(added.map) = Size(map) + 1
  BY <1>3, AddEffect DEF LruInv
<1>5. Ordered(added, all) /\ Content(added.heap, all) = c
  BY <1>3, AddOrder DEF LruInv
<1>6. /\ Size(map) \in Nat /\ Size(map) <= maxSize /\ maxSize \in Nat
  BY SizeType, LruAssumption DEF LruInv, Well, Now, CapacityRespected
<1> HIDE DEF added, all, c
<1>7. all \in Seq(Addresses) /\ added.heap \in [Pointers -> LruEntry]
  BY <1>4, <1>5 DEF Well, Ordered, Linked
<1>8. c \in Seq(Slots) /\ Len(c) = n /\ n = Size(map) + 1
  <2>1. Content(added.heap, all) \in Seq(Slots) /\ Len(Content(added.heap, all)) = n
    BY <1>7, ContentItems
  <2>2. n = Size(added.map)
    BY <1>5 DEF Ordered
  <2> QED BY <1>4, <1>5, <2>1, <2>2
<1> HIDE DEF n
<1>9. CASE Size(added.map) > maxSize
  <2> DEFINE left == RemoveLru(added)
             u == SubSeq(all, 1, n - 1)
  <2>1. Now' = [map |-> left.map, heap |-> left.heap]
    BY <1>2, <1>9 DEF Become, Now
  <2>2. Evicted(added, all, left, 1)
    <3>1. 1 \in 1 .. Len(all) /\ 1 - 1 = 0
      BY <1>6, <1>8 DEF n
    <3>2. Evicted(added, all, added, 1 - 1)
      BY <1>4, <1>5, <3>1, EvictNone
    <3> QED BY <1>5, <1>7, <3>1, <3>2, EvictOne
  <2> HIDE DEF left
  <2>3. Ordered(left, u) /\ Content(left.heap, u) = SubSeq(c, 1, n - 1)
    <3>1. 1 \in 0 .. Len(all)
      BY <1>6, <1>8 DEF n
    <3> QED BY <1>4, <1>5, <2>2, <3>1, EvictedContent DEF n
  <2>4. Ordered(Now', u) /\ heap' = left.heap
    BY <2>1, <2>3 DEF Ordered, Now
  <2>5. Documented!Newest(c, maxSize) = SubSeq(c, 1, n - 1)
    <3>1. ~ (Len(c) < maxSize) /\ maxSize = n - 1
      BY <1>4, <1>6, <1>8, <1>9
    <3> QED BY <3>1 DEF Documented!Newest
  <2> HIDE DEF u
  <2> QED BY <2>3, <2>4, <2>5 DEF c
<1>10. CASE ~ (Size(added.map) > maxSize)
  <2>1. Now' = [map |-> added.map, heap |-> added.heap]
    BY <1>2, <1>10 DEF Become, Now
  <2>2. Ordered(Now', all) /\ heap' = added.heap
    BY <1>5, <2>1 DEF Ordered, Now
  <2>3. Documented!Newest(c, maxSize) = c
    <3>1. (IF Len(c) < maxSize THEN Len(c) ELSE maxSize) = Len(c)
      BY <1>4, <1>6, <1>8, <1>10
    <3>2. SubSeq(c, 1, Len(c)) = c
      BY <1>8, SubSeqFull
    <3> QED BY <3>1, <3>2 DEF Documented!Newest
  <2> QED BY <1>5, <2>2, <2>3 DEF c
<1> QED BY <1>9, <1>10

LEMMA PutNewWell ==
  ASSUME LruInv, NEW k \in Keys, NEW v \in Values, PutNew(k, v)
  PROVE  Well(Now') /\ CapacityRespected' /\ maxSize' \in Capacities
<1>1. PICK node \in Addresses \ Range(map) :
        LET written == [heap EXCEPT ![node].key = k, ![node].value = v]
            added == [map  |-> [x \in DOMAIN map \cup {k} |->
                                  IF x = k THEN node ELSE map[x]],
                      heap |-> Attach(written, node)]
        IN  Become(IF Size(added.map) > maxSize THEN RemoveLru(added) ELSE added)
  BY DEF PutNew
<1>2. maxSize' = maxSize /\ k \notin DOMAIN map
  BY DEF PutNew
<1> DEFINE added == [map  |-> [x \in DOMAIN map \cup {k} |->
                                 IF x = k THEN node ELSE map[x]],
                     heap |-> Attach([heap EXCEPT ![node].key = k, ![node].value = v], node)]
<1>3. Become(IF Size(added.map) > maxSize THEN RemoveLru(added) ELSE added)
  BY <1>1
<1>4. Well(added) /\ Size(added.map) = Size(map) + 1
  BY <1>2, AddEffect DEF LruInv
<1>5. Size(map) \in Nat /\ Size(map) <= maxSize /\ maxSize \in Nat /\ maxSize \in Capacities
  BY SizeType, LruAssumption DEF LruInv, Well, Now, CapacityRespected
<1> HIDE DEF added
<1>6. CASE Size(added.map) > maxSize
  <2>1. Well(RemoveLru(added)) /\ Size(RemoveLru(added).map) = Size(map)
    BY <1>4, <1>5, RemoveLruEffect
  <2>2. map' = RemoveLru(added).map /\ heap' = RemoveLru(added).heap
    BY <1>3, <1>6 DEF Become
  <2>3. Well(Now')
    BY <2>1, <2>2 DEF Well, Now
  <2> QED BY <1>2, <1>5, <2>1, <2>2, <2>3 DEF CapacityRespected
<1>7. CASE ~ (Size(added.map) > maxSize)
  <2>1. map' = added.map /\ heap' = added.heap
    BY <1>3, <1>7 DEF Become
  <2>2. Well(Now')
    BY <1>4, <2>1 DEF Well, Now
  <2> QED BY <1>2, <1>4, <1>5, <1>7, <2>1, <2>2 DEF CapacityRespected
<1> QED BY <1>6, <1>7

LEMMA ChangeCapacityEffect ==
  ASSUME LruInv, NEW s, Ordered(Now, s), NEW n \in Capacities, ChangeCapacity(n)
  PROVE  /\ Well(Now') /\ CapacityRespected' /\ maxSize' = n
         /\ \E u : /\ Ordered(Now', u)
                   /\ Content(heap', u) = Documented!Newest(Content(heap, s), n)
<1> DEFINE surplus == IF Size(map) > n THEN Size(map) - n ELSE 0
           left == RemoveLrus(Now, surplus)
           u == SubSeq(s, 1, Len(s) - surplus)
<1>1. /\ Size(map) \in Nat /\ n \in Nat /\ Now.map = map /\ Now.heap = heap
      /\ Well(Now) /\ Len(s) = Size(map)
  BY SizeType, LruAssumption DEF LruInv, Well, Now, Ordered
<1>2. map' = left.map /\ heap' = left.heap /\ maxSize' = n
  BY DEF ChangeCapacity, Become, Now
<1>3. /\ surplus \in 0 .. Size(map) /\ Size(map) - surplus <= n
      /\ Size(map) - surplus = IF Size(map) < n THEN Size(map) ELSE n
  BY <1>1
<1> HIDE DEF surplus
<1>4. Evicted(Now, s, left, surplus)
  BY <1>1, <1>3, RemoveLrusEffect
<1> HIDE DEF left
<1>5. Well(left) /\ Size(left.map) = Size(map) - surplus
  BY <1>1, <1>4 DEF Evicted
<1>6. Well(Now')
  BY <1>2, <1>5 DEF Well, Now
<1>7. CapacityRespected'
  BY <1>2, <1>3, <1>5 DEF CapacityRespected
<1>8. Ordered(left, u) /\ Content(left.heap, u) = SubSeq(Content(heap, s), 1, Len(s) - surplus)
  BY <1>1, <1>3, <1>4, EvictedContent
<1> HIDE DEF u
<1>9. Ordered(Now', u)
  BY <1>2, <1>8 DEF Ordered, Now
<1>10. Documented!Newest(Content(heap, s), n) = SubSeq(Content(heap, s), 1, Len(s) - surplus)
  <2>1. Len(Content(heap, s)) = Len(s)
    BY <1>1, ContentItems DEF Well, Ordered, Linked
  <2> QED BY <1>1, <1>3, <2>1 DEF Documented!Newest
<1> QED BY <1>2, <1>6, <1>7, <1>8, <1>9, <1>10

-----------------------------------------------------------------------------
(* The invariant, and what follows from it.                                *)

LEMMA LruInitially == Init => LruInv
<1> SUFFICES ASSUME Init PROVE LruInv
  OBVIOUS
<1>1. DOMAIN map = {} /\ Occupied(map) = {}
  BY DEF Init, Occupied
<1>2. Mapped(map)
  BY <1>1, FS_EmptySet DEF Mapped, Init
<1>3. heap \in [Pointers -> LruEntry]
  BY DEF Init, LruEntry, Pointers
<1>4. Ring(heap, Occupied(map) \cup {Sigil})
  BY <1>1 DEF Init, Ring, Pointers
<1>5. CapacityRespected /\ maxSize \in Capacities
  BY <1>1, FS_EmptySet, LruAssumption DEF Init, CapacityRespected, Size
<1>6. Ordered(Now, <<>>)
  <2>1. /\ <<>> \in Seq(Addresses) /\ Len(<<>>) = 0 /\ Range(<<>>) = {}
        /\ IsInjective(<<>>)
    BY DEF Range, IsInjective
  <2>2. Node(<<>>, 0) = Sigil /\ Node(<<>>, 1) = Sigil
    BY DEF Node
  <2>3. heap[Sigil].next = Sigil /\ heap[Sigil].prev = Sigil
    BY DEF Init, Pointers
  <2>4. Linked(heap, <<>>)
    <3>1. \A i \in 0 .. 0 : i = 0 /\ i + 1 = 1
      OBVIOUS
    <3> QED BY <2>1, <2>2, <2>3, <3>1 DEF Linked
  <2>5. Size(map) = 0
    BY <1>1, FS_EmptySet DEF Size
  <2> QED BY <1>1, <2>1, <2>4, <2>5 DEF Ordered, Now
<1>7. Well(Now)
  BY <1>1, <1>2, <1>3, <1>4 DEF Well, Now
<1> QED BY <1>5, <1>6, <1>7 DEF LruInv

LEMMA LruStep == LruInv /\ [PoplessNext]_lruVars => LruInv'
<1> SUFFICES ASSUME LruInv, [PoplessNext]_lruVars PROVE LruInv'
  OBVIOUS
<1>1. PICK s : Ordered(Now, s)
  BY DEF LruInv
<1>2. Well(Now)
  BY DEF LruInv
<1>3. ASSUME NEW k \in Keys, NEW v \in Values, PutExisting(k, v) PROVE LruInv'
  <2>1. \E u : Ordered(Now', u)
    BY <1>1, <1>2, <1>3, PutExistingOrder
  <2>2. Well(Now')
    BY <1>2, <1>3, PutExistingWell
  <2> QED BY <1>3, <2>1, <2>2 DEF LruInv, PutExisting, CapacityRespected
<1>4. ASSUME NEW k \in Keys, NEW v \in Values, PutNew(k, v) PROVE LruInv'
  <2>1. \E u : Ordered(Now', u)
    BY <1>1, <1>4, PutNewOrder
  <2> QED BY <1>4, <2>1, PutNewWell DEF LruInv
<1>5. ASSUME NEW k \in Keys, Get(k) PROVE LruInv'
  <2>1. \E u : Ordered(Now', u)
    BY <1>1, <1>2, <1>5, GetOrder
  <2>2. Well([map |-> map, heap |-> Attach(Detach(heap, map[k]), map[k])])
    BY <1>2, <1>5, TouchEffect DEF Get, Now
  <2>3. Well(Now')
    BY <1>5, <2>2 DEF Get, Now
  <2> QED BY <1>5, <2>1, <2>3 DEF Get, LruInv, CapacityRespected
<1>6. ASSUME NEW n \in Capacities, ChangeCapacity(n) PROVE LruInv'
  BY <1>1, <1>6, ChangeCapacityEffect DEF LruInv
<1>7. CASE UNCHANGED lruVars
  <2>1. Now' = Now
    BY <1>7 DEF lruVars, Now
  <2> QED BY <1>1, <1>7, <2>1 DEF lruVars, LruInv, CapacityRespected
<1> QED BY <1>3, <1>4, <1>5, <1>6, <1>7 DEF PoplessNext

LEMMA LruInvariant == PoplessSpec => []LruInv
  BY LruInitially, LruStep, PTL DEF PoplessSpec

\* A cache from which nothing is popped holds entries for keys, at addresses
\* of its own, and pointers that point at nodes.
THEOREM CacheTypeCorrect == PoplessSpec => []TypeOK
<1>1. LruInv => TypeOK
  BY DEF LruInv, Well, Mapped, Now, TypeOK
<1> QED BY <1>1, LruInvariant, PTL

\* Whatever is put, got and evicted, the raw pointers form one ring through
\* the sentinel and the entries that the map owns (lru_cache.rs:243-271):
\* none dangles, and none of the entries is out of remove_lru's reach.
THEOREM RingKept == PoplessSpec => []RingMatchesMap
<1>1. LruInv => RingMatchesMap
  <2> SUFFICES ASSUME LruInv PROVE RingMatchesMap
    OBVIOUS
  <2> DEFINE linked == Range(map) \cup {Sigil}
             ring == [a \in linked |-> heap[a].next]
  <2>1. Mapped(map) /\ Ring(heap, linked)
    BY DEF LruInv, Well, Now, Occupied, Range
  <2>2. IsInjective(map)
    BY <2>1 DEF Mapped, IsInjective
  <2>3. \A a \in linked :
          /\ heap[a].next \in linked /\ heap[heap[a].next].prev = a
          /\ heap[a].prev \in linked /\ heap[heap[a].prev].next = a
    BY <2>1 DEF Ring
  <2>4. \A part \in SUBSET linked :
          (part # {} /\ \A a \in part : ring[a] \in part) => part = linked
    <3> TAKE part \in SUBSET linked
    <3> HAVE part # {} /\ \A a \in part : ring[a] \in part
    <3>1. \A a \in part : heap[a].next \in part
      OBVIOUS
    <3> HIDE DEF linked
    <3> QED BY <2>1, <3>1 DEF Ring
  <2> QED BY <2>2, <2>3, <2>4 DEF RingMatchesMap
<1> QED BY <1>1, LruInvariant, PTL

\* put and change_capacity evict as much as the capacity asks, because the
\* key that the last node of the ring holds is always found in the map
\* (lru_cache.rs:56, :236-242).
THEOREM WithinCapacity == PoplessSpec => []CapacityRespected
<1>1. LruInv => CapacityRespected
  BY DEF LruInv
<1> QED BY <1>1, LruInvariant, PTL

-----------------------------------------------------------------------------
(* The cache implements what its documentation says.                       *)

\* Format, of any map and memory.
FormatOf(m, h) ==
  LET node[i \in 0 .. Size(m)] == IF i = 0 THEN Sigil ELSE h[node[i - 1]].next
  IN  [i \in 1 .. Size(m) |-> [key |-> h[node[i]].key, value |-> h[node[i]].value]]

Walks(h, f, n) == f = [i \in 0 .. n |-> IF i = 0 THEN Sigil ELSE h[f[i - 1]].next]

\* Following the links from the sentinel prints the list.
LEMMA FormatContent ==
  ASSUME NEW m, NEW h, NEW s, Ordered([map |-> m, heap |-> h], s)
  PROVE  FormatOf(m, h) = Content(h, s)
<1> DEFINE n == Size(m)
           w == [i \in 0 .. n |-> Node(s, i)]
           node == CHOOSE f : Walks(h, f, n)
<1>1. Linked(h, s) /\ n = Len(s)
  BY DEF Ordered
<1>2. /\ n \in Nat /\ Node(s, 0) = Sigil
      /\ \A i \in 0 .. n : h[Node(s, i)].next = Node(s, i + 1)
      /\ \A i \in 1 .. n : Node(s, i) = s[i]
  <2>1. s \in Seq(Addresses) /\ IsInjective(s) /\ n \in Nat
    BY <1>1 DEF Linked
  <2>2. Node(s, 0) = Sigil /\ DOMAIN s = 1 .. Len(s) /\ \A i \in DOMAIN s : Node(s, i) = s[i]
    BY <2>1, NodePlaces
  <2> HIDE DEF n
  <2> QED BY <1>1, <2>1, <2>2 DEF Linked
<1>3. FormatOf(m, h) =
        [i \in 1 .. n |-> [key |-> h[node[i]].key, value |-> h[node[i]].value]]
  BY DEF FormatOf, Walks
<1> HIDE DEF n
<1>4. Walks(h, w, n)
  <2>1. \A i \in 0 .. n : w[i] = IF i = 0 THEN Sigil ELSE h[w[i - 1]].next
    <3> TAKE i \in 0 .. n
    <3>1. CASE i = 0
      BY <1>2, <3>1
    <3>2. CASE i # 0
      <4>1. i - 1 \in 0 .. n /\ i - 1 + 1 = i
        BY <1>2, <3>2
      <4>2. h[Node(s, i - 1)].next = Node(s, i - 1 + 1)
        BY <1>2, <4>1
      <4> QED BY <3>2, <4>1, <4>2
    <3> QED BY <3>1, <3>2
  <2> QED BY <2>1 DEF Walks
<1>5. Walks(h, node, n)
  <2> HIDE DEF w
  <2> QED BY <1>4
<1> HIDE DEF node
<1>6. \A i \in 0 .. n : node[i] = w[i]
  <2> DEFINE Differ == {i \in 0 .. n : node[i] # w[i]}
  <2>1. SUFFICES ASSUME Differ # {} PROVE FALSE
    OBVIOUS
  <2> HIDE DEF w
  <2>2. PICK i \in Differ : \A j \in Differ : i <= j
    <3>1. Differ \in SUBSET Nat
      BY <1>2
    <3> HIDE DEF Differ
    <3> QED BY <2>1, <3>1, Least
  <2>3. /\ node[i] = IF i = 0 THEN Sigil ELSE h[node[i - 1]].next
        /\ w[i] = IF i = 0 THEN Sigil ELSE h[w[i - 1]].next
    BY <1>4, <1>5, <2>2 DEF Walks
  <2>4. i # 0
    BY <2>2, <2>3
  <2>5. i - 1 \in 0 .. n /\ i - 1 \notin Differ
    BY <1>2, <2>2, <2>4
  <2>6. node[i - 1] = w[i - 1]
    BY <2>5
  <2> QED BY <2>2, <2>3, <2>4, <2>6
<1>7. \A i \in 1 .. n : node[i] = s[i]
  BY <1>2, <1>6
<1> HIDE DEF w
<1>8. \A i \in 1 .. n : [key |-> h[node[i]].key, value |-> h[node[i]].value] = Held(h, s[i])
  BY <1>7 DEF Held, Pair
<1> QED BY <1>1, <1>3, <1>8 DEF Content

\* So the items of the abstract cache are the content of the list.
LEMMA Items ==
  /\ \A s : Ordered(Now, s) => Format = Content(heap, s)
  /\ \A s : Ordered(Now', s) => Format' = Content(heap', s)
<1>1. Format = FormatOf(map, heap)
  BY DEF Format, FormatOf
<1>2. Format' = FormatOf(map', heap')
  BY DEF Format, FormatOf
<1> QED BY <1>1, <1>2, FormatContent DEF Now

LEMMA DocumentedOnly == \A s, S : Documented!Only(s, S) = Only(s, S)
BY DEF Documented!Only, Only, Documented!Chosen, Chosen

LEMMA DocumentedWithout ==
  ASSUME NEW s, Ordered(Now, s), NEW k
  PROVE  Documented!Without(k) = Only(Content(heap, s), Others(k))
BY DocumentedOnly, Items DEF Documented!Without, Others

LEMMA PutSeen ==
  ASSUME LruInv, NEW k \in Keys, NEW v \in Values, PutExisting(k, v) \/ PutNew(k, v)
  PROVE  Documented!Put(k, v)
<1>1. PICK s : Ordered(Now, s)
  BY DEF LruInv
<1> DEFINE rest == Only(Content(heap, s), Others(k))
           c == Ahead(Pair(k, v), rest)
<1>2. maxSize' = maxSize
  BY DEF PutExisting, PutNew
<1>3. Well(Now) /\ Now.map = map /\ Now.heap = heap
  BY DEF LruInv, Now
<1>4. \E u : Ordered(Now', u) /\ Content(heap', u) = Documented!Newest(c, maxSize)
  <2>1. CASE PutExisting(k, v)
    <3>1. PICK u : Ordered(Now', u) /\ Content(heap', u) = c
      BY <1>1, <1>3, <2>1, PutExistingOrder
    <3> HIDE DEF c
    <3>2. c \in Seq(Slots) /\ Len(c) = Size(map')
      <4>1. Well(Now') /\ Now'.map = map' /\ Now'.heap = heap'
        BY <1>3, <2>1, PutExistingWell DEF Now
      <4>2. u \in Seq(Addresses) /\ heap' \in [Pointers -> LruEntry] /\ Len(u) = Size(map')
        BY <3>1, <4>1 DEF Well, Ordered, Linked
      <4> QED BY <3>1, <4>2, ContentItems
    <3>3. Size(map') \in Nat /\ Size(map') <= maxSize /\ maxSize \in Nat
      BY <2>1, SizeType, LruAssumption DEF LruInv, Well, Now, CapacityRespected, PutExisting
    <3>4. Documented!Newest(c, maxSize) = c
      <4>1. (IF Len(c) < maxSize THEN Len(c) ELSE maxSize) = Len(c)
        BY <3>2, <3>3
      <4>2. SubSeq(c, 1, Len(c)) = c
        BY <3>2, SubSeqFull
      <4> QED BY <4>1, <4>2 DEF Documented!Newest
    <3> QED BY <3>1, <3>4
  <2>2. CASE PutNew(k, v)
    <3>1. rest = Content(heap, s)
      BY <1>1, <1>3, <2>2, ContentOthers DEF PutNew
    <3> QED BY <1>1, <2>2, <3>1, PutNewOrder
  <2> QED BY <2>1, <2>2
<1>5. Format' = Documented!Newest(c, maxSize)
  BY <1>4, Items
<1>6. c = <<[key |-> k, value |-> v]>> \o Documented!Without(k)
  BY <1>1, DocumentedWithout DEF Ahead, Pair
<1> HIDE DEF c
<1> QED BY <1>2, <1>5, <1>6 DEF Documented!Put

LEMMA GetSeen ==
  ASSUME LruInv, NEW k \in Keys, Get(k)
  PROVE  Documented!Get(k)
<1>1. PICK s : Ordered(Now, s)
  BY DEF LruInv
<1>2. PICK u, i : /\ Ordered(Now', u)
                  /\ i \in DOMAIN s /\ Held(heap, s[i]).key = k
                  /\ Content(heap', u) =
                       Ahead(Held(heap, s[i]), Only(Content(heap, s), Others(k)))
  BY <1>1, GetOrder DEF LruInv
<1>3. s \in Seq(Addresses) /\ heap \in [Pointers -> LruEntry]
  BY <1>1 DEF LruInv, Well, Now, Ordered, Linked
<1>4. i \in DOMAIN Format /\ Format[i] = Held(heap, s[i])
  <2>1. /\ Content(heap, s) \in Seq(Slots) /\ Len(Content(heap, s)) = Len(s)
        /\ \A j \in 1 .. Len(s) : Content(heap, s)[j] = Held(heap, s[j])
    BY <1>3, ContentItems
  <2>2. i \in 1 .. Len(s) /\ Format = Content(heap, s)
    BY <1>1, <1>2, <1>3, Items
  <2> QED BY <2>1, <2>2
<1>5. Format' = <<Format[i]>> \o Documented!Without(k)
  BY <1>1, <1>2, <1>4, Items, DocumentedWithout DEF Ahead
<1>6. Format[i].key = k
  BY <1>2, <1>4
<1>7. UNCHANGED maxSize
  BY DEF Get
<1> QED BY <1>4, <1>5, <1>6, <1>7 DEF Documented!Get

LEMMA ChangeCapacitySeen ==
  ASSUME LruInv, NEW n \in Capacities, ChangeCapacity(n)
  PROVE  Documented!ChangeCapacity(n)
<1>1. PICK s : Ordered(Now, s)
  BY DEF LruInv
<1>2. /\ maxSize' = n
      /\ \E u : /\ Ordered(Now', u)
                /\ Content(heap', u) = Documented!Newest(Content(heap, s), n)
  BY <1>1, ChangeCapacityEffect
<1>3. Format' = Documented!Newest(Format, n)
  BY <1>1, <1>2, Items
<1> QED BY <1>2, <1>3 DEF Documented!ChangeCapacity

\* "Remove least-recently-used key-value pairs if necessary"
\* (lru_cache.rs:195-196): printed in the order of its links, a cache from
\* which nothing is popped is the dictionary of Lru.tla, call for call.
THEOREM DropsLeastRecent == PoplessSpec => ImplementsLru
<1>1. LruInv /\ Init => Documented!Init
  <2> SUFFICES ASSUME LruInv, Init PROVE Documented!Init
    OBVIOUS
  <2>1. PICK s : Ordered(Now, s)
    BY DEF LruInv
  <2>2. Size(map) = 0
    BY FS_EmptySet DEF Init, Size
  <2>3. Len(s) = 0 /\ s \in Seq(Addresses) /\ heap \in [Pointers -> LruEntry]
    BY <2>1, <2>2 DEF LruInv, Well, Ordered, Linked, Now
  <2>4. Content(heap, s) \in Seq(Slots) /\ Len(Content(heap, s)) = 0
    BY <2>3, ContentItems
  <2>5. Format = <<>>
    BY <2>1, <2>4, Items
  <2> QED BY <2>5 DEF Init, Documented!Init
<1>2. LruInv /\ [PoplessNext]_lruVars => [Documented!Next]_(Documented!vars)
  <2> SUFFICES ASSUME LruInv, [PoplessNext]_lruVars
               PROVE  [Documented!Next]_(Documented!vars)
    OBVIOUS
  <2>1. ASSUME NEW k \in Keys, NEW v \in Values, PutExisting(k, v) \/ PutNew(k, v)
        PROVE  Documented!Put(k, v)
    BY <2>1, PutSeen
  <2>2. ASSUME NEW k \in Keys, Get(k) PROVE Documented!Get(k)
    BY <2>2, GetSeen
  <2>3. ASSUME NEW n \in Capacities, ChangeCapacity(n) PROVE Documented!ChangeCapacity(n)
    BY <2>3, ChangeCapacitySeen
  <2>4. CASE UNCHANGED lruVars
    BY <2>4 DEF lruVars, Documented!vars, Format
  <2> QED BY <2>1, <2>2, <2>3, <2>4, Zenon DEF PoplessNext, Documented!Next
<1> QED BY <1>1, <1>2, LruInitially, LruInvariant, PTL
        DEF PoplessSpec, ImplementsLru, Documented!Spec
=============================================================================
