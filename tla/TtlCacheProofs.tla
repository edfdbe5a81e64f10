--------------------------- MODULE TtlCacheProofs ---------------------------
(***************************************************************************)
(* Theorems about TtlCache.tla, for every set of keys, values, capacities  *)
(* and durations and for every end of the clock.                           *)
(***************************************************************************)
EXTENDS TtlCache, SublistLemmas

-----------------------------------------------------------------------------
(* The map as a sequence of entries with different keys.                   *)

Unique(seq) == \A i, j \in DOMAIN seq : seq[i].key = seq[j].key => i = j
Has(seq, k) == \E i \in DOMAIN seq : seq[i].key = k
IndexMap(seq) == seq \in Seq(InternalEntries) /\ Unique(seq)

\* IndexOf, of any sequence.
Places(seq, k) == {i \in DOMAIN seq : seq[i].key = k}
Index(seq, k) == IF Places(seq, k) = {} THEN 0 ELSE Min(Places(seq, k))

\* shift_remove keeps these.
Others(k) == {entry \in InternalEntries : entry.key # k}

LEMMA IndexEffect ==
  ASSUME NEW seq, IndexMap(seq), NEW k
  PROVE  /\ Index(seq, k) \in 0 .. Len(seq)
         /\ Index(seq, k) = 0 <=> ~ Has(seq, k)
         /\ Index(seq, k) # 0 => Index(seq, k) \in DOMAIN seq /\ seq[Index(seq, k)].key = k
         /\ \A i \in DOMAIN seq : seq[i].key = k => Index(seq, k) = i
<1>1. DOMAIN seq = 1 .. Len(seq) /\ Len(seq) \in Nat
  BY DEF IndexMap
<1>2. CASE Places(seq, k) = {}
  <2>1. Index(seq, k) = 0 /\ \A i \in DOMAIN seq : seq[i].key # k
    BY <1>2 DEF Index, Places
  <2> QED BY <1>1, <2>1 DEF Has
<1>3. CASE Places(seq, k) # {}
  <2>1. Places(seq, k) \in SUBSET Nat
    BY <1>1 DEF Places
  <2>2. PICK n \in Places(seq, k) : \A m \in Places(seq, k) : n <= m
    BY <1>3, <2>1, Least
  <2>3. Index(seq, k) \in Places(seq, k)
    BY <1>3, <2>2 DEF Index, Min
  <2>4. Index(seq, k) \in DOMAIN seq /\ seq[Index(seq, k)].key = k
    BY <2>3 DEF Places
  <2> QED BY <1>1, <2>4 DEF Has, IndexMap, Unique
<1> QED BY <1>2, <1>3

LEMMA KeptEffect ==
  ASSUME NEW seq, IndexMap(seq), NEW S
  PROVE  /\ IndexMap(Only(seq, S))
         /\ Len(Only(seq, S)) <= Len(seq)
         /\ \A k : Has(Only(seq, S), k) => Has(seq, k)
<1> DEFINE kept == Only(seq, S)
<1>1. /\ kept \in Seq(InternalEntries) /\ Len(kept) <= Len(seq)
      /\ \E e : Embeds(e, kept, seq)
  BY OnlyMembers DEF IndexMap
<1>2. /\ DOMAIN kept = 1 .. Len(kept) /\ DOMAIN seq = 1 .. Len(seq)
  BY <1>1 DEF IndexMap
<1> HIDE DEF kept
<1>3. PICK e : Embeds(e, kept, seq)
  BY <1>1
<1>4. Unique(kept)
  <2> SUFFICES ASSUME NEW i \in DOMAIN kept, NEW j \in DOMAIN kept, kept[i].key = kept[j].key
               PROVE  i = j
    BY DEF Unique
  <2>1. e[i] = e[j]
    BY <1>2, <1>3 DEF Embeds, IndexMap, Unique
  <2>2. e[i] \in Nat /\ i \in Nat /\ j \in Nat
    BY <1>2, <1>3 DEF Embeds
  <2>3. ~ (i < j) /\ ~ (j < i)
    BY <1>2, <1>3, <2>1, <2>2 DEF Embeds
  <2> QED BY <2>2, <2>3
<1>5. \A k : Has(kept, k) => Has(seq, k)
  BY <1>2, <1>3 DEF Embeds, Has
<1> QED BY <1>1, <1>4, <1>5 DEF IndexMap, kept

LEMMA OthersEffect ==
  ASSUME NEW seq, IndexMap(seq), NEW k
  PROVE  /\ IndexMap(Only(seq, Others(k)))
         /\ Len(Only(seq, Others(k))) <= Len(seq)
         /\ ~ Has(Only(seq, Others(k)), k)
<1>1. \A i \in DOMAIN Only(seq, Others(k)) : Only(seq, Others(k))[i] \in Others(k)
  BY OnlyMembers DEF IndexMap
<1> QED BY <1>1, KeptEffect DEF Has, Others

LEMMA DropEffect ==
  ASSUME NEW seq, IndexMap(seq), NEW n \in 0 .. Len(seq)
  PROVE  /\ IndexMap(Drop(seq, n))
         /\ Len(Drop(seq, n)) = Len(seq) - n
<1> DEFINE rest == Drop(seq, n)
           size == Len(seq)
<1>1. /\ rest \in Seq(InternalEntries) /\ Len(rest) = size - n
      /\ \A i \in 1 .. size - n : rest[i] = seq[n + i]
  BY Split DEF IndexMap
<1>2. size \in Nat /\ n \in 0 .. size /\ DOMAIN rest = 1 .. size - n /\ DOMAIN seq = 1 .. size
  BY <1>1 DEF IndexMap
<1> HIDE DEF rest, size
<1>3. Unique(rest)
  <2> SUFFICES ASSUME NEW i \in DOMAIN rest, NEW j \in DOMAIN rest, rest[i].key = rest[j].key
               PROVE  i = j
    BY DEF Unique
  <2>1. i \in Nat /\ j \in Nat /\ n + i \in DOMAIN seq /\ n + j \in DOMAIN seq
    BY <1>2
  <2>2. seq[n + i].key = seq[n + j].key
    BY <1>1, <1>2
  <2>3. n + i = n + j
    BY <2>1, <2>2 DEF IndexMap, Unique
  <2> QED BY <1>2, <2>1, <2>3
<1> QED BY <1>1, <1>3 DEF IndexMap, rest, size

LEMMA AddEffect ==
  ASSUME NEW seq, IndexMap(seq), NEW entry \in InternalEntries, ~ Has(seq, entry.key)
  PROVE  /\ IndexMap(Append(seq, entry))
         /\ Len(Append(seq, entry)) = Len(seq) + 1
<1> DEFINE size == Len(seq)
           u == Append(seq, entry)
<1>1. /\ size \in Nat /\ DOMAIN seq = 1 .. size /\ DOMAIN u = 1 .. size + 1
      /\ u \in Seq(InternalEntries) /\ Len(u) = size + 1
      /\ u[size + 1] = entry /\ \A i \in 1 .. size : u[i] = seq[i]
  BY DEF IndexMap
<1> HIDE DEF size, u
<1>2. Unique(u)
  <2> SUFFICES ASSUME NEW i \in DOMAIN u, NEW j \in DOMAIN u, u[i].key = u[j].key
               PROVE  i = j
    BY DEF Unique
  <2>1. \A m \in DOMAIN u : m = size + 1 \/ (m \in DOMAIN seq /\ u[m] = seq[m])
    BY <1>1
  <2> QED BY <1>1, <2>1 DEF Has, IndexMap, Unique
<1> QED BY <1>1, <1>2 DEF IndexMap, size, u

LEMMA AssignEffect ==
  ASSUME NEW seq, IndexMap(seq), NEW i \in DOMAIN seq,
         NEW entry \in InternalEntries, entry.key = seq[i].key
  PROVE  /\ IndexMap([seq EXCEPT ![i] = entry])
         /\ Len([seq EXCEPT ![i] = entry]) = Len(seq)
         /\ \A k : Has([seq EXCEPT ![i] = entry], k) <=> Has(seq, k)
<1> DEFINE u == [seq EXCEPT ![i] = entry]
<1>1. /\ u \in Seq(InternalEntries) /\ Len(u) = Len(seq) /\ DOMAIN u = DOMAIN seq
      /\ \A j \in DOMAIN seq : u[j].key = seq[j].key
  BY DEF IndexMap
<1> HIDE DEF u
<1>2. Unique(u)
  BY <1>1 DEF IndexMap, Unique
<1>3. \A k : Has(u, k) <=> Has(seq, k)
  BY <1>1 DEF Has
<1> QED BY <1>1, <1>2, <1>3 DEF IndexMap, u

LEMMA AssignValue ==
  ASSUME NEW seq, IndexMap(seq), NEW i \in DOMAIN seq, NEW v \in Values
  PROVE  /\ [seq EXCEPT ![i].value = v] = [seq EXCEPT ![i] = [seq[i] EXCEPT !.value = v]]
         /\ [seq[i] EXCEPT !.value = v] \in InternalEntries
         /\ [seq[i] EXCEPT !.value = v].key = seq[i].key
         /\ [seq[i] EXCEPT !.value = v].expiration = seq[i].expiration
<1>1. seq[i] \in InternalEntries
  BY DEF IndexMap
<1> QED BY <1>1 DEF InternalEntries

-----------------------------------------------------------------------------
(* What the caller holds.                                                  *)

BorrowOK(b, seq) ==
  /\ b \in {NoBorrow} \cup [kind : {"occupied", "vacant"}, key : Keys]
            \cup [kind : {"iter"}, front : 1 .. Len(seq) + 1, back : 0 .. Len(seq),
                  given : SUBSET Keys]
  /\ b.kind = "occupied" => Index(seq, b.key) # 0
  /\ b.kind = "vacant" => Index(seq, b.key) = 0

Scalars ==
  /\ maxSize \in Capacities
  /\ now \in 0 .. MaxTime
  /\ answer \in Values \cup {None}
  /\ hits \in 0 .. UsizeRange - 1 /\ misses \in 0 .. UsizeRange - 1

LEMMA Positions ==
  \A k : IndexOf(k) = Index(map, k) /\ IndexOf(k)' = Index(map', k)
BY DEF IndexOf, At, Index, Places

LEMMA TypeParts ==
  /\ TypeOK <=> IndexMap(map) /\ BorrowOK(borrow, map) /\ Scalars
  /\ TypeOK' <=> IndexMap(map') /\ BorrowOK(borrow', map') /\ Scalars'
<1>1. TypeOK <=> IndexMap(map) /\ BorrowOK(borrow, map) /\ Scalars
  <2>1. IndexOf(borrow.key) = Index(map, borrow.key)
    BY Positions
  <2> QED BY <2>1 DEF TypeOK, IndexMap, Unique, BorrowOK, Scalars
<1>2. TypeOK' <=> IndexMap(map') /\ BorrowOK(borrow', map') /\ Scalars'
  <2>1. IndexOf(borrow.key)' = Index(map', borrow'.key)
    BY DEF IndexOf, At, Index, Places
  <2> QED BY <2>1 DEF TypeOK, IndexMap, Unique, BorrowOK, Scalars
<1> QED BY <1>1, <1>2

LEMMA BorrowNothing ==
  ASSUME NEW seq
  PROVE  BorrowOK(NoBorrow, seq) /\ NoBorrow.kind = "none"
BY DEF BorrowOK, NoBorrow

LEMMA BorrowEntry ==
  ASSUME NEW seq, NEW k \in Keys
  PROVE  /\ Index(seq, k) # 0 => BorrowOK(Occupied(k), seq)
         /\ Index(seq, k) = 0 => BorrowOK(Vacant(k), seq)
<1>1. /\ Occupied(k) \in [kind : {"occupied", "vacant"}, key : Keys]
      /\ Occupied(k).kind = "occupied" /\ Occupied(k).key = k
  BY DEF Occupied
<1>2. /\ Vacant(k) \in [kind : {"occupied", "vacant"}, key : Keys]
      /\ Vacant(k).kind = "vacant" /\ Vacant(k).key = k
  BY DEF Vacant
<1> QED BY <1>1, <1>2 DEF BorrowOK

LEMMA BorrowIterator ==
  ASSUME NEW seq, NEW front \in 1 .. Len(seq) + 1, NEW back \in 0 .. Len(seq),
         NEW given \in SUBSET Keys
  PROVE  BorrowOK(IterOver(front, back, given), seq)
<1>1. /\ IterOver(front, back, given) \in
           [kind : {"iter"}, front : 1 .. Len(seq) + 1, back : 0 .. Len(seq), given : SUBSET Keys]
      /\ IterOver(front, back, given).kind = "iter"
  BY DEF IterOver
<1> QED BY <1>1 DEF BorrowOK

LEMMA Borrowed ==
  ASSUME NEW b, NEW seq, BorrowOK(b, seq)
  PROVE  /\ b.kind \in {"none", "occupied", "vacant", "iter"}
         /\ b.kind = "none" <=> b = NoBorrow
         /\ b.kind = "occupied" => b = Occupied(b.key) /\ b.key \in Keys /\ Index(seq, b.key) # 0
         /\ b.kind = "vacant" => b = Vacant(b.key) /\ b.key \in Keys /\ Index(seq, b.key) = 0
         /\ b.kind = "iter" => /\ b = IterOver(b.front, b.back, b.given)
                               /\ b.front \in 1 .. Len(seq) + 1 /\ b.back \in 0 .. Len(seq)
                               /\ b.given \in SUBSET Keys
<1>1. CASE b = NoBorrow
  BY <1>1 DEF NoBorrow
<1>2. CASE b \in [kind : {"occupied", "vacant"}, key : Keys]
  BY <1>2 DEF BorrowOK, Occupied, Vacant, NoBorrow
<1>3. CASE b \in [kind : {"iter"}, front : 1 .. Len(seq) + 1, back : 0 .. Len(seq),
                  given : SUBSET Keys]
  BY <1>3 DEF IterOver, NoBorrow
<1> QED BY <1>1, <1>2, <1>3 DEF BorrowOK

LEMMA FirstUnexpiredEffect ==
  ASSUME NEW seq, NEW from \in Nat, NEW to \in Nat, NEW t
  PROVE  LET i == FirstUnexpired(seq, from, to, t)
         IN  \/ i = to + 1 /\ \A j \in from .. to : IsExpired(seq[j], t)
             \/ /\ i \in from .. to /\ ~ IsExpired(seq[i], t)
                /\ \A j \in from .. i - 1 : IsExpired(seq[j], t)
<1> DEFINE P == {i \in from .. to : ~IsExpired(seq[i], t)}
           i == FirstUnexpired(seq, from, to, t)
<1>1. i = IF P = {} THEN to + 1 ELSE Min(P)
  BY DEF FirstUnexpired
<1>2. CASE P = {}
  BY <1>1, <1>2
<1>3. CASE P # {}
  <2>1. PICK n \in P : \A m \in P : n <= m
    <3>1. P \in SUBSET Nat
      OBVIOUS
    <3> HIDE DEF P
    <3> QED BY <1>3, <3>1, Least
  <2>2. i \in P /\ \A m \in P : i <= m
    <3> HIDE DEF P
    <3> QED BY <1>1, <1>3, <2>1 DEF Min
  <2> HIDE DEF i
  <2>3. \A j \in from .. i - 1 : j \in from .. to /\ ~ (i <= j)
    BY <2>2
  <2>4. \A j \in from .. i - 1 : j \notin P
    BY <2>2, <2>3
  <2>5. \A j \in from .. i - 1 : IsExpired(seq[j], t)
    BY <2>3, <2>4
  <2> QED BY <2>2, <2>5 DEF i
<1> QED BY <1>2, <1>3

-----------------------------------------------------------------------------
(* What each call leaves in the map.                                       *)

LEMMA NewEntry ==
  ASSUME NEW k \in Keys, NEW v \in Values, NEW ttl \in Durations, NEW t \in Nat,
         InRange(t, ttl)
  PROVE  /\ InternalEntry(k, v, t + ttl) \in InternalEntries
         /\ InternalEntry(k, v, t + ttl).key = k
         /\ InternalEntry(k, v, t + ttl).value = v
         /\ InternalEntry(k, v, t + ttl).expiration = t + ttl
BY TtlAssumption DEF InRange, InternalEntry, InternalEntries

LEMMA AnswerType ==
  ASSUME IndexMap(map), NEW k, NEW t
  PROVE  Unexpired(k, t) \in Values \cup {None}
<1>1. IndexOf(k) # 0 => IndexOf(k) \in DOMAIN map
  BY IndexEffect, Positions
<1>2. \A i \in DOMAIN map : map[i].value \in Values
  <2>1. \A i \in DOMAIN map : map[i] \in InternalEntries
    BY DEF IndexMap
  <2> QED BY <2>1 DEF InternalEntries
<1> QED BY <1>1, <1>2 DEF Unexpired

LEMMA CountType ==
  ASSUME NEW k, NEW t, Scalars, Count(k, t)
  PROVE  hits' \in 0 .. UsizeRange - 1 /\ misses' \in 0 .. UsizeRange - 1
<1>1. UsizeRange \in Nat \ {0}
  BY TtlAssumption
<1>2. \A n \in 0 .. UsizeRange - 1 : (n + 1) % UsizeRange \in 0 .. UsizeRange - 1
  BY <1>1
<1> QED BY <1>2 DEF Scalars, Count

LEMMA ClockType ==
  ASSUME Scalars, NEW t \in Clock
  PROVE  t \in 0 .. MaxTime /\ t \in Nat /\ now <= t
BY TtlAssumption DEF Scalars, Clock

-----------------------------------------------------------------------------
(* Types.                                                                  *)

LEMMA IndexRemoved ==
  ASSUME IndexMap(map), NEW k
  PROVE  /\ ShiftRemove(k) = Only(map, Others(k))
         /\ IndexMap(ShiftRemove(k)) /\ Index(ShiftRemove(k), k) = 0
         /\ Len(ShiftRemove(k)) <= Len(map) /\ Len(ShiftRemove(k)) \in Nat
<1>1. ShiftRemove(k) = Only(map, Others(k))
  BY DEF ShiftRemove, Others
<1>2. IndexMap(ShiftRemove(k)) /\ ~ Has(ShiftRemove(k), k) /\ Len(ShiftRemove(k)) <= Len(map)
  BY <1>1, OthersEffect
<1> QED BY <1>1, <1>2, IndexEffect DEF IndexMap

\* What insert makes of the map: the pairs of the other keys and the new one,
\* without the oldest of them if that is one too many.
LEMMA Inserted ==
  ASSUME TypeOK, NEW k \in Keys, NEW v \in Values, NEW ttl \in Durations, NEW t \in Clock,
         InRange(t, ttl)
  PROVE  LET added == Append(ShiftRemove(k), InternalEntry(k, v, t + ttl))
         IN  /\ IndexMap(added) /\ Len(added) = Len(ShiftRemove(k)) + 1
             /\ IndexMap(RemoveOldest(added, 1)) /\ Len(RemoveOldest(added, 1)) = Len(ShiftRemove(k))
<1> DEFINE kept == ShiftRemove(k)
           entry == InternalEntry(k, v, t + ttl)
           added == Append(kept, entry)
<1>1. IndexMap(map) /\ Scalars
  BY TypeParts
<1>2. IndexMap(kept) /\ Index(kept, k) = 0 /\ Len(kept) \in Nat
  BY <1>1, IndexRemoved
<1>3. entry \in InternalEntries /\ entry.key = k
  BY <1>1, ClockType, NewEntry
<1> HIDE DEF kept, entry
<1>4. IndexMap(added) /\ Len(added) = Len(kept) + 1
  BY <1>2, <1>3, IndexEffect, AddEffect
<1> HIDE DEF added
<1>5. 1 \in 0 .. Len(added)
  BY <1>2, <1>4
<1>6. IndexMap(Drop(added, 1)) /\ Len(Drop(added, 1)) = Len(added) - 1
  BY <1>4, <1>5, DropEffect
<1>7. Len(Drop(added, 1)) = Len(kept)
  BY <1>2, <1>4, <1>6
<1> QED BY <1>4, <1>6, <1>7 DEF RemoveOldest, kept, entry, added

\* An assignment to the value of the entry of k, or the replacement of it.
LEMMA ValueAssigned ==
  ASSUME IndexMap(map), NEW k, Index(map, k) # 0, NEW v \in Values
  PROVE  LET u == [map EXCEPT ![IndexOf(k)].value = v]
         IN  /\ IndexMap(u) /\ Len(u) = Len(map)
             /\ \A key : Has(u, key) <=> Has(map, key)
<1> DEFINE i == IndexOf(k)
           entry == [map[i] EXCEPT !.value = v]
<1>1. i \in DOMAIN map
  BY IndexEffect, Positions
<1> HIDE DEF i
<1>2. [map EXCEPT ![i].value = v] = [map EXCEPT ![i] = entry]
      /\ entry \in InternalEntries /\ entry.key = map[i].key
  BY <1>1, AssignValue
<1> HIDE DEF entry
<1> QED BY <1>1, <1>2, AssignEffect DEF i

LEMMA EntryReplaced ==
  ASSUME IndexMap(map), NEW k, Index(map, k) # 0,
         NEW entry \in InternalEntries, entry.key = k
  PROVE  LET u == [map EXCEPT ![IndexOf(k)] = entry]
         IN  /\ IndexMap(u) /\ Len(u) = Len(map)
             /\ \A key : Has(u, key) <=> Has(map, key)
<1> DEFINE i == IndexOf(k)
<1>1. i \in DOMAIN map /\ map[i].key = k
  BY IndexEffect, Positions
<1> HIDE DEF i
<1> QED BY <1>1, AssignEffect DEF i

LEMMA SameKeys ==
  ASSUME NEW seq, IndexMap(seq), NEW u, IndexMap(u), Len(u) = Len(seq),
         \A key : Has(u, key) <=> Has(seq, key), NEW b, BorrowOK(b, seq)
  PROVE  BorrowOK(b, u)
<1>1. \A k : Index(u, k) = 0 <=> Index(seq, k) = 0
  BY IndexEffect
<1> QED BY <1>1 DEF BorrowOK

\* The calls that leave a free cache behind as they found it.
LEMMA TypeFree ==
  ASSUME TypeOK, Free, borrow' = borrow, IndexMap(map'), Scalars'
  PROVE  TypeOK'
<1>1. borrow' = NoBorrow
  BY DEF Free
<1> QED BY <1>1, TypeParts, BorrowNothing

LEMMA TypeInsert ==
  ASSUME TypeOK, NEW k \in Keys, NEW v \in Values, NEW ttl \in Durations, Insert(k, v, ttl)
  PROVE  TypeOK'
<1>1. IndexMap(map) /\ Scalars
  BY TypeParts
<1>2. PICK t \in Clock :
        /\ InRange(t, ttl)
        /\ LET added == Append(ShiftRemove(k), InternalEntry(k, v, t + ttl))
           IN  /\ map' = IF Len(added) > maxSize THEN RemoveOldest(added, 1) ELSE added
               /\ now' \in t .. MaxTime
  BY DEF Insert
<1>3. IndexMap(map')
  BY <1>2, Inserted
<1>4. now' \in 0 .. MaxTime
  BY <1>1, <1>2, ClockType
<1>5. Scalars'
  BY <1>1, <1>4, AnswerType DEF Insert, Scalars, stats
<1> QED BY <1>3, <1>5, TypeFree DEF Insert

LEMMA TypeGet ==
  ASSUME TypeOK, NEW k \in Keys, Get(k) \/ \E v \in Values : GetMut(k, v)
  PROVE  TypeOK'
<1>1. IndexMap(map) /\ Scalars
  BY TypeParts
<1>2. Free /\ borrow' = borrow /\ now' \in Clock /\ Count(k, now') /\ maxSize' = maxSize
  BY DEF Get, GetMut
<1>3. IndexMap(map') /\ answer' \in Values \cup {None}
  <2>1. CASE Get(k)
    BY <1>1, <2>1, AnswerType DEF Get
  <2>2. CASE \E v \in Values : GetMut(k, v)
    <3>1. PICK v \in Values : GetMut(k, v)
      BY <2>2
    <3>2. Index(map, k) # 0
      BY <3>1, Positions DEF GetMut, Unexpired
    <3>3. IndexMap(map')
      BY <1>1, <3>1, <3>2, ValueAssigned DEF GetMut
    <3> QED BY <1>1, <3>1, <3>3 DEF GetMut, Scalars
  <2> QED BY <2>1, <2>2
<1>4. hits' \in 0 .. UsizeRange - 1 /\ misses' \in 0 .. UsizeRange - 1
  BY <1>1, <1>2, CountType
<1>5. Scalars'
  BY <1>1, <1>2, <1>3, <1>4, ClockType DEF Scalars
<1> QED BY <1>2, <1>3, <1>5, TypeFree

LEMMA TypeRemoveKey ==
  ASSUME TypeOK, NEW k \in Keys, RemoveKey(k)
  PROVE  TypeOK'
<1>1. IndexMap(map) /\ Scalars
  BY TypeParts
<1>2. IndexMap(map')
  BY <1>1, IndexRemoved DEF RemoveKey
<1>3. Scalars'
  BY <1>1, AnswerType, ClockType DEF RemoveKey, Scalars, stats
<1> QED BY <1>2, <1>3, TypeFree DEF RemoveKey

LEMMA TypeSetCapacity ==
  ASSUME TypeOK, NEW n \in Capacities, SetCapacity(n)
  PROVE  TypeOK'
<1>1. IndexMap(map) /\ Scalars /\ Len(map) \in Nat /\ n \in Nat
  BY TypeParts, TtlAssumption DEF IndexMap
<1>2. IndexMap(map')
  <2>1. CASE Len(map) > n
    <3>1. Len(map) - n \in 0 .. Len(map)
      BY <1>1, <2>1
    <3> QED BY <1>1, <2>1, <3>1, DropEffect DEF SetCapacity, RemoveOldest
  <2> QED BY <1>1, <2>1 DEF SetCapacity
<1>3. Scalars'
  BY <1>1 DEF SetCapacity, Scalars, stats
<1> QED BY <1>2, <1>3, TypeFree DEF SetCapacity

LEMMA EmptyMap == IndexMap(<<>>)
BY DEF IndexMap, Unique

LEMMA TypeEntryOf ==
  ASSUME TypeOK, NEW k \in Keys, EntryOf(k)
  PROVE  TypeOK'
<1>1. IndexMap(map) /\ Scalars
  BY TypeParts
<1>2. IndexMap(map') /\ BorrowOK(borrow', map')
  <2>1. CASE Unexpired(k, now') = None
    <3>1. map' = ShiftRemove(k) /\ borrow' = Vacant(k)
      BY <2>1 DEF EntryOf
    <3>2. IndexMap(ShiftRemove(k)) /\ Index(ShiftRemove(k), k) = 0
      BY <1>1, IndexRemoved
    <3> QED BY <3>1, <3>2, BorrowEntry
  <2>2. CASE Unexpired(k, now') # None
    <3>1. map' = map /\ borrow' = Occupied(k)
      BY <2>2 DEF EntryOf
    <3>2. Index(map, k) # 0
      BY <2>2, Positions DEF Unexpired
    <3> QED BY <1>1, <3>1, <3>2, BorrowEntry
  <2> QED BY <2>1, <2>2
<1>3. Scalars'
  BY <1>1, ClockType DEF EntryOf, Scalars, stats
<1> QED BY <1>2, <1>3, TypeParts

LEMMA TypeOccupied ==
  ASSUME TypeOK, \/ OccupiedGet
                 \/ \E v \in Values : OccupiedGetMut(v)
                 \/ \E v \in Values, ttl \in Durations : OccupiedInsert(v, ttl)
  PROVE  TypeOK'
<1> DEFINE k == borrow.key
           i == IndexOf(k)
<1>1. IndexMap(map) /\ Scalars /\ BorrowOK(borrow, map)
  BY TypeParts
<1>2. borrow.kind = "occupied" /\ borrow' = borrow /\ k \in Keys /\ Index(map, k) # 0
  <2>1. borrow.kind = "occupied" /\ borrow' = borrow
    BY DEF OccupiedGet, OccupiedGetMut, OccupiedInsert
  <2> QED BY <1>1, <2>1, Borrowed
<1>3. map[i].value \in Values
  <2>1. i \in DOMAIN map
    BY <1>1, <1>2, IndexEffect, Positions
  <2>2. map[i] \in InternalEntries
    BY <1>1, <2>1 DEF IndexMap
  <2> QED BY <2>2 DEF InternalEntries
<1> HIDE DEF k, i
<1> DEFINE Same(u) == /\ IndexMap(u) /\ Len(u) = Len(map)
                      /\ \A key : Has(u, key) <=> Has(map, key)
<1>4. Same(map')
  <2>1. CASE OccupiedGet
    BY <1>1, <2>1 DEF OccupiedGet
  <2>2. ASSUME NEW v \in Values, OccupiedGetMut(v) PROVE Same(map')
    <3>1. map' = [map EXCEPT ![IndexOf(k)].value = v]
      BY <2>2 DEF OccupiedGetMut, k
    <3> QED BY <1>1, <1>2, <3>1, ValueAssigned
  <2>3. ASSUME NEW v \in Values, NEW ttl \in Durations, OccupiedInsert(v, ttl)
        PROVE Same(map')
    <3>1. /\ map' = [map EXCEPT ![IndexOf(k)] = InternalEntry(k, v, now' + ttl)]
          /\ now' \in Clock /\ InRange(now', ttl)
      BY <2>3 DEF OccupiedInsert, k
    <3>2. /\ InternalEntry(k, v, now' + ttl) \in InternalEntries
          /\ InternalEntry(k, v, now' + ttl).key = k
      BY <1>1, <1>2, <3>1, ClockType, NewEntry
    <3> QED BY <1>1, <1>2, <3>1, <3>2, EntryReplaced
  <2> HIDE DEF Same
  <2> QED BY <2>1, <2>2, <2>3
<1>5. BorrowOK(borrow', map')
  BY <1>1, <1>2, <1>4, SameKeys
<1>6. Scalars'
  <2>1. answer' \in Values \cup {None}
    BY <1>1, <1>3 DEF OccupiedGet, OccupiedGetMut, OccupiedInsert, Scalars, i, k
  <2>2. now' \in 0 .. MaxTime
    BY <1>1, ClockType DEF OccupiedGet, OccupiedGetMut, OccupiedInsert, Scalars
  <2> QED BY <1>1, <2>1, <2>2 DEF OccupiedGet, OccupiedGetMut, OccupiedInsert, Scalars, stats
<1> QED BY <1>4, <1>5, <1>6, TypeParts

LEMMA TypeVacantInsert ==
  ASSUME TypeOK, NEW v \in Values, NEW ttl \in Durations, VacantInsert(v, ttl)
  PROVE  TypeOK'
<1> DEFINE k == borrow.key
           entry == InternalEntry(k, v, now' + ttl)
<1>1. IndexMap(map) /\ Scalars /\ BorrowOK(borrow, map)
  BY TypeParts
<1>2. k \in Keys /\ Index(map, k) = 0
  BY <1>1, Borrowed DEF VacantInsert
<1>3. map' = Append(map, entry) /\ now' \in Clock /\ InRange(now', ttl) /\ borrow' = NoBorrow
  BY DEF VacantInsert
<1> HIDE DEF k
<1>4. entry \in InternalEntries /\ entry.key = k
  BY <1>1, <1>2, <1>3, ClockType, NewEntry
<1> HIDE DEF entry
<1>5. IndexMap(map')
  BY <1>1, <1>2, <1>3, <1>4, IndexEffect, AddEffect
<1>6. Scalars'
  BY <1>1, <1>3, ClockType DEF VacantInsert, Scalars, stats
<1> QED BY <1>3, <1>5, <1>6, BorrowNothing, TypeParts

LEMMA TypeIter ==
  ASSUME TypeOK, Iter
  PROVE  TypeOK'
<1> DEFINE first == FirstUnexpired(map, 1, Len(map), now')
<1>1. IndexMap(map) /\ Scalars /\ Len(map) \in Nat
  BY TypeParts DEF IndexMap
<1>2. first \in 1 .. Len(map) + 1
  BY <1>1, FirstUnexpiredEffect
<1>3. map' = RemoveOldest(map, first - 1) /\ borrow' = IterOver(1, Len(map'), {})
  BY DEF Iter
<1> HIDE DEF first
<1>4. first - 1 \in 0 .. Len(map)
  BY <1>1, <1>2
<1>5. IndexMap(map')
  BY <1>1, <1>3, <1>4, DropEffect DEF RemoveOldest
<1>6. Len(map') \in 0 .. Len(map') /\ 1 \in 1 .. Len(map') + 1
  BY <1>5 DEF IndexMap
<1>7. BorrowOK(borrow', map')
  BY <1>3, <1>6, BorrowIterator
<1>8. Scalars'
  BY <1>1, ClockType DEF Iter, Scalars, stats
<1> QED BY <1>5, <1>7, <1>8, TypeParts

LEMMA TypeIterNext ==
  ASSUME TypeOK, IterNext \/ IterNextBack
  PROVE  TypeOK'
<1> DEFINE front == borrow.front
           back == borrow.back
           given == borrow.given
           size == Len(map)
           i == FirstUnexpired(map, front, back, now')
<1>1. IndexMap(map) /\ Scalars /\ BorrowOK(borrow, map) /\ size \in Nat /\ DOMAIN map = 1 .. size
  BY TypeParts DEF IndexMap
<1>2. front \in 1 .. size + 1 /\ back \in 0 .. size /\ given \in SUBSET Keys
  BY <1>1, Borrowed DEF IterNext, IterNextBack
<1>3. \A j \in 1 .. size : map[j].key \in Keys /\ map[j].value \in Values
  <2>1. \A j \in 1 .. size : map[j] \in InternalEntries
    BY <1>1 DEF IndexMap
  <2> QED BY <2>1 DEF InternalEntries
<1>4. map' = map /\ now' \in Clock
  BY DEF IterNext, IterNextBack
<1>5. BorrowOK(borrow', map') /\ answer' \in Values \cup {None}
  <2>1. CASE IterNext
    <3>1. i = back + 1 \/ i \in front .. back
      BY <1>1, <1>2, FirstUnexpiredEffect
    <3>2. \/ i > back /\ borrow' = IterOver(i, back, given) /\ answer' = None
          \/ /\ i <= back /\ borrow' = IterOver(i + 1, back, given \cup {map[i].key})
             /\ answer' = map[i].value
      <4>1. i \in Nat /\ back \in Nat
        BY <1>1, <1>2, <3>1
      <4>2. \/ i > back /\ borrow' = IterOver(i, back, given) /\ answer' = None
            \/ /\ ~ (i > back) /\ borrow' = IterOver(i + 1, back, given \cup {map[i].key})
               /\ answer' = map[i].value
        BY <2>1 DEF IterNext
      <4> HIDE DEF i, front, back, given
      <4> QED BY <4>1, <4>2
    <3> HIDE DEF i, front, back, given, size
    <3>3. CASE i > back
      <4>1. i \in 1 .. size + 1
        BY <1>1, <1>2, <3>1, <3>3
      <4>2. borrow' = IterOver(i, back, given) /\ answer' = None
        BY <1>1, <1>2, <3>2, <3>3, <4>1
      <4>3. BorrowOK(IterOver(i, back, given), map)
        BY <1>2, <4>1, BorrowIterator DEF size
      <4> QED BY <1>4, <4>2, <4>3
    <3>4. CASE i <= back
      <4>1. i \in 1 .. size /\ i + 1 \in 1 .. size + 1
        BY <1>1, <1>2, <3>1, <3>4
      <4>2. given \cup {map[i].key} \in SUBSET Keys /\ map[i].value \in Values
        BY <1>2, <1>3, <4>1
      <4>3. BorrowOK(IterOver(i + 1, back, given \cup {map[i].key}), map)
        BY <1>2, <4>1, <4>2, BorrowIterator DEF size
      <4> QED BY <1>2, <1>4, <3>2, <3>4, <4>1, <4>2, <4>3
    <3> QED BY <1>2, <3>1, <3>3, <3>4
  <2>2. CASE IterNextBack
    <3>1. front <= back
      BY <2>2 DEF IterNextBack
    <3>2. \/ borrow' = IterOver(front, back - 1, given) /\ answer' = None
          \/ /\ borrow' = IterOver(front, back - 1, given \cup {map[back].key})
             /\ answer' = map[back].value
      BY <2>2 DEF IterNextBack
    <3> HIDE DEF front, back, given, size
    <3>3. back \in 1 .. size /\ back - 1 \in 0 .. size
      BY <1>1, <1>2, <3>1
    <3>4. given \cup {map[back].key} \in SUBSET Keys /\ map[back].value \in Values
      BY <1>2, <1>3, <3>3
    <3>5. /\ BorrowOK(IterOver(front, back - 1, given), map)
          /\ BorrowOK(IterOver(front, back - 1, given \cup {map[back].key}), map)
      BY <1>2, <3>3, <3>4, BorrowIterator DEF size
    <3> QED BY <1>4, <3>2, <3>4, <3>5
  <2> QED BY <2>1, <2>2
<1>6. Scalars'
  BY <1>1, <1>4, <1>5, ClockType DEF IterNext, IterNextBack, Scalars, stats
<1> QED BY <1>1, <1>4, <1>5, <1>6, TypeParts

\* The calls that touch neither an entry nor an iterator's position.
LEMMA TypeOthers ==
  ASSUME TypeOK, NEW ttl, ResetStatsCounter \/ Clear \/ Release \/ InsertPanics(ttl)
  PROVE  TypeOK'
<1>1. IndexMap(map) /\ Scalars /\ UsizeRange \in Nat \ {0}
  BY TypeParts, TtlAssumption
<1>2. Scalars'
  BY <1>1, ClockType DEF ResetStatsCounter, Clear, Release, InsertPanics, Scalars, stats
<1>3. IndexMap(map') /\ borrow' = NoBorrow
  BY <1>1, EmptyMap DEF ResetStatsCounter, Clear, Release, InsertPanics, Free
<1> QED BY <1>2, <1>3, BorrowNothing, TypeParts

LEMMA TypeStep ==
  ASSUME TypeOK, [Next]_ttlVars
  PROVE  TypeOK'
<1>1. ASSUME NEW k \in Keys, NEW v \in Values, NEW ttl \in Durations, Insert(k, v, ttl)
      PROVE TypeOK'
  BY <1>1, TypeInsert
<1>2. ASSUME NEW k \in Keys, Get(k) \/ RemoveKey(k) \/ EntryOf(k) PROVE TypeOK'
  BY <1>2, TypeGet, TypeRemoveKey, TypeEntryOf
<1>3. ASSUME NEW k \in Keys, NEW v \in Values, GetMut(k, v) PROVE TypeOK'
  BY <1>3, TypeGet
<1>4. ASSUME NEW n \in Capacities, SetCapacity(n) PROVE TypeOK'
  BY <1>4, TypeSetCapacity
<1>5. ASSUME NEW ttl \in Durations, InsertPanics(ttl) PROVE TypeOK'
  BY <1>5, TypeOthers
<1>6. ASSUME ResetStatsCounter \/ Clear \/ Release PROVE TypeOK'
  BY <1>6, TypeOthers
<1>7. ASSUME OccupiedGet PROVE TypeOK'
  BY <1>7, TypeOccupied
<1>8. ASSUME NEW v \in Values, OccupiedGetMut(v) PROVE TypeOK'
  BY <1>8, TypeOccupied
<1>9. ASSUME NEW v \in Values, NEW ttl \in Durations, OccupiedInsert(v, ttl) \/ VacantInsert(v, ttl)
      PROVE TypeOK'
  BY <1>9, TypeOccupied, TypeVacantInsert
<1>10. ASSUME Iter \/ IterNext \/ IterNextBack PROVE TypeOK'
  BY <1>10, TypeIter, TypeIterNext
<1>11. ASSUME UNCHANGED ttlVars PROVE TypeOK'
  <2>1. map' = map /\ borrow' = borrow /\ (Scalars => Scalars')
    BY <1>11 DEF ttlVars, stats, Scalars
  <2> QED BY <2>1, TypeParts
<1> QED BY <1>1, <1>2, <1>3, <1>4, <1>5, <1>6, <1>7, <1>8, <1>9, <1>10, <1>11, Zenon DEF Next

LEMMA TypeStarts ==
  ASSUME Init
  PROVE  TypeOK
<1>1. Scalars
  BY TtlAssumption DEF Init, Scalars
<1> QED BY <1>1, EmptyMap, BorrowNothing, TypeParts DEF Init

\* The cache keeps its types: keys stay unique, expirations stay instants,
\* and an entry or an iterator that is held stays one of the map.
THEOREM TypeCorrect == Spec => []TypeOK
<1>1. Init => TypeOK
  BY TypeStarts
<1>2. TypeOK /\ [Next]_ttlVars => TypeOK'
  BY TypeStep
<1> QED BY <1>1, <1>2, PTL DEF Spec

-----------------------------------------------------------------------------
(* Iteration.                                                              *)

LEMMA StaysExpired ==
  ASSUME NEW entry \in InternalEntries, NEW t \in Nat, NEW u \in Nat, t <= u,
         IsExpired(entry, t)
  PROVE  IsExpired(entry, u)
<1>1. MaxInstant \in Nat
  BY TtlAssumption
<1>2. entry.expiration \in 0 .. MaxInstant
  BY DEF InternalEntries
<1> QED BY <1>1, <1>2 DEF IsExpired

\* What an iterator has passed, from either end, is expired or was given.
Passed ==
  borrow.kind = "iter" =>
    /\ borrow.front <= borrow.back + 1
    /\ \A i \in DOMAIN map :
         i < borrow.front \/ i > borrow.back =>
           IsExpired(map[i], now) \/ map[i].key \in borrow.given

LEMMA PassedStarts ==
  ASSUME TypeOK, Iter
  PROVE  Passed'
<1>1. TypeOK'
  BY TypeIter
<1>2. IndexMap(map')
  BY <1>1, TypeParts
<1>3. Len(map') \in Nat /\ DOMAIN map' = 1 .. Len(map')
  BY <1>2 DEF IndexMap
<1>4. borrow' = IterOver(1, Len(map'), {})
  BY DEF Iter
<1>5. borrow'.front = 1 /\ borrow'.back = Len(map')
  BY <1>4 DEF IterOver
<1> QED BY <1>3, <1>5 DEF Passed

LEMMA PassedNext ==
  ASSUME TypeOK, Passed, IterNext \/ IterNextBack
  PROVE  Passed'
<1> DEFINE front == borrow.front
           back == borrow.back
           given == borrow.given
           size == Len(map)
           i == FirstUnexpired(map, front, back, now')
           Done(f, b, g) ==
             /\ f <= b + 1
             /\ \A j \in 1 .. size :
                  j < f \/ j > b => IsExpired(map[j], now') \/ map[j].key \in g
<1>1. IndexMap(map) /\ Scalars /\ BorrowOK(borrow, map) /\ size \in Nat /\ DOMAIN map = 1 .. size
  BY TypeParts DEF IndexMap
<1>2. borrow.kind = "iter" /\ map' = map /\ now' \in Clock
  BY DEF IterNext, IterNextBack
<1>3. front \in 1 .. size + 1 /\ back \in 0 .. size
  BY <1>1, <1>2, Borrowed
<1>4. front <= back + 1
      /\ \A j \in 1 .. size : j < front \/ j > back => IsExpired(map[j], now) \/ map[j].key \in given
  BY <1>1, <1>2 DEF Passed
<1>5. Done(front, back, given)
  <2>1. now \in Nat /\ now' \in Nat /\ now <= now'
    BY <1>1, <1>2, ClockType DEF Scalars
  <2>2. \A j \in 1 .. size : map[j] \in InternalEntries
    BY <1>1 DEF IndexMap
  <2>3. \A j \in 1 .. size : IsExpired(map[j], now) => IsExpired(map[j], now')
    BY <2>1, <2>2, StaysExpired
  <2> HIDE DEF front, back, given, size
  <2> QED BY <1>4, <2>3
<1>6. SUFFICES ASSUME NEW f \in Int, NEW b \in Int, NEW g, Done(f, b, g), borrow' = IterOver(f, b, g)
               PROVE  Passed'
  <2>1. CASE IterNext
    <3>1. \/ i = back + 1 /\ \A j \in front .. back : IsExpired(map[j], now')
          \/ i \in front .. back /\ \A j \in front .. i - 1 : IsExpired(map[j], now')
      BY <1>1, <1>3, FirstUnexpiredEffect
    <3>2. \/ i > back /\ borrow' = IterOver(i, back, given)
          \/ ~ (i > back) /\ borrow' = IterOver(i + 1, back, given \cup {map[i].key})
      BY <2>1 DEF IterNext
    <3> HIDE DEF i, front, back, given, size
    <3>3. i \in Int /\ back \in Int /\ i + 1 \in Int
      BY <1>1, <1>3, <3>1
    <3>4. CASE i > back
      <4>1. Done(i, back, given)
        BY <1>1, <1>3, <1>5, <3>1, <3>4
      <4> QED BY <1>6, <3>2, <3>3, <3>4, <4>1
    <3>5. CASE ~ (i > back)
      <4>1. Done(i + 1, back, given \cup {map[i].key})
        BY <1>1, <1>3, <1>5, <3>1, <3>5
      <4> QED BY <1>6, <3>2, <3>3, <3>5, <4>1
    <3> QED BY <3>4, <3>5
  <2>2. CASE IterNextBack
    <3>1. /\ front <= back
          /\ \/ IsExpired(map[back], now') /\ borrow' = IterOver(front, back - 1, given)
             \/ borrow' = IterOver(front, back - 1, given \cup {map[back].key})
      BY <2>2 DEF IterNextBack
    <3> HIDE DEF front, back, given, size
    <3>2. front \in Int /\ back - 1 \in Int
      BY <1>1, <1>3
    <3>3. CASE IsExpired(map[back], now') /\ borrow' = IterOver(front, back - 1, given)
      <4>1. Done(front, back - 1, given)
        BY <1>1, <1>3, <1>5, <3>1, <3>3
      <4> QED BY <1>6, <3>2, <3>3, <4>1
    <3>4. CASE borrow' = IterOver(front, back - 1, given \cup {map[back].key})
      <4>1. Done(front, back - 1, given \cup {map[back].key})
        BY <1>1, <1>3, <1>5, <3>1
      <4> QED BY <1>6, <3>2, <3>4, <4>1
    <3> QED BY <3>1, <3>3, <3>4
  <2> QED BY <2>1, <2>2
<1>7. borrow'.front = f /\ borrow'.back = b /\ borrow'.given = g
  BY <1>6 DEF IterOver
<1> QED BY <1>1, <1>2, <1>6, <1>7 DEF Passed

LEMMA PassedStep ==
  ASSUME TypeOK, Passed, [Next]_ttlVars
  PROVE  Passed'
<1>1. CASE Iter
  BY <1>1, PassedStarts
<1>2. CASE IterNext \/ IterNextBack
  BY <1>2, PassedNext
<1>3. CASE UNCHANGED ttlVars
  BY <1>3 DEF ttlVars, Passed
<1>4. CASE Next /\ ~ Iter /\ ~ IterNext /\ ~ IterNextBack
  <2>1. BorrowOK(borrow, map)
    BY TypeParts
  <2>2. borrow'.kind # "iter"
    <3>1. CASE \E k \in Keys : EntryOf(k)
      BY <3>1 DEF EntryOf, Occupied, Vacant
    <3>2. CASE OccupiedGet \/ (\E v \in Values : OccupiedGetMut(v))
               \/ \E v \in Values, ttl \in Durations : OccupiedInsert(v, ttl)
      BY <3>2 DEF OccupiedGet, OccupiedGetMut, OccupiedInsert
    <3>3. CASE Release \/ (\E ttl \in Durations : InsertPanics(ttl))
               \/ \E v \in Values, ttl \in Durations : VacantInsert(v, ttl)
      BY <3>3, BorrowNothing DEF Release, InsertPanics, VacantInsert
    <3>4. CASE \/ \E k \in Keys, v \in Values, ttl \in Durations : Insert(k, v, ttl)
               \/ \E k \in Keys : Get(k) \/ RemoveKey(k)
               \/ \E k \in Keys, v \in Values : GetMut(k, v)
      BY <3>4, BorrowNothing DEF Insert, Get, RemoveKey, GetMut, Free
    <3>5. CASE (\E n \in Capacities : SetCapacity(n)) \/ ResetStatsCounter \/ Clear
      BY <3>5, BorrowNothing DEF SetCapacity, ResetStatsCounter, Clear, Free
    <3> QED BY <1>4, <3>1, <3>2, <3>3, <3>4, <3>5 DEF Next
  <2> QED BY <2>2 DEF Passed
<1> QED BY <1>1, <1>2, <1>3, <1>4

\* An iterator that has met its end has given every entry that is unexpired,
\* whatever mixture of next and next_back took it there, however long it took.
THEOREM IteratesAll == Spec => []IterationComplete
<1>1. Init => Passed
  BY BorrowNothing DEF Init, Passed
<1>2. TypeOK /\ Passed /\ [Next]_ttlVars => Passed'
  BY PassedStep
<1>3. TypeOK /\ Passed => IterationComplete
  <2> SUFFICES ASSUME TypeOK, Passed, borrow.kind = "iter", borrow.front > borrow.back,
                      NEW i \in DOMAIN map, ~ IsExpired(map[i], now)
               PROVE  map[i].key \in borrow.given
    BY DEF IterationComplete
  <2>1. IndexMap(map) /\ BorrowOK(borrow, map)
    BY TypeParts
  <2>2. Len(map) \in Nat /\ i \in 1 .. Len(map)
    BY <2>1 DEF IndexMap
  <2>3. borrow.front \in 1 .. Len(map) + 1 /\ borrow.back \in 0 .. Len(map)
    BY <2>1, Borrowed
  <2>4. i < borrow.front \/ i > borrow.back
    BY <2>2, <2>3
  <2> QED BY <2>4 DEF Passed
<1> QED BY <1>1, <1>2, <1>3, TypeCorrect, PTL DEF Spec

-----------------------------------------------------------------------------
(* The capacity.                                                           *)

\* A step brings the map within the capacity, or adds nothing and leaves the
\* capacity as it is, or fills a vacant entry.
LEMMA LengthStep ==
  ASSUME TypeOK, [Next]_ttlVars
  PROVE  \/ Len(map') <= maxSize'
         \/ Len(map') <= Len(map) /\ maxSize' = maxSize
         \/ \E v \in Values, ttl \in Durations : VacantInsert(v, ttl)
<1> DEFINE Kept == Len(map') <= Len(map) /\ maxSize' = maxSize
<1>1. IndexMap(map) /\ Len(map) \in Nat /\ maxSize \in Nat
  <2>1. IndexMap(map) /\ Scalars
    BY TypeParts
  <2> QED BY <2>1, TtlAssumption DEF IndexMap, Scalars
<1>2. ASSUME NEW k \in Keys, NEW v \in Values, NEW ttl \in Durations, Insert(k, v, ttl)
      PROVE  Len(map') <= maxSize' \/ Kept
  <2>1. PICK t \in Clock :
          /\ InRange(t, ttl)
          /\ LET added == Append(ShiftRemove(k), InternalEntry(k, v, t + ttl))
             IN  map' = IF Len(added) > maxSize THEN RemoveOldest(added, 1) ELSE added
    BY <1>2 DEF Insert
  <2> DEFINE added == Append(ShiftRemove(k), InternalEntry(k, v, t + ttl))
  <2>2. /\ Len(added) = Len(ShiftRemove(k)) + 1
        /\ Len(RemoveOldest(added, 1)) = Len(ShiftRemove(k))
    BY <2>1, Inserted
  <2>3. Len(ShiftRemove(k)) <= Len(map) /\ Len(ShiftRemove(k)) \in Nat
    BY <1>1, IndexRemoved
  <2>4. map' = IF Len(added) > maxSize THEN RemoveOldest(added, 1) ELSE added
    BY <2>1
  <2>5. maxSize' = maxSize
    BY <1>2 DEF Insert
  <2> HIDE DEF added
  <2> QED BY <1>1, <2>2, <2>3, <2>4, <2>5
<1>3. ASSUME NEW k \in Keys, NEW v \in Values, GetMut(k, v) PROVE Kept
  <2>1. Index(map, k) # 0
    BY <1>3, Positions DEF GetMut, Unexpired
  <2>2. Len(map') = Len(map)
    BY <1>1, <1>3, <2>1, ValueAssigned DEF GetMut
  <2> QED BY <1>1, <1>3, <2>2 DEF GetMut
<1>4. ASSUME NEW k \in Keys, RemoveKey(k) \/ EntryOf(k) PROVE Kept
  <2>1. map' = ShiftRemove(k) \/ map' = map
    BY <1>4 DEF RemoveKey, EntryOf
  <2>2. maxSize' = maxSize
    BY <1>4 DEF RemoveKey, EntryOf
  <2>3. Len(ShiftRemove(k)) <= Len(map) /\ Len(ShiftRemove(k)) \in Nat
    BY <1>1, IndexRemoved
  <2> QED BY <1>1, <2>1, <2>2, <2>3
<1>5. ASSUME NEW n \in Capacities, SetCapacity(n) PROVE Len(map') <= maxSize'
  <2>1. n \in Nat /\ maxSize' = n
    BY <1>5, TtlAssumption DEF SetCapacity
  <2>2. CASE Len(map) > n
    <3>1. Len(map) - n \in 0 .. Len(map) /\ Len(map) - (Len(map) - n) = n
      BY <1>1, <2>1, <2>2
    <3>2. map' = Drop(map, Len(map) - n)
      BY <1>5, <2>2 DEF SetCapacity, RemoveOldest
    <3>3. Len(map') = n
      BY <1>1, <3>1, <3>2, DropEffect
    <3> QED BY <2>1, <3>3
  <2>3. CASE ~ (Len(map) > n)
    BY <1>1, <1>5, <2>1, <2>3 DEF SetCapacity
  <2> QED BY <2>2, <2>3
<1>6. ASSUME NEW ttl \in Durations, InsertPanics(ttl) PROVE Kept
  BY <1>1, <1>6 DEF InsertPanics
<1>7. ASSUME ResetStatsCounter \/ Clear \/ Release \/ OccupiedGet PROVE Kept
  BY <1>1, <1>7 DEF ResetStatsCounter, Clear, Release, OccupiedGet
<1>8. ASSUME NEW v \in Values, OccupiedGetMut(v) PROVE Kept
  <2>1. Index(map, borrow.key) # 0
    BY <1>8, TypeParts, Borrowed DEF OccupiedGetMut
  <2>2. Len(map') = Len(map)
    BY <1>1, <1>8, <2>1, ValueAssigned DEF OccupiedGetMut
  <2> QED BY <1>1, <1>8, <2>2 DEF OccupiedGetMut
<1>9. ASSUME NEW v \in Values, NEW ttl \in Durations, OccupiedInsert(v, ttl) PROVE Kept
  <2>1. Len(map') = Len(map)
    BY <1>1, <1>9 DEF OccupiedInsert, IndexMap
  <2> QED BY <1>1, <1>9, <2>1 DEF OccupiedInsert
<1>10. ASSUME Iter PROVE Kept
  <2> DEFINE first == FirstUnexpired(map, 1, Len(map), now')
  <2>1. first \in 1 .. Len(map) + 1
    BY <1>1, FirstUnexpiredEffect
  <2>2. map' = RemoveOldest(map, first - 1) /\ maxSize' = maxSize
    BY <1>10 DEF Iter
  <2> HIDE DEF first
  <2>3. first - 1 \in 0 .. Len(map)
    BY <1>1, <2>1
  <2>4. Len(map') = Len(map) - (first - 1)
    BY <1>1, <2>2, <2>3, DropEffect DEF RemoveOldest
  <2> QED BY <1>1, <2>2, <2>3, <2>4
<1>11. ASSUME (\E k \in Keys : Get(k)) \/ IterNext \/ IterNextBack PROVE Kept
  BY <1>1, <1>11 DEF Get, IterNext, IterNextBack
<1>12. ASSUME UNCHANGED ttlVars PROVE Kept
  BY <1>1, <1>12 DEF ttlVars
<1> HIDE DEF Kept
<1>13. \/ Len(map') <= maxSize' \/ Kept
       \/ \E v \in Values, ttl \in Durations : VacantInsert(v, ttl)
  BY <1>2, <1>3, <1>4, <1>5, <1>6, <1>7, <1>8, <1>9, <1>10, <1>11, <1>12, Zenon DEF Next
<1> QED BY <1>13 DEF Kept

\* Only the insert of a vacant entry takes the map over its capacity, and no
\* other call adds to a map that is full or over-full.
THEOREM VacantOverfills == Spec => OnlyVacantOverfills
<1>1. TypeOK /\ [Next]_ttlVars
        => [Len(map') <= maxSize' \/ Len(map') <= Len(map) \/ borrow.kind = "vacant"]_ttlVars
  BY LengthStep DEF VacantInsert
<1> QED BY <1>1, TypeCorrect, PTL DEF Spec, OnlyVacantOverfills

Fills == \E v \in Values, ttl \in Durations : VacantInsert(v, ttl)

\* "can hold at most `capacity` items" (ttl_cache.rs:166) is true of a cache
\* whose vacant entries are never filled, with set_capacity and over-full
\* inserts among its calls.
THEOREM CapacityWithoutFills ==
  Init /\ [][Next /\ ~ Fills]_ttlVars => []CapacityRespected
<1>1. Init => TypeOK /\ CapacityRespected
  <2>1. Init => TypeOK
    BY TypeStarts
  <2>2. Init => CapacityRespected
    BY TtlAssumption DEF Init, CapacityRespected
  <2> QED BY <2>1, <2>2
<1>2. TypeOK /\ [Next /\ ~ Fills]_ttlVars => TypeOK'
  BY TypeStep
<1>3. TypeOK /\ CapacityRespected /\ [Next /\ ~ Fills]_ttlVars => CapacityRespected'
  <2> SUFFICES ASSUME TypeOK, CapacityRespected, [Next /\ ~ Fills]_ttlVars
               PROVE  CapacityRespected'
    OBVIOUS
  <2>1. CASE UNCHANGED ttlVars
    BY <2>1 DEF ttlVars, CapacityRespected
  <2>2. CASE Next /\ ~ Fills
    <3>1. Len(map') <= maxSize' \/ (Len(map') <= Len(map) /\ maxSize' = maxSize)
      BY <2>2, LengthStep DEF Fills
    <3>2. IndexMap(map) /\ IndexMap(map') /\ Scalars
      BY TypeStep, TypeParts, <2>2
    <3>3. Len(map) \in Nat /\ Len(map') \in Nat /\ maxSize \in Nat
      BY <3>2, TtlAssumption DEF IndexMap, Scalars
    <3> QED BY <3>1, <3>3 DEF CapacityRespected
  <2> QED BY <2>1, <2>2
<1> QED BY <1>1, <1>2, <1>3, PTL

-----------------------------------------------------------------------------
(* Equal times to live.                                                    *)

\* The entries are in the order of their expirations, none of which is later
\* than that of an entry made at t.
InOrder(seq, t) ==
  /\ \A i, j \in DOMAIN seq : i < j => seq[i].expiration <= seq[j].expiration
  /\ \A i \in DOMAIN seq : \A ttl \in Durations : seq[i].expiration <= t + ttl

LEMMA Expirations ==
  ASSUME NEW seq, IndexMap(seq)
  PROVE  /\ \A i \in DOMAIN seq : seq[i].expiration \in Nat
         /\ DOMAIN seq = 1 .. Len(seq) /\ Len(seq) \in Nat
<1>1. MaxInstant \in Nat
  BY TtlAssumption
<1>2. \A i \in DOMAIN seq : seq[i] \in InternalEntries
  BY DEF IndexMap
<1>3. \A i \in DOMAIN seq : seq[i].expiration \in Nat
  BY <1>1, <1>2 DEF InternalEntries
<1> QED BY <1>3 DEF IndexMap

LEMMA InOrderLater ==
  ASSUME NEW seq, IndexMap(seq), NEW t \in Nat, InOrder(seq, t), NEW u \in Nat, t <= u
  PROVE  InOrder(seq, u)
<1>1. Durations \subseteq Nat
  BY TtlAssumption
<1>2. \A i \in DOMAIN seq : \A ttl \in Durations : seq[i].expiration <= u + ttl
  <2> TAKE i \in DOMAIN seq
  <2> TAKE ttl \in Durations
  <2>1. seq[i].expiration \in Nat /\ ttl \in Nat /\ seq[i].expiration <= t + ttl
    BY <1>1, Expirations DEF InOrder
  <2> QED BY <2>1
<1> QED BY <1>2 DEF InOrder

LEMMA InOrderKept ==
  ASSUME NEW seq, IndexMap(seq), NEW t, InOrder(seq, t), NEW S
  PROVE  InOrder(Only(seq, S), t)
<1> DEFINE kept == Only(seq, S)
<1>1. \E e : Embeds(e, kept, seq)
  BY OnlyMembers DEF IndexMap
<1> HIDE DEF kept
<1>2. PICK e : Embeds(e, kept, seq)
  BY <1>1
<1>3. \A i \in DOMAIN kept : e[i] \in DOMAIN seq /\ kept[i] = seq[e[i]]
  BY <1>2 DEF Embeds
<1>4. \A i, j \in DOMAIN kept : i < j => kept[i].expiration <= kept[j].expiration
  BY <1>2, <1>3 DEF Embeds, InOrder
<1> QED BY <1>3, <1>4 DEF InOrder, kept

LEMMA InOrderDrop ==
  ASSUME NEW seq, IndexMap(seq), NEW t, InOrder(seq, t), NEW n \in 0 .. Len(seq)
  PROVE  InOrder(Drop(seq, n), t)
<1> DEFINE rest == Drop(seq, n)
           size == Len(seq)
<1>1. /\ Len(rest) = size - n /\ rest \in Seq(InternalEntries)
      /\ \A i \in 1 .. size - n : rest[i] = seq[n + i]
  BY Split DEF IndexMap
<1>2. size \in Nat /\ n \in 0 .. size /\ DOMAIN rest = 1 .. size - n /\ DOMAIN seq = 1 .. size
  BY <1>1 DEF IndexMap
<1> HIDE DEF rest, size
<1>3. \A i \in DOMAIN rest : i \in Nat /\ n + i \in DOMAIN seq /\ rest[i] = seq[n + i]
  BY <1>1, <1>2
<1>4. \A i, j \in DOMAIN rest : i < j => rest[i].expiration <= rest[j].expiration
  <2> TAKE i, j \in DOMAIN rest
  <2> HAVE i < j
  <2>1. n + i < n + j
    BY <1>2, <1>3
  <2> QED BY <1>3, <2>1 DEF InOrder
<1> QED BY <1>3, <1>4 DEF InOrder, rest

LEMMA InOrderAdd ==
  ASSUME \A c, d \in Durations : c = d,
         NEW seq, IndexMap(seq), NEW t \in Nat, InOrder(seq, t),
         NEW entry, NEW ttl \in Durations, entry.expiration = t + ttl
  PROVE  InOrder(Append(seq, entry), t)
<1> DEFINE u == Append(seq, entry)
           size == Len(seq)
<1>1. /\ size \in Nat /\ DOMAIN seq = 1 .. size /\ DOMAIN u = 1 .. size + 1
      /\ u[size + 1] = entry /\ \A i \in 1 .. size : u[i] = seq[i]
  BY DEF IndexMap
<1>2. \A i \in DOMAIN seq : seq[i].expiration <= entry.expiration
  BY DEF InOrder
<1>3. ttl \in Nat /\ \A d \in Durations : d = ttl
  BY TtlAssumption
<1> HIDE DEF u, size
<1>4. \A i \in DOMAIN u : i = size + 1 \/ (i \in DOMAIN seq /\ u[i] = seq[i])
  BY <1>1
<1>5. \A i, j \in DOMAIN u : i < j => u[i].expiration <= u[j].expiration
  <2> TAKE i, j \in DOMAIN u
  <2> HAVE i < j
  <2>1. i \in DOMAIN seq /\ u[i] = seq[i]
    BY <1>1
  <2> QED BY <1>1, <1>2, <1>4, <2>1 DEF InOrder
<1>6. \A i \in DOMAIN u : \A d \in Durations : u[i].expiration <= t + d
  <2> TAKE i \in DOMAIN u
  <2> TAKE d \in Durations
  <2>1. CASE i = size + 1
    <3>1. u[i].expiration = t + d /\ t + d \in Nat
      BY <1>1, <1>3, <2>1
    <3> QED BY <3>1
  <2>2. CASE i # size + 1
    BY <1>4, <2>2 DEF InOrder
  <2> QED BY <2>1, <2>2
<1> QED BY <1>5, <1>6 DEF InOrder, u

Renews == \E v \in Values, ttl \in Durations : OccupiedInsert(v, ttl)

LEMMA InOrderStep ==
  ASSUME \A c, d \in Durations : c = d, TypeOK, InOrder(map, now), [Next /\ ~ Renews]_ttlVars
  PROVE  InOrder(map', now')
<1>0. IndexMap(map) /\ Scalars
  BY TypeParts
<1>1. now \in Nat /\ \A t \in Clock : t \in Nat /\ now <= t
  BY <1>0, ClockType DEF Scalars
<1>2. \A t \in Clock : InOrder(map, t)
  BY <1>0, <1>1, InOrderLater
<1>3. ASSUME NEW k \in Keys, NEW v \in Values, NEW ttl \in Durations, Insert(k, v, ttl)
      PROVE  InOrder(map', now')
  <2>1. PICK t \in Clock :
          /\ InRange(t, ttl)
          /\ LET added == Append(ShiftRemove(k), InternalEntry(k, v, t + ttl))
             IN  /\ map' = IF Len(added) > maxSize THEN RemoveOldest(added, 1) ELSE added
                 /\ now' \in t .. MaxTime
    BY <1>3 DEF Insert
  <2> DEFINE kept == ShiftRemove(k)
             entry == InternalEntry(k, v, t + ttl)
             added == Append(kept, entry)
  <2>2. IndexMap(kept) /\ kept = Only(map, Others(k)) /\ Len(kept) \in Nat
    BY <1>0, IndexRemoved
  <2>3. InOrder(kept, t)
    BY <1>0, <1>2, <2>2, InOrderKept
  <2>4. entry.expiration = t + ttl
    BY DEF InternalEntry
  <2>5. IndexMap(added) /\ Len(added) = Len(kept) + 1 /\ IndexMap(RemoveOldest(added, 1))
    BY <2>1, Inserted
  <2>6. map' = RemoveOldest(added, 1) \/ map' = added
    BY <2>1
  <2>7. now' \in t .. MaxTime
    BY <2>1
  <2> HIDE DEF kept, entry
  <2>8. InOrder(added, t)
    BY <1>1, <2>2, <2>3, <2>4, InOrderAdd
  <2> HIDE DEF added
  <2>9. InOrder(RemoveOldest(added, 1), t)
    <3>1. 1 \in 0 .. Len(added)
      BY <2>2, <2>5
    <3> QED BY <2>5, <2>8, <3>1, InOrderDrop DEF RemoveOldest
  <2>10. now' \in Nat /\ t <= now'
    BY <1>1, <2>7, TtlAssumption
  <2> QED BY <1>1, <2>5, <2>6, <2>8, <2>9, <2>10, InOrderLater
<1> DEFINE SameOrder(u) == /\ DOMAIN u = DOMAIN map
                           /\ \A i \in DOMAIN map : u[i].expiration = map[i].expiration
<1>4. ASSUME now' \in Clock, SameOrder(map') PROVE InOrder(map', now')
  BY <1>2, <1>4 DEF InOrder
<1>5. ASSUME NEW k, Index(map, k) # 0, NEW v \in Values,
             map' = [map EXCEPT ![IndexOf(k)].value = v]
      PROVE  SameOrder(map')
  <2> DEFINE i == IndexOf(k)
  <2>1. i \in DOMAIN map
    BY <1>0, <1>5, IndexEffect, Positions
  <2> HIDE DEF i
  <2>2. /\ map' = [map EXCEPT ![i] = [map[i] EXCEPT !.value = v]]
        /\ [map[i] EXCEPT !.value = v].expiration = map[i].expiration
    BY <1>0, <1>5, <2>1, AssignValue DEF i
  <2> QED BY <2>1, <2>2
<1> HIDE DEF SameOrder
<1>6. ASSUME NEW k \in Keys, NEW v \in Values, GetMut(k, v) PROVE InOrder(map', now')
  <2>1. Index(map, k) # 0
    BY <1>6, Positions DEF GetMut, Unexpired
  <2> QED BY <1>4, <1>5, <1>6, <2>1 DEF GetMut
<1>7. ASSUME NEW v \in Values, OccupiedGetMut(v) PROVE InOrder(map', now')
  <2>1. Index(map, borrow.key) # 0
    BY <1>7, TypeParts, Borrowed DEF OccupiedGetMut
  <2>2. SameOrder(map') /\ now' = now
    BY <1>5, <1>7, <2>1 DEF OccupiedGetMut
  <2> QED BY <2>2 DEF SameOrder, InOrder
<1>8. ASSUME NEW k \in Keys, RemoveKey(k) \/ EntryOf(k) PROVE InOrder(map', now')
  <2>1. now' \in Clock /\ (map' = ShiftRemove(k) \/ map' = map)
    BY <1>8 DEF RemoveKey, EntryOf
  <2>2. InOrder(map, now')
    BY <1>2, <2>1
  <2> QED BY <1>0, <2>1, <2>2, IndexRemoved, InOrderKept
<1>9. ASSUME NEW n \in Capacities, SetCapacity(n) PROVE InOrder(map', now')
  <2>1. n \in Nat /\ Len(map) \in Nat /\ now' = now
    BY <1>0, <1>9, TtlAssumption, Expirations DEF SetCapacity
  <2>2. CASE Len(map) > n
    <3>1. Len(map) - n \in 0 .. Len(map) /\ map' = Drop(map, Len(map) - n)
      BY <1>9, <2>1, <2>2 DEF SetCapacity, RemoveOldest
    <3> QED BY <1>0, <2>1, <3>1, InOrderDrop
  <2> QED BY <1>9, <2>1, <2>2 DEF SetCapacity
<1>10. ASSUME Clear PROVE InOrder(map', now')
  BY <1>10 DEF Clear, InOrder
<1>11. ASSUME NEW v \in Values, NEW ttl \in Durations, VacantInsert(v, ttl) PROVE InOrder(map', now')
  <2>1. /\ now' \in Clock
        /\ map' = Append(map, InternalEntry(borrow.key, v, now' + ttl))
        /\ InternalEntry(borrow.key, v, now' + ttl).expiration = now' + ttl
    BY <1>11 DEF VacantInsert, InternalEntry
  <2> QED BY <1>0, <1>1, <1>2, <2>1, InOrderAdd
<1>12. ASSUME Iter PROVE InOrder(map', now')
  <2> DEFINE first == FirstUnexpired(map, 1, Len(map), now')
  <2>0. Len(map) \in Nat
    BY <1>0, Expirations
  <2>1. first \in 1 .. Len(map) + 1 /\ Len(map) \in Nat
    BY <2>0, FirstUnexpiredEffect
  <2>2. map' = Drop(map, first - 1) /\ now' \in Clock
    BY <1>12 DEF Iter, RemoveOldest
  <2> HIDE DEF first
  <2>3. first - 1 \in 0 .. Len(map)
    BY <2>1
  <2>4. InOrder(map, now')
    BY <1>2, <2>2
  <2> QED BY <1>0, <2>2, <2>3, <2>4, InOrderDrop
<1>13. ASSUME (\E k \in Keys : Get(k)) \/ (\E ttl \in Durations : InsertPanics(ttl))
              \/ IterNext \/ IterNextBack
       PROVE  InOrder(map', now')
  <2>1. map' = map /\ now' \in Clock
    BY <1>13 DEF Get, InsertPanics, IterNext, IterNextBack
  <2> QED BY <1>2, <2>1
<1>14. ASSUME ResetStatsCounter \/ Release \/ OccupiedGet \/ UNCHANGED ttlVars
       PROVE  InOrder(map', now')
  BY <1>14 DEF ResetStatsCounter, Release, OccupiedGet, ttlVars
<1> QED BY <1>3, <1>6, <1>7, <1>8, <1>9, <1>10, <1>11, <1>12, <1>13, <1>14, Zenon
        DEF Next, Renews

\* The comment of next_back (ttl_cache.rs:649-650), "if the previous entry is
\* expired, every else before it will be expired too", is true of a cache all
\* of whose entries have one time to live, as long as no occupied entry is
\* given a new value with insert, which renews it in its old place.
THEOREM BackwardEndOfEqualTimes ==
  ASSUME \A c, d \in Durations : c = d
  PROVE  Init /\ [][Next /\ ~ Renews]_ttlVars => BackwardEndIsFinal
<1> DEFINE Final == (/\ borrow.kind = "iter" /\ borrow'.kind = "iter"
                     /\ borrow'.back < borrow.back /\ answer' = None)
                      => \A i \in borrow.front .. borrow.back : IsExpired(map[i], now')
<1>1. Init => TypeOK /\ InOrder(map, now)
  BY TypeStarts DEF Init, InOrder
<1>2. TypeOK /\ [Next /\ ~ Renews]_ttlVars => TypeOK'
  BY TypeStep
<1>3. TypeOK /\ InOrder(map, now) /\ [Next /\ ~ Renews]_ttlVars => InOrder(map, now)'
  BY InOrderStep
<1>4. TypeOK /\ InOrder(map, now) /\ [Next /\ ~ Renews]_ttlVars => [Final]_ttlVars
  <2> SUFFICES ASSUME TypeOK, InOrder(map, now), Next, borrow.kind = "iter", borrow'.kind = "iter",
                      borrow'.back < borrow.back, answer' = None
               PROVE  \A i \in borrow.front .. borrow.back : IsExpired(map[i], now')
    OBVIOUS
  <2>1. IndexMap(map) /\ BorrowOK(borrow, map) /\ Scalars
    BY TypeParts
  <2> DEFINE front == borrow.front
             back == borrow.back
  <2>2. front \in 1 .. Len(map) + 1 /\ back \in 0 .. Len(map)
        /\ DOMAIN map = 1 .. Len(map) /\ Len(map) \in Nat
    BY <2>1, Borrowed, Expirations
  <2>3. IterNextBack
    <3>1. borrow # NoBorrow /\ borrow' # NoBorrow
      BY BorrowNothing
    <3>2. ~ IterNext
      <4>1. ASSUME IterNext PROVE borrow'.back = back
        BY <4>1 DEF IterNext, IterOver
      <4> QED BY <2>2, <4>1
    <3>3. borrow' # borrow
      BY <2>2
    <3> QED BY <3>1, <3>2, <3>3, Zenon
        DEF Next, Insert, Get, RemoveKey, EntryOf, GetMut, SetCapacity, InsertPanics, ResetStatsCounter,
            Clear, Release, OccupiedGet, OccupiedGetMut, OccupiedInsert, VacantInsert, Iter, Free
  <2>4. front <= back /\ now' \in Clock
        /\ (IsExpired(map[back], now') \/ answer' = map[back].value)
    BY <2>3 DEF IterNextBack
  <2> HIDE DEF front, back
  <2>5. \A i \in DOMAIN map : map[i] \in InternalEntries
    BY <2>1 DEF IndexMap
  <2>6. back \in DOMAIN map
    BY <2>2, <2>4
  <2>7. IsExpired(map[back], now')
    <3>1. map[back].value \in Values
      BY <2>5, <2>6 DEF InternalEntries
    <3> QED BY <2>4, <3>1, TtlAssumption
  <2>8. now' \in Nat
    BY <2>1, <2>4, ClockType
  <2>9. SUFFICES ASSUME NEW i \in front .. back PROVE IsExpired(map[i], now')
    BY DEF front, back
  <2>10. i \in DOMAIN map /\ (i < back \/ i = back)
    BY <2>2
  <2>11. map[i].expiration \in Nat /\ map[back].expiration \in Nat
    BY <2>1, <2>6, <2>10, Expirations
  <2>12. map[i].expiration <= map[back].expiration
    BY <2>6, <2>10, <2>11 DEF InOrder
  <2> QED BY <2>7, <2>8, <2>11, <2>12 DEF IsExpired
<1> QED BY <1>1, <1>2, <1>3, <1>4, PTL DEF BackwardEndIsFinal

-----------------------------------------------------------------------------
(* The unexpired entries, and what ExpiringMap says of them.               *)

Fresh(t) == {entry \in InternalEntries : ~IsExpired(entry, t)}
Live(seq, t) == Only(seq, Fresh(t))

LEMMA ObservedOperators ==
  /\ \A s, S : Observed!Only(s, S) = Only(s, S)
  /\ \A s, n : Observed!Drop(s, n) = Drop(s, n)
<1>1. \A s, S : Observed!Only(s, S) = Only(s, S)
  BY DEF Observed!Only, Only, Observed!Chosen, Chosen
<1>2. \A s, n : Observed!Drop(s, n) = Drop(s, n)
  BY DEF Observed!Drop, Drop
<1> QED BY <1>1, <1>2

LEMMA EntryIsPair ==
  ASSUME NEW entry \in InternalEntries
  PROVE  entry \in Observed!Pairs /\ entry.expiration \in Nat
<1>1. MaxInstant \in Nat
  BY TtlAssumption
<1> QED BY <1>1 DEF InternalEntries, Observed!Pairs

LEMMA AliveIsLive ==
  ASSUME NEW seq \in Seq(InternalEntries), NEW t \in Nat
  PROVE  Observed!Alive(seq, t) = Live(seq, t)
<1> DEFINE S == {pair \in Observed!Pairs : pair.expiration >= t}
<1>1. \A i \in DOMAIN seq : seq[i] \in S <=> seq[i] \in Fresh(t)
  <2> TAKE i \in DOMAIN seq
  <2>1. seq[i] \in InternalEntries
    OBVIOUS
  <2> QED BY <2>1, EntryIsPair DEF Fresh, IsExpired
<1>2. Observed!Alive(seq, t) = Only(seq, S)
  BY ObservedOperators DEF Observed!Alive
<1> HIDE DEF S
<1> QED BY <1>1, <1>2, OnlySame DEF Live

LEMMA WithoutIsOthers ==
  ASSUME NEW seq \in Seq(InternalEntries), NEW k
  PROVE  Observed!Without(seq, k) = Only(seq, Others(k))
<1> DEFINE S == {pair \in Observed!Pairs : pair.key # k}
<1>1. \A i \in DOMAIN seq : seq[i] \in S <=> seq[i] \in Others(k)
  <2> TAKE i \in DOMAIN seq
  <2>1. seq[i] \in InternalEntries
    OBVIOUS
  <2> QED BY <2>1, EntryIsPair DEF Others
<1>2. Observed!Without(seq, k) = Only(seq, S)
  BY ObservedOperators DEF Observed!Without
<1> HIDE DEF S
<1> QED BY <1>1, <1>2, OnlySame

LEMMA LiveMembers ==
  ASSUME NEW seq, IndexMap(seq), NEW t
  PROVE  /\ IndexMap(Live(seq, t)) /\ Live(seq, t) \in Seq(InternalEntries)
         /\ Len(Live(seq, t)) \in Nat
         /\ Range(Live(seq, t)) = Range(seq) \cap Fresh(t)
<1>1. IndexMap(Live(seq, t)) /\ Range(Live(seq, t)) = Range(seq) \cap Fresh(t)
  BY KeptEffect, OnlyMembers DEF Live, IndexMap
<1> QED BY <1>1 DEF IndexMap

\* The unexpired at u are the unexpired at u of those at any earlier t.
LEMMA FreshLater ==
  ASSUME NEW t \in Nat, NEW u \in Nat, t <= u
  PROVE  Fresh(t) \cap Fresh(u) = Fresh(u)
BY StaysExpired DEF Fresh

LEMMA LiveLater ==
  ASSUME NEW seq \in Seq(InternalEntries), NEW t \in Nat, NEW u \in Nat, t <= u
  PROVE  Live(Live(seq, t), u) = Live(seq, u)
BY OnlyOnly, FreshLater DEF Live

LEMMA LiveOthers ==
  ASSUME NEW seq \in Seq(InternalEntries), NEW t, NEW k
  PROVE  Only(Live(seq, t), Others(k)) = Live(Only(seq, Others(k)), t)
<1>1. Only(Live(seq, t), Others(k)) = Only(seq, Fresh(t) \cap Others(k))
  BY OnlyOnly DEF Live
<1>2. Live(Only(seq, Others(k)), t) = Only(seq, Others(k) \cap Fresh(t))
  BY OnlyOnly DEF Live
<1>3. Fresh(t) \cap Others(k) = Others(k) \cap Fresh(t)
  OBVIOUS
<1> QED BY <1>1, <1>2, <1>3

LEMMA LiveAppend ==
  ASSUME NEW seq \in Seq(InternalEntries), NEW entry \in InternalEntries, NEW t,
         ~ IsExpired(entry, t)
  PROVE  Live(Append(seq, entry), t) = Append(Live(seq, t), entry)
<1>1. entry \in Fresh(t)
  BY DEF Fresh
<1> QED BY <1>1, OnlyAppend DEF Live

\* Eviction of entries is eviction of those among them that are unexpired.
LEMMA LiveDrop ==
  ASSUME NEW seq \in Seq(InternalEntries), NEW n \in 0 .. Len(seq), NEW t
  PROVE  \E m \in 0 .. n : m <= Len(Live(seq, t)) /\ Live(Drop(seq, n), t) = Drop(Live(seq, t), m)
BY OnlyDrop DEF Live

LEMMA LiveDropExpired ==
  ASSUME NEW seq \in Seq(InternalEntries), NEW n \in 0 .. Len(seq), NEW t,
         \A i \in 1 .. n : IsExpired(seq[i], t)
  PROVE  Live(Drop(seq, n), t) = Live(seq, t)
<1> DEFINE a == SubSeq(seq, 1, n)
<1>1. a \in Seq(InternalEntries) /\ Len(a) = n /\ \A i \in 1 .. n : a[i] = seq[i]
  BY Split
<1> HIDE DEF a
<1>2. \A i \in DOMAIN a : a[i] \notin Fresh(t)
  BY <1>1 DEF Fresh
<1>3. Only(a, Fresh(t)) = <<>>
  BY <1>1, <1>2, OnlyNone
<1>4. Live(Drop(seq, n), t) = Drop(Live(seq, t), 0)
  BY <1>3, OnlyDrop DEF Live, a
<1>5. Live(seq, t) \in Seq(InternalEntries)
  BY OnlyMembers DEF Live
<1> QED BY <1>4, <1>5, DropNone

\* Removing an entry that is not there, or expired, removes nothing unexpired.
LEMMA LiveWithoutStale ==
  ASSUME NEW seq, IndexMap(seq), NEW t, NEW k,
         Index(seq, k) = 0 \/ IsExpired(seq[Index(seq, k)], t)
  PROVE  Live(Only(seq, Others(k)), t) = Live(seq, t)
<1>0. seq \in Seq(InternalEntries) /\ \A i \in DOMAIN seq : seq[i] \in InternalEntries
  BY DEF IndexMap
<1>1. \A i \in DOMAIN seq : seq[i] \in Others(k) \cap Fresh(t) <=> seq[i] \in Fresh(t)
  <2> SUFFICES ASSUME NEW i \in DOMAIN seq, seq[i] \in Fresh(t), seq[i].key = k PROVE FALSE
    BY <1>0 DEF Others
  <2>1. Index(seq, k) = i /\ i # 0
    BY <1>0, IndexEffect
  <2> QED BY <2>1 DEF Fresh
<1>2. Live(Only(seq, Others(k)), t) = Only(seq, Others(k) \cap Fresh(t))
  BY <1>0, OnlyOnly DEF Live
<1> QED BY <1>0, <1>1, <1>2, OnlySame DEF Live

\* The value of k among the unexpired entries is the one the cache finds.
LEMMA ValuesLive ==
  ASSUME NEW seq, IndexMap(seq), NEW t, NEW k
  PROVE  Observed!ValuesOf(Live(seq, t), k) =
           IF Index(seq, k) = 0 \/ IsExpired(seq[Index(seq, k)], t) THEN {}
           ELSE {seq[Index(seq, k)].value}
<1> DEFINE live == Live(seq, t)
           i == Index(seq, k)
<1>1. Range(live) = Range(seq) \cap Fresh(t)
  BY LiveMembers
<1>2. \A j \in DOMAIN live : \E m \in DOMAIN seq : live[j] = seq[m] /\ ~ IsExpired(seq[m], t)
  BY <1>1 DEF Range, Fresh
<1>3. \A m \in DOMAIN seq : ~ IsExpired(seq[m], t) => \E j \in DOMAIN live : live[j] = seq[m]
  <2> SUFFICES ASSUME NEW m \in DOMAIN seq, ~ IsExpired(seq[m], t)
               PROVE  \E j \in DOMAIN live : live[j] = seq[m]
    OBVIOUS
  <2>1. seq[m] \in InternalEntries
    BY DEF IndexMap
  <2>2. seq[m] \in Range(live)
    BY <1>1, <2>1 DEF Range, Fresh
  <2> QED BY <2>2 DEF Range
<1>4. /\ i # 0 => i \in DOMAIN seq /\ seq[i].key = k
      /\ \A m \in DOMAIN seq : seq[m].key = k => i = m
      /\ 0 \notin DOMAIN seq
  BY IndexEffect DEF IndexMap
<1> HIDE DEF live, i
<1>5. \A j \in DOMAIN live : live[j].key = k => i # 0 /\ live[j] = seq[i] /\ ~ IsExpired(seq[i], t)
  BY <1>2, <1>4
<1>6. CASE i = 0 \/ IsExpired(seq[i], t)
  <2>1. \A j \in DOMAIN live : live[j].key # k
    BY <1>5, <1>6
  <2>2. Observed!ValuesOf(live, k) = {}
    BY <2>1 DEF Observed!ValuesOf
  <2> QED BY <1>6, <2>2 DEF live, i
<1>7. CASE ~ (i = 0 \/ IsExpired(seq[i], t))
  <2>1. PICK j \in DOMAIN live : live[j] = seq[i]
    BY <1>3, <1>4, <1>7
  <2>2. \A m \in DOMAIN live : live[m].key = k => live[m].value = seq[i].value
    BY <1>5
  <2>3. live[j].key = k /\ live[j].value = seq[i].value
    BY <1>4, <1>7, <2>1
  <2>4. Observed!ValuesOf(live, k) = {seq[i].value}
    BY <2>2, <2>3 DEF Observed!ValuesOf
  <2> QED BY <1>7, <2>4 DEF live, i
<1> QED BY <1>6, <1>7

LEMMA AliveLater ==
  ASSUME NEW seq \in Seq(InternalEntries), NEW t \in Nat, NEW u \in Nat, t <= u
  PROVE  Observed!Alive(Live(seq, t), u) = Live(seq, u)
<1>1. Live(seq, t) \in Seq(InternalEntries)
  BY OnlyMembers DEF Live
<1> QED BY <1>1, AliveIsLive, LiveLater

LEMMA ValueSeen ==
  ASSUME TypeOK, NEW k, NEW t \in Clock
  PROVE  Observed!ValueAt(k, t) = Unexpired(k, t)
<1> DEFINE i == IndexOf(k)
<1>1. IndexMap(map) /\ Scalars /\ map \in Seq(InternalEntries)
  BY TypeParts DEF IndexMap
<1>2. now \in Nat /\ t \in Nat /\ now <= t
  BY <1>1, ClockType DEF Scalars
<1>3. Observed!Alive(Live(map, now), t) = Live(map, t)
  BY <1>1, <1>2, AliveLater
<1>4. Observed!ValuesOf(Live(map, t), k) =
        IF i = 0 \/ IsExpired(map[i], t) THEN {} ELSE {map[i].value}
  BY <1>1, ValuesLive, Positions
<1>5. i # 0 => map[i].value \in Values
  <2>1. i # 0 => map[i] \in InternalEntries
    BY <1>1, IndexEffect, Positions DEF IndexMap
  <2> QED BY <2>1 DEF InternalEntries
<1>6. Observed!ValueAt(k, t) =
        IF Observed!ValuesOf(Live(map, t), k) = {} THEN None
        ELSE CHOOSE v \in Values : v \in Observed!ValuesOf(Live(map, t), k)
  <2>1. Observed!ValueAt(k, t) =
          IF Observed!ValuesOf(Observed!Alive(Live(map, now), t), k) = {} THEN None
          ELSE CHOOSE v \in Values : v \in Observed!ValuesOf(Observed!Alive(Live(map, now), t), k)
    BY DEF Observed!ValueAt, Live, Fresh
  <2> QED BY <1>3, <2>1
<1>7. Unexpired(k, t) = IF i = 0 \/ IsExpired(map[i], t) THEN None ELSE map[i].value
  BY DEF Unexpired
<1> HIDE DEF i
<1> QED BY <1>4, <1>5, <1>6, <1>7

Assigned(live, k, v) ==
  [j \in DOMAIN live |-> IF live[j].key = k THEN [live[j] EXCEPT !.value = v] ELSE live[j]]

\* after is seq with v for the value of k.
ValueGiven(seq, k, v, after) ==
  after = [seq EXCEPT ![Index(seq, k)] = [seq[Index(seq, k)] EXCEPT !.value = v]]

\* Assigning to the value of k in the map is doing so among the unexpired.
LEMMA LiveAssign ==
  ASSUME NEW seq, IndexMap(seq), NEW k, Index(seq, k) # 0, NEW v \in Values, NEW t,
         NEW after, ValueGiven(seq, k, v, after)
  PROVE  Live(after, t) = Assigned(Live(seq, t), k, v)
<1> DEFINE live == Live(seq, t)
           i == Index(seq, k)
           f == [x \in InternalEntries |-> IF x.key = k THEN [x EXCEPT !.value = v] ELSE x]
           u == [seq EXCEPT ![i] = [seq[i] EXCEPT !.value = v]]
<1>1. /\ i \in DOMAIN seq /\ seq[i].key = k
      /\ \A j \in DOMAIN seq : seq[j].key = k => i = j
  BY IndexEffect
<1>2. /\ seq \in Seq(InternalEntries) /\ live \in Seq(InternalEntries)
      /\ \A j \in DOMAIN seq : seq[j] \in InternalEntries
      /\ \A j \in DOMAIN live : live[j] \in InternalEntries
  <2>1. live \in Seq(InternalEntries)
    BY LiveMembers
  <2> HIDE DEF live
  <2> QED BY <2>1 DEF IndexMap
<1>3. \A x \in InternalEntries :
        /\ [x EXCEPT !.value = v] \in InternalEntries
        /\ [x EXCEPT !.value = v].expiration = x.expiration
  BY DEF InternalEntries
<1>4. \A x \in InternalEntries : f[x] = IF x.key = k THEN [x EXCEPT !.value = v] ELSE x
  OBVIOUS
<1>5. f \in [InternalEntries -> InternalEntries]
  BY <1>3
<1>6. \A x \in InternalEntries : f[x] \in Fresh(t) <=> x \in Fresh(t)
  BY <1>3, <1>4 DEF Fresh, IsExpired
<1> HIDE DEF f, i
<1>7. u = [j \in DOMAIN seq |-> f[seq[j]]]
  <2>1. \A j \in DOMAIN seq : u[j] = f[seq[j]]
    BY <1>1, <1>2, <1>4
  <2>2. u = [j \in DOMAIN seq |-> u[j]]
    OBVIOUS
  <2> HIDE DEF u
  <2> QED BY <2>1, <2>2
<1>8. Live([j \in DOMAIN seq |-> f[seq[j]]], t) = [j \in DOMAIN live |-> f[live[j]]]
  <2>1. seq \in Seq(InternalEntries)
    BY <1>2
  <2> HIDE DEF live
  <2>2. Only([j \in DOMAIN seq |-> f[seq[j]]], Fresh(t)) =
          [j \in DOMAIN Only(seq, Fresh(t)) |-> f[Only(seq, Fresh(t))[j]]]
    BY <1>5, <1>6, <2>1, OnlyMapped
  <2> QED BY <2>2 DEF Live, live
<1> HIDE DEF live, u
<1>9. [j \in DOMAIN live |-> f[live[j]]] =
        [j \in DOMAIN live |-> IF live[j].key = k THEN [live[j] EXCEPT !.value = v] ELSE live[j]]
  BY <1>2, <1>4
<1> QED BY <1>7, <1>8, <1>9 DEF live, u, i, Assigned, ValueGiven

\* Replacing the entry of k where it is.
LEMMA LiveReplace ==
  ASSUME NEW seq, IndexMap(seq), NEW i \in DOMAIN seq, NEW k, seq[i].key = k,
         NEW entry \in InternalEntries, NEW t \in Nat, NEW u \in Nat, t <= u,
         ~ IsExpired(entry, u)
  PROVE  LET others == Only(Live(seq, t), Others(k))
         IN  \E place \in 0 .. Len(others) :
               Live([seq EXCEPT ![i] = entry], u) =
                 Live((SubSeq(others, 1, place) \o <<entry>>) \o Drop(others, place), u)
<1> DEFINE E == InternalEntries
           new == <<entry>>
           old == <<seq[i]>>
           others == Only(Live(seq, t), Others(k))
<1>1. /\ seq \in Seq(E) /\ seq[i] \in E /\ Len(seq) \in Nat /\ i \in 1 .. Len(seq)
      /\ DOMAIN seq = 1 .. Len(seq)
  BY DEF IndexMap
<1> PICK a, b : Around(a, b, E, seq, i)
  BY <1>1, Replace
<1>2. /\ a \in Seq(E) /\ Len(a) = i - 1 /\ \A j \in 1 .. i - 1 : a[j] = seq[j]
      /\ b \in Seq(E) /\ Len(b) = Len(seq) - i /\ \A j \in 1 .. Len(seq) - i : b[j] = seq[i + j]
      /\ \A x \in E : [seq EXCEPT ![i] = x] = Join(Join(a, <<x>>), b)
  BY DEF Around
<1>3. [seq EXCEPT ![i] = entry] = Join(Join(a, new), b) /\ seq = Join(Join(a, old), b)
  <2>1. [seq EXCEPT ![i] = seq[i]] = seq
    BY <1>1
  <2>2. [seq EXCEPT ![i] = seq[i]] = Join(Join(a, old), b)
    BY <1>1, <1>2
  <2>3. [seq EXCEPT ![i] = entry] = Join(Join(a, new), b)
    BY <1>2
  <2> QED BY <2>1, <2>2, <2>3
<1>4. new \in Seq(E) /\ old \in Seq(E)
  BY <1>1
<1>5. /\ Only(old, Others(k)) = <<>>
      /\ Only(new, Fresh(u)) = new
  <2>1. seq[i] \notin Others(k) /\ entry \in Fresh(u)
    BY DEF Others, Fresh
  <2> QED BY <1>1, <2>1, OnlySingle
<1> HIDE DEF new, old
<1>6. /\ \A j \in DOMAIN a : a[j] \in Others(k)
      /\ \A j \in DOMAIN b : b[j] \in Others(k)
  <2>1. \A m \in 1 .. Len(seq) : m # i => seq[m] \in Others(k)
    <3>1. \A m \in 1 .. Len(seq) : seq[m] \in E
      BY <1>1
    <3> QED BY <1>1, <3>1 DEF Others, IndexMap, Unique
  <2>2. DOMAIN a = 1 .. i - 1 /\ DOMAIN b = 1 .. Len(seq) - i
    <3>1. Len(a) = i - 1 /\ Len(b) = Len(seq) - i
      BY <1>2
    <3> QED BY <3>1
  <2>3. \A j \in DOMAIN a : j \in 1 .. Len(seq) /\ j # i
    BY <1>1, <2>2
  <2>4. \A j \in DOMAIN b : i + j \in 1 .. Len(seq) /\ i + j # i
    BY <1>1, <2>2
  <2> QED BY <1>2, <2>1, <2>2, <2>3, <2>4
<1>7. \A y \in Seq(E) : \A S : Only(Join(Join(a, y), b), S) =
                                 Join(Join(Only(a, S), Only(y, S)), Only(b, S))
  <2>1. \A y \in Seq(E) : Join(a, y) \in Seq(E)
    BY <1>2, JoinType
  <2> QED BY <1>2, <2>1, OnlyJoin
<1>8. Only(seq, Others(k)) = Join(a, b)
  <2>1. Only(a, Others(k)) = a /\ Only(b, Others(k)) = b
    BY <1>2, <1>6, OnlyAll
  <2>2. Join(a, <<>>) = a
    BY <1>2, JoinEmpty
  <2> QED BY <1>3, <1>4, <1>5, <1>7, <2>1, <2>2
<1> DEFINE la == Live(a, t)
           lb == Live(b, t)
<1>9. la \in Seq(E) /\ lb \in Seq(E)
  BY <1>2, OnlyMembers DEF Live
<1>10. others = Join(la, lb)
  <2>1. others = Live(Only(seq, Others(k)), t)
    BY <1>1, LiveOthers
  <2> QED BY <1>2, <1>8, <2>1, OnlyJoin DEF Live
<1>11. Live(la, u) = Live(a, u) /\ Live(lb, u) = Live(b, u)
  BY <1>2, LiveLater
<1>12. Live([seq EXCEPT ![i] = entry], u) = Join(Join(Live(a, u), new), Live(b, u))
  BY <1>3, <1>4, <1>5, <1>7 DEF Live
<1> HIDE DEF la, lb, others
<1>13. Live(Join(Join(la, new), lb), u) = Join(Join(Live(la, u), new), Live(lb, u))
  <2>1. Join(la, new) \in Seq(E)
    BY <1>4, <1>9, JoinType
  <2> QED BY <1>4, <1>5, <1>9, <2>1, OnlyJoin DEF Live
<1>14. /\ SubSeq(others, 1, Len(la)) = la /\ Drop(others, Len(la)) = lb
       /\ Len(la) \in 0 .. Len(others)
  <2>1. SubSeq(others, 1, Len(la)) = la /\ Drop(others, Len(la)) = lb
        /\ Len(others) = Len(la) + Len(lb)
    BY <1>9, <1>10, JoinParts, JoinItems
  <2>2. Len(la) \in Nat /\ Len(lb) \in Nat
    BY <1>9
  <2> QED BY <2>1, <2>2
<1>15. Live([seq EXCEPT ![i] = entry], u) =
         Live(Join(Join(SubSeq(others, 1, Len(la)), new), Drop(others, Len(la))), u)
  BY <1>11, <1>12, <1>13, <1>14
<1> QED BY <1>14, <1>15 DEF others, new, Join

-----------------------------------------------------------------------------
(* What each call does to the unexpired entries.                           *)

\* The entries stay, and some of them expire.
LEMMA SeenLater ==
  ASSUME TypeOK, NEW t \in Clock
  PROVE  /\ Observed!Alive(Live(map, now), t) = Live(map, t)
         /\ t \in now .. MaxTime /\ t \in Nat /\ now \in Nat /\ now <= t
         /\ IndexMap(map) /\ map \in Seq(InternalEntries)
<1>1. IndexMap(map) /\ Scalars /\ map \in Seq(InternalEntries)
  BY TypeParts DEF IndexMap
<1>2. now \in Nat /\ t \in Nat /\ now <= t
  BY <1>1, ClockType DEF Scalars
<1>3. t \in now .. MaxTime
  BY DEF Clock
<1> QED BY <1>1, <1>2, <1>3, AliveLater

LEMMA SeenGet ==
  ASSUME TypeOK, NEW k \in Keys, Get(k)
  PROVE  Observed!Lookup(k)
<1>1. now' \in Clock /\ map' = map /\ answer' = Unexpired(k, now') /\ Count(k, now')
  BY DEF Get
<1>2. now' \in now .. MaxTime /\ Live(map', now') = Observed!Alive(Live(map, now), now')
  BY <1>1, SeenLater
<1>3. answer' = Observed!ValueAt(k, now')
  BY <1>1, ValueSeen
<1>4. IF answer' = None THEN misses' = (misses + 1) % UsizeRange /\ UNCHANGED hits
                        ELSE hits' = (hits + 1) % UsizeRange /\ UNCHANGED misses
  BY <1>1 DEF Count
<1> QED BY <1>2, <1>3, <1>4 DEF Observed!Lookup, Observed!Elapse, Live, Fresh

LEMMA SeenInsert ==
  ASSUME TypeOK, NEW k \in Keys, NEW v \in Values, NEW ttl \in Durations, Insert(k, v, ttl)
  PROVE  Observed!Insert(k, v, ttl)
<1>1. PICK t \in Clock :
        /\ InRange(t, ttl)
        /\ LET added == Append(ShiftRemove(k), InternalEntry(k, v, t + ttl))
           IN  /\ map' = IF Len(added) > maxSize THEN RemoveOldest(added, 1) ELSE added
               /\ now' \in t .. MaxTime
  BY DEF Insert
<1> DEFINE kept == ShiftRemove(k)
           entry == InternalEntry(k, v, t + ttl)
           added == Append(kept, entry)
           live == Live(map, now)
<1>2. /\ map' = RemoveOldest(added, 1) \/ map' = added
      /\ now' \in t .. MaxTime
  BY <1>1
<1>3. t \in Nat /\ now \in Nat /\ now <= t /\ IndexMap(map) /\ map \in Seq(InternalEntries)
  BY SeenLater
<1>4. now' \in Clock /\ now' \in Nat /\ t <= now' /\ now <= now' /\ t \in now .. now'
      /\ now' \in now .. MaxTime
  BY <1>2, <1>3, TtlAssumption DEF Clock
<1>5. entry \in InternalEntries /\ entry = Observed!Pair(k, v, t + ttl)
      /\ ~ IsExpired(entry, now)
  <2>1. entry \in InternalEntries /\ entry.expiration = t + ttl
    BY <1>1, <1>3, NewEntry
  <2>2. ttl \in Nat
    BY TtlAssumption
  <2> QED BY <1>3, <2>1, <2>2 DEF IsExpired, InternalEntry, Observed!Pair
<1>6. kept \in Seq(InternalEntries) /\ kept = Only(map, Others(k))
  BY <1>3, IndexRemoved DEF IndexMap
<1>7. added \in Seq(InternalEntries) /\ Len(added) = Len(kept) + 1
  BY <1>1, Inserted DEF IndexMap
<1>8. Observed!Without(live, k) = Live(kept, now)
  <2>1. live \in Seq(InternalEntries)
    BY <1>3, LiveMembers
  <2> QED BY <1>3, <1>6, <2>1, WithoutIsOthers, LiveOthers
<1> HIDE DEF kept, entry
<1>9. Append(Live(kept, now), entry) = Live(added, now)
  BY <1>5, <1>6, LiveAppend
<1> HIDE DEF added, live
<1>10. PICK n \in {0, 1} : Live(map', now) = Drop(Live(added, now), n) /\ map' \in Seq(InternalEntries)
  <2>1. added \in Seq(InternalEntries) /\ 1 \in 0 .. Len(added)
    BY <1>6, <1>7
  <2>2. PICK m \in 0 .. 1 : Live(Drop(added, 1), now) = Drop(Live(added, now), m)
    BY <2>1, LiveDrop
  <2>3. Drop(added, 1) \in Seq(InternalEntries)
    BY <2>1, Split
  <2>4. Live(added, now) = Drop(Live(added, now), 0)
    <3>1. Live(added, now) \in Seq(InternalEntries)
      BY <2>1, OnlyMembers DEF Live
    <3> QED BY <3>1, DropNone
  <2>5. m \in {0, 1}
    BY <2>2
  <2> QED BY <1>2, <2>1, <2>2, <2>3, <2>4, <2>5 DEF RemoveOldest
<1>11. Live(map', now') =
         Observed!Alive(Observed!Drop(Append(Observed!Without(live, k),
                                             Observed!Pair(k, v, t + ttl)), n), now')
  <2>1. Observed!Alive(Live(map', now), now') = Live(map', now')
    BY <1>3, <1>4, <1>10, AliveLater
  <2> QED BY <1>5, <1>8, <1>9, <1>10, <2>1, ObservedOperators
<1>12. answer' = Observed!ValueAt(k, now')
  BY <1>4, ValueSeen DEF Insert
<1>13. UNCHANGED Observed!stats
  BY DEF Insert, stats, Observed!stats
<1> QED BY <1>4, <1>11, <1>12, <1>13 DEF Observed!Insert, Observed!Elapse, live, Live, Fresh

\* An assignment through a reference, from get_mut or from an occupied entry.
LEMMA SeenAssign ==
  ASSUME TypeOK, NEW k, Index(map, k) # 0, NEW v \in Values, now' \in Clock, answer' = answer,
         map' = [map EXCEPT ![IndexOf(k)].value = v]
  PROVE  Observed!Write(k, v)
<1> DEFINE live == Live(map, now)
           written == Assigned(live, k, v)
<1>1. /\ now' \in now .. MaxTime /\ now \in Nat /\ now' \in Nat /\ now <= now'
      /\ IndexMap(map) /\ map \in Seq(InternalEntries)
  BY SeenLater
<1>2. ValueGiven(map, k, v, map')
  <2>1. Index(map, k) = IndexOf(k) /\ Index(map, k) \in DOMAIN map
    BY <1>1, Positions, IndexEffect
  <2> QED BY <1>1, <2>1, AssignValue DEF ValueGiven
<1>3. map' \in Seq(InternalEntries)
  BY <1>1, ValueAssigned DEF IndexMap
<1>4. Live(map', now) = written
  <2>1. IndexMap(map)
    BY <1>1
  <2> QED BY <1>2, <2>1, LiveAssign
<1> HIDE DEF written
<1>5. Live(map', now') = Observed!Alive(written, now')
  BY <1>1, <1>3, <1>4, AliveLater
<1> QED BY <1>1, <1>5 DEF Observed!Write, Observed!Elapse, written, Assigned, live, Live, Fresh

LEMMA SeenGetMut ==
  ASSUME TypeOK, NEW k \in Keys, NEW v \in Values, GetMut(k, v)
  PROVE  Observed!Update(k, v)
<1>1. now' \in Clock /\ Unexpired(k, now') # None
  BY DEF GetMut
<1>2. Index(map, k) # 0
  BY <1>1, Positions DEF Unexpired
<1>3. Observed!Write(k, v)
  BY <1>1, <1>2, SeenAssign DEF GetMut
<1>4. Observed!ValueAt(k, now') # None
  BY <1>1, ValueSeen
<1>5. hits' = (hits + 1) % UsizeRange /\ UNCHANGED misses
  BY <1>1 DEF GetMut, Count
<1> QED BY <1>3, <1>4, <1>5 DEF Observed!Update

LEMMA SeenRemoveKey ==
  ASSUME TypeOK, NEW k \in Keys, RemoveKey(k)
  PROVE  Observed!Remove(k)
<1> DEFINE live == Live(map, now)
<1>1. now' \in Clock /\ map' = ShiftRemove(k) /\ answer' = Unexpired(k, now')
  BY DEF RemoveKey
<1>2. /\ now' \in now .. MaxTime /\ now \in Nat /\ now' \in Nat /\ now <= now'
      /\ IndexMap(map) /\ map \in Seq(InternalEntries)
  BY <1>1, SeenLater
<1>3. map' = Only(map, Others(k)) /\ map' \in Seq(InternalEntries)
  BY <1>1, <1>2, IndexRemoved DEF IndexMap
<1>4. Observed!Without(live, k) = Live(map', now)
  <2>1. live \in Seq(InternalEntries)
    BY <1>2, LiveMembers
  <2> QED BY <1>2, <1>3, <2>1, WithoutIsOthers, LiveOthers
<1>5. Live(map', now') = Observed!Alive(Observed!Without(live, k), now')
  BY <1>2, <1>3, <1>4, AliveLater
<1>6. answer' = Observed!ValueAt(k, now')
  BY <1>1, ValueSeen
<1>7. UNCHANGED Observed!stats
  BY DEF RemoveKey, stats, Observed!stats
<1> QED BY <1>2, <1>5, <1>6, <1>7 DEF Observed!Remove, Observed!Elapse, live, Live, Fresh

\* Entries are taken from the front of the map at one instant.
LEMMA SeenEvict ==
  ASSUME TypeOK, NEW n \in 0 .. Len(map), map' = Drop(map, n), UNCHANGED <<now, answer, stats>>
  PROVE  Observed!Evict \/ UNCHANGED Observed!vars
<1>1. map \in Seq(InternalEntries)
  BY TypeParts DEF IndexMap
<1> DEFINE live == Live(map, now)
<1>2. PICK m \in 0 .. n : m <= Len(live) /\ Live(map', now') = Drop(live, m)
  BY <1>1, LiveDrop
<1>3. live \in Seq(InternalEntries)
  BY <1>1, OnlyMembers DEF Live
<1>4. UNCHANGED <<now, answer, Observed!stats>>
  BY DEF stats, Observed!stats
<1> HIDE DEF live
<1>5. CASE m = 0
  <2>1. Live(map', now') = live
    BY <1>2, <1>3, <1>5, DropNone
  <2> QED BY <1>4, <2>1 DEF Observed!vars, live, Live, Fresh
<1>6. CASE m # 0
  <2>1. m \in 1 .. Len(live) /\ Live(map', now') = Observed!Drop(live, m)
    BY <1>1, <1>2, <1>3, <1>6, ObservedOperators
  <2>2. Observed!Evict
    BY <1>4, <2>1 DEF Observed!Evict, live, Live, Fresh
  <2> QED BY <2>2
<1> QED BY <1>5, <1>6

LEMMA SeenSetCapacity ==
  ASSUME TypeOK, (\E n \in Capacities : SetCapacity(n)) \/ Clear
  PROVE  Observed!Evict \/ UNCHANGED Observed!vars
<1>1. map \in Seq(InternalEntries) /\ Len(map) \in Nat
  BY TypeParts DEF IndexMap
<1>2. UNCHANGED <<now, answer, stats>>
  BY DEF SetCapacity, Clear
<1>3. CASE Clear
  <2>1. map' = Drop(map, Len(map)) /\ Len(map) \in 0 .. Len(map)
    BY <1>1, <1>3, DropAll DEF Clear
  <2> QED BY <1>2, <2>1, SeenEvict
<1>4. ASSUME NEW n \in Capacities, SetCapacity(n)
      PROVE  \E m \in 0 .. Len(map) : map' = Drop(map, m)
  <2>1. n \in Nat
    BY TtlAssumption
  <2>2. CASE Len(map) > n
    <3>1. Len(map) - n \in 0 .. Len(map) /\ map' = Drop(map, Len(map) - n)
      BY <1>1, <1>4, <2>1, <2>2 DEF SetCapacity, RemoveOldest
    <3> QED BY <3>1
  <2>3. CASE ~ (Len(map) > n)
    <3>1. map' = Drop(map, 0) /\ 0 \in 0 .. Len(map)
      BY <1>1, <1>4, <2>3, DropNone DEF SetCapacity
    <3> QED BY <3>1
  <2> QED BY <2>2, <2>3
<1> QED BY <1>2, <1>3, <1>4, SeenEvict

\* A call that gives nothing back and takes away nothing that is unexpired.
LEMMA SeenWait ==
  ASSUME TypeOK, now' \in Clock, Live(map', now') = Live(map, now'), UNCHANGED <<answer, stats>>
  PROVE  Observed!Wait
<1>1. now' \in now .. MaxTime /\ Live(map', now') = Observed!Alive(Live(map, now), now')
  BY SeenLater
<1>2. UNCHANGED <<answer, Observed!stats>>
  BY DEF stats, Observed!stats
<1> QED BY <1>1, <1>2 DEF Observed!Wait, Observed!Elapse, Live, Fresh

LEMMA SeenEntryOf ==
  ASSUME TypeOK, NEW k \in Keys, EntryOf(k)
  PROVE  Observed!Wait
<1>1. now' \in Clock /\ IndexMap(map) /\ UNCHANGED <<answer, stats>>
  BY SeenLater DEF EntryOf
<1>2. Live(map', now') = Live(map, now')
  <2>1. CASE Unexpired(k, now') = None
    <3>1. map' = Only(map, Others(k))
      BY <1>1, <2>1, IndexRemoved DEF EntryOf
    <3>2. Index(map, k) = 0 \/ IsExpired(map[Index(map, k)], now')
      <4>1. Index(map, k) # 0 => map[Index(map, k)].value \in Values
        <5>1. Index(map, k) # 0 => map[Index(map, k)] \in InternalEntries
          BY <1>1, IndexEffect DEF IndexMap
        <5> QED BY <5>1 DEF InternalEntries
      <4> QED BY <2>1, <4>1, Positions, TtlAssumption DEF Unexpired
    <3> QED BY <1>1, <3>1, <3>2, LiveWithoutStale
  <2>2. CASE Unexpired(k, now') # None
    BY <2>2 DEF EntryOf
  <2> QED BY <2>1, <2>2
<1> QED BY <1>1, <1>2, SeenWait

LEMMA SeenIter ==
  ASSUME TypeOK, Iter
  PROVE  Observed!Wait
<1> DEFINE first == FirstUnexpired(map, 1, Len(map), now')
<1>1. now' \in Clock /\ UNCHANGED <<answer, stats>> /\ map' = Drop(map, first - 1)
  BY DEF Iter, RemoveOldest
<1>2. map \in Seq(InternalEntries) /\ Len(map) \in Nat
  BY <1>1, SeenLater
<1>3. first \in 1 .. Len(map) + 1 /\ \A i \in 1 .. first - 1 : IsExpired(map[i], now')
  <2>1. \/ first = Len(map) + 1 /\ \A j \in 1 .. Len(map) : IsExpired(map[j], now')
        \/ /\ first \in 1 .. Len(map)
           /\ \A j \in 1 .. first - 1 : IsExpired(map[j], now')
    BY <1>2, FirstUnexpiredEffect
  <2> HIDE DEF first
  <2> QED BY <1>2, <2>1
<1> HIDE DEF first
<1>4. first - 1 \in 0 .. Len(map)
  BY <1>2, <1>3
<1>5. Live(map', now') = Live(map, now')
  BY <1>1, <1>2, <1>3, <1>4, LiveDropExpired
<1> QED BY <1>1, <1>5, SeenWait

LEMMA SeenPanic ==
  ASSUME TypeOK, NEW ttl, InsertPanics(ttl)
  PROVE  Observed!Wait
BY SeenWait DEF InsertPanics

LEMMA SeenIterNext ==
  ASSUME TypeOK, IterNext \/ IterNextBack
  PROVE  Observed!Read
<1> DEFINE front == borrow.front
           back == borrow.back
           live == Live(map, now')
           i == FirstUnexpired(map, front, back, now')
<1>1. now' \in Clock /\ map' = map /\ UNCHANGED stats
  BY DEF IterNext, IterNextBack
<1>2. /\ now' \in now .. MaxTime /\ Live(map', now') = Observed!Alive(Live(map, now), now')
      /\ IndexMap(map)
  BY <1>1, SeenLater
<1>3. front \in 1 .. Len(map) + 1 /\ back \in 0 .. Len(map) /\ Len(map) \in Nat
      /\ DOMAIN map = 1 .. Len(map)
  <2>1. BorrowOK(borrow, map) /\ borrow.kind = "iter"
    BY TypeParts DEF IterNext, IterNextBack
  <2> QED BY <1>2, <2>1, Borrowed DEF IndexMap
<1>4. \A j \in DOMAIN map : ~ IsExpired(map[j], now') =>
        map[j].value \in {live[m].value : m \in DOMAIN live}
  <2> SUFFICES ASSUME NEW j \in DOMAIN map, ~ IsExpired(map[j], now')
               PROVE  \E m \in DOMAIN live : map[j].value = live[m].value
    OBVIOUS
  <2>1. map[j] \in InternalEntries
    BY <1>2 DEF IndexMap
  <2>2. map[j] \in Range(map) \cap Fresh(now')
    BY <2>1 DEF Range, Fresh
  <2>3. map[j] \in Range(live)
    BY <1>2, <2>2, LiveMembers
  <2> HIDE DEF live
  <2> QED BY <2>3 DEF Range
<1>5. answer' \in {None} \cup {live[m].value : m \in DOMAIN live}
  <2>1. CASE IterNext
    <3>1. \/ i = back + 1
          \/ i \in front .. back /\ ~ IsExpired(map[i], now')
      BY <1>3, FirstUnexpiredEffect
    <3>2. \/ i > back /\ answer' = None
          \/ ~ (i > back) /\ answer' = map[i].value
      BY <2>1 DEF IterNext
    <3> HIDE DEF i, front, back, live
    <3>3. CASE i > back
      BY <1>3, <3>1, <3>2, <3>3
    <3>4. CASE ~ (i > back)
      <4>1. i \in DOMAIN map /\ ~ IsExpired(map[i], now')
        BY <1>3, <3>1, <3>4
      <4> QED BY <1>4, <3>2, <3>4, <4>1
    <3> QED BY <3>3, <3>4
  <2>2. CASE IterNextBack
    <3>1. front <= back /\ (answer' = None \/ (~ IsExpired(map[back], now') /\ answer' = map[back].value))
      BY <2>2 DEF IterNextBack
    <3> HIDE DEF front, back, live
    <3>2. back \in DOMAIN map
      BY <1>3, <3>1
    <3> QED BY <1>4, <3>1, <3>2
  <2> QED BY <2>1, <2>2
<1>6. answer' \in {None} \cup {Live(map', now')[m].value : m \in DOMAIN Live(map', now')}
  BY <1>1, <1>5
<1>7. UNCHANGED Observed!stats
  BY <1>1 DEF stats, Observed!stats
<1> QED BY <1>2, <1>6, <1>7 DEF Observed!Read, Observed!Elapse, Live, Fresh

LEMMA SeenOccupiedGet ==
  ASSUME TypeOK, OccupiedGet
  PROVE  Observed!Stale
<1>1. IndexMap(map) /\ BorrowOK(borrow, map) /\ borrow.kind = "occupied"
  BY TypeParts DEF OccupiedGet
<1>2. IndexOf(borrow.key) \in DOMAIN map
  BY <1>1, Borrowed, IndexEffect, Positions
<1>3. map[IndexOf(borrow.key)] \in InternalEntries
  BY <1>1, <1>2 DEF IndexMap
<1>4. answer' \in Values
  BY <1>3 DEF OccupiedGet, InternalEntries
<1>5. UNCHANGED <<map, now, stats>>
  BY DEF OccupiedGet
<1> QED BY <1>4, <1>5 DEF Observed!Stale, stats, Observed!stats

LEMMA SeenOccupiedGetMut ==
  ASSUME TypeOK, NEW v \in Values, OccupiedGetMut(v)
  PROVE  \E k \in Keys : Observed!Write(k, v) /\ UNCHANGED Observed!stats
<1>1. BorrowOK(borrow, map) /\ borrow.kind = "occupied" /\ Scalars
  BY TypeParts DEF OccupiedGetMut
<1>2. borrow.key \in Keys /\ Index(map, borrow.key) # 0
  BY <1>1, Borrowed
<1>3. now' = now /\ now' \in Clock
  <2>1. now' = now /\ now \in 0 .. MaxTime /\ MaxTime \in Nat
    BY <1>1, TtlAssumption DEF OccupiedGetMut, Scalars
  <2> QED BY <2>1 DEF Clock
<1>4. Observed!Write(borrow.key, v)
  BY <1>2, <1>3, SeenAssign DEF OccupiedGetMut
<1> QED BY <1>2, <1>4 DEF OccupiedGetMut, stats, Observed!stats

LEMMA SeenOccupiedInsert ==
  ASSUME TypeOK, NEW v \in Values, NEW ttl \in Durations, OccupiedInsert(v, ttl)
  PROVE  \E k \in Keys : Observed!Renew(k, v, ttl)
<1> DEFINE k == borrow.key
           i == IndexOf(k)
           entry == InternalEntry(k, v, now' + ttl)
           live == Live(map, now)
           others == Only(live, Others(k))
<1>1. BorrowOK(borrow, map) /\ borrow.kind = "occupied" /\ now' \in Clock /\ InRange(now', ttl)
  BY TypeParts DEF OccupiedInsert
<1>2. /\ now' \in now .. MaxTime /\ now \in Nat /\ now' \in Nat /\ now <= now'
      /\ IndexMap(map) /\ map \in Seq(InternalEntries)
  BY <1>1, SeenLater
<1>3. k \in Keys /\ i \in DOMAIN map /\ map[i].key = k /\ map[i] \in InternalEntries
  <2>1. k \in Keys /\ i \in DOMAIN map /\ map[i].key = k
    BY <1>1, <1>2, Borrowed, IndexEffect, Positions
  <2> QED BY <1>2, <2>1 DEF IndexMap
<1>4. map' = [map EXCEPT ![i] = entry] /\ answer' = map[i].value
  BY DEF OccupiedInsert
<1>5. answer' \in Values
  BY <1>3, <1>4 DEF InternalEntries
<1>6. UNCHANGED Observed!stats
  BY DEF OccupiedInsert, stats, Observed!stats
<1> HIDE DEF k, i
<1>7. entry \in InternalEntries /\ entry = Observed!Pair(k, v, now' + ttl)
      /\ ~ IsExpired(entry, now')
  <2>1. entry \in InternalEntries /\ entry.expiration = now' + ttl
    BY <1>1, <1>2, <1>3, NewEntry
  <2>2. ttl \in Nat
    BY TtlAssumption
  <2>3. entry = Observed!Pair(k, v, now' + ttl)
    BY DEF InternalEntry, Observed!Pair
  <2> HIDE DEF entry
  <2>4. ~ (now' > now' + ttl)
    <3>1. now' \in Nat
      BY <1>2
    <3>2. \A n, m \in Nat : ~ (n > n + m)
      OBVIOUS
    <3> QED BY <2>2, <3>1, <3>2
  <2>5. ~ (now' > entry.expiration)
    BY <2>1, <2>4
  <2> QED BY <2>1, <2>3, <2>5 DEF IsExpired
<1> HIDE DEF entry
<1>8. PICK place \in 0 .. Len(others) :
        Live([map EXCEPT ![i] = entry], now') =
          Live((SubSeq(others, 1, place) \o <<entry>>) \o Drop(others, place), now')
  BY <1>2, <1>3, <1>7, LiveReplace
<1>9. live \in Seq(InternalEntries) /\ others = Observed!Without(live, k)
  <2>1. live \in Seq(InternalEntries)
    BY <1>2, LiveMembers
  <2> HIDE DEF live
  <2> QED BY <2>1, WithoutIsOthers
<1>10. others \in Seq(InternalEntries)
  BY <1>9, OnlyMembers
<1> HIDE DEF others
<1> DEFINE joined == (SubSeq(others, 1, place) \o <<entry>>) \o Drop(others, place)
<1>11. joined \in Seq(InternalEntries)
  <2>1. SubSeq(others, 1, place) \in Seq(InternalEntries) /\ Drop(others, place) \in Seq(InternalEntries)
    BY <1>10, Split
  <2>2. <<entry>> \in Seq(InternalEntries)
    BY <1>7
  <2>3. Join(SubSeq(others, 1, place), <<entry>>) \in Seq(InternalEntries)
    BY <2>1, <2>2, JoinType
  <2>4. Join(Join(SubSeq(others, 1, place), <<entry>>), Drop(others, place)) \in Seq(InternalEntries)
    BY <2>1, <2>3, JoinType
  <2> QED BY <2>4, Zenon DEF Join
<1>12. Live(map', now') = Observed!Alive(joined, now')
  <2> HIDE DEF joined
  <2>1. Live(map', now') = Live(joined, now')
    BY <1>4, <1>8 DEF joined
  <2> QED BY <1>2, <1>11, <2>1, AliveIsLive
<1>13. joined = SubSeq(Observed!Without(live, k), 1, place)
                  \o <<Observed!Pair(k, v, now' + ttl)>>
                  \o Observed!Drop(Observed!Without(live, k), place)
  BY <1>7, <1>9, ObservedOperators
<1>14. place \in 0 .. Len(Observed!Without(live, k)) /\ now' \in now .. now'
  BY <1>2, <1>8, <1>9
<1> HIDE DEF joined
<1>15. Observed!Renew(k, v, ttl)
  BY <1>2, <1>5, <1>6, <1>12, <1>13, <1>14 DEF Observed!Renew, Observed!Elapse, live, Live, Fresh
<1> QED BY <1>3, <1>15

LEMMA SeenVacantInsert ==
  ASSUME TypeOK, NEW v \in Values, NEW ttl \in Durations, VacantInsert(v, ttl)
  PROVE  \E k \in Keys : Observed!Fill(k, v, ttl)
<1> DEFINE k == borrow.key
           entry == InternalEntry(k, v, now' + ttl)
           live == Live(map, now)
<1>1. BorrowOK(borrow, map) /\ borrow.kind = "vacant" /\ now' \in Clock /\ InRange(now', ttl)
  BY TypeParts DEF VacantInsert
<1>2. /\ now' \in now .. MaxTime /\ now \in Nat /\ now' \in Nat /\ now <= now'
      /\ IndexMap(map) /\ map \in Seq(InternalEntries)
      /\ Observed!Alive(live, now') = Live(map, now')
  BY <1>1, SeenLater
<1>3. k \in Keys /\ ~ Has(map, k)
  BY <1>1, <1>2, Borrowed, IndexEffect
<1>4. map' = Append(map, entry) /\ answer' = answer /\ UNCHANGED Observed!stats
  BY DEF VacantInsert, stats, Observed!stats
<1> HIDE DEF k
<1>5. entry \in InternalEntries /\ entry = Observed!Pair(k, v, now' + ttl)
      /\ ~ IsExpired(entry, now')
  <2>1. entry \in InternalEntries /\ entry.expiration = now' + ttl
    BY <1>1, <1>2, <1>3, NewEntry
  <2>2. ttl \in Nat
    BY TtlAssumption
  <2>3. entry = Observed!Pair(k, v, now' + ttl)
    BY DEF InternalEntry, Observed!Pair
  <2> HIDE DEF entry
  <2>4. ~ (now' > now' + ttl)
    <3>1. now' \in Nat
      BY <1>2
    <3>2. \A n, m \in Nat : ~ (n > n + m)
      OBVIOUS
    <3> QED BY <2>2, <3>1, <3>2
  <2>5. ~ (now' > entry.expiration)
    BY <2>1, <2>4
  <2> QED BY <2>1, <2>3, <2>5 DEF IsExpired
<1> HIDE DEF entry
<1>6. Live(map', now') = Append(Live(map, now'), entry)
  BY <1>2, <1>4, <1>5, LiveAppend
<1>7. Observed!Without(live, k) = live
  <2>1. IndexMap(live) /\ live \in Seq(InternalEntries)
    BY <1>2, LiveMembers
  <2>2. ~ Has(live, k)
    BY <1>2, <1>3, KeptEffect DEF Live
  <2> HIDE DEF live
  <2>3. \A j \in DOMAIN live : live[j] \in Others(k)
    <3>1. \A j \in DOMAIN live : live[j] \in InternalEntries
      BY <2>1
    <3> QED BY <2>2, <3>1 DEF Has, Others
  <2> QED BY <2>1, <2>3, WithoutIsOthers, OnlyAll
<1>8. Observed!Fill(k, v, ttl)
  BY <1>2, <1>4, <1>5, <1>6, <1>7 DEF Observed!Fill, Observed!Elapse, live, Live, Fresh
<1> QED BY <1>3, <1>8

LEMMA SeenStep ==
  ASSUME TypeOK, [Next]_ttlVars
  PROVE  [Observed!Next]_(Observed!vars)
<1>1. ASSUME NEW k \in Keys, NEW v \in Values, NEW ttl \in Durations, Insert(k, v, ttl)
      PROVE  Observed!Insert(k, v, ttl)
  BY <1>1, SeenInsert
<1>2. ASSUME NEW k \in Keys, Get(k) PROVE Observed!Lookup(k)
  BY <1>2, SeenGet
<1>3. ASSUME NEW k \in Keys, RemoveKey(k) PROVE Observed!Remove(k)
  BY <1>3, SeenRemoveKey
<1>4. ASSUME NEW k \in Keys, NEW v \in Values, GetMut(k, v) PROVE Observed!Update(k, v)
  BY <1>4, SeenGetMut
<1>5. ASSUME (\E k \in Keys : EntryOf(k)) \/ (\E ttl \in Durations : InsertPanics(ttl)) \/ Iter
      PROVE  Observed!Wait
  BY <1>5, SeenEntryOf, SeenPanic, SeenIter
<1>6. ASSUME (\E n \in Capacities : SetCapacity(n)) \/ Clear
      PROVE  Observed!Evict \/ UNCHANGED Observed!vars
  BY <1>6, SeenSetCapacity
<1>7. ASSUME OccupiedGet PROVE Observed!Stale
  BY <1>7, SeenOccupiedGet
<1>8. ASSUME NEW v \in Values, OccupiedGetMut(v)
      PROVE  \E k \in Keys : Observed!Write(k, v) /\ UNCHANGED Observed!stats
  BY <1>8, SeenOccupiedGetMut
<1>9. ASSUME NEW v \in Values, NEW ttl \in Durations, OccupiedInsert(v, ttl)
      PROVE  \E k \in Keys : Observed!Renew(k, v, ttl)
  BY <1>9, SeenOccupiedInsert
<1>10. ASSUME NEW v \in Values, NEW ttl \in Durations, VacantInsert(v, ttl)
       PROVE  \E k \in Keys : Observed!Fill(k, v, ttl)
  BY <1>10, SeenVacantInsert
<1>11. ASSUME IterNext \/ IterNextBack PROVE Observed!Read
  BY <1>11, SeenIterNext
<1>12. ASSUME ResetStatsCounter PROVE Observed!Reset
  BY <1>12 DEF ResetStatsCounter, Observed!Reset
<1>13. ASSUME Release \/ UNCHANGED ttlVars PROVE UNCHANGED Observed!vars
  BY <1>13 DEF Release, ttlVars, stats, Observed!vars, Observed!stats
<1> QED BY <1>1, <1>2, <1>3, <1>4, <1>5, <1>6, <1>7, <1>8, <1>9, <1>10, <1>11, <1>12, <1>13, Zenon
        DEF Next, Observed!Next

\* Seen through its unexpired entries the cache is the map of ExpiringMap.
THEOREM Refinement == Spec => ImplementsExpiringMap
<1>1. Init => Observed!Init
  <2> SUFFICES ASSUME Init PROVE Observed!Init
    OBVIOUS
  <2>1. map = <<>> /\ now = 0 /\ answer = None /\ hits = 0 /\ misses = 0
    BY DEF Init
  <2>2. Live(map, now) = <<>>
    BY <2>1, OnlyEmpty DEF Live
  <2> QED BY <2>1, <2>2 DEF Observed!Init, Live, Fresh
<1>2. TypeOK /\ [Next]_ttlVars => [Observed!Next]_(Observed!vars)
  BY SeenStep
<1> QED BY <1>1, <1>2, TypeCorrect, PTL DEF Spec, ImplementsExpiringMap, Observed!Spec
=============================================================================
