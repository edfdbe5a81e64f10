--------------------------- MODULE SublistLemmas ---------------------------
(***************************************************************************)
(* What is true of the operators of Sublists.tla and of sequences, for     *)
(* sequences over any set.                                                 *)
(***************************************************************************)
EXTENDS Sublists, Functions, SequenceTheorems, WellFoundedInduction, TLAPS

-----------------------------------------------------------------------------
(* Sequences.                                                              *)

\* Any numbers have a least one among them.
LEMMA Least ==
  ASSUME NEW T \in SUBSET Nat, T # {}
  PROVE  \E n \in T : \A m \in T : n <= m
<1> DEFINE Less == OpToRel(<, Nat)
<1>1. IsWellFoundedOn(Less, Nat)
  BY NatLessThanWellFounded
<1>2. PICK n \in T : \A m \in T : <<m, n>> \notin Less
  BY <1>1, WFMin
<1>3. \A m \in T : ~ (m < n)
  BY <1>2 DEF OpToRel
<1> QED BY <1>3

LEMMA AppendEffect ==
  ASSUME NEW A, NEW s \in Seq(A), NEW x \in A
  PROVE  /\ Append(s, x) \in Seq(A)
         /\ Len(Append(s, x)) = Len(s) + 1
         /\ Range(Append(s, x)) = Range(s) \cup {x}
         /\ IsInjective(s) /\ x \notin Range(s) => IsInjective(Append(s, x))
<1> DEFINE t == Append(s, x)
<1>1. /\ t \in Seq(A) /\ Len(t) = Len(s) + 1 /\ Len(s) \in Nat
      /\ t[Len(s) + 1] = x /\ \A i \in 1 .. Len(s) : t[i] = s[i]
  OBVIOUS
<1>2. DOMAIN s = 1 .. Len(s) /\ DOMAIN t = 1 .. Len(s) + 1
  BY <1>1
<1> HIDE DEF t
<1>3. Range(t) = Range(s) \cup {x}
  <2>1. \A i \in DOMAIN t : t[i] \in Range(s) \cup {x}
    BY <1>1, <1>2 DEF Range
  <2>2. \A i \in DOMAIN s : s[i] \in Range(t)
    BY <1>1, <1>2 DEF Range
  <2>3. x \in Range(t)
    BY <1>1, <1>2 DEF Range
  <2> QED BY <2>1, <2>2, <2>3 DEF Range
<1>4. IsInjective(s) /\ x \notin Range(s) => IsInjective(t)
  BY <1>1, <1>2 DEF IsInjective, Range
<1> QED BY <1>1, <1>3, <1>4 DEF t

LEMMA JoinEffect ==
  ASSUME NEW A, NEW s \in Seq(A), NEW t \in Seq(A),
         IsInjective(s), IsInjective(t), Range(s) \cap Range(t) = {}
  PROVE  /\ s \o t \in Seq(A)
         /\ Range(s \o t) = Range(s) \cup Range(t)
         /\ IsInjective(s \o t)
<1> DEFINE u == s \o t
<1>1. /\ u \in Seq(A) /\ Len(u) = Len(s) + Len(t) /\ Len(s) \in Nat /\ Len(t) \in Nat
      /\ \A i \in 1 .. Len(s) : u[i] = s[i]
      /\ \A i \in 1 .. Len(t) : u[Len(s) + i] = t[i]
  OBVIOUS
<1>2. /\ DOMAIN s = 1 .. Len(s) /\ DOMAIN t = 1 .. Len(t)
      /\ DOMAIN u = 1 .. Len(s) + Len(t)
  BY <1>1
<1> HIDE DEF u
<1>3. \A i \in DOMAIN u : \/ i \in DOMAIN s /\ u[i] = s[i]
                          \/ i - Len(s) \in DOMAIN t /\ u[i] = t[i - Len(s)]
  <2> TAKE i \in DOMAIN u
  <2>1. CASE i <= Len(s)
    BY <1>1, <1>2, <2>1
  <2>2. CASE i > Len(s)
    <3>1. i - Len(s) \in 1 .. Len(t) /\ Len(s) + (i - Len(s)) = i
      BY <1>1, <1>2, <2>2
    <3> QED BY <1>1, <1>2, <3>1
  <2> QED BY <1>1, <1>2, <2>1, <2>2
<1>4. Range(u) = Range(s) \cup Range(t)
  <2>1. \A i \in DOMAIN u : u[i] \in Range(s) \cup Range(t)
    BY <1>3 DEF Range
  <2>2. \A i \in DOMAIN s : s[i] \in Range(u)
    BY <1>1, <1>2 DEF Range
  <2>3. \A i \in DOMAIN t : t[i] \in Range(u)
    <3> TAKE i \in DOMAIN t
    <3>1. Len(s) + i \in DOMAIN u /\ u[Len(s) + i] = t[i]
      BY <1>1, <1>2
    <3> QED BY <3>1 DEF Range
  <2> QED BY <2>1, <2>2, <2>3 DEF Range
<1>5. IsInjective(u)
  <2> SUFFICES ASSUME NEW i \in DOMAIN u, NEW j \in DOMAIN u, u[i] = u[j] PROVE i = j
    BY DEF IsInjective
  <2>1. i \in Int /\ j \in Int
    BY <1>1, <1>2
  <2>2. \/ i \in DOMAIN s /\ j \in DOMAIN s /\ s[i] = s[j]
        \/ /\ i - Len(s) \in DOMAIN t /\ j - Len(s) \in DOMAIN t
           /\ t[i - Len(s)] = t[j - Len(s)]
    BY <1>3 DEF Range
  <2>3. i = j \/ i - Len(s) = j - Len(s)
    BY <2>2 DEF IsInjective
  <2> QED BY <1>1, <2>1, <2>3
<1> QED BY <1>1, <1>4, <1>5 DEF u

\* What is left of a sequence behind its first n members.
LEMMA RestEffect ==
  ASSUME NEW A, NEW s \in Seq(A), NEW n \in 0 .. Len(s), IsInjective(s)
  PROVE  /\ SubSeq(s, n + 1, Len(s)) \in Seq(A)
         /\ Range(SubSeq(s, n + 1, Len(s))) = {s[j] : j \in n + 1 .. Len(s)}
         /\ IsInjective(SubSeq(s, n + 1, Len(s)))
<1> DEFINE r == SubSeq(s, n + 1, Len(s))
<1>1. Len(s) \in Nat /\ n \in Nat /\ n <= Len(s) /\ DOMAIN s = 1 .. Len(s)
  OBVIOUS
<1>2. /\ r \in Seq(A) /\ Len(r) = Len(s) - n
      /\ \A i \in 1 .. Len(s) - n : r[i] = s[n + i]
  <2>1. n + 1 \in Int /\ Len(s) \in Int /\ \A i \in n + 1 .. Len(s) : s[i] \in A
    BY <1>1
  <2>2. /\ r \in Seq(A)
        /\ Len(r) = IF n + 1 <= Len(s) THEN Len(s) - (n + 1) + 1 ELSE 0
        /\ \A i \in 1 .. Len(s) - (n + 1) + 1 : r[i] = s[n + 1 + i - 1]
    BY <2>1, SubSeqProperties
  <2> HIDE DEF r
  <2>3. Len(r) = Len(s) - n
    <3> DEFINE size == Len(s)
    <3>1. size \in Nat /\ n \in Nat /\ n <= size
      BY <1>1
    <3>2. Len(r) = IF n + 1 <= size THEN size - (n + 1) + 1 ELSE 0
      BY <2>2
    <3> HIDE DEF size
    <3>3. Len(r) = size - n
      BY <3>1, <3>2
    <3> QED BY <3>3 DEF size
  <2>4. \A i \in 1 .. Len(s) - n : r[i] = s[n + i]
    <3> TAKE i \in 1 .. Len(s) - n
    <3>1. i \in 1 .. Len(s) - (n + 1) + 1 /\ n + 1 + i - 1 = n + i
      BY <1>1
    <3> QED BY <2>2, <3>1
  <2> QED BY <2>2, <2>3, <2>4
<1>3. DOMAIN r = 1 .. Len(s) - n
  BY <1>2
<1> HIDE DEF r
<1>4. Range(r) = {s[j] : j \in n + 1 .. Len(s)}
  <2>1. \A i \in DOMAIN r : n + i \in n + 1 .. Len(s) /\ r[i] = s[n + i]
    BY <1>1, <1>2, <1>3
  <2>2. \A j \in n + 1 .. Len(s) : j - n \in DOMAIN r /\ r[j - n] = s[j]
    <3> TAKE j \in n + 1 .. Len(s)
    <3>1. j - n \in 1 .. Len(s) - n /\ n + (j - n) = j
      BY <1>1
    <3> QED BY <1>2, <1>3, <3>1
  <2> QED BY <2>1, <2>2 DEF Range
<1>5. IsInjective(r)
  <2>1. \A i \in DOMAIN r : i \in Int /\ n + i \in DOMAIN s /\ r[i] = s[n + i]
    BY <1>1, <1>2, <1>3
  <2>2. SUFFICES ASSUME NEW i \in DOMAIN r, NEW j \in DOMAIN r, r[i] = r[j] PROVE i = j
    BY DEF IsInjective
  <2>3. s[n + i] = s[n + j]
    BY <2>1, <2>2
  <2>4. n + i = n + j
    BY <2>1, <2>3 DEF IsInjective
  <2> QED BY <1>1, <2>1, <2>4
<1> QED BY <1>2, <1>4, <1>5 DEF r
-----------------------------------------------------------------------------
(* Choosing from a sequence.                                               *)

ChoosesFrom(f, seq, S, n) ==
  f = [i \in 0 .. n |->
         IF i = 0 THEN <<>>
         ELSE IF seq[i] \in S THEN Append(f[i - 1], seq[i]) ELSE f[i - 1]]

\* The recursive definition has a function to choose.
LEMMA ChosenExists ==
  ASSUME NEW seq, NEW S, NEW n \in Nat
  PROVE  \E f : ChoosesFrom(f, seq, S, n)
<1> DEFINE Exists(k) == \E f : ChoosesFrom(f, seq, S, k)
           Fails == {k \in Nat : ~ Exists(k)}
<1>1. SUFFICES ASSUME Fails # {} PROVE FALSE
  OBVIOUS
<1>2. PICK k \in Fails : \A l \in Fails : k <= l
  <2>1. Fails \in SUBSET Nat
    OBVIOUS
  <2> HIDE DEF Fails
  <2> QED BY <1>1, <2>1, Least
<1>3. Exists(0)
  <2> DEFINE f == [i \in 0 .. 0 |-> <<>>]
  <2>1. ChoosesFrom(f, seq, S, 0)
    BY DEF ChoosesFrom
  <2> QED BY <2>1
<1> HIDE DEF Exists
<1>4. k \in Nat \ {0} /\ k - 1 \in Nat
  BY <1>2, <1>3
<1>5. PICK f : ChoosesFrom(f, seq, S, k - 1)
  BY <1>2, <1>4 DEF Exists
<1> DEFINE g == [i \in 0 .. k |->
                   IF i < k THEN f[i]
                   ELSE IF seq[k] \in S THEN Append(f[k - 1], seq[k]) ELSE f[k - 1]]
<1>6. \A i \in 0 .. k :
        g[i] = IF i = 0 THEN <<>>
               ELSE IF seq[i] \in S THEN Append(g[i - 1], seq[i]) ELSE g[i - 1]
  <2> TAKE i \in 0 .. k
  <2>1. CASE i = k
    <3>1. g[k - 1] = f[k - 1]
      BY <1>4
    <3> QED BY <1>4, <2>1, <3>1
  <2>2. CASE i # k
    <3>1. i \in 0 .. k - 1 /\ i < k /\ (i # 0 => i - 1 \in 0 .. k - 1 /\ i - 1 < k)
      BY <1>4, <2>2
    <3>2. f[i] = IF i = 0 THEN <<>>
                 ELSE IF seq[i] \in S THEN Append(f[i - 1], seq[i]) ELSE f[i - 1]
      BY <1>5, <3>1 DEF ChoosesFrom
    <3>3. g[i] = f[i] /\ (i # 0 => g[i - 1] = f[i - 1])
      BY <1>4, <3>1
    <3> QED BY <3>2, <3>3
  <2> QED BY <2>1, <2>2
<1>7. ChoosesFrom(g, seq, S, k)
  BY <1>6 DEF ChoosesFrom
<1> HIDE DEF g
<1> QED BY <1>2, <1>7 DEF Exists

\* The recursive definition does what it says.
LEMMA ChosenSteps ==
  ASSUME NEW seq, NEW S, Len(seq) \in Nat
  PROVE  \A i \in 0 .. Len(seq) :
           Chosen(seq, S)[i] =
             IF i = 0 THEN <<>>
             ELSE IF seq[i] \in S THEN Append(Chosen(seq, S)[i - 1], seq[i])
             ELSE Chosen(seq, S)[i - 1]
<1> DEFINE f == Chosen(seq, S)
           n == Len(seq)
<1>1. ChoosesFrom(f, seq, S, n)
  <2>1. \E g : ChoosesFrom(g, seq, S, n)
    BY ChosenExists
  <2>2. f = CHOOSE g : ChoosesFrom(g, seq, S, n)
    BY DEF Chosen, ChoosesFrom
  <2> HIDE DEF f, n
  <2> QED BY <2>1, <2>2
<1> HIDE DEF f
<1>2. \A i \in 0 .. n :
        f[i] = IF i = 0 THEN <<>>
               ELSE IF seq[i] \in S THEN Append(f[i - 1], seq[i]) ELSE f[i - 1]
  BY <1>1 DEF ChoosesFrom
<1> QED BY <1>2 DEF f

\* The members chosen among the first i are those in S, each as often as it
\* is there, and the count grows by at most one with i.
WellChosen(A, seq, S, i) ==
  /\ Chosen(seq, S)[i] \in Seq(A)
  /\ Range(Chosen(seq, S)[i]) = {seq[j] : j \in 1 .. i} \cap S
  /\ IsInjective(Chosen(seq, S)[i])
  /\ i = 0 => Len(Chosen(seq, S)[i]) = 0
  /\ i # 0 => Len(Chosen(seq, S)[i]) <= Len(Chosen(seq, S)[i - 1]) + 1

LEMMA ChosenEffect ==
  ASSUME NEW A, NEW seq \in Seq(A), IsInjective(seq), NEW S
  PROVE  \A i \in 0 .. Len(seq) : WellChosen(A, seq, S, i)
<1> DEFINE f == Chosen(seq, S)
           n == Len(seq)
           Good(i) == /\ f[i] \in Seq(A)
                      /\ Range(f[i]) = {seq[j] : j \in 1 .. i} \cap S
                      /\ IsInjective(f[i])
                      /\ i = 0 => Len(f[i]) = 0
                      /\ i # 0 => Len(f[i]) <= Len(f[i - 1]) + 1
           Fails == {i \in 0 .. n : ~ Good(i)}
<1>1. n \in Nat /\ DOMAIN seq = 1 .. n /\ \A i \in 1 .. n : seq[i] \in A
  OBVIOUS
<1> HIDE DEF f, n
<1>3. \A i \in 0 .. n :
        f[i] = IF i = 0 THEN <<>>
               ELSE IF seq[i] \in S THEN Append(f[i - 1], seq[i]) ELSE f[i - 1]
  BY <1>1, ChosenSteps DEF f, n
<1>4. Good(0)
  <2>1. f[0] = <<>>
    BY <1>1, <1>3
  <2> QED BY <2>1 DEF Range, IsInjective
<1>5. ASSUME NEW i \in 1 .. n, Good(i - 1) PROVE Good(i)
  <2>1. i \in 0 .. n /\ i # 0 /\ i - 1 \in 0 .. n /\ seq[i] \in A
    BY <1>1
  <2>2. {seq[j] : j \in 1 .. i} = {seq[j] : j \in 1 .. i - 1} \cup {seq[i]}
    <3>1. 1 .. i = (1 .. i - 1) \cup {i}
      BY <1>1
    <3> QED BY <3>1
  <2>3. Len(f[i - 1]) \in Nat
    BY <1>5
  <2>4. CASE seq[i] \in S
    <3>1. f[i] = Append(f[i - 1], seq[i])
      BY <1>3, <2>1, <2>4
    <3>2. seq[i] \notin Range(f[i - 1])
      <4>1. \A j \in 1 .. i - 1 : seq[j] # seq[i]
        BY <1>1 DEF IsInjective
      <4> QED BY <1>5, <4>1
    <3>3. /\ f[i] \in Seq(A) /\ Len(f[i]) = Len(f[i - 1]) + 1
          /\ Range(f[i]) = Range(f[i - 1]) \cup {seq[i]} /\ IsInjective(f[i])
      <4>1. f[i - 1] \in Seq(A) /\ IsInjective(f[i - 1])
        BY <1>5
      <4> QED BY <2>1, <3>1, <3>2, <4>1, AppendEffect
    <3> QED BY <1>5, <2>1, <2>2, <2>3, <2>4, <3>3
  <2>5. CASE seq[i] \notin S
    <3>1. f[i] = f[i - 1]
      BY <1>3, <2>1, <2>5
    <3> QED BY <1>5, <2>1, <2>2, <2>3, <2>5, <3>1
  <2> QED BY <2>4, <2>5
<1> HIDE DEF Good
<1>6. Fails = {}
  <2> SUFFICES ASSUME Fails # {} PROVE FALSE
    OBVIOUS
  <2>1. PICK i \in Fails : \A j \in Fails : i <= j
    <3>1. Fails \in SUBSET Nat
      BY <1>1
    <3> HIDE DEF Fails
    <3> QED BY <3>1, Least
  <2>2. i \in 1 .. n /\ i - 1 \in 0 .. n
    BY <1>1, <1>4, <2>1
  <2>3. Good(i - 1)
    BY <2>1, <2>2
  <2> QED BY <1>5, <2>1, <2>2, <2>3
<1>7. \A i \in 0 .. n : Good(i)
  BY <1>6
<1> QED BY <1>7 DEF Good, f, n, WellChosen

LEMMA OnlyEffect ==
  ASSUME NEW A, NEW seq \in Seq(A), IsInjective(seq), NEW S
  PROVE  /\ Only(seq, S) \in Seq(A)
         /\ Range(Only(seq, S)) = Range(seq) \cap S
         /\ IsInjective(Only(seq, S))
<1>1. Len(seq) \in 0 .. Len(seq) /\ DOMAIN seq = 1 .. Len(seq)
  OBVIOUS
<1>2. Range(seq) = {seq[j] : j \in 1 .. Len(seq)}
  BY <1>1 DEF Range
<1>3. WellChosen(A, seq, S, Len(seq))
  BY <1>1, ChosenEffect
<1> QED BY <1>2, <1>3 DEF Only, WellChosen

-----------------------------------------------------------------------------
(* Induction over sequences, for a set of them.                            *)

LEMMA SeqInduction ==
  ASSUME NEW A, NEW T, <<>> \in T,
         \A s \in Seq(A) : \A x \in A : s \in T => Append(s, x) \in T
  PROVE  Seq(A) \subseteq T
<1> DEFINE Fails == {n \in Nat : \E s \in Seq(A) : Len(s) = n /\ s \notin T}
<1>1. SUFFICES ASSUME NEW s \in Seq(A), s \notin T PROVE FALSE
  OBVIOUS
<1>2. Len(s) \in Fails
  BY <1>1
<1>3. PICK n \in Fails : \A m \in Fails : n <= m
  <2>1. Fails \in SUBSET Nat /\ Fails # {}
    BY <1>2
  <2> HIDE DEF Fails
  <2> QED BY <2>1, Least
<1>4. PICK t \in Seq(A) : Len(t) = n /\ t \notin T
  BY <1>3
<1>5. t # <<>>
  BY <1>4
<1>6. PICK front \in Seq(A), x \in A : t = Append(front, x)
  BY <1>5, SequenceEmptyOrAppend
<1>7. Len(front) \in Nat /\ Len(front) = n - 1 /\ n \in Nat
  BY <1>3, <1>4, <1>6
<1>8. front \in T
  <2>1. ~ (n <= n - 1)
    BY <1>7
  <2> QED BY <1>3, <1>7, <2>1
<1> QED BY <1>4, <1>6, <1>8

-----------------------------------------------------------------------------
(* The laws of Only.                                                       *)

LEMMA OnlyEmpty ==
  ASSUME NEW S
  PROVE  Only(<<>>, S) = <<>>
<1>1. Len(<<>>) = 0 /\ 0 \in Nat
  OBVIOUS
<1> QED BY <1>1, ChosenSteps DEF Only

LEMMA OnlyAppend ==
  ASSUME NEW A, NEW s \in Seq(A), NEW x \in A, NEW S
  PROVE  Only(Append(s, x), S) = IF x \in S THEN Append(Only(s, S), x) ELSE Only(s, S)
<1> DEFINE n == Len(s)
           t == Append(s, x)
           f == Chosen(s, S)
           g == Chosen(t, S)
           Differ == {i \in 0 .. n : f[i] # g[i]}
<1>1. /\ n \in Nat /\ Len(t) = n + 1 /\ t[n + 1] = x
      /\ \A i \in 1 .. n : t[i] = s[i]
  OBVIOUS
<1> HIDE DEF t
<1>2. \A i \in 0 .. n :
        f[i] = IF i = 0 THEN <<>>
               ELSE IF s[i] \in S THEN Append(f[i - 1], s[i]) ELSE f[i - 1]
  BY <1>1, ChosenSteps
<1>3. \A i \in 0 .. n + 1 :
        g[i] = IF i = 0 THEN <<>>
               ELSE IF t[i] \in S THEN Append(g[i - 1], t[i]) ELSE g[i - 1]
  <2>1. \A i \in 0 .. Len(t) :
          g[i] = IF i = 0 THEN <<>>
                 ELSE IF t[i] \in S THEN Append(g[i - 1], t[i]) ELSE g[i - 1]
    BY <1>1, ChosenSteps
  <2> HIDE DEF n, f, g
  <2> QED BY <1>1, <2>1
<1>4. Only(s, S) = f[n] /\ Only(t, S) = g[n + 1]
  BY <1>1 DEF Only
<1> HIDE DEF n, f, g
<1>5. f[n] = g[n]
  <2>1. SUFFICES ASSUME Differ # {} PROVE FALSE
    BY <1>1
  <2>2. PICK i \in Differ : \A j \in Differ : i <= j
    <3>1. Differ \in SUBSET Nat
      BY <1>1
    <3> HIDE DEF Differ
    <3> QED BY <2>1, <3>1, Least
  <2>3. i \in 0 .. n /\ i \in 0 .. n + 1 /\ i # 0
    BY <1>1, <1>2, <1>3, <2>2
  <2>4. i - 1 \in 0 .. n /\ ~ (i <= i - 1) /\ t[i] = s[i]
    BY <1>1, <2>3
  <2>5. f[i - 1] = g[i - 1]
    BY <2>2, <2>4
  <2> QED BY <1>2, <1>3, <2>2, <2>3, <2>4, <2>5
<1>6. g[n + 1] = IF x \in S THEN Append(g[n], x) ELSE g[n]
  <2>1. n + 1 \in 0 .. n + 1 /\ n + 1 # 0 /\ (n + 1) - 1 = n
    BY <1>1
  <2> QED BY <1>1, <1>3, <2>1
<1> QED BY <1>4, <1>5, <1>6 DEF t

\* What is chosen is in S and comes from distinct places, in their order.
Embeds(e, t, s) ==
  /\ e \in [DOMAIN t -> DOMAIN s]
  /\ \A i \in DOMAIN t : t[i] = s[e[i]]
  /\ \A i, j \in DOMAIN t : i < j => e[i] < e[j]

LEMMA EmbedsGrow ==
  ASSUME NEW A, NEW o \in Seq(A), NEW t \in Seq(A), NEW x \in A, NEW e, Embeds(e, o, t)
  PROVE  \E d : Embeds(d, Append(o, x), Append(t, x))
<1> DEFINE p == Append(o, x)
           u == Append(t, x)
           m == Len(o)
           n == Len(t)
<1>0. /\ m \in Nat /\ n \in Nat
      /\ DOMAIN o = 1 .. m /\ DOMAIN p = 1 .. m + 1 /\ \A i \in 1 .. m : p[i] = o[i]
      /\ DOMAIN t = 1 .. n /\ DOMAIN u = 1 .. n + 1 /\ \A i \in 1 .. n : u[i] = t[i]
      /\ p[m + 1] = u[n + 1]
  OBVIOUS
<1> HIDE DEF p, u, m, n
<1> USE <1>0
<1> DEFINE d == [i \in 1 .. m + 1 |-> IF i = m + 1 THEN n + 1 ELSE e[i]]
<1>1. \A i \in 1 .. m : e[i] \in 1 .. n /\ o[i] = t[e[i]]
  BY DEF Embeds
<1>2. d[m + 1] = n + 1 /\ \A i \in 1 .. m : d[i] = e[i]
  OBVIOUS
<1>3. d \in [1 .. m + 1 -> 1 .. n + 1]
  BY <1>1
<1> HIDE DEF d
<1>4. \A i \in DOMAIN p : p[i] = u[d[i]]
  <2> TAKE i \in DOMAIN p
  <2>1. CASE i = m + 1
    BY <1>2, <2>1
  <2>2. CASE i # m + 1
    <3>1. i \in 1 .. m
      BY <2>2
    <3> QED BY <1>1, <1>2, <3>1
  <2> QED BY <2>1, <2>2
<1>5. \A i, j \in DOMAIN p : i < j => d[i] < d[j]
  <2> TAKE i, j \in DOMAIN p
  <2> HAVE i < j
  <2>1. i \in 1 .. m
    OBVIOUS
  <2>2. CASE j = m + 1
    BY <1>1, <1>2, <2>1, <2>2
  <2>3. CASE j # m + 1
    <3>1. j \in 1 .. m
      BY <2>3
    <3> QED BY <1>2, <2>1, <3>1 DEF Embeds
  <2> QED BY <2>2, <2>3
<1>6. Embeds(d, p, u)
  BY <1>3, <1>4, <1>5 DEF Embeds
<1> QED BY <1>6 DEF p, u

LEMMA OnlyMembers ==
  ASSUME NEW A, NEW s \in Seq(A), NEW S
  PROVE  /\ Only(s, S) \in Seq(A)
         /\ \A i \in DOMAIN Only(s, S) : Only(s, S)[i] \in S
         /\ Range(Only(s, S)) = Range(s) \cap S
         /\ Len(Only(s, S)) <= Len(s)
         /\ \E e : Embeds(e, Only(s, S), s)
<1> DEFINE T == {t \in Seq(A) :
                   /\ Only(t, S) \in Seq(A)
                   /\ Range(Only(t, S)) = Range(t) \cap S
                   /\ Len(Only(t, S)) <= Len(t)
                   /\ \E e : Embeds(e, Only(t, S), t)}
<1>1. <<>> \in T
  <2>1. Embeds(<<>>, <<>>, <<>>)
    BY DEF Embeds
  <2>2. Range(<<>>) = {}
    BY DEF Range
  <2>3. <<>> \in Seq(A) /\ Len(<<>>) = 0 /\ Only(<<>>, S) = <<>>
    BY OnlyEmpty
  <2>4. Range(<<>>) = Range(<<>>) \cap S /\ Len(<<>>) <= Len(<<>>)
    BY <2>2, <2>3
  <2>5. \E e : Embeds(e, Only(<<>>, S), <<>>)
    BY <2>1, <2>3
  <2> QED BY <2>3, <2>4, <2>5
<1>2. ASSUME NEW t \in Seq(A), NEW x \in A, t \in T
      PROVE  Append(t, x) \in T
  <2> DEFINE u == Append(t, x)
             o == Only(t, S)
  <2>1. /\ u \in Seq(A) /\ Len(u) = Len(t) + 1 /\ Len(t) \in Nat
        /\ DOMAIN t = 1 .. Len(t) /\ DOMAIN u = 1 .. Len(t) + 1
        /\ \A i \in DOMAIN t : u[i] = t[i]
        /\ u[Len(t) + 1] = x
    OBVIOUS
  <2>2. Range(u) = Range(t) \cup {x}
    BY AppendEffect
  <2>3. /\ o \in Seq(A) /\ Range(o) = Range(t) \cap S
        /\ Len(o) \in Nat /\ Len(o) <= Len(t) /\ DOMAIN o = 1 .. Len(o)
    BY <1>2
  <2>4. PICK e : Embeds(e, o, t)
    BY <1>2
  <2>5. Only(u, S) = IF x \in S THEN Append(o, x) ELSE o
    BY OnlyAppend
  <2> HIDE DEF u, o
  <2>6. CASE x \in S
    <3> DEFINE p == Append(o, x)
    <3>1. /\ p \in Seq(A) /\ Len(p) = Len(o) + 1 /\ Range(p) = Range(o) \cup {x}
          /\ DOMAIN p = 1 .. Len(o) + 1 /\ p[Len(o) + 1] = x
          /\ \A i \in 1 .. Len(o) : p[i] = o[i]
      BY <2>3, AppendEffect
    <3> HIDE DEF p
    <3>2. \E d : Embeds(d, p, u)
      BY <2>3, <2>4, EmbedsGrow DEF p, u
    <3>3. Only(u, S) = p
      BY <2>5, <2>6 DEF p
    <3>4. Range(p) = Range(u) \cap S /\ Len(p) <= Len(u)
      BY <2>1, <2>2, <2>3, <2>6, <3>1
    <3> QED BY <2>1, <3>1, <3>2, <3>3, <3>4 DEF u
  <2>7. CASE x \notin S
    <3>1. Only(u, S) = o
      BY <2>5, <2>7
    <3>2. Range(o) = Range(u) \cap S /\ Len(o) <= Len(u)
      BY <2>1, <2>2, <2>3, <2>7
    <3>3. Embeds(e, o, u)
      BY <2>1, <2>4 DEF Embeds
    <3> QED BY <2>1, <2>3, <3>1, <3>2, <3>3 DEF u
  <2> QED BY <2>6, <2>7
<1> HIDE DEF T
<1>3. s \in T
  BY <1>1, <1>2, SeqInduction
<1>4. \A i \in DOMAIN Only(s, S) : Only(s, S)[i] \in S
  BY <1>3 DEF T, Range
<1> QED BY <1>3, <1>4 DEF T

LEMMA AppendJoin ==
  ASSUME NEW A, NEW s \in Seq(A), NEW u \in Seq(A), NEW x \in A
  PROVE  /\ s \o u \in Seq(A) /\ Append(u, x) \in Seq(A)
         /\ s \o Append(u, x) = Append(s \o u, x)
<1>1. s \o u \in Seq(A) /\ Append(u, x) \in Seq(A) /\ <<x>> \in Seq(A)
  OBVIOUS
<1>2. Append(u, x) = u \o <<x>>
  BY AppendIsConcat
<1>3. Append(s \o u, x) = (s \o u) \o <<x>>
  BY <1>1, AppendIsConcat
<1> QED BY <1>1, <1>2, <1>3, ConcatAssociative

\* Choosing keeps concatenations apart.
LEMMA OnlyConcat ==
  ASSUME NEW A, NEW s \in Seq(A), NEW t \in Seq(A), NEW S
  PROVE  Only(s \o t, S) = Only(s, S) \o Only(t, S)
<1> DEFINE T == {u \in Seq(A) : Only(s \o u, S) = Only(s, S) \o Only(u, S)}
<1>1. <<>> \in T
  <2>1. s \o <<>> = s /\ Only(<<>>, S) = <<>> /\ <<>> \in Seq(A)
    BY ConcatEmptySeq, OnlyEmpty
  <2>2. Only(s, S) \o <<>> = Only(s, S)
    BY OnlyMembers, ConcatEmptySeq
  <2> QED BY <2>1, <2>2
<1>2. ASSUME NEW u \in Seq(A), NEW x \in A, u \in T
      PROVE  Append(u, x) \in T
  <2>1. s \o Append(u, x) = Append(s \o u, x) /\ s \o u \in Seq(A) /\ Append(u, x) \in Seq(A)
    BY AppendJoin
  <2>2. Only(Append(s \o u, x), S) =
          IF x \in S THEN Append(Only(s \o u, S), x) ELSE Only(s \o u, S)
    BY <2>1, OnlyAppend
  <2>3. Only(Append(u, x), S) = IF x \in S THEN Append(Only(u, S), x) ELSE Only(u, S)
    BY OnlyAppend
  <2>4. Only(s \o u, S) = Only(s, S) \o Only(u, S)
    BY <1>2
  <2> DEFINE a == Only(s, S)
             b == Only(u, S)
  <2>5. a \in Seq(A) /\ b \in Seq(A)
    BY OnlyMembers
  <2> HIDE DEF a, b
  <2>6. Append(a \o b, x) = a \o Append(b, x)
    <3>1. \A c, d \in Seq(A) : c \o Append(d, x) = Append(c \o d, x)
      BY AppendJoin
    <3> QED BY <2>5, <3>1, Zenon
  <2>7. Only(s \o Append(u, x), S) = Only(s, S) \o Only(Append(u, x), S)
    <3>1. CASE x \in S
      BY <2>1, <2>2, <2>3, <2>4, <2>6, <3>1, Zenon DEF a, b
    <3>2. CASE x \notin S
      BY <2>1, <2>2, <2>3, <2>4, <3>2, Zenon
    <3> QED BY <3>1, <3>2
  <2> QED BY <2>1, <2>7
<1> HIDE DEF T
<1>3. t \in T
  BY <1>1, <1>2, SeqInduction
<1> QED BY <1>3 DEF T

LEMMA OnlySingle ==
  ASSUME NEW A, NEW x \in A, NEW S
  PROVE  Only(<<x>>, S) = IF x \in S THEN <<x>> ELSE <<>>
<1>1. <<>> \in Seq(A) /\ Append(<<>>, x) = <<x>>
  OBVIOUS
<1>2. Only(Append(<<>>, x), S) = IF x \in S THEN Append(Only(<<>>, S), x) ELSE Only(<<>>, S)
  BY <1>1, OnlyAppend, Zenon
<1>3. Only(<<>>, S) = <<>>
  BY OnlyEmpty
<1> QED BY <1>1, <1>2, <1>3, Zenon

\* Choosing twice.
LEMMA OnlyOnly ==
  ASSUME NEW A, NEW s \in Seq(A), NEW S, NEW R
  PROVE  Only(Only(s, S), R) = Only(s, S \cap R)
<1> DEFINE T == {u \in Seq(A) : Only(Only(u, S), R) = Only(u, S \cap R)}
<1>1. <<>> \in T
  BY OnlyEmpty
<1>2. ASSUME NEW u \in Seq(A), NEW x \in A, u \in T
      PROVE  Append(u, x) \in T
  <2>1. Append(u, x) \in Seq(A) /\ Only(u, S) \in Seq(A)
    BY OnlyMembers
  <2>2. Only(Append(u, x), S) = IF x \in S THEN Append(Only(u, S), x) ELSE Only(u, S)
    BY OnlyAppend
  <2>3. Only(Append(u, x), S \cap R) =
          IF x \in S \cap R THEN Append(Only(u, S \cap R), x) ELSE Only(u, S \cap R)
    BY OnlyAppend
  <2>4. Only(Append(Only(u, S), x), R) =
          IF x \in R THEN Append(Only(Only(u, S), R), x) ELSE Only(Only(u, S), R)
    BY <2>1, OnlyAppend
  <2>5. Only(Only(u, S), R) = Only(u, S \cap R)
    BY <1>2
  <2>6. Only(Only(Append(u, x), S), R) = Only(Append(u, x), S \cap R)
    <3>1. CASE x \in S /\ x \in R
      BY <2>2, <2>3, <2>4, <2>5, <3>1, Zenon
    <3>2. CASE x \in S /\ x \notin R
      BY <2>2, <2>3, <2>4, <2>5, <3>2, Zenon
    <3>3. CASE x \notin S
      BY <2>2, <2>3, <2>5, <3>3, Zenon
    <3> QED BY <3>1, <3>2, <3>3
  <2> QED BY <2>1, <2>6
<1> HIDE DEF T
<1>3. s \in T
  BY <1>1, <1>2, SeqInduction
<1> QED BY <1>3 DEF T

\* What is chosen depends on the membership of the items only.
LEMMA OnlySame ==
  ASSUME NEW A, NEW s \in Seq(A), NEW S, NEW R,
         \A i \in DOMAIN s : s[i] \in S <=> s[i] \in R
  PROVE  Only(s, S) = Only(s, R)
<1> DEFINE B == {x \in A : x \in S <=> x \in R}
           T == {u \in Seq(B) : Only(u, S) = Only(u, R)}
<1>1. <<>> \in T
  BY OnlyEmpty
<1>2. ASSUME NEW u \in Seq(B), NEW x \in B, u \in T
      PROVE  Append(u, x) \in T
  <2>1. Only(u, S) = Only(u, R) /\ (x \in S <=> x \in R)
    BY <1>2
  <2> HIDE DEF B
  <2>2. /\ Only(Append(u, x), S) = IF x \in S THEN Append(Only(u, S), x) ELSE Only(u, S)
        /\ Only(Append(u, x), R) = IF x \in R THEN Append(Only(u, R), x) ELSE Only(u, R)
        /\ Append(u, x) \in Seq(B)
    BY OnlyAppend
  <2> QED BY <2>1, <2>2
<1> HIDE DEF T
<1>3. s \in Seq(B)
  <2>1. /\ DOMAIN s = 1 .. Len(s) /\ Len(s) \in Nat /\ s \in [1 .. Len(s) -> A]
    OBVIOUS
  <2>2. s \in [1 .. Len(s) -> B]
    BY <2>1
  <2> QED BY <2>1, <2>2
<1>4. s \in T
  BY <1>1, <1>2, <1>3, SeqInduction
<1> QED BY <1>4 DEF T

\* All or nothing.
LEMMA OnlyNone ==
  ASSUME NEW A, NEW s \in Seq(A), NEW S, \A i \in DOMAIN s : s[i] \notin S
  PROVE  Only(s, S) = <<>>
<1>1. /\ Only(s, S) \in Seq(A)
      /\ Range(Only(s, S)) = Range(s) \cap S
  BY OnlyMembers
<1>2. Range(Only(s, S)) = {}
  BY <1>1 DEF Range
<1>3. DOMAIN Only(s, S) = {}
  BY <1>2 DEF Range
<1>4. Len(Only(s, S)) = 0
  BY <1>1, <1>3
<1> QED BY <1>1, <1>4

LEMMA OnlyAll ==
  ASSUME NEW A, NEW s \in Seq(A), NEW S, \A i \in DOMAIN s : s[i] \in S
  PROVE  Only(s, S) = s
<1> DEFINE T == {u \in Seq(A) : Only(u, A) = u}
<1>1. <<>> \in T
  BY OnlyEmpty
<1>2. ASSUME NEW u \in Seq(A), NEW x \in A, u \in T
      PROVE  Append(u, x) \in T
  BY <1>2, OnlyAppend
<1> HIDE DEF T
<1>3. s \in T
  BY <1>1, <1>2, SeqInduction
<1>4. \A i \in DOMAIN s : s[i] \in S <=> s[i] \in A
  OBVIOUS
<1> QED BY <1>3, <1>4, OnlySame DEF T

\* Replacing each item by one that is in S exactly if it is.
LEMMA OnlyMapped ==
  ASSUME NEW A, NEW s \in Seq(A), NEW S, NEW f \in [A -> A],
         \A x \in A : f[x] \in S <=> x \in S
  PROVE  Only([i \in DOMAIN s |-> f[s[i]]], S) =
           [i \in DOMAIN Only(s, S) |-> f[Only(s, S)[i]]]
<1> DEFINE Map(u) == [i \in DOMAIN u |-> f[u[i]]]
           T == {u \in Seq(A) : Only(Map(u), S) = Map(Only(u, S))}
<1>1. <<>> \in T
  <2>1. Map(<<>>) = <<>> /\ <<>> \in Seq(A) /\ Only(<<>>, S) = <<>>
    BY OnlyEmpty
  <2> HIDE DEF Map
  <2>2. Only(Map(<<>>), S) = Map(Only(<<>>, S))
    BY <2>1, Zenon
  <2> QED BY <2>1, <2>2
<1>2. ASSUME NEW u \in Seq(A), NEW x \in A
      PROVE  Map(u) \in Seq(A) /\ Map(Append(u, x)) = Append(Map(u), f[x])
  <2>1. Map(u) \in Seq(A) /\ Len(Map(u)) = Len(u)
    OBVIOUS
  <2>2. Map(Append(u, x)) \in Seq(A) /\ Len(Map(Append(u, x))) = Len(u) + 1
    OBVIOUS
  <2>3. Append(Map(u), f[x]) \in Seq(A) /\ Len(Append(Map(u), f[x])) = Len(u) + 1
    BY <2>1
  <2>4. \A i \in 1 .. Len(u) + 1 : Map(Append(u, x))[i] = Append(Map(u), f[x])[i]
    BY <2>1
  <2> HIDE DEF Map
  <2> QED BY <2>1, <2>2, <2>3, <2>4, SeqEqual
<1>3. ASSUME NEW u \in Seq(A), NEW x \in A, u \in T
      PROVE  Append(u, x) \in T
  <2> HIDE DEF Map
  <2>1. Append(u, x) \in Seq(A) /\ Only(u, S) \in Seq(A) /\ f[x] \in A
    BY OnlyMembers
  <2>2. Map(u) \in Seq(A) /\ Map(Append(u, x)) = Append(Map(u), f[x])
    BY <1>2
  <2>3. Only(Map(Append(u, x)), S) =
          IF x \in S THEN Append(Only(Map(u), S), f[x]) ELSE Only(Map(u), S)
    BY <2>1, <2>2, OnlyAppend
  <2>4. Only(Append(u, x), S) = IF x \in S THEN Append(Only(u, S), x) ELSE Only(u, S)
    BY OnlyAppend
  <2>5. Map(Append(Only(u, S), x)) = Append(Map(Only(u, S)), f[x])
    BY <1>2, <2>1
  <2>6. Map(Only(Append(u, x), S)) =
          IF x \in S THEN Append(Map(Only(u, S)), f[x]) ELSE Map(Only(u, S))
    BY <2>4, <2>5
  <2> QED BY <1>3, <2>1, <2>3, <2>6
<1> HIDE DEF T, Map
<1>4. s \in T
  BY <1>1, <1>3, SeqInduction
<1> QED BY <1>4 DEF T, Map

\* A sequence is its beginning and the rest.
LEMMA Split ==
  ASSUME NEW A, NEW s \in Seq(A), NEW n \in 0 .. Len(s)
  PROVE  /\ SubSeq(s, 1, n) \in Seq(A) /\ Drop(s, n) \in Seq(A)
         /\ s = SubSeq(s, 1, n) \o Drop(s, n)
         /\ Len(SubSeq(s, 1, n)) = n /\ \A i \in 1 .. n : SubSeq(s, 1, n)[i] = s[i]
         /\ Len(Drop(s, n)) = Len(s) - n
         /\ \A i \in 1 .. Len(s) - n : Drop(s, n)[i] = s[n + i]
<1> DEFINE m == Len(s)
           a == SubSeq(s, 1, n)
           b == SubSeq(s, n + 1, m)
<1>1. /\ m \in Nat /\ n \in Nat /\ n <= m /\ n + 1 \in Int /\ 1 \in Int
      /\ \A i \in 1 .. m : s[i] \in A
  OBVIOUS
<1>2. Drop(s, n) = b
  BY DEF Drop
<1>3. /\ a \in Seq(A) /\ Len(a) = IF 1 <= n THEN n - 1 + 1 ELSE 0
      /\ \A i \in 1 .. n - 1 + 1 : a[i] = s[1 + i - 1]
  <2>1. \A i \in 1 .. n : s[i] \in A
    BY <1>1
  <2> QED BY <1>1, <2>1, SubSeqProperties
<1>4. /\ b \in Seq(A) /\ Len(b) = IF n + 1 <= m THEN m - (n + 1) + 1 ELSE 0
      /\ \A i \in 1 .. m - (n + 1) + 1 : b[i] = s[n + 1 + i - 1]
  <2>1. \A i \in n + 1 .. m : s[i] \in A
    BY <1>1
  <2> HIDE DEF m
  <2> QED BY <1>1, <2>1, SubSeqProperties
<1>5. a \o b = s
  <2>1. 1 \in 1 .. Len(s) + 1 /\ n \in 1 - 1 .. Len(s) /\ Len(s) \in n .. Len(s)
    BY <1>1
  <2>2. a \o b = SubSeq(s, 1, Len(s))
    BY <2>1, ConcatAdjacentSubSeq
  <2> QED BY <2>2, SubSeqFull
<1> HIDE DEF a, b, m
<1>6. Len(a) = n /\ Len(b) = m - n
  BY <1>1, <1>3, <1>4
<1>7. \A i \in 1 .. n : a[i] = s[i]
  BY <1>1, <1>3
<1>8. \A i \in 1 .. m - n : b[i] = s[n + i]
  <2> TAKE i \in 1 .. m - n
  <2>1. i \in 1 .. m - (n + 1) + 1 /\ n + 1 + i - 1 = n + i
    BY <1>1
  <2> QED BY <1>4, <2>1
<1> QED BY <1>2, <1>3, <1>4, <1>5, <1>6, <1>7, <1>8 DEF a, m

\* What is left of a concatenation behind its first part.
LEMMA DropConcat ==
  ASSUME NEW A, NEW s \in Seq(A), NEW t \in Seq(A)
  PROVE  Drop(s \o t, Len(s)) = t
<1> DEFINE u == s \o t
           n == Len(s)
           d == Drop(u, n)
<1>1. /\ u \in Seq(A) /\ n \in Nat /\ Len(t) \in Nat /\ Len(u) = n + Len(t)
      /\ \A i \in 1 .. Len(t) : u[n + i] = t[i]
  OBVIOUS
<1> HIDE DEF u, n
<1>2. /\ d \in Seq(A) /\ Len(d) = Len(u) - n
      /\ \A i \in 1 .. Len(u) - n : d[i] = u[n + i]
  <2>1. n \in 0 .. Len(u)
    BY <1>1
  <2> QED BY <1>1, <2>1, Split
<1> HIDE DEF d
<1>3. Len(d) = Len(t) /\ \A i \in 1 .. Len(d) : d[i] = t[i]
  BY <1>1, <1>2
<1>4. d = t
  BY <1>2, <1>3, SeqEqual
<1> QED BY <1>4 DEF d, u, n

LEMMA TakeConcat ==
  ASSUME NEW A, NEW s \in Seq(A), NEW t \in Seq(A)
  PROVE  SubSeq(s \o t, 1, Len(s)) = s
<1> DEFINE u == s \o t
           n == Len(s)
           a == SubSeq(u, 1, n)
<1>1. /\ u \in Seq(A) /\ n \in Nat /\ Len(t) \in Nat /\ Len(u) = n + Len(t)
      /\ \A i \in 1 .. n : u[i] = s[i]
  OBVIOUS
<1> HIDE DEF u
<1>2. a \in Seq(A) /\ Len(a) = n /\ \A i \in 1 .. n : a[i] = u[i]
  <2>1. n \in 0 .. Len(u)
    BY <1>1
  <2> HIDE DEF n
  <2> QED BY <1>1, <2>1, Split
<1> HIDE DEF a
<1>3. a = s
  BY <1>1, <1>2, SeqEqual
<1> QED BY <1>3 DEF a, u

LEMMA DropNone ==
  ASSUME NEW A, NEW seq \in Seq(A)
  PROVE  Drop(seq, 0) = seq
BY DEF Drop

LEMMA DropAll ==
  ASSUME NEW A, NEW seq \in Seq(A)
  PROVE  Drop(seq, Len(seq)) = <<>>
<1>1. Len(seq) \in 0 .. Len(seq)
  OBVIOUS
<1>2. Drop(seq, Len(seq)) \in Seq(A) /\ Len(Drop(seq, Len(seq))) = Len(seq) - Len(seq)
  BY <1>1, Split
<1> QED BY <1>2

\* Concatenation by a name: the provers are to use no more than its laws.
Join(s, t) == s \o t

LEMMA JoinType ==
  ASSUME NEW A, NEW s \in Seq(A), NEW t \in Seq(A)
  PROVE  Join(s, t) \in Seq(A)
BY DEF Join

LEMMA JoinItems ==
  ASSUME NEW A, NEW s \in Seq(A), NEW t \in Seq(A)
  PROVE  /\ Len(Join(s, t)) = Len(s) + Len(t)
         /\ \A i \in 1 .. Len(s) : Join(s, t)[i] = s[i]
         /\ \A i \in 1 .. Len(t) : Join(s, t)[Len(s) + i] = t[i]
BY DEF Join

LEMMA JoinEmpty ==
  ASSUME NEW A, NEW s \in Seq(A)
  PROVE  Join(s, <<>>) = s
BY ConcatEmptySeq DEF Join

LEMMA JoinParts ==
  ASSUME NEW A, NEW s \in Seq(A), NEW t \in Seq(A)
  PROVE  SubSeq(Join(s, t), 1, Len(s)) = s /\ Drop(Join(s, t), Len(s)) = t
BY TakeConcat, DropConcat DEF Join

LEMMA OnlyJoin ==
  ASSUME NEW A, NEW s \in Seq(A), NEW t \in Seq(A), NEW S
  PROVE  Only(Join(s, t), S) = Join(Only(s, S), Only(t, S))
BY OnlyConcat DEF Join

\* A sequence with one item replaced.
Around(a, b, A, s, i) ==
  /\ a \in Seq(A) /\ Len(a) = i - 1 /\ \A j \in 1 .. i - 1 : a[j] = s[j]
  /\ b \in Seq(A) /\ Len(b) = Len(s) - i /\ \A j \in 1 .. Len(s) - i : b[j] = s[i + j]
  /\ \A x \in A : [s EXCEPT ![i] = x] = Join(Join(a, <<x>>), b)

LEMMA Replace ==
  ASSUME NEW A, NEW s \in Seq(A), NEW i \in DOMAIN s
  PROVE  \E a, b : Around(a, b, A, s, i)
<1> DEFINE n == Len(s)
           a == SubSeq(s, 1, i - 1)
           b == Drop(s, i)
<1>1. n \in Nat /\ i \in 1 .. n /\ i - 1 \in 0 .. n /\ i \in 0 .. n
  OBVIOUS
<1>2. /\ a \in Seq(A) /\ Len(a) = i - 1 /\ \A j \in 1 .. i - 1 : a[j] = s[j]
      /\ b \in Seq(A) /\ Len(b) = n - i /\ \A j \in 1 .. n - i : b[j] = s[i + j]
  <2>1. i - 1 \in 0 .. Len(s) /\ i \in 0 .. Len(s)
    BY <1>1
  <2> QED BY <2>1, Split
<1> HIDE DEF a, b, n
<1>3. ASSUME NEW x \in A PROVE [s EXCEPT ![i] = x] = Join(Join(a, <<x>>), b)
  <2> DEFINE u == [s EXCEPT ![i] = x]
             y == <<x>>
             c == Join(a, y)
             d == Join(c, b)
  <2>1. u \in Seq(A) /\ Len(u) = n /\ u[i] = x /\ \A j \in 1 .. n : j # i => u[j] = s[j]
    BY DEF n
  <2>2. y \in Seq(A) /\ Len(y) = 1 /\ y[1] = x
    OBVIOUS
  <2> HIDE DEF u, y
  <2>3. /\ c \in Seq(A) /\ Len(c) = Len(a) + Len(y)
        /\ \A j \in 1 .. Len(a) : c[j] = a[j]
        /\ \A j \in 1 .. Len(y) : c[Len(a) + j] = y[j]
    <3>1. a \in Seq(A) /\ y \in Seq(A)
      BY <1>2, <2>2
    <3>2. c \in Seq(A)
      BY <3>1, JoinType
    <3> QED BY <3>1, <3>2, JoinItems
  <2> HIDE DEF c
  <2>4. Len(c) = i /\ c[i] = x /\ \A j \in 1 .. i - 1 : c[j] = s[j]
    <3>1. 1 \in 1 .. Len(y)
      BY <2>2
    <3>2. c[Len(a) + 1] = x
      BY <2>2, <2>3, <3>1
    <3> QED BY <1>1, <1>2, <2>2, <2>3, <3>2
  <2>5. /\ d \in Seq(A) /\ Len(d) = Len(c) + Len(b) /\ \A j \in 1 .. Len(c) : d[j] = c[j]
        /\ \A j \in 1 .. Len(b) : d[Len(c) + j] = b[j]
    <3>1. c \in Seq(A) /\ b \in Seq(A)
      BY <1>2, <2>3
    <3>2. d \in Seq(A)
      BY <3>1, JoinType
    <3> QED BY <3>1, <3>2, JoinItems
  <2> HIDE DEF d
  <2>6. Len(d) = n /\ d[i] = x /\ \A j \in 1 .. i - 1 : d[j] = s[j]
    <3>1. Len(d) = n
      BY <1>1, <1>2, <2>4, <2>5
    <3>2. \A j \in 1 .. i : d[j] = c[j]
      BY <2>4, <2>5
    <3> QED BY <1>1, <2>4, <3>1, <3>2
  <2>7. \A j \in 1 .. n - i : d[i + j] = s[i + j]
    <3>1. \A j \in 1 .. n - i : d[i + j] = b[j]
      BY <1>2, <2>4, <2>5
    <3> QED BY <1>2, <3>1
  <2>8. \A j \in 1 .. n : d[j] = u[j]
    <3> TAKE j \in 1 .. n
    <3>1. CASE j < i
      BY <1>1, <2>1, <2>6, <3>1
    <3>2. CASE j = i
      BY <1>1, <2>1, <2>6, <3>2
    <3>3. CASE j > i
      <4>1. j - i \in 1 .. n - i /\ i + (j - i) = j
        BY <1>1, <3>3
      <4>2. d[i + (j - i)] = s[i + (j - i)]
        BY <2>7, <4>1
      <4>3. d[j] = s[j]
        BY <4>1, <4>2
      <4> QED BY <1>1, <2>1, <3>3, <4>3
    <3> QED BY <1>1, <3>1, <3>2, <3>3
  <2>9. u = d
    BY <1>1, <2>1, <2>5, <2>6, <2>8, SeqEqual
  <2> QED BY <2>9 DEF u, d, c, y
<1> QED BY <1>2, <1>3 DEF n, Around

\* Dropping items from a sequence drops the chosen among them.
LEMMA OnlyDrop ==
  ASSUME NEW A, NEW s \in Seq(A), NEW n \in 0 .. Len(s), NEW S
  PROVE  /\ Len(Only(SubSeq(s, 1, n), S)) \in 0 .. n
         /\ Len(Only(SubSeq(s, 1, n), S)) <= Len(Only(s, S))
         /\ Only(Drop(s, n), S) = Drop(Only(s, S), Len(Only(SubSeq(s, 1, n), S)))
<1> DEFINE a == SubSeq(s, 1, n)
           b == Drop(s, n)
<1>1. a \in Seq(A) /\ b \in Seq(A) /\ s = a \o b /\ Len(a) = n
  BY Split
<1> HIDE DEF a, b
<1>2. Only(s, S) = Only(a, S) \o Only(b, S)
  BY <1>1, OnlyConcat
<1>3. /\ Only(a, S) \in Seq(A) /\ Only(b, S) \in Seq(A)
      /\ Len(Only(a, S)) <= n /\ Len(Only(a, S)) \in Nat
  BY <1>1, OnlyMembers
<1>4. Len(Only(s, S)) = Len(Only(a, S)) + Len(Only(b, S)) /\ Len(Only(b, S)) \in Nat
  BY <1>2, <1>3
<1>5. Drop(Only(s, S), Len(Only(a, S))) = Only(b, S)
  BY <1>2, <1>3, DropConcat
<1>6. Len(Only(a, S)) \in 0 .. n /\ Len(Only(a, S)) <= Len(Only(s, S))
  BY <1>3, <1>4
<1> QED BY <1>5, <1>6 DEF a, b

\* A sequence without its i-th item, and one with an item put first.
Cut(s, i) == [j \in 1 .. Len(s) - 1 |-> IF j < i THEN s[j] ELSE s[j + 1]]
Ahead(x, s) == <<x>> \o s

LEMMA CutItems ==
  ASSUME NEW A, NEW s \in Seq(A), NEW i \in DOMAIN s
  PROVE  /\ Cut(s, i) \in Seq(A) /\ Len(Cut(s, i)) = Len(s) - 1
         /\ \A j \in 1 .. Len(s) - 1 : Cut(s, i)[j] = IF j < i THEN s[j] ELSE s[j + 1]
<1> DEFINE n == Len(s) - 1
           c == Cut(s, i)
<1>1. n \in Nat /\ i \in 1 .. n + 1 /\ \A j \in 1 .. n + 1 : s[j] \in A
  OBVIOUS
<1>2. c \in [1 .. n -> A] /\ \A j \in 1 .. n : c[j] = IF j < i THEN s[j] ELSE s[j + 1]
  <2>1. c = [j \in 1 .. n |-> IF j < i THEN s[j] ELSE s[j + 1]]
    BY DEF Cut
  <2> HIDE DEF c, n
  <2>2. \A j \in 1 .. n : (IF j < i THEN s[j] ELSE s[j + 1]) \in A
    BY <1>1
  <2> QED BY <2>1, <2>2
<1> HIDE DEF c, n
<1>3. c \in Seq(A) /\ Len(c) = n
  BY <1>1, <1>2
<1> QED BY <1>2, <1>3 DEF c, n

LEMMA AheadItems ==
  ASSUME NEW A, NEW s \in Seq(A), NEW x \in A
  PROVE  /\ Ahead(x, s) \in Seq(A) /\ Len(Ahead(x, s)) = Len(s) + 1
         /\ Ahead(x, s)[1] = x
         /\ \A j \in 1 .. Len(s) : Ahead(x, s)[j + 1] = s[j]
BY DEF Ahead

\* Choosing all items but one.
LEMMA OnlyCut ==
  ASSUME NEW A, NEW s \in Seq(A), NEW i \in DOMAIN s, NEW S,
         \A j \in DOMAIN s : s[j] \in S <=> j # i
  PROVE  Only(s, S) = Cut(s, i)
<1>1. PICK a, b : Around(a, b, A, s, i)
  BY Replace
<1> DEFINE n == Len(s)
           x == s[i]
           y == <<x>>
           c == Cut(s, i)
<1>2. /\ n \in Nat /\ i \in 1 .. n /\ x \in A /\ y \in Seq(A)
      /\ DOMAIN s = 1 .. n /\ x \notin S
  OBVIOUS
<1>3. /\ a \in Seq(A) /\ Len(a) = i - 1 /\ \A j \in 1 .. i - 1 : a[j] = s[j]
      /\ b \in Seq(A) /\ Len(b) = n - i /\ \A j \in 1 .. n - i : b[j] = s[i + j]
  BY <1>1 DEF Around
<1>4. s = Join(Join(a, y), b)
  <2>1. [s EXCEPT ![i] = x] = s
    OBVIOUS
  <2> QED BY <1>1, <1>2, <2>1 DEF Around
<1>5. Only(a, S) = a
  <2>1. \A j \in DOMAIN a : a[j] \in S
    BY <1>2, <1>3
  <2> QED BY <1>3, <2>1, OnlyAll
<1>6. Only(b, S) = b
  <2>1. \A j \in DOMAIN b : b[j] \in S
    <3> TAKE j \in DOMAIN b
    <3>1. j \in 1 .. n - i /\ i + j \in 1 .. n /\ i + j # i
      BY <1>2, <1>3
    <3> QED BY <1>2, <1>3, <3>1
  <2> QED BY <1>3, <2>1, OnlyAll
<1>7. Only(y, S) = <<>>
  BY <1>2, OnlySingle
<1>8. c \in Seq(A) /\ Len(c) = n - 1
      /\ \A j \in 1 .. n - 1 : c[j] = IF j < i THEN s[j] ELSE s[j + 1]
  BY CutItems
<1> HIDE DEF n, x, y, c
<1>9. Only(s, S) = Join(a, b)
  <2>1. Join(a, y) \in Seq(A)
    BY <1>2, <1>3, JoinType
  <2>2. Only(s, S) = Join(Only(Join(a, y), S), b)
    BY <1>3, <1>4, <1>6, <2>1, OnlyJoin
  <2>3. Only(Join(a, y), S) = Join(a, <<>>)
    BY <1>2, <1>3, <1>5, <1>7, OnlyJoin
  <2> QED BY <1>3, <2>2, <2>3, JoinEmpty
<1>10. Join(a, b) = c
  <2> DEFINE d == Join(a, b)
  <2>1. d \in Seq(A)
    BY <1>3, JoinType
  <2>2. /\ Len(d) = Len(a) + Len(b) /\ \A j \in 1 .. Len(a) : d[j] = a[j]
        /\ \A j \in 1 .. Len(b) : d[Len(a) + j] = b[j]
    <3>1. a \in Seq(A) /\ b \in Seq(A)
      BY <1>3
    <3> QED BY <3>1, JoinItems
  <2> HIDE DEF d
  <2>3. \A j \in 1 .. n - 1 : d[j] = c[j]
    <3> TAKE j \in 1 .. n - 1
    <3>1. CASE j < i
      <4>1. j \in 1 .. i - 1 /\ j \in 1 .. Len(a)
        BY <1>2, <1>3, <3>1
      <4>2. d[j] = a[j] /\ a[j] = s[j]
        BY <1>3, <2>2, <4>1
      <4> QED BY <1>8, <3>1, <4>2
    <3>2. CASE ~ (j < i)
      <4>1. j - i + 1 \in 1 .. n - i /\ i - 1 + (j - i + 1) = j /\ i + (j - i + 1) = j + 1
        BY <1>2, <3>2
      <4>2. d[i - 1 + (j - i + 1)] = b[j - i + 1] /\ b[j - i + 1] = s[i + (j - i + 1)]
        BY <1>3, <2>2, <4>1
      <4>3. d[j] = s[j + 1]
        BY <4>1, <4>2
      <4> QED BY <1>8, <3>2, <4>3
    <3> QED BY <3>1, <3>2
  <2>4. Len(d) = n - 1
    BY <1>2, <1>3, <2>2
  <2>5. d = c
    BY <1>8, <2>1, <2>3, <2>4, SeqEqual
  <2> QED BY <2>5 DEF d
<1> QED BY <1>9, <1>10 DEF c

\* The members of a sequence without repetition.
LEMMA CutRange ==
  ASSUME NEW A, NEW s \in Seq(A), NEW i \in DOMAIN s, IsInjective(s)
  PROVE  IsInjective(Cut(s, i)) /\ Range(Cut(s, i)) = Range(s) \ {s[i]}
<1> DEFINE n == Len(s)
           c == Cut(s, i)
<1>1. n \in Nat /\ i \in 1 .. n /\ DOMAIN s = 1 .. n
      /\ \A j, l \in 1 .. n : s[j] = s[l] => j = l
  BY DEF IsInjective
<1>2. c \in Seq(A) /\ Len(c) = n - 1
      /\ \A j \in 1 .. n - 1 : c[j] = IF j < i THEN s[j] ELSE s[j + 1]
  BY CutItems
<1> HIDE DEF n, c
<1>3. DOMAIN c = 1 .. n - 1
  BY <1>2
<1>4. \A j \in 1 .. n - 1 : \/ j < i /\ j \in 1 .. n /\ c[j] = s[j]
                            \/ ~ (j < i) /\ j + 1 \in 1 .. n /\ c[j] = s[j + 1]
  BY <1>1, <1>2
<1>5. \A j, l \in 1 .. n - 1 : c[j] = c[l] => j = l
  BY <1>1, <1>4
<1>6. \A j \in 1 .. n - 1 : c[j] \in Range(s) \ {s[i]}
  BY <1>1, <1>4 DEF Range
<1>7. \A j \in 1 .. n : j # i => s[j] \in Range(c)
  <2> SUFFICES ASSUME NEW j \in 1 .. n, j # i PROVE s[j] \in Range(c)
    OBVIOUS
  <2>1. CASE j < i
    <3>1. j \in DOMAIN c /\ c[j] = s[j]
      BY <1>1, <1>2, <1>3, <2>1
    <3> QED BY <3>1 DEF Range
  <2>2. CASE j > i
    <3>1. j - 1 \in 1 .. n - 1 /\ ~ (j - 1 < i) /\ j - 1 + 1 = j
      BY <1>1, <2>2
    <3>2. j - 1 \in DOMAIN c /\ c[j - 1] = s[j]
      BY <1>2, <1>3, <3>1
    <3> QED BY <3>2 DEF Range
  <2> QED BY <1>1, <2>1, <2>2
<1>8. IsInjective(c)
  BY <1>3, <1>5 DEF IsInjective
<1>9. Range(c) = Range(s) \ {s[i]}
  BY <1>1, <1>3, <1>6, <1>7 DEF Range
<1> QED BY <1>8, <1>9 DEF c

LEMMA AheadRange ==
  ASSUME NEW A, NEW s \in Seq(A), NEW x \in A
  PROVE  /\ Range(Ahead(x, s)) = Range(s) \cup {x}
         /\ IsInjective(s) /\ x \notin Range(s) => IsInjective(Ahead(x, s))
<1> DEFINE n == Len(s)
           u == Ahead(x, s)
<1>1. n \in Nat /\ DOMAIN s = 1 .. n
  OBVIOUS
<1>2. /\ u \in Seq(A) /\ Len(u) = n + 1 /\ u[1] = x
      /\ \A j \in 1 .. n : u[j + 1] = s[j]
  BY AheadItems
<1> HIDE DEF n, u
<1>3. DOMAIN u = 1 .. n + 1
  BY <1>2
<1>4. \A j \in 1 .. n + 1 : j = 1 \/ (j - 1 \in 1 .. n /\ u[j] = s[j - 1])
  <2> SUFFICES ASSUME NEW j \in 1 .. n + 1, j # 1 PROVE j - 1 \in 1 .. n /\ u[j] = s[j - 1]
    OBVIOUS
  <2>1. j - 1 \in 1 .. n /\ j - 1 + 1 = j
    BY <1>1
  <2>2. u[j - 1 + 1] = s[j - 1]
    BY <1>2, <2>1
  <2> QED BY <2>1, <2>2
<1>5. Range(u) = Range(s) \cup {x}
  <2>1. \A j \in DOMAIN u : u[j] \in Range(s) \cup {x}
    BY <1>1, <1>2, <1>3, <1>4 DEF Range
  <2>2. x \in Range(u)
    BY <1>1, <1>2, <1>3 DEF Range
  <2>3. \A j \in DOMAIN s : s[j] \in Range(u)
    <3> TAKE j \in DOMAIN s
    <3>1. j + 1 \in DOMAIN u /\ u[j + 1] = s[j]
      BY <1>1, <1>2, <1>3
    <3> QED BY <3>1 DEF Range
  <2> QED BY <2>1, <2>2, <2>3 DEF Range
<1>6. IsInjective(s) /\ x \notin Range(s) => IsInjective(u)
  <2> SUFFICES ASSUME IsInjective(s), x \notin Range(s), NEW j \in 1 .. n + 1,
                      NEW l \in 1 .. n + 1, u[j] = u[l]
               PROVE  j = l
    BY <1>3 DEF IsInjective
  <2>1. \A m \in 1 .. n : s[m] # x
    BY <1>1 DEF Range
  <2>2. CASE j = 1 \/ l = 1
    BY <1>2, <1>4, <2>1, <2>2
  <2>3. CASE j # 1 /\ l # 1
    <3>1. j - 1 \in DOMAIN s /\ l - 1 \in DOMAIN s /\ s[j - 1] = s[l - 1]
      BY <1>1, <1>4, <2>3
    <3>2. j - 1 = l - 1
      BY <3>1 DEF IsInjective
    <3> QED BY <1>1, <3>2
  <2> QED BY <2>2, <2>3
<1> QED BY <1>5, <1>6 DEF u
=============================================================================
