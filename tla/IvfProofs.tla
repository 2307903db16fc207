------------------------------ MODULE IvfProofs ------------------------------
(***************************************************************************)
(* Proofs about IvfPersist: what is in memory and on the path is well       *)
(* formed (Typed), a search for a vector the index holds looks where it is  *)
(* (HeldIsFound), what a finished save found stays through restarts         *)
(* (KeptIsHeld), metadata lead to a key of their vector                     *)
(* (PathsArePaired), and a load after a save gives the entries back         *)
(* (SavesAreExact).                                                         *)
(*                                                                          *)
(* FoundInv, KeptInv and PathInv are the inductive invariants.  The lemmas  *)
(* on sequences and keys come first, then the invariants, then a lemma for  *)
(* each action and invariant.                                               *)
(***************************************************************************)
EXTENDS IvfPersist, SequenceTheorems, FiniteSetTheorems, WellFoundedInduction, TLAPS

(***************************************************************************)
(* Numbers and sequences.                                                   *)
(***************************************************************************)
\* A nonempty set of numbers has a least one.
LEMMA MinExists ==
  ASSUME NEW S \in SUBSET Nat, S # {}
  PROVE  Min(S) \in S /\ \A y \in S : Min(S) <= y
<1> DEFINE R == OpToRel(<, Nat)
<1>1. \E x \in S : \A y \in S : <<y, x>> \notin R
  BY NatLessThanWellFounded, WFMin
<1>2. \A x, y \in Nat : y < x => <<y, x>> \in R
  BY DEF OpToRel
<1>3. PICK x \in S : \A y \in S : <<y, x>> \notin R
  BY <1>1
<1> HIDE DEF R
<1>4. \A y \in S : ~(y < x)
  BY <1>2, <1>3
<1>5. \E k \in S : \A y \in S : k =< y
  BY <1>3, <1>4
<1>6. QED
  BY <1>5 DEF Min

LEMMA InRange == ASSUME NEW f, NEW x PROVE x \in Range(f) <=> \E i \in DOMAIN f : x = f[i]
  BY DEF Range

\* What is in a sequence is at some place of it.
LEMMA RangeIff ==
  ASSUME NEW S, NEW s \in Seq(S), NEW x
  PROVE  x \in Range(s) <=> \E i \in 1..Len(s) : x = s[i]
<1>1. DOMAIN s = 1..Len(s)
  BY LenProperties
<1>2. QED
  BY <1>1, InRange

\* (See RangeIff.)
LEMMA RangeWithin ==
  ASSUME NEW S, NEW s \in Seq(S)
  PROVE  Range(s) \subseteq S
<1>1. \A i \in 1..Len(s) : s[i] \in S
  BY ElementOfSeq
<1>2. QED
  BY <1>1, RangeIff

\* (See RangeIff.)
LEMMA RangeHolds ==
  ASSUME NEW S, NEW s \in Seq(S), NEW i \in 1..Len(s)
  PROVE  s[i] \in Range(s)
BY RangeIff

\* A sequence without its head.
LEMMA HeadAndTail ==
  ASSUME NEW S, NEW s \in Seq(S), s # <<>>
  PROVE  /\ Head(s) \in S /\ Tail(s) \in Seq(S)
         /\ Range(s) = {Head(s)} \cup Range(Tail(s))
<1>1. /\ Head(s) \in S /\ Tail(s) \in Seq(S) /\ Len(Tail(s)) = Len(s) - 1 /\ Len(s) \in Nat \ {0}
      /\ \A i \in 1..Len(Tail(s)) : Tail(s)[i] = s[i + 1]
  BY HeadTailProperties, EmptySeq
<1>2. Head(s) = s[1]
  BY DEF Head
<1>3. /\ \A x : x \in Range(s) <=> \E i \in 1..Len(s) : x = s[i]
      /\ \A x : x \in Range(Tail(s)) <=> \E i \in 1..Len(Tail(s)) : x = Tail(s)[i]
  <2>1. \A x : x \in Range(s) <=> \E i \in 1..Len(s) : x = s[i]
    BY RangeIff
  <2>2. \A x : x \in Range(Tail(s)) <=> \E i \in 1..Len(Tail(s)) : x = Tail(s)[i]
    BY <1>1, RangeIff
  <2>3. QED
    BY <2>1, <2>2
<1>4. ASSUME NEW i \in 1..Len(s) PROVE s[i] = Head(s) \/ s[i] \in Range(Tail(s))
  <2>1. CASE i = 1
    BY <1>2, <2>1
  <2>2. CASE i # 1
    <3>1. i - 1 \in 1..Len(Tail(s)) /\ Tail(s)[i - 1] = s[i]
      BY <1>1, <2>2
    <3>2. QED
      BY <1>3, <3>1
  <2>3. QED
    BY <2>1, <2>2
<1>5. ASSUME NEW i \in 1..Len(Tail(s)) PROVE Tail(s)[i] \in Range(s)
  <2>1. i + 1 \in 1..Len(s) /\ Tail(s)[i] = s[i + 1]
    BY <1>1
  <2>2. QED
    BY <1>3, <2>1
<1>6. Head(s) \in Range(s)
  BY <1>1, <1>2, <1>3
<1>7. Range(s) = {Head(s)} \cup Range(Tail(s))
  BY <1>3, <1>4, <1>5, <1>6
<1>8. QED
  BY <1>1, <1>7

\* The body of the recursion that FlattenSeq is.
Flattens(f, ss, n) == f = [i \in 1..n |-> IF i = 1 THEN ss[i] ELSE f[i - 1] \o ss[i]]

\* It has a solution, of any length.
LEMMA FlattenExists ==
  ASSUME NEW n \in Nat, NEW ss
  PROVE  \E f : Flattens(f, ss, n)
<1> DEFINE Can(k) == \E f : Flattens(f, ss, k)
           S == {k \in 0..n : ~Can(k)}
<1> HIDE DEF Can
<1> SUFFICES ASSUME S # {} PROVE FALSE
  <2>1. n \in 0..n
    OBVIOUS
  <2>2. S = {} => Can(n)
    BY <2>1
  <2>3. QED
    BY <2>2 DEF Can
<1> DEFINE k == Min(S)
<1>1. k \in S /\ \A y \in S : k <= y
  <2>1. S \in SUBSET Nat
    OBVIOUS
  <2> HIDE DEF S
  <2>2. QED
    BY <2>1, MinExists
<1> HIDE DEF k
<1>2. k \in 0..n /\ ~\E f : Flattens(f, ss, k)
  BY <1>1 DEF Can
<1>3. k # 0
  <2> DEFINE f == [i \in 1..0 |-> ss]
  <2>1. Flattens(f, ss, 0)
    BY DEF Flattens
  <2>2. QED
    BY <1>2, <2>1
<1>4. k - 1 \in 0..n /\ k - 1 \notin S
  <2> HIDE DEF S
  <2>1. QED
    BY <1>1, <1>2, <1>3
<1>5. PICK f : Flattens(f, ss, k - 1)
  BY <1>4 DEF Can
<1> DEFINE g == [i \in 1..k |-> IF i = k THEN (IF k = 1 THEN ss[k] ELSE f[k - 1] \o ss[k]) ELSE f[i]]
<1>6. ASSUME NEW i \in 1..k PROVE g[i] = IF i = 1 THEN ss[i] ELSE g[i - 1] \o ss[i]
  <2>1. CASE i = k
    <3>1. k # 1 => k - 1 \in 1..k /\ g[k - 1] = f[k - 1]
      BY <1>2, <1>3
    <3>2. QED
      BY <2>1, <3>1
  <2>2. CASE i # k
    <3>1. i \in 1..k - 1 /\ g[i] = f[i]
      BY <1>2, <2>2
    <3>2. f[i] = IF i = 1 THEN ss[i] ELSE f[i - 1] \o ss[i]
      BY <1>5, <3>1 DEF Flattens
    <3>3. i # 1 => i - 1 \in 1..k /\ i - 1 # k /\ g[i - 1] = f[i - 1]
      BY <1>2, <3>1
    <3>4. QED
      BY <3>1, <3>2, <3>3
  <2>3. QED
    BY <2>1, <2>2
<1>7. g = [i \in 1..k |-> g[i]]
  OBVIOUS
<1> HIDE DEF g
<1>8. g = [i \in 1..k |-> IF i = 1 THEN ss[i] ELSE g[i - 1] \o ss[i]]
  BY <1>6, <1>7
<1>9. QED
  BY <1>2, <1>8 DEF Flattens

\* Sequences one after the other hold what they hold.
LEMMA FlattenHolds ==
  ASSUME NEW S, NEW ss \in Seq(Seq(S))
  PROVE  /\ FlattenSeq(ss) \in Seq(S)
         /\ Range(FlattenSeq(ss)) = UNION {Range(ss[i]) : i \in 1..Len(ss)}
<1> DEFINE n == Len(ss)
           f == CHOOSE f : Flattens(f, ss, n)
           Union(k) == UNION {Range(ss[i]) : i \in 1..k}
           Good(k) == f[k] \in Seq(S) /\ Range(f[k]) = Union(k)
<1>1. n \in Nat /\ \A i \in 1..n : ss[i] \in Seq(S)
  BY LenProperties, ElementOfSeq
<1>2. Flattens(f, ss, n)
  BY <1>1, FlattenExists
<1>3. \A i \in 1..n : f[i] = IF i = 1 THEN ss[i] ELSE f[i - 1] \o ss[i]
  <2> HIDE DEF f, n
  <2>1. QED
    BY <1>2 DEF Flattens
<1>4. n # 0 => FlattenSeq(ss) = f[n]
  BY DEF FlattenSeq, Flattens
<1> HIDE DEF f
<1>5. ASSUME NEW k \in 1..n, k = 1 \/ Good(k - 1) PROVE Good(k)
  <2>1. CASE k = 1
    <3>1. f[k] = ss[k] /\ 1..k = {k}
      BY <1>3, <2>1
    <3>2. QED
      BY <1>1, <3>1
  <2>2. CASE k # 1
    <3>1. f[k] = f[k - 1] \o ss[k] /\ ss[k] \in Seq(S) /\ f[k - 1] \in Seq(S)
      BY <1>1, <1>3, <1>5, <2>2
    <3>2. Range(f[k]) = Range(f[k - 1]) \cup Range(ss[k])
      <4> DEFINE a == f[k - 1]
                 b == ss[k]
      <4> HIDE DEF a, b
      <4>1. a \in Seq(S) /\ b \in Seq(S) /\ f[k] = a \o b
        BY <3>1 DEF a, b
      <4>2. /\ Len(a) \in Nat /\ Len(b) \in Nat /\ Len(a \o b) = Len(a) + Len(b) /\ a \o b \in Seq(S)
            /\ \A i \in 1..Len(a) + Len(b) : (a \o b)[i] = IF i <= Len(a) THEN a[i] ELSE b[i - Len(a)]
        BY <4>1, ConcatProperties, LenProperties
      <4>3. DOMAIN a = 1..Len(a) /\ DOMAIN b = 1..Len(b) /\ DOMAIN (a \o b) = 1..Len(a) + Len(b)
        BY <4>1, <4>2, LenProperties
      <4>4. \A i \in 1..Len(b) : i + Len(a) \in 1..Len(a) + Len(b) /\ (a \o b)[i + Len(a)] = b[i]
        BY <4>2
      <4>5. \A i \in 1..Len(a) : i \in 1..Len(a) + Len(b) /\ (a \o b)[i] = a[i]
        BY <4>2
      <4>6. \A i \in 1..Len(a) + Len(b) : \/ i \in 1..Len(a) /\ (a \o b)[i] = a[i]
                                          \/ i - Len(a) \in 1..Len(b) /\ (a \o b)[i] = b[i - Len(a)]
        BY <4>2
      <4>7. Range(a \o b) = Range(a) \cup Range(b)
        <5>1. \A x : /\ x \in Range(a) <=> \E i \in 1..Len(a) : x = a[i]
                     /\ x \in Range(b) <=> \E i \in 1..Len(b) : x = b[i]
                     /\ x \in Range(a \o b) <=> \E i \in 1..Len(a) + Len(b) : x = (a \o b)[i]
          BY <4>3, InRange
        <5>2. ASSUME NEW x PROVE x \in Range(a \o b) <=> x \in Range(a) \/ x \in Range(b)
          <6>1. CASE x \in Range(a \o b)
            BY <4>6, <5>1, <6>1
          <6>2. CASE x \in Range(a)
            BY <4>5, <5>1, <6>2
          <6>3. CASE x \in Range(b)
            BY <4>4, <5>1, <6>3
          <6>4. QED
            BY <6>1, <6>2, <6>3
        <5>3. QED
          BY <5>2
      <4>8. QED
        BY <4>1, <4>7 DEF a, b
    <3>3. 1..k = (1..k - 1) \cup {k}
      BY <1>1
    <3>4. Union(k) = Union(k - 1) \cup Range(ss[k])
      BY <3>3
    <3>5. f[k] \in Seq(S)
      BY <3>1, ConcatProperties
    <3>6. QED
      BY <1>5, <2>2, <3>2, <3>4, <3>5
  <2>3. QED
    BY <2>1, <2>2
<1> HIDE DEF Good
<1>6. \A k \in 1..n : Good(k)
  <2> DEFINE B == {k \in 1..n : ~Good(k)}
  <2> SUFFICES ASSUME B # {} PROVE FALSE
    OBVIOUS
  <2> DEFINE k == Min(B)
  <2>1. k \in B /\ \A y \in B : k <= y
    <3>1. B \in SUBSET Nat
      OBVIOUS
    <3> HIDE DEF B
    <3>2. QED
      BY <3>1, MinExists
  <2> HIDE DEF k
  <2>2. k \in 1..n /\ ~Good(k)
    BY <2>1
  <2>3. k # 1 => k - 1 \in 1..n /\ Good(k - 1)
    BY <1>1, <2>1, <2>2
  <2>4. QED
    BY <1>5, <2>2, <2>3
<1>7. CASE n = 0
  <2>1. ss = <<>> /\ FlattenSeq(ss) = <<>>
    BY <1>7, EmptySeq DEF FlattenSeq
  <2>2. Range(<<>>) = {}
    BY DEF Range
  <2>3. 1..Len(ss) = {}
    BY <1>7
  <2>4. QED
    BY <2>1, <2>2, <2>3, EmptySeq
<1>8. CASE n # 0
  <2>1. Good(n)
    BY <1>1, <1>6, <1>8
  <2>2. QED
    BY <1>4, <1>8, <2>1 DEF Good
<1>9. QED
  BY <1>7, <1>8

\* They are of a kind that one after the other never leaves.
LEMMA FlattenClosed ==
  ASSUME NEW G, <<>> \in G, \A a, b \in G : a \o b \in G, NEW ss \in Seq(G)
  PROVE  FlattenSeq(ss) \in G
<1> DEFINE n == Len(ss)
           f == CHOOSE f : Flattens(f, ss, n)
           Good(k) == f[k] \in G
<1>1. n \in Nat /\ \A i \in 1..n : ss[i] \in G
  BY LenProperties, ElementOfSeq
<1>2. Flattens(f, ss, n)
  BY <1>1, FlattenExists
<1>3. \A i \in 1..n : f[i] = IF i = 1 THEN ss[i] ELSE f[i - 1] \o ss[i]
  <2> HIDE DEF f, n
  <2>1. QED
    BY <1>2 DEF Flattens
<1>4. n # 0 => FlattenSeq(ss) = f[n]
  BY DEF FlattenSeq, Flattens
<1> HIDE DEF f
<1>5. ASSUME NEW k \in 1..n, k = 1 \/ Good(k - 1) PROVE Good(k)
  BY <1>1, <1>3, <1>5
<1> HIDE DEF Good
<1>6. \A k \in 1..n : Good(k)
  <2> DEFINE B == {k \in 1..n : ~Good(k)}
  <2> SUFFICES ASSUME B # {} PROVE FALSE
    OBVIOUS
  <2> DEFINE k == Min(B)
  <2>1. k \in B /\ \A y \in B : k <= y
    <3>1. B \in SUBSET Nat
      OBVIOUS
    <3> HIDE DEF B
    <3>2. QED
      BY <3>1, MinExists
  <2> HIDE DEF k
  <2>2. k \in 1..n /\ ~Good(k)
    BY <2>1
  <2>3. k # 1 => k - 1 \in 1..n /\ Good(k - 1)
    BY <1>1, <2>1, <2>2
  <2>4. QED
    BY <1>5, <2>2, <2>3
<1>7. CASE n = 0
  BY <1>7, EmptySeq DEF FlattenSeq
<1>8. CASE n # 0
  BY <1>1, <1>4, <1>6, <1>8 DEF Good
<1>9. QED
  BY <1>7, <1>8

(***************************************************************************)
(* Keys in order.                                                           *)
(***************************************************************************)
StrictOrder(keys, order) ==
  /\ \A k \in keys : <<k, k>> \notin order
  /\ \A k, l, m \in keys : <<k, l>> \in order /\ <<l, m>> \in order => <<k, m>> \in order
  /\ \A k, l \in keys : k = l \/ <<k, l>> \in order \/ <<l, k>> \in order

\* Each key comes once: the numbers of keys before each are all numbers up to
\* that of the keys.
LEMMA SortedAll ==
  ASSUME NEW keys, IsFiniteSet(keys), NEW order, StrictOrder(keys, order)
  PROVE  /\ Sorted(keys, order) \in [1..Cardinality(keys) -> keys]
         /\ \A k \in keys : \E j \in 1..Cardinality(keys) : Sorted(keys, order)[j] = k
<1> DEFINE n == Cardinality(keys)
           Before(k) == {l \in keys : <<l, k>> \in order}
           rank == [k \in keys |-> Cardinality(Before(k))]
<1>1. n \in Nat
  BY FS_CardinalityType
<1>2. ASSUME NEW k \in keys
      PROVE  IsFiniteSet(Before(k)) /\ rank[k] \in 0..n - 1
  <2>1. Before(k) \in SUBSET (keys \ {k})
    BY DEF StrictOrder
  <2>2. IsFiniteSet(keys \ {k}) /\ Cardinality(keys \ {k}) = n - 1
    BY FS_RemoveElement
  <2> HIDE DEF Before
  <2>3. IsFiniteSet(Before(k)) /\ Cardinality(Before(k)) <= n - 1
    BY <2>1, <2>2, FS_Subset
  <2>4. Cardinality(Before(k)) \in Nat
    BY <2>3, FS_CardinalityType
  <2>5. QED
    BY <1>1, <2>3, <2>4
<1>3. ASSUME NEW k \in keys, NEW l \in keys, <<k, l>> \in order
      PROVE  rank[k] # rank[l]
  <2>1. Before(k) \in SUBSET Before(l) /\ k \in Before(l) /\ k \notin Before(k)
    BY <1>3 DEF StrictOrder
  <2>2. Before(k) # Before(l)
    BY <2>1
  <2>3. IsFiniteSet(Before(l))
    BY <1>2
  <2> HIDE DEF Before
  <2>4. QED
    BY <2>1, <2>2, <2>3, FS_Subset
<1> HIDE DEF Before
<1>4. rank \in Injection(keys, 0..n - 1)
  <2>1. rank \in [keys -> 0..n - 1]
    BY <1>2
  <2>2. \A k, l \in keys : rank[k] = rank[l] => k = l
    BY <1>3 DEF StrictOrder
  <2> HIDE DEF rank, n
  <2>3. QED
    BY <2>1, <2>2 DEF Injection, IsInjective
<1> HIDE DEF rank
<1>5. rank \in Surjection(keys, 0..n - 1)
  <2>1. IsFiniteSet(0..n - 1) /\ Cardinality(0..n - 1) = n
    BY <1>1, FS_Interval
  <2>2. QED
    BY <1>4, <2>1, FS_Injection
<1>6. /\ \A i \in 0..n - 1 : \E k \in keys : rank[k] = i
      /\ \A k, l \in keys : rank[k] = rank[l] => k = l
      /\ \A k \in keys : rank[k] \in 0..n - 1
  BY <1>4, <1>5 DEF Injection, Surjection, IsInjective
<1> DEFINE sorted == [j \in 1..n |-> CHOOSE k \in keys : Cardinality({l \in keys : <<l, k>> \in order}) = j - 1]
<1>7. Sorted(keys, order) = sorted
  BY DEF Sorted
<1>8. \A j \in 1..n : sorted[j] \in keys /\ rank[sorted[j]] = j - 1
  <2>1. ASSUME NEW j \in 1..n PROVE sorted[j] \in keys /\ rank[sorted[j]] = j - 1
    <3>1. j - 1 \in 0..n - 1
      BY <1>1
    <3>2. \E k \in keys : Cardinality({l \in keys : <<l, k>> \in order}) = j - 1
      BY <1>6, <3>1 DEF rank, Before
    <3>3. sorted[j] \in keys /\ Cardinality({l \in keys : <<l, sorted[j]>> \in order}) = j - 1
      BY <3>2
    <3>4. QED
      BY <3>3 DEF rank, Before
  <2>2. QED
    BY <2>1
<1>9. sorted \in [1..n -> keys]
  BY <1>8
<1> HIDE DEF sorted
<1>10. ASSUME NEW k \in keys PROVE \E j \in 1..n : sorted[j] = k
  <2>1. rank[k] + 1 \in 1..n /\ (rank[k] + 1) - 1 = rank[k]
    BY <1>1, <1>6
  <2>2. QED
    BY <1>6, <1>8, <2>1
<1>11. QED
  BY <1>7, <1>9, <1>10

\* What Digits is, up to a number.
Decimals(f, n) == f = [i \in 0..n |-> IF i < 10 THEN <<i>> ELSE Append(f[i \div 10], i % 10)]

LEMMA Tenth == ASSUME NEW n \in Nat, n >= 10 PROVE n \div 10 \in 0..n - 1 /\ n % 10 \in Nat
  OBVIOUS

\* (See Digits.)
LEMMA DecimalsExist == ASSUME NEW n \in Nat PROVE \E f : Decimals(f, n)
<1> DEFINE Can(k) == \E f : Decimals(f, k)
           S == {k \in 0..n : ~Can(k)}
<1> HIDE DEF Can
<1> SUFFICES ASSUME S # {} PROVE FALSE
  <2>1. n \in 0..n
    OBVIOUS
  <2>2. S = {} => Can(n)
    BY <2>1
  <2>3. QED
    BY <2>2 DEF Can
<1> DEFINE k == Min(S)
<1>1. k \in S /\ \A y \in S : k <= y
  <2>1. S \in SUBSET Nat
    OBVIOUS
  <2> HIDE DEF S
  <2>2. QED
    BY <2>1, MinExists
<1> HIDE DEF k
<1>2. k \in 0..n /\ ~\E f : Decimals(f, k)
  BY <1>1 DEF Can
<1>3. k # 0
  <2> DEFINE f == [i \in 0..0 |-> <<i>>]
  <2>1. Decimals(f, 0)
    BY DEF Decimals
  <2>2. QED
    BY <1>2, <2>1
<1>4. k - 1 \in 0..n /\ k - 1 \notin S
  <2> HIDE DEF S
  <2>1. QED
    BY <1>1, <1>2, <1>3
<1>5. PICK f : Decimals(f, k - 1)
  BY <1>4 DEF Can
<1> DEFINE g == [i \in 0..k |-> IF i = k THEN (IF k < 10 THEN <<k>> ELSE Append(f[k \div 10], k % 10)) ELSE f[i]]
<1>6. ASSUME NEW i \in 0..k PROVE g[i] = IF i < 10 THEN <<i>> ELSE Append(g[i \div 10], i % 10)
  <2>1. i >= 10 => i \div 10 \in 0..i - 1
    BY Tenth
  <2>2. i >= 10 => i \div 10 \in 0..k - 1
    BY <1>2, <2>1
  <2>3. i >= 10 => g[i \div 10] = f[i \div 10]
    BY <1>2, <2>2
  <2>4. CASE i = k
    BY <2>3, <2>4
  <2>5. CASE i # k
    <3>1. i \in 0..k - 1 /\ g[i] = f[i]
      BY <1>2, <2>5
    <3>2. f[i] = IF i < 10 THEN <<i>> ELSE Append(f[i \div 10], i % 10)
      BY <1>5, <3>1 DEF Decimals
    <3>3. QED
      BY <2>3, <3>1, <3>2
  <2>6. QED
    BY <2>4, <2>5
<1>7. g = [i \in 0..k |-> g[i]]
  OBVIOUS
<1> HIDE DEF g
<1>8. g = [i \in 0..k |-> IF i < 10 THEN <<i>> ELSE Append(g[i \div 10], i % 10)]
  BY <1>6, <1>7
<1>9. QED
  BY <1>2, <1>8 DEF Decimals

\* (See Digits.)
LEMMA DecimalsAgree ==
  ASSUME NEW m \in Nat, NEW n \in Nat, NEW f, NEW g, Decimals(f, m), Decimals(g, n),
         NEW k \in Nat, k <= m, k <= n
  PROVE  f[k] = g[k]
<1> DEFINE S == {i \in 0..k : f[i] # g[i]}
<1> SUFFICES ASSUME S # {} PROVE FALSE
  OBVIOUS
<1> DEFINE i == Min(S)
<1>1. i \in S /\ \A y \in S : i <= y
  <2>1. S \in SUBSET Nat
    OBVIOUS
  <2> HIDE DEF S
  <2>2. QED
    BY <2>1, MinExists
<1> HIDE DEF i
<1>2. i \in 0..k /\ f[i] # g[i] /\ i \in 0..m /\ i \in 0..n
  BY <1>1
<1>3. f[i] = IF i < 10 THEN <<i>> ELSE Append(f[i \div 10], i % 10)
  BY <1>2 DEF Decimals
<1>4. g[i] = IF i < 10 THEN <<i>> ELSE Append(g[i \div 10], i % 10)
  BY <1>2 DEF Decimals
<1>5. i >= 10 => i \div 10 \in 0..i - 1
  BY <1>2, Tenth
<1>6. i >= 10 => i \div 10 \in 0..k /\ i \div 10 \notin S
  <2> HIDE DEF S
  <2>1. QED
    BY <1>1, <1>2, <1>5
<1>7. i >= 10 => f[i \div 10] = g[i \div 10]
  BY <1>6
<1>8. QED
  BY <1>2, <1>3, <1>4, <1>7

\* The digits of a number are those of its tenth and one more.
LEMMA DigitsAre ==
  ASSUME NEW n \in Nat
  PROVE  Digits[n] = IF n < 10 THEN <<n>> ELSE Append(Digits[n \div 10], n % 10)
<1> DEFINE d(k) == CHOOSE f : Decimals(f, k)
           D == [k \in Nat |-> d(k)[k]]
<1>1. \A k \in Nat : Decimals(d(k), k)
  BY DecimalsExist
<1> HIDE DEF d
<1>2. ASSUME NEW k \in Nat PROVE D[k] = IF k < 10 THEN <<k>> ELSE Append(D[k \div 10], k % 10)
  <2>1. d(k)[k] = IF k < 10 THEN <<k>> ELSE Append(d(k)[k \div 10], k % 10)
    BY <1>1, k \in 0..k DEF Decimals
  <2>2. ASSUME k >= 10 PROVE d(k)[k \div 10] = D[k \div 10]
    <3>1. k \div 10 \in Nat /\ k \div 10 <= k
      BY <2>2, Tenth
    <3>2. d(k)[k \div 10] = d(k \div 10)[k \div 10]
      BY <1>1, <3>1, DecimalsAgree
    <3>3. QED
      BY <3>1, <3>2
  <2>3. QED
    BY <2>1, <2>2
<1>3. D = [k \in Nat |-> D[k]]
  OBVIOUS
<1> HIDE DEF D
<1>4. D = [k \in Nat |-> IF k < 10 THEN <<k>> ELSE Append(D[k \div 10], k % 10)]
  BY <1>2, <1>3
<1>5. Digits = [k \in Nat |-> IF k < 10 THEN <<k>> ELSE Append(Digits[k \div 10], k % 10)]
  BY <1>4 DEF Digits
<1>6. QED
  BY <1>5

\* A number has digits, and no other number has them.
LEMMA DigitsTell ==
  /\ \A n \in Nat : Digits[n] \in Seq(Nat) /\ Digits[n] # <<>>
  /\ \A m, n \in Nat : Digits[m] = Digits[n] => m = n
<1>1. ASSUME NEW n \in Nat PROVE Digits[n] \in Seq(Nat) /\ Digits[n] # <<>>
  <2> DEFINE Good(k) == Digits[k] \in Seq(Nat) /\ Digits[k] # <<>>
             S == {k \in 0..n : ~Good(k)}
  <2> HIDE DEF Good
  <2> SUFFICES ASSUME S # {} PROVE FALSE
    <3>1. n \in 0..n
      OBVIOUS
    <3>2. S = {} => Good(n)
      BY <3>1
    <3>3. QED
      BY <3>2 DEF Good
  <2> DEFINE k == Min(S)
  <2>1. k \in S /\ \A y \in S : k <= y
    <3>1. S \in SUBSET Nat
      OBVIOUS
    <3> HIDE DEF S
    <3>2. QED
      BY <3>1, MinExists
  <2> HIDE DEF k
  <2>2. k \in 0..n /\ ~Good(k)
    BY <2>1
  <2>3. Digits[k] = IF k < 10 THEN <<k>> ELSE Append(Digits[k \div 10], k % 10)
    BY <2>2, DigitsAre
  <2>4. k >= 10
    BY <2>2, <2>3 DEF Good
  <2>5. k \div 10 \in 0..k - 1 /\ k % 10 \in Nat
    BY <2>2, <2>4, Tenth
  <2>6. k \div 10 \in 0..n /\ k \div 10 \notin S
    <3> HIDE DEF S
    <3>1. QED
      BY <2>1, <2>2, <2>5
  <2>7. Digits[k \div 10] \in Seq(Nat)
    BY <2>6 DEF Good
  <2>8. Digits[k] \in Seq(Nat) /\ Digits[k] # <<>>
    <3>1. Digits[k] = Append(Digits[k \div 10], k % 10)
      BY <2>2, <2>3, <2>4
    <3>2. QED
      BY <2>5, <2>7, <3>1, AppendProperties
  <2>9. QED
    BY <2>2, <2>8 DEF Good
<1>2. ASSUME NEW m \in Nat, NEW n \in Nat, Digits[m] = Digits[n], m # n PROVE FALSE
  <2> DEFINE S == {k \in Nat : \E l \in Nat : k # l /\ Digits[k] = Digits[l]}
             k == Min(S)
  <2>1. m \in S
    BY <1>2
  <2>2. k \in S /\ \A y \in S : k <= y
    <3>1. S \in SUBSET Nat /\ S # {}
      BY <2>1
    <3> HIDE DEF S
    <3>2. QED
      BY <3>1, MinExists
  <2> HIDE DEF k
  <2>3. PICK l \in Nat : k # l /\ Digits[k] = Digits[l]
    BY <2>2
  <2>4. k \in Nat /\ l \in S
    BY <2>2, <2>3
  <2>5. k < l
    <3> HIDE DEF S
    <3>1. QED
      BY <2>2, <2>3, <2>4
  <2>6. Digits[l] = IF l < 10 THEN <<l>> ELSE Append(Digits[l \div 10], l % 10)
    BY DigitsAre
  <2>7. Digits[k] = IF k < 10 THEN <<k>> ELSE Append(Digits[k \div 10], k % 10)
    BY <2>4, DigitsAre
  <2>8. CASE l < 10
    BY <2>3, <2>4, <2>5, <2>6, <2>7, <2>8
  <2>9. CASE l >= 10
    <3>1. l \div 10 \in Nat /\ l % 10 \in Nat
      BY <2>9, Tenth
    <3>2. /\ Digits[l \div 10] \in Seq(Nat) /\ Len(Digits[l \div 10]) \in Nat \ {0}
          /\ Len(Append(Digits[l \div 10], l % 10)) = Len(Digits[l \div 10]) + 1
      BY <1>1, <3>1, AppendProperties, EmptySeq
    <3>3. Len(Digits[l]) > 1
      BY <2>6, <2>9, <3>2
    <3>4. k >= 10
      <4>1. ASSUME k < 10 PROVE ~(Len(Digits[k]) > 1)
        <5>1. Digits[k] = <<k>>
          BY <2>7, <4>1
        <5>2. QED
          BY <5>1
      <4>2. Len(Digits[k]) > 1
        BY <2>3, <3>3
      <4>3. ~(k < 10)
        BY <4>1, <4>2
      <4>4. QED
        BY <2>4, <4>3
    <3>5. k \div 10 \in 0..k - 1 /\ k % 10 \in Nat
      BY <2>4, <3>4, Tenth
    <3>6. Digits[k \div 10] \in Seq(Nat)
      BY <1>1, <3>5
    <3>7. Digits[k \div 10] = Digits[l \div 10] /\ k % 10 = l % 10
      <4> DEFINE a == Digits[k \div 10]
                 b == Digits[l \div 10]
      <4>1. Append(a, k % 10) = Append(b, l % 10)
        <5>1. ~(k < 10) /\ ~(l < 10)
          BY <2>4, <2>9, <3>4
        <5>2. QED
          BY <2>3, <2>6, <2>7, <5>1
      <4>2. a \in Seq(Nat) /\ b \in Seq(Nat)
        BY <3>2, <3>6
      <4> HIDE DEF a, b
      <4>3. a = b /\ k % 10 = l % 10
        BY <3>1, <3>5, <4>1, <4>2, AppendInjective
      <4>4. QED
        BY <4>3 DEF a, b
    <3>8. k \div 10 # l \div 10
      BY <2>4, <2>5, <3>7
    <3>9. k \div 10 \in S
      BY <3>1, <3>5, <3>7, <3>8
    <3>10. QED
      <4> HIDE DEF S
      <4>1. QED
        BY <2>2, <2>4, <3>5, <3>9
  <2>10. QED
    BY <2>8, <2>9
<1>3. QED
  BY <1>1, <1>2

\* Sequences of numbers compare like what they are with zeros behind them.
Padded(s) == [j \in Nat \ {0} |-> IF j <= Len(s) THEN s[j] + 1 ELSE 0]

PadLess(s, t) ==
  \E j \in Nat \ {0} : Padded(s)[j] < Padded(t)[j] /\ \A i \in 1..j - 1 : Padded(s)[i] = Padded(t)[i]

SeqLess(s, t) ==
  \/ IsStrictPrefix(s, t)
  \/ \E j \in DOMAIN s \cap DOMAIN t : s[j] < t[j] /\ \A i \in 1..j - 1 : s[i] = t[i]

\* A prefix, number by number.
LEMMA PrefixIff ==
  ASSUME NEW s \in Seq(Nat), NEW t \in Seq(Nat)
  PROVE  IsPrefix(s, t) <=> Len(s) <= Len(t) /\ \A i \in 1..Len(s) : s[i] = t[i]
<1>1. Len(s) \in Nat /\ Len(t) \in Nat
  BY LenProperties
<1>2. ASSUME Len(s) <= Len(t)
      PROVE  SubSeq(s, 1, Len(s)) = SubSeq(t, 1, Len(s)) <=> \A i \in 1..Len(s) : s[i] = t[i]
  <2>1. \A i \in 1..Len(s) : s[i] \in Nat /\ t[i] \in Nat
    <3>1. \A i \in 1..Len(s) : i \in 1..Len(t)
      BY <1>1, <1>2
    <3>2. QED
      BY <3>1, ElementOfSeq
  <2> DEFINE a == SubSeq(s, 1, Len(s))
             b == SubSeq(t, 1, Len(s))
  <2>2. /\ a \in Seq(Nat) /\ Len(a) = Len(s)
        /\ \A i \in 1..Len(s) : a[i] = s[i]
    <3>1. \A i \in 1..Len(s) : s[1 + i - 1] = s[i]
      BY <1>1
    <3>2. QED
      BY <1>1, <2>1, <3>1, SubSeqFull
  <2>3. /\ b \in Seq(Nat) /\ Len(b) = Len(s)
        /\ \A i \in 1..Len(s) : b[i] = t[i]
    <3>1. /\ b \in Seq(Nat) /\ Len(b) = IF 1 <= Len(s) THEN Len(s) - 1 + 1 ELSE 0
          /\ \A i \in 1..Len(s) - 1 + 1 : b[i] = t[1 + i - 1]
      BY <1>1, <2>1, SubSeqProperties
    <3>2. \A i \in 1..Len(s) : i \in 1..Len(s) - 1 + 1 /\ 1 + i - 1 = i
      BY <1>1
    <3>3. QED
      BY <1>1, <3>1, <3>2
  <2> HIDE DEF a, b
  <2>4. QED
    <3>1. a = b => \A i \in 1..Len(s) : s[i] = t[i]
      BY <2>2, <2>3
    <3>2. (\A i \in 1..Len(s) : s[i] = t[i]) => a = b
      BY <2>2, <2>3, SeqEqual
    <3>3. a = b <=> \A i \in 1..Len(s) : s[i] = t[i]
      BY <3>1, <3>2
    <3>4. QED
      BY <3>3 DEF a, b
<1>3. QED
  BY <1>2 DEF IsPrefix

\* (See Padded.)
LEMMA SeqLessPads ==
  ASSUME NEW s \in Seq(Nat), NEW t \in Seq(Nat)
  PROVE  SeqLess(s, t) <=> PadLess(s, t)
<1>1. /\ Len(s) \in Nat /\ Len(t) \in Nat /\ DOMAIN s = 1..Len(s) /\ DOMAIN t = 1..Len(t)
      /\ \A i \in 1..Len(s) : s[i] \in Nat
      /\ \A i \in 1..Len(t) : t[i] \in Nat
  BY LenProperties, ElementOfSeq
<1>2. \A j \in Nat \ {0} : /\ Padded(s)[j] = IF j <= Len(s) THEN s[j] + 1 ELSE 0
                           /\ Padded(t)[j] = IF j <= Len(t) THEN t[j] + 1 ELSE 0
  BY DEF Padded
<1>3. ASSUME IsStrictPrefix(s, t) PROVE PadLess(s, t)
  <2>1. Len(s) <= Len(t) /\ (\A i \in 1..Len(s) : s[i] = t[i]) /\ s # t
    BY <1>3, PrefixIff DEF IsStrictPrefix
  <2>2. Len(s) # Len(t)
    BY <2>1, SeqEqual
  <2> DEFINE j == Len(s) + 1
  <2>3. j \in Nat \ {0} /\ j <= Len(t) /\ ~(j <= Len(s)) /\ t[j] \in Nat
    <3>1. Len(s) < Len(t)
      <4>1. Len(s) \in Nat /\ Len(t) \in Nat /\ Len(s) <= Len(t)
        BY <1>1, <2>1
      <4>2. QED
        BY ONLY <4>1, <2>2
    <3>2. j \in 1..Len(t) /\ ~(j <= Len(s))
      BY <1>1, <3>1
    <3>3. QED
      BY <1>1, <3>2
  <2>4. Padded(s)[j] < Padded(t)[j]
    BY <1>2, <2>3
  <2>5. ASSUME NEW i \in 1..j - 1 PROVE Padded(s)[i] = Padded(t)[i]
    <3>1. i \in Nat \ {0} /\ i \in 1..Len(s) /\ i <= Len(s) /\ i <= Len(t)
      BY <1>1, <2>1
    <3>2. QED
      BY <1>2, <2>1, <3>1
  <2>6. QED
    BY <2>3, <2>4, <2>5 DEF PadLess
<1>4. ASSUME NEW j \in DOMAIN s \cap DOMAIN t, s[j] < t[j], \A i \in 1..j - 1 : s[i] = t[i]
      PROVE  PadLess(s, t)
  <2>1. j \in Nat \ {0} /\ j <= Len(s) /\ j <= Len(t) /\ s[j] \in Nat /\ t[j] \in Nat
    BY <1>1
  <2>2. Padded(s)[j] < Padded(t)[j]
    BY <1>2, <1>4, <2>1
  <2>3. ASSUME NEW i \in 1..j - 1 PROVE Padded(s)[i] = Padded(t)[i]
    <3>1. i \in Nat \ {0} /\ i <= Len(s) /\ i <= Len(t)
      BY <1>1, <2>1
    <3>2. QED
      BY <1>2, <1>4, <3>1
  <2>4. QED
    BY <2>1, <2>2, <2>3 DEF PadLess
<1>5. ASSUME NEW j \in Nat \ {0}, Padded(s)[j] < Padded(t)[j],
             \A i \in 1..j - 1 : Padded(s)[i] = Padded(t)[i]
      PROVE  SeqLess(s, t)
  <2>1. j <= Len(t)
    <3>1. ASSUME ~(j <= Len(t)) PROVE FALSE
      <4>1. Padded(t)[j] = 0
        BY <1>2, <3>1
      <4>2. Padded(s)[j] \in Nat
        BY <1>1, <1>2
      <4>3. QED
        BY <1>5, <4>1, <4>2
    <3>2. QED
      BY <3>1
  <2>2. ASSUME NEW i \in 1..j - 1 PROVE i <= Len(s) /\ i <= Len(t) /\ s[i] = t[i]
    <3>1. i \in Nat \ {0} /\ i <= Len(t) /\ t[i] \in Nat
      BY <1>1, <2>1
    <3>2. Padded(s)[i] = t[i] + 1
      BY <1>2, <1>5, <3>1
    <3>3. i <= Len(s)
      BY <1>2, <3>1, <3>2
    <3>4. s[i] \in Nat /\ Padded(s)[i] = s[i] + 1
      BY <1>1, <1>2, <3>1, <3>3
    <3>5. QED
      BY <3>1, <3>2, <3>3, <3>4
  <2>3. CASE j <= Len(s)
    <3>1. j \in DOMAIN s \cap DOMAIN t /\ s[j] \in Nat /\ t[j] \in Nat
      BY <1>1, <2>1, <2>3
    <3>2. s[j] + 1 < t[j] + 1
      BY <1>2, <1>5, <2>1, <2>3
    <3>3. s[j] < t[j]
      BY <3>1, <3>2
    <3>4. QED
      BY <2>2, <3>1, <3>3 DEF SeqLess
  <2>4. CASE ~(j <= Len(s))
    <3>1. Len(s) = j - 1
      <4>1. Len(s) < j
        BY <1>1, <2>4
      <4>2. j # 1 => j - 1 \in 1..j - 1
        OBVIOUS
      <4>3. j # 1 => j - 1 <= Len(s)
        BY <2>2, <4>2
      <4>4. QED
        BY <1>1, <4>1, <4>3
    <3>2. Len(s) <= Len(t) /\ Len(s) # Len(t)
      BY <1>1, <2>1, <3>1
    <3>3. IsPrefix(s, t)
      BY <2>2, <3>1, <3>2, PrefixIff
    <3>4. QED
      BY <3>2, <3>3 DEF SeqLess, IsStrictPrefix
  <2>5. QED
    BY <2>3, <2>4
<1>6. SeqLess(s, t) => PadLess(s, t)
  BY <1>3, <1>4 DEF SeqLess
<1>7. PadLess(s, t) => SeqLess(s, t)
  BY <1>5 DEF PadLess
<1>8. QED
  BY <1>6, <1>7

\* (See Padded.)
LEMMA PadsOrdered ==
  ASSUME NEW s \in Seq(Nat), NEW t \in Seq(Nat), NEW u \in Seq(Nat)
  PROVE  /\ ~PadLess(s, s)
         /\ PadLess(s, t) /\ PadLess(t, u) => PadLess(s, u)
         /\ s = t \/ PadLess(s, t) \/ PadLess(t, s)
<1> DEFINE a == Padded(s)
           b == Padded(t)
           c == Padded(u)
<1>1. /\ Len(s) \in Nat /\ Len(t) \in Nat
      /\ \A i \in 1..Len(s) : s[i] \in Nat
      /\ \A i \in 1..Len(t) : t[i] \in Nat
  BY LenProperties, ElementOfSeq
<1>2. a \in [Nat \ {0} -> Nat] /\ b \in [Nat \ {0} -> Nat] /\ c \in [Nat \ {0} -> Nat]
  <2>1. ASSUME NEW x \in Seq(Nat) PROVE Padded(x) \in [Nat \ {0} -> Nat]
    <3>1. Len(x) \in Nat /\ \A i \in 1..Len(x) : x[i] \in Nat
      BY LenProperties, ElementOfSeq
    <3>2. QED
      BY <3>1 DEF Padded
  <2>2. QED
    BY <2>1
<1>3. ~PadLess(s, s)
  <2>1. \A j \in Nat \ {0} : a[j] \in Nat
    BY <1>2
  <2>2. QED
    BY <2>1 DEF PadLess
<1>4. ASSUME PadLess(s, t), PadLess(t, u) PROVE PadLess(s, u)
  <2>1. PICK j \in Nat \ {0} : a[j] < b[j] /\ \A i \in 1..j - 1 : a[i] = b[i]
    BY <1>4 DEF PadLess
  <2>2. PICK k \in Nat \ {0} : b[k] < c[k] /\ \A i \in 1..k - 1 : b[i] = c[i]
    BY <1>4 DEF PadLess
  <2> HIDE DEF a, b, c
  <2> DEFINE l == IF j <= k THEN j ELSE k
  <2>3. l \in Nat \ {0} /\ a[l] < c[l] /\ \A i \in 1..l - 1 : a[i] = c[i]
    <3>1. CASE j < k
      <4>1. l = j /\ j \in 1..k - 1
        BY <3>1
      <4>2. \A i \in 1..j - 1 : i \in 1..k - 1
        BY <3>1
      <4>3. QED
        BY <2>1, <2>2, <4>1, <4>2
    <3>2. CASE j = k
      <4>1. a[j] \in Nat /\ b[j] \in Nat /\ c[j] \in Nat
        BY <1>2
      <4>2. QED
        BY <2>1, <2>2, <3>2, <4>1
    <3>3. CASE k < j
      <4>1. l = k /\ k \in 1..j - 1
        BY <3>3
      <4>2. \A i \in 1..k - 1 : i \in 1..j - 1
        BY <3>3
      <4>3. QED
        BY <2>1, <2>2, <4>1, <4>2
    <3>4. QED
      BY <3>1, <3>2, <3>3
  <2> HIDE DEF l
  <2>4. QED
    BY <2>3 DEF PadLess, a, c
<1>5. ASSUME s # t PROVE PadLess(s, t) \/ PadLess(t, s)
  <2> DEFINE D == {j \in Nat \ {0} : a[j] # b[j]}
  <2>1. D # {}
    <3>1. ASSUME D = {} PROVE s = t
      <4>1. \A j \in Nat \ {0} : a[j] = b[j]
        BY <3>1
      <4>2. \A j \in Nat \ {0} : /\ a[j] = IF j <= Len(s) THEN s[j] + 1 ELSE 0
                                 /\ b[j] = IF j <= Len(t) THEN t[j] + 1 ELSE 0
        BY DEF Padded
      <4> HIDE DEF a, b
      <4>3. ASSUME Len(s) < Len(t) PROVE FALSE
        <5>1. Len(t) \in Nat \ {0} /\ Len(t) \in 1..Len(t) /\ ~(Len(t) <= Len(s)) /\ Len(t) <= Len(t)
          BY <1>1, <4>3
        <5>2. b[Len(t)] = t[Len(t)] + 1 /\ t[Len(t)] \in Nat /\ a[Len(t)] = 0
          BY <1>1, <4>2, <5>1
        <5>3. QED
          BY <4>1, <5>1, <5>2
      <4>4. ASSUME Len(t) < Len(s) PROVE FALSE
        <5>1. Len(s) \in Nat \ {0} /\ Len(s) \in 1..Len(s) /\ ~(Len(s) <= Len(t)) /\ Len(s) <= Len(s)
          BY <1>1, <4>4
        <5>2. a[Len(s)] = s[Len(s)] + 1 /\ s[Len(s)] \in Nat /\ b[Len(s)] = 0
          BY <1>1, <4>2, <5>1
        <5>3. QED
          BY <4>1, <5>1, <5>2
      <4>5. Len(s) = Len(t)
        BY <1>1, <4>3, <4>4
      <4>6. ASSUME NEW i \in 1..Len(s) PROVE s[i] = t[i]
        <5>1. i \in Nat \ {0} /\ i <= Len(s) /\ i <= Len(t) /\ s[i] \in Nat /\ t[i] \in Nat
          BY <1>1, <4>5
        <5>2. s[i] + 1 = t[i] + 1
          BY <4>1, <4>2, <5>1
        <5>3. QED
          BY <5>1, <5>2
      <4>7. QED
        BY <4>5, <4>6, SeqEqual
    <3>2. QED
      BY <1>5, <3>1
  <2> DEFINE j == Min(D)
  <2>2. j \in D /\ \A y \in D : j <= y
    <3>1. D \in SUBSET Nat
      OBVIOUS
    <3> HIDE DEF D
    <3>2. QED
      BY <2>1, <3>1, MinExists
  <2> HIDE DEF j
  <2>3. j \in Nat \ {0} /\ a[j] # b[j]
    BY <2>2
  <2>4. ASSUME NEW i \in 1..j - 1 PROVE a[i] = b[i]
    <3>1. i \in Nat \ {0} /\ ~(j <= i)
      BY <2>3
    <3>2. i \notin D
      <4> HIDE DEF D
      <4>1. QED
        BY <2>2, <3>1
    <3>3. QED
      BY <3>1, <3>2
  <2>5. a[j] \in Nat /\ b[j] \in Nat
    BY <1>2, <2>3
  <2> HIDE DEF a, b, D
  <2>6. a[j] < b[j] \/ b[j] < a[j]
    BY <2>3, <2>5
  <2>7. QED
    BY <2>3, <2>4, <2>6 DEF PadLess, a, b
<1>6. QED
  BY <1>3, <1>4, <1>5

\* The order of the keys of numbers is one.
LEMMA KeysOrdered ==
  ASSUME NEW m \in Nat, NEW n \in Nat, NEW k \in Nat
  PROVE  /\ ~KeyBefore(m, m)
         /\ KeyBefore(m, n) /\ KeyBefore(n, k) => KeyBefore(m, k)
         /\ m = n \/ KeyBefore(m, n) \/ KeyBefore(n, m)
<1>1. \A i, j \in Nat : KeyBefore(i, j) <=> PadLess(Digits[i], Digits[j])
  <2>1. ASSUME NEW i \in Nat, NEW j \in Nat
        PROVE  KeyBefore(i, j) <=> PadLess(Digits[i], Digits[j])
    <3>1. KeyBefore(i, j) <=> SeqLess(Digits[i], Digits[j])
      BY DEF KeyBefore, SeqLess
    <3>2. QED
      BY <3>1, DigitsTell, SeqLessPads
  <2>2. QED
    BY <2>1
<1>2. Digits[m] \in Seq(Nat) /\ Digits[n] \in Seq(Nat) /\ Digits[k] \in Seq(Nat)
  BY DigitsTell
<1>3. m # n => Digits[m] # Digits[n]
  BY DigitsTell
<1>4. QED
  BY <1>1, <1>2, <1>3, PadsOrdered

(***************************************************************************)
(* Where a vector belongs.                                                  *)
(***************************************************************************)
\* It belongs to one centroid, the first of the nearest.
LEMMA NearestIs ==
  ASSUME NEW vec \in Vec, NEW cs \in Seq(Centroid), cs # <<>>
  PROVE  /\ Nearest(vec, cs) \in DOMAIN cs
         /\ \A q \in DOMAIN cs :
              IF q < Nearest(vec, cs) THEN Distance[vec, cs[Nearest(vec, cs)]] < Distance[vec, cs[q]]
                                      ELSE Distance[vec, cs[Nearest(vec, cs)]] <= Distance[vec, cs[q]]
<1> DEFINE d(q) == Distance[vec, cs[q]]
           D == {d(q) : q \in DOMAIN cs}
           m == Min(D)
           P == {q \in DOMAIN cs : d(q) = m}
           p == Min(P)
<1>1. /\ DOMAIN cs = 1..Len(cs) /\ Len(cs) \in Nat \ {0}
      /\ \A q \in DOMAIN cs : cs[q] \in Centroid
  BY LenProperties, ElementOfSeq, EmptySeq
<1>2. \A q \in DOMAIN cs : d(q) \in Nat
  BY <1>1, IndexAssumption
<1> HIDE DEF d
<1>3. D \in SUBSET Nat /\ D # {}
  <2>1. 1 \in DOMAIN cs
    BY <1>1
  <2>2. d(1) \in D
    BY <2>1
  <2>3. QED
    BY <1>2, <2>2
<1>4. m \in D /\ \A y \in D : m <= y
  <2> HIDE DEF D
  <2>1. QED
    BY <1>3, MinExists
<1> HIDE DEF m
<1>5. P \in SUBSET Nat /\ P # {}
  BY <1>1, <1>4
<1>6. p \in P /\ \A y \in P : p <= y
  <2> HIDE DEF P
  <2>1. QED
    BY <1>5, MinExists
<1> HIDE DEF p
<1>7. p \in DOMAIN cs /\ d(p) = m /\ \A q \in DOMAIN cs : q < p => d(q) # m
  <2>1. p \in DOMAIN cs /\ d(p) = m
    BY <1>6
  <2>2. ASSUME NEW q \in DOMAIN cs, q < p, d(q) = m PROVE FALSE
    <3>1. p <= q
      BY <1>6, <2>2
    <3>2. QED
      BY <1>1, <2>1, <2>2, <3>1
  <2>3. QED
    BY <2>1, <2>2
<1>8. \A q \in DOMAIN cs : m <= d(q) /\ d(q) \in Nat
  BY <1>2, <1>4
<1>9. m \in Nat
  BY <1>7, <1>8
<1> DEFINE First(k) == \A q \in DOMAIN cs :
             IF q < k THEN Distance[vec, cs[k]] < Distance[vec, cs[q]]
                      ELSE Distance[vec, cs[k]] <= Distance[vec, cs[q]]
<1>10. \E k \in DOMAIN cs : First(k)
  <2>1. ASSUME NEW q \in DOMAIN cs
        PROVE  IF q < p THEN d(p) < d(q) ELSE d(p) <= d(q)
    <3>1. d(p) = m /\ m <= d(q) /\ d(q) \in Nat /\ (q < p => d(q) # m)
      BY <1>7, <1>8
    <3>2. QED
      BY ONLY <1>9, <3>1
  <2>2. QED
    BY <1>7, <2>1 DEF d
<1> DEFINE k == CHOOSE k \in DOMAIN cs : First(k)
<1>11. k \in DOMAIN cs /\ First(k)
  <2> HIDE DEF First
  <2>1. QED
    BY <1>10
<1>12. Nearest(vec, cs) = k
  BY DEF Nearest
<1>13. QED
  BY <1>11, <1>12

\* (See NearestIs.)
LEMMA NearestInRange ==
  ASSUME NEW vec \in Vec, NEW cs \in Seq(Centroid), Len(cs) <= Partitions
  PROVE  Nearest(vec, cs) \in 1..Partitions
<1>1. CASE cs = <<>>
  BY <1>1, IndexAssumption DEF Nearest
<1>2. CASE cs # <<>>
  <2>1. Nearest(vec, cs) \in 1..Len(cs) /\ Len(cs) \in Nat
    BY <1>2, NearestIs, LenProperties
  <2>2. QED
    BY <2>1, IndexAssumption
<1>3. QED
  BY <1>1, <1>2

\* A search looks where the vector belongs.
LEMMA NearestProbed ==
  ASSUME NEW vec \in Vec, centroids \in Seq(Centroid), centroids # <<>>
  PROVE  Nearest(vec, centroids) \in Probed(vec)
<1> DEFINE p == Nearest(vec, centroids)
           n == Max({1, Partitions \div 10})
<1>1. /\ p \in DOMAIN centroids
      /\ \A q \in DOMAIN centroids :
           IF q < p THEN Distance[vec, centroids[p]] < Distance[vec, centroids[q]]
                    ELSE Distance[vec, centroids[p]] <= Distance[vec, centroids[q]]
  BY NearestIs
<1>2. DOMAIN centroids = 1..Len(centroids) /\ \A q \in DOMAIN centroids : centroids[q] \in Centroid
  BY LenProperties, ElementOfSeq
<1>3. \A q \in DOMAIN centroids : Distance[vec, centroids[q]] \in Nat
  BY <1>2, IndexAssumption
<1> HIDE DEF p
<1>4. {q \in DOMAIN centroids :
         \/ Distance[vec, centroids[q]] < Distance[vec, centroids[p]]
         \/ (q < p /\ Distance[vec, centroids[q]] = Distance[vec, centroids[p]])} = {}
  <2>1. ASSUME NEW q \in DOMAIN centroids
        PROVE  ~(\/ Distance[vec, centroids[q]] < Distance[vec, centroids[p]]
                 \/ (q < p /\ Distance[vec, centroids[q]] = Distance[vec, centroids[p]]))
    <3> DEFINE a == Distance[vec, centroids[q]]
               b == Distance[vec, centroids[p]]
    <3>1. a \in Nat /\ b \in Nat /\ (IF q < p THEN b < a ELSE b <= a)
      BY <1>1, <1>3
    <3> HIDE DEF a, b
    <3>2. ~(a < b) /\ ~(q < p /\ a = b)
      BY ONLY <3>1
    <3>3. QED
      BY <3>2 DEF a, b
  <2>2. QED
    BY <2>1
<1>5. 0 < n
  <2> DEFINE m == Partitions \div 10
  <2>1. m \in Int
    BY IndexAssumption
  <2> HIDE DEF m
  <2>2. \E x \in {1, m} : \A y \in {1, m} : x >= y
    BY <2>1
  <2>3. Max({1, m}) \in {1, m} /\ \A y \in {1, m} : Max({1, m}) >= y
    BY <2>2 DEF Max
  <2>4. 0 < Max({1, m})
    BY <2>1, <2>3
  <2>5. QED
    BY <2>4 DEF m
<1>6. Cardinality({}) = 0
  BY FS_EmptySet
<1> HIDE DEF n
<1>7. p \in Probed(vec)
  BY <1>1, <1>4, <1>5, <1>6 DEF Probed, n
<1>8. QED
  BY <1>7 DEF p

(***************************************************************************)
(* What the calls do to a partition.                                        *)
(***************************************************************************)
\* All but the removed entry stay, and none is new.
LEMMA SwapRemoveKeeps ==
  ASSUME NEW S, NEW part \in Seq(S), NEW j \in 1..Len(part)
  PROVE  /\ SwapRemove(part, j) \in Seq(S)
         /\ Range(SwapRemove(part, j)) \subseteq Range(part)
         /\ \A i \in 1..Len(part) : i # j => part[i] \in Range(SwapRemove(part, j))
<1> DEFINE n == Len(part)
           moved == [part EXCEPT ![j] = part[n]]
           rest == SubSeq(moved, 1, n - 1)
<1>1. n \in Nat \ {0} /\ DOMAIN part = 1..n /\ \A i \in 1..n : part[i] \in S
  BY LenProperties, ElementOfSeq
<1>2. moved \in Seq(S) /\ Len(moved) = n
  BY <1>1, ExceptSeq
<1>3. \A i \in 1..n : moved[i] = IF i = j THEN part[n] ELSE part[i]
  BY <1>1
<1> HIDE DEF n, moved
<1>4. /\ rest \in Seq(S) /\ Len(rest) = n - 1
      /\ \A i \in 1..n - 1 : rest[i] = moved[i]
  <2>1. \A i \in 1..n - 1 : moved[i] \in S
    BY <1>1, <1>3
  <2>2. /\ rest \in Seq(S) /\ Len(rest) = IF 1 <= n - 1 THEN n - 1 - 1 + 1 ELSE 0
        /\ \A i \in 1..n - 1 - 1 + 1 : rest[i] = moved[1 + i - 1]
    BY <1>1, <1>2, <2>1, SubSeqProperties
  <2>3. \A i \in 1..n - 1 : i \in 1..n - 1 - 1 + 1 /\ 1 + i - 1 = i
    BY <1>1
  <2>4. QED
    BY <1>1, <2>2, <2>3
<1> HIDE DEF rest
<1>5. SwapRemove(part, j) = rest
  BY DEF SwapRemove, rest, moved, n
<1>6. ASSUME NEW x \in Range(rest) PROVE x \in Range(part)
  <2>1. PICK i \in 1..n - 1 : x = rest[i]
    BY <1>4, RangeIff
  <2>2. i \in 1..n /\ n \in 1..n
    BY <1>1
  <2>3. x = part[n] \/ x = part[i]
    BY <1>3, <1>4, <2>1, <2>2
  <2>4. QED
    BY <2>2, <2>3, RangeHolds DEF n
<1>7. ASSUME NEW i \in 1..n, i # j PROVE part[i] \in Range(rest)
  <2>1. CASE i = n
    <3>1. j \in 1..n /\ j # n
      BY <1>7, <2>1 DEF n
    <3>2. j \in 1..n - 1
      BY ONLY <1>1, <3>1
    <3>3. rest[j] = part[n]
      BY <1>3, <1>4, <3>1, <3>2
    <3>4. QED
      BY <1>4, <2>1, <3>2, <3>3, RangeHolds
  <2>2. CASE i # n
    <3>1. i \in 1..n - 1 /\ i \in 1..n /\ rest[i] = part[i]
      BY <1>1, <1>3, <1>4, <1>7, <2>2
    <3>2. QED
      BY <1>4, <3>1, RangeHolds
  <2>3. QED
    BY <2>1, <2>2
<1>8. QED
  BY <1>4, <1>5, <1>6, <1>7 DEF n

(***************************************************************************)
(* What a load finds.                                                       *)
(***************************************************************************)
\* The keys of centroids have one order ...
LEMMA CentroidsOrdered ==
  ASSUME NEW keys \in SUBSET (1..Partitions)
  PROVE  StrictOrder(keys, CentroidOrder)
<1>1. ASSUME NEW k \in keys, NEW l \in keys
      PROVE  <<k, l>> \in CentroidOrder <=> KeyBefore(k - 1, l - 1)
  <2>1. <<k, l>> \in CentroidOrder <=>
          \E p \in 1..Partitions : <<k, l>> \in {p} \X {q \in 1..Partitions : KeyBefore(p - 1, q - 1)}
    BY DEF CentroidOrder
  <2>2. \A p \in 1..Partitions : <<k, l>> \in {p} \X {q \in 1..Partitions : KeyBefore(p - 1, q - 1)} <=>
          k = p /\ KeyBefore(p - 1, l - 1)
    OBVIOUS
  <2>3. QED
    BY <2>1, <2>2
<1>2. \A k \in keys : k \in Int /\ k - 1 \in Nat
  BY IndexAssumption
<1>3. ASSUME NEW k \in keys, NEW l \in keys, k # l
      PROVE  <<k, l>> \in CentroidOrder \/ <<l, k>> \in CentroidOrder
  <2>1. k - 1 # l - 1
    BY <1>2, <1>3
  <2>2. QED
    BY <1>1, <1>2, <2>1, KeysOrdered
<1>4. ASSUME NEW k \in keys, NEW l \in keys, NEW m \in keys,
             <<k, l>> \in CentroidOrder, <<l, m>> \in CentroidOrder
      PROVE  <<k, m>> \in CentroidOrder
  BY <1>1, <1>2, <1>4, KeysOrdered
<1>5. ASSUME NEW k \in keys PROVE <<k, k>> \notin CentroidOrder
  BY <1>1, <1>2, KeysOrdered
<1>6. QED
  BY <1>3, <1>4, <1>5 DEF StrictOrder

\* ... and those of vectors.
LEMMA VectorsOrdered ==
  ASSUME MapsTo(db["vector"], (1..Partitions) \X Id, Fits),
         NEW keys \in SUBSET (DOMAIN db["vector"])
  PROVE  StrictOrder(keys, VectorOrder)
<1>1. ASSUME NEW k \in keys, NEW l \in keys
      PROVE  <<k, l>> \in VectorOrder <=> VectorBefore(k, l)
  BY DEF VectorOrder
<1>2. \A k \in keys : k[1] \in Int /\ k[2] \in Nat /\ k = <<k[1], k[2]>>
  <2>1. \A k \in keys : k \in (1..Partitions) \X Id
    BY DEF MapsTo
  <2>2. Id \subseteq Nat /\ Partitions \in Nat
    BY IndexAssumption
  <2>3. ASSUME NEW k \in keys PROVE k[1] \in Int /\ k[2] \in Nat /\ k = <<k[1], k[2]>>
    <3>1. PICK p \in 1..Partitions, id \in Id : k = <<p, id>>
      BY <2>1
    <3>2. QED
      BY ONLY <2>2, <3>1
  <2>4. QED
    BY <2>3
<1>3. ASSUME NEW k \in keys, NEW l \in keys, k # l
      PROVE  <<k, l>> \in VectorOrder \/ <<l, k>> \in VectorOrder
  <2>1. k[1] # l[1] \/ k[2] # l[2]
    BY <1>2, <1>3
  <2>2. k[1] < l[1] \/ l[1] < k[1] \/ k[1] = l[1]
    BY <1>2
  <2>3. k[2] # l[2] => KeyBefore(k[2], l[2]) \/ KeyBefore(l[2], k[2])
    BY <1>2, KeysOrdered
  <2>4. VectorBefore(k, l) \/ VectorBefore(l, k)
    BY <2>1, <2>2, <2>3 DEF VectorBefore
  <2>5. QED
    BY <1>1, <2>4
<1>4. ASSUME NEW k \in keys, NEW l \in keys, NEW m \in keys,
             <<k, l>> \in VectorOrder, <<l, m>> \in VectorOrder
      PROVE  <<k, m>> \in VectorOrder
  <2>1. VectorBefore(k, l) /\ VectorBefore(l, m)
    BY <1>1, <1>4
  <2>2. KeyBefore(k[2], l[2]) /\ KeyBefore(l[2], m[2]) => KeyBefore(k[2], m[2])
    BY <1>2, KeysOrdered
  <2>3. k[1] \in Int /\ l[1] \in Int /\ m[1] \in Int
    BY <1>2
  <2>4. VectorBefore(k, m)
    BY ONLY <2>1, <2>2, <2>3 DEF VectorBefore
  <2>5. QED
    BY <1>1, <2>4
<1>5. ASSUME NEW k \in keys PROVE <<k, k>> \notin VectorOrder
  <2>1. ~KeyBefore(k[2], k[2]) /\ k[1] \in Int
    BY <1>2, KeysOrdered
  <2>2. ~VectorBefore(k, k)
    BY ONLY <2>1 DEF VectorBefore
  <2>3. QED
    BY <1>1, <2>2
<1>6. QED
  BY <1>3, <1>4, <1>5 DEF StrictOrder

\* A load restores as many centroids as there are keys, and each of them.
LEMMA RestoredCentroidsAre ==
  ASSUME MapsTo(db["centroid"], 1..Partitions, Centroid)
  PROVE  /\ RestoredCentroids \in Seq(Centroid)
         /\ Len(RestoredCentroids) <= Partitions
         /\ DOMAIN db["centroid"] = 1..Partitions =>
              /\ RestoredCentroids \in [1..Partitions -> Centroid] /\ Len(RestoredCentroids) = Partitions
              /\ Range(RestoredCentroids) = Range(db["centroid"])
<1> DEFINE keys == DOMAIN db["centroid"]
           sorted == Sorted(keys, CentroidOrder)
           n == Cardinality(keys)
<1>1. keys \in SUBSET (1..Partitions) /\ \A k \in keys : db["centroid"][k] \in Centroid
  BY DEF MapsTo
<1>2. IsFiniteSet(1..Partitions) /\ Cardinality(1..Partitions) = Partitions
  <2>1. Partitions \in Nat \ {0}
    BY IndexAssumption
  <2>2. QED
    BY <2>1, FS_Interval
<1> HIDE DEF keys
<1>3. IsFiniteSet(keys) /\ n \in Nat /\ n <= Partitions
  BY <1>1, <1>2, FS_Subset, FS_CardinalityType
<1>4. sorted \in [1..n -> keys] /\ \A k \in keys : \E j \in 1..n : sorted[j] = k
  BY <1>1, <1>3, CentroidsOrdered, SortedAll
<1> HIDE DEF sorted
<1>5. RestoredCentroids = [j \in 1..n |-> db["centroid"][sorted[j]]]
  BY <1>4 DEF RestoredCentroids, sorted, keys
<1>6. RestoredCentroids \in [1..n -> Centroid]
  BY <1>1, <1>4, <1>5
<1>7. RestoredCentroids \in Seq(Centroid) /\ Len(RestoredCentroids) = n
  BY <1>3, <1>6, IsASeq, LenProperties
<1>8. keys = 1..Partitions => n = Partitions
  BY <1>2
<1>9. Range(RestoredCentroids) = Range(db["centroid"])
  <2>1. \A x : x \in Range(RestoredCentroids) <=> \E j \in 1..n : x = db["centroid"][sorted[j]]
    <3>1. DOMAIN RestoredCentroids = 1..n /\ \A j \in 1..n : RestoredCentroids[j] = db["centroid"][sorted[j]]
      BY <1>5
    <3>2. \A x : x \in Range(RestoredCentroids) <=> \E j \in DOMAIN RestoredCentroids : x = RestoredCentroids[j]
      BY InRange
    <3>3. QED
      BY <3>1, <3>2
  <2>2. \A x : x \in Range(db["centroid"]) <=> \E k \in keys : x = db["centroid"][k]
    BY InRange DEF keys
  <2>3. \A x : x \in Range(RestoredCentroids) <=> x \in Range(db["centroid"])
    BY <1>4, <2>1, <2>2
  <2>4. QED
    BY <2>3
<1>10. QED
  BY <1>3, <1>6, <1>7, <1>8, <1>9 DEF keys

Fitting == {e \in Entry : e.vec \in Fits}

Metadata == [partition : 1..Partitions, level : Level]

Reloaded == RestoredPartitions(RestoredCentroids)

\* Every vector of the path comes to where the restored centroids put it.
LEMMA RestoredPartitionsAre ==
  ASSUME MapsTo(db["vector"], (1..Partitions) \X Id, Fits), IsFiniteSet(DOMAIN db["vector"]),
         MapsTo(db["meta"], Id, Metadata)
  PROVE  /\ Reloaded \in [1..Partitions -> Seq(Fitting)]
         /\ \A p \in 1..Partitions :
              Range(Reloaded[p]) =
                {RestoredEntry(k) : k \in {l \in DOMAIN db["vector"] :
                                             Nearest(db["vector"][l], RestoredCentroids) = p}}
<1> DEFINE keys(p) == {k \in DOMAIN db["vector"] : Nearest(db["vector"][k], RestoredCentroids) = p}
           sorted(p) == Sorted(keys(p), VectorOrder)
           n(p) == Cardinality(keys(p))
           part(p) == [j \in DOMAIN sorted(p) |-> RestoredEntry(sorted(p)[j])]
<1> DEFINE homes == {<<k, Nearest(db["vector"][k], RestoredCentroids)>> : k \in DOMAIN db["vector"]}
<1>1. Reloaded = [p \in 1..Partitions |-> part(p)]
  <2>1. ASSUME NEW p PROVE {k \in DOMAIN db["vector"] : <<k, p>> \in homes} = keys(p)
    <3>1. ASSUME NEW k \in DOMAIN db["vector"]
          PROVE  <<k, p>> \in homes <=> Nearest(db["vector"][k], RestoredCentroids) = p
      <4>1. <<k, p>> \in homes <=>
              \E l \in DOMAIN db["vector"] : <<k, p>> = <<l, Nearest(db["vector"][l], RestoredCentroids)>>
        OBVIOUS
      <4>2. QED
        BY <4>1
    <3>2. QED
      BY <3>1
  <2>2. Reloaded = [p \in 1..Partitions |->
                     [j \in DOMAIN Sorted({k \in DOMAIN db["vector"] : <<k, p>> \in homes}, VectorOrder) |->
                        RestoredEntry(Sorted({k \in DOMAIN db["vector"] : <<k, p>> \in homes}, VectorOrder)[j])]]
    BY DEF Reloaded, RestoredPartitions
  <2> HIDE DEF homes
  <2>3. QED
    BY <2>1, <2>2
<1>2. ASSUME NEW k \in DOMAIN db["vector"] PROVE RestoredEntry(k) \in Fitting
  <2>1. k[2] \in Id /\ db["vector"][k] \in Fits
    BY DEF MapsTo
  <2>2. k[2] \in DOMAIN db["meta"] => db["meta"][k[2]].level \in Level
    BY DEF MapsTo, Metadata
  <2>3. QED
    BY <2>1, <2>2, IndexAssumption, PersistAssumption DEF RestoredEntry, Fitting, Entry
<1>3. ASSUME NEW p \in 1..Partitions
      PROVE  part(p) \in Seq(Fitting) /\ Range(part(p)) = {RestoredEntry(k) : k \in keys(p)}
  <2>1. keys(p) \in SUBSET (DOMAIN db["vector"])
    OBVIOUS
  <2> HIDE DEF keys
  <2>2. IsFiniteSet(keys(p))
    BY <2>1, FS_Subset
  <2>3. n(p) \in Nat
    BY <2>2, FS_CardinalityType
  <2>4. StrictOrder(keys(p), VectorOrder)
    BY <2>1, VectorsOrdered
  <2>5. sorted(p) \in [1..n(p) -> keys(p)] /\ \A k \in keys(p) : \E j \in 1..n(p) : sorted(p)[j] = k
    BY <2>2, <2>4, SortedAll
  <2> DEFINE f == sorted(p)
             m == n(p)
             K == keys(p)
  <2>6. part(p) = [j \in 1..m |-> RestoredEntry(f[j])]
    BY <2>5
  <2>7. f \in [1..m -> K] /\ (\A k \in K : \E j \in 1..m : f[j] = k) /\ m \in Nat
    BY <2>3, <2>5
  <2>8. \A k \in K : RestoredEntry(k) \in Fitting
    BY <1>2, <2>1
  <2> DEFINE g == [j \in 1..m |-> RestoredEntry(f[j])]
  <2> HIDE DEF f, m, K
  <2>9. g \in [1..m -> Fitting]
    BY <2>7, <2>8
  <2>10. g \in Seq(Fitting)
    BY <2>7, <2>9, IsASeq
  <2>11. \A x : x \in Range(g) <=> \E j \in 1..m : x = g[j]
    BY InRange
  <2>12. \A x : x \in Range(g) <=> \E k \in K : x = RestoredEntry(k)
    BY <2>7, <2>11
  <2>13. Range(g) = {RestoredEntry(k) : k \in K}
    BY <2>12
  <2>14. QED
    BY <2>6, <2>10, <2>13 DEF f, m, K
<1> HIDE DEF part
<1>4. \A p \in 1..Partitions : Reloaded[p] = part(p)
  BY <1>1
<1>5. Reloaded \in [1..Partitions -> Seq(Fitting)]
  BY <1>1, <1>3
<1>6. QED
  BY <1>3, <1>4, <1>5

(***************************************************************************)
(* The invariant.                                                           *)
(***************************************************************************)
IndexTypes ==
  /\ centroids \in Seq(Centroid) /\ Len(centroids) <= Partitions
  /\ partitions \in [1..Partitions -> Seq(Fitting)]
  /\ trained \in BOOLEAN

Steps == {"idle", "place", "push", "delete", "train"}

ThreadTypes ==
  /\ DOMAIN thread = Thread
  /\ \A t \in Thread :
       /\ thread[t] \in [pc : Steps, call : CallsOf[t] \cup {NoCall}, at : Nat, partition : 1..Partitions]
       /\ thread[t].pc \in StepsOf[thread[t].call.op]
       /\ thread[t].call.op = "insert" => thread[t].at \in 1..Len(thread[t].call.entries)
       /\ thread[t].pc = "push" => Current(t).vec \in Fits

DbTypes ==
  /\ DOMAIN db = Families
  /\ MapsTo(db["config"], {1}, BOOLEAN)
  /\ MapsTo(db["centroid"], 1..Partitions, Centroid)
  /\ MapsTo(db["vector"], (1..Partitions) \X Id, Fits) /\ IsFiniteSet(DOMAIN db["vector"])
  /\ MapsTo(db["meta"], Id, Metadata)

\* The single writes there are.
ConfigWrites == {Put("config", 1, b) : b \in BOOLEAN}
CentroidWrites == {Put("centroid", p, c) : p \in 1..Partitions, c \in Centroid}
VectorWrites == {Put("vector", <<p, id>>, vec) : p \in 1..Partitions, id \in Id, vec \in Fits}
MetaWrites == {Put("meta", id, m) : id \in Id, m \in Metadata}
EntryWrites == VectorWrites \cup MetaWrites

Todo == Range(upkeep.todo)

\* What is left of the two writes of a put or a removal.
Left(todo, v, m) == todo \in {<<v, m>>, <<m>>, <<>>}

UpkeepTypes ==
  /\ DOMAIN upkeep = {"call", "stage", "todo"}
  /\ upkeep.call \in UpkeepCalls \cup {NoCall}
  /\ upkeep.stage \in {"centroids", "vectors", "done"}
  /\ upkeep.stage # "done" => upkeep.call.op = "save"
  /\ upkeep.call.op = "none" => upkeep.todo = <<>>
  /\ upkeep.call.op = "save" =>
       upkeep.todo \in Seq(CASE upkeep.stage = "centroids" -> ConfigWrites
                             [] upkeep.stage = "vectors" -> CentroidWrites
                             [] upkeep.stage = "done" -> EntryWrites)
  /\ upkeep.call.op = "persist" =>
       LET puts == EntryPuts(upkeep.call.partition, upkeep.call.entry)
       IN Left(upkeep.todo, puts[1], puts[2])
  /\ upkeep.call.op = "erase" =>
       \/ upkeep.todo = <<>>
       \/ /\ upkeep.call.id \in DOMAIN db["meta"]
          /\ Left(upkeep.todo, Erasure(upkeep.call.id)[1], Erasure(upkeep.call.id)[2])

TypeInv ==
  /\ IndexTypes /\ ThreadTypes /\ DbTypes /\ UpkeepTypes
  /\ made \in 0..MaxCalls /\ begun \in 0..MaxUpkeep
  /\ orderly \in BOOLEAN

(***************************************************************************)
(* Where vectors are.                                                       *)
(***************************************************************************)
\* The centroids reach the path before any vector does.
CentroidsSaved ==
  /\ upkeep.call.op # "save" /\ db["config"] # <<>> => DOMAIN db["centroid"] = 1..Partitions
  /\ upkeep.call.op = "save" /\ upkeep.stage = "vectors" =>
       /\ \A p \in 1..Partitions : \/ Put("centroid", p, centroids[p]) \in Todo
                                   \/ p \in DOMAIN db["centroid"] /\ db["centroid"][p] = centroids[p]
       /\ \A p \in 1..Partitions, c \in Centroid : Put("centroid", p, c) \in Todo => centroids[p] = c
  /\ upkeep.call.op = "save" /\ upkeep.stage = "done" => db["centroid"] = centroids

Placed ==
  /\ centroids \in [1..Partitions -> Centroid]
  /\ \A p \in 1..Partitions : \A e \in Range(partitions[p]) : p = Nearest(e.vec, centroids)
  /\ \A t \in Thread : At(t, "push") => thread[t].partition = Nearest(Current(t).vec, centroids)

FoundInv == orderly => Placed /\ TrainedFirst /\ CentroidsSaved /\ (Busy => Quiet)

(***************************************************************************)
(* What was saved.                                                          *)
(***************************************************************************)
OnPath(e) ==
  db["config"] # <<>>
  /\ \E p \in 1..Partitions : <<p, e.id>> \in DOMAIN db["vector"] /\ db["vector"][<<p, e.id>>] = e.vec

ToPath(e) == \E p \in 1..Partitions : Put("vector", <<p, e.id>>, e.vec) \in Todo

ConfigOnWay == db["config"] # <<>> \/ \E b \in BOOLEAN : Put("config", 1, b) \in Todo

KeptInv ==
  /\ \A e \in kept : e \in Contents /\ ~Overtaken(e) /\ OnPath(e)
  /\ \A e \in covered :
       /\ upkeep.call.op = "save"
       /\ e \in Contents /\ ~Overtaken(e)
       /\ upkeep.stage = "centroids" => ConfigOnWay
       /\ upkeep.stage # "centroids" => db["config"] # <<>>
       /\ upkeep.stage = "done" => OnPath(e) \/ ToPath(e)
  /\ \A p \in 1..Partitions, id \in Id, vec \in Fits :
       Put("vector", <<p, id>>, vec) \in Todo => \A e \in kept \cup covered : e.id = id => e.vec = vec

(***************************************************************************)
(* The path beside the index.                                               *)
(***************************************************************************)
\* The configuration reaches the path before any centroid does.
ConfigFirst ==
  /\ DOMAIN db["centroid"] # {} => db["config"] # <<>>
  /\ upkeep.call.op = "save" => IF upkeep.stage = "centroids" THEN ConfigOnWay ELSE db["config"] # <<>>

Holds(id, vec) == \E e \in Entries : e.id = id /\ e.vec = vec

HoldsMeta(id, m) == \E e \in Entries : e.id = id /\ e.level = m.level

PathHeld ==
  /\ \A k \in DOMAIN db["vector"] : Holds(k[2], db["vector"][k])
  /\ \A id \in DOMAIN db["meta"] : HoldsMeta(id, db["meta"][id])
  /\ \A p \in 1..Partitions, id \in Id, vec \in Fits :
       Put("vector", <<p, id>>, vec) \in Todo => Holds(id, vec)
  /\ \A id \in Id, m \in Metadata : Put("meta", id, m) \in Todo => HoldsMeta(id, m)

\* No vector is on the path without a configuration.
ConfigHeld ==
  /\ DOMAIN db["vector"] # {} => db["config"] # <<>>
  /\ \A p \in 1..Partitions, id \in Id, vec \in Fits :
       Put("vector", <<p, id>>, vec) \in Todo => db["config"] # <<>>

Paired ==
  /\ \A id \in DOMAIN db["meta"] :
       \/ <<db["meta"][id].partition, id>> \in DOMAIN db["vector"]
       \/ Drop("meta", id) \in Todo
  /\ \A i \in 1..Len(upkeep.todo), id \in Id, m \in Metadata : upkeep.todo[i] = Put("meta", id, m) =>
       \/ <<m.partition, id>> \in DOMAIN db["vector"]
       \/ \E j \in 1..i - 1, vec \in Fits : upkeep.todo[j] = Put("vector", <<m.partition, id>>, vec)

Complete ==
  upkeep.call.op = "save" /\ upkeep.stage = "done" =>
    \A p \in 1..Partitions : \A e \in Range(partitions[p]) :
      /\ <<p, e.id>> \in DOMAIN db["vector"] \/ Put("vector", <<p, e.id>>, e.vec) \in Todo
      /\ e.id \in DOMAIN db["meta"] \/ \E m \in Metadata : Put("meta", e.id, m) \in Todo

PathInv ==
  orderly => Uniform /\ OffThePath /\ PathHeld /\ ConfigHeld /\ Paired /\ Complete

(***************************************************************************)
(* Calls and writes.                                                        *)
(***************************************************************************)
\* The calls there are.
LEMMA CallsAre ==
  ASSUME NEW t \in Thread, NEW c \in CallsOf[t]
  PROVE  /\ c.op \in {"insert", "delete", "train"}
         /\ c.op = "insert" => c.entries \in Seq(Entry) /\ c.entries # <<>>
         /\ c.op = "delete" => c.id \in Id
         /\ c.op = "train" => c.sample \in Sample
<1>1. c \in InsertBatch \/ c \in DeleteId \/ c \in TrainOn
  BY IndexAssumption
<1>2. QED
  BY <1>1 DEF InsertBatch, DeleteId, TrainOn

\* (See CallsAre.)
LEMMA UpkeepCallsAre ==
  ASSUME NEW c \in UpkeepCalls
  PROVE  /\ c.op \in {"save", "persist", "erase"}
         /\ c.op = "persist" => c.partition \in 1..Partitions /\ c.entry \in Fitting
         /\ c.op = "erase" => c.id \in Id
<1>1. c \in SaveIndex \/ c \in PersistVector \/ c \in DeleteVector
  BY PersistAssumption
<1>2. c.op = "persist" => c.entry.vec \in Fits
  BY PersistAssumption
<1>3. QED
  BY <1>1, <1>2 DEF SaveIndex, PersistVector, DeleteVector, Fitting

\* A map without keys is the empty one.
LEMMA NoKeys ==
  ASSUME NEW K, NEW V, NEW m, MapsTo(m, K, V)
  PROVE  m = <<>> <=> DOMAIN m = {}
<1>1. DOMAIN <<>> = {}
  OBVIOUS
<1>2. ASSUME DOMAIN m = {} PROVE m = <<>>
  <2>1. m = [k \in {} |-> m[k]]
    BY <1>2 DEF MapsTo
  <2>2. <<>> = [k \in {} |-> m[k]]
    OBVIOUS
  <2>3. QED
    BY <2>1, <2>2
<1>3. QED
  BY <1>1, <1>2

\* The writes of a save.
LEMMA CentroidPutsAre ==
  ASSUME IndexTypes
  PROVE  /\ CentroidPuts \in Seq(CentroidWrites)
         /\ \A w : w \in Range(CentroidPuts) <=> \E p \in DOMAIN centroids : w = Put("centroid", p, centroids[p])
<1> DEFINE n == Len(centroids)
<1>1. n \in 0..Partitions /\ DOMAIN centroids = 1..n /\ \A p \in 1..n : centroids[p] \in Centroid
  <2>1. Partitions \in Nat
    BY IndexAssumption
  <2>2. QED
    BY <2>1, LenProperties, ElementOfSeq DEF IndexTypes
<1>2. CentroidPuts = [p \in 1..n |-> Put("centroid", p, centroids[p])]
  BY <1>1 DEF CentroidPuts
<1> HIDE DEF n
<1>3. \A p \in 1..n : p \in 1..Partitions
  BY <1>1, IndexAssumption
<1>4. \A p \in 1..n : Put("centroid", p, centroids[p]) \in CentroidWrites
  BY <1>1, <1>3 DEF CentroidWrites
<1>5. CentroidPuts \in [1..n -> CentroidWrites]
  BY <1>2, <1>4
<1>6. CentroidPuts \in Seq(CentroidWrites)
  BY <1>1, <1>5
<1>7. \A w : w \in Range(CentroidPuts) <=> \E p \in 1..n : w = CentroidPuts[p]
  BY <1>5, InRange
<1>8. QED
  BY <1>1, <1>2, <1>6, <1>7

\* (See CentroidPutsAre.)
LEMMA EntryPutsAre ==
  ASSUME NEW p \in 1..Partitions, NEW e \in Fitting
  PROVE  /\ EntryPuts(p, e) \in Seq(EntryWrites)
         /\ EntryPuts(p, e) = <<EntryPuts(p, e)[1], EntryPuts(p, e)[2]>>
         /\ EntryPuts(p, e)[1] = Put("vector", <<p, e.id>>, e.vec)
         /\ EntryPuts(p, e)[2] = Put("meta", e.id, [partition |-> p, level |-> e.level])
         /\ \A w : w \in Range(EntryPuts(p, e)) <=> w = EntryPuts(p, e)[1] \/ w = EntryPuts(p, e)[2]
<1> DEFINE v == Put("vector", <<p, e.id>>, e.vec)
           m == Put("meta", e.id, [partition |-> p, level |-> e.level])
<1>1. EntryPuts(p, e) = <<v, m>>
  BY DEF EntryPuts
<1>2. e.id \in Id /\ e.vec \in Fits /\ e.level \in Level
  BY DEF Fitting, Entry
<1>3. v \in EntryWrites
  BY <1>2 DEF EntryWrites, VectorWrites
<1>4. m \in EntryWrites
  BY <1>2 DEF EntryWrites, MetaWrites, Metadata
<1> HIDE DEF v, m
<1>5. <<v, m>> \in Seq(EntryWrites) /\ <<v, m>>[1] = v /\ <<v, m>>[2] = m
  BY <1>3, <1>4
<1>6. \A w : w \in Range(<<v, m>>) <=> w = v \/ w = m
  <2>1. DOMAIN <<v, m>> = {1, 2}
    OBVIOUS
  <2>2. QED
    BY <1>5, <2>1, InRange
<1>7. QED
  BY <1>1, <1>5, <1>6 DEF v, m

\* (See CentroidPutsAre.)
LEMMA VectorPutsAre ==
  ASSUME IndexTypes
  PROVE  /\ VectorPuts \in Seq(EntryWrites)
         /\ \A w : w \in Range(VectorPuts) <=>
              \E p \in 1..Partitions : \E e \in Range(partitions[p]) : w \in Range(EntryPuts(p, e))
<1> DEFINE puts(p) == [j \in DOMAIN partitions[p] |-> EntryPuts(p, partitions[p][j])]
           all == [p \in 1..Partitions |-> FlattenSeq(puts(p))]
<1>1. Partitions \in Nat
  BY IndexAssumption
<1>2. ASSUME NEW p \in 1..Partitions
      PROVE  /\ FlattenSeq(puts(p)) \in Seq(EntryWrites)
             /\ \A w : w \in Range(FlattenSeq(puts(p))) <=>
                  \E e \in Range(partitions[p]) : w \in Range(EntryPuts(p, e))
  <2> DEFINE part == partitions[p]
             n == Len(part)
             ss == puts(p)
  <2>1. part \in Seq(Fitting)
    BY DEF IndexTypes
  <2>2. n \in Nat /\ DOMAIN part = 1..n /\ \A j \in 1..n : part[j] \in Fitting
    BY <2>1, LenProperties, ElementOfSeq
  <2>3. ss = [j \in 1..n |-> EntryPuts(p, part[j])]
    BY <2>2
  <2> HIDE DEF ss, n, part
  <2>4. \A j \in 1..n : EntryPuts(p, part[j]) \in Seq(EntryWrites)
    BY <2>2, EntryPutsAre
  <2>5. ss \in [1..n -> Seq(EntryWrites)]
    BY <2>3, <2>4
  <2>6. ss \in Seq(Seq(EntryWrites)) /\ Len(ss) = n
    BY <2>2, <2>5, LenProperties
  <2>7. FlattenSeq(ss) \in Seq(EntryWrites) /\ Range(FlattenSeq(ss)) = UNION {Range(ss[i]) : i \in 1..n}
    BY <2>6, FlattenHolds
  <2>8. \A w : w \in Range(FlattenSeq(ss)) <=> \E i \in 1..n : w \in Range(ss[i])
    BY <2>7
  <2>9. \A w : w \in Range(FlattenSeq(ss)) <=> \E i \in 1..n : w \in Range(EntryPuts(p, part[i]))
    BY <2>3, <2>8
  <2>10. \A e : e \in Range(part) <=> \E i \in 1..n : e = part[i]
    BY <2>1, RangeIff DEF n
  <2>11. \A w : w \in Range(FlattenSeq(ss)) <=> \E e \in Range(part) : w \in Range(EntryPuts(p, e))
    BY <2>9, <2>10
  <2>12. QED
    BY <2>7, <2>11 DEF ss, part
<1>3. VectorPuts = FlattenSeq(all)
  BY DEF VectorPuts
<1>4. all = [p \in 1..Partitions |-> all[p]] /\ \A p \in 1..Partitions : all[p] = FlattenSeq(puts(p))
  OBVIOUS
<1> HIDE DEF all, puts
<1>5. all \in [1..Partitions -> Seq(EntryWrites)]
  BY <1>2, <1>4
<1>6. all \in Seq(Seq(EntryWrites)) /\ Len(all) = Partitions
  BY <1>1, <1>5, LenProperties
<1>7. FlattenSeq(all) \in Seq(EntryWrites) /\ Range(FlattenSeq(all)) = UNION {Range(all[i]) : i \in 1..Partitions}
  BY <1>6, FlattenHolds
<1>8. \A w : w \in Range(FlattenSeq(all)) <=> \E p \in 1..Partitions : w \in Range(all[p])
  BY <1>7
<1>9. QED
  BY <1>2, <1>3, <1>4, <1>7, <1>8

(***************************************************************************)
(* What the steps of a call do.                                             *)
(***************************************************************************)
\* Each step is of one kind of call.
LEMMA StepIsOf ==
  ASSUME ThreadTypes, NEW t \in Thread
  PROVE  /\ At(t, "idle") => thread[t].call.op = "none" /\ thread[t].call = NoCall
         /\ At(t, "place") \/ At(t, "push") =>
              /\ thread[t].call.op = "insert" /\ Current(t) \in Range(thread[t].call.entries)
              /\ Current(t) \in Entry /\ (At(t, "push") => Current(t) \in Fitting)
         /\ At(t, "delete") => thread[t].call.op = "delete" /\ thread[t].call.id \in Id
         /\ At(t, "train") => thread[t].call.op = "train" /\ thread[t].call.sample \in Sample
<1> DEFINE c == thread[t].call
           pc == thread[t].pc
<1>1. pc \in StepsOf[c.op] /\ c \in CallsOf[t] \cup {NoCall}
  BY DEF ThreadTypes
<1>2. c = NoCall => c.op = "none"
  BY DEF NoCall
<1>3. c \in CallsOf[t] => c.op \in {"insert", "delete", "train"}
  BY CallsAre
<1>4. /\ pc = "idle" => c.op = "none" /\ c = NoCall
      /\ pc = "place" \/ pc = "push" => c.op = "insert" /\ c \in CallsOf[t]
      /\ pc = "delete" => c.op = "delete" /\ c \in CallsOf[t]
      /\ pc = "train" => c.op = "train" /\ c \in CallsOf[t]
  BY <1>1, <1>2, <1>3 DEF StepsOf
<1>5. ASSUME c.op = "insert", c \in CallsOf[t]
      PROVE  Current(t) \in Range(c.entries) /\ Current(t) \in Entry
  <2>1. c.entries \in Seq(Entry) /\ thread[t].at \in 1..Len(c.entries)
    BY <1>5, CallsAre DEF ThreadTypes
  <2>2. QED
    BY <2>1, RangeHolds, ElementOfSeq DEF Current
<1>6. At(t, "push") => Current(t).vec \in Fits
  BY DEF ThreadTypes, At
<1>7. QED
  BY <1>4, <1>5, <1>6, CallsAre DEF At, Fitting

\* A push adds the entry to the partition found for it.
LEMMA PushDoes ==
  ASSUME IndexTypes, ThreadTypes, NEW t \in Thread, Push(t)
  PROVE  /\ Current(t) \in Fitting /\ thread[t].partition \in 1..Partitions
         /\ partitions' \in [1..Partitions -> Seq(Fitting)]
         /\ \A p \in 1..Partitions : Range(partitions'[p]) =
              Range(partitions[p]) \cup (IF p = thread[t].partition THEN {Current(t)} ELSE {})
<1> DEFINE p == thread[t].partition
           e == Current(t)
           part == partitions[p]
<1>1. e \in Fitting /\ p \in 1..Partitions
  BY StepIsOf DEF Push, ThreadTypes
<1>2. part \in Seq(Fitting) /\ partitions \in [1..Partitions -> Seq(Fitting)]
  BY <1>1 DEF IndexTypes
<1>3. partitions' = [partitions EXCEPT ![p] = Append(part, e)]
  BY DEF Push, Pushed
<1> HIDE DEF p, e, part
<1>4. Append(part, e) \in Seq(Fitting)
  BY <1>1, <1>2, AppendProperties
<1>5. Range(Append(part, e)) = Range(part) \cup {e}
  <2> DEFINE q == Append(part, e)
             n == Len(part)
  <2>1. /\ Len(q) = n + 1 /\ n \in Nat /\ q[n + 1] = e
        /\ \A i \in 1..n : q[i] = part[i]
    BY <1>1, <1>2, AppendProperties, LenProperties
  <2>2. \A x : /\ x \in Range(q) <=> \E i \in 1..Len(q) : x = q[i]
               /\ x \in Range(part) <=> \E i \in 1..n : x = part[i]
    BY <1>2, <1>4, RangeIff
  <2> HIDE DEF q, n
  <2>3. 1..n + 1 = (1..n) \cup {n + 1}
    BY <2>1
  <2>4. \A x : x \in Range(q) <=> x \in Range(part) \/ x = e
    BY <2>1, <2>2, <2>3
  <2>5. QED
    BY <2>4 DEF q
<1>6. /\ partitions'[p] = Append(part, e)
      /\ \A r \in 1..Partitions : r # p => partitions'[r] = partitions[r]
  BY <1>1, <1>2, <1>3
<1>7. partitions' \in [1..Partitions -> Seq(Fitting)]
  BY <1>1, <1>2, <1>3, <1>4
<1>8. QED
  BY <1>1, <1>5, <1>6, <1>7 DEF p, e, part

\* A deletion takes at most entries of the id, and adds none.
LEMMA DeleteDoes ==
  ASSUME IndexTypes, ThreadTypes, NEW t \in Thread, Delete(t)
  PROVE  /\ partitions' \in [1..Partitions -> Seq(Fitting)]
         /\ \A p \in 1..Partitions :
              /\ Range(partitions'[p]) \subseteq Range(partitions[p])
              /\ \A e \in Range(partitions[p]) : e.id # thread[t].call.id => e \in Range(partitions'[p])
<1> DEFINE id == thread[t].call.id
           holders == {p \in DOMAIN partitions : \E e \in Range(partitions[p]) : e.id = id}
           places(p) == {j \in DOMAIN partitions[p] : partitions[p][j].id = id}
           p == Min(holders)
           part == partitions[p]
           j == Min(places(p))
<1>1. partitions \in [1..Partitions -> Seq(Fitting)]
  BY DEF IndexTypes
<1>2. CASE holders = {}
  BY <1>1, <1>2 DEF Delete
<1>3. CASE holders # {}
  <2>1. partitions' = [partitions EXCEPT ![p] = SwapRemove(partitions[p], j)]
    BY <1>3 DEF Delete
  <2>2. p \in holders
    <3>1. holders \in SUBSET Nat
      BY <1>1
    <3> HIDE DEF holders
    <3>2. QED
      BY <1>3, <3>1, MinExists
  <2> HIDE DEF p
  <2>3. p \in 1..Partitions /\ part \in Seq(Fitting) /\ \E e \in Range(part) : e.id = id
    BY <1>1, <2>2
  <2>4. DOMAIN part = 1..Len(part) /\ places(p) \in SUBSET Nat /\ places(p) # {}
    <3>1. DOMAIN part = 1..Len(part)
      BY <2>3, LenProperties
    <3>2. \E i \in 1..Len(part) : part[i].id = id
      BY <2>3, RangeIff
    <3>3. QED
      BY <3>1, <3>2
  <2>5. j \in places(p)
    <3> HIDE DEF places
    <3>1. QED
      BY <2>4, MinExists
  <2> HIDE DEF j
  <2>6. j \in 1..Len(part) /\ part[j].id = id
    BY <2>4, <2>5
  <2> HIDE DEF id
  <2> DEFINE left == SwapRemove(part, j)
  <2>7. /\ left \in Seq(Fitting) /\ Range(left) \subseteq Range(part)
        /\ \A i \in 1..Len(part) : i # j => part[i] \in Range(left)
    BY <2>3, <2>6, SwapRemoveKeeps
  <2>8. \A e \in Range(part) : e.id # id => e \in Range(left)
    <3>1. ASSUME NEW e \in Range(part), e.id # id PROVE e \in Range(left)
      <4>1. PICK i \in 1..Len(part) : e = part[i]
        BY <2>3, RangeIff
      <4>2. i # j
        BY <2>6, <3>1, <4>1
      <4>3. QED
        BY <2>7, <4>1, <4>2
    <3>2. QED
      BY <3>1
  <2> HIDE DEF left
  <2>9. partitions' = [partitions EXCEPT ![p] = left]
    BY <2>1 DEF left
  <2>10. partitions' \in [1..Partitions -> Seq(Fitting)] /\ partitions'[p] = left
    BY <1>1, <2>3, <2>7, <2>9
  <2>11. \A q \in 1..Partitions : q # p => partitions'[q] = partitions[q]
    BY <1>1, <2>9
  <2>12. QED
    BY <2>7, <2>8, <2>10, <2>11 DEF id
<1>4. QED
  BY <1>2, <1>3

\* A call of the other threads stays as it is.
LEMMA OthersStay ==
  ASSUME ThreadTypes, NEW t \in Thread, Step(t), NEW u \in Thread, u # t
  PROVE  thread'[u] = thread[u]
BY DEF ThreadTypes, Step, Call, RejectVector, Place, Push, Train, Delete, Return

\* A step keeps the types of the index and of the threads.
LEMMA StepTypes ==
  ASSUME TypeInv, NEW t \in Thread, Step(t)
  PROVE  IndexTypes' /\ ThreadTypes' /\ made' \in 0..MaxCalls
<1> USE DEF TypeInv
<1> DEFINE Well(u) ==
             /\ thread[u] \in [pc : Steps, call : CallsOf[u] \cup {NoCall}, at : Nat, partition : 1..Partitions]
             /\ thread[u].pc \in StepsOf[thread[u].call.op]
             /\ thread[u].call.op = "insert" => thread[u].at \in 1..Len(thread[u].call.entries)
             /\ thread[u].pc = "push" => Current(u).vec \in Fits
           resting == Resting
<1>1. \A u \in Thread : Well(u)
  BY DEF ThreadTypes
<1>2. \A u \in Thread : u # t => thread'[u] = thread[u]
  BY OthersStay
<1>3. \A u \in Thread : u # t => Well(u)'
  BY <1>1, <1>2 DEF Current
<1>4. DOMAIN thread = Thread
  BY DEF ThreadTypes
<1>5. DOMAIN thread' = Thread
  BY <1>4 DEF Step, Call, RejectVector, Place, Push, Train, Delete, Return
<1>6. Well(t)' => ThreadTypes'
  BY <1>3, <1>5 DEF ThreadTypes
<1>7. Partitions \in Nat \ {0} /\ MaxCalls \in Nat /\ made \in 0..MaxCalls
  BY IndexAssumption
<1>8. ASSUME thread'[t] = Resting PROVE Well(t)'
  BY <1>7, <1>8 DEF Resting, NoCall, StepsOf, Steps
<1>9. Return(t) => Well(t)'
  BY <1>4, <1>8 DEF Return
<1>10. CASE Call(t)
  <2>1. PICK c \in CallsOf[t] : thread'[t] = [Resting EXCEPT !.pc = FirstPc[c.op], !.call = c]
    BY <1>4, <1>10 DEF Call
  <2>2. thread'[t] = [pc |-> FirstPc[c.op], call |-> c, at |-> 1, partition |-> 1]
    BY <2>1 DEF Resting
  <2>3. c.op \in {"insert", "delete", "train"} /\ (c.op = "insert" => c.entries \in Seq(Entry) /\ c.entries # <<>>)
    BY CallsAre
  <2>4. c.op = "insert" => 1 \in 1..Len(c.entries)
    <3>1. c.op = "insert" => Len(c.entries) \in Nat /\ Len(c.entries) # 0
      BY <2>3, LenProperties, EmptySeq
    <3>2. QED
      BY <3>1
  <2>5. FirstPc[c.op] \in Steps /\ FirstPc[c.op] \in StepsOf[c.op] /\ FirstPc[c.op] # "push"
    BY <2>3 DEF FirstPc, Steps, StepsOf
  <2>6. Well(t)'
    BY <1>7, <2>2, <2>4, <2>5
  <2>7. UNCHANGED index /\ made' \in 0..MaxCalls
    BY <1>7, <1>10 DEF Call
  <2>8. QED
    BY <1>6, <2>6, <2>7 DEF IndexTypes, index
<1>11. CASE RejectVector(t)
  BY <1>6, <1>9, <1>11 DEF RejectVector, IndexTypes, index
<1>12. CASE Place(t)
  <2> DEFINE p == Nearest(Current(t).vec, centroids)
  <2>1. Current(t).vec \in Fits /\ Current(t).vec \in Vec /\ thread[t].call.op = "insert"
    BY <1>12, StepIsOf, IndexAssumption DEF Place
  <2>2. p \in 1..Partitions
    BY <2>1, NearestInRange DEF IndexTypes
  <2> HIDE DEF p
  <2>3. thread'[t] = [thread[t] EXCEPT !.pc = "push", !.partition = p]
    BY <1>4, <1>12 DEF Place, p
  <2>4. thread[t] \in [pc : Steps, call : CallsOf[t] \cup {NoCall}, at : Nat, partition : 1..Partitions]
    BY <1>1
  <2>5. thread'[t] = [pc |-> "push", call |-> thread[t].call, at |-> thread[t].at, partition |-> p]
    BY <2>3, <2>4
  <2>6. Current(t)' = Current(t)
    BY <2>5 DEF Current
  <2>7. Well(t)'
    BY <1>1, <2>1, <2>2, <2>4, <2>5, <2>6 DEF Steps, StepsOf
  <2>8. QED
    BY <1>6, <1>12, <2>7 DEF Place, IndexTypes, index
<1>13. CASE Push(t)
  <2>1. IndexTypes'
    BY <1>13, PushDoes DEF IndexTypes, Push
  <2>2. ASSUME thread[t].at # Len(thread[t].call.entries) PROVE Well(t)'
    <3>1. thread'[t] = [thread[t] EXCEPT !.pc = "place", !.at = thread[t].at + 1]
      BY <1>4, <1>13, <2>2 DEF Push
    <3>2. thread[t] \in [pc : Steps, call : CallsOf[t] \cup {NoCall}, at : Nat, partition : 1..Partitions]
      BY <1>1
    <3>3. thread'[t] = [pc |-> "place", call |-> thread[t].call, at |-> thread[t].at + 1, partition |-> thread[t].partition]
      BY <3>1, <3>2
    <3>4. thread[t].call.op = "insert" /\ thread[t].at \in 1..Len(thread[t].call.entries)
      BY <1>1, <1>13, StepIsOf DEF Push
    <3>5. thread[t].call \in CallsOf[t]
      BY <3>2, <3>4 DEF NoCall
    <3>6. Len(thread[t].call.entries) \in Nat
      BY <3>4, <3>5, CallsAre, LenProperties
    <3>7. thread[t].at + 1 \in 1..Len(thread[t].call.entries) /\ thread[t].at + 1 \in Nat
      BY <2>2, <3>4, <3>6
    <3>8. QED
      BY <3>2, <3>3, <3>4, <3>7 DEF Steps, StepsOf
  <2>3. QED
    BY <1>6, <1>9, <1>13, <2>1, <2>2 DEF Push
<1>14. CASE Train(t)
  <2> DEFINE means == Means[thread[t].call.sample]
  <2>1. thread[t].call.sample \in Sample
    BY <1>14, StepIsOf DEF Train
  <2>2. means = <<>> \/ means \in [1..Partitions -> Centroid]
    BY <2>1, IndexAssumption
  <2>3. means \in [1..Partitions -> Centroid] => means \in Seq(Centroid) /\ Len(means) = Partitions
    BY <1>7, LenProperties
  <2> HIDE DEF means
  <2>4. IF means = <<>> THEN UNCHANGED <<centroids, trained>> ELSE centroids' = means /\ trained' = TRUE
    BY <1>14 DEF Train, means
  <2>5. IndexTypes'
    <3>1. partitions' \in [1..Partitions -> Seq(Fitting)]
      BY <1>14 DEF Train, IndexTypes
    <3>2. centroids' \in Seq(Centroid) /\ Len(centroids') <= Partitions
      BY <1>7, <2>2, <2>3, <2>4 DEF IndexTypes
    <3>3. trained' \in BOOLEAN
      BY <2>4 DEF IndexTypes
    <3>4. QED
      BY <3>1, <3>2, <3>3 DEF IndexTypes
  <2>6. QED
    BY <1>6, <1>9, <1>14, <2>5 DEF Train
<1>15. CASE Delete(t)
  BY <1>6, <1>9, <1>15, DeleteDoes DEF Delete, IndexTypes
<1>16. QED
  BY <1>10, <1>11, <1>12, <1>13, <1>14, <1>15 DEF Step

(***************************************************************************)
(* What a write does.                                                       *)
(***************************************************************************)
\* Families differ, and so do their writes.
LEMMA PutsDiffer ==
  ASSUME NEW f, NEW key, NEW v, NEW g, NEW l, NEW w
  PROVE  /\ Put(f, key, v) = Put(g, l, w) => f = g /\ key = l /\ v = w
         /\ Put(f, key, v) # Drop(g, l)
         /\ Drop(f, key) = Drop(g, l) => f = g /\ key = l
<1>1. /\ Put(f, key, v).family = f /\ Put(f, key, v).sets = [k \in {key} |-> v] /\ Put(f, key, v).drops = {}
      /\ Put(g, l, w).family = g /\ Put(g, l, w).sets = [k \in {l} |-> w]
      /\ Drop(f, key).family = f /\ Drop(f, key).drops = {key}
      /\ Drop(g, l).family = g /\ Drop(g, l).drops = {l}
  BY DEF Put, Drop
<1>2. ASSUME Put(f, key, v) = Put(g, l, w) PROVE f = g /\ key = l /\ v = w
  <2>1. [k \in {key} |-> v] = [k \in {l} |-> w]
    BY <1>1, <1>2
  <2>2. DOMAIN [k \in {key} |-> v] = {key} /\ DOMAIN [k \in {l} |-> w] = {l}
    OBVIOUS
  <2>3. key = l
    BY <2>1, <2>2
  <2>4. [k \in {key} |-> v][key] = v /\ [k \in {l} |-> w][l] = w
    OBVIOUS
  <2>5. v = w
    BY <2>1, <2>3, <2>4
  <2>6. QED
    BY <1>1, <1>2, <2>3, <2>5
<1>3. Put(f, key, v) # Drop(g, l)
  BY <1>1
<1>4. Drop(f, key) = Drop(g, l) => f = g /\ key = l
  BY <1>1
<1>5. QED
  BY <1>2, <1>3, <1>4

\* Writing one key leaves the rest of the path, and of the writes, as it is.
LEMMA WriteOneDoes ==
  ASSUME DOMAIN db = Families, DOMAIN upkeep = {"call", "stage", "todo"}, WriteOne,
         NEW f \in Families, Head(upkeep.todo).family = f
  PROVE  /\ DOMAIN db' = Families
         /\ db'[f] = Overlay(Head(upkeep.todo).sets, Without(db[f], Head(upkeep.todo).drops))
         /\ \A g \in Families : g # f => db'[g] = db[g]
         /\ upkeep'.todo = Tail(upkeep.todo) /\ upkeep'.call = upkeep.call /\ upkeep'.stage = upkeep.stage
         /\ DOMAIN upkeep' = {"call", "stage", "todo"}
         /\ UNCHANGED <<index, thread, made, begun, history>>
<1> DEFINE w == Head(upkeep.todo)
           new == Overlay(w.sets, Without(db[f], w.drops))
<1>1. db' = [db EXCEPT ![f] = new]
  BY DEF WriteOne
<1>2. upkeep' = [upkeep EXCEPT !.todo = Tail(upkeep.todo)] /\ UNCHANGED <<index, thread, made, begun, history>>
  BY DEF WriteOne
<1> HIDE DEF new
<1>3. DOMAIN db' = Families /\ db'[f] = new /\ \A g \in Families : g # f => db'[g] = db[g]
  BY <1>1
<1>4. /\ upkeep'.todo = Tail(upkeep.todo) /\ upkeep'.call = upkeep.call /\ upkeep'.stage = upkeep.stage
      /\ DOMAIN upkeep' = {"call", "stage", "todo"}
  BY <1>2
<1>5. QED
  BY <1>2, <1>3, <1>4 DEF new

\* (See WriteOneDoes.)
LEMMA PutOne ==
  ASSUME DOMAIN db = Families, DOMAIN upkeep = {"call", "stage", "todo"}, WriteOne,
         NEW K, NEW V, NEW f \in Families, MapsTo(db[f], K, V),
         NEW key \in K, NEW v \in V, Head(upkeep.todo) = Put(f, key, v)
  PROVE  /\ MapsTo(db'[f], K, V)
         /\ DOMAIN db'[f] = DOMAIN db[f] \cup {key}
         /\ db'[f][key] = v
         /\ \A k \in DOMAIN db[f] : k # key => db'[f][k] = db[f][k]
         /\ \A g \in Families : g # f => db'[g] = db[g]
<1>1. /\ Head(upkeep.todo).family = f /\ Head(upkeep.todo).sets = [k \in {key} |-> v]
      /\ Head(upkeep.todo).drops = {}
  BY DEF Put
<1>2. db'[f] = Overlay([k \in {key} |-> v], Without(db[f], {})) /\ \A g \in Families : g # f => db'[g] = db[g]
  BY <1>1, WriteOneDoes
<1> DEFINE m == db[f]
           n == Overlay([k \in {key} |-> v], Without(m, {}))
<1>3. MapsTo(m, K, V) /\ db'[f] = n
  BY <1>2
<1> HIDE DEF m
<1>4. /\ MapsTo(n, K, V)
      /\ DOMAIN n = DOMAIN m \cup {key}
      /\ n[key] = v
      /\ \A k \in DOMAIN m : k # key => n[k] = m[k]
  BY <1>3 DEF MapsTo, Overlay, Without
<1> HIDE DEF n
<1>5. QED
  BY <1>2, <1>3, <1>4 DEF m

\* (See WriteOneDoes.)
LEMMA DropOne ==
  ASSUME DOMAIN db = Families, DOMAIN upkeep = {"call", "stage", "todo"}, WriteOne,
         NEW K, NEW V, NEW f \in Families, MapsTo(db[f], K, V),
         NEW key, Head(upkeep.todo) = Drop(f, key)
  PROVE  /\ MapsTo(db'[f], K, V)
         /\ DOMAIN db'[f] = DOMAIN db[f] \ {key}
         /\ \A k \in DOMAIN db'[f] : db'[f][k] = db[f][k]
         /\ \A g \in Families : g # f => db'[g] = db[g]
<1>1. Head(upkeep.todo).family = f /\ Head(upkeep.todo).sets = <<>> /\ Head(upkeep.todo).drops = {key}
  BY DEF Drop
<1>2. db'[f] = Overlay(<<>>, Without(db[f], {key})) /\ \A g \in Families : g # f => db'[g] = db[g]
  BY <1>1, WriteOneDoes
<1> DEFINE m == db[f]
           n == Overlay(<<>>, Without(m, {key}))
<1>3. MapsTo(m, K, V) /\ db'[f] = n
  BY <1>2
<1> HIDE DEF m
<1>4. /\ MapsTo(n, K, V)
      /\ DOMAIN n = DOMAIN m \ {key}
      /\ \A k \in DOMAIN n : n[k] = m[k]
  <2>1. DOMAIN <<>> = {}
    OBVIOUS
  <2>2. QED
    BY <1>3, <2>1 DEF MapsTo, Overlay, Without
<1> HIDE DEF n
<1>5. QED
  BY <1>2, <1>3, <1>4 DEF m

\* What a write under way may be, by the call it is for.
IsConfigPut(w) == \E b \in BOOLEAN : w = Put("config", 1, b)
IsCentroidPut(w) == \E p \in 1..Partitions, c \in Centroid : w = Put("centroid", p, c)
IsVectorPut(w) == \E p \in 1..Partitions, id \in Id, vec \in Fits : w = Put("vector", <<p, id>>, vec)
IsMetaPut(w) == \E id \in Id, m \in Metadata : w = Put("meta", id, m)

\* (See IsConfigPut.)
LEMMA WritesAre ==
  ASSUME TypeInv, upkeep.todo # <<>>
  PROVE  LET w == Head(upkeep.todo) IN
         /\ upkeep.call.op \in {"save", "persist", "erase"}
         /\ upkeep.call.op = "save" /\ upkeep.stage = "centroids" => IsConfigPut(w)
         /\ upkeep.call.op = "save" /\ upkeep.stage = "vectors" => IsCentroidPut(w)
         /\ upkeep.call.op = "save" /\ upkeep.stage = "done" => IsVectorPut(w) \/ IsMetaPut(w)
         /\ upkeep.call.op = "persist" => IsVectorPut(w) \/ IsMetaPut(w)
         /\ upkeep.call.op = "erase" =>
              /\ upkeep.call.id \in DOMAIN db["meta"]
              /\ \/ w = Drop("vector", <<db["meta"][upkeep.call.id].partition, upkeep.call.id>>)
                 \/ w = Drop("meta", upkeep.call.id)
<1> DEFINE w == Head(upkeep.todo)
<1>1. upkeep.call.op \in {"save", "persist", "erase"}
  BY UpkeepCallsAre DEF TypeInv, UpkeepTypes, NoCall
<1>2. ASSUME NEW S, upkeep.todo \in Seq(S) PROVE w \in S
  BY <1>2, HeadAndTail DEF w
<1>3. ASSUME upkeep.call.op = "save", upkeep.stage = "centroids" PROVE IsConfigPut(w)
  <2>1. upkeep.todo \in Seq(ConfigWrites)
    BY <1>3 DEF TypeInv, UpkeepTypes
  <2>2. QED
    BY <1>2, <2>1 DEF ConfigWrites, IsConfigPut
<1>4. ASSUME upkeep.call.op = "save", upkeep.stage = "vectors" PROVE IsCentroidPut(w)
  <2>1. upkeep.todo \in Seq(CentroidWrites)
    BY <1>4 DEF TypeInv, UpkeepTypes
  <2>2. QED
    BY <1>2, <2>1 DEF CentroidWrites, IsCentroidPut
<1> HIDE DEF w
<1>5. ASSUME w \in EntryWrites PROVE IsVectorPut(w) \/ IsMetaPut(w)
  <2> DEFINE V(p, id, vec) == Put("vector", <<p, id>>, vec)
  <2>1. w \in VectorWrites => IsVectorPut(w)
    <3>1. VectorWrites = {V(p, id, vec) : p \in 1..Partitions, id \in Id, vec \in Fits}
      BY DEF VectorWrites
    <3>2. IsVectorPut(w) <=> \E p \in 1..Partitions, id \in Id, vec \in Fits : w = V(p, id, vec)
      BY DEF IsVectorPut
    <3> HIDE DEF V
    <3>3. QED
      BY <3>1, <3>2
  <2>2. w \in MetaWrites => IsMetaPut(w)
    BY DEF MetaWrites, IsMetaPut
  <2>3. QED
    BY <1>5, <2>1, <2>2 DEF EntryWrites
<1>6. ASSUME upkeep.call.op = "save", upkeep.stage = "done" PROVE IsVectorPut(w) \/ IsMetaPut(w)
  <2>1. upkeep.todo \in Seq(EntryWrites)
    BY <1>6 DEF TypeInv, UpkeepTypes
  <2>2. QED
    BY <1>2, <1>5, <2>1
<1>7. ASSUME upkeep.call.op = "persist" PROVE IsVectorPut(w) \/ IsMetaPut(w)
  <2> DEFINE p == upkeep.call.partition
             e == upkeep.call.entry
  <2>1. p \in 1..Partitions /\ e \in Fitting
    BY <1>7, UpkeepCallsAre DEF TypeInv, UpkeepTypes, NoCall
  <2>2. Left(upkeep.todo, EntryPuts(p, e)[1], EntryPuts(p, e)[2])
    BY <1>7 DEF TypeInv, UpkeepTypes
  <2>3. w = EntryPuts(p, e)[1] \/ w = EntryPuts(p, e)[2]
    BY <2>2 DEF Left, w
  <2> HIDE DEF p, e
  <2>4. /\ EntryPuts(p, e)[1] = Put("vector", <<p, e.id>>, e.vec)
        /\ EntryPuts(p, e)[2] = Put("meta", e.id, [partition |-> p, level |-> e.level])
    BY <2>1, EntryPutsAre
  <2>5. e.id \in Id /\ e.vec \in Fits /\ [partition |-> p, level |-> e.level] \in Metadata
    BY <2>1 DEF Fitting, Entry, Metadata
  <2>6. QED
    BY <2>1, <2>3, <2>4, <2>5 DEF IsVectorPut, IsMetaPut
<1>8. ASSUME upkeep.call.op = "erase"
      PROVE  /\ upkeep.call.id \in DOMAIN db["meta"]
             /\ \/ w = Drop("vector", <<db["meta"][upkeep.call.id].partition, upkeep.call.id>>)
                \/ w = Drop("meta", upkeep.call.id)
  <2> DEFINE id == upkeep.call.id
  <2>1. id \in DOMAIN db["meta"] /\ Left(upkeep.todo, Erasure(id)[1], Erasure(id)[2])
    BY <1>8 DEF TypeInv, UpkeepTypes
  <2>2. Erasure(id)[1] = Drop("vector", <<db["meta"][id].partition, id>>) /\ Erasure(id)[2] = Drop("meta", id)
    BY <2>1 DEF Erasure
  <2>3. QED
    BY <2>1, <2>2 DEF Left, w
<1>9. QED
  BY <1>1, <1>3, <1>4, <1>6, <1>7, <1>8 DEF w

(***************************************************************************)
(* The types.                                                               *)
(***************************************************************************)
\* An index without vectors is well formed.
LEMMA EmptyTypes ==
  /\ [p \in 1..Partitions |-> Zero] \in Seq(Centroid) /\ Len([p \in 1..Partitions |-> Zero]) = Partitions
  /\ Empty \in [1..Partitions -> Seq(Fitting)]
<1>1. Partitions \in Nat \ {0} /\ Zero \in Centroid
  BY IndexAssumption
<1>2. [p \in 1..Partitions |-> Zero] \in Seq(Centroid) /\ Len([p \in 1..Partitions |-> Zero]) = Partitions
  BY <1>1
<1>3. Empty \in [1..Partitions -> Seq(Fitting)]
  <2> DEFINE S == Seq(Fitting)
  <2>1. <<>> \in S
    OBVIOUS
  <2> HIDE DEF S
  <2>2. Empty \in [1..Partitions -> S]
    BY <2>1 DEF Empty
  <2>3. QED
    BY <2>2 DEF S
<1>4. QED
  BY <1>2, <1>3

\* (See Typed.)
LEMMA InitTypes == PersistInit => TypeInv
<1> SUFFICES ASSUME PersistInit PROVE TypeInv
  OBVIOUS
<1>1. Partitions \in Nat \ {0} /\ Zero \in Centroid /\ MaxCalls \in Nat /\ MaxUpkeep \in Nat
  BY IndexAssumption, PersistAssumption
<1>2. IndexTypes
  <2>1. centroids = [p \in 1..Partitions |-> Zero] /\ partitions = Empty /\ trained = FALSE
    BY DEF PersistInit, Init
  <2>2. centroids \in Seq(Centroid) /\ Len(centroids) = Partitions
    BY <2>1, EmptyTypes
  <2>3. partitions \in [1..Partitions -> Seq(Fitting)]
    BY <2>1, EmptyTypes
  <2>4. trained \in BOOLEAN
    BY <2>1
  <2>5. Len(centroids) <= Partitions
    BY ONLY <1>1, <2>2
  <2>6. QED
    BY <2>2, <2>3, <2>4, <2>5 DEF IndexTypes
<1>3. ThreadTypes
  BY <1>1 DEF ThreadTypes, PersistInit, Init, Resting, NoCall, StepsOf, Steps
<1>4. DbTypes
  <2>1. DOMAIN db = Families /\ \A f \in Families : db[f] = <<>>
    BY DEF PersistInit
  <2>2. \A K, V : MapsTo(<<>>, K, V)
    BY DEF MapsTo
  <2>3. IsFiniteSet(DOMAIN <<>>)
    <3>1. DOMAIN <<>> = {}
      OBVIOUS
    <3>2. QED
      BY <3>1, FS_EmptySet
  <2>4. QED
    BY <2>1, <2>2, <2>3 DEF DbTypes, Families
<1>5. UpkeepTypes
  BY DEF UpkeepTypes, PersistInit, NoUpkeep, NoCall
<1>6. QED
  BY <1>1, <1>2, <1>3, <1>4, <1>5 DEF TypeInv, PersistInit, Init

\* (See Typed.)
LEMMA ServeTypes == TypeInv /\ ServeBesideUpkeep => TypeInv'
<1> SUFFICES ASSUME TypeInv, ServeBesideUpkeep PROVE TypeInv'
  OBVIOUS
<1>1. IndexTypes' /\ ThreadTypes' /\ made' \in 0..MaxCalls
  BY StepTypes DEF ServeBesideUpkeep, Serve
<1>2. UNCHANGED <<db, upkeep, begun>> /\ orderly' \in BOOLEAN
  BY DEF ServeBesideUpkeep
<1>3. DbTypes'
  BY <1>2 DEF TypeInv, DbTypes
<1>4. UpkeepTypes'
  BY <1>2 DEF TypeInv, UpkeepTypes, Erasure
<1>5. begun' \in 0..MaxUpkeep
  BY <1>2 DEF TypeInv
<1>6. QED
  BY <1>1, <1>2, <1>3, <1>4, <1>5 DEF TypeInv

\* (See Typed.)
LEMMA BeginTypes == TypeInv /\ BeginUpkeep => TypeInv'
<1> SUFFICES ASSUME TypeInv, BeginUpkeep PROVE TypeInv'
  OBVIOUS
<1>1. PICK call \in UpkeepCalls :
         upkeep' = [call |-> call, todo |-> FirstWrites(call),
                    stage |-> IF call.op = "save" THEN "centroids" ELSE "done"]
  BY DEF BeginUpkeep
<1>2. UNCHANGED <<index, thread, made, db>> /\ orderly' \in BOOLEAN /\ begun' \in 0..MaxUpkeep
  BY PersistAssumption DEF BeginUpkeep, TypeInv
<1>3. IndexTypes' /\ ThreadTypes' /\ DbTypes' /\ made' \in 0..MaxCalls
  BY <1>2 DEF TypeInv, IndexTypes, ThreadTypes, DbTypes, index, Current
<1>4. /\ upkeep'.call = call /\ upkeep'.todo = FirstWrites(call)
      /\ upkeep'.stage = IF call.op = "save" THEN "centroids" ELSE "done"
      /\ DOMAIN upkeep' = {"call", "stage", "todo"}
  BY <1>1
<1>5. call.op \in {"save", "persist", "erase"}
  BY UpkeepCallsAre
<1>6. CASE call.op = "save"
  <2>1. upkeep'.todo = <<Put("config", 1, trained)>>
    BY <1>4, <1>6 DEF FirstWrites
  <2>2. Put("config", 1, trained) \in ConfigWrites
    BY DEF ConfigWrites, TypeInv, IndexTypes
  <2>3. upkeep'.todo \in Seq(ConfigWrites)
    BY <2>1, <2>2
  <2>4. UpkeepTypes'
    BY <1>4, <1>6, <2>3 DEF UpkeepTypes
  <2>5. QED
    BY <1>2, <1>3, <2>4 DEF TypeInv
<1>7. CASE call.op = "persist"
  <2>1. upkeep'.todo = EntryPuts(call.partition, call.entry)
    BY <1>4, <1>7 DEF FirstWrites
  <2>2. EntryPuts(call.partition, call.entry) =
          <<EntryPuts(call.partition, call.entry)[1], EntryPuts(call.partition, call.entry)[2]>>
    BY <1>7, UpkeepCallsAre, EntryPutsAre
  <2>3. UpkeepTypes'
    BY <1>4, <1>7, <2>1, <2>2 DEF UpkeepTypes, Left
  <2>4. QED
    BY <1>2, <1>3, <2>3 DEF TypeInv
<1>8. CASE call.op = "erase"
  <2>1. upkeep'.todo = Erasure(call.id)
    BY <1>4, <1>8 DEF FirstWrites
  <2>2. db' = db
    BY <1>2
  <2>3. Erasure(call.id)' = Erasure(call.id)
    BY <2>2 DEF Erasure
  <2>4. /\ call.id \notin DOMAIN db["meta"] => Erasure(call.id) = <<>>
        /\ call.id \in DOMAIN db["meta"] => Erasure(call.id) = <<Erasure(call.id)[1], Erasure(call.id)[2]>>
    BY DEF Erasure
  <2>5. \/ upkeep'.todo = <<>>
        \/ /\ call.id \in DOMAIN db'["meta"]
           /\ Left(upkeep'.todo, Erasure(call.id)'[1], Erasure(call.id)'[2])
    BY <2>1, <2>2, <2>3, <2>4 DEF Left
  <2>6. UpkeepTypes'
    BY <1>4, <1>8, <2>5 DEF UpkeepTypes
  <2>7. QED
    BY <1>2, <1>3, <2>6 DEF TypeInv
<1>9. QED
  BY <1>5, <1>6, <1>7, <1>8

\* (See Typed.)
LEMMA WriteTypes == TypeInv /\ WriteOne => TypeInv'
<1> SUFFICES ASSUME TypeInv, WriteOne PROVE TypeInv'
  OBVIOUS
<1> DEFINE w == Head(upkeep.todo)
           op == upkeep.call.op
<1>1. /\ DOMAIN db = Families /\ DOMAIN upkeep = {"call", "stage", "todo"} /\ upkeep.todo # <<>>
      /\ MapsTo(db["config"], {1}, BOOLEAN)
      /\ MapsTo(db["centroid"], 1..Partitions, Centroid)
      /\ MapsTo(db["vector"], (1..Partitions) \X Id, Fits) /\ IsFiniteSet(DOMAIN db["vector"])
      /\ MapsTo(db["meta"], Id, Metadata)
  BY DEF TypeInv, DbTypes, UpkeepTypes, WriteOne
<1>2. {"config", "centroid", "vector", "meta"} = Families
  BY DEF Families
<1>3. /\ op \in {"save", "persist", "erase"}
      /\ op = "save" /\ upkeep.stage = "centroids" => IsConfigPut(w)
      /\ op = "save" /\ upkeep.stage = "vectors" => IsCentroidPut(w)
      /\ op = "save" /\ upkeep.stage = "done" => IsVectorPut(w) \/ IsMetaPut(w)
      /\ op = "persist" => IsVectorPut(w) \/ IsMetaPut(w)
      /\ op = "erase" =>
           /\ upkeep.call.id \in DOMAIN db["meta"]
           /\ \/ w = Drop("vector", <<db["meta"][upkeep.call.id].partition, upkeep.call.id>>)
              \/ w = Drop("meta", upkeep.call.id)
  BY <1>1, WritesAre
<1>4. upkeep.stage \in {"centroids", "vectors", "done"}
  BY DEF TypeInv, UpkeepTypes
<1> HIDE DEF w, op
<1>5. ASSUME IsConfigPut(w) PROVE DbTypes'
  <2>1. PICK b \in BOOLEAN : w = Put("config", 1, b)
    BY <1>5 DEF IsConfigPut
  <2>2. DOMAIN db' = Families
    BY <1>1, <1>2, <2>1, WriteOneDoes DEF w, Put
  <2> DEFINE K == {1}
             V == BOOLEAN
             f == "config"
  <2>3. MapsTo(db[f], K, V) /\ 1 \in K /\ b \in V /\ f \in Families /\ Head(upkeep.todo) = Put(f, 1, b)
    BY <1>1, <1>2, <2>1 DEF w
  <2> HIDE DEF K, V, f
  <2>4. MapsTo(db'[f], K, V) /\ \A g \in Families : g # f => db'[g] = db[g]
    BY <1>1, <2>3, PutOne
  <2>5. QED
    BY <1>1, <1>2, <2>2, <2>4 DEF DbTypes, K, V, f
<1>6. ASSUME IsCentroidPut(w) PROVE DbTypes'
  <2>1. PICK p \in 1..Partitions, c \in Centroid : w = Put("centroid", p, c)
    BY <1>6 DEF IsCentroidPut
  <2>2. DOMAIN db' = Families
    BY <1>1, <1>2, <2>1, WriteOneDoes DEF w, Put
  <2> DEFINE K == 1..Partitions
             f == "centroid"
  <2>3. MapsTo(db[f], K, Centroid) /\ p \in K /\ f \in Families /\ Head(upkeep.todo) = Put(f, p, c)
    BY <1>1, <1>2, <2>1 DEF w
  <2> HIDE DEF K, f
  <2>4. MapsTo(db'[f], K, Centroid) /\ \A g \in Families : g # f => db'[g] = db[g]
    BY <1>1, <2>3, PutOne
  <2>5. QED
    BY <1>1, <1>2, <2>2, <2>4 DEF DbTypes, K, f
<1>7. ASSUME IsVectorPut(w) PROVE DbTypes' /\ db'["meta"] = db["meta"]
  <2>1. PICK p \in 1..Partitions, id \in Id, vec \in Fits : w = Put("vector", <<p, id>>, vec)
    BY <1>7 DEF IsVectorPut
  <2>2. DOMAIN db' = Families
    BY <1>1, <1>2, <2>1, WriteOneDoes DEF w, Put
  <2> DEFINE key == <<p, id>>
             K == (1..Partitions) \X Id
  <2>3. key \in K /\ Head(upkeep.todo) = Put("vector", key, vec)
    BY <2>1 DEF w
  <2> HIDE DEF key
  <2>4. /\ MapsTo(db'["vector"], K, Fits) /\ DOMAIN db'["vector"] = DOMAIN db["vector"] \cup {key}
        /\ \A g \in Families : g # "vector" => db'[g] = db[g]
    BY <1>1, <1>2, <2>3, PutOne
  <2>5. IsFiniteSet(DOMAIN db'["vector"])
    BY <1>1, <2>4, FS_AddElement
  <2>6. QED
    BY <1>1, <1>2, <2>2, <2>4, <2>5 DEF DbTypes
<1>8. ASSUME IsMetaPut(w) PROVE DbTypes'
  <2>1. PICK id \in Id, m \in Metadata : w = Put("meta", id, m)
    BY <1>8 DEF IsMetaPut
  <2>2. DOMAIN db' = Families
    BY <1>1, <1>2, <2>1, WriteOneDoes DEF w, Put
  <2>3. MapsTo(db'["meta"], Id, Metadata) /\ \A g \in Families : g # "meta" => db'[g] = db[g]
    BY <1>1, <1>2, <2>1, PutOne DEF w
  <2>4. QED
    BY <1>1, <1>2, <2>2, <2>3 DEF DbTypes
<1>9. ASSUME NEW key, w = Drop("vector", key) PROVE DbTypes' /\ db'["meta"] = db["meta"]
  <2>1. DOMAIN db' = Families
    BY <1>1, <1>2, <1>9, WriteOneDoes DEF w, Drop
  <2>2. /\ MapsTo(db'["vector"], (1..Partitions) \X Id, Fits)
        /\ DOMAIN db'["vector"] = DOMAIN db["vector"] \ {key}
        /\ \A g \in Families : g # "vector" => db'[g] = db[g]
    BY <1>1, <1>2, <1>9, DropOne DEF w
  <2>3. IsFiniteSet(DOMAIN db'["vector"])
    BY <1>1, <2>2, FS_Subset
  <2>4. QED
    BY <1>1, <1>2, <2>1, <2>2, <2>3 DEF DbTypes
<1>10. ASSUME NEW key, w = Drop("meta", key) PROVE DbTypes'
  <2>1. DOMAIN db' = Families
    BY <1>1, <1>2, <1>10, WriteOneDoes DEF w, Drop
  <2>2. MapsTo(db'["meta"], Id, Metadata) /\ \A g \in Families : g # "meta" => db'[g] = db[g]
    BY <1>1, <1>2, <1>10, DropOne DEF w
  <2>3. QED
    BY <1>1, <1>2, <2>1, <2>2 DEF DbTypes
<1>11. DbTypes'
  BY <1>3, <1>4, <1>5, <1>6, <1>7, <1>8, <1>9, <1>10
<1>12. /\ upkeep'.todo = Tail(upkeep.todo) /\ upkeep'.call = upkeep.call /\ upkeep'.stage = upkeep.stage
       /\ DOMAIN upkeep' = {"call", "stage", "todo"}
       /\ UNCHANGED <<index, thread, made, begun, history>>
  <2>1. w.family \in Families
    <3>1. IsConfigPut(w) => w.family = "config"
      BY DEF IsConfigPut, Put
    <3>2. IsCentroidPut(w) => w.family = "centroid"
      BY DEF IsCentroidPut, Put
    <3>3. IsVectorPut(w) => w.family = "vector"
      BY DEF IsVectorPut, Put
    <3>4. IsMetaPut(w) => w.family = "meta"
      BY DEF IsMetaPut, Put
    <3>5. op = "erase" => w.family = "vector" \/ w.family = "meta"
      BY <1>3 DEF Drop
    <3>6. QED
      BY <1>2, <1>3, <1>4, <3>1, <3>2, <3>3, <3>4, <3>5
  <2>2. QED
    BY <1>1, <2>1, WriteOneDoes DEF w
<1>13. ASSUME op = "save" PROVE UpkeepTypes'
  <2> DEFINE S == CASE upkeep.stage = "centroids" -> ConfigWrites
                    [] upkeep.stage = "vectors" -> CentroidWrites
                    [] upkeep.stage = "done" -> EntryWrites
  <2>1. upkeep.todo \in Seq(S)
    BY <1>13 DEF TypeInv, UpkeepTypes, op
  <2> HIDE DEF S
  <2>2. Tail(upkeep.todo) \in Seq(S)
    BY <1>1, <2>1, HeadAndTail
  <2>3. upkeep'.todo \in Seq(CASE upkeep'.stage = "centroids" -> ConfigWrites
                               [] upkeep'.stage = "vectors" -> CentroidWrites
                               [] upkeep'.stage = "done" -> EntryWrites)
    BY <1>12, <2>2 DEF S
  <2>4. upkeep'.call \in UpkeepCalls \cup {NoCall} /\ upkeep'.call.op = "save"
    BY <1>12, <1>13 DEF TypeInv, UpkeepTypes, op
  <2>5. QED
    BY <1>4, <1>12, <2>3, <2>4 DEF UpkeepTypes
<1>14. ASSUME op = "persist" PROVE UpkeepTypes'
  <2> DEFINE v == EntryPuts(upkeep.call.partition, upkeep.call.entry)[1]
             m == EntryPuts(upkeep.call.partition, upkeep.call.entry)[2]
  <2>1. Left(upkeep.todo, v, m)
    BY <1>14 DEF TypeInv, UpkeepTypes, op
  <2> HIDE DEF v, m
  <2>2. Left(Tail(upkeep.todo), v, m)
    <3>1. Tail(<<v, m>>) = <<m>> /\ Tail(<<m>>) = <<>>
      OBVIOUS
    <3>2. QED
      BY <1>1, <2>1, <3>1 DEF Left
  <2>3. Left(upkeep'.todo, EntryPuts(upkeep'.call.partition, upkeep'.call.entry)[1],
                           EntryPuts(upkeep'.call.partition, upkeep'.call.entry)[2])
    BY <1>12, <2>2 DEF v, m
  <2>4. upkeep'.call \in UpkeepCalls \cup {NoCall} /\ upkeep'.call.op = "persist" /\ upkeep'.stage = "done"
    BY <1>12, <1>14 DEF TypeInv, UpkeepTypes, op
  <2>5. QED
    BY <1>12, <2>3, <2>4 DEF UpkeepTypes
<1>15. ASSUME op = "erase" PROVE UpkeepTypes'
  <2> DEFINE id == upkeep.call.id
             v == Drop("vector", <<db["meta"][id].partition, id>>)
             m == Drop("meta", id)
  <2>1. id \in DOMAIN db["meta"] /\ Left(upkeep.todo, Erasure(id)[1], Erasure(id)[2])
    BY <1>1, <1>15 DEF TypeInv, UpkeepTypes, op
  <2>2. Erasure(id)[1] = v /\ Erasure(id)[2] = m
    BY <2>1 DEF Erasure
  <2>3. Left(upkeep.todo, v, m)
    BY <2>1, <2>2
  <2> HIDE DEF v, m
  <2>4. CASE upkeep.todo = <<v, m>>
    <3>1. upkeep'.todo = <<m>> /\ w = v
      BY <1>12, <2>4 DEF w
    <3>2. db'["meta"] = db["meta"]
      BY <1>9, <3>1 DEF v
    <3>3. Erasure(id)'[2] = m /\ id \in DOMAIN db'["meta"]
      <4>1. id \in DOMAIN db'["meta"] /\ upkeep'.call.id = id
        BY <1>12, <2>1, <3>2
      <4>2. Erasure(id)' = <<Drop("vector", <<db'["meta"][id].partition, id>>), Drop("meta", id)>>
        BY <4>1 DEF Erasure
      <4>3. QED
        BY <4>1, <4>2 DEF m
    <3>4. Left(upkeep'.todo, Erasure(id)'[1], Erasure(id)'[2])
      BY <3>1, <3>3 DEF Left
    <3>5. upkeep'.call \in UpkeepCalls \cup {NoCall} /\ upkeep'.call.op = "erase" /\ upkeep'.stage = "done"
      BY <1>12, <1>15 DEF TypeInv, UpkeepTypes, op
    <3>6. QED
      BY <1>12, <3>3, <3>4, <3>5 DEF UpkeepTypes
  <2>5. CASE upkeep.todo = <<m>>
    <3>1. upkeep'.todo = <<>>
      BY <1>12, <2>5
    <3>2. upkeep'.call \in UpkeepCalls \cup {NoCall} /\ upkeep'.call.op = "erase" /\ upkeep'.stage = "done"
      BY <1>12, <1>15 DEF TypeInv, UpkeepTypes, op
    <3>3. QED
      BY <1>12, <3>1, <3>2 DEF UpkeepTypes
  <2>6. QED
    BY <1>1, <2>3, <2>4, <2>5 DEF Left
<1>16. UpkeepTypes'
  BY <1>3, <1>13, <1>14, <1>15
<1>17. IndexTypes' /\ ThreadTypes' /\ made' \in 0..MaxCalls /\ begun' \in 0..MaxUpkeep /\ orderly' \in BOOLEAN
  BY <1>12 DEF TypeInv, IndexTypes, ThreadTypes, index, history, Current
<1>18. QED
  BY <1>11, <1>16, <1>17 DEF TypeInv

\* (See Typed.)
LEMMA CopyTypes == TypeInv /\ (CopyCentroids \/ CopyVectors) => TypeInv'
<1> SUFFICES ASSUME TypeInv, CopyCentroids \/ CopyVectors PROVE TypeInv'
  OBVIOUS
<1>1. UNCHANGED <<index, thread, made, db, begun, history>>
  BY DEF CopyCentroids, CopyVectors
<1>2. /\ IndexTypes' /\ ThreadTypes' /\ DbTypes'
      /\ made' \in 0..MaxCalls /\ begun' \in 0..MaxUpkeep /\ orderly' \in BOOLEAN
  BY <1>1 DEF TypeInv, IndexTypes, ThreadTypes, DbTypes, index, history, Current
<1>3. DOMAIN upkeep = {"call", "stage", "todo"} /\ upkeep.call.op = "save" /\ upkeep.call \in UpkeepCalls \cup {NoCall}
  BY DEF CopyCentroids, CopyVectors, TypeInv, UpkeepTypes
<1>4. CASE CopyCentroids
  <2>1. /\ upkeep'.call = upkeep.call /\ upkeep'.todo = CentroidPuts /\ upkeep'.stage = "vectors"
        /\ DOMAIN upkeep' = {"call", "stage", "todo"}
    BY <1>3, <1>4 DEF CopyCentroids
  <2>2. CentroidPuts \in Seq(CentroidWrites)
    BY CentroidPutsAre DEF TypeInv
  <2>3. UpkeepTypes'
    BY <1>3, <2>1, <2>2 DEF UpkeepTypes
  <2>4. QED
    BY <1>2, <2>3 DEF TypeInv
<1>5. CASE CopyVectors
  <2>1. /\ upkeep'.call = upkeep.call /\ upkeep'.todo = VectorPuts /\ upkeep'.stage = "done"
        /\ DOMAIN upkeep' = {"call", "stage", "todo"}
    BY <1>3, <1>5 DEF CopyVectors
  <2>2. VectorPuts \in Seq(EntryWrites)
    BY VectorPutsAre DEF TypeInv
  <2>3. UpkeepTypes'
    BY <1>3, <2>1, <2>2 DEF UpkeepTypes
  <2>4. QED
    BY <1>2, <2>3 DEF TypeInv
<1>6. QED
  BY <1>4, <1>5

\* (See Typed.)
LEMMA EndTypes == TypeInv /\ EndUpkeep => TypeInv'
<1> SUFFICES ASSUME TypeInv, EndUpkeep PROVE TypeInv'
  OBVIOUS
<1>1. UNCHANGED <<index, thread, made, db, begun, orderly>> /\ upkeep' = NoUpkeep
  BY DEF EndUpkeep
<1>2. /\ IndexTypes' /\ ThreadTypes' /\ DbTypes'
      /\ made' \in 0..MaxCalls /\ begun' \in 0..MaxUpkeep /\ orderly' \in BOOLEAN
  BY <1>1 DEF TypeInv, IndexTypes, ThreadTypes, DbTypes, index, Current
<1>3. UpkeepTypes'
  BY <1>1 DEF UpkeepTypes, NoUpkeep, NoCall
<1>4. QED
  BY <1>2, <1>3 DEF TypeInv

\* (See Typed.)
LEMMA RestartTypes == TypeInv /\ Restart => TypeInv'
<1> SUFFICES ASSUME TypeInv, Restart PROVE TypeInv'
  OBVIOUS
<1>1. Partitions \in Nat \ {0} /\ Zero \in Centroid
  BY IndexAssumption
<1>2. UNCHANGED <<made, db, begun>> /\ upkeep' = NoUpkeep /\ orderly' \in BOOLEAN
  BY DEF Restart
<1>3. DbTypes' /\ made' \in 0..MaxCalls /\ begun' \in 0..MaxUpkeep
  BY <1>2 DEF TypeInv, DbTypes
<1>4. UpkeepTypes'
  BY <1>2 DEF UpkeepTypes, NoUpkeep, NoCall
<1>5. ThreadTypes'
  BY <1>1 DEF ThreadTypes, Restart, Resting, NoCall, StepsOf, Steps
<1>6. IndexTypes'
  <2>1. CASE db["config"] = <<>>
    <3>1. centroids' = [p \in 1..Partitions |-> Zero] /\ partitions' = Empty /\ trained' = FALSE
      BY <2>1 DEF Restart
    <3>2. centroids' \in Seq(Centroid) /\ Len(centroids') = Partitions
      BY <3>1, EmptyTypes
    <3>3. partitions' \in [1..Partitions -> Seq(Fitting)]
      BY <3>1, EmptyTypes
    <3>4. trained' \in BOOLEAN
      BY <3>1
    <3>5. Len(centroids') <= Partitions
      BY ONLY <1>1, <3>2
    <3>6. QED
      BY <3>2, <3>3, <3>4, <3>5 DEF IndexTypes
  <2>2. CASE db["config"] # <<>>
    <3>1. centroids' = RestoredCentroids /\ partitions' = Reloaded /\ trained' = db["config"][1]
      BY <2>2 DEF Restart, Reloaded
    <3>2. RestoredCentroids \in Seq(Centroid) /\ Len(RestoredCentroids) <= Partitions
      BY RestoredCentroidsAre DEF TypeInv, DbTypes
    <3>3. Reloaded \in [1..Partitions -> Seq(Fitting)]
      BY RestoredPartitionsAre DEF TypeInv, DbTypes
    <3>4. db["config"][1] \in BOOLEAN
      <4>1. MapsTo(db["config"], {1}, BOOLEAN)
        BY DEF TypeInv, DbTypes
      <4>2. DOMAIN db["config"] # {}
        <5> DEFINE K == {1}
                   V == BOOLEAN
                   m == db["config"]
        <5>1. MapsTo(m, K, V)
          BY <4>1
        <5> HIDE DEF K, V, m
        <5>2. m = <<>> <=> DOMAIN m = {}
          BY <5>1, NoKeys
        <5>3. QED
          BY <2>2, <5>2 DEF m
      <4>3. QED
        BY <4>1, <4>2 DEF MapsTo
    <3>5. QED
      BY <3>1, <3>2, <3>3, <3>4 DEF IndexTypes
  <2>3. QED
    BY <2>1, <2>2
<1>7. QED
  BY <1>2, <1>3, <1>4, <1>5, <1>6 DEF TypeInv

\* (See Typed.)
LEMMA NextTypes == TypeInv /\ [Next]_vars => TypeInv'
<1>1. TypeInv /\ UNCHANGED vars => TypeInv'
  BY DEF TypeInv, IndexTypes, ThreadTypes, DbTypes, UpkeepTypes, vars, index, history, Current, Erasure
<1>2. QED
  BY <1>1, ServeTypes, BeginTypes, WriteTypes, CopyTypes, EndTypes, RestartTypes DEF Next

\* Entries are well formed and of the right dimension in memory and on the
\* path, a thread is at a step of its call, and what is left of a call on the
\* persister is writes of its kind.
THEOREM Typed == Spec => []TypeInv
BY InitTypes, NextTypes, PTL DEF Spec

(***************************************************************************)
(* What a write does to the path and to the writes that are left.           *)
(***************************************************************************)
\* The writes left are a sequence.
LEMMA TodoSeq == ASSUME TypeInv PROVE \E S : upkeep.todo \in Seq(S)
<1> DEFINE todo == upkeep.todo
           op == upkeep.call.op
<1>1. op \in {"save", "persist", "erase", "none"}
  BY UpkeepCallsAre DEF TypeInv, UpkeepTypes, NoCall
<1>2. op = "save" => \E S : todo \in Seq(S)
  BY DEF TypeInv, UpkeepTypes
<1>3. op = "none" => todo = <<>>
  BY DEF TypeInv, UpkeepTypes
<1>4. op = "persist" \/ op = "erase" => todo = <<>> \/ \E v, m : Left(todo, v, m)
  BY DEF TypeInv, UpkeepTypes
<1>5. ASSUME NEW v, NEW m, Left(todo, v, m) PROVE todo \in Seq({v, m})
  <2>1. <<>> \in Seq({v, m}) /\ <<m>> \in Seq({v, m}) /\ <<v, m>> \in Seq({v, m})
    OBVIOUS
  <2>2. QED
    BY <1>5, <2>1 DEF Left
<1>6. <<>> \in Seq({})
  OBVIOUS
<1> HIDE DEF todo, op
<1>7. \E S : todo \in Seq(S)
  BY <1>1, <1>2, <1>3, <1>4, <1>5, <1>6
<1>8. QED
  BY <1>7 DEF todo

\* (See TodoSeq.)
LEMMA TodoIs ==
  ASSUME TypeInv
  PROVE  /\ upkeep.todo # <<>> => Todo = {Head(upkeep.todo)} \cup Range(Tail(upkeep.todo))
         /\ upkeep.todo = <<>> => Todo = {}
<1>1. PICK S : upkeep.todo \in Seq(S)
  BY TodoSeq
<1>2. upkeep.todo # <<>> => Todo = {Head(upkeep.todo)} \cup Range(Tail(upkeep.todo))
  BY <1>1, HeadAndTail DEF Todo
<1>3. upkeep.todo = <<>> => Todo = {}
  BY InRange DEF Todo
<1>4. QED
  BY <1>2, <1>3

\* The write is one of those left, and the others are left still.
LEMMA WriteFrame ==
  ASSUME TypeInv, WriteOne
  PROVE  /\ Todo = {Head(upkeep.todo)} \cup Todo'
         /\ upkeep'.call = upkeep.call /\ upkeep'.stage = upkeep.stage /\ upkeep'.todo = Tail(upkeep.todo)
         /\ UNCHANGED <<centroids, partitions, trained, thread, made, begun, covered, kept, orderly>>
<1>1. upkeep.todo # <<>> /\ DOMAIN upkeep = {"call", "stage", "todo"}
  BY DEF WriteOne, TypeInv, UpkeepTypes
<1>2. upkeep' = [upkeep EXCEPT !.todo = Tail(upkeep.todo)] /\ UNCHANGED <<index, thread, made, begun, history>>
  BY DEF WriteOne
<1>3. upkeep'.todo = Tail(upkeep.todo) /\ upkeep'.call = upkeep.call /\ upkeep'.stage = upkeep.stage
  BY <1>1, <1>2
<1>4. Todo' = Range(Tail(upkeep.todo))
  BY <1>3 DEF Todo
<1>5. QED
  BY <1>1, <1>2, <1>3, <1>4, TodoIs DEF index, history

\* The configuration is written.
LEMMA ConfigWritten ==
  ASSUME TypeInv, WriteOne, IsConfigPut(Head(upkeep.todo))
  PROVE  /\ db'["config"] # <<>>
         /\ UNCHANGED <<db["centroid"], db["vector"], db["meta"]>>
<1>1. /\ DOMAIN db = Families /\ DOMAIN upkeep = {"call", "stage", "todo"}
      /\ MapsTo(db["config"], {1}, BOOLEAN)
  BY DEF TypeInv, DbTypes, UpkeepTypes
<1>2. PICK b \in BOOLEAN : Head(upkeep.todo) = Put("config", 1, b)
  BY DEF IsConfigPut
<1> DEFINE K == {1}
           V == BOOLEAN
           f == "config"
<1>3. MapsTo(db[f], K, V) /\ 1 \in K /\ b \in V /\ f \in Families /\ Head(upkeep.todo) = Put(f, 1, b)
  BY <1>1, <1>2 DEF Families
<1> HIDE DEF K, V, f
<1>4. 1 \in DOMAIN db'[f] /\ \A g \in Families : g # f => db'[g] = db[g]
  BY <1>1, <1>3, PutOne
<1>5. db'[f] # <<>>
  <2>1. 1 \notin DOMAIN <<>>
    OBVIOUS
  <2>2. QED
    BY <1>4, <2>1
<1>6. QED
  BY <1>4, <1>5 DEF Families, f

\* A centroid is written.
LEMMA CentroidWritten ==
  ASSUME TypeInv, WriteOne, NEW p \in 1..Partitions, NEW c \in Centroid,
         Head(upkeep.todo) = Put("centroid", p, c)
  PROVE  /\ DOMAIN db'["centroid"] = DOMAIN db["centroid"] \cup {p}
         /\ db'["centroid"][p] = c
         /\ \A k \in DOMAIN db["centroid"] : k # p => db'["centroid"][k] = db["centroid"][k]
         /\ UNCHANGED <<db["config"], db["vector"], db["meta"]>>
<1>1. /\ DOMAIN db = Families /\ DOMAIN upkeep = {"call", "stage", "todo"}
      /\ MapsTo(db["centroid"], 1..Partitions, Centroid)
  BY DEF TypeInv, DbTypes, UpkeepTypes
<1> DEFINE K == 1..Partitions
           f == "centroid"
<1>2. MapsTo(db[f], K, Centroid) /\ p \in K /\ f \in Families /\ Head(upkeep.todo) = Put(f, p, c)
  BY <1>1 DEF Families
<1> HIDE DEF K, f
<1>3. /\ DOMAIN db'[f] = DOMAIN db[f] \cup {p}
      /\ db'[f][p] = c
      /\ \A k \in DOMAIN db[f] : k # p => db'[f][k] = db[f][k]
      /\ \A g \in Families : g # f => db'[g] = db[g]
  BY <1>1, <1>2, PutOne
<1>4. QED
  BY <1>3 DEF Families, f

\* A vector is written.
LEMMA VectorWritten ==
  ASSUME TypeInv, WriteOne, NEW p \in 1..Partitions, NEW id \in Id, NEW vec \in Fits,
         Head(upkeep.todo) = Put("vector", <<p, id>>, vec)
  PROVE  /\ DOMAIN db'["vector"] = DOMAIN db["vector"] \cup {<<p, id>>}
         /\ db'["vector"][<<p, id>>] = vec
         /\ \A k \in DOMAIN db["vector"] : k # <<p, id>> => db'["vector"][k] = db["vector"][k]
         /\ UNCHANGED <<db["config"], db["centroid"], db["meta"]>>
<1>1. /\ DOMAIN db = Families /\ DOMAIN upkeep = {"call", "stage", "todo"}
      /\ MapsTo(db["vector"], (1..Partitions) \X Id, Fits)
  BY DEF TypeInv, DbTypes, UpkeepTypes
<1> DEFINE K == (1..Partitions) \X Id
           f == "vector"
           key == <<p, id>>
<1>2. MapsTo(db[f], K, Fits) /\ key \in K /\ f \in Families /\ Head(upkeep.todo) = Put(f, key, vec)
  BY <1>1 DEF Families
<1> HIDE DEF K, f, key
<1>3. /\ DOMAIN db'[f] = DOMAIN db[f] \cup {key}
      /\ db'[f][key] = vec
      /\ \A k \in DOMAIN db[f] : k # key => db'[f][k] = db[f][k]
      /\ \A g \in Families : g # f => db'[g] = db[g]
  BY <1>1, <1>2, PutOne
<1>4. QED
  BY <1>3 DEF Families, f, key

\* Metadata are written.
LEMMA MetaWritten ==
  ASSUME TypeInv, WriteOne, NEW id \in Id, NEW m \in Metadata,
         Head(upkeep.todo) = Put("meta", id, m)
  PROVE  /\ DOMAIN db'["meta"] = DOMAIN db["meta"] \cup {id}
         /\ db'["meta"][id] = m
         /\ \A k \in DOMAIN db["meta"] : k # id => db'["meta"][k] = db["meta"][k]
         /\ UNCHANGED <<db["config"], db["centroid"], db["vector"]>>
<1>1. /\ DOMAIN db = Families /\ DOMAIN upkeep = {"call", "stage", "todo"}
      /\ MapsTo(db["meta"], Id, Metadata)
  BY DEF TypeInv, DbTypes, UpkeepTypes
<1> DEFINE f == "meta"
<1>2. MapsTo(db[f], Id, Metadata) /\ f \in Families /\ Head(upkeep.todo) = Put(f, id, m)
  BY <1>1 DEF Families
<1> HIDE DEF f
<1>3. /\ DOMAIN db'[f] = DOMAIN db[f] \cup {id}
      /\ db'[f][id] = m
      /\ \A k \in DOMAIN db[f] : k # id => db'[f][k] = db[f][k]
      /\ \A g \in Families : g # f => db'[g] = db[g]
  BY <1>1, <1>2, PutOne
<1>4. QED
  BY <1>3 DEF Families, f

\* A vector is dropped.
LEMMA VectorDropped ==
  ASSUME TypeInv, WriteOne, NEW key, Head(upkeep.todo) = Drop("vector", key)
  PROVE  /\ DOMAIN db'["vector"] = DOMAIN db["vector"] \ {key}
         /\ \A k \in DOMAIN db'["vector"] : db'["vector"][k] = db["vector"][k]
         /\ UNCHANGED <<db["config"], db["centroid"], db["meta"]>>
<1>1. /\ DOMAIN db = Families /\ DOMAIN upkeep = {"call", "stage", "todo"}
      /\ MapsTo(db["vector"], (1..Partitions) \X Id, Fits)
  BY DEF TypeInv, DbTypes, UpkeepTypes
<1> DEFINE K == (1..Partitions) \X Id
           f == "vector"
<1>2. MapsTo(db[f], K, Fits) /\ f \in Families /\ Head(upkeep.todo) = Drop(f, key)
  BY <1>1 DEF Families
<1> HIDE DEF K, f
<1>3. /\ DOMAIN db'[f] = DOMAIN db[f] \ {key}
      /\ \A k \in DOMAIN db'[f] : db'[f][k] = db[f][k]
      /\ \A g \in Families : g # f => db'[g] = db[g]
  BY <1>1, <1>2, DropOne
<1>4. QED
  BY <1>3 DEF Families, f

\* Metadata are dropped.
LEMMA MetaDropped ==
  ASSUME TypeInv, WriteOne, NEW id, Head(upkeep.todo) = Drop("meta", id)
  PROVE  /\ DOMAIN db'["meta"] = DOMAIN db["meta"] \ {id}
         /\ \A k \in DOMAIN db'["meta"] : db'["meta"][k] = db["meta"][k]
         /\ UNCHANGED <<db["config"], db["centroid"], db["vector"]>>
<1>1. /\ DOMAIN db = Families /\ DOMAIN upkeep = {"call", "stage", "todo"}
      /\ MapsTo(db["meta"], Id, Metadata)
  BY DEF TypeInv, DbTypes, UpkeepTypes
<1> DEFINE f == "meta"
<1>2. MapsTo(db[f], Id, Metadata) /\ f \in Families /\ Head(upkeep.todo) = Drop(f, id)
  BY <1>1 DEF Families
<1> HIDE DEF f
<1>3. /\ DOMAIN db'[f] = DOMAIN db[f] \ {id}
      /\ \A k \in DOMAIN db'[f] : db'[f][k] = db[f][k]
      /\ \A g \in Families : g # f => db'[g] = db[g]
  BY <1>1, <1>2, DropOne
<1>4. QED
  BY <1>3 DEF Families, f

(***************************************************************************)
(* Where vectors are.                                                       *)
(***************************************************************************)
\* The entries are what is in the partitions.
LEMMA EntriesAre ==
  ASSUME IndexTypes
  PROVE  \A e : e \in Entries <=> \E p \in 1..Partitions : e \in Range(partitions[p])
<1>1. DOMAIN partitions = 1..Partitions
  BY DEF IndexTypes
<1>2. QED
  BY <1>1 DEF Entries

\* (See Founded.)
LEMMA InitFound == PersistInit => FoundInv
<1> SUFFICES ASSUME PersistInit PROVE FoundInv
  OBVIOUS
<1>1. IndexTypes
  BY InitTypes DEF TypeInv
<1>2. centroids \in [1..Partitions -> Centroid]
  BY IndexAssumption DEF PersistInit, Init
<1>3. Range(<<>>) = {}
  BY DEF Range
<1>4. \A p \in 1..Partitions : Range(partitions[p]) = {}
  BY <1>3 DEF PersistInit, Init, Empty
<1>5. \A t \in Thread : thread[t] = Resting
  BY DEF PersistInit, Init
<1>6. Placed
  BY <1>2, <1>4, <1>5 DEF Placed, At, Resting
<1>7. TrainedFirst
  BY <1>5 DEF TrainedFirst, Resting, NoCall
<1>8. upkeep.call = NoCall /\ db["config"] = <<>>
  BY DEF PersistInit, NoUpkeep, Families
<1>9. CentroidsSaved /\ ~Busy
  BY <1>8 DEF CentroidsSaved, Busy, NoCall
<1>10. QED
  BY <1>6, <1>7, <1>9 DEF FoundInv

\* (See Founded.)
LEMMA ServeFound == TypeInv /\ FoundInv /\ ServeBesideUpkeep => FoundInv'
<1> SUFFICES ASSUME TypeInv, FoundInv, ServeBesideUpkeep, orderly' PROVE (Placed /\ TrainedFirst /\ CentroidsSaved /\ (Busy => Quiet))'
  BY DEF FoundInv
<1>1. IndexTypes /\ ThreadTypes
  BY DEF TypeInv
<1>2. orderly /\ ~Busy /\ TrainedFirst' /\ UNCHANGED <<db, upkeep>>
  BY DEF ServeBesideUpkeep
<1>3. Placed /\ TrainedFirst /\ CentroidsSaved
  BY <1>2 DEF FoundInv
<1>4. PICK t \in Thread : Step(t)
  BY DEF ServeBesideUpkeep, Serve
<1>5. \A u \in Thread : u # t => thread'[u] = thread[u]
  BY <1>1, <1>4, OthersStay
<1>6. upkeep.call = NoCall /\ upkeep'.call = NoCall /\ db' = db
  BY <1>2 DEF Busy
<1>7. CentroidsSaved' /\ ~Busy'
  BY <1>3, <1>6 DEF CentroidsSaved, NoCall, Busy
<1> DEFINE Right(u) == At(u, "push") => thread[u].partition = Nearest(Current(u).vec, centroids)
<1>8. /\ centroids \in [1..Partitions -> Centroid]
      /\ \A p \in 1..Partitions : \A e \in Range(partitions[p]) : p = Nearest(e.vec, centroids)
      /\ \A u \in Thread : Right(u)
  BY <1>3 DEF Placed
<1>9. ASSUME centroids' = centroids,
             \A p \in 1..Partitions : \A e \in Range(partitions'[p]) : p = Nearest(e.vec, centroids),
             Right(t)'
      PROVE  Placed'
  <2>1. \A u \in Thread : u # t => Right(u)'
    BY <1>5, <1>8, <1>9 DEF At, Current
  <2>2. QED
    BY <1>8, <1>9, <2>1 DEF Placed
<1>10. DOMAIN thread = Thread
  BY <1>1 DEF ThreadTypes
<1>11. Return(t) => ~At(t, "push")'
  BY <1>10 DEF Return, At, Resting
<1>12. CASE Call(t)
  <2>1. PICK c \in CallsOf[t] : thread'[t] = [Resting EXCEPT !.pc = FirstPc[c.op], !.call = c]
    BY <1>10, <1>12 DEF Call
  <2>2. thread'[t].pc = FirstPc[c.op] /\ c.op \in {"insert", "delete", "train"}
    BY <2>1, CallsAre DEF Resting
  <2>3. ~At(t, "push")'
    BY <2>2 DEF FirstPc, At
  <2>4. QED
    BY <1>2, <1>7, <1>8, <1>9, <1>12, <2>3 DEF Call, index
<1>13. CASE RejectVector(t)
  BY <1>2, <1>7, <1>8, <1>9, <1>11, <1>13 DEF RejectVector, index
<1>14. CASE Place(t)
  <2> DEFINE p == Nearest(Current(t).vec, centroids)
  <2>1. thread' = [thread EXCEPT ![t].pc = "push", ![t].partition = p] /\ UNCHANGED index
    BY <1>14 DEF Place
  <2> HIDE DEF p
  <2>2. thread'[t] = [thread[t] EXCEPT !.pc = "push", !.partition = p]
    BY <1>10, <2>1
  <2>3. thread[t] \in [pc : Steps, call : CallsOf[t] \cup {NoCall}, at : Nat, partition : 1..Partitions]
    BY <1>1 DEF ThreadTypes
  <2>4. thread'[t].partition = p /\ thread'[t].call = thread[t].call /\ thread'[t].at = thread[t].at
    BY <2>2, <2>3
  <2>5. thread'[t].partition = Nearest(Current(t)'.vec, centroids)
    BY <2>4 DEF Current, p
  <2>6. centroids' = centroids /\ partitions' = partitions
    BY <2>1 DEF index
  <2>7. Right(t)'
    BY <2>5, <2>6
  <2>8. QED
    BY <1>2, <1>7, <1>8, <1>9, <2>6, <2>7
<1>15. CASE Push(t)
  <2>1. \A p \in 1..Partitions : Range(partitions'[p]) =
          Range(partitions[p]) \cup (IF p = thread[t].partition THEN {Current(t)} ELSE {})
    BY <1>1, <1>15, PushDoes
  <2>2. thread[t].partition = Nearest(Current(t).vec, centroids) /\ centroids' = centroids
    BY <1>8, <1>15 DEF Push
  <2>3. \A p \in 1..Partitions : \A e \in Range(partitions'[p]) : p = Nearest(e.vec, centroids)
    BY <1>8, <2>1, <2>2
  <2>4. thread' = [thread EXCEPT ![t].pc = "place", ![t].at = thread[t].at + 1] => ~At(t, "push")'
    BY <1>10 DEF At
  <2>5. ~At(t, "push")'
    BY <1>11, <1>15, <2>4 DEF Push
  <2>6. QED
    BY <1>2, <1>7, <1>9, <2>2, <2>3, <2>5
<1>16. CASE Train(t)
  <2>1. thread[t].call.op = "train" /\ thread[t].call.sample \in Sample
    BY <1>1, <1>16, StepIsOf DEF Train
  <2>2. Entries = {} /\ \A u \in Thread : thread[u].call.op # "insert"
    BY <1>3, <2>1 DEF TrainedFirst
  <2>3. \A p \in 1..Partitions : Range(partitions[p]) = {}
    BY <1>1, <2>2, EntriesAre
  <2>4. \A u \in Thread : ~At(u, "push")
    BY <1>1, <2>2, StepIsOf
  <2>5. partitions' = partitions
    BY <1>16 DEF Train
  <2>6. \A u \in Thread : ~At(u, "push")'
    BY <1>5, <1>11, <1>16, <2>4 DEF Train, At
  <2>7. centroids' \in [1..Partitions -> Centroid]
    BY <1>8, <1>16, <2>1, IndexAssumption DEF Train
  <2>8. Placed'
    BY <2>3, <2>5, <2>6, <2>7 DEF Placed
  <2>9. QED
    BY <1>2, <1>7, <2>8
<1>17. CASE Delete(t)
  <2>1. \A p \in 1..Partitions : Range(partitions'[p]) \subseteq Range(partitions[p])
    BY <1>1, <1>17, DeleteDoes
  <2>2. \A p \in 1..Partitions : \A e \in Range(partitions'[p]) : p = Nearest(e.vec, centroids)
    BY <1>8, <2>1
  <2>3. centroids' = centroids /\ ~At(t, "push")'
    BY <1>11, <1>17 DEF Delete
  <2>4. QED
    BY <1>2, <1>7, <1>9, <2>2, <2>3
<1>18. QED
  BY <1>4, <1>12, <1>13, <1>14, <1>15, <1>16, <1>17 DEF Step

\* (See Founded.)
LEMMA WriteFound == TypeInv /\ FoundInv /\ WriteOne => FoundInv'
<1> SUFFICES ASSUME TypeInv, FoundInv, WriteOne, orderly' PROVE (Placed /\ TrainedFirst /\ CentroidsSaved /\ (Busy => Quiet))'
  BY DEF FoundInv
<1> DEFINE w == Head(upkeep.todo)
           op == upkeep.call.op
<1>1. /\ Todo = {w} \cup Todo'
      /\ upkeep'.call = upkeep.call /\ upkeep'.stage = upkeep.stage
      /\ UNCHANGED <<centroids, partitions, trained, thread, made, begun, covered, kept, orderly>>
  BY WriteFrame
<1>2. Placed /\ TrainedFirst /\ CentroidsSaved /\ (Busy => Quiet)
  BY <1>1 DEF FoundInv
<1>3. Placed' /\ TrainedFirst' /\ (Busy => Quiet)'
  BY <1>1, <1>2 DEF Placed, TrainedFirst, Busy, Quiet, At, Current, Entries
<1>4. upkeep.todo # <<>> /\ upkeep.stage \in {"centroids", "vectors", "done"}
  BY DEF WriteOne, TypeInv, UpkeepTypes
<1>5. /\ op \in {"save", "persist", "erase"}
      /\ op = "save" /\ upkeep.stage = "vectors" => IsCentroidPut(w)
      /\ op = "save" /\ upkeep.stage = "done" => IsVectorPut(w) \/ IsMetaPut(w)
      /\ op = "persist" => IsVectorPut(w) \/ IsMetaPut(w)
      /\ op = "erase" => (\E key : w = Drop("vector", key)) \/ (\E id : w = Drop("meta", id))
  BY <1>4, WritesAre
<1> HIDE DEF w
<1>6. ASSUME IsVectorPut(w) \/ IsMetaPut(w) \/ (\E key : w = Drop("vector", key)) \/ (\E id : w = Drop("meta", id))
      PROVE  db'["config"] = db["config"] /\ db'["centroid"] = db["centroid"]
  <2>1. CASE IsVectorPut(w)
    BY <2>1, VectorWritten DEF IsVectorPut, w
  <2>2. CASE IsMetaPut(w)
    BY <2>2, MetaWritten DEF IsMetaPut, w
  <2>3. CASE \E key : w = Drop("vector", key)
    BY <2>3, VectorDropped DEF w
  <2>4. CASE \E id : w = Drop("meta", id)
    BY <2>4, MetaDropped DEF w
  <2>5. QED
    BY <1>6, <2>1, <2>2, <2>3, <2>4
<1>7. CASE op # "save"
  BY <1>1, <1>2, <1>3, <1>5, <1>6, <1>7 DEF CentroidsSaved
<1>8. CASE op = "save" /\ upkeep.stage = "centroids"
  BY <1>1, <1>3, <1>8 DEF CentroidsSaved
<1>9. CASE op = "save" /\ upkeep.stage = "vectors"
  <2>1. PICK p \in 1..Partitions, c \in Centroid : w = Put("centroid", p, c)
    BY <1>5, <1>9 DEF IsCentroidPut
  <2>2. /\ DOMAIN db'["centroid"] = DOMAIN db["centroid"] \cup {p}
        /\ db'["centroid"][p] = c
        /\ \A k \in DOMAIN db["centroid"] : k # p => db'["centroid"][k] = db["centroid"][k]
    BY <2>1, CentroidWritten DEF w
  <2>3. /\ \A q \in 1..Partitions : \/ Put("centroid", q, centroids[q]) \in Todo
                                    \/ q \in DOMAIN db["centroid"] /\ db["centroid"][q] = centroids[q]
        /\ \A q \in 1..Partitions, d \in Centroid : Put("centroid", q, d) \in Todo => centroids[q] = d
    BY <1>2, <1>9 DEF CentroidsSaved
  <2>4. centroids[p] = c
    BY <1>1, <2>1, <2>3
  <2>5. ASSUME NEW q \in 1..Partitions
        PROVE  \/ Put("centroid", q, centroids[q]) \in Todo'
               \/ q \in DOMAIN db'["centroid"] /\ db'["centroid"][q] = centroids[q]
    <3>1. CASE q = p
      BY <2>2, <2>4, <3>1
    <3>2. CASE q # p
      <4>1. Put("centroid", q, centroids[q]) # w
        BY <2>1, <3>2, PutsDiffer
      <4>2. QED
        BY <1>1, <2>2, <2>3, <3>2, <4>1
    <3>3. QED
      BY <3>1, <3>2
  <2>6. \A q \in 1..Partitions, d \in Centroid : Put("centroid", q, d) \in Todo' => centroids[q] = d
    BY <1>1, <2>3
  <2>7. CentroidsSaved'
    BY <1>1, <1>9, <2>5, <2>6 DEF CentroidsSaved
  <2>8. QED
    BY <1>3, <2>7
<1>10. CASE op = "save" /\ upkeep.stage = "done"
  BY <1>1, <1>2, <1>3, <1>5, <1>6, <1>10 DEF CentroidsSaved
<1>11. CentroidsSaved'
  BY <1>3, <1>4, <1>7, <1>8, <1>9, <1>10
<1>12. QED
  BY <1>3, <1>11

\* (See Founded.)
LEMMA BeginFound == TypeInv /\ FoundInv /\ BeginUpkeep => FoundInv'
<1> SUFFICES ASSUME TypeInv, FoundInv, BeginUpkeep, orderly' PROVE (Placed /\ TrainedFirst /\ CentroidsSaved /\ (Busy => Quiet))'
  BY DEF FoundInv
<1>1. PICK call \in UpkeepCalls :
        /\ upkeep' = [call |-> call, todo |-> FirstWrites(call),
                      stage |-> IF call.op = "save" THEN "centroids" ELSE "done"]
        /\ orderly' = (orderly /\ Quiet /\ Proper(call))
  BY DEF BeginUpkeep
<1>2. upkeep'.call = call /\ (call.op = "save" => upkeep'.stage = "centroids")
  BY <1>1
<1>3. UNCHANGED <<centroids, partitions, trained, thread, db>>
  BY DEF BeginUpkeep, index
<1>4. orderly /\ Quiet
  BY <1>1
<1>5. Placed /\ TrainedFirst /\ CentroidsSaved /\ upkeep.call = NoCall
  BY <1>4 DEF FoundInv, BeginUpkeep, Busy
<1>6. Placed' /\ TrainedFirst' /\ Quiet'
  BY <1>3, <1>4, <1>5 DEF Placed, TrainedFirst, Quiet, At, Current, Entries
<1>7. CentroidsSaved'
  BY <1>2, <1>3, <1>5 DEF CentroidsSaved, NoCall
<1>8. QED
  BY <1>6, <1>7

\* (See Founded.)
LEMMA CopyFound == TypeInv /\ FoundInv /\ (CopyCentroids \/ CopyVectors) => FoundInv'
<1> SUFFICES ASSUME TypeInv, FoundInv, CopyCentroids \/ CopyVectors, orderly'
             PROVE  (Placed /\ TrainedFirst /\ CentroidsSaved /\ (Busy => Quiet))'
  BY DEF FoundInv
<1>1. /\ UNCHANGED <<centroids, partitions, trained, thread, db, orderly>>
      /\ DOMAIN upkeep = {"call", "stage", "todo"} /\ upkeep.call.op = "save"
  BY DEF CopyCentroids, CopyVectors, index, history, TypeInv, UpkeepTypes
<1>2. Placed /\ TrainedFirst /\ CentroidsSaved /\ (Busy => Quiet)
  BY <1>1 DEF FoundInv
<1>3. upkeep'.call = upkeep.call
  BY <1>1 DEF CopyCentroids, CopyVectors
<1>4. Placed' /\ TrainedFirst' /\ (Busy => Quiet)'
  BY <1>1, <1>2, <1>3 DEF Placed, TrainedFirst, Busy, Quiet, At, Current, Entries
<1>5. centroids \in [1..Partitions -> Centroid]
  BY <1>2 DEF Placed
<1>6. CASE CopyCentroids
  <2>1. upkeep'.todo = CentroidPuts /\ upkeep'.stage = "vectors"
    BY <1>1, <1>6 DEF CopyCentroids
  <2>2. \A w : w \in Todo' <=> \E p \in 1..Partitions : w = Put("centroid", p, centroids[p])
    BY <1>5, <2>1, CentroidPutsAre DEF TypeInv, Todo
  <2>3. \A p \in 1..Partitions, c \in Centroid : Put("centroid", p, c) \in Todo' => centroids[p] = c
    BY <2>2, PutsDiffer
  <2>4. CentroidsSaved'
    BY <1>1, <1>3, <2>1, <2>2, <2>3 DEF CentroidsSaved
  <2>5. QED
    BY <1>4, <2>4
<1>7. CASE CopyVectors
  <2>1. upkeep'.todo = VectorPuts /\ upkeep'.stage = "done"
    BY <1>1, <1>7 DEF CopyVectors
  <2>2. upkeep.stage = "vectors" /\ Todo = {}
    BY <1>7, TodoIs DEF CopyVectors
  <2>3. \A p \in 1..Partitions : p \in DOMAIN db["centroid"] /\ db["centroid"][p] = centroids[p]
    BY <1>1, <1>2, <2>2 DEF CentroidsSaved
  <2>4. DOMAIN db["centroid"] \subseteq 1..Partitions /\ db["centroid"] = [p \in DOMAIN db["centroid"] |-> db["centroid"][p]]
    BY DEF TypeInv, DbTypes, MapsTo
  <2>5. DOMAIN db["centroid"] = 1..Partitions
    BY <2>3, <2>4
  <2>6. db["centroid"] = centroids
    BY <1>5, <2>3, <2>4, <2>5
  <2>7. CentroidsSaved'
    BY <1>1, <1>3, <2>1, <2>6 DEF CentroidsSaved
  <2>8. QED
    BY <1>4, <2>7
<1>8. QED
  BY <1>6, <1>7

\* (See Founded.)
LEMMA EndFound == TypeInv /\ FoundInv /\ EndUpkeep => FoundInv'
<1> SUFFICES ASSUME TypeInv, FoundInv, EndUpkeep, orderly' PROVE (Placed /\ TrainedFirst /\ CentroidsSaved /\ (Busy => Quiet))'
  BY DEF FoundInv
<1>1. UNCHANGED <<centroids, partitions, trained, thread, db, orderly>> /\ upkeep'.call = NoCall /\ upkeep.stage = "done"
  BY DEF EndUpkeep, index, NoUpkeep
<1>2. Placed /\ TrainedFirst /\ CentroidsSaved
  BY <1>1 DEF FoundInv
<1>3. Placed' /\ TrainedFirst' /\ ~Busy'
  BY <1>1, <1>2 DEF Placed, TrainedFirst, Busy, At, Current, Entries
<1>4. upkeep.call.op = "save" => DOMAIN db["centroid"] = 1..Partitions
  BY <1>1, <1>2 DEF CentroidsSaved, Placed
<1>5. CentroidsSaved'
  BY <1>1, <1>2, <1>4 DEF CentroidsSaved, NoCall
<1>6. QED
  BY <1>3, <1>5

\* (See Founded.)
LEMMA RestartFound == TypeInv /\ FoundInv /\ Restart => FoundInv'
<1> SUFFICES ASSUME TypeInv, FoundInv, Restart, orderly' PROVE (Placed /\ TrainedFirst /\ CentroidsSaved /\ (Busy => Quiet))'
  BY DEF FoundInv
<1>1. orderly /\ upkeep.call = NoCall /\ upkeep'.call = NoCall /\ db' = db
  BY DEF Restart, Busy, NoUpkeep
<1>2. CentroidsSaved
  BY <1>1 DEF FoundInv
<1>3. CentroidsSaved' /\ ~Busy'
  BY <1>1, <1>2 DEF CentroidsSaved, Busy, NoCall
<1>4. \A t \in Thread : thread'[t] = Resting
  BY DEF Restart
<1>5. \A t \in Thread : ~At(t, "push")' /\ thread'[t].call.op = "none"
  BY <1>4 DEF Resting, NoCall, At
<1>6. TrainedFirst'
  BY <1>5 DEF TrainedFirst
<1>7. CASE db["config"] = <<>>
  <2>1. centroids' = [p \in 1..Partitions |-> Zero] /\ partitions' = Empty
    BY <1>7 DEF Restart
  <2>2. Range(<<>>) = {}
    BY DEF Range
  <2>3. \A p \in 1..Partitions : Range(partitions'[p]) = {}
    BY <2>1, <2>2 DEF Empty
  <2>4. centroids' \in [1..Partitions -> Centroid]
    BY <2>1, IndexAssumption
  <2>5. Placed'
    BY <1>5, <2>3, <2>4 DEF Placed
  <2>6. QED
    BY <1>3, <1>6, <2>5
<1>8. CASE db["config"] # <<>>
  <2>1. centroids' = RestoredCentroids /\ partitions' = Reloaded
    BY <1>8 DEF Restart, Reloaded
  <2>2. centroids' \in [1..Partitions -> Centroid]
    BY <1>1, <1>2, <1>8, <2>1, RestoredCentroidsAre DEF CentroidsSaved, NoCall, TypeInv, DbTypes
  <2>3. ASSUME NEW p \in 1..Partitions, NEW e \in Range(partitions'[p])
        PROVE  p = Nearest(e.vec, centroids')
    <3>1. Range(Reloaded[p]) =
            {RestoredEntry(k) : k \in {l \in DOMAIN db["vector"] : Nearest(db["vector"][l], RestoredCentroids) = p}}
      BY RestoredPartitionsAre DEF TypeInv, DbTypes
    <3>2. PICK k \in DOMAIN db["vector"] : Nearest(db["vector"][k], RestoredCentroids) = p /\ e = RestoredEntry(k)
      BY <2>1, <2>3, <3>1
    <3>3. e.vec = db["vector"][k]
      BY <3>2 DEF RestoredEntry
    <3>4. QED
      BY <2>1, <3>2, <3>3
  <2>4. Placed'
    BY <1>5, <2>2, <2>3 DEF Placed
  <2>5. QED
    BY <1>3, <1>6, <2>4
<1>9. QED
  BY <1>7, <1>8

\* (See Founded.)
LEMMA NextFound == TypeInv /\ FoundInv /\ [Next]_vars => FoundInv'
<1>1. FoundInv /\ UNCHANGED vars => FoundInv'
  BY DEF FoundInv, Placed, TrainedFirst, CentroidsSaved, Busy, Quiet, At, Current, Entries, Todo, vars, index, history
<1>2. QED
  BY <1>1, ServeFound, BeginFound, WriteFound, CopyFound, EndFound, RestartFound DEF Next

\* In orderly use every vector is in the partition of its nearest centroid, on
\* its way there too, and the path has the centroids before it has a vector.
THEOREM Founded == Spec => []FoundInv
BY InitFound, NextFound, Typed, PTL DEF Spec

\* A search for a vector the index holds looks where it is.
THEOREM HeldIsFound == Spec => []SelfFound
<1>1. TypeInv /\ FoundInv => SelfFound
  <2> SUFFICES ASSUME TypeInv, FoundInv, orderly, NEW p \in DOMAIN partitions, NEW e \in Range(partitions[p])
               PROVE  p \in Probed(e.vec)
    BY DEF SelfFound
  <2>1. partitions \in [1..Partitions -> Seq(Fitting)] /\ centroids \in Seq(Centroid) /\ Partitions \in Nat \ {0}
    BY IndexAssumption DEF TypeInv, IndexTypes
  <2>2. p \in 1..Partitions /\ partitions[p] \in Seq(Fitting)
    BY <2>1
  <2>3. p = Nearest(e.vec, centroids) /\ centroids \in [1..Partitions -> Centroid]
    BY <2>2 DEF FoundInv, Placed
  <2>4. e.vec \in Vec
    BY <2>2, RangeWithin, IndexAssumption DEF Fitting
  <2>5. centroids # <<>>
    <3>1. 1 \in DOMAIN centroids
      BY <2>1, <2>3
    <3>2. 1 \notin DOMAIN <<>>
      OBVIOUS
    <3>3. QED
      BY <3>1, <3>2
  <2>6. QED
    BY <2>1, <2>3, <2>4, <2>5, NearestProbed
<1>2. QED
  BY <1>1, Typed, Founded, PTL

(***************************************************************************)
(* What was saved.                                                          *)
(***************************************************************************)
\* (See SavedKept.)
LEMMA InitKept == PersistInit => KeptInv
<1> SUFFICES ASSUME PersistInit PROVE KeptInv
  OBVIOUS
<1>1. kept = {} /\ covered = {}
  BY DEF PersistInit
<1>2. QED
  BY <1>1 DEF KeptInv

\* What the path has of a vector stays unless the write that is done is of its id.
LEMMA PathStays ==
  ASSUME TypeInv, WriteOne, NEW e, OnPath(e),
         upkeep.call.op = "erase" => e.id # upkeep.call.id,
         \A p \in 1..Partitions, id \in Id, vec \in Fits :
           Put("vector", <<p, id>>, vec) \in Todo /\ e.id = id => e.vec = vec
  PROVE  OnPath(e)'
<1> DEFINE w == Head(upkeep.todo)
<1>1. w \in Todo
  BY WriteFrame
<1>2. db["config"] # <<>>
  BY DEF OnPath
<1>3. PICK p \in 1..Partitions : <<p, e.id>> \in DOMAIN db["vector"] /\ db["vector"][<<p, e.id>>] = e.vec
  BY DEF OnPath
<1>4. /\ upkeep.todo # <<>> /\ upkeep.stage \in {"centroids", "vectors", "done"}
  BY DEF WriteOne, TypeInv, UpkeepTypes
<1>5. \/ IsConfigPut(w) \/ IsCentroidPut(w) \/ IsVectorPut(w) \/ IsMetaPut(w)
      \/ upkeep.call.op = "erase" /\ \/ \E q : w = Drop("vector", <<q, upkeep.call.id>>)
                                     \/ w = Drop("meta", upkeep.call.id)
  BY <1>4, WritesAre
<1> HIDE DEF w
<1>6. ASSUME db'["config"] # <<>>, <<p, e.id>> \in DOMAIN db'["vector"], db'["vector"][<<p, e.id>>] = e.vec
      PROVE  OnPath(e)'
  BY <1>6 DEF OnPath
<1>7. CASE IsConfigPut(w)
  BY <1>3, <1>6, <1>7, ConfigWritten DEF w
<1>8. CASE IsCentroidPut(w)
  <2>1. UNCHANGED <<db["config"], db["vector"]>>
    BY <1>8, CentroidWritten DEF IsCentroidPut, w
  <2>2. QED
    BY <1>2, <1>3, <1>6, <2>1
<1>9. CASE IsVectorPut(w)
  <2>1. PICK q \in 1..Partitions, id \in Id, vec \in Fits : w = Put("vector", <<q, id>>, vec)
    BY <1>9 DEF IsVectorPut
  <2>2. /\ DOMAIN db'["vector"] = DOMAIN db["vector"] \cup {<<q, id>>}
        /\ db'["vector"][<<q, id>>] = vec
        /\ \A k \in DOMAIN db["vector"] : k # <<q, id>> => db'["vector"][k] = db["vector"][k]
        /\ UNCHANGED db["config"]
    BY <2>1, VectorWritten DEF w
  <2>3. <<p, e.id>> = <<q, id>> => e.vec = vec
    BY <1>1, <2>1
  <2>4. QED
    BY <1>2, <1>3, <1>6, <2>2, <2>3
<1>10. CASE IsMetaPut(w)
  <2>1. UNCHANGED <<db["config"], db["vector"]>>
    BY <1>10, MetaWritten DEF IsMetaPut, w
  <2>2. QED
    BY <1>2, <1>3, <1>6, <2>1
<1>11. ASSUME upkeep.call.op = "erase", NEW q, w = Drop("vector", <<q, upkeep.call.id>>) PROVE OnPath(e)'
  <2>1. <<p, e.id>> # <<q, upkeep.call.id>>
    BY <1>11
  <2>2. /\ DOMAIN db'["vector"] = DOMAIN db["vector"] \ {<<q, upkeep.call.id>>}
        /\ \A k \in DOMAIN db'["vector"] : db'["vector"][k] = db["vector"][k]
        /\ UNCHANGED db["config"]
    BY <1>11, VectorDropped DEF w
  <2>3. QED
    BY <1>2, <1>3, <1>6, <2>1, <2>2
<1>12. CASE w = Drop("meta", upkeep.call.id)
  <2>1. UNCHANGED <<db["config"], db["vector"]>>
    BY <1>12, MetaDropped DEF w
  <2>2. QED
    BY <1>2, <1>3, <1>6, <2>1
<1>13. QED
  BY <1>5, <1>7, <1>8, <1>9, <1>10, <1>11, <1>12

\* The contents are what the entries say.
LEMMA ContentsAre == \A e : e \in Contents <=> \E f \in Entries : e = [id |-> f.id, vec |-> f.vec]
BY DEF Contents

\* (See SavedKept.)
LEMMA ServeKept == TypeInv /\ KeptInv /\ ServeBesideUpkeep => KeptInv'
<1> SUFFICES ASSUME TypeInv, KeptInv, ServeBesideUpkeep PROVE KeptInv'
  OBVIOUS
<1>1. /\ UNCHANGED <<db, upkeep>>
      /\ covered' = {e \in covered : ~Overtaken(e)'}
      /\ kept' = {e \in kept : ~Overtaken(e)'}
  BY DEF ServeBesideUpkeep
<1>2. IndexTypes /\ ThreadTypes /\ IndexTypes'
  BY ServeTypes DEF TypeInv
<1>3. PICK t \in Thread : Step(t)
  BY DEF ServeBesideUpkeep, Serve
<1>4. ASSUME NEW e \in Contents, ~Overtaken(e) PROVE e \in Contents'
  <2>1. PICK f \in Entries : e = [id |-> f.id, vec |-> f.vec]
    BY <1>4, ContentsAre
  <2>2. PICK p \in 1..Partitions : f \in Range(partitions[p])
    BY <1>2, EntriesAre
  <2>3. f \in Range(partitions'[p])
    <3>1. CASE Push(t)
      BY <1>2, <2>2, <3>1, PushDoes
    <3>2. CASE Delete(t)
      <4>1. thread[t].call.op = "delete"
        BY <1>2, <3>2, StepIsOf DEF Delete
      <4>2. thread[t].call.id \in Doomed
        BY <4>1 DEF Doomed
      <4>3. e.id \notin Doomed /\ e.id = f.id
        BY <1>4, <2>1 DEF Overtaken
      <4>4. f.id # thread[t].call.id
        BY <4>2, <4>3
      <4>5. QED
        BY <1>2, <2>2, <3>2, <4>4, DeleteDoes
    <3>3. CASE Call(t) \/ RejectVector(t) \/ Place(t) \/ Train(t)
      <4>1. partitions' = partitions
        BY <3>3 DEF Call, RejectVector, Place, Train, index
      <4>2. QED
        BY <2>2, <4>1
    <3>4. QED
      BY <1>3, <3>1, <3>2, <3>3 DEF Step
  <2>4. f \in Entries'
    BY <1>2, <2>3 DEF IndexTypes, Entries
  <2>5. QED
    BY <2>1, <2>4 DEF Contents
<1>5. Todo' = Todo /\ (\A e : (OnPath(e)' <=> OnPath(e)) /\ (ToPath(e)' <=> ToPath(e))) /\ (ConfigOnWay' <=> ConfigOnWay)
  BY <1>1 DEF Todo, OnPath, ToPath, ConfigOnWay
<1>6. ASSUME NEW e \in kept' PROVE e \in Contents' /\ ~Overtaken(e)' /\ OnPath(e)'
  BY <1>1, <1>4, <1>5 DEF KeptInv
<1>7. ASSUME NEW e \in covered'
      PROVE  /\ upkeep'.call.op = "save"
             /\ e \in Contents' /\ ~Overtaken(e)'
             /\ upkeep'.stage = "centroids" => ConfigOnWay'
             /\ upkeep'.stage # "centroids" => db'["config"] # <<>>
             /\ upkeep'.stage = "done" => OnPath(e)' \/ ToPath(e)'
  BY <1>1, <1>4, <1>5 DEF KeptInv
<1>8. \A p \in 1..Partitions, id \in Id, vec \in Fits :
        Put("vector", <<p, id>>, vec) \in Todo' => \A e \in kept' \cup covered' : e.id = id => e.vec = vec
  BY <1>1, <1>5 DEF KeptInv
<1>9. QED
  BY <1>6, <1>7, <1>8 DEF KeptInv

\* (See SavedKept.)
LEMMA BeginKept == TypeInv /\ KeptInv /\ BeginUpkeep => KeptInv'
<1> SUFFICES ASSUME TypeInv, KeptInv, BeginUpkeep PROVE KeptInv'
  OBVIOUS
<1>1. PICK call \in UpkeepCalls :
        /\ upkeep' = [call |-> call, todo |-> FirstWrites(call),
                      stage |-> IF call.op = "save" THEN "centroids" ELSE "done"]
        /\ covered' = IF call.op = "save" THEN {e \in Contents : ~Overtaken(e)} ELSE {}
  BY DEF BeginUpkeep
<1>2. UNCHANGED <<partitions, thread, db>> /\ kept' = {e \in kept : ~Overtaken(e)'} /\ upkeep.call = NoCall
  BY DEF BeginUpkeep, index, Busy
<1>3. /\ upkeep'.call = call /\ upkeep'.todo = FirstWrites(call)
      /\ upkeep'.stage = IF call.op = "save" THEN "centroids" ELSE "done"
  BY <1>1
<1>4. call.op \in {"save", "persist", "erase"} /\ (call.op = "persist" => call.partition \in 1..Partitions /\ call.entry \in Fitting)
  BY UpkeepCallsAre
<1>5. Entries' = Entries /\ Contents' = Contents /\ \A e : OnPath(e)' <=> OnPath(e)
  BY <1>2 DEF Entries, Contents, OnPath
<1>6. ASSUME NEW e \in kept' PROVE e \in Contents' /\ ~Overtaken(e)' /\ OnPath(e)'
  BY <1>2, <1>5 DEF KeptInv
<1>7. CASE call.op = "save"
  <2>1. upkeep'.todo = <<Put("config", 1, trained)>>
    BY <1>3, <1>7 DEF FirstWrites
  <2>2. Todo' = {Put("config", 1, trained)}
    <3>1. DOMAIN <<Put("config", 1, trained)>> = {1} /\ <<Put("config", 1, trained)>>[1] = Put("config", 1, trained)
      OBVIOUS
    <3>2. QED
      BY <2>1, <3>1, InRange DEF Todo
  <2>3. trained \in BOOLEAN
    BY DEF TypeInv, IndexTypes
  <2>4. ConfigOnWay'
    BY <2>2, <2>3 DEF ConfigOnWay
  <2>5. Doomed' = Doomed /\ Offered' = Offered
    BY <1>2, <1>3, <1>7 DEF Doomed, Offered, NoCall
  <2>6. \A e : Overtaken(e)' <=> Overtaken(e)
    BY <1>5, <2>5 DEF Overtaken
  <2>7. \A e \in covered' : e \in Contents' /\ ~Overtaken(e)'
    BY <1>1, <1>5, <1>7, <2>6
  <2>8. \A p, id, vec : Put("vector", <<p, id>>, vec) \notin Todo'
    BY <2>2, PutsDiffer
  <2>9. upkeep'.call.op = "save" /\ upkeep'.stage = "centroids"
    BY <1>3, <1>7
  <2>10. QED
    BY <1>6, <2>4, <2>7, <2>8, <2>9 DEF KeptInv
<1>8. CASE call.op = "persist"
  <2> DEFINE p == call.partition
             f == call.entry
  <2>1. upkeep'.todo = EntryPuts(p, f) /\ covered' = {}
    BY <1>1, <1>3, <1>8 DEF FirstWrites
  <2>2. \A w : w \in Todo' <=> w = Put("vector", <<p, f.id>>, f.vec) \/ w = Put("meta", f.id, [partition |-> p, level |-> f.level])
    BY <1>4, <1>8, <2>1, EntryPutsAre DEF Todo
  <2>3. f \in Offered'
    BY <1>3, <1>8 DEF Offered
  <2> HIDE DEF p, f
  <2>4. ASSUME NEW q \in 1..Partitions, NEW id \in Id, NEW vec \in Fits, Put("vector", <<q, id>>, vec) \in Todo'
        PROVE  \A e \in kept' : e.id = id => e.vec = vec
    <3>1. Put("vector", <<q, id>>, vec) = Put("vector", <<p, f.id>>, f.vec)
      BY <2>2, <2>4, PutsDiffer
    <3>2. id = f.id /\ vec = f.vec
      BY <3>1, PutsDiffer
    <3>3. QED
      BY <1>6, <2>3, <3>2 DEF Overtaken
  <2>5. QED
    BY <1>6, <2>1, <2>4 DEF KeptInv
<1>9. CASE call.op = "erase"
  <2>1. upkeep'.todo = Erasure(call.id) /\ covered' = {}
    BY <1>1, <1>3, <1>9 DEF FirstWrites
  <2>2. \A w \in Todo' : \E f, key : w = Drop(f, key)
    <3>1. CASE call.id \in DOMAIN db["meta"]
      <4> DEFINE v == Drop("vector", <<db["meta"][call.id].partition, call.id>>)
                 m == Drop("meta", call.id)
      <4>1. upkeep'.todo = <<v, m>>
        BY <2>1, <3>1 DEF Erasure
      <4>2. DOMAIN <<v, m>> = {1, 2} /\ <<v, m>>[1] = v /\ <<v, m>>[2] = m
        OBVIOUS
      <4>3. \A w \in Todo' : w = v \/ w = m
        <5> HIDE DEF v, m
        <5>1. QED
          BY <4>1, <4>2, InRange DEF Todo
      <4>4. QED
        BY <4>3
    <3>2. CASE call.id \notin DOMAIN db["meta"]
      <4>1. upkeep'.todo = <<>>
        BY <2>1, <3>2 DEF Erasure
      <4>2. QED
        BY <4>1, InRange DEF Todo
    <3>3. QED
      BY <3>1, <3>2
  <2>3. \A p, id, vec : Put("vector", <<p, id>>, vec) \notin Todo'
    BY <2>2, PutsDiffer
  <2>4. QED
    BY <1>6, <2>1, <2>3 DEF KeptInv
<1>10. QED
  BY <1>4, <1>7, <1>8, <1>9

\* (See SavedKept.)
LEMMA WriteKept == TypeInv /\ KeptInv /\ WriteOne => KeptInv'
<1> SUFFICES ASSUME TypeInv, KeptInv, WriteOne PROVE KeptInv'
  OBVIOUS
<1> DEFINE w == Head(upkeep.todo)
<1>1. /\ Todo = {w} \cup Todo'
      /\ upkeep'.call = upkeep.call /\ upkeep'.stage = upkeep.stage
      /\ UNCHANGED <<centroids, partitions, trained, thread, made, begun, covered, kept, orderly>>
  BY WriteFrame
<1>2. Entries' = Entries /\ Contents' = Contents
  BY <1>1 DEF Entries, Contents
<1>3. Doomed' = Doomed /\ Offered' = Offered
  BY <1>1 DEF Doomed, Offered
<1>4. \A e : Overtaken(e)' <=> Overtaken(e)
  BY <1>2, <1>3 DEF Overtaken
<1>5. \A p \in 1..Partitions, id \in Id, vec \in Fits :
        Put("vector", <<p, id>>, vec) \in Todo' => \A e \in kept' \cup covered' : e.id = id => e.vec = vec
  BY <1>1 DEF KeptInv
<1>6. ASSUME NEW e \in kept \cup covered, OnPath(e) PROVE OnPath(e)'
  <2>1. ~Overtaken(e)
    BY <1>6 DEF KeptInv
  <2>2. upkeep.call.op = "erase" => e.id # upkeep.call.id
    BY <2>1 DEF Overtaken, Doomed
  <2>3. \A p \in 1..Partitions, id \in Id, vec \in Fits :
          Put("vector", <<p, id>>, vec) \in Todo /\ e.id = id => e.vec = vec
    BY <1>6 DEF KeptInv
  <2>4. QED
    BY <1>6, <2>2, <2>3, PathStays
<1>7. ASSUME NEW e \in kept' PROVE e \in Contents' /\ ~Overtaken(e)' /\ OnPath(e)'
  BY <1>1, <1>2, <1>4, <1>6 DEF KeptInv
<1>8. ASSUME NEW e \in covered'
      PROVE  /\ upkeep'.call.op = "save"
             /\ e \in Contents' /\ ~Overtaken(e)'
             /\ upkeep'.stage = "centroids" => ConfigOnWay'
             /\ upkeep'.stage # "centroids" => db'["config"] # <<>>
             /\ upkeep'.stage = "done" => OnPath(e)' \/ ToPath(e)'
  <2>1. /\ e \in covered /\ upkeep.call.op = "save" /\ e \in Contents /\ ~Overtaken(e)
        /\ upkeep.stage # "centroids" => db["config"] # <<>>
        /\ upkeep.stage = "done" => OnPath(e) \/ ToPath(e)
    BY <1>1 DEF KeptInv
  <2>2. /\ upkeep.stage \in {"centroids", "vectors", "done"} /\ upkeep.todo # <<>>
    BY DEF TypeInv, UpkeepTypes, WriteOne
  <2>3. /\ upkeep.stage = "centroids" => IsConfigPut(w)
        /\ upkeep.stage = "vectors" => IsCentroidPut(w)
        /\ upkeep.stage = "done" => IsVectorPut(w) \/ IsMetaPut(w)
    BY <2>1, <2>2, WritesAre
  <2> HIDE DEF w
  <2>4. CASE upkeep.stage = "centroids"
    <3>1. db'["config"] # <<>>
      BY <2>3, <2>4, ConfigWritten DEF w
    <3>2. QED
      BY <1>1, <1>2, <1>4, <2>1, <2>4, <3>1 DEF ConfigOnWay
  <2>5. CASE upkeep.stage = "vectors"
    <3>1. db'["config"] = db["config"]
      BY <2>3, <2>5, CentroidWritten DEF IsCentroidPut, w
    <3>2. QED
      BY <1>1, <1>2, <1>4, <2>1, <2>5, <3>1
  <2>6. CASE upkeep.stage = "done"
    <3>1. db'["config"] = db["config"]
      <4>1. CASE IsVectorPut(w)
        BY <4>1, VectorWritten DEF IsVectorPut, w
      <4>2. CASE IsMetaPut(w)
        BY <4>2, MetaWritten DEF IsMetaPut, w
      <4>3. QED
        BY <2>3, <2>6, <4>1, <4>2
    <3>2. ASSUME ToPath(e) PROVE OnPath(e)' \/ ToPath(e)'
      <4>1. PICK p \in 1..Partitions : Put("vector", <<p, e.id>>, e.vec) \in Todo
        BY <3>2 DEF ToPath
      <4>2. CASE Put("vector", <<p, e.id>>, e.vec) = w
        <5>1. e.id \in Id /\ e.vec \in Fits
          <6>1. IsVectorPut(w)
            <7>1. IsMetaPut(w) => w.family = "meta"
              BY DEF IsMetaPut, Put
            <7>2. w.family = "vector"
              BY <4>2 DEF Put
            <7>3. QED
              BY <2>3, <2>6, <7>1, <7>2
          <6>2. PICK q \in 1..Partitions, id \in Id, vec \in Fits : w = Put("vector", <<q, id>>, vec)
            BY <6>1 DEF IsVectorPut
          <6>3. <<p, e.id>> = <<q, id>> /\ e.vec = vec
            BY <4>2, <6>2, PutsDiffer
          <6>4. QED
            BY <6>3
        <5>2. <<p, e.id>> \in DOMAIN db'["vector"] /\ db'["vector"][<<p, e.id>>] = e.vec
          BY <4>2, <5>1, VectorWritten DEF w
        <5>3. QED
          BY <2>1, <2>6, <3>1, <5>2 DEF OnPath
      <4>3. CASE Put("vector", <<p, e.id>>, e.vec) # w
        BY <1>1, <4>1, <4>3 DEF ToPath
      <4>4. QED
        BY <4>2, <4>3
    <3>3. OnPath(e)' \/ ToPath(e)'
      BY <1>6, <2>1, <2>6, <3>2
    <3>4. QED
      BY <1>1, <1>2, <1>4, <2>1, <2>6, <3>1, <3>3
  <2>7. QED
    BY <2>2, <2>4, <2>5, <2>6
<1>9. QED
  BY <1>5, <1>7, <1>8 DEF KeptInv

\* (See SavedKept.)
LEMMA CopyKept == TypeInv /\ KeptInv /\ (CopyCentroids \/ CopyVectors) => KeptInv'
<1> SUFFICES ASSUME TypeInv, KeptInv, CopyCentroids \/ CopyVectors PROVE KeptInv'
  OBVIOUS
<1>1. /\ UNCHANGED <<partitions, thread, db, covered, kept>>
      /\ DOMAIN upkeep = {"call", "stage", "todo"} /\ upkeep.call.op = "save"
  BY DEF CopyCentroids, CopyVectors, index, history, TypeInv, UpkeepTypes
<1>2. upkeep'.call = upkeep.call
  BY <1>1 DEF CopyCentroids, CopyVectors
<1>3. Entries' = Entries /\ Contents' = Contents /\ Doomed' = Doomed /\ Offered' = Offered
  BY <1>1, <1>2 DEF Entries, Contents, Doomed, Offered
<1>4. \A e : (Overtaken(e)' <=> Overtaken(e)) /\ (OnPath(e)' <=> OnPath(e))
  BY <1>1, <1>3 DEF Overtaken, OnPath
<1>5. ASSUME NEW e \in kept' PROVE e \in Contents' /\ ~Overtaken(e)' /\ OnPath(e)'
  BY <1>1, <1>3, <1>4 DEF KeptInv
<1>6. ASSUME NEW e \in covered' PROVE upkeep'.call.op = "save" /\ e \in Contents' /\ ~Overtaken(e)'
  BY <1>1, <1>2, <1>3, <1>4 DEF KeptInv
<1>7. CASE CopyCentroids
  <2>1. upkeep'.todo = CentroidPuts /\ upkeep'.stage = "vectors" /\ upkeep.stage = "centroids"
    BY <1>1, <1>7 DEF CopyCentroids
  <2>2. Todo = {}
    BY <1>7, TodoIs DEF CopyCentroids
  <2>3. \A e \in covered' : db'["config"] # <<>>
    BY <1>1, <2>1, <2>2 DEF KeptInv, ConfigOnWay
  <2>4. \A w : w \in Todo' <=> \E p \in DOMAIN centroids : w = Put("centroid", p, centroids[p])
    BY <2>1, CentroidPutsAre DEF TypeInv, Todo
  <2>5. \A p, id, vec : Put("vector", <<p, id>>, vec) \notin Todo'
    BY <2>4, PutsDiffer
  <2>6. QED
    BY <1>5, <1>6, <2>1, <2>3, <2>5 DEF KeptInv
<1>8. CASE CopyVectors
  <2>1. upkeep'.todo = VectorPuts /\ upkeep'.stage = "done" /\ upkeep.stage = "vectors"
    BY <1>1, <1>8 DEF CopyVectors
  <2>2. \A e \in covered' : db'["config"] # <<>>
    BY <1>1, <2>1 DEF KeptInv
  <2>3. \A w : w \in Todo' <=> \E p \in 1..Partitions : \E f \in Range(partitions[p]) : w \in Range(EntryPuts(p, f))
    BY <2>1, VectorPutsAre DEF TypeInv, Todo
  <2>4. ASSUME NEW p \in 1..Partitions, NEW f \in Range(partitions[p])
        PROVE  \A w : w \in Range(EntryPuts(p, f)) <=>
                 w = Put("vector", <<p, f.id>>, f.vec) \/ w = Put("meta", f.id, [partition |-> p, level |-> f.level])
    <3>1. f \in Fitting
      BY RangeWithin DEF TypeInv, IndexTypes
    <3>2. QED
      BY <3>1, EntryPutsAre
  <2>5. ASSUME NEW e \in covered' PROVE ToPath(e)'
    <3>1. PICK f \in Entries : e = [id |-> f.id, vec |-> f.vec]
      BY <1>3, <1>6, <2>5, ContentsAre
    <3>2. PICK p \in 1..Partitions : f \in Range(partitions[p])
      BY <3>1, EntriesAre DEF TypeInv
    <3>3. Put("vector", <<p, f.id>>, f.vec) \in Todo'
      BY <2>3, <2>4, <3>2
    <3>4. e.id = f.id /\ e.vec = f.vec
      BY <3>1
    <3>5. QED
      BY <3>3, <3>4 DEF ToPath
  <2>6. ASSUME NEW q \in 1..Partitions, NEW id \in Id, NEW vec \in Fits,
               Put("vector", <<q, id>>, vec) \in Todo', NEW e \in kept' \cup covered', e.id = id
        PROVE  e.vec = vec
    <3>1. PICK p \in 1..Partitions : \E f \in Range(partitions[p]) : Put("vector", <<q, id>>, vec) \in Range(EntryPuts(p, f))
      BY <2>3, <2>6
    <3>2. PICK f \in Range(partitions[p]) : Put("vector", <<q, id>>, vec) \in Range(EntryPuts(p, f))
      BY <3>1
    <3>3. Put("vector", <<q, id>>, vec) = Put("vector", <<p, f.id>>, f.vec)
      <4>1. \/ Put("vector", <<q, id>>, vec) = Put("vector", <<p, f.id>>, f.vec)
            \/ Put("vector", <<q, id>>, vec) = Put("meta", f.id, [partition |-> p, level |-> f.level])
        BY <2>4, <3>2
      <4>2. QED
        BY <4>1, PutsDiffer
    <3>4. id = f.id /\ vec = f.vec
      BY <3>3, PutsDiffer
    <3>5. f \in Entries /\ ~Overtaken(e)
      BY <1>4, <1>5, <1>6, <2>6, EntriesAre DEF TypeInv
    <3>6. QED
      BY <2>6, <3>4, <3>5 DEF Overtaken
  <2>7. QED
    BY <1>5, <1>6, <2>1, <2>2, <2>5, <2>6 DEF KeptInv
<1>9. QED
  BY <1>7, <1>8

\* (See SavedKept.)
LEMMA EndKept == TypeInv /\ KeptInv /\ EndUpkeep => KeptInv'
<1> SUFFICES ASSUME TypeInv, KeptInv, EndUpkeep PROVE KeptInv'
  OBVIOUS
<1>1. /\ UNCHANGED <<partitions, thread, db>>
      /\ kept' = kept \cup covered /\ covered' = {}
      /\ upkeep' = NoUpkeep /\ upkeep.todo = <<>> /\ upkeep.stage = "done"
  BY DEF EndUpkeep, index
<1>2. Todo = {} /\ Todo' = {}
  <2>1. upkeep'.todo = <<>>
    BY <1>1 DEF NoUpkeep
  <2>2. Todo' = {}
    BY <2>1, InRange DEF Todo
  <2>3. QED
    BY <1>1, <2>2, TodoIs
<1>3. Entries' = Entries /\ Contents' = Contents
  BY <1>1 DEF Entries, Contents
<1>4. upkeep'.call = NoCall
  BY <1>1 DEF NoUpkeep
<1>5. Doomed' \subseteq Doomed /\ Offered' \subseteq Offered
  BY <1>1, <1>4 DEF Doomed, Offered, NoCall
<1>6. \A e : ~Overtaken(e) => ~Overtaken(e)'
  BY <1>3, <1>5 DEF Overtaken
<1>7. \A e : OnPath(e)' <=> OnPath(e)
  BY <1>1 DEF OnPath
<1>8. \A e \in covered : OnPath(e)
  BY <1>1, <1>2 DEF KeptInv, ToPath
<1>9. \A e \in kept' : e \in Contents' /\ ~Overtaken(e)' /\ OnPath(e)'
  BY <1>1, <1>3, <1>6, <1>7, <1>8 DEF KeptInv
<1>10. QED
  BY <1>1, <1>2, <1>9 DEF KeptInv

\* (See SavedKept.)
LEMMA RestartKept == TypeInv /\ KeptInv /\ Restart => KeptInv'
<1> SUFFICES ASSUME TypeInv, KeptInv, Restart PROVE KeptInv'
  OBVIOUS
<1>1. /\ kept' = {e \in kept : ~Overtaken(e)'} /\ covered' = {}
      /\ upkeep' = NoUpkeep /\ UNCHANGED db
  BY DEF Restart
<1>2. Todo' = {}
  <2>1. upkeep'.todo = <<>>
    BY <1>1 DEF NoUpkeep
  <2>2. QED
    BY <2>1, InRange DEF Todo
<1>3. IndexTypes'
  BY RestartTypes DEF TypeInv
<1>4. ASSUME NEW e \in kept' PROVE e \in Contents' /\ ~Overtaken(e)' /\ OnPath(e)'
  <2>1. e \in kept /\ ~Overtaken(e)' /\ OnPath(e) /\ e \in Contents
    BY <1>1 DEF KeptInv
  <2>2. OnPath(e)'
    BY <1>1, <2>1 DEF OnPath
  <2>3. PICK p \in 1..Partitions : <<p, e.id>> \in DOMAIN db["vector"] /\ db["vector"][<<p, e.id>>] = e.vec
    BY <2>1 DEF OnPath
  <2> DEFINE key == <<p, e.id>>
             q == Nearest(db["vector"][key], RestoredCentroids)
             f == RestoredEntry(key)
  <2>4. partitions' = Reloaded
    BY <2>1 DEF Restart, OnPath, Reloaded
  <2>5. db["vector"][key] \in Vec
    BY <2>3, IndexAssumption DEF TypeInv, DbTypes, MapsTo
  <2>6. q \in 1..Partitions
    BY <2>5, NearestInRange, RestoredCentroidsAre DEF TypeInv, DbTypes
  <2>7. Range(Reloaded[q]) =
          {RestoredEntry(k) : k \in {l \in DOMAIN db["vector"] : Nearest(db["vector"][l], RestoredCentroids) = q}}
    BY <2>6, RestoredPartitionsAre DEF TypeInv, DbTypes
  <2>8. key \in DOMAIN db["vector"]
    BY <2>3
  <2>9. f.id = e.id /\ f.vec = e.vec
    BY <2>3 DEF RestoredEntry
  <2>10. f \in Range(Reloaded[q])
    BY <2>7, <2>8
  <2> HIDE DEF f, q, key
  <2>11. f \in Entries'
    BY <1>3, <2>4, <2>6, <2>10 DEF IndexTypes, Entries
  <2>12. e = [id |-> e.id, vec |-> e.vec]
    BY <2>1 DEF Contents
  <2>13. e \in Contents'
    BY <2>9, <2>11, <2>12 DEF Contents
  <2>14. QED
    BY <2>1, <2>2, <2>13
<1>5. QED
  BY <1>1, <1>2, <1>4 DEF KeptInv

\* (See SavedKept.)
LEMMA NextKept == TypeInv /\ KeptInv /\ [Next]_vars => KeptInv'
<1>1. KeptInv /\ UNCHANGED vars => KeptInv'
  BY DEF KeptInv, Overtaken, Doomed, Offered, Contents, Entries, OnPath, ToPath, ConfigOnWay, Todo, vars, index, history
<1>2. QED
  BY <1>1, ServeKept, BeginKept, WriteKept, CopyKept, EndKept, RestartKept DEF Next

\* What a finished save found is on the path, with the one vector its id has.
THEOREM SavedKept == Spec => []KeptInv
BY InitKept, NextKept, Typed, PTL DEF Spec

\* A vector that a finished save found stays in the index, restarts included.
THEOREM KeptIsHeld == Spec => []KeptHeld
<1>1. KeptInv => KeptHeld
  BY DEF KeptInv, KeptHeld
<1>2. QED
  BY <1>1, SavedKept, PTL

(***************************************************************************)
(* The path beside the index.                                               *)
(***************************************************************************)
\* (See NextConfig.)
LEMMA NextConfig ==
  /\ PersistInit => ConfigFirst
  /\ TypeInv /\ ConfigFirst /\ [Next]_vars => ConfigFirst'
<1>1. PersistInit => ConfigFirst
  <2>1. DOMAIN <<>> = {}
    OBVIOUS
  <2>2. QED
    BY <2>1 DEF PersistInit, ConfigFirst, NoUpkeep, NoCall, Families
<1>2. ASSUME TypeInv, ConfigFirst, [Next]_vars PROVE ConfigFirst'
  <2>1. CASE UNCHANGED <<db, upkeep>>
    BY <1>2, <2>1 DEF ConfigFirst, ConfigOnWay, Todo
  <2>2. CASE UNCHANGED db /\ upkeep'.call.op # "save"
    BY <1>2, <2>2 DEF ConfigFirst
  <2>3. CASE BeginUpkeep
    <3>1. PICK call \in UpkeepCalls :
            upkeep' = [call |-> call, todo |-> FirstWrites(call),
                       stage |-> IF call.op = "save" THEN "centroids" ELSE "done"]
      BY <2>3 DEF BeginUpkeep
    <3>2. db' = db /\ upkeep'.call = call
      BY <2>3, <3>1 DEF BeginUpkeep
    <3>3. CASE call.op = "save"
      <4>1. upkeep'.todo = <<Put("config", 1, trained)>> /\ upkeep'.stage = "centroids"
        BY <3>1, <3>3 DEF FirstWrites
      <4>2. DOMAIN <<Put("config", 1, trained)>> = {1} /\ <<Put("config", 1, trained)>>[1] = Put("config", 1, trained)
        OBVIOUS
      <4>3. Put("config", 1, trained) \in Todo' /\ trained \in BOOLEAN
        BY <1>2, <4>1, <4>2, InRange DEF Todo, TypeInv, IndexTypes
      <4>4. ConfigOnWay'
        BY <4>3 DEF ConfigOnWay
      <4>5. QED
        BY <1>2, <3>2, <4>1, <4>4 DEF ConfigFirst
    <3>4. QED
      BY <2>2, <3>2, <3>3
  <2>4. CASE CopyCentroids \/ CopyVectors
    <3>1. /\ db' = db /\ upkeep'.call = upkeep.call /\ upkeep'.stage # "centroids"
          /\ (CopyCentroids => upkeep.stage = "centroids") /\ (CopyVectors => upkeep.stage = "vectors")
          /\ Todo = {} /\ upkeep.call.op = "save"
      BY <1>2, <2>4, TodoIs DEF CopyCentroids, CopyVectors, TypeInv, UpkeepTypes
    <3>2. QED
      BY <1>2, <2>4, <3>1 DEF ConfigFirst, ConfigOnWay
  <2>5. CASE WriteOne
    <3> DEFINE w == Head(upkeep.todo)
    <3>1. upkeep'.call = upkeep.call /\ upkeep'.stage = upkeep.stage
      BY <1>2, <2>5, WriteFrame
    <3>2. /\ upkeep.call.op \in {"save", "persist", "erase"} /\ upkeep.stage \in {"centroids", "vectors", "done"}
          /\ upkeep.call.op = "save" /\ upkeep.stage = "centroids" => IsConfigPut(w)
          /\ upkeep.call.op = "save" /\ upkeep.stage = "vectors" => IsCentroidPut(w)
          /\ upkeep.call.op = "save" /\ upkeep.stage = "done" => IsVectorPut(w) \/ IsMetaPut(w)
          /\ upkeep.call.op = "persist" => IsVectorPut(w) \/ IsMetaPut(w)
          /\ upkeep.call.op = "erase" => (\E key : w = Drop("vector", key)) \/ (\E id : w = Drop("meta", id))
      BY <1>2, <2>5, WritesAre DEF WriteOne, TypeInv, UpkeepTypes
    <3> HIDE DEF w
    <3>3. CASE IsConfigPut(w)
      BY <1>2, <2>5, <3>1, <3>3, ConfigWritten DEF ConfigFirst, ConfigOnWay, w
    <3>4. CASE IsCentroidPut(w)
      <4>1. db'["config"] = db["config"]
        BY <1>2, <2>5, <3>4, CentroidWritten DEF IsCentroidPut, w
      <4>2. upkeep.call.op = "save" /\ upkeep.stage = "vectors"
        <5>1. w.family = "centroid"
          BY <3>4 DEF IsCentroidPut, Put
        <5>2. IsConfigPut(w) => w.family = "config"
          BY DEF IsConfigPut, Put
        <5>3. IsVectorPut(w) => w.family = "vector"
          BY DEF IsVectorPut, Put
        <5>4. IsMetaPut(w) => w.family = "meta"
          BY DEF IsMetaPut, Put
        <5>5. upkeep.call.op # "erase"
          <6>1. \A f, key : Drop(f, key).family = f
            BY DEF Drop
          <6>2. QED
            BY <3>2, <5>1, <6>1
        <5>6. QED
          BY <3>2, <5>1, <5>2, <5>3, <5>4, <5>5
      <4>3. QED
        BY <1>2, <3>1, <4>1, <4>2 DEF ConfigFirst
    <3>5. ASSUME IsVectorPut(w) \/ IsMetaPut(w) \/ (\E key : w = Drop("vector", key)) \/ (\E id : w = Drop("meta", id))
          PROVE  db'["config"] = db["config"] /\ db'["centroid"] = db["centroid"]
      <4>1. CASE IsVectorPut(w)
        BY <1>2, <2>5, <4>1, VectorWritten DEF IsVectorPut, w
      <4>2. CASE IsMetaPut(w)
        BY <1>2, <2>5, <4>2, MetaWritten DEF IsMetaPut, w
      <4>3. CASE \E key : w = Drop("vector", key)
        BY <1>2, <2>5, <4>3, VectorDropped DEF w
      <4>4. CASE \E id : w = Drop("meta", id)
        BY <1>2, <2>5, <4>4, MetaDropped DEF w
      <4>5. QED
        BY <3>5, <4>1, <4>2, <4>3, <4>4
    <3>6. CASE ~IsConfigPut(w) /\ ~IsCentroidPut(w)
      BY <1>2, <3>1, <3>2, <3>5, <3>6 DEF ConfigFirst
    <3>7. QED
      BY <3>3, <3>4, <3>6
  <2>6. EndUpkeep => UNCHANGED db /\ upkeep'.call.op # "save"
    BY DEF EndUpkeep, NoUpkeep, NoCall
  <2>7. Restart => UNCHANGED db /\ upkeep'.call.op # "save"
    BY DEF Restart, NoUpkeep, NoCall
  <2>8. ServeBesideUpkeep => UNCHANGED <<db, upkeep>>
    BY DEF ServeBesideUpkeep
  <2>9. UNCHANGED vars => UNCHANGED <<db, upkeep>>
    BY DEF vars
  <2>10. QED
    BY <1>2, <2>1, <2>2, <2>3, <2>4, <2>5, <2>6, <2>7, <2>8, <2>9 DEF Next
<1>3. QED
  BY <1>1, <1>2

\* Metadata come after the vector they are of.
Follows(s) ==
  \A i \in 1..Len(s), id \in Id, m \in Metadata : s[i] = Put("meta", id, m) =>
    \E j \in 1..i - 1, vec \in Fits : s[j] = Put("vector", <<m.partition, id>>, vec)

\* (See Follows.)
LEMMA EntryPutsFollow ==
  ASSUME NEW p \in 1..Partitions, NEW e \in Fitting
  PROVE  EntryPuts(p, e) \in Seq(EntryWrites) /\ Follows(EntryPuts(p, e))
<1> DEFINE s == EntryPuts(p, e)
<1>1. /\ s \in Seq(EntryWrites) /\ s = <<s[1], s[2]>>
      /\ s[1] = Put("vector", <<p, e.id>>, e.vec)
      /\ s[2] = Put("meta", e.id, [partition |-> p, level |-> e.level])
  BY EntryPutsAre
<1>2. e.vec \in Fits
  BY DEF Fitting
<1> HIDE DEF s
<1>3. Len(s) = 2
  BY <1>1
<1>4. ASSUME NEW i \in 1..2, NEW id \in Id, NEW m \in Metadata, s[i] = Put("meta", id, m)
      PROVE  \E j \in 1..i - 1, vec \in Fits : s[j] = Put("vector", <<m.partition, id>>, vec)
  <2>1. i # 1
    BY <1>1, <1>4, PutsDiffer
  <2>2. i = 2
    BY <2>1
  <2>3. id = e.id /\ m = [partition |-> p, level |-> e.level]
    BY <1>1, <1>4, <2>2, PutsDiffer
  <2>4. s[1] = Put("vector", <<m.partition, id>>, e.vec) /\ 1 \in 1..i - 1
    BY <1>1, <2>2, <2>3
  <2>5. QED
    BY <1>2, <2>4
<1>5. QED
  BY <1>1, <1>3, <1>4 DEF Follows, s

\* (See Follows.)
LEMMA VectorPutsFollow ==
  ASSUME IndexTypes
  PROVE  Follows(VectorPuts)
<1> DEFINE G == {s \in Seq(EntryWrites) : Follows(s)}
           puts(p) == [j \in DOMAIN partitions[p] |-> EntryPuts(p, partitions[p][j])]
           all == [p \in 1..Partitions |-> FlattenSeq(puts(p))]
<1>1. <<>> \in G
  BY DEF Follows
<1>2. ASSUME NEW a \in G, NEW b \in G PROVE a \o b \in G
  <2> DEFINE s == a \o b
             n == Len(a)
  <2>1. a \in Seq(EntryWrites) /\ b \in Seq(EntryWrites) /\ Follows(a) /\ Follows(b)
    BY <1>2
  <2>2. /\ n \in Nat /\ Len(b) \in Nat /\ Len(s) = n + Len(b) /\ s \in Seq(EntryWrites)
        /\ \A i \in 1..n + Len(b) : s[i] = IF i <= n THEN a[i] ELSE b[i - n]
    BY <2>1, ConcatProperties, LenProperties
  <2> HIDE DEF s, n
  <2>3. ASSUME NEW i \in 1..Len(s), NEW id \in Id, NEW m \in Metadata, s[i] = Put("meta", id, m)
        PROVE  \E j \in 1..i - 1, vec \in Fits : s[j] = Put("vector", <<m.partition, id>>, vec)
    <3>1. CASE i <= n
      <4>1. i \in 1..n /\ a[i] = Put("meta", id, m)
        BY <2>2, <2>3, <3>1
      <4>2. PICK j \in 1..i - 1, vec \in Fits : a[j] = Put("vector", <<m.partition, id>>, vec)
        BY <2>1, <4>1 DEF Follows, n
      <4>3. j <= n /\ j \in 1..n + Len(b)
        BY <2>2, <4>1
      <4>4. s[j] = a[j]
        BY <2>2, <4>3
      <4>5. QED
        BY <4>2, <4>4
    <3>2. CASE ~(i <= n)
      <4>1. i - n \in 1..Len(b) /\ b[i - n] = Put("meta", id, m)
        BY <2>2, <2>3, <3>2
      <4>2. PICK j \in 1..(i - n) - 1, vec \in Fits : b[j] = Put("vector", <<m.partition, id>>, vec)
        BY <2>1, <4>1 DEF Follows
      <4>3. j + n \in 1..i - 1 /\ j + n \in 1..n + Len(b) /\ ~(j + n <= n) /\ (j + n) - n = j
        BY <2>2, <4>1
      <4>4. s[j + n] = b[j]
        BY <2>2, <4>3
      <4>5. QED
        BY <4>2, <4>3, <4>4
    <3>3. QED
      BY <3>1, <3>2
  <2>4. Follows(s)
    BY <2>3 DEF Follows
  <2>5. QED
    BY <2>2, <2>4 DEF s
<1>3. Partitions \in Nat
  BY IndexAssumption
<1>4. \A p \in 1..Partitions, e \in Fitting : EntryPuts(p, e) \in G
  BY EntryPutsFollow
<1> HIDE DEF G
<1>5. ASSUME NEW p \in 1..Partitions PROVE FlattenSeq(puts(p)) \in G
  <2> DEFINE part == partitions[p]
             n == Len(part)
             ss == puts(p)
  <2>1. part \in Seq(Fitting)
    BY DEF IndexTypes
  <2>2. n \in Nat /\ DOMAIN part = 1..n /\ \A j \in 1..n : part[j] \in Fitting
    BY <2>1, LenProperties, ElementOfSeq
  <2>3. ss = [j \in 1..n |-> EntryPuts(p, part[j])]
    BY <2>2
  <2> HIDE DEF ss, n, part
  <2>4. ss \in [1..n -> G]
    BY <1>4, <2>2, <2>3
  <2>5. ss \in Seq(G)
    BY <2>2, <2>4
  <2>6. FlattenSeq(ss) \in G
    BY <1>1, <1>2, <2>5, FlattenClosed
  <2>7. QED
    BY <2>6 DEF ss
<1>6. VectorPuts = FlattenSeq(all)
  BY DEF VectorPuts
<1> HIDE DEF puts
<1>7. all \in [1..Partitions -> G]
  BY <1>5
<1> HIDE DEF all
<1>8. all \in Seq(G)
  BY <1>3, <1>7
<1>9. FlattenSeq(all) \in G
  BY <1>1, <1>2, <1>8, FlattenClosed
<1>10. QED
  BY <1>6, <1>9 DEF G

\* What a load restores is what the keys of vectors say, wherever it places it.
LEMMA RestoredAgain ==
  ASSUME TypeInv
  PROVE  /\ \A x : (\E p \in 1..Partitions : x \in Range(Reloaded[p])) <=>
              \E k \in DOMAIN db["vector"] : x = RestoredEntry(k)
         /\ \A k \in DOMAIN db["vector"] :
              /\ RestoredEntry(k).id = k[2] /\ RestoredEntry(k).vec = db["vector"][k]
              /\ k[2] \in DOMAIN db["meta"] => RestoredEntry(k).level = db["meta"][k[2]].level
<1> DEFINE Home(k) == Nearest(db["vector"][k], RestoredCentroids)
<1>1. ASSUME NEW p \in 1..Partitions, NEW x
      PROVE  x \in Range(Reloaded[p]) <=> \E k \in DOMAIN db["vector"] : Home(k) = p /\ x = RestoredEntry(k)
  <2>1. Range(Reloaded[p]) = {RestoredEntry(k) : k \in {l \in DOMAIN db["vector"] : Home(l) = p}}
    BY RestoredPartitionsAre DEF TypeInv, DbTypes
  <2> HIDE DEF Home
  <2>2. QED
    BY <2>1
<1>2. ASSUME NEW k \in DOMAIN db["vector"] PROVE Home(k) \in 1..Partitions
  <2>1. db["vector"][k] \in Vec
    BY IndexAssumption DEF TypeInv, DbTypes, MapsTo
  <2>2. RestoredCentroids \in Seq(Centroid) /\ Len(RestoredCentroids) <= Partitions
    BY RestoredCentroidsAre DEF TypeInv, DbTypes
  <2>3. QED
    BY <2>1, <2>2, NearestInRange
<1> HIDE DEF Home
<1>3. \A k \in DOMAIN db["vector"] :
        /\ RestoredEntry(k).id = k[2] /\ RestoredEntry(k).vec = db["vector"][k]
        /\ k[2] \in DOMAIN db["meta"] => RestoredEntry(k).level = db["meta"][k[2]].level
  BY DEF RestoredEntry
<1>4. QED
  BY <1>1, <1>2, <1>3

\* Two keys of one vector are restored as the same entry.
LEMMA RestoredAlike ==
  ASSUME Uniform, PathHeld,
         NEW k \in DOMAIN db["vector"], NEW l \in DOMAIN db["vector"], k[2] = l[2]
  PROVE  RestoredEntry(k) = RestoredEntry(l)
<1>1. PICK e \in Entries : e.id = k[2] /\ e.vec = db["vector"][k]
  BY DEF PathHeld, Holds
<1>2. PICK f \in Entries : f.id = l[2] /\ f.vec = db["vector"][l]
  BY DEF PathHeld, Holds
<1>3. e = f
  BY <1>1, <1>2 DEF Uniform
<1>4. QED
  BY <1>1, <1>2, <1>3 DEF RestoredEntry

\* (See PathKept.)
LEMMA InitPath == PersistInit => PathInv
<1> SUFFICES ASSUME PersistInit PROVE PathInv
  OBVIOUS
<1>1. /\ db = [f \in Families |-> <<>>] /\ upkeep.todo = <<>> /\ upkeep.call.op = "none"
      /\ \A t \in Thread : thread[t].call.op = "none"
      /\ \A p \in 1..Partitions : partitions[p] = <<>>
  BY DEF PersistInit, Init, NoUpkeep, NoCall, Resting, Empty
<1>2. DOMAIN <<>> = {} /\ Len(<<>>) = 0 /\ 1..0 = {}
  OBVIOUS
<1>3. DOMAIN db["vector"] = {} /\ DOMAIN db["meta"] = {}
  BY <1>1, <1>2 DEF Families
<1>4. Todo = {}
  BY <1>1, <1>2, InRange DEF Todo
<1>5. TypeInv
  BY InitTypes
<1>6. Entries = {}
  <2>1. \A p \in 1..Partitions : Range(partitions[p]) = {}
    BY <1>1, <1>2 DEF Range
  <2>2. QED
    BY <1>5, <2>1, EntriesAre DEF TypeInv
<1>7. Offered = {}
  BY <1>1 DEF Offered
<1>8. Uniform /\ OffThePath
  BY <1>1, <1>6, <1>7 DEF Uniform, OffThePath
<1>9. PathHeld /\ ConfigHeld
  BY <1>3, <1>4 DEF PathHeld, ConfigHeld
<1>10. Paired
  BY <1>1, <1>2, <1>3, <1>4 DEF Paired
<1>11. Complete
  BY <1>1 DEF Complete
<1>12. QED
  BY <1>8, <1>9, <1>10, <1>11 DEF PathInv

\* (See PathKept.)
LEMMA ServePath == TypeInv /\ PathInv /\ ServeBesideUpkeep => PathInv'
<1> SUFFICES ASSUME TypeInv, PathInv, ServeBesideUpkeep, orderly'
             PROVE  (Uniform /\ OffThePath /\ PathHeld /\ ConfigHeld /\ Paired /\ Complete)'
  BY DEF PathInv
<1>1. orderly /\ ~Busy /\ Uniform' /\ OffThePath' /\ UNCHANGED <<db, upkeep>>
  BY DEF ServeBesideUpkeep
<1>2. OffThePath /\ PathHeld /\ ConfigHeld /\ Paired
  BY <1>1 DEF PathInv
<1>3. IndexTypes /\ ThreadTypes /\ IndexTypes'
  BY ServeTypes DEF TypeInv
<1>4. upkeep.call.op = "none" /\ upkeep.todo = <<>> /\ Todo = {} /\ Todo' = {}
  <2>1. upkeep.call.op = "none" /\ upkeep.todo = <<>>
    BY <1>1 DEF Busy, NoCall, TypeInv, UpkeepTypes
  <2>2. Todo = {}
    BY <2>1, TodoIs
  <2>3. Todo' = Todo
    BY <1>1 DEF Todo
  <2>4. QED
    BY <2>1, <2>2, <2>3
<1>5. ConfigHeld' /\ Paired' /\ Complete'
  BY <1>1, <1>2, <1>4 DEF ConfigHeld, Paired, Complete, Todo
<1> DEFINE Known(id) == (\E k \in DOMAIN db["vector"] : k[2] = id) \/ id \in DOMAIN db["meta"]
<1>6. ASSUME \A e \in Entries : Known(e.id) => e \in Entries'
      PROVE  PathHeld'
  <2>1. ASSUME NEW k \in DOMAIN db["vector"] PROVE Holds(k[2], db["vector"][k])'
    <3>1. PICK e \in Entries : e.id = k[2] /\ e.vec = db["vector"][k]
      BY <1>2 DEF PathHeld, Holds
    <3>2. e \in Entries'
      BY <1>6, <3>1
    <3>3. QED
      BY <1>1, <3>1, <3>2 DEF Holds
  <2>2. ASSUME NEW id \in DOMAIN db["meta"] PROVE HoldsMeta(id, db["meta"][id])'
    <3>1. PICK e \in Entries : e.id = id /\ e.level = db["meta"][id].level
      BY <1>2 DEF PathHeld, HoldsMeta
    <3>2. e \in Entries'
      BY <1>6, <3>1
    <3>3. QED
      BY <1>1, <3>1, <3>2 DEF HoldsMeta
  <2>3. QED
    BY <1>1, <1>4, <2>1, <2>2 DEF PathHeld
<1>7. CASE partitions' = partitions
  <2>1. Entries' = Entries
    BY <1>7 DEF Entries
  <2>2. QED
    BY <1>1, <1>5, <1>6, <2>1
<1>8. \A e : e \in Entries' <=> \E p \in 1..Partitions : e \in Range(partitions'[p])
  <2>1. DOMAIN partitions' = 1..Partitions
    BY <1>3 DEF IndexTypes
  <2>2. QED
    BY <2>1 DEF Entries
<1>9. PICK t \in Thread : Step(t)
  BY DEF ServeBesideUpkeep, Serve
<1>10. CASE Call(t) \/ RejectVector(t) \/ Place(t) \/ Train(t)
  BY <1>7, <1>10 DEF Call, RejectVector, Place, Train, index
<1>11. CASE Push(t)
  <2>1. \A p \in 1..Partitions : Range(partitions'[p]) =
          Range(partitions[p]) \cup (IF p = thread[t].partition THEN {Current(t)} ELSE {})
    BY <1>3, <1>11, PushDoes
  <2>2. \A e \in Entries : e \in Entries'
    BY <1>3, <1>8, <2>1, EntriesAre
  <2>3. QED
    BY <1>1, <1>5, <1>6, <2>2
<1>12. CASE Delete(t)
  <2> DEFINE gone == thread[t].call.id
  <2>1. \A p \in 1..Partitions : \A e \in Range(partitions[p]) : e.id # gone => e \in Range(partitions'[p])
    BY <1>3, <1>12, DeleteDoes
  <2>2. thread[t].call.op = "delete"
    BY <1>3, <1>12, StepIsOf DEF Delete
  <2>3. \A k \in DOMAIN db["vector"] : k[2] # gone
    BY <1>2, <2>2 DEF OffThePath
  <2>4. \A id \in DOMAIN db["meta"] : <<db["meta"][id].partition, id>> \in DOMAIN db["vector"]
    BY <1>2, <1>4 DEF Paired
  <2>5. \A id \in DOMAIN db["meta"] : id # gone
    <3>1. \A p, id : <<p, id>>[2] = id
      OBVIOUS
    <3> HIDE DEF gone
    <3>2. QED
      BY <2>3, <2>4, <3>1
  <2>6. \A id : Known(id) => id # gone
    BY <2>3, <2>5
  <2>7. \A e \in Entries : e.id # gone => e \in Entries'
    <3> HIDE DEF gone
    <3>1. QED
      BY <1>3, <1>8, <2>1, EntriesAre
  <2>8. QED
    BY <1>1, <1>5, <1>6, <2>6, <2>7
<1>13. QED
  BY <1>9, <1>10, <1>11, <1>12 DEF Step

\* (See PathKept.)
LEMMA BeginPath == TypeInv /\ FoundInv /\ PathInv /\ ConfigFirst /\ BeginUpkeep => PathInv'
<1> SUFFICES ASSUME TypeInv, FoundInv, PathInv, ConfigFirst, BeginUpkeep, orderly'
             PROVE  (Uniform /\ OffThePath /\ PathHeld /\ ConfigHeld /\ Paired /\ Complete)'
  BY DEF PathInv
<1>1. PICK call \in UpkeepCalls :
        /\ upkeep' = [call |-> call, todo |-> FirstWrites(call),
                      stage |-> IF call.op = "save" THEN "centroids" ELSE "done"]
        /\ orderly' = (orderly /\ Quiet /\ Proper(call))
  BY DEF BeginUpkeep
<1>2. upkeep'.call = call /\ upkeep'.todo = FirstWrites(call) /\ (call.op = "save" => upkeep'.stage = "centroids")
  BY <1>1
<1>3. UNCHANGED <<centroids, partitions, trained, thread, db>> /\ ~Busy
  BY DEF BeginUpkeep, index
<1>4. orderly /\ Quiet /\ Proper(call)
  BY <1>1
<1>5. Uniform /\ PathHeld /\ ConfigHeld /\ Paired /\ Placed
  BY <1>4 DEF PathInv, FoundInv
<1>6. upkeep.call.op = "none" /\ Todo = {}
  <2>1. upkeep.call.op = "none" /\ upkeep.todo = <<>>
    BY <1>3 DEF Busy, NoCall, TypeInv, UpkeepTypes
  <2>2. QED
    BY <2>1, TodoIs
<1>7. TypeInv
  OBVIOUS
<1>8. /\ call.op \in {"save", "persist", "erase"}
      /\ call.op = "persist" => call.partition \in 1..Partitions /\ call.entry \in Fitting
      /\ call.op = "erase" => call.id \in Id
  BY UpkeepCallsAre
<1>9. \A t \in Thread : thread[t].call.op = "none"
  BY <1>4, StepIsOf DEF TypeInv, Quiet
<1>10. call.op = "persist" => db["centroid"] = centroids /\ call.entry \in Range(partitions[call.partition])
  BY <1>4 DEF Proper
<1>11. Offered' \subseteq Entries /\ Entries' = Entries
  <2>1. Offered' = IF call.op = "persist" THEN {call.entry} ELSE {}
    BY <1>2, <1>3, <1>9 DEF Offered
  <2>2. call.op = "persist" => call.entry \in Entries
    BY <1>8, <1>10, EntriesAre DEF TypeInv
  <2>3. Entries' = Entries
    BY <1>3 DEF Entries
  <2>4. QED
    BY <2>1, <2>2, <2>3
<1>12. Uniform'
  BY <1>5, <1>11 DEF Uniform
<1>13. OffThePath'
  BY <1>3, <1>9 DEF OffThePath
<1>14. Complete'
  BY <1>2 DEF Complete
<1>15. /\ \A k \in DOMAIN db["vector"] : Holds(k[2], db["vector"][k])
       /\ \A id \in DOMAIN db["meta"] : HoldsMeta(id, db["meta"][id])
       /\ DOMAIN db["vector"] # {} => db["config"] # <<>>
       /\ \A id \in DOMAIN db["meta"] : <<db["meta"][id].partition, id>> \in DOMAIN db["vector"]
  BY <1>5, <1>6 DEF PathHeld, ConfigHeld, Paired
<1>16. CASE call.op = "save"
  <2>1. upkeep'.todo = <<Put("config", 1, trained)>>
    BY <1>2, <1>16 DEF FirstWrites
  <2>2. \A w : w \in Todo' <=> w = Put("config", 1, trained)
    <3>1. DOMAIN <<Put("config", 1, trained)>> = {1} /\ <<Put("config", 1, trained)>>[1] = Put("config", 1, trained)
      OBVIOUS
    <3>2. QED
      BY <2>1, <3>1, InRange DEF Todo
  <2>3. \A key, v : Put("vector", key, v) \notin Todo' /\ Put("meta", key, v) \notin Todo'
    BY <2>2, PutsDiffer
  <2>4. PathHeld' /\ ConfigHeld'
    BY <1>3, <1>11, <1>15, <2>3 DEF PathHeld, ConfigHeld, Holds, HoldsMeta
  <2>5. Paired'
    <3>1. ASSUME NEW i \in 1..Len(upkeep'.todo), NEW id, NEW m PROVE upkeep'.todo[i] # Put("meta", id, m)
      <4>1. upkeep'.todo[i] = Put("config", 1, trained)
        BY <2>1
      <4>2. QED
        BY <4>1, PutsDiffer
    <3>2. QED
      BY <1>3, <1>15, <3>1 DEF Paired
  <2>6. QED
    BY <1>12, <1>13, <1>14, <2>4, <2>5
<1>17. CASE call.op = "persist"
  <2> DEFINE p == call.partition
             e == call.entry
             v == Put("vector", <<p, e.id>>, e.vec)
             m == [partition |-> p, level |-> e.level]
             w == Put("meta", e.id, m)
  <2>1. upkeep'.todo = EntryPuts(p, e) /\ p \in 1..Partitions /\ e \in Fitting
    BY <1>2, <1>8, <1>17 DEF FirstWrites
  <2>2. /\ \A x : x \in Todo' <=> x = v \/ x = w
        /\ Follows(upkeep'.todo) /\ upkeep'.todo[2] = w
    BY <2>1, EntryPutsAre, EntryPutsFollow DEF Todo
  <2>3. e.id \in Id /\ e.vec \in Fits /\ m \in Metadata /\ e \in Range(partitions[p])
    BY <1>10, <1>17, <2>1 DEF Fitting, Entry, Metadata
  <2>4. db["config"] # <<>>
    <3>1. DOMAIN centroids = 1..Partitions /\ 1 \in 1..Partitions
      BY <1>5, IndexAssumption DEF Placed
    <3>2. QED
      BY <1>10, <1>17, <3>1 DEF ConfigFirst
  <2> HIDE DEF p, e
  <2>5. \A q, id, vec : Put("vector", <<q, id>>, vec) \in Todo' => q = p /\ id = e.id /\ vec = e.vec
    <3>1. \A q, id : <<q, id>> = <<p, e.id>> => q = p /\ id = e.id
      OBVIOUS
    <3>2. QED
      BY <2>2, <3>1, PutsDiffer
  <2>6. \A id, n : Put("meta", id, n) \in Todo' => id = e.id /\ n = m
    BY <2>2, PutsDiffer
  <2>7. PathHeld'
    <3>1. Holds(e.id, e.vec)' /\ HoldsMeta(e.id, m)'
      <4>1. e \in Entries
        BY <2>1, <2>3, EntriesAre DEF TypeInv
      <4>2. QED
        BY <1>11, <4>1 DEF Holds, HoldsMeta
    <3>2. \A k \in DOMAIN db'["vector"] : Holds(k[2], db["vector"][k])'
      BY <1>3, <1>11, <1>15 DEF Holds
    <3>3. \A id \in DOMAIN db'["meta"] : HoldsMeta(id, db["meta"][id])'
      BY <1>3, <1>11, <1>15 DEF HoldsMeta
    <3>4. QED
      BY <2>5, <2>6, <3>1, <3>2, <3>3 DEF PathHeld
  <2>8. ConfigHeld'
    BY <1>3, <1>15, <2>4 DEF ConfigHeld
  <2>9. Paired'
    BY <1>3, <1>15, <2>2 DEF Paired, Follows
  <2>10. QED
    BY <1>12, <1>13, <1>14, <2>7, <2>8, <2>9
<1>18. CASE call.op = "erase"
  <2> DEFINE id == call.id
             v == Drop("vector", <<db["meta"][id].partition, id>>)
             w == Drop("meta", id)
  <2>1. upkeep'.todo = Erasure(id)
    BY <1>2, <1>18 DEF FirstWrites
  <2>2. upkeep'.todo = IF id \in DOMAIN db["meta"] THEN <<v, w>> ELSE <<>>
    BY <2>1 DEF Erasure
  <2> HIDE DEF id
  <2>3. \A i \in 1..Len(upkeep'.todo) : upkeep'.todo[i] = v \/ upkeep'.todo[i] = w
    <3> HIDE DEF v, w
    <3>1. CASE id \in DOMAIN db["meta"]
      BY <2>2, <3>1
    <3>2. CASE id \notin DOMAIN db["meta"]
      BY <2>2, <3>2
    <3>3. QED
      BY <3>1, <3>2
  <2>4. \A i \in 1..Len(upkeep'.todo) : \A f, key, x : upkeep'.todo[i] # Put(f, key, x)
    BY <2>3, PutsDiffer
  <2>5. \A f, key, x : Put(f, key, x) \notin Todo'
    <3>1. upkeep'.todo \in Seq({v, w})
      <4> HIDE DEF v, w
      <4>1. <<v, w>> \in Seq({v, w}) /\ <<>> \in Seq({v, w})
        OBVIOUS
      <4>2. QED
        BY <2>2, <4>1
    <3>2. \A x : x \in Todo' => \E i \in 1..Len(upkeep'.todo) : x = upkeep'.todo[i]
      <4> HIDE DEF v, w
      <4>1. QED
        BY <3>1, RangeIff DEF Todo
    <3>3. QED
      BY <2>4, <3>2
  <2>6. PathHeld' /\ ConfigHeld'
    BY <1>3, <1>11, <1>15, <2>5 DEF PathHeld, ConfigHeld, Holds, HoldsMeta
  <2>7. Paired'
    BY <1>3, <1>15, <2>4 DEF Paired
  <2>8. QED
    BY <1>12, <1>13, <1>14, <2>6, <2>7
<1>19. QED
  BY <1>8, <1>16, <1>17, <1>18

\* What the writes left say of metadata that are next.
LEMMA NextMeta ==
  ASSUME TypeInv, WriteOne, Paired
  PROVE  /\ \A i \in 1..Len(upkeep'.todo), id \in Id, m \in Metadata : upkeep'.todo[i] = Put("meta", id, m) =>
              \/ <<m.partition, id>> \in DOMAIN db["vector"]
              \/ \E vec \in Fits : Head(upkeep.todo) = Put("vector", <<m.partition, id>>, vec)
              \/ \E j \in 1..i - 1, vec \in Fits : upkeep'.todo[j] = Put("vector", <<m.partition, id>>, vec)
         /\ \A id \in Id, m \in Metadata : Head(upkeep.todo) = Put("meta", id, m) =>
              <<m.partition, id>> \in DOMAIN db["vector"]
<1> DEFINE todo == upkeep.todo
           rest == upkeep'.todo
           VecAt(s, j, id, m) == \E vec \in Fits : s[j] = Put("vector", <<m.partition, id>>, vec)
<1>1. PICK S : todo \in Seq(S)
  BY TodoSeq
<1>2. todo # <<>> /\ rest = Tail(todo)
  BY WriteFrame DEF WriteOne
<1>3. \A i \in 1..Len(todo), id \in Id, m \in Metadata : todo[i] = Put("meta", id, m) =>
        \/ <<m.partition, id>> \in DOMAIN db["vector"]
        \/ \E j \in 1..i - 1 : VecAt(todo, j, id, m)
  BY DEF Paired
<1> HIDE DEF todo, rest
<1>4. /\ Len(todo) \in Nat \ {0} /\ Head(todo) = todo[1] /\ Len(rest) = Len(todo) - 1
      /\ \A i \in 1..Len(rest) : rest[i] = todo[i + 1]
  BY <1>1, <1>2, HeadTailProperties, EmptySeq DEF Head
<1>5. ASSUME NEW i \in 1..Len(rest), NEW id \in Id, NEW m \in Metadata, rest[i] = Put("meta", id, m),
             <<m.partition, id>> \notin DOMAIN db["vector"], ~VecAt(todo, 1, id, m)
      PROVE  \E j \in 1..i - 1 : VecAt(rest, j, id, m)
  <2>1. i + 1 \in 1..Len(todo) /\ todo[i + 1] = Put("meta", id, m)
    BY <1>4, <1>5
  <2>2. PICK j \in 1..(i + 1) - 1 : VecAt(todo, j, id, m)
    BY <1>3, <1>5, <2>1
  <2>3. j # 1
    BY <1>5, <2>2
  <2>4. j - 1 \in 1..i - 1 /\ j - 1 \in 1..Len(rest) /\ (j - 1) + 1 = j
    BY <1>4, <2>3
  <2>5. rest[j - 1] = todo[j]
    BY <1>4, <2>4
  <2>6. QED
    BY <2>2, <2>4, <2>5
<1>6. ASSUME NEW id \in Id, NEW m \in Metadata, todo[1] = Put("meta", id, m)
      PROVE  <<m.partition, id>> \in DOMAIN db["vector"]
  <2>1. 1 \in 1..Len(todo) /\ 1..1 - 1 = {}
    BY <1>4
  <2>2. QED
    BY <1>3, <1>6, <2>1
<1>7. /\ \A i \in 1..Len(rest), id \in Id, m \in Metadata : rest[i] = Put("meta", id, m) =>
           \/ <<m.partition, id>> \in DOMAIN db["vector"]
           \/ \E vec \in Fits : Head(todo) = Put("vector", <<m.partition, id>>, vec)
           \/ \E j \in 1..i - 1, vec \in Fits : rest[j] = Put("vector", <<m.partition, id>>, vec)
      /\ \A id \in Id, m \in Metadata : Head(todo) = Put("meta", id, m) => <<m.partition, id>> \in DOMAIN db["vector"]
  BY <1>4, <1>5, <1>6
<1>8. QED
  BY <1>7 DEF todo, rest

\* The writes of a removal.
LEMMA ErasureIs ==
  ASSUME TypeInv, WriteOne, upkeep.call.op = "erase"
  PROVE  LET id == upkeep.call.id
             w == Head(upkeep.todo)
         IN /\ id \in DOMAIN db["meta"]
            /\ \/ /\ w = Drop("vector", <<db["meta"][id].partition, id>>)
                  /\ Todo' = {Drop("meta", id)} /\ upkeep'.todo = <<Drop("meta", id)>>
               \/ /\ w = Drop("meta", id)
                  /\ Todo' = {} /\ upkeep'.todo = <<>> /\ Len(upkeep.todo) = 1
<1> DEFINE id == upkeep.call.id
           v == Drop("vector", <<db["meta"][id].partition, id>>)
           m == Drop("meta", id)
           todo == upkeep.todo
<1>1. todo # <<>> /\ upkeep'.todo = Tail(todo)
  BY WriteFrame DEF WriteOne
<1>2. id \in DOMAIN db["meta"] /\ todo \in {<<Erasure(id)[1], Erasure(id)[2]>>, <<Erasure(id)[2]>>, <<>>}
  BY <1>1 DEF TypeInv, UpkeepTypes, Left
<1>3. Erasure(id)[1] = v /\ Erasure(id)[2] = m
  <2>1. Erasure(id) = <<v, m>>
    BY <1>2 DEF Erasure
  <2> HIDE DEF v, m
  <2>2. QED
    BY <2>1
<1> HIDE DEF v, m, todo
<1>4. \/ todo = <<v, m>> /\ Head(todo) = v /\ Tail(todo) = <<m>>
      \/ todo = <<m>> /\ Head(todo) = m /\ Tail(todo) = <<>> /\ Len(todo) = 1
  <2>1. todo = <<v, m>> \/ todo = <<m>>
    BY <1>1, <1>2, <1>3
  <2>2. Head(<<v, m>>) = v /\ Tail(<<v, m>>) = <<m>>
    OBVIOUS
  <2>3. Head(<<m>>) = m /\ Tail(<<m>>) = <<>> /\ Len(<<m>>) = 1
    OBVIOUS
  <2>4. QED
    BY <2>1, <2>2, <2>3
<1>5. Range(<<m>>) = {m} /\ Range(<<>>) = {}
  <2>1. DOMAIN <<m>> = {1} /\ <<m>>[1] = m /\ DOMAIN <<>> = {}
    OBVIOUS
  <2>2. QED
    BY <2>1, InRange
<1>6. Todo' = Range(Tail(todo))
  BY <1>1 DEF Todo
<1>7. QED
  BY <1>1, <1>2, <1>4, <1>5, <1>6 DEF v, m, todo

\* (See PathKept.)
LEMMA WritePath == TypeInv /\ FoundInv /\ PathInv /\ WriteOne => PathInv'
<1> SUFFICES ASSUME TypeInv, FoundInv, PathInv, WriteOne, orderly'
             PROVE  (Uniform /\ OffThePath /\ PathHeld /\ ConfigHeld /\ Paired /\ Complete)'
  BY DEF PathInv
<1> DEFINE w == Head(upkeep.todo)
           op == upkeep.call.op
           stage == upkeep.stage
<1>1. /\ Todo = {w} \cup Todo'
      /\ upkeep'.call = upkeep.call /\ upkeep'.stage = upkeep.stage
      /\ UNCHANGED <<centroids, partitions, trained, thread, orderly>>
  BY WriteFrame
<1>2. Uniform /\ OffThePath /\ PathHeld /\ ConfigHeld /\ Paired /\ Complete /\ Placed /\ CentroidsSaved
  BY <1>1 DEF PathInv, FoundInv
<1>3. upkeep.todo # <<>> /\ stage \in {"centroids", "vectors", "done"}
  BY DEF WriteOne, TypeInv, UpkeepTypes
<1>4. /\ op \in {"save", "persist", "erase"}
      /\ op = "save" /\ stage = "centroids" => IsConfigPut(w)
      /\ op = "save" /\ stage = "vectors" => IsCentroidPut(w)
      /\ op = "save" /\ stage = "done" => IsVectorPut(w) \/ IsMetaPut(w)
      /\ op = "persist" => IsVectorPut(w) \/ IsMetaPut(w)
  BY <1>3, WritesAre
<1>5. Quiet
  BY <1>1, <1>4 DEF FoundInv, Busy, NoCall
<1>6. Uniform'
  BY <1>1, <1>2 DEF Uniform, Entries, Offered
<1>7. OffThePath'
  BY <1>1, <1>5, StepIsOf DEF OffThePath, Quiet, TypeInv
<1>8. /\ \A i \in 1..Len(upkeep'.todo), id \in Id, m \in Metadata : upkeep'.todo[i] = Put("meta", id, m) =>
           \/ <<m.partition, id>> \in DOMAIN db["vector"]
           \/ \E vec \in Fits : w = Put("vector", <<m.partition, id>>, vec)
           \/ \E j \in 1..i - 1, vec \in Fits : upkeep'.todo[j] = Put("vector", <<m.partition, id>>, vec)
      /\ \A id \in Id, m \in Metadata : w = Put("meta", id, m) => <<m.partition, id>> \in DOMAIN db["vector"]
  BY <1>2, NextMeta
<1> HIDE DEF w
<1>9. /\ \A k \in DOMAIN db["vector"] : Holds(k[2], db["vector"][k])
      /\ \A id \in DOMAIN db["meta"] : HoldsMeta(id, db["meta"][id])
      /\ \A p \in 1..Partitions, id \in Id, vec \in Fits : Put("vector", <<p, id>>, vec) \in Todo => Holds(id, vec)
      /\ \A id \in Id, m \in Metadata : Put("meta", id, m) \in Todo => HoldsMeta(id, m)
  BY <1>2 DEF PathHeld
<1>10. \A id, vec, m : (Holds(id, vec)' <=> Holds(id, vec)) /\ (HoldsMeta(id, m)' <=> HoldsMeta(id, m))
  BY <1>1 DEF Holds, HoldsMeta, Entries
<1>11. ASSUME UNCHANGED <<db["vector"], db["meta"]>>, op # "erase",
              \A f \in {"vector", "meta"} : \A key, v : w # Put(f, key, v),
              DOMAIN db["vector"] # {} \/ (\E p \in 1..Partitions, id \in Id, vec \in Fits : Put("vector", <<p, id>>, vec) \in Todo)
                => db'["config"] # <<>>
       PROVE  (PathHeld /\ ConfigHeld /\ Paired /\ Complete)'
  <2>1. PathHeld'
    <3>1. \A k \in DOMAIN db'["vector"] : Holds(k[2], db["vector"][k])'
      BY <1>1, <1>9, <1>11 DEF Holds, Entries
    <3>2. \A id \in DOMAIN db'["meta"] : HoldsMeta(id, db["meta"][id])'
      BY <1>1, <1>9, <1>11 DEF HoldsMeta, Entries
    <3>3. QED
      BY <1>1, <1>9, <1>10, <3>1, <3>2 DEF PathHeld
  <2>2. ConfigHeld'
    BY <1>1, <1>11 DEF ConfigHeld
  <2>3. \A key, m : Put("meta", key, m) \in Todo => Put("meta", key, m) \in Todo'
    BY <1>1, <1>11
  <2>4. Paired'
    <3>1. \A id : Drop("meta", id) \in Todo => Drop("meta", id) \in Todo'
      <4>1. \A id : w # Drop("meta", id)
        <5>1. IsConfigPut(w) \/ IsCentroidPut(w) \/ IsVectorPut(w) \/ IsMetaPut(w)
          BY <1>3, <1>4, <1>11
        <5>2. \E f, key, v : w = Put(f, key, v)
          BY <5>1 DEF IsConfigPut, IsCentroidPut, IsVectorPut, IsMetaPut
        <5>3. QED
          BY <5>2, PutsDiffer
      <4>2. QED
        BY <1>1, <4>1
    <3>2. QED
      BY <1>1, <1>2, <1>8, <1>11, <3>1 DEF Paired
  <2>5. Complete'
    BY <1>1, <1>2, <1>11, <2>3 DEF Complete
  <2>6. QED
    BY <2>1, <2>2, <2>4, <2>5
<1>12. CASE op = "save" /\ stage = "centroids"
  <2>1. IsConfigPut(w)
    BY <1>4, <1>12
  <2>2. UNCHANGED <<db["centroid"], db["vector"], db["meta"]>> /\ db'["config"] # <<>>
    BY <2>1, ConfigWritten DEF w
  <2>3. \A f \in {"vector", "meta"} : \A key, v : w # Put(f, key, v)
    BY <2>1, PutsDiffer DEF IsConfigPut
  <2>4. QED
    BY <1>2, <1>6, <1>7, <1>11, <1>12, <2>2, <2>3 DEF ConfigHeld
<1>13. CASE op = "save" /\ stage = "vectors"
  <2>1. PICK p \in 1..Partitions, c \in Centroid : w = Put("centroid", p, c)
    BY <1>4, <1>13 DEF IsCentroidPut
  <2>2. UNCHANGED <<db["config"], db["vector"], db["meta"]>>
    BY <2>1, CentroidWritten DEF w
  <2>3. \A f \in {"vector", "meta"} : \A key, v : w # Put(f, key, v)
    BY <2>1, PutsDiffer
  <2>4. QED
    BY <1>2, <1>6, <1>7, <1>11, <1>13, <2>2, <2>3 DEF ConfigHeld
<1>14. ASSUME op # "erase", IsVectorPut(w) PROVE (PathHeld /\ ConfigHeld /\ Paired /\ Complete)'
  <2>1. PICK p \in 1..Partitions, id \in Id, vec \in Fits : w = Put("vector", <<p, id>>, vec)
    BY <1>14 DEF IsVectorPut
  <2>2. /\ DOMAIN db'["vector"] = DOMAIN db["vector"] \cup {<<p, id>>}
        /\ db'["vector"][<<p, id>>] = vec
        /\ \A k \in DOMAIN db["vector"] : k # <<p, id>> => db'["vector"][k] = db["vector"][k]
        /\ UNCHANGED <<db["config"], db["centroid"], db["meta"]>>
    BY <2>1, VectorWritten DEF w
  <2>3. w \in Todo
    BY <1>1
  <2>4. \A key, m : Put("meta", key, m) \in Todo => Put("meta", key, m) \in Todo'
    BY <1>1, <2>1, PutsDiffer
  <2>5. \A key : Drop("meta", key) \in Todo => Drop("meta", key) \in Todo'
    BY <1>1, <2>1, PutsDiffer
  <2>6. <<p, id>>[1] = p /\ <<p, id>>[2] = id
    OBVIOUS
  <2>7. PathHeld'
    <3>1. \A k \in DOMAIN db'["vector"] : Holds(k[2], db'["vector"][k])
      BY <1>9, <2>1, <2>2, <2>3, <2>6
    <3>2. \A k \in DOMAIN db'["vector"] : Holds(k[2], db["vector"][k])'
      BY <1>1, <3>1 DEF Holds, Entries
    <3>3. QED
      BY <1>1, <1>9, <1>10, <2>2, <3>2 DEF PathHeld
  <2>8. ConfigHeld'
    BY <1>1, <1>2, <2>1, <2>2, <2>3 DEF ConfigHeld
  <2>9. Paired'
    <3>1. \A i \in DOMAIN db["meta"] : \/ <<db["meta"][i].partition, i>> \in DOMAIN db["vector"]
                                       \/ Drop("meta", i) \in Todo
      BY <1>2 DEF Paired
    <3>2. \A i \in 1..Len(upkeep'.todo), j \in Id, m \in Metadata : upkeep'.todo[i] = Put("meta", j, m) =>
            \/ <<m.partition, j>> \in DOMAIN db'["vector"]
            \/ \E l \in 1..i - 1, x \in Fits : upkeep'.todo[l] = Put("vector", <<m.partition, j>>, x)
      <4>1. \A j, m, x : w = Put("vector", <<m.partition, j>>, x) => <<m.partition, j>> = <<p, id>>
        BY <2>1, PutsDiffer
      <4>2. ASSUME NEW i \in 1..Len(upkeep'.todo), NEW j \in Id, NEW m \in Metadata, upkeep'.todo[i] = Put("meta", j, m)
            PROVE  \/ <<m.partition, j>> \in DOMAIN db'["vector"]
                   \/ \E l \in 1..i - 1, x \in Fits : upkeep'.todo[l] = Put("vector", <<m.partition, j>>, x)
        <5>1. \/ <<m.partition, j>> \in DOMAIN db["vector"]
              \/ \E x \in Fits : w = Put("vector", <<m.partition, j>>, x)
              \/ \E l \in 1..i - 1, x \in Fits : upkeep'.todo[l] = Put("vector", <<m.partition, j>>, x)
          BY <1>8, <4>2
        <5>2. QED
          BY <2>2, <4>1, <5>1
      <4>3. QED
        BY <4>2
    <3>3. QED
      BY <1>1, <2>2, <2>5, <3>1, <3>2 DEF Paired
  <2>10. Complete'
    <3>1. \A q, e : w = Put("vector", <<q, e.id>>, e.vec) => <<q, e.id>> = <<p, id>>
      BY <2>1, PutsDiffer
    <3>2. QED
      BY <1>1, <1>2, <2>2, <2>4, <3>1 DEF Complete
  <2>11. QED
    BY <2>7, <2>8, <2>9, <2>10
<1>15. ASSUME op # "erase", IsMetaPut(w) PROVE (PathHeld /\ ConfigHeld /\ Paired /\ Complete)'
  <2>1. PICK id \in Id, m \in Metadata : w = Put("meta", id, m)
    BY <1>15 DEF IsMetaPut
  <2>2. /\ DOMAIN db'["meta"] = DOMAIN db["meta"] \cup {id}
        /\ db'["meta"][id] = m
        /\ \A k \in DOMAIN db["meta"] : k # id => db'["meta"][k] = db["meta"][k]
        /\ UNCHANGED <<db["config"], db["centroid"], db["vector"]>>
    BY <2>1, MetaWritten DEF w
  <2>3. w \in Todo
    BY <1>1
  <2>4. \A key, v : Put("vector", key, v) \in Todo => Put("vector", key, v) \in Todo'
    BY <1>1, <2>1, PutsDiffer
  <2>5. \A key : Drop("meta", key) \in Todo => Drop("meta", key) \in Todo'
    BY <1>1, <2>1, PutsDiffer
  <2>6. \A i, n : Put("meta", i, n) \in Todo => i = id \/ Put("meta", i, n) \in Todo'
    BY <1>1, <2>1, PutsDiffer
  <2>7. <<m.partition, id>> \in DOMAIN db["vector"]
    BY <1>8, <2>1
  <2>8. PathHeld'
    <3>1. \A i \in DOMAIN db'["meta"] : HoldsMeta(i, db'["meta"][i])
      BY <1>9, <2>1, <2>2, <2>3
    <3>2. \A i \in DOMAIN db'["meta"] : HoldsMeta(i, db["meta"][i])'
      BY <1>1, <3>1 DEF HoldsMeta, Entries
    <3>3. QED
      BY <1>1, <1>9, <1>10, <2>2, <3>2 DEF PathHeld
  <2>9. ConfigHeld'
    BY <1>1, <1>2, <2>2 DEF ConfigHeld
  <2>10. Paired'
    <3>1. \A i \in DOMAIN db'["meta"] : \/ <<db'["meta"][i].partition, i>> \in DOMAIN db["vector"]
                                        \/ Drop("meta", i) \in Todo'
      <4>1. ASSUME NEW i \in DOMAIN db["meta"], i # id
            PROVE  <<db["meta"][i].partition, i>> \in DOMAIN db["vector"] \/ Drop("meta", i) \in Todo'
        BY <1>2, <2>5 DEF Paired
      <4>2. QED
        BY <2>2, <2>7, <4>1
    <3>2. \A i \in 1..Len(upkeep'.todo), j \in Id, n \in Metadata : upkeep'.todo[i] = Put("meta", j, n) =>
            \/ <<n.partition, j>> \in DOMAIN db["vector"]
            \/ \E l \in 1..i - 1, x \in Fits : upkeep'.todo[l] = Put("vector", <<n.partition, j>>, x)
      <4>1. \A key, v : w # Put("vector", key, v)
        BY <2>1, PutsDiffer
      <4>2. ASSUME NEW i \in 1..Len(upkeep'.todo), NEW j \in Id, NEW n \in Metadata, upkeep'.todo[i] = Put("meta", j, n)
            PROVE  \/ <<n.partition, j>> \in DOMAIN db["vector"]
                   \/ \E l \in 1..i - 1, x \in Fits : upkeep'.todo[l] = Put("vector", <<n.partition, j>>, x)
        BY <1>8, <4>1, <4>2
      <4>3. QED
        BY <4>2
    <3>3. QED
      BY <2>2, <3>1, <3>2 DEF Paired
  <2>11. Complete'
    BY <1>1, <1>2, <2>2, <2>4, <2>6 DEF Complete
  <2>12. QED
    BY <2>8, <2>9, <2>10, <2>11
<1>16. CASE op = "erase"
  <2> DEFINE id == upkeep.call.id
             key == <<db["meta"][id].partition, id>>
             m == Drop("meta", id)
  <2>1. /\ id \in DOMAIN db["meta"]
        /\ \/ w = Drop("vector", key) /\ Todo' = {m} /\ upkeep'.todo = <<m>>
           \/ w = m /\ Todo' = {} /\ upkeep'.todo = <<>> /\ Len(upkeep.todo) = 1
    BY <1>16, ErasureIs DEF w
  <2>2. \A x : x \in Todo \/ x \in Todo' => x = Drop("vector", key) \/ x = m
    <3> HIDE DEF m, key
    <3>1. QED
      BY <1>1, <2>1
  <2>3. \A f, l, x : Put(f, l, x) \notin Todo /\ Put(f, l, x) \notin Todo'
    BY <2>2, PutsDiffer
  <2>4. \A i \in 1..Len(upkeep'.todo) : \A f, l, x : upkeep'.todo[i] # Put(f, l, x)
    <3>1. \A i \in 1..Len(upkeep'.todo) : upkeep'.todo[i] = m
      <4> HIDE DEF m, key
      <4>1. QED
        BY <2>1
    <3>2. QED
      BY <3>1, PutsDiffer
  <2>5. \A i \in DOMAIN db["meta"] :
          \/ <<db["meta"][i].partition, i>> \in DOMAIN db["vector"]
          \/ Drop("meta", i) \in Todo
    BY <1>2 DEF Paired
  <2>6. \A i : Drop("meta", i) \in Todo => i = id
    BY <2>2, PutsDiffer
  <2>7. Complete'
    BY <1>1, <1>16 DEF Complete
  <2>8. CASE w = Drop("vector", key) /\ Todo' = {m} /\ upkeep'.todo = <<m>>
    <3>1. /\ DOMAIN db'["vector"] = DOMAIN db["vector"] \ {key}
          /\ \A k \in DOMAIN db'["vector"] : db'["vector"][k] = db["vector"][k]
          /\ UNCHANGED <<db["config"], db["centroid"], db["meta"]>>
      BY <2>8, VectorDropped DEF w
    <3>2. PathHeld'
      <4>1. \A k \in DOMAIN db'["vector"] : Holds(k[2], db'["vector"][k])
        BY <1>9, <3>1
      <4>2. \A k \in DOMAIN db'["vector"] : Holds(k[2], db["vector"][k])'
        BY <1>1, <4>1 DEF Holds, Entries
      <4>3. QED
        BY <1>9, <1>10, <2>3, <3>1, <4>2 DEF PathHeld
    <3>3. ConfigHeld'
      BY <1>1, <1>2, <2>3, <3>1 DEF ConfigHeld
    <3>4. \A i \in DOMAIN db["meta"] : \/ <<db["meta"][i].partition, i>> \in DOMAIN db'["vector"]
                                       \/ Drop("meta", i) \in Todo'
      <4>1. \A i : i # id => <<db["meta"][i].partition, i>> # key
        OBVIOUS
      <4>2. QED
        BY <2>5, <2>6, <2>8, <3>1, <4>1
    <3>5. Paired'
      BY <2>4, <3>1, <3>4 DEF Paired
    <3>6. QED
      BY <1>6, <1>7, <2>7, <3>2, <3>3, <3>5
  <2>9. CASE w = m /\ Todo' = {} /\ upkeep'.todo = <<>> /\ Len(upkeep.todo) = 1
    <3>1. /\ DOMAIN db'["meta"] = DOMAIN db["meta"] \ {id}
          /\ \A k \in DOMAIN db'["meta"] : db'["meta"][k] = db["meta"][k]
          /\ UNCHANGED <<db["config"], db["centroid"], db["vector"]>>
      BY <2>9, MetaDropped DEF w
    <3>2. PathHeld'
      <4>1. \A i \in DOMAIN db'["meta"] : HoldsMeta(i, db'["meta"][i])
        BY <1>9, <3>1
      <4>2. \A i \in DOMAIN db'["meta"] : HoldsMeta(i, db["meta"][i])'
        BY <1>1, <4>1 DEF HoldsMeta, Entries
      <4>3. QED
        BY <1>9, <1>10, <2>3, <3>1, <4>2 DEF PathHeld
    <3>3. ConfigHeld'
      BY <1>1, <1>2, <2>3, <3>1 DEF ConfigHeld
    <3>4. \A i \in DOMAIN db'["meta"] : <<db'["meta"][i].partition, i>> \in DOMAIN db["vector"]
      BY <2>5, <2>6, <3>1
    <3>5. Paired'
      BY <2>4, <3>1, <3>4 DEF Paired
    <3>6. QED
      BY <1>6, <1>7, <2>7, <3>2, <3>3, <3>5
  <2>10. QED
    BY <2>1, <2>8, <2>9
<1>17. QED
  BY <1>3, <1>4, <1>6, <1>7, <1>12, <1>13, <1>14, <1>15, <1>16

\* The puts of the vectors, and what they leave nothing out of.
LEMMA VectorPutsHold ==
  ASSUME IndexTypes
  PROVE  /\ \A q, id, vec : Put("vector", <<q, id>>, vec) \in Range(VectorPuts) =>
              Holds(id, vec)
         /\ \A id, m : Put("meta", id, m) \in Range(VectorPuts) => HoldsMeta(id, m)
         /\ \A p \in 1..Partitions : \A e \in Range(partitions[p]) :
              /\ Put("vector", <<p, e.id>>, e.vec) \in Range(VectorPuts)
              /\ \E m \in Metadata : Put("meta", e.id, m) \in Range(VectorPuts)
<1> DEFINE M(p, e) == [partition |-> p, level |-> e.level]
           V(p, e) == Put("vector", <<p, e.id>>, e.vec)
           W(p, e) == Put("meta", e.id, M(p, e))
<1>1. ASSUME NEW p \in 1..Partitions, NEW e \in Range(partitions[p])
      PROVE  /\ e \in Fitting /\ M(p, e) \in Metadata
             /\ \A w : w \in Range(EntryPuts(p, e)) <=> w = V(p, e) \/ w = W(p, e)
  <2>1. e \in Fitting
    BY RangeWithin DEF IndexTypes
  <2>2. e.level \in Level
    BY <2>1 DEF Fitting, Entry
  <2>3. QED
    BY <2>1, <2>2, EntryPutsAre DEF Metadata
<1>2. \A w : w \in Range(VectorPuts) <=>
        \E p \in 1..Partitions : \E e \in Range(partitions[p]) : w \in Range(EntryPuts(p, e))
  BY VectorPutsAre
<1> HIDE DEF M
<1>3. \A w : w \in Range(VectorPuts) <=>
        \E p \in 1..Partitions : \E e \in Range(partitions[p]) : w = V(p, e) \/ w = W(p, e)
  <2>1. \A p \in 1..Partitions : \A e \in Range(partitions[p]) : \A w :
          w \in Range(EntryPuts(p, e)) <=> w = V(p, e) \/ w = W(p, e)
    BY <1>1
  <2> HIDE DEF V, W
  <2>2. QED
    BY <1>2, <2>1
<1>4. ASSUME NEW q, NEW id, NEW vec, Put("vector", <<q, id>>, vec) \in Range(VectorPuts)
      PROVE  Holds(id, vec)
  <2>1. PICK p \in 1..Partitions : \E e \in Range(partitions[p]) :
               Put("vector", <<q, id>>, vec) = V(p, e) \/ Put("vector", <<q, id>>, vec) = W(p, e)
    BY <1>3, <1>4
  <2>2. PICK e \in Range(partitions[p]) :
               Put("vector", <<q, id>>, vec) = V(p, e) \/ Put("vector", <<q, id>>, vec) = W(p, e)
    BY <2>1
  <2>3. <<q, id>> = <<p, e.id>> /\ vec = e.vec
    BY <2>2, PutsDiffer
  <2>4. q = p /\ id = e.id
    BY <2>3
  <2>5. e \in Entries
    BY EntriesAre
  <2>6. QED
    BY <2>3, <2>4, <2>5 DEF Holds
<1>5. ASSUME NEW id, NEW m, Put("meta", id, m) \in Range(VectorPuts) PROVE HoldsMeta(id, m)
  <2>1. PICK p \in 1..Partitions : \E e \in Range(partitions[p]) :
               Put("meta", id, m) = V(p, e) \/ Put("meta", id, m) = W(p, e)
    BY <1>3, <1>5
  <2>2. PICK e \in Range(partitions[p]) : Put("meta", id, m) = V(p, e) \/ Put("meta", id, m) = W(p, e)
    BY <2>1
  <2>3. id = e.id /\ m = M(p, e)
    BY <2>2, PutsDiffer
  <2>4. m.level = e.level
    BY <2>3 DEF M
  <2>5. e \in Entries
    BY EntriesAre
  <2>6. QED
    BY <2>3, <2>4, <2>5 DEF HoldsMeta
<1>6. ASSUME NEW p \in 1..Partitions, NEW e \in Range(partitions[p])
      PROVE  /\ Put("vector", <<p, e.id>>, e.vec) \in Range(VectorPuts)
             /\ \E m \in Metadata : Put("meta", e.id, m) \in Range(VectorPuts)
  <2>1. V(p, e) \in Range(VectorPuts) /\ W(p, e) \in Range(VectorPuts) /\ M(p, e) \in Metadata
    BY <1>1, <1>3
  <2>2. QED
    BY <2>1
<1>7. QED
  BY <1>4, <1>5, <1>6

\* (See PathKept.)
LEMMA CopyPath == TypeInv /\ PathInv /\ ConfigFirst /\ (CopyCentroids \/ CopyVectors) => PathInv'
<1> SUFFICES ASSUME TypeInv, PathInv, ConfigFirst, CopyCentroids \/ CopyVectors, orderly'
             PROVE  (Uniform /\ OffThePath /\ PathHeld /\ ConfigHeld /\ Paired /\ Complete)'
  BY DEF PathInv
<1>1. /\ UNCHANGED <<centroids, partitions, trained, thread, db, orderly>>
      /\ DOMAIN upkeep = {"call", "stage", "todo"} /\ upkeep.call.op = "save" /\ upkeep.todo = <<>>
  BY DEF CopyCentroids, CopyVectors, index, history, TypeInv, UpkeepTypes
<1>2. Uniform /\ OffThePath /\ PathHeld /\ ConfigHeld /\ Paired
  BY <1>1 DEF PathInv
<1>3. upkeep'.call = upkeep.call
  BY <1>1 DEF CopyCentroids, CopyVectors
<1>4. Todo = {}
  BY <1>1, TodoIs
<1>5. Uniform' /\ OffThePath'
  BY <1>1, <1>2, <1>3 DEF Uniform, OffThePath, Entries, Offered
<1>6. /\ \A k \in DOMAIN db["vector"] : Holds(k[2], db["vector"][k])
      /\ \A id \in DOMAIN db["meta"] : HoldsMeta(id, db["meta"][id])
      /\ DOMAIN db["vector"] # {} => db["config"] # <<>>
      /\ \A id \in DOMAIN db["meta"] : <<db["meta"][id].partition, id>> \in DOMAIN db["vector"]
  BY <1>2, <1>4 DEF PathHeld, ConfigHeld, Paired
<1>7. CASE CopyCentroids
  <2>1. upkeep'.todo = CentroidPuts /\ upkeep'.stage = "vectors"
    BY <1>1, <1>7 DEF CopyCentroids
  <2>2. /\ CentroidPuts \in Seq(CentroidWrites)
        /\ \A w : w \in Todo' <=> \E p \in DOMAIN centroids : w = Put("centroid", p, centroids[p])
    BY <2>1, CentroidPutsAre DEF TypeInv, Todo
  <2>3. \A f \in {"vector", "meta"} : \A key, v : Put(f, key, v) \notin Todo'
    BY <2>2, PutsDiffer
  <2>4. \A i \in 1..Len(upkeep'.todo) : \A key, v : upkeep'.todo[i] # Put("meta", key, v)
    <3>1. \A i \in 1..Len(upkeep'.todo) : upkeep'.todo[i] \in Todo'
      BY <2>1, <2>2, RangeHolds DEF Todo
    <3>2. QED
      BY <2>3, <3>1
  <2>5. PathHeld' /\ ConfigHeld'
    BY <1>1, <1>6, <2>3 DEF PathHeld, ConfigHeld, Holds, HoldsMeta, Entries
  <2>6. Paired'
    BY <1>1, <1>6, <2>4 DEF Paired
  <2>7. Complete'
    BY <2>1 DEF Complete
  <2>8. QED
    BY <1>5, <2>5, <2>6, <2>7
<1>8. CASE CopyVectors
  <2>1. upkeep'.todo = VectorPuts /\ upkeep'.stage = "done" /\ upkeep.stage = "vectors"
    BY <1>1, <1>8 DEF CopyVectors
  <2>2. /\ \A q, id, vec : Put("vector", <<q, id>>, vec) \in Todo' => Holds(id, vec)
        /\ \A id, m : Put("meta", id, m) \in Todo' => HoldsMeta(id, m)
        /\ \A p \in 1..Partitions : \A e \in Range(partitions[p]) :
             /\ Put("vector", <<p, e.id>>, e.vec) \in Todo'
             /\ \E m \in Metadata : Put("meta", e.id, m) \in Todo'
        /\ Follows(upkeep'.todo)
    BY <2>1, VectorPutsHold, VectorPutsFollow DEF TypeInv, Todo
  <2>3. db["config"] # <<>>
    BY <1>1, <2>1 DEF ConfigFirst
  <2>4. PathHeld'
    BY <1>1, <1>6, <2>2 DEF PathHeld, Holds, HoldsMeta, Entries
  <2>5. ConfigHeld'
    BY <1>1, <2>3 DEF ConfigHeld
  <2>6. Paired'
    BY <1>1, <1>6, <2>2 DEF Paired, Follows
  <2>7. Complete'
    BY <1>1, <2>2 DEF Complete
  <2>8. QED
    BY <1>5, <2>4, <2>5, <2>6, <2>7
<1>9. QED
  BY <1>7, <1>8

\* (See PathKept.)
LEMMA EndPath == TypeInv /\ PathInv /\ EndUpkeep => PathInv'
<1> SUFFICES ASSUME TypeInv, PathInv, EndUpkeep, orderly'
             PROVE  (Uniform /\ OffThePath /\ PathHeld /\ ConfigHeld /\ Paired /\ Complete)'
  BY DEF PathInv
<1>1. /\ UNCHANGED <<centroids, partitions, thread, db, orderly>> /\ upkeep.todo = <<>>
      /\ upkeep'.call.op = "none" /\ upkeep'.todo = <<>>
  BY DEF EndUpkeep, index, NoUpkeep, NoCall
<1>2. Uniform /\ OffThePath /\ PathHeld /\ ConfigHeld /\ Paired
  BY <1>1 DEF PathInv
<1>3. Todo = {} /\ Todo' = {}
  <2>1. Todo = {}
    BY <1>1, TodoIs
  <2>2. Todo' = Todo
    BY <1>1 DEF Todo
  <2>3. QED
    BY <2>1, <2>2
<1>4. Offered' \subseteq Offered /\ Entries' = Entries
  BY <1>1 DEF Offered, Entries
<1>5. Uniform' /\ OffThePath'
  BY <1>1, <1>2, <1>4 DEF Uniform, OffThePath
<1>6. PathHeld' /\ ConfigHeld'
  BY <1>1, <1>2, <1>3, <1>4 DEF PathHeld, ConfigHeld, Holds, HoldsMeta
<1>7. Paired'
  <2>1. \A i \in 1..Len(upkeep'.todo) : FALSE
    BY <1>1
  <2>2. QED
    BY <1>1, <1>2, <1>3, <2>1 DEF Paired
<1>8. Complete'
  BY <1>1 DEF Complete
<1>9. QED
  BY <1>5, <1>6, <1>7, <1>8

\* Between calls nothing is left to write, and metadata lead to their vector.
LEMMA AtRest ==
  ASSUME TypeInv, Paired, ~Busy
  PROVE  /\ upkeep.call.op = "none" /\ upkeep.todo = <<>> /\ Todo = {}
         /\ \A id \in DOMAIN db["meta"] : <<db["meta"][id].partition, id>> \in DOMAIN db["vector"]
<1>1. upkeep.call.op = "none" /\ upkeep.todo = <<>>
  BY DEF Busy, NoCall, TypeInv, UpkeepTypes
<1>2. Todo = {}
  BY <1>1, TodoIs
<1>3. QED
  BY <1>1, <1>2 DEF Paired

\* (See PathKept.)
LEMMA RestartPath == TypeInv /\ PathInv /\ Restart => PathInv'
<1> SUFFICES ASSUME TypeInv, PathInv, Restart, orderly'
             PROVE  (Uniform /\ OffThePath /\ PathHeld /\ ConfigHeld /\ Paired /\ Complete)'
  BY DEF PathInv
<1>1. orderly /\ ~Busy /\ db' = db /\ upkeep'.call.op = "none" /\ upkeep'.todo = <<>>
  BY DEF Restart, NoUpkeep, NoCall
<1>2. Uniform /\ PathHeld /\ ConfigHeld /\ Paired
  BY <1>1 DEF PathInv
<1>3. /\ upkeep.call.op = "none" /\ upkeep.todo = <<>> /\ Todo = {}
      /\ \A id \in DOMAIN db["meta"] : <<db["meta"][id].partition, id>> \in DOMAIN db["vector"]
  BY <1>1, <1>2, AtRest
<1>4. Todo' = {}
  <2>1. Todo' = Todo
    BY <1>1, <1>3 DEF Todo
  <2>2. QED
    BY <1>3, <2>1
<1>5. \A t \in Thread : thread'[t].call.op = "none"
  BY DEF Restart, Resting, NoCall
<1>6. IndexTypes'
  BY RestartTypes DEF TypeInv
<1>7. OffThePath' /\ Complete' /\ Offered' = {}
  BY <1>1, <1>5 DEF OffThePath, Complete, Offered
<1>8. Paired'
  <2>1. \A i \in 1..Len(upkeep'.todo) : FALSE
    BY <1>1
  <2>2. QED
    BY <1>1, <1>3, <2>1 DEF Paired
<1>9. ConfigHeld'
  BY <1>1, <1>2, <1>4 DEF ConfigHeld
<1>10. \A e : e \in Entries' <=> \E k \in DOMAIN db["vector"] : e = RestoredEntry(k)
  <2>1. \A e : e \in Entries' <=> \E p \in 1..Partitions : e \in Range(partitions'[p])
    <3>1. DOMAIN partitions' = 1..Partitions
      BY <1>6 DEF IndexTypes
    <3>2. QED
      BY <3>1 DEF Entries
  <2>2. CASE db["config"] = <<>>
    <3>1. \A p \in 1..Partitions : Range(partitions'[p]) = {}
      <4>1. Range(<<>>) = {}
        BY DEF Range
      <4>2. QED
        BY <2>2, <4>1 DEF Restart, Empty
    <3>2. DOMAIN db["vector"] = {}
      BY <1>2, <2>2 DEF ConfigHeld
    <3>3. QED
      BY <2>1, <3>1, <3>2
  <2>3. CASE db["config"] # <<>>
    <3>1. partitions' = Reloaded
      BY <2>3 DEF Restart, Reloaded
    <3>2. QED
      BY <2>1, <3>1, RestoredAgain
  <2>4. QED
    BY <2>2, <2>3
<1>11. \A k \in DOMAIN db["vector"] :
         /\ RestoredEntry(k).id = k[2] /\ RestoredEntry(k).vec = db["vector"][k]
         /\ k[2] \in DOMAIN db["meta"] => RestoredEntry(k).level = db["meta"][k[2]].level
  BY RestoredAgain
<1>12. Uniform'
  <2>1. ASSUME NEW e \in Entries', NEW f \in Entries', e.id = f.id PROVE e = f
    <3>1. PICK k \in DOMAIN db["vector"] : e = RestoredEntry(k)
      BY <1>10
    <3>2. PICK l \in DOMAIN db["vector"] : f = RestoredEntry(l)
      BY <1>10
    <3>3. k[2] = l[2]
      BY <1>11, <2>1, <3>1, <3>2
    <3>4. QED
      BY <1>2, <3>1, <3>2, <3>3, RestoredAlike
  <2>2. QED
    BY <1>7, <2>1 DEF Uniform
<1>13. ASSUME NEW k \in DOMAIN db["vector"] PROVE Holds(k[2], db["vector"][k])'
  <2>1. RestoredEntry(k) \in Entries'
    BY <1>10
  <2>2. QED
    BY <1>1, <1>11, <2>1 DEF Holds
<1>14. ASSUME NEW id \in DOMAIN db["meta"] PROVE HoldsMeta(id, db["meta"][id])'
  <2>1. PICK k \in DOMAIN db["vector"] : k = <<db["meta"][id].partition, id>>
    BY <1>3
  <2>2. k[2] = id
    BY <2>1
  <2>3. RestoredEntry(k) \in Entries'
    BY <1>10
  <2>4. QED
    BY <1>1, <1>11, <2>2, <2>3 DEF HoldsMeta
<1>15. PathHeld'
  BY <1>1, <1>4, <1>13, <1>14 DEF PathHeld
<1>16. QED
  BY <1>7, <1>8, <1>9, <1>12, <1>15

\* (See PathKept.)
LEMMA NextPath == TypeInv /\ FoundInv /\ ConfigFirst /\ PathInv /\ [Next]_vars => PathInv'
<1>1. PathInv /\ UNCHANGED vars => PathInv'
  BY DEF PathInv, Uniform, OffThePath, PathHeld, ConfigHeld, Paired, Complete, Holds, HoldsMeta,
         Entries, Offered, Todo, vars, index, history
<1>2. QED
  BY <1>1, ServePath, BeginPath, WritePath, CopyPath, EndPath, RestartPath DEF Next

\* In orderly use the path says of each vector what the index does, and a save
\* leaves none out.
THEOREM PathKept == Spec => [](ConfigFirst /\ PathInv)
<1>1. PersistInit => ConfigFirst /\ PathInv
  BY NextConfig, InitPath
<1>2. TypeInv /\ FoundInv /\ (ConfigFirst /\ PathInv) /\ [Next]_vars => (ConfigFirst /\ PathInv)'
  BY NextConfig, NextPath
<1>3. QED
  BY <1>1, <1>2, Typed, Founded, PTL DEF Spec

\* "Partition ID where the vector belongs" (ivf_persist.rs 42): what is in
\* memory and on the path is well formed, and in orderly use, between calls,
\* metadata lead to a key of their vector, and a key has a vector that the index
\* holds under its id.
THEOREM PathsArePaired == Spec => []KeysPaired
<1>1. TypeInv => TypesFit
  <2> SUFFICES ASSUME TypeInv PROVE TypesFit
    OBVIOUS
  <2>1. \A e \in Entries : e \in Fitting
    BY EntriesAre, RangeWithin DEF TypeInv, IndexTypes
  <2>2. \A e \in Entries : e \in Entry /\ e.vec \in Fits
    BY <2>1 DEF Fitting
  <2>3. MapsTo(db["vector"], (1..Partitions) \X Id, Vec)
    BY IndexAssumption DEF TypeInv, DbTypes, MapsTo
  <2>4. \A t \in Thread : thread[t].call \in CallsOf[t] \cup {NoCall}
    BY DEF TypeInv, ThreadTypes
  <2>5. QED
    BY <2>2, <2>3, <2>4 DEF TypesFit, TypeInv, IndexTypes, ThreadTypes, DbTypes, Metadata
<1>2. ASSUME TypeInv, PathInv, orderly, ~Busy
      PROVE  /\ \A id \in DOMAIN db["meta"] : <<db["meta"][id].partition, id>> \in DOMAIN db["vector"]
             /\ \A k \in DOMAIN db["vector"] : [id |-> k[2], vec |-> db["vector"][k]] \in Contents
  <2>1. PathHeld /\ Paired
    BY <1>2 DEF PathInv
  <2>2. ASSUME NEW k \in DOMAIN db["vector"] PROVE [id |-> k[2], vec |-> db["vector"][k]] \in Contents
    <3>1. PICK e \in Entries : e.id = k[2] /\ e.vec = db["vector"][k]
      BY <2>1 DEF PathHeld, Holds
    <3>2. QED
      BY <3>1, ContentsAre
  <2>3. QED
    BY <1>2, <2>1, <2>2, AtRest
<1>3. TypeInv /\ PathInv => KeysPaired
  BY <1>1, <1>2 DEF KeysPaired
<1>4. QED
  BY <1>3, Typed, PathKept, PTL

\* In orderly use a load after a finished save gives back the entries, each with
\* its level, and the centroids (index_test.rs 124-161), whichever places these
\* come to.
THEOREM SavesAreExact == Spec => SaveExact
<1>1. ASSUME TypeInv, FoundInv, PathInv, EndUpkeep, upkeep.call.op = "save", orderly
      PROVE  /\ Len(RestoredCentroids) = Partitions /\ Range(RestoredCentroids) = Range(centroids)
             /\ UNION {Range(RestoredPartitions(RestoredCentroids)[p]) : p \in 1..Partitions} = Entries
  <2>1. Uniform /\ PathHeld /\ Complete /\ Placed /\ CentroidsSaved
    BY <1>1 DEF PathInv, FoundInv
  <2>2. upkeep.todo = <<>> /\ upkeep.stage = "done"
    BY <1>1 DEF EndUpkeep
  <2>3. Todo = {}
    BY <1>1, <2>2, TodoIs
  <2>4. db["centroid"] = centroids /\ DOMAIN db["centroid"] = 1..Partitions
    BY <1>1, <2>1, <2>2 DEF CentroidsSaved, Placed
  <2>5. Len(RestoredCentroids) = Partitions /\ Range(RestoredCentroids) = Range(centroids)
    BY <1>1, <2>4, RestoredCentroidsAre DEF TypeInv, DbTypes
  <2>6. \A e : e \in Entries <=> \E p \in 1..Partitions : e \in Range(partitions[p])
    BY <1>1, EntriesAre DEF TypeInv
  <2>7. \A k \in DOMAIN db["vector"] :
          /\ RestoredEntry(k).id = k[2] /\ RestoredEntry(k).vec = db["vector"][k]
          /\ k[2] \in DOMAIN db["meta"] => RestoredEntry(k).level = db["meta"][k[2]].level
    BY <1>1, RestoredAgain
  <2>8. ASSUME NEW e \in Entries, NEW k \in DOMAIN db["vector"], k[2] = e.id PROVE RestoredEntry(k) = e
    <3>1. e.id \in DOMAIN db["meta"]
      BY <1>1, <2>1, <2>2, <2>3, <2>6 DEF Complete
    <3>2. PICK f \in Entries : f.id = k[2] /\ f.vec = db["vector"][k]
      BY <2>1 DEF PathHeld, Holds
    <3>3. PICK g \in Entries : g.id = e.id /\ g.level = db["meta"][e.id].level
      BY <2>1, <3>1 DEF PathHeld, HoldsMeta
    <3>4. f = e /\ g = e
      BY <2>1, <2>8, <3>2, <3>3 DEF Uniform
    <3>5. RestoredEntry(k) = [id |-> e.id, vec |-> e.vec, level |-> e.level]
      BY <2>8, <3>1, <3>2, <3>3, <3>4 DEF RestoredEntry
    <3>6. e \in Entry
      BY <1>1, <2>6, RangeWithin DEF TypeInv, IndexTypes, Fitting
    <3>7. e = [id |-> e.id, vec |-> e.vec, level |-> e.level]
      BY <3>6 DEF Entry
    <3>8. QED
      BY <3>5, <3>7
  <2>9. ASSUME NEW e \in Entries PROVE \E k \in DOMAIN db["vector"] : e = RestoredEntry(k)
    <3>1. PICK p \in 1..Partitions : e \in Range(partitions[p])
      BY <2>6
    <3>2. PICK k \in DOMAIN db["vector"] : k = <<p, e.id>>
      BY <1>1, <2>1, <2>2, <2>3, <3>1 DEF Complete
    <3>3. k[2] = e.id
      BY <3>2
    <3>4. QED
      BY <2>8, <3>3
  <2>10. ASSUME NEW k \in DOMAIN db["vector"] PROVE RestoredEntry(k) \in Entries
    <3>1. PICK e \in Entries : e.id = k[2]
      BY <2>1 DEF PathHeld, Holds
    <3>2. QED
      BY <2>8, <3>1
  <2>11. \A x : (\E p \in 1..Partitions : x \in Range(Reloaded[p])) <=> x \in Entries
    BY <1>1, <2>9, <2>10, RestoredAgain
  <2>12. UNION {Range(Reloaded[p]) : p \in 1..Partitions} = Entries
    <3>1. \A x : x \in UNION {Range(Reloaded[p]) : p \in 1..Partitions} <=>
            \E p \in 1..Partitions : x \in Range(Reloaded[p])
      OBVIOUS
    <3>2. QED
      BY <2>11, <3>1
  <2>13. QED
    BY <2>5, <2>12 DEF Reloaded
<1>2. TypeInv /\ FoundInv /\ (ConfigFirst /\ PathInv) =>
        [EndUpkeep /\ upkeep.call.op = "save" /\ orderly =>
           /\ Len(RestoredCentroids) = Partitions /\ Range(RestoredCentroids) = Range(centroids)
           /\ UNION {Range(RestoredPartitions(RestoredCentroids)[p]) : p \in 1..Partitions} = Entries]_vars
  BY <1>1
<1>3. QED
  BY <1>2, Typed, Founded, PathKept, PTL DEF SaveExact
==============================================================================
