-------------------------- MODULE MemoryCacheProofs --------------------------
(***************************************************************************)
(* Proofs about MemoryCache for any number of packages, any artifact sizes *)
(* and any limits: capacity, accounting, the order of evictions, and that  *)
(* the two tiers implement TierCache.                                      *)
(***************************************************************************)
EXTENDS MemoryCache, FiniteSetTheorems, WellFoundedInduction, TLAPS

-----------------------------------------------------------------------------
(* A set of naturals that is not empty has a least element. *)
LEMMA LeastNatural ==
  ASSUME NEW T, T \subseteq Nat, T # {}
  PROVE  \E x \in T : \A y \in T : x <= y
<1> DEFINE R == OpToRel(<, Nat)
<1>1. IsWellFoundedOn(R, Nat)
  BY NatLessThanWellFounded, Zenon
<1>2. PICK x \in T : \A y \in T : ~(<<y, x>> \in R)
  BY <1>1, WFMin, Zenon
<1>3. \A y \in T : ~(y < x)
  BY <1>2, Zenon DEF OpToRel
<1> QED
  BY <1>3

(* Induction on the naturals, stated for a set. *)
LEMMA NaturalInduction ==
  ASSUME NEW S, 0 \in S, \A n \in Nat : n \in S => n + 1 \in S
  PROVE  Nat \subseteq S
<1> SUFFICES ASSUME Nat \ S # {} PROVE FALSE
  OBVIOUS
<1>1. PICK x \in Nat \ S : \A y \in Nat \ S : x <= y
  BY LeastNatural, Zenon
<1>2. x # 0 /\ x - 1 \in Nat
  BY <1>1
<1>3. x - 1 \in S
  BY <1>1, <1>2
<1> QED
  BY <1>1, <1>2, <1>3

-----------------------------------------------------------------------------
(* ByteSum: the recursion it is written with has a solution. *)
Weight(size, S) == [k \in Nat |-> IF k \in S THEN size[k] ELSE 0]

Accumulates(f, w) == f = [k \in Nat |-> IF k = 0 THEN 0 ELSE f[k - 1] + w[k]]

(* Solutions up to n. *)
Partial(w, n) ==
  {g \in [0 .. n -> Nat] : g[0] = 0 /\ \A k \in 1 .. n : g[k] = g[k - 1] + w[k]}

LEMMA PartialExists ==
  ASSUME NEW w \in [Nat -> Nat], NEW n \in Nat
  PROVE  Partial(w, n) # {}
<1> DEFINE Solvable == {m \in Nat : Partial(w, m) # {}}
<1>1. 0 \in Solvable
  <2>1. [k \in 0 .. 0 |-> 0] \in Partial(w, 0)
    BY DEF Partial
  <2> QED
    BY <2>1
<1>2. ASSUME NEW m \in Nat, m \in Solvable PROVE m + 1 \in Solvable
  <2>1. PICK g : g \in Partial(w, m)
    BY <1>2
  <2>2. /\ g \in [0 .. m -> Nat] /\ g[0] = 0
        /\ \A k \in 1 .. m : g[k] = g[k - 1] + w[k]
    BY <2>1, Zenon DEF Partial
  <2> DEFINE h == [k \in 0 .. m + 1 |-> IF k <= m THEN g[k] ELSE g[m] + w[m + 1]]
  <2>3. ASSUME NEW k \in 0 .. m + 1 PROVE h[k] \in Nat
    <3>1. CASE k <= m
      BY <2>2, <3>1
    <3>2. CASE ~(k <= m)
      <4>1. g[m] \in Nat /\ w[m + 1] \in Nat
        BY <2>2
      <4>2. h[k] = g[m] + w[m + 1]
        BY <3>2
      <4> QED
        BY <4>1, <4>2
    <3> QED
      BY <3>1, <3>2
  <2>4. h \in [0 .. m + 1 -> Nat]
    BY <2>3
  <2>5. h[0] = 0
    BY <2>2
  <2>6. ASSUME NEW k \in 1 .. m + 1 PROVE h[k] = h[k - 1] + w[k]
    <3>1. CASE k <= m
      BY <2>2, <3>1
    <3>2. CASE k = m + 1
      BY <2>2, <3>2
    <3> QED
      BY <3>1, <3>2
  <2> HIDE DEF h
  <2>7. h \in Partial(w, m + 1)
    BY <2>4, <2>5, <2>6, Zenon DEF Partial
  <2> QED
    BY <2>7
<1>3. Nat \subseteq Solvable
  <2> HIDE DEF Solvable
  <2> QED
    BY <1>1, <1>2, NaturalInduction
<1> QED
  BY <1>3

LEMMA PartialsAgree ==
  ASSUME NEW w \in [Nat -> Nat], NEW m \in Nat, NEW n \in Nat,
         NEW g \in Partial(w, m), NEW h \in Partial(w, n)
  PROVE  \A i \in Nat : i <= m /\ i <= n => g[i] = h[i]
<1> DEFINE Agreed == {i \in Nat : i <= m /\ i <= n => g[i] = h[i]}
<1>1. 0 \in Agreed
  BY DEF Partial
<1>2. ASSUME NEW i \in Nat, i \in Agreed PROVE i + 1 \in Agreed
  <2> SUFFICES ASSUME i + 1 <= m, i + 1 <= n PROVE g[i + 1] = h[i + 1]
    OBVIOUS
  <2>1. g[i] = h[i]
    BY <1>2
  <2>2. i + 1 \in 1 .. m /\ i + 1 \in 1 .. n /\ (i + 1) - 1 = i
    OBVIOUS
  <2>3. g[i + 1] = g[i] + w[i + 1] /\ h[i + 1] = h[i] + w[i + 1]
    BY <2>2, Zenon DEF Partial
  <2> QED
    BY <2>1, <2>3
<1>3. Nat \subseteq Agreed
  <2> HIDE DEF Agreed
  <2> QED
    BY <1>1, <1>2, NaturalInduction
<1> QED
  BY <1>3

LEMMA AccumulatorExists ==
  ASSUME NEW w \in [Nat -> Nat]
  PROVE  \E f : Accumulates(f, w)
<1> DEFINE Some(n) == CHOOSE g : g \in Partial(w, n)
           f == [k \in Nat |-> Some(k)[k]]
<1>1. \A n \in Nat : Some(n) \in Partial(w, n)
  BY PartialExists
<1>2. ASSUME NEW k \in Nat PROVE f[k] = IF k = 0 THEN 0 ELSE f[k - 1] + w[k]
  <2> HIDE DEF Some
  <2>1. CASE k = 0
    BY <1>1, <2>1 DEF Partial
  <2>2. CASE k # 0
    <3>1. k - 1 \in Nat /\ k - 1 <= k /\ k \in 1 .. k
      BY <2>2
    <3>2. Some(k) \in Partial(w, k) /\ Some(k - 1) \in Partial(w, k - 1)
      BY <1>1, <3>1
    <3>3. Some(k)[k] = Some(k)[k - 1] + w[k]
      BY <3>1, <3>2 DEF Partial
    <3>4. Some(k)[k - 1] = Some(k - 1)[k - 1]
      BY <3>1, <3>2, PartialsAgree
    <3>5. f[k] = Some(k)[k] /\ f[k - 1] = Some(k - 1)[k - 1]
      BY <3>1
    <3> QED
      BY <2>2, <3>3, <3>4, <3>5
  <2> QED
    BY <2>1, <2>2
<1>3. f = [k \in Nat |-> f[k]]
  OBVIOUS
<1> HIDE DEF f
<1>4. f = [k \in Nat |-> IF k = 0 THEN 0 ELSE f[k - 1] + w[k]]
  BY <1>2, <1>3, Zenon
<1> QED
  BY <1>4 DEF Accumulates

(* ByteSum is what such a solution says at the last digest. *)
LEMMA ByteSumAccumulates ==
  ASSUME NEW size, NEW S, Weight(size, S) \in [Nat -> Nat]
  PROVE  \E f : Accumulates(f, Weight(size, S)) /\ ByteSum(size, S) = f[DigestCount]
<1> DEFINE Solves(f) == f = [k \in Nat |-> IF k = 0 THEN 0
                                         ELSE f[k - 1] + (IF k \in S THEN size[k] ELSE 0)]
           upTo == CHOOSE f : Solves(f)
<1>1. \A f : Accumulates(f, Weight(size, S)) <=> Solves(f)
  BY DEF Accumulates, Weight
<1>2. \E f : Solves(f)
  BY <1>1, AccumulatorExists
<1>3. Solves(upTo)
  BY <1>2
<1>4. ByteSum(size, S) = upTo[DigestCount]
  BY DEF ByteSum
<1> QED
  BY <1>1, <1>3, <1>4, Zenon

(* What accumulates is the accumulated weight, at 0 and at every step. *)
LEMMA AccumulatorStep ==
  ASSUME NEW f, NEW w \in [Nat -> Nat], Accumulates(f, w)
  PROVE  f[0] = 0 /\ \A n \in Nat : f[n + 1] = f[n] + w[n + 1]
<1> DEFINE Value(k) == IF k = 0 THEN 0 ELSE f[k - 1] + w[k]
<1>1. f = [k \in Nat |-> Value(k)]
  BY DEF Accumulates
<1>2. \A k \in Nat : f[k] = Value(k)
  <2> HIDE DEF Value
  <2> QED
    BY <1>1
<1>3. ASSUME NEW n \in Nat PROVE f[n + 1] = f[n] + w[n + 1]
  <2>1. n + 1 \in Nat /\ n + 1 # 0 /\ (n + 1) - 1 = n
    OBVIOUS
  <2> QED
    BY <1>2, <2>1
<1> QED
  BY <1>2, <1>3

LEMMA AccumulatorType ==
  ASSUME NEW f, NEW w \in [Nat -> Nat], Accumulates(f, w)
  PROVE  \A n \in Nat : f[n] \in Nat
<1> DEFINE Typed == {n \in Nat : f[n] \in Nat}
<1>f. f[0] = 0 /\ \A n \in Nat : f[n + 1] = f[n] + w[n + 1]
  BY AccumulatorStep, Zenon
<1>1. 0 \in Typed
  BY <1>f
<1>2. ASSUME NEW n \in Nat, n \in Typed PROVE n + 1 \in Typed
  <2>1. f[n + 1] = f[n] + w[n + 1] /\ w[n + 1] \in Nat
    BY <1>f
  <2> QED
    BY <1>2, <2>1
<1>3. Nat \subseteq Typed
  <2> HIDE DEF Typed
  <2> QED
    BY <1>1, <1>2, NaturalInduction
<1> QED
  BY <1>3

(* Accumulating adds up: weights that are sums give sums. *)
LEMMA AccumulatorsAdd ==
  ASSUME NEW f, NEW g, NEW h, NEW v \in [Nat -> Nat], NEW w \in [Nat -> Nat],
         NEW u \in [Nat -> Nat], \A k \in Nat : u[k] = v[k] + w[k],
         Accumulates(f, u), Accumulates(g, v), Accumulates(h, w)
  PROVE  \A n \in Nat : f[n] = g[n] + h[n]
<1> DEFINE Added == {n \in Nat : f[n] = g[n] + h[n]}
<1>f. f[0] = 0 /\ \A n \in Nat : f[n + 1] = f[n] + u[n + 1]
  BY AccumulatorStep, Zenon
<1>g. g[0] = 0 /\ \A n \in Nat : g[n + 1] = g[n] + v[n + 1]
  BY AccumulatorStep, Zenon
<1>h. h[0] = 0 /\ \A n \in Nat : h[n + 1] = h[n] + w[n + 1]
  BY AccumulatorStep, Zenon
<1>1. 0 \in Added
  BY <1>f, <1>g, <1>h
<1>2. ASSUME NEW n \in Nat, n \in Added PROVE n + 1 \in Added
  <2>1. /\ f[n + 1] = f[n] + u[n + 1]
        /\ g[n + 1] = g[n] + v[n + 1]
        /\ h[n + 1] = h[n] + w[n + 1]
    BY <1>f, <1>g, <1>h, Zenon
  <2>2. u[n + 1] = v[n + 1] + w[n + 1] /\ v[n + 1] \in Nat /\ w[n + 1] \in Nat
    OBVIOUS
  <2>3. g[n] \in Nat /\ h[n] \in Nat
    BY AccumulatorType, Zenon
  <2> QED
    BY <1>2, <2>1, <2>2, <2>3
<1>3. Nat \subseteq Added
  <2> HIDE DEF Added
  <2> QED
    BY <1>1, <1>2, NaturalInduction
<1> QED
  BY <1>3

-----------------------------------------------------------------------------
(* ByteSum on the artifacts of a cache. *)
SizeMap == [Digests -> Nat]

LEMMA WeightType ==
  ASSUME NEW size \in SizeMap, NEW S \in SUBSET Digests
  PROVE  Weight(size, S) \in [Nat -> Nat]
  BY DEF Weight, SizeMap

LEMMA ByteSumType ==
  ASSUME NEW size \in SizeMap, NEW S \in SUBSET Digests
  PROVE  ByteSum(size, S) \in Nat
  BY WeightType, ByteSumAccumulates, AccumulatorType, DigestAssumption

(* The bytes of two disjoint groups of artifacts add up. *)
LEMMA ByteSumAdds ==
  ASSUME NEW size \in SizeMap, NEW sizeA \in SizeMap, NEW sizeB \in SizeMap,
         NEW A \in SUBSET Digests, NEW B \in SUBSET Digests, A \cap B = {},
         \A d \in A : size[d] = sizeA[d], \A d \in B : size[d] = sizeB[d]
  PROVE  ByteSum(size, A \cup B) = ByteSum(sizeA, A) + ByteSum(sizeB, B)
<1> DEFINE u == Weight(size, A \cup B)
           v == Weight(sizeA, A)
           w == Weight(sizeB, B)
<1>1. u \in [Nat -> Nat] /\ v \in [Nat -> Nat] /\ w \in [Nat -> Nat]
  BY WeightType
<1>2. \A k \in Nat : u[k] = v[k] + w[k]
  BY DEF Weight, SizeMap
<1>3. PICK f : Accumulates(f, u) /\ ByteSum(size, A \cup B) = f[DigestCount]
  BY <1>1, ByteSumAccumulates, Zenon
<1>4. PICK g : Accumulates(g, v) /\ ByteSum(sizeA, A) = g[DigestCount]
  BY <1>1, ByteSumAccumulates, Zenon
<1>5. PICK h : Accumulates(h, w) /\ ByteSum(sizeB, B) = h[DigestCount]
  BY <1>1, ByteSumAccumulates, Zenon
<1> HIDE DEF u, v, w
<1>6. \A n \in Nat : f[n] = g[n] + h[n]
  BY <1>1, <1>2, <1>3, <1>4, <1>5, AccumulatorsAdd, SMTT(30)
<1> QED
  BY <1>3, <1>4, <1>5, <1>6, DigestAssumption

LEMMA ByteSumEmpty ==
  ASSUME NEW size \in SizeMap
  PROVE  ByteSum(size, {}) = 0
<1>1. ByteSum(size, {} \cup {}) = ByteSum(size, {}) + ByteSum(size, {})
  BY ByteSumAdds
<1>2. {} \cup {} = {} /\ {} \in SUBSET Digests
  OBVIOUS
<1>3. ByteSum(size, {}) \in Nat
  BY <1>2, ByteSumType, Zenon
<1>4. ByteSum(size, {}) = ByteSum(size, {}) + ByteSum(size, {})
  BY <1>1, <1>2, Zenon
<1>5. \A x \in Nat : x = x + x => x = 0
  OBVIOUS
<1> QED
  BY <1>3, <1>4, <1>5, Zenon

(* Only the sizes of the artifacts summed matter. *)
LEMMA ByteSumCongruent ==
  ASSUME NEW size \in SizeMap, NEW other \in SizeMap, NEW S \in SUBSET Digests,
         \A d \in S : size[d] = other[d]
  PROVE  ByteSum(size, S) = ByteSum(other, S)
<1>1. ByteSum(size, S \cup {}) = ByteSum(other, S) + ByteSum(other, {})
  BY ByteSumAdds
<1>2. S \cup {} = S
  OBVIOUS
<1> QED
  BY <1>1, <1>2, ByteSumEmpty, ByteSumType

LEMMA ByteSumMonotone ==
  ASSUME NEW size \in SizeMap, NEW S \in SUBSET Digests, NEW T \in SUBSET S
  PROVE  /\ ByteSum(size, S) = ByteSum(size, T) + ByteSum(size, S \ T)
         /\ ByteSum(size, T) <= ByteSum(size, S)
<1>1. S = T \cup (S \ T) /\ T \cap (S \ T) = {} /\ T \subseteq Digests /\ S \ T \subseteq Digests
  OBVIOUS
<1>2. ByteSum(size, T \cup (S \ T)) = ByteSum(size, T) + ByteSum(size, S \ T)
  BY <1>1, ByteSumAdds
<1>3. ByteSum(size, T) \in Nat /\ ByteSum(size, S \ T) \in Nat
  BY <1>1, ByteSumType
<1>4. ByteSum(size, S) = ByteSum(size, T) + ByteSum(size, S \ T)
  BY <1>1, <1>2, Zenon
<1> QED
  BY <1>3, <1>4

LEMMA ByteSumSingleton ==
  ASSUME NEW size \in SizeMap, NEW d \in Digests
  PROVE  ByteSum(size, {d}) = size[d]
<1> DEFINE w == Weight(size, {d})
<1>1. w \in [Nat -> Nat] /\ size[d] \in Nat
      /\ \A k \in Nat : w[k] = IF k = d THEN size[d] ELSE 0
  BY WeightType DEF Weight, SizeMap
<1>2. PICK f : Accumulates(f, w) /\ ByteSum(size, {d}) = f[DigestCount]
  <2>1. Weight(size, {d}) \in [Nat -> Nat]
    BY <1>1
  <2>2. \E f : Accumulates(f, Weight(size, {d})) /\ ByteSum(size, {d}) = f[DigestCount]
    <3> HIDE DEF w
    <3> QED
      BY <2>1, ByteSumAccumulates, Zenon
  <2> QED
    BY <2>2
<1> HIDE DEF w
<1> DEFINE Stepped == {n \in Nat : f[n] = IF n < d THEN 0 ELSE size[d]}
<1>3. 0 \in Stepped
  BY <1>1, <1>2, AccumulatorStep DEF Digests
<1>4. ASSUME NEW n \in Nat, n \in Stepped PROVE n + 1 \in Stepped
  <2>1. f[n + 1] = f[n] + w[n + 1]
    BY <1>1, <1>2, AccumulatorStep
  <2>2. d \in Nat
    BY DEF Digests
  <2> QED
    BY <1>1, <1>4, <2>1, <2>2
<1>5. Nat \subseteq Stepped
  <2> HIDE DEF Stepped
  <2> QED
    BY <1>3, <1>4, NaturalInduction
<1> QED
  BY <1>2, <1>5, DigestAssumption DEF Digests

-----------------------------------------------------------------------------
(***************************************************************************)
(* The inductive invariant, as a predicate on caches so that the calls one *)
(* action makes under one lock can be composed.  The limits alone are not  *)
(* inductive: the byte limit needs the counter to be exact, and that needs *)
(* that an entry and its size appear and disappear together.               *)
(***************************************************************************)
CacheType == [warm          : [Digests -> Ticks],
              warmish       : [Digests -> Ticks],
              size          : [Digests -> Nat],
              warmish_bytes : Nat,
              sequence      : Ticks]

Good(m) ==
  /\ m \in CacheType
  /\ Cardinality(Cached(m.warm)) <= max_warm
  /\ Cardinality(Cached(m.warmish)) <= max_warmish
  /\ m.warmish_bytes <= max_warmish_bytes
  /\ m.warmish_bytes = ByteSum(m.size, Cached(m.warmish))
  /\ \A d \in Digests : m.size[d] # 0 <=> m.warmish[d] # 0

LEMMA TickType ==
  ASSUME NEW m, m.sequence \in Ticks
  PROVE  Tick(m) \in Ticks /\ Tick(m) # 0
<1> DEFINE next == (m.sequence + 1) % SequenceModulus
<1>1. m.sequence + 1 \in Nat /\ SequenceModulus \in Nat /\ SequenceModulus > 1
  BY ModulusAssumption DEF Ticks
<1>2. next \in 0 .. SequenceModulus - 1
  BY <1>1
<1> QED
  BY <1>1, <1>2 DEF Tick, Ticks

LEMMA TicksNat == Ticks \subseteq Nat /\ 0 \in Ticks
  BY ModulusAssumption DEF Ticks

LEMMA CachedFinite ==
  ASSUME NEW used
  PROVE  \A S \in SUBSET Cached(used) :
           /\ IsFiniteSet(S) /\ Cardinality(S) \in Nat
           /\ \A T \in SUBSET S : Cardinality(T) <= Cardinality(S)
<1>1. IsFiniteSet(Digests)
  BY FS_Interval, DigestAssumption DEF Digests
<1>2. \A S \in SUBSET Cached(used) : S \in SUBSET Digests
  BY DEF Cached
<1>3. \A S \in SUBSET Cached(used) : IsFiniteSet(S)
  BY <1>1, <1>2, FS_Subset
<1> QED
  BY <1>3, FS_Subset, FS_CardinalityType

(* Of the entries kept there is one that all the others are as recent as. *)
LEMMA OldestKept ==
  ASSUME NEW used \in [Digests -> Nat], NEW kept \in SUBSET Cached(used), kept # {}
  PROVE  \E e \in kept : kept \subseteq AsRecent(used, e)
<1> DEFINE ages == {used[e] : e \in kept}
<1>1. kept \subseteq Digests /\ Digests \subseteq Nat
  BY DigestAssumption DEF Cached, Digests
<1>2. ages \subseteq Nat /\ ages # {}
  BY <1>1
<1>3. PICK age \in ages : \A other \in ages : age <= other
  BY <1>2, LeastNatural, Zenon
<1> DEFINE eldest == {e \in kept : used[e] = age}
<1>4. eldest \subseteq Nat /\ eldest # {}
  BY <1>1, <1>3, Zenon
<1>5. PICK e \in eldest : \A other \in eldest : e <= other
  BY <1>4, LeastNatural, Zenon
<1>6. ASSUME NEW x \in kept PROVE x \in AsRecent(used, e)
  <2>1. used[x] \in Nat /\ used[e] = age /\ age \in Nat /\ age <= used[x] /\ x \in Nat /\ e \in Nat
    BY <1>1, <1>2, <1>3, <1>5, Zenon
  <2>2. used[x] = age => e <= x
    BY <1>5
  <2> QED
    BY <2>1, <2>2 DEF AsRecent
<1> QED
  BY <1>5, <1>6

(* Keep leaves exactly the entries kept. *)
LEMMA CachedKeep ==
  ASSUME NEW used, NEW kept \in SUBSET Cached(used)
  PROVE  Cached(Keep(used, kept)) = kept
  BY DEF Cached, Keep

-----------------------------------------------------------------------------
(* Each method of MemoryCache keeps a good cache good. *)
LEMMA GoodTyped ==
  ASSUME NEW m, Good(m)
  PROVE  /\ m \in CacheType /\ m.warm \in [Digests -> Ticks] /\ m.warmish \in [Digests -> Ticks]
         /\ m.size \in [Digests -> Nat] /\ m.warmish_bytes \in Nat /\ m.sequence \in Ticks
         /\ Tick(m) \in Ticks /\ Tick(m) # 0
<1>1. m \in CacheType
  BY DEF Good
<1>2. m.sequence \in Ticks
  BY <1>1 DEF CacheType
<1>3. /\ m.warm \in [Digests -> Ticks] /\ m.warmish \in [Digests -> Ticks]
      /\ m.size \in [Digests -> Nat] /\ m.warmish_bytes \in Nat
  BY <1>1 DEF CacheType
<1> QED
  BY <1>1, <1>2, <1>3, TickType

LEMMA WarmGood ==
  ASSUME NEW m, Good(m), NEW d \in Digests
  PROVE  Good(Warm(m, d))
<1> DEFINE used == [m.warm EXCEPT ![d] = IF m.warm[d] = 0 THEN 0 ELSE Tick(m)]
<1>1. Warm(m, d) = [m EXCEPT !.sequence = Tick(m), !.warm = used]
  BY GoodTyped DEF Warm, CacheType
<1>2. used \in [Digests -> Ticks]
  BY GoodTyped, TicksNat
<1>3. Cached(used) = Cached(m.warm)
  BY GoodTyped DEF Cached
<1> HIDE DEF used
<1>4. Warm(m, d) \in CacheType
  BY <1>1, <1>2, GoodTyped, Zenon DEF CacheType
<1>5. /\ Warm(m, d).warm = used /\ Warm(m, d).warmish = m.warmish
      /\ Warm(m, d).size = m.size /\ Warm(m, d).warmish_bytes = m.warmish_bytes
  BY <1>1, GoodTyped DEF CacheType
<1> QED
  BY <1>3, <1>4, <1>5 DEF Good

LEMMA WarmishGood ==
  ASSUME NEW m, Good(m), NEW d \in Digests
  PROVE  Good(Warmish(m, d))
<1> DEFINE used == [m.warmish EXCEPT ![d] = IF m.warmish[d] = 0 THEN 0 ELSE Tick(m)]
<1>1. Warmish(m, d) = [m EXCEPT !.sequence = Tick(m), !.warmish = used]
  BY GoodTyped DEF Warmish, CacheType
<1>2. used \in [Digests -> Ticks]
  BY GoodTyped, TicksNat
<1>3. Cached(used) = Cached(m.warmish) /\ \A e \in Digests : used[e] # 0 <=> m.warmish[e] # 0
  BY GoodTyped DEF Cached
<1> HIDE DEF used
<1>4. Warmish(m, d) \in CacheType
  BY <1>1, <1>2, GoodTyped, Zenon DEF CacheType
<1>5. /\ Warmish(m, d).warm = m.warm /\ Warmish(m, d).warmish = used
      /\ Warmish(m, d).size = m.size /\ Warmish(m, d).warmish_bytes = m.warmish_bytes
  BY <1>1, GoodTyped DEF CacheType
<1> QED
  BY <1>3, <1>4, <1>5 DEF Good

(* Entries with at most limit entries as recent are at most limit many. *)
LEMMA KeptBound ==
  ASSUME NEW used \in [Digests -> Nat], NEW limit \in Nat,
         NEW kept \in SUBSET Cached(used),
         \A e \in kept : Cardinality(AsRecent(used, e)) <= limit
  PROVE  Cardinality(kept) <= limit
<1>1. CASE kept = {}
  BY <1>1, FS_EmptySet
<1>2. CASE kept # {}
  <2>1. PICK e \in kept : kept \subseteq AsRecent(used, e)
    BY <1>2, OldestKept
  <2>2. AsRecent(used, e) \in SUBSET Cached(used)
    BY DEF AsRecent
  <2>3. Cardinality(kept) <= Cardinality(AsRecent(used, e))
        /\ Cardinality(kept) \in Nat /\ Cardinality(AsRecent(used, e)) \in Nat
    BY <2>1, <2>2, CachedFinite
  <2> QED
    BY <2>3
<1> QED
  BY <1>1, <1>2

LEMMA InsertWarmGood ==
  ASSUME NEW m, Good(m), NEW d \in Digests
  PROVE  Good(InsertWarm(m, d))
<1> DEFINE used == [m.warm EXCEPT ![d] = Tick(m)]
           kept == {e \in Cached(used) : Cardinality(AsRecent(used, e)) <= max_warm}
<1>1. InsertWarm(m, d) = [m EXCEPT !.sequence = Tick(m), !.warm = Keep(used, kept)]
  BY DEF InsertWarm
<1>2. used \in [Digests -> Ticks] /\ used \in [Digests -> Nat]
  BY GoodTyped, TicksNat, Zenon
<1> HIDE DEF used
<1>3. Keep(used, kept) \in [Digests -> Ticks]
  BY <1>2, TicksNat DEF Keep
<1>4. Cached(Keep(used, kept)) = kept
  BY CachedKeep
<1>5. Cardinality(kept) <= max_warm
  BY <1>2, KeptBound, ConfigAssumption
<1> HIDE DEF kept
<1>6. InsertWarm(m, d) \in CacheType
  BY <1>1, <1>3, GoodTyped, Zenon DEF CacheType
<1>7. /\ InsertWarm(m, d).warm = Keep(used, kept) /\ InsertWarm(m, d).warmish = m.warmish
      /\ InsertWarm(m, d).size = m.size /\ InsertWarm(m, d).warmish_bytes = m.warmish_bytes
  BY <1>1, GoodTyped DEF CacheType
<1> QED
  BY <1>4, <1>5, <1>6, <1>7 DEF Good

(* insert_warmish: the counter, less the replaced artifact and plus the new  *)
(* one, is the sum over the entries before the loop, so that what is left    *)
(* after subtracting some of them is the sum over the rest.                  *)
Touched(m, d) == [m.warmish EXCEPT ![d] = Tick(m)]
Resized(m, d, n) == [m.size EXCEPT ![d] = n]
Held(m, d, n) == Monus(m.warmish_bytes, m.size[d]) + n

LEMMA WarmishHeld ==
  ASSUME NEW m, Good(m), NEW d \in Digests, NEW n \in Sizes
  PROVE  /\ Touched(m, d) \in [Digests -> Ticks] /\ Touched(m, d) \in [Digests -> Nat]
         /\ Resized(m, d, n) \in SizeMap /\ n \in Nat /\ n # 0
         /\ Cached(Touched(m, d)) = Cached(m.warmish) \cup {d}
         /\ \A S \in SUBSET Cached(Touched(m, d)) :
                Monus(Held(m, d, n), ByteSum(Resized(m, d, n), Cached(Touched(m, d)) \ S))
                  = ByteSum(Resized(m, d, n), S)
<1> DEFINE used == [m.warmish EXCEPT ![d] = Tick(m)]
           size == [m.size EXCEPT ![d] = n]
           held == Monus(m.warmish_bytes, m.size[d]) + n
           Freed(S) == ByteSum(size, Cached(used) \ S)
<1>1. used = Touched(m, d) /\ size = Resized(m, d, n) /\ held = Held(m, d, n)
  BY DEF Touched, Resized, Held
<1>2. /\ used \in [Digests -> Ticks] /\ used \in [Digests -> Nat]
      /\ size \in SizeMap /\ n \in Nat /\ n # 0
  BY GoodTyped, TicksNat, SizeAssumption, Zenon DEF SizeMap
<1>3. Cached(used) = Cached(m.warmish) \cup {d}
  BY GoodTyped DEF Cached
<1>4. held = ByteSum(size, Cached(used))
  <2> DEFINE others == Cached(m.warmish) \ {d}
  <2>1. others \in SUBSET Digests /\ {d} \in SUBSET Digests /\ others \cap {d} = {}
        /\ Cached(m.warmish) \in SUBSET Digests
    BY DEF Cached
  <2>2. m.size \in SizeMap
    BY GoodTyped DEF SizeMap
  <2>3. \A e \in others : size[e] = m.size[e]
    BY <2>1, <2>2 DEF SizeMap
  <2>4. Cached(used) = others \cup {d}
    BY <1>3
  <2>5. ByteSum(size, {d}) = n
    BY <1>2, <2>2, ByteSumSingleton DEF SizeMap
  <2>6. ByteSum(size, others \cup {d}) = ByteSum(m.size, others) + ByteSum(size, {d})
    <3> HIDE DEF size, others
    <3>1. \A e \in {d} : size[e] = size[e]
      OBVIOUS
    <3> QED
      BY <1>2, <2>1, <2>2, <2>3, <3>1, ByteSumAdds
  <2>7. Monus(m.warmish_bytes, m.size[d]) = ByteSum(m.size, others)
    <3>1. m.warmish_bytes = ByteSum(m.size, Cached(m.warmish)) /\ m.size[d] \in Nat
          /\ ByteSum(m.size, others) \in Nat
      BY <2>1, <2>2, ByteSumType DEF Good, SizeMap
    <3>2. CASE d \in Cached(m.warmish)
      <4>1. Cached(m.warmish) = others \cup {d}
        BY <3>2
      <4>2. ByteSum(m.size, others \cup {d}) = ByteSum(m.size, others) + ByteSum(m.size, {d})
        BY <2>1, <2>2, ByteSumAdds
      <4>3. ByteSum(m.size, {d}) = m.size[d]
        BY <2>2, ByteSumSingleton
      <4>4. m.warmish_bytes = ByteSum(m.size, others) + m.size[d]
        BY <3>1, <4>1, <4>2, <4>3, Zenon
      <4> QED
        BY <3>1, <4>4 DEF Monus
    <3>3. CASE d \notin Cached(m.warmish)
      <4>1. Cached(m.warmish) = others /\ m.size[d] = 0
        BY <3>3 DEF Cached, Good
      <4>2. m.warmish_bytes = ByteSum(m.size, others)
        BY <3>1, <4>1, Zenon
      <4> QED
        BY <3>1, <4>1, <4>2 DEF Monus
    <3> QED
      BY <3>2, <3>3
  <2>8. held = ByteSum(size, others \cup {d})
    BY <2>5, <2>6, <2>7, Zenon
  <2> QED
    BY <2>4, <2>8, Zenon
<1>5. held \in Nat
  BY <1>2, <1>4, ByteSumType DEF Cached
<1> HIDE DEF used, size, held
<1>6. ASSUME NEW S \in SUBSET Cached(used)
      PROVE  Monus(held, Freed(S)) = ByteSum(size, S)
  <2>1. Cached(used) \in SUBSET Digests /\ S \in SUBSET Digests /\ Cached(used) \ S \in SUBSET Digests
    BY DEF Cached
  <2>2. ByteSum(size, Cached(used)) = ByteSum(size, S) + ByteSum(size, Cached(used) \ S)
    BY <1>2, <2>1, ByteSumMonotone
  <2>3. ByteSum(size, S) \in Nat /\ ByteSum(size, Cached(used) \ S) \in Nat
    BY <1>2, <2>1, ByteSumType
  <2> QED
    BY <1>4, <2>2, <2>3 DEF Monus
<1> QED
  BY <1>1, <1>2, <1>3, <1>6

(***************************************************************************)
(* insert_warmish: the counter, less the replaced artifact and plus the    *)
(* new one, is the sum over the entries before the loop; what the loop     *)
(* subtracts is the sum over the entries it removes; and the entries left  *)
(* are among those as recent as the oldest of them, which fit.             *)
(***************************************************************************)
LEMMA InsertWarmishGood ==
  ASSUME NEW m, Good(m), NEW d \in Digests, NEW n \in Sizes
  PROVE  Good(InsertWarmish(m, d, n))
<1> DEFINE used == [m.warmish EXCEPT ![d] = Tick(m)]
           size == [m.size EXCEPT ![d] = n]
           held == Monus(m.warmish_bytes, m.size[d]) + n
           Freed(S) == ByteSum(size, Cached(used) \ S)
           kept == {e \in Cached(used) :
                      LET rest == AsRecent(used, e)
                      IN  /\ Cardinality(rest) <= max_warmish
                          /\ Monus(held, Freed(rest)) <= max_warmish_bytes}
           next == InsertWarmish(m, d, n)
<1>1. CASE n > max_warmish_bytes
  BY <1>1 DEF InsertWarmish
<1>2. CASE ~(n > max_warmish_bytes)
  <2>1. next = [m EXCEPT !.sequence      = Tick(m),
                         !.warmish       = Keep(used, kept),
                         !.size          = Keep(size, kept),
                         !.warmish_bytes = Monus(held, Freed(kept))]
    BY <1>2 DEF InsertWarmish
  <2>2. /\ used \in [Digests -> Ticks] /\ used \in [Digests -> Nat]
        /\ size \in SizeMap /\ n \in Nat /\ n # 0
        /\ Cached(used) = Cached(m.warmish) \cup {d}
        /\ \A S \in SUBSET Cached(used) : Monus(held, Freed(S)) = ByteSum(size, S)
    BY WarmishHeld DEF Touched, Resized, Held
  <2> HIDE DEF used, size, held
  <2>6. ASSUME NEW S \in SUBSET Cached(used)
        PROVE  Monus(held, Freed(S)) = ByteSum(size, S)
    BY <2>2
  <2>7. kept \in SUBSET Cached(used)
    OBVIOUS
  <2>8. \A e \in kept : /\ Cardinality(AsRecent(used, e)) <= max_warmish
                       /\ ByteSum(size, AsRecent(used, e)) <= max_warmish_bytes
    BY <2>6 DEF AsRecent
  <2>9. Monus(held, Freed(kept)) = ByteSum(size, kept)
    BY <2>6, <2>7, Zenon
  <2> HIDE DEF kept
  <2>10. Cardinality(kept) <= max_warmish
    BY <2>2, <2>7, <2>8, KeptBound, ConfigAssumption
  <2>11. ByteSum(size, kept) \in Nat /\ ByteSum(size, kept) <= max_warmish_bytes
    <3>1. kept \in SUBSET Digests
      BY <2>7 DEF Cached
    <3>2. CASE kept = {}
      BY <2>2, <3>2, ByteSumEmpty, ConfigAssumption
    <3>3. CASE kept # {}
      <4>1. PICK e \in kept : kept \subseteq AsRecent(used, e)
        BY <2>2, <2>7, <3>3, OldestKept
      <4>2. AsRecent(used, e) \in SUBSET Digests
        BY DEF AsRecent, Cached
      <4>3. /\ ByteSum(size, kept) <= ByteSum(size, AsRecent(used, e))
            /\ ByteSum(size, kept) \in Nat /\ ByteSum(size, AsRecent(used, e)) \in Nat
        BY <2>2, <3>1, <4>1, <4>2, ByteSumMonotone, ByteSumType, Zenon
      <4> QED
        BY <2>8, <4>3, ConfigAssumption
    <3> QED
      BY <3>2, <3>3
  <2>12. Cached(Keep(used, kept)) = kept
    BY <2>7, CachedKeep
  <2>13. Keep(used, kept) \in [Digests -> Ticks] /\ Keep(size, kept) \in SizeMap
    BY <2>2, TicksNat DEF Keep, SizeMap
  <2>14. ByteSum(Keep(size, kept), kept) = ByteSum(size, kept)
    <3>1. kept \in SUBSET Digests /\ \A e \in kept : Keep(size, kept)[e] = size[e]
      BY <2>7 DEF Cached, Keep
    <3> QED
      BY <2>2, <2>13, <3>1, ByteSumCongruent
  <2>15. \A e \in Digests : Keep(size, kept)[e] # 0 <=> Keep(used, kept)[e] # 0
    <3>1. \A e \in Digests : size[e] # 0 <=> used[e] # 0
      BY <2>2, GoodTyped DEF size, used, Good
    <3> QED
      BY <3>1 DEF Keep
  <2>16. next \in CacheType
    <3>1. m \in CacheType /\ m.warm \in [Digests -> Ticks] /\ Tick(m) \in Ticks
      BY GoodTyped
    <3>2. next = [warm |-> m.warm, warmish |-> Keep(used, kept), size |-> Keep(size, kept),
                  warmish_bytes |-> ByteSum(size, kept), sequence |-> Tick(m)]
      BY <2>1, <2>9, <3>1, Zenon DEF CacheType
    <3> QED
      BY <2>11, <2>13, <3>1, <3>2 DEF CacheType, SizeMap
  <2>17. /\ next.warm = m.warm /\ next.warmish = Keep(used, kept)
         /\ next.size = Keep(size, kept) /\ next.warmish_bytes = ByteSum(size, kept)
    BY <2>1, <2>9, GoodTyped DEF CacheType
  <2> HIDE DEF next
  <2>18. Good(next)
    BY <2>10, <2>11, <2>12, <2>14, <2>15, <2>16, <2>17 DEF Good
  <2> QED
    BY <2>18 DEF next
<1> QED
  BY <1>1, <1>2

LEMMA DemoteGood ==
  ASSUME NEW m, Good(m), NEW d \in Digests
  PROVE  Good(DemoteEntry(m, d))
<1> DEFINE used == [m.warm EXCEPT ![d] = 0]
           next == DemoteEntry(m, d)
<1>1. next = [m EXCEPT !.warm = used]
  BY GoodTyped DEF DemoteEntry, CacheType
<1>2. used \in [Digests -> Ticks]
  BY GoodTyped, TicksNat
<1>3. Cached(used) \subseteq Cached(m.warm)
  BY GoodTyped DEF Cached
<1> HIDE DEF used
<1>4. Cardinality(Cached(used)) <= max_warm
  <2>1. /\ Cardinality(Cached(used)) <= Cardinality(Cached(m.warm))
        /\ Cardinality(Cached(used)) \in Nat /\ Cardinality(Cached(m.warm)) \in Nat
    BY <1>3, CachedFinite, Zenon
  <2> QED
    BY <2>1, ConfigAssumption DEF Good
<1>5. next \in CacheType
  BY <1>1, <1>2, GoodTyped DEF CacheType
<1>6. /\ next.warm = used /\ next.warmish = m.warmish
      /\ next.size = m.size /\ next.warmish_bytes = m.warmish_bytes
  BY <1>1, GoodTyped DEF CacheType
<1> HIDE DEF next
<1>7. Good(next)
  BY <1>4, <1>5, <1>6 DEF Good
<1> QED
  BY <1>7 DEF next

LEMMA NewCacheGood == Good(NewCache)
<1>1. NewCache \in CacheType
  BY TicksNat DEF NewCache, CacheType
<1>2. Cached(NewCache.warm) = {} /\ Cached(NewCache.warmish) = {}
  BY DEF NewCache, Cached
<1>3. NewCache.size \in SizeMap
  BY DEF NewCache, SizeMap
<1>4. Cardinality({}) = 0
  BY FS_EmptySet
<1>5. ByteSum(NewCache.size, {}) = 0
  BY <1>3, ByteSumEmpty
<1>6. NewCache.warmish_bytes = 0 /\ \A d \in Digests : NewCache.size[d] = 0 /\ NewCache.warmish[d] = 0
  BY DEF NewCache
<1> QED
  BY <1>1, <1>2, <1>4, <1>5, <1>6, ConfigAssumption DEF Good

-----------------------------------------------------------------------------
Inv == Good(memory)

(* Every action keeps the cache good. *)
LEMMA NextGood == Inv /\ [Next]_memory => Inv'
<1> SUFFICES ASSUME Good(memory), [Next]_memory PROVE Good(memory')
  BY DEF Inv
<1>1. ASSUME NEW d \in Digests, LookUpWarm(d) PROVE Good(memory')
  BY <1>1, WarmGood DEF LookUpWarm
<1>2. ASSUME NEW d \in Digests, LookUpWarmish(d) PROVE Good(memory')
  BY <1>2, WarmishGood DEF LookUpWarmish
<1>3. ASSUME NEW d \in Digests, Tier(d) PROVE Good(memory')
  <2>1. Good(Warm(memory, d)) /\ Good(Warmish(Warm(memory, d), d))
    BY WarmGood, WarmishGood
  <2> QED
    BY <1>3, <2>1 DEF Tier
<1>4. ASSUME NEW d \in Digests, Promote(d) PROVE Good(memory')
  BY <1>4, InsertWarmGood DEF Promote
<1>5. ASSUME NEW d \in Digests, NEW n \in Sizes, Admit(d, n) PROVE Good(memory')
  <2>1. Good(InsertWarmish(memory, d, n))
    BY InsertWarmishGood
  <2> QED
    BY <1>5, <2>1, InsertWarmGood DEF Admit
<1>6. ASSUME NEW d \in Digests, Demote(d) PROVE Good(memory')
  BY <1>6, DemoteGood DEF Demote
<1>7. CASE UNCHANGED memory
  BY <1>7
<1> QED
  BY <1>1, <1>2, <1>3, <1>4, <1>5, <1>6, <1>7 DEF Next

LEMMA AlwaysGood == Spec => []Inv
<1>1. Init => Inv
  BY NewCacheGood DEF Init, Inv
<1> QED
  BY <1>1, NextGood, PTL DEF Spec

(* The cache keeps its types, across wraps of the counter too. *)
THEOREM TypeCorrect == Spec => []TypeOK
<1>1. Inv => TypeOK
  BY DEF Inv, Good, TypeOK, CacheType
<1> QED
  BY <1>1, AlwaysGood, PTL

(***************************************************************************)
(* The entry limits and the byte limit of RuntimeConfig hold for every     *)
(* configuration that validate_config accepts, whatever the packages and   *)
(* their sizes.                                                            *)
(***************************************************************************)
THEOREM Limits == Spec => []Capacity
<1>1. Inv => Capacity
  BY DEF Inv, Good, Capacity
<1> QED
  BY <1>1, AlwaysGood, PTL

(***************************************************************************)
(* The running counter of insert_warmish is exact: its saturating          *)
(* subtractions never saturate on a difference.                            *)
(***************************************************************************)
THEOREM ExactBytes == Spec => []ByteAccounting
<1>1. Inv => ByteAccounting
  BY DEF Inv, Good, ByteAccounting
<1> QED
  BY <1>1, AlwaysGood, PTL


-----------------------------------------------------------------------------
(***************************************************************************)
(* The order of use, while the counter has not wrapped: no entry is newer  *)
(* than the counter, and no two entries of a tier were used in the same    *)
(* tick.                                                                   *)
(***************************************************************************)
Ordered(used, s) ==
  /\ \A d \in Digests : used[d] <= s
  /\ \A d, e \in Cached(used) : used[d] = used[e] => d = e

UseMap == [Digests -> Nat]

LEMMA OrderedTouch ==
  ASSUME NEW used \in UseMap, NEW s \in Nat, Ordered(used, s), NEW d \in Digests,
         NEW t \in Nat, t > s
  PROVE  Ordered([used EXCEPT ![d] = t], t)
<1> DEFINE next == [used EXCEPT ![d] = t]
<1>1. \A e \in Digests : next[e] = IF e = d THEN t ELSE used[e]
  BY DEF UseMap
<1>2. \A e \in Digests : used[e] \in Nat /\ used[e] <= s
  BY DEF UseMap, Ordered
<1> HIDE DEF next
<1>3. \A e \in Digests : next[e] <= t
  BY <1>1, <1>2
<1>4. ASSUME NEW e \in Cached(next), NEW f \in Cached(next), next[e] = next[f] PROVE e = f
  <2>1. e \in Digests /\ f \in Digests /\ next[e] # 0 /\ next[f] # 0
    BY DEF Cached
  <2>2. CASE e # d /\ f # d
    <3>1. e \in Cached(used) /\ f \in Cached(used) /\ used[e] = used[f]
      BY <1>1, <1>4, <2>1, <2>2 DEF Cached
    <3> QED
      BY <3>1 DEF Ordered
  <2>3. CASE e = d \/ f = d
    BY <1>1, <1>2, <1>4, <2>1, <2>3
  <2> QED
    BY <2>2, <2>3
<1>5. Ordered(next, t)
  BY <1>3, <1>4 DEF Ordered
<1> QED
  BY <1>5 DEF next

LEMMA OrderedLater ==
  ASSUME NEW used \in UseMap, NEW s \in Nat, Ordered(used, s), NEW t \in Nat, t >= s
  PROVE  Ordered(used, t)
  BY DEF Ordered, UseMap

LEMMA OrderedKeep ==
  ASSUME NEW used \in UseMap, NEW s \in Nat, Ordered(used, s), NEW kept
  PROVE  Ordered(Keep(used, kept), s)
<1>1. \A e \in Digests : Keep(used, kept)[e] = IF e \in kept THEN used[e] ELSE 0
  BY DEF Keep
<1>2. \A e \in Digests : Keep(used, kept)[e] <= s
  BY <1>1 DEF Ordered
<1>3. ASSUME NEW e \in Cached(Keep(used, kept)), NEW f \in Cached(Keep(used, kept)),
             Keep(used, kept)[e] = Keep(used, kept)[f]
      PROVE  e = f
  <2>1. e \in Digests /\ f \in Digests /\ used[e] = used[f]
        /\ e \in Cached(used) /\ f \in Cached(used)
    BY <1>1, <1>3 DEF Cached
  <2> QED
    BY <2>1 DEF Ordered
<1> QED
  BY <1>2, <1>3 DEF Ordered

(* An entry newer than all others is the only one as recent as itself. *)
LEMMA NewestAlone ==
  ASSUME NEW used \in UseMap, NEW d \in Cached(used),
         \A e \in Digests : e # d => used[e] < used[d]
  PROVE  AsRecent(used, d) = {d} /\ Cardinality({d}) = 1
<1>1. d \in Digests /\ d \in Nat /\ \A e \in Digests : e \in Nat /\ used[e] \in Nat
  BY DigestAssumption DEF Cached, Digests, UseMap
<1>2. d \in AsRecent(used, d)
  BY <1>1 DEF AsRecent
<1>3. ASSUME NEW e \in AsRecent(used, d), e # d PROVE FALSE
  <2>1. e \in Digests /\ (used[e] > used[d] \/ used[e] = used[d])
    BY DEF AsRecent, Cached
  <2>2. used[e] < used[d] /\ used[e] \in Nat /\ used[d] \in Nat
    BY <1>1, <1>3, <2>1
  <2> QED
    BY <2>1, <2>2
<1>4. AsRecent(used, d) = {d}
  BY <1>2, <1>3
<1> QED
  BY <1>4, FS_Singleton, Zenon

(* Of two entries the older one has all the newer one has as recent. *)
LEMMA OlderHasMore ==
  ASSUME NEW used \in UseMap, NEW a \in Cached(used), NEW b \in Cached(used),
         used[b] < used[a]
  PROVE  AsRecent(used, a) \subseteq AsRecent(used, b)
<1>1. used[a] \in Nat /\ used[b] \in Nat /\ \A e \in Digests : used[e] \in Nat
  BY DEF UseMap, Cached
<1> QED
  BY <1>1 DEF AsRecent, Cached

(***************************************************************************)
(* A tier that is one entry over its limit loses exactly one, and not the  *)
(* newest; a tier within its limit loses none.                             *)
(***************************************************************************)
LEMMA LosesOne ==
  ASSUME NEW used \in UseMap, NEW limit \in Nat, limit # 0, NEW d \in Cached(used),
         \A e \in Digests : e # d => used[e] < used[d],
         Cardinality(Cached(used)) <= limit + 1,
         NEW kept, kept = {e \in Cached(used) : Cardinality(AsRecent(used, e)) <= limit}
  PROVE  /\ d \in kept
         /\ Cardinality(Cached(used) \ kept)
              = IF Cardinality(Cached(used)) > limit THEN 1 ELSE 0
<1> DEFINE C == Cached(used)
<1>1. /\ IsFiniteSet(C) /\ Cardinality(C) \in Nat
      /\ \A S \in SUBSET C : /\ IsFiniteSet(S) /\ Cardinality(S) \in Nat
                             /\ Cardinality(S) <= Cardinality(C)
  BY CachedFinite
<1>2. \A e \in C : AsRecent(used, e) \in SUBSET C
  BY DEF AsRecent
<1>3. d \in kept
  <2>1. AsRecent(used, d) = {d} /\ Cardinality({d}) = 1
    BY NewestAlone
  <2>2. Cardinality(AsRecent(used, d)) <= limit
    BY <2>1
  <2> QED
    BY <2>2
<1>4. CASE Cardinality(C) <= limit
  <2>1. \A e \in C : e \in kept
    BY <1>1, <1>2, <1>4
  <2>2. C \ kept = {}
    BY <2>1
  <2>3. ~(Cardinality(C) > limit)
    BY <1>1, <1>4
  <2> QED
    BY <1>3, <2>2, <2>3, FS_EmptySet
<1>5. CASE Cardinality(C) > limit
  <2>1. Cardinality(C) = limit + 1
    BY <1>1, <1>5
  <2>2. PICK o \in C : C \subseteq AsRecent(used, o)
    BY OldestKept DEF UseMap
  <2>3. AsRecent(used, o) = C
    BY <1>2, <2>2
  <2>4. o \notin kept
    BY <1>1, <1>5, <2>3
  <2>5. ASSUME NEW e \in C, e # o PROVE e \in kept
    <3>1. e \in Digests /\ o \in Digests
      BY DEF Cached
    <3>a. used[e] \in Nat /\ used[o] \in Nat /\ e \in Nat /\ o \in Nat
      BY <3>1, DigestAssumption DEF UseMap, Digests
    <3>b. e \in AsRecent(used, o)
      BY <2>2
    <3>2. o \notin AsRecent(used, e)
      BY <2>5, <3>a, <3>b DEF AsRecent
    <3>3. AsRecent(used, e) \in SUBSET (C \ {o})
      BY <1>2, <3>2
    <3>4. Cardinality(C \ {o}) = limit /\ IsFiniteSet(C \ {o})
      BY <1>1, <2>1, FS_RemoveElement
    <3>5. Cardinality(AsRecent(used, e)) <= limit
      BY <3>3, <3>4, FS_Subset
    <3> QED
      BY <3>5
  <2>6. C \ kept = {o}
    BY <2>4, <2>5
  <2> QED
    BY <1>3, <1>5, <2>6, FS_Singleton, Zenon
<1> QED
  BY <1>1, <1>4, <1>5


(* What a touched tier loses is older than what it keeps, if it keeps the    *)
(* entry touched and, with an entry, all newer ones.                         *)
LEMMA LosesOldestKept ==
  ASSUME NEW prev \in UseMap, NEW s \in Nat, Ordered(prev, s), NEW d \in Digests,
         NEW t \in Nat, t > s,
         NEW kept \in SUBSET Cached([prev EXCEPT ![d] = t]), d \in kept,
         \A a, b \in Cached([prev EXCEPT ![d] = t]) :
           b \in kept /\ [prev EXCEPT ![d] = t][b] < [prev EXCEPT ![d] = t][a] => a \in kept
  PROVE  LosesOldest(prev, Keep([prev EXCEPT ![d] = t], kept))
<1> DEFINE used == [prev EXCEPT ![d] = t]
<1>1. \A e \in Digests : used[e] = IF e = d THEN t ELSE prev[e]
  BY DEF UseMap
<1>2. \A e \in Digests : prev[e] \in Nat /\ prev[e] <= s
  BY DEF UseMap, Ordered
<1>3. \A a, b \in Cached(used) : b \in kept /\ used[b] < used[a] => a \in kept
  BY Zenon
<1> HIDE DEF used
<1>4. \A e \in Digests : Keep(used, kept)[e] = IF e \in kept THEN used[e] ELSE 0
  BY DEF Keep
<1>5. ASSUME NEW a \in Cached(prev), NEW b \in Cached(prev),
             Keep(used, kept)[a] = 0, Keep(used, kept)[b] = prev[b]
      PROVE  prev[a] < prev[b]
  <2>1. a \in Digests /\ b \in Digests /\ prev[a] # 0 /\ prev[b] # 0
    BY DEF Cached
  <2>2. b \in kept /\ used[b] = prev[b]
    BY <1>4, <1>5, <2>1
  <2>3. b # d
    BY <1>1, <1>2, <2>1, <2>2
  <2>4. a \notin kept
    <3>1. used[a] # 0
      BY <1>1, <1>2, <2>1
    <3> QED
      BY <1>4, <1>5, <2>1, <3>1
  <2>5. a # d
    BY <2>4
  <2>6. used[a] = prev[a] /\ a \in Cached(used) /\ b \in Cached(used)
    BY <1>1, <2>1, <2>2, <2>5 DEF Cached
  <2>7. ~(prev[b] < prev[a])
    BY <1>3, <2>2, <2>4, <2>6
  <2>8. prev[a] # prev[b]
    <3>1. a # b
      BY <2>2, <2>4
    <3> QED
      BY <3>1 DEF Ordered
  <2> QED
    BY <1>2, <2>1, <2>7, <2>8
<1>6. LosesOldest(prev, Keep(used, kept))
  BY <1>5 DEF LosesOldest
<1> QED
  BY <1>6 DEF used

LEMMA LosesNothing ==
  ASSUME NEW used, NEW next, Cached(next) = Cached(used)
  PROVE  LosesOldest(used, next)
<1>1. \A a \in Cached(used) : next[a] # 0
  BY DEF Cached
<1> QED
  BY <1>1 DEF LosesOldest

-----------------------------------------------------------------------------
(* The methods, on a cache whose counter has not wrapped.                    *)
Fresh(m) ==
  /\ Good(m)
  /\ Ordered(m.warm, m.sequence)
  /\ Ordered(m.warmish, m.sequence)

LEMMA FreshTyped ==
  ASSUME NEW m, Fresh(m), m.sequence + 1 < SequenceModulus
  PROVE  /\ m \in CacheType /\ m.warm \in UseMap /\ m.warmish \in UseMap
         /\ m.sequence \in Nat /\ m.sequence + 1 \in Nat /\ m.sequence + 1 > m.sequence
         /\ m.sequence + 1 # 0
         /\ Tick(m) = m.sequence + 1
<1>1. Good(m)
  BY DEF Fresh
<1>2. /\ m \in CacheType /\ m.warm \in [Digests -> Ticks] /\ m.warmish \in [Digests -> Ticks]
      /\ m.sequence \in Ticks
  BY <1>1, GoodTyped
<1>3. m.warm \in UseMap /\ m.warmish \in UseMap /\ m.sequence \in Nat
  BY <1>2, TicksNat, Zenon DEF UseMap
<1>4. (m.sequence + 1) % SequenceModulus = m.sequence + 1
  BY <1>3, ModulusAssumption
<1>5. Tick(m) = m.sequence + 1
  BY <1>3, <1>4 DEF Tick
<1> QED
  BY <1>2, <1>3, <1>5

(* A lookup moves nothing between tiers. *)
Looked(m, n) ==
  /\ Fresh(n) /\ n.sequence = m.sequence + 1
  /\ Cached(n.warm) = Cached(m.warm) /\ Cached(n.warmish) = Cached(m.warmish)

LEMMA TouchCached ==
  ASSUME NEW used \in UseMap, NEW s \in Nat, Ordered(used, s), NEW d \in Digests,
         NEW t \in Nat, t > s, NEW next,
         next = [used EXCEPT ![d] = IF used[d] = 0 THEN 0 ELSE t]
  PROVE  Cached(next) = Cached(used) /\ Ordered(next, t)
<1>1. CASE used[d] = 0
  <2>1. next = used
    BY <1>1 DEF UseMap
  <2> QED
    BY <2>1, OrderedLater
<1>2. CASE used[d] # 0
  <2>1. next = [used EXCEPT ![d] = t]
    BY <1>2
  <2>2. \A e \in Digests : next[e] # 0 <=> used[e] # 0
    BY <1>2, <2>1 DEF UseMap
  <2>3. Ordered([used EXCEPT ![d] = t], t)
    BY OrderedTouch, Zenon
  <2> QED
    BY <2>1, <2>2, <2>3, Zenon DEF Cached
<1> QED
  BY <1>1, <1>2

LEMMA WarmLooked ==
  ASSUME NEW m, Fresh(m), m.sequence + 1 < SequenceModulus, NEW d \in Digests
  PROVE  Looked(m, Warm(m, d))
<1> DEFINE n == Warm(m, d)
           used == [m.warm EXCEPT ![d] = IF m.warm[d] = 0 THEN 0 ELSE m.sequence + 1]
<1>1. /\ m \in CacheType /\ m.warm \in UseMap /\ m.warmish \in UseMap
      /\ m.sequence \in Nat /\ m.sequence + 1 \in Nat /\ m.sequence + 1 > m.sequence
      /\ Tick(m) = m.sequence + 1
  BY FreshTyped
<1>2. Good(n)
  BY WarmGood DEF Fresh
<1>3. n.sequence = m.sequence + 1 /\ n.warmish = m.warmish /\ n.warm = used
  BY <1>1 DEF Warm, CacheType
<1>4. Cached(used) = Cached(m.warm) /\ Ordered(used, m.sequence + 1)
  <2>1. Ordered(m.warm, m.sequence)
    BY DEF Fresh
  <2> QED
    BY <1>1, <2>1, TouchCached
<1>5. Ordered(m.warmish, m.sequence + 1)
  BY <1>1, OrderedLater DEF Fresh
<1> HIDE DEF n, used
<1>6. Looked(m, n)
  BY <1>2, <1>3, <1>4, <1>5 DEF Looked, Fresh
<1> QED
  BY <1>6 DEF n

LEMMA WarmishLooked ==
  ASSUME NEW m, Fresh(m), m.sequence + 1 < SequenceModulus, NEW d \in Digests
  PROVE  Looked(m, Warmish(m, d))
<1> DEFINE n == Warmish(m, d)
           used == [m.warmish EXCEPT ![d] = IF m.warmish[d] = 0 THEN 0 ELSE m.sequence + 1]
<1>1. /\ m \in CacheType /\ m.warm \in UseMap /\ m.warmish \in UseMap
      /\ m.sequence \in Nat /\ m.sequence + 1 \in Nat /\ m.sequence + 1 > m.sequence
      /\ Tick(m) = m.sequence + 1
  BY FreshTyped
<1>2. Good(n)
  BY WarmishGood DEF Fresh
<1>3. n.sequence = m.sequence + 1 /\ n.warm = m.warm /\ n.warmish = used
  BY <1>1 DEF Warmish, CacheType
<1>4. Cached(used) = Cached(m.warmish) /\ Ordered(used, m.sequence + 1)
  <2>1. Ordered(m.warmish, m.sequence)
    BY DEF Fresh
  <2> QED
    BY <1>1, <2>1, TouchCached
<1>5. Ordered(m.warm, m.sequence + 1)
  BY <1>1, OrderedLater DEF Fresh
<1> HIDE DEF n, used
<1>6. Looked(m, n)
  BY <1>2, <1>3, <1>4, <1>5 DEF Looked, Fresh
<1> QED
  BY <1>6 DEF n


(* insert_warm makes d warm; a full tier loses one entry, the oldest. *)
WarmInserted(m, n, d) ==
  /\ Fresh(n) /\ n.sequence = m.sequence + 1 /\ n.warmish = m.warmish
  /\ d \in Cached(n.warm) /\ Cached(n.warm) \subseteq Cached(m.warm) \cup {d}
  /\ Cardinality((Cached(m.warm) \cup {d}) \ Cached(n.warm))
       = IF Cardinality(Cached(m.warm) \cup {d}) > max_warm THEN 1 ELSE 0
  /\ LosesOldest(m.warm, n.warm)

(* d is the newest entry, and the others are those there were. *)
Newest(used, next, d, t) ==
  /\ next \in UseMap /\ next[d] = t /\ Cached(next) = Cached(used) \cup {d}
  /\ \A e \in Digests : e # d => next[e] < next[d]

LEMMA TouchNewest ==
  ASSUME NEW used \in UseMap, NEW s \in Nat, Ordered(used, s), NEW d \in Digests,
         NEW t \in Nat, t > s
  PROVE  Newest(used, [used EXCEPT ![d] = t], d, t)
<1>1. \A e \in Digests : used[e] \in Nat /\ used[e] <= s
  BY DEF UseMap, Ordered
<1> QED
  BY <1>1 DEF Newest, UseMap, Cached

LEMMA WarmIsInserted ==
  ASSUME NEW m, Fresh(m), m.sequence + 1 < SequenceModulus, NEW d \in Digests
  PROVE  WarmInserted(m, InsertWarm(m, d), d)
<1> DEFINE t == m.sequence + 1
           used == [m.warm EXCEPT ![d] = t]
           kept == {e \in Cached(used) : Cardinality(AsRecent(used, e)) <= max_warm}
           n == InsertWarm(m, d)
<1>1. /\ m \in CacheType /\ m.warm \in UseMap /\ m.warmish \in UseMap
      /\ m.sequence \in Nat /\ t \in Nat /\ t > m.sequence
      /\ Tick(m) = t
  BY FreshTyped
<1>2. Ordered(m.warm, m.sequence) /\ Ordered(m.warmish, m.sequence) /\ Good(m)
  BY DEF Fresh
<1>3. Good(n)
  BY <1>2, InsertWarmGood
<1>4. n = [m EXCEPT !.sequence = t, !.warm = Keep(used, kept)]
  BY <1>1 DEF InsertWarm
<1> HIDE DEF t
<1>5. /\ used \in UseMap /\ used[d] = t /\ Cached(used) = Cached(m.warm) \cup {d}
      /\ \A e \in Digests : e # d => used[e] < used[d]
  <2>1. Newest(m.warm, used, d, t)
    BY <1>1, <1>2, TouchNewest, Zenon
  <2> HIDE DEF used
  <2> QED
    BY <2>1, Zenon DEF Newest
<1>6. Ordered(used, t)
  BY <1>1, <1>2, OrderedTouch
<1>7. d \in Cached(used)
  BY <1>5
<1>8. Cardinality(Cached(used)) <= max_warm + 1
  <2>1. IsFiniteSet(Cached(m.warm)) /\ Cardinality(Cached(m.warm)) \in Nat
    BY CachedFinite
  <2>2. Cardinality(Cached(m.warm)) <= max_warm
    BY <1>2 DEF Good
  <2>3. Cardinality(Cached(m.warm) \cup {d})
          = IF d \in Cached(m.warm) THEN Cardinality(Cached(m.warm))
                                    ELSE Cardinality(Cached(m.warm)) + 1
    BY <2>1, FS_AddElement, Zenon
  <2>4. Cardinality(Cached(m.warm) \cup {d}) <= max_warm + 1
    BY <2>1, <2>2, <2>3, ConfigAssumption
  <2> QED
    BY <1>5, <2>4, Zenon
<1>9. /\ d \in kept
      /\ Cardinality(Cached(used) \ kept)
           = IF Cardinality(Cached(used)) > max_warm THEN 1 ELSE 0
  <2> HIDE DEF used
  <2>1. max_warm \in Nat /\ max_warm # 0
    BY ConfigAssumption
  <2> QED
    BY <1>5, <1>7, <1>8, <2>1, LosesOne, Zenon
<1>10. ASSUME NEW a \in Cached(used), NEW b \in Cached(used), b \in kept, used[b] < used[a]
       PROVE  a \in kept
  <2> HIDE DEF used
  <2>1. AsRecent(used, a) \subseteq AsRecent(used, b)
    BY <1>5, <1>10, OlderHasMore
  <2>2. AsRecent(used, b) \in SUBSET Cached(used)
    BY DEF AsRecent
  <2>3. /\ Cardinality(AsRecent(used, a)) <= Cardinality(AsRecent(used, b))
        /\ Cardinality(AsRecent(used, a)) \in Nat /\ Cardinality(AsRecent(used, b)) \in Nat
    BY <2>1, <2>2, CachedFinite, Zenon
  <2>4. Cardinality(AsRecent(used, b)) <= max_warm
    BY <1>10
  <2>5. Cardinality(AsRecent(used, a)) <= max_warm
    BY <2>3, <2>4, ConfigAssumption
  <2> QED
    BY <2>5
<1>11. kept \in SUBSET Cached(used)
  OBVIOUS
<1> HIDE DEF kept
<1>12. LosesOldest(m.warm, Keep(used, kept))
  BY <1>1, <1>2, <1>9, <1>10, <1>11, LosesOldestKept
<1> HIDE DEF used
<1>13. Cached(Keep(used, kept)) = kept
  BY <1>11, CachedKeep
<1>14. Ordered(Keep(used, kept), t)
  BY <1>1, <1>5, <1>6, OrderedKeep
<1>15. Ordered(m.warmish, t)
  BY <1>1, <1>2, OrderedLater
<1>16. n.sequence = t /\ n.warm = Keep(used, kept) /\ n.warmish = m.warmish
  BY <1>1, <1>4 DEF CacheType
<1> HIDE DEF n
<1>17. Fresh(n)
  BY <1>3, <1>14, <1>15, <1>16 DEF Fresh
<1>18. d \in Cached(n.warm) /\ Cached(n.warm) \subseteq Cached(m.warm) \cup {d}
  BY <1>5, <1>9, <1>11, <1>13, <1>16
<1>19. Cardinality((Cached(m.warm) \cup {d}) \ Cached(n.warm))
         = IF Cardinality(Cached(m.warm) \cup {d}) > max_warm THEN 1 ELSE 0
  BY <1>5, <1>9, <1>13, <1>16, Zenon
<1>20. WarmInserted(m, n, d)
  BY <1>12, <1>16, <1>17, <1>18, <1>19 DEF WarmInserted, t
<1> QED
  BY <1>20 DEF n

(* insert_warmish refuses an artifact over the budget, or retains it and      *)
(* loses the oldest of the others.                                           *)
WarmishInserted(m, n, d) ==
  \/ n = m
  \/ /\ Fresh(n) /\ n.sequence = m.sequence + 1 /\ n.warm = m.warm
     /\ d \in Cached(n.warmish) /\ Cached(n.warmish) \subseteq Cached(m.warmish) \cup {d}
     /\ LosesOldest(m.warmish, n.warmish)

LEMMA WarmishIsInserted ==
  ASSUME NEW m, Fresh(m), m.sequence + 1 < SequenceModulus, NEW d \in Digests, NEW z \in Sizes
  PROVE  WarmishInserted(m, InsertWarmish(m, d, z), d)
<1> DEFINE t == m.sequence + 1
           used == [m.warmish EXCEPT ![d] = t]
           size == [m.size EXCEPT ![d] = z]
           held == Monus(m.warmish_bytes, m.size[d]) + z
           Freed(S) == ByteSum(size, Cached(used) \ S)
           kept == {e \in Cached(used) :
                      LET rest == AsRecent(used, e)
                      IN  /\ Cardinality(rest) <= max_warmish
                          /\ Monus(held, Freed(rest)) <= max_warmish_bytes}
           n == InsertWarmish(m, d, z)
<1>1. CASE z > max_warmish_bytes
  BY <1>1 DEF InsertWarmish, WarmishInserted
<1>2. CASE ~(z > max_warmish_bytes)
  <2>1. /\ m \in CacheType /\ m.warm \in UseMap /\ m.warmish \in UseMap
        /\ m.sequence \in Nat /\ t \in Nat /\ t > m.sequence
        /\ Tick(m) = t
    BY FreshTyped
  <2>2. Ordered(m.warm, m.sequence) /\ Ordered(m.warmish, m.sequence) /\ Good(m)
    BY DEF Fresh
  <2>3. Good(n)
    BY <2>2, InsertWarmishGood
  <2>4. n = [m EXCEPT !.sequence      = t,
                      !.warmish       = Keep(used, kept),
                      !.size          = Keep(size, kept),
                      !.warmish_bytes = Monus(held, Freed(kept))]
    BY <1>2, <2>1, Zenon DEF InsertWarmish
  <2>5. /\ size \in SizeMap /\ z \in Nat
        /\ \A S \in SUBSET Cached(used) : Monus(held, Freed(S)) = ByteSum(size, S)
    <3>1. used = Touched(m, d) /\ size = Resized(m, d, z) /\ held = Held(m, d, z)
      BY <2>1 DEF Touched, Resized, Held
    <3> HIDE DEF used, size, held
    <3> QED
      BY <2>2, <3>1, WarmishHeld
  <2>a. size[d] = z
    <3>1. m.size \in SizeMap
      BY <2>2, GoodTyped DEF SizeMap
    <3> QED
      BY <3>1 DEF SizeMap
  <2> HIDE DEF size, held, t
  <2>6. /\ used \in UseMap /\ used[d] = t /\ Cached(used) = Cached(m.warmish) \cup {d}
        /\ \A e \in Digests : e # d => used[e] < used[d]
    <3>1. Newest(m.warmish, used, d, t)
      BY <2>1, <2>2, TouchNewest, Zenon
    <3> HIDE DEF used
    <3> QED
      BY <3>1, Zenon DEF Newest
  <2>7. Ordered(used, t)
    BY <2>1, <2>2, OrderedTouch
  <2>8. kept \in SUBSET Cached(used)
    OBVIOUS
  <2>9. \A e \in Cached(used) :
            e \in kept <=> /\ Cardinality(AsRecent(used, e)) <= max_warmish
                           /\ ByteSum(size, AsRecent(used, e)) <= max_warmish_bytes
    <3>1. \A e \in Cached(used) : AsRecent(used, e) \in SUBSET Cached(used)
      BY DEF AsRecent
    <3> HIDE DEF used
    <3> QED
      BY <2>5, <3>1
  <2> HIDE DEF kept
  <2>10. d \in kept
    <3> HIDE DEF used
    <3>1. AsRecent(used, d) = {d} /\ Cardinality({d}) = 1
      BY <2>6, NewestAlone
    <3>2. ByteSum(size, {d}) = z
      BY <2>5, <2>a, ByteSumSingleton, Zenon
    <3>3. 1 <= max_warmish /\ z <= max_warmish_bytes
      BY <1>2, <2>5, ConfigAssumption
    <3>4. d \in Cached(used)
      BY <2>6
    <3> QED
      BY <2>9, <3>1, <3>2, <3>3, <3>4, Zenon
  <2>11. ASSUME NEW a \in Cached(used), NEW b \in Cached(used), b \in kept, used[b] < used[a]
         PROVE  a \in kept
    <3> HIDE DEF used
    <3>1. AsRecent(used, a) \subseteq AsRecent(used, b)
      BY <2>6, <2>11, OlderHasMore
    <3>2. AsRecent(used, b) \in SUBSET Cached(used) /\ AsRecent(used, b) \in SUBSET Digests
      BY DEF AsRecent, Cached
    <3>3. /\ Cardinality(AsRecent(used, a)) <= Cardinality(AsRecent(used, b))
          /\ Cardinality(AsRecent(used, a)) \in Nat /\ Cardinality(AsRecent(used, b)) \in Nat
      BY <3>1, <3>2, CachedFinite, Zenon
    <3>4. /\ ByteSum(size, AsRecent(used, a)) <= ByteSum(size, AsRecent(used, b))
          /\ ByteSum(size, AsRecent(used, a)) \in Nat /\ ByteSum(size, AsRecent(used, b)) \in Nat
      BY <2>5, <3>1, <3>2, ByteSumMonotone, ByteSumType, Zenon
    <3>5. /\ Cardinality(AsRecent(used, b)) <= max_warmish
          /\ ByteSum(size, AsRecent(used, b)) <= max_warmish_bytes
      BY <2>9, <2>11, Zenon
    <3>6. /\ Cardinality(AsRecent(used, a)) <= max_warmish
          /\ ByteSum(size, AsRecent(used, a)) <= max_warmish_bytes
      BY <3>3, <3>4, <3>5, ConfigAssumption
    <3> QED
      BY <2>9, <3>6, Zenon
  <2>12. LosesOldest(m.warmish, Keep(used, kept))
    BY <2>1, <2>2, <2>8, <2>10, <2>11, LosesOldestKept
  <2> HIDE DEF used
  <2>13. Cached(Keep(used, kept)) = kept
    BY <2>8, CachedKeep
  <2>14. Ordered(Keep(used, kept), t)
    BY <2>1, <2>6, <2>7, OrderedKeep
  <2>15. Ordered(m.warm, t)
    BY <2>1, <2>2, OrderedLater
  <2>16. n.sequence = t /\ n.warmish = Keep(used, kept) /\ n.warm = m.warm
    BY <2>1, <2>4 DEF CacheType
  <2> HIDE DEF n
  <2>17. Fresh(n)
    BY <2>3, <2>14, <2>15, <2>16 DEF Fresh
  <2>18. d \in Cached(n.warmish) /\ Cached(n.warmish) \subseteq Cached(m.warmish) \cup {d}
    BY <2>6, <2>8, <2>10, <2>13, <2>16
  <2>19. WarmishInserted(m, n, d)
    BY <2>12, <2>16, <2>17, <2>18 DEF WarmishInserted, t
  <2> QED
    BY <2>19 DEF n
<1> QED
  BY <1>1, <1>2


LEMMA DemoteFresh ==
  ASSUME NEW m, Fresh(m), m.sequence + 1 < SequenceModulus, NEW d \in Digests
  PROVE  /\ Fresh(DemoteEntry(m, d)) /\ DemoteEntry(m, d).sequence = m.sequence
         /\ Cached(DemoteEntry(m, d).warm) = Cached(m.warm) \ {d}
         /\ DemoteEntry(m, d).warmish = m.warmish
<1> DEFINE used == [m.warm EXCEPT ![d] = 0]
           next == DemoteEntry(m, d)
<1>1. m \in CacheType /\ m.warm \in UseMap /\ m.sequence \in Nat
  BY FreshTyped
<1>2. Ordered(m.warm, m.sequence) /\ Ordered(m.warmish, m.sequence) /\ Good(m)
  BY DEF Fresh
<1>3. next.sequence = m.sequence /\ next.warm = used /\ next.warmish = m.warmish
  BY <1>1 DEF DemoteEntry, CacheType
<1>4. Good(next)
  BY <1>2, DemoteGood
<1>5. \A e \in Digests : used[e] = IF e = d THEN 0 ELSE m.warm[e]
  BY <1>1 DEF UseMap
<1> HIDE DEF used, next
<1>6. Cached(used) = Cached(m.warm) \ {d}
  BY <1>5 DEF Cached
<1>7. \A e \in Digests : used[e] <= m.sequence
  BY <1>1, <1>2, <1>5 DEF Ordered
<1>8. ASSUME NEW e \in Cached(used), NEW f \in Cached(used), used[e] = used[f] PROVE e = f
  <2>1. /\ e \in Cached(m.warm) /\ f \in Cached(m.warm) /\ e \in Digests /\ f \in Digests
        /\ e # d /\ f # d
    BY <1>6 DEF Cached
  <2>2. m.warm[e] = m.warm[f]
    BY <1>5, <1>8, <2>1
  <2> QED
    BY <1>2, <2>1, <2>2 DEF Ordered
<1>9. Ordered(used, m.sequence)
  BY <1>7, <1>8 DEF Ordered
<1>10. Fresh(next)
  BY <1>2, <1>3, <1>4, <1>9 DEF Fresh
<1> QED
  BY <1>3, <1>6, <1>10 DEF next

-----------------------------------------------------------------------------
(* What every step promises: the abstract cache takes a step or stutters, and *)
(* a tier loses its oldest entries.                                          *)
Ages(m, n) ==
  n.sequence # m.sequence =>
    LosesOldest(m.warm, n.warm) /\ LosesOldest(m.warmish, n.warmish)

Stands(m, n) == Cached(n.warm) = Cached(m.warm) /\ Cached(n.warmish) = Cached(m.warmish)

MakesWarm(m, n, d) ==
  \E lost \in SUBSET (Cached(m.warm) \ {d}) :
    /\ Cardinality(lost) = IF Cardinality(Cached(m.warm) \cup {d}) > max_warm THEN 1 ELSE 0
    /\ Cached(n.warm) = (Cached(m.warm) \cup {d}) \ lost

MakesWarmish(m, n, d) ==
  \/ Cached(n.warmish) = Cached(m.warmish)
  \/ \E lost \in SUBSET (Cached(m.warmish) \ {d}) :
       /\ Cached(n.warmish) = (Cached(m.warmish) \cup {d}) \ lost
       /\ Cardinality(Cached(n.warmish)) <= max_warmish

LEMMA LookedStands ==
  ASSUME NEW m, NEW n, Looked(m, n)
  PROVE  Stands(m, n) /\ Ages(m, n) /\ Fresh(n)
  BY LosesNothing DEF Looked, Stands, Ages

LEMMA InsertedMakesWarm ==
  ASSUME NEW m, NEW n, NEW d \in Digests, WarmInserted(m, n, d)
  PROVE  MakesWarm(m, n, d)
<1> DEFINE lost == (Cached(m.warm) \cup {d}) \ Cached(n.warm)
<1>1. d \in Cached(n.warm) /\ Cached(n.warm) \subseteq Cached(m.warm) \cup {d}
  BY DEF WarmInserted
<1>2. lost \in SUBSET (Cached(m.warm) \ {d}) /\ Cached(n.warm) = (Cached(m.warm) \cup {d}) \ lost
  BY <1>1
<1>3. Cardinality(lost) = IF Cardinality(Cached(m.warm) \cup {d}) > max_warm THEN 1 ELSE 0
  BY Zenon DEF WarmInserted
<1> HIDE DEF lost
<1> QED
  BY <1>2, <1>3, Zenon DEF MakesWarm

LEMMA InsertedMakesWarmish ==
  ASSUME NEW m, NEW n, NEW d \in Digests, WarmishInserted(m, n, d)
  PROVE  MakesWarmish(m, n, d)
<1>1. CASE n = m
  BY <1>1 DEF MakesWarmish
<1>2. CASE n # m
  <2> DEFINE lost == (Cached(m.warmish) \cup {d}) \ Cached(n.warmish)
  <2>1. /\ d \in Cached(n.warmish) /\ Cached(n.warmish) \subseteq Cached(m.warmish) \cup {d}
        /\ Fresh(n)
    BY <1>2 DEF WarmishInserted
  <2>2. /\ lost \in SUBSET (Cached(m.warmish) \ {d})
        /\ Cached(n.warmish) = (Cached(m.warmish) \cup {d}) \ lost
    BY <2>1
  <2>3. Cardinality(Cached(n.warmish)) <= max_warmish
    BY <2>1 DEF Fresh, Good
  <2> HIDE DEF lost
  <2> QED
    BY <2>2, <2>3, Zenon DEF MakesWarmish
<1> QED
  BY <1>1, <1>2

LEMMA RoomForTwo ==
  ASSUME NEW m, Fresh(m), m.sequence + 2 < SequenceModulus
  PROVE  m.sequence + 1 < SequenceModulus /\ m.sequence \in Nat
<1>1. Good(m)
  BY DEF Fresh
<1>2. m.sequence \in Ticks
  BY <1>1, GoodTyped
<1>3. m.sequence \in Nat
  BY <1>2, TicksNat, Zenon
<1> QED
  BY <1>3, ModulusAssumption

LEMMA PromoteMoves ==
  ASSUME NEW m, Fresh(m), m.sequence + 2 < SequenceModulus, NEW d \in Digests,
         NEW n, n = InsertWarm(m, d)
  PROVE  /\ Fresh(n) /\ Ages(m, n) /\ MakesWarm(m, n, d)
         /\ Cached(n.warmish) = Cached(m.warmish)
<1>1. m.sequence + 1 < SequenceModulus
  BY RoomForTwo
<1>2. WarmInserted(m, n, d)
  BY <1>1, WarmIsInserted
<1> QED
  BY <1>2, InsertedMakesWarm, LosesNothing DEF WarmInserted, Ages

LEMMA AdmitMoves ==
  ASSUME NEW m, Fresh(m), m.sequence + 2 < SequenceModulus, NEW d \in Digests, NEW z \in Sizes,
         NEW n, n = InsertWarm(InsertWarmish(m, d, z), d)
  PROVE  /\ Fresh(n) /\ Ages(m, n) /\ MakesWarm(m, n, d) /\ MakesWarmish(m, n, d)
<1> DEFINE k == InsertWarmish(m, d, z)
<1>1. m.sequence + 1 < SequenceModulus /\ m.sequence \in Nat
  BY RoomForTwo
<1>2. WarmishInserted(m, k, d)
  BY <1>1, WarmishIsInserted
<1>3. n = InsertWarm(k, d)
  OBVIOUS
<1> HIDE DEF k
<1>4. Fresh(k) /\ k.warm = m.warm /\ k.sequence + 1 < SequenceModulus
  <2>1. \/ k = m
        \/ Fresh(k) /\ k.sequence = m.sequence + 1 /\ k.warm = m.warm
    BY <1>2 DEF WarmishInserted
  <2> QED
    BY <1>1, <2>1, ModulusAssumption
<1>5. WarmInserted(k, n, d)
  BY <1>3, <1>4, WarmIsInserted
<1>6. Fresh(n) /\ n.warmish = k.warmish /\ LosesOldest(k.warm, n.warm)
  BY <1>5 DEF WarmInserted
<1>7. MakesWarm(m, n, d)
  <2>1. MakesWarm(k, n, d)
    BY <1>5, InsertedMakesWarm
  <2> QED
    BY <1>4, <2>1, Zenon DEF MakesWarm
<1>8. MakesWarmish(m, n, d)
  <2>1. MakesWarmish(m, k, d)
    BY <1>2, InsertedMakesWarmish
  <2> QED
    BY <1>6, <2>1, Zenon DEF MakesWarmish
<1>9. LosesOldest(m.warmish, k.warmish)
  BY <1>2, LosesNothing DEF WarmishInserted
<1>10. Ages(m, n)
  BY <1>4, <1>6, <1>9, Zenon DEF Ages
<1> QED
  BY <1>6, <1>7, <1>8, <1>10


-----------------------------------------------------------------------------
(* A step of the cache as its callers see it. *)
TierStep(m, n) ==
  \/ Stands(m, n)
  \/ \E d \in Digests :
       \/ MakesWarm(m, n, d) /\ Cached(n.warmish) = Cached(m.warmish)
       \/ MakesWarm(m, n, d) /\ MakesWarmish(m, n, d)
       \/ Cached(n.warm) = Cached(m.warm) \ {d} /\ Cached(n.warmish) = Cached(m.warmish)

LEMMA StepMoves ==
  ASSUME Fresh(memory), [NextBeforeWrap]_memory
  PROVE  Fresh(memory') /\ Ages(memory, memory') /\ TierStep(memory, memory')
<1>1. CASE UNCHANGED memory
  BY <1>1 DEF Ages, TierStep, Stands
<1>2. CASE NextBeforeWrap
  <2>1. /\ memory.sequence + 2 < SequenceModulus
        /\ memory.sequence + 1 < SequenceModulus /\ memory.sequence \in Nat
    BY <1>2, RoomForTwo DEF NextBeforeWrap
  <2>2. ASSUME NEW d \in Digests, LookUpWarm(d)
        PROVE  Fresh(memory') /\ Ages(memory, memory') /\ TierStep(memory, memory')
    <3>1. Looked(memory, memory')
      BY <2>1, <2>2, WarmLooked DEF LookUpWarm
    <3> QED
      BY <3>1, LookedStands DEF TierStep
  <2>3. ASSUME NEW d \in Digests, LookUpWarmish(d)
        PROVE  Fresh(memory') /\ Ages(memory, memory') /\ TierStep(memory, memory')
    <3>1. Looked(memory, memory')
      BY <2>1, <2>3, WarmishLooked DEF LookUpWarmish
    <3> QED
      BY <3>1, LookedStands DEF TierStep
  <2>4. ASSUME NEW d \in Digests, Tier(d)
        PROVE  Fresh(memory') /\ Ages(memory, memory') /\ TierStep(memory, memory')
    <3> DEFINE probed == Warm(memory, d)
    <3>1. Looked(memory, probed)
      BY <2>1, WarmLooked
    <3>2. memory' = probed \/ memory' = Warmish(probed, d)
      BY <2>4 DEF Tier
    <3> HIDE DEF probed
    <3>3. Fresh(probed) /\ probed.sequence + 1 < SequenceModulus
      BY <2>1, <3>1, ModulusAssumption DEF Looked
    <3>4. Looked(probed, Warmish(probed, d))
      BY <3>3, WarmishLooked
    <3>5. Fresh(memory') /\ Stands(memory, memory')
      BY <3>1, <3>2, <3>4 DEF Looked, Stands
    <3>6. Ages(memory, memory')
      BY <3>5, LosesNothing DEF Stands, Ages
    <3> QED
      BY <3>5, <3>6 DEF TierStep
  <2>5. ASSUME NEW d \in Digests, Promote(d)
        PROVE  Fresh(memory') /\ Ages(memory, memory') /\ TierStep(memory, memory')
    <3>1. /\ Fresh(memory') /\ Ages(memory, memory') /\ MakesWarm(memory, memory', d)
          /\ Cached(memory'.warmish) = Cached(memory.warmish)
      BY <2>1, <2>5, PromoteMoves DEF Promote
    <3> QED
      BY <3>1, Zenon DEF TierStep
  <2>6. ASSUME NEW d \in Digests, NEW z \in Sizes, Admit(d, z)
        PROVE  Fresh(memory') /\ Ages(memory, memory') /\ TierStep(memory, memory')
    <3>1. /\ Fresh(memory') /\ Ages(memory, memory') /\ MakesWarm(memory, memory', d)
          /\ MakesWarmish(memory, memory', d)
      BY <2>1, <2>6, AdmitMoves DEF Admit
    <3> QED
      BY <3>1, Zenon DEF TierStep
  <2>7. ASSUME NEW d \in Digests, Demote(d)
        PROVE  Fresh(memory') /\ Ages(memory, memory') /\ TierStep(memory, memory')
    <3>1. /\ Fresh(memory') /\ memory'.sequence = memory.sequence
          /\ Cached(memory'.warm) = Cached(memory.warm) \ {d}
          /\ memory'.warmish = memory.warmish
      BY <2>1, <2>7, DemoteFresh, Zenon DEF Demote
    <3> QED
      BY <3>1, Zenon DEF TierStep, Ages
  <2> QED
    BY <1>2, <2>2, <2>3, <2>4, <2>5, <2>6, <2>7 DEF NextBeforeWrap, Next
<1> QED
  BY <1>1, <1>2

LEMMA AlwaysFresh == SpecBeforeWrap => []Fresh(memory)
<1>1. Init => Fresh(memory)
  <2> SUFFICES ASSUME Init PROVE Fresh(memory)
    OBVIOUS
  <2>1. Good(memory)
    BY NewCacheGood DEF Init
  <2>2. /\ memory.sequence = 0 /\ memory.warm = [d \in Digests |-> 0]
        /\ memory.warmish = [d \in Digests |-> 0]
    BY DEF Init, NewCache
  <2>3. Ordered(memory.warm, memory.sequence) /\ Ordered(memory.warmish, memory.sequence)
    BY <2>2 DEF Ordered, Cached
  <2> QED
    BY <2>1, <2>3 DEF Fresh
<1>2. Fresh(memory) /\ [NextBeforeWrap]_memory => Fresh(memory)'
  BY StepMoves
<1> QED
  BY <1>1, <1>2, PTL DEF SpecBeforeWrap

(***************************************************************************)
(* Until the 64-bit counter wraps, an insert evicts in least recently used *)
(* order (least_recent and the loops of insert_warm and insert_warmish),   *)
(* for any number of packages and any limits.                              *)
(***************************************************************************)
THEOREM OldestFirst == SpecBeforeWrap => EvictsOldestFirst
<1>1. Fresh(memory) /\ [NextBeforeWrap]_memory =>
        [ memory'.sequence # memory.sequence =>
            /\ LosesOldest(memory.warm, memory'.warm)
            /\ LosesOldest(memory.warmish, memory'.warmish) ]_memory
  BY StepMoves DEF Ages
<1> QED
  BY <1>1, AlwaysFresh, PTL DEF SpecBeforeWrap, EvictsOldestFirst

(***************************************************************************)
(* Until the counter wraps the cache is what TierCache promises: an insert *)
(* leaves the digest warm and costs at most one other package its place,   *)
(* retained bytes never push out their own package, lookups move nothing,  *)
(* a demotion touches only its digest (MemoryCache's methods).             *)
(***************************************************************************)
THEOREM TiersImplemented == SpecBeforeWrap => ImplementsTierCache
<1>1. Init => Tiers!Init
  BY DEF Init, NewCache, Tiers!Init, Cached
<1>2. Fresh(memory) /\ [NextBeforeWrap]_memory => [Tiers!Next]_(Tiers!tierVars)
  <2> SUFFICES ASSUME Fresh(memory), [NextBeforeWrap]_memory
               PROVE  [Tiers!Next]_(Tiers!tierVars)
    OBVIOUS
  <2>1. TierStep(memory, memory')
    BY StepMoves
  <2>2. CASE Stands(memory, memory')
    BY <2>2 DEF Stands, Tiers!tierVars, Cached
  <2>a. \A S : Tiers!Cardinality(S) = Cardinality(S)
    BY DEF Tiers!Cardinality, Cardinality, Tiers!IsFiniteSet, IsFiniteSet
  <2>b. /\ Cached(memory.warm)' = Cached(memory'.warm)
        /\ Cached(memory.warmish)' = Cached(memory'.warmish)
    BY DEF Cached
  <2>3. ASSUME NEW d \in Digests, MakesWarm(memory, memory', d)
        PROVE  Tiers!MakeWarm(d)
    BY <2>3, <2>a, <2>b, Zenon DEF MakesWarm, Tiers!MakeWarm
  <2>4. ASSUME NEW d \in Digests, MakesWarmish(memory, memory', d)
        PROVE  Tiers!MakeWarmish(d)
    BY <2>4, <2>a, <2>b, Zenon DEF MakesWarmish, Tiers!MakeWarmish
  <2> QED
    BY <2>1, <2>2, <2>3, <2>4
       DEF TierStep, Tiers!Next, Tiers!Promote, Tiers!Admit, Tiers!Demote, Cached
<1> QED
  BY <1>1, <1>2, AlwaysFresh, PTL DEF SpecBeforeWrap, ImplementsTierCache, Tiers!Spec
=============================================================================
