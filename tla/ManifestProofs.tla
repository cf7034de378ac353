---------------------------- MODULE ManifestProofs ----------------------------
(***************************************************************************)
(* Lemmas about EnvironmentManifest, for every manifest: the order of byte *)
(* strings, the segments that validate_guest_path cuts a path into, what   *)
(* an accepted manifest describes, and how the bytes that the identity is  *)
(* the hash of are read back.  CheckpointProofs states the two theorems    *)
(* that rest on them.  Whatever is shown for all places of a sequence is   *)
(* shown by a least counterexample.                                        *)
(***************************************************************************)
EXTENDS EnvironmentManifest, FiniteSetTheorems, WellFoundedInduction, TLAPS

(* A nonempty set of naturals has a least element. *)
LEMMA Least ==
  ASSUME NEW S \in SUBSET Nat, S # {}
  PROVE  \E m \in S : \A k \in S : m <= k
<1> DEFINE R == OpToRel(<, Nat)
<1>1. IsWellFoundedOn(R, Nat)
  BY NatLessThanWellFounded, Zenon
<1>2. PICK m \in S : \A k \in S : ~(<<k, m>> \in R)
  <2> HIDE DEF R
  <2> QED BY <1>1, WFMin, Zenon
<1>3. \A k \in S : ~(k < m)
  BY <1>2, Zenon DEF OpToRel
<1> HIDE DEF R
<1> QED
  BY <1>2, <1>3

(* A set of naturals that starts at 0 and goes on reaches every bound. *)
LEMMA Climb ==
  ASSUME NEW n \in Nat, NEW S, 0 \in S,
         \A i \in 1 .. n : i - 1 \in S => i \in S
  PROVE  0 .. n \subseteq S
<1> SUFFICES ASSUME (0 .. n) \ S # {} PROVE FALSE
  OBVIOUS
<1>1. (0 .. n) \ S \in SUBSET Nat
  OBVIOUS
<1>2. PICK m \in (0 .. n) \ S : \A k \in (0 .. n) \ S : m <= k
  BY <1>1, Least, Zenon
<1>3. m # 0 /\ m - 1 \in 0 .. n /\ m \in 1 .. n
  BY <1>2
<1> QED
  BY <1>2, <1>3

Sum(b) ==
  LET sum[i \in 0 .. Len(b)] == IF i = 0 THEN 0 ELSE sum[i - 1] + b[i]
  IN  sum[Len(b)]

SumRuns(b, g, n) ==
  g \in [0 .. n -> Nat] /\ g[0] = 0 /\ \A i \in 1 .. n : g[i] = g[i - 1] + b[i]

(* The sum of a list of lengths is a natural number. *)
LEMMA SumType ==
  ASSUME NEW b \in Seq(Nat)
  PROVE  Sum(b) \in Nat
<1> DEFINE n == Len(b)
           S == {k \in Nat : \E g : SumRuns(b, g, k)}
           P(f) == f = [i \in 0 .. n |-> IF i = 0 THEN 0 ELSE f[i - 1] + b[i]]
<1>1. n \in Nat /\ \A i \in 1 .. n : b[i] \in Nat
  OBVIOUS
<1>2. 0 \in S
  <2>1. SumRuns(b, [i \in 0 .. 0 |-> 0], 0)
    BY DEF SumRuns
  <2> QED BY <2>1
<1>3. ASSUME NEW k \in 1 .. n, k - 1 \in S PROVE k \in S
  <2>1. PICK g : SumRuns(b, g, k - 1)
    BY <1>3
  <2> DEFINE h == [i \in 0 .. k |-> IF i = k THEN g[k - 1] + b[k] ELSE g[i]]
  <2>2. k \in Nat /\ k - 1 \in 0 .. (k - 1) /\ g[k - 1] \in Nat /\ b[k] \in Nat
    BY <1>1, <2>1 DEF SumRuns
  <2>3. h \in [0 .. k -> Nat]
    <3>1. ASSUME NEW i \in 0 .. k PROVE h[i] \in Nat
      <4>1. CASE i = k
        BY <2>2, <4>1
      <4>2. CASE i # k
        <5>1. i \in 0 .. (k - 1)
          BY <2>2, <4>2
        <5> QED BY <2>1, <4>2, <5>1 DEF SumRuns
      <4> QED BY <4>1, <4>2
    <3> QED BY <3>1
  <2>4. ASSUME NEW i \in 1 .. k PROVE h[i] = h[i - 1] + b[i]
    <3>1. h[i - 1] = g[i - 1]
      BY <2>2
    <3>2. CASE i = k
      BY <3>1, <3>2
    <3>3. CASE i # k
      <4>1. i \in 1 .. (k - 1)
        BY <2>2, <3>3
      <4>2. h[i] = g[i]
        BY <2>2, <3>3
      <4> QED BY <2>1, <3>1, <4>1, <4>2 DEF SumRuns
    <3> QED BY <3>2, <3>3
  <2>5. h[0] = 0
    BY <2>1, <2>2 DEF SumRuns
  <2> HIDE DEF h
  <2>6. SumRuns(b, h, k)
    BY <2>3, <2>4, <2>5 DEF SumRuns
  <2> QED BY <2>2, <2>6
<1>4. n \in S
  <2> HIDE DEF S, n
  <2>1. \A k \in 1 .. n : k - 1 \in S => k \in S
    BY <1>3
  <2>2. 0 .. n \subseteq S
    BY <1>1, <1>2, <2>1, Climb, Zenon
  <2> QED BY <1>1, <2>2
<1>5. PICK g : SumRuns(b, g, n)
  BY <1>4
<1>6. P(g)
  BY <1>1, <1>5 DEF SumRuns
<1>7. Sum(b) = (CHOOSE f : P(f))[n]
  BY DEF Sum
<1> DEFINE f == CHOOSE h : P(h)
<1>8. P(f)
  <2> HIDE DEF P
  <2> QED BY <1>6
<1> HIDE DEF f
<1> DEFINE T == {i \in Nat : f[i] \in Nat}
<1>9. 0 \in T
  BY <1>1, <1>8
<1>10. \A i \in 1 .. n : i - 1 \in T => i \in T
  <2> SUFFICES ASSUME NEW i \in 1 .. n, f[i - 1] \in Nat PROVE f[i] \in Nat
    BY <1>1
  <2>1. i \in 0 .. n /\ i # 0
    BY <1>1
  <2>2. f[i] = IF i = 0 THEN 0 ELSE f[i - 1] + b[i]
    BY <1>8, <2>1, Zenon
  <2> QED BY <1>1, <2>1, <2>2
<1>11. 0 .. n \subseteq T
  <2> HIDE DEF T, P
  <2> QED BY <1>1, <1>9, <1>10, Climb, Zenon
<1> QED
  BY <1>1, <1>7, <1>11 DEF f

-----------------------------------------------------------------------------
(* The order of byte strings.                                              *)

(* A prefix agrees with the longer sequence point by point. *)
LEMMA PrefixPoints ==
  ASSUME NEW S, NEW s \in Seq(S), NEW t \in Seq(S)
  PROVE  IsPrefix(s, t) <=> Len(s) <= Len(t) /\ \A j \in 1 .. Len(s) : s[j] = t[j]
<1>1. ASSUME Len(s) <= Len(t)
      PROVE  /\ s = [j \in 1 .. Len(s) |-> s[j]]
             /\ SubSeq(t, 1, Len(s)) = [j \in 1 .. Len(s) |-> t[j]]
  BY <1>1
<1> QED
  BY <1>1 DEF IsPrefix

LEMMA SameSequence ==
  ASSUME NEW S, NEW s \in Seq(S), NEW t \in Seq(S), Len(s) = Len(t),
         \A j \in 1 .. Len(s) : s[j] = t[j]
  PROVE  s = t
  OBVIOUS

LEMMA ElementsIn ==
  ASSUME NEW S, NEW s \in Seq(S)
  PROVE  Len(s) \in Nat /\ DOMAIN s = 1 .. Len(s) /\ \A j \in 1 .. Len(s) : s[j] \in S
  OBVIOUS

LEMMA StringFacts ==
  ASSUME NEW a \in Strings
  PROVE  /\ a \in Seq(0 .. 255) /\ Len(a) \in Nat /\ DOMAIN a = 1 .. Len(a)
         /\ \A j \in 1 .. Len(a) : a[j] \in Nat
<1>1. a \in Seq(0 .. 255) /\ Len(a) \in Nat /\ DOMAIN a = 1 .. Len(a)
  BY DEF Strings
<1>2. \A j \in 1 .. Len(a) : a[j] \in 0 .. 255
  BY <1>1, ElementsIn, Zenon
<1>3. \A x \in 0 .. 255 : x \in Nat
  OBVIOUS
<1> QED
  BY <1>1, <1>2, <1>3, Zenon

(* Where a comes before b: at the first byte in which they differ, or where  *)
(* a has ended.                                                              *)
LessAt(a, b, i) ==
  /\ i \in 1 .. Len(b) /\ i <= Len(a) + 1
  /\ \A j \in 1 .. i - 1 : a[j] = b[j]
  /\ i <= Len(a) => a[i] < b[i]

(* A string comes before another where they first differ, or where the first ends. *)
LEMMA BeforeAt ==
  ASSUME NEW a \in Strings, NEW b \in Strings
  PROVE  Before(a, b) <=> \E i \in Nat : LessAt(a, b, i)
<1>1. /\ a \in Seq(0 .. 255) /\ b \in Seq(0 .. 255)
      /\ Len(a) \in Nat /\ Len(b) \in Nat
      /\ DOMAIN a = 1 .. Len(a) /\ DOMAIN b = 1 .. Len(b)
  BY DEF Strings
<1>2. ASSUME IsPrefix(a, b) /\ a # b PROVE LessAt(a, b, Len(a) + 1)
  <2>1. Len(a) <= Len(b) /\ \A j \in 1 .. Len(a) : a[j] = b[j]
    BY <1>1, <1>2, PrefixPoints
  <2>2. ASSUME Len(a) = Len(b) PROVE FALSE
    <3>1. a = b
      BY <1>1, <2>1, <2>2, SameSequence
    <3> QED BY <1>2, <3>1
  <2>3. Len(a) # Len(b)
    BY <2>2
  <2>4. \A m, n \in Nat : m <= n /\ m # n =>
                         m + 1 \in 1 .. n /\ m + 1 - 1 = m /\ ~(m + 1 <= m)
    OBVIOUS
  <2>5. Len(a) + 1 \in 1 .. Len(b) /\ Len(a) + 1 - 1 = Len(a) /\ ~(Len(a) + 1 <= Len(a))
    BY <1>1, <2>1, <2>3, <2>4, Zenon
  <2> QED BY <1>1, <2>1, <2>5 DEF LessAt
<1>3. ASSUME NEW i \in DOMAIN a \cap DOMAIN b, a[i] < b[i],
             \A j \in 1 .. i - 1 : a[j] = b[j]
      PROVE  LessAt(a, b, i)
  BY <1>1, <1>3 DEF LessAt
<1>4. ASSUME NEW i \in Nat, LessAt(a, b, i) PROVE Before(a, b)
  <2>1. CASE i <= Len(a)
    <3>1. i \in DOMAIN a \cap DOMAIN b
      BY <1>1, <1>4, <2>1 DEF LessAt
    <3> QED BY <1>4, <2>1, <3>1 DEF LessAt, Before
  <2>2. CASE ~(i <= Len(a))
    <3>1. i = Len(a) + 1 /\ Len(a) < Len(b)
      BY <1>1, <1>4, <2>2 DEF LessAt
    <3>2. \A j \in 1 .. Len(a) : a[j] = b[j]
      BY <1>1, <1>4, <3>1 DEF LessAt
    <3>3. IsPrefix(a, b)
      BY <1>1, <3>1, <3>2, PrefixPoints
    <3>4. a # b
      BY <1>1, <3>1
    <3> QED BY <3>3, <3>4 DEF Before
  <2> QED BY <2>1, <2>2
<1>5. ASSUME Before(a, b) PROVE \E i \in Nat : LessAt(a, b, i)
  <2>1. CASE IsPrefix(a, b) /\ a # b
    BY <1>1, <1>2, <2>1
  <2>2. CASE \E i \in DOMAIN a \cap DOMAIN b :
               a[i] < b[i] /\ \A j \in 1 .. i - 1 : a[j] = b[j]
    BY <1>1, <1>3, <2>2
  <2> QED BY <1>5, <2>1, <2>2 DEF Before
<1> QED
  BY <1>4, <1>5

(* The order of strings is transitive and irreflexive. *)
LEMMA BeforeTransitive ==
  ASSUME NEW a \in Strings, NEW b \in Strings, NEW c \in Strings,
         Before(a, b), Before(b, c)
  PROVE  Before(a, c)
<1>1. PICK i \in Nat : LessAt(a, b, i)
  BY BeforeAt
<1>2. PICK k \in Nat : LessAt(b, c, k)
  BY BeforeAt
<1>3. /\ Len(a) \in Nat /\ Len(b) \in Nat /\ Len(c) \in Nat
      /\ \A j \in 1 .. Len(a) : a[j] \in Nat
      /\ \A j \in 1 .. Len(b) : b[j] \in Nat
      /\ \A j \in 1 .. Len(c) : c[j] \in Nat
  BY StringFacts
<1>4. CASE i < k
  <2>1. LessAt(a, c, i)
    BY <1>1, <1>2, <1>3, <1>4 DEF LessAt
  <2> QED BY <2>1, BeforeAt
<1>5. CASE i = k
  <2>1. LessAt(a, c, i)
    BY <1>1, <1>2, <1>3, <1>5 DEF LessAt
  <2> QED BY <2>1, BeforeAt
<1>6. CASE k < i
  <2>1. LessAt(a, c, k)
    BY <1>1, <1>2, <1>3, <1>6 DEF LessAt
  <2> QED BY <2>1, BeforeAt
<1> QED
  BY <1>4, <1>5, <1>6

LEMMA BeforeIrreflexive ==
  ASSUME NEW a \in Strings PROVE ~Before(a, a)
<1> SUFFICES ASSUME NEW i \in Nat, LessAt(a, a, i) PROVE FALSE
  BY BeforeAt
<1>1. Len(a) \in Nat /\ \A j \in 1 .. Len(a) : a[j] \in Nat
  BY StringFacts
<1> QED
  BY <1>1 DEF LessAt

(* Comparing neighbours is enough: a list in order is in order throughout. *)
LEMMA SortedThroughout ==
  ASSUME NEW v \in Seq(Strings), StrictlySorted(v),
         NEW i \in DOMAIN v, NEW j \in DOMAIN v, i < j
  PROVE  /\ Before(v[i], v[j])
         /\ v[i] # v[j] /\ ~Before(v[j], v[i])
<1>1. /\ Len(v) \in Nat /\ DOMAIN v = 1 .. Len(v)
      /\ \A k \in 1 .. Len(v) : v[k] \in Strings
  BY ElementsIn
<1>2. i \in 1 .. Len(v) /\ j \in 1 .. Len(v)
  BY <1>1
<1> DEFINE S == {d \in Nat : i + 1 + d <= Len(v) => Before(v[i], v[i + 1 + d])}
<1>3. \A k \in 1 .. Len(v) - 1 : Before(v[k], v[k + 1])
  BY DEF StrictlySorted
<1>4. 0 \in S
  BY <1>1, <1>2, <1>3
<1>5. ASSUME NEW d \in 1 .. j - i - 1, d - 1 \in S PROVE d \in S
  <2> SUFFICES ASSUME i + 1 + d <= Len(v) PROVE Before(v[i], v[i + 1 + d])
    BY <1>2
  <2> DEFINE k == i + d
  <2>1. /\ k \in 1 .. Len(v) - 1 /\ k + 1 \in 1 .. Len(v) /\ k \in 1 .. Len(v)
        /\ i + 1 + (d - 1) = k /\ i + 1 + d = k + 1 /\ d - 1 \in Nat
    BY <1>1, <1>2
  <2>2. Before(v[i], v[k])
    BY <1>1, <1>5, <2>1
  <2>3. Before(v[k], v[k + 1])
    BY <1>3, <2>1, Zenon
  <2> HIDE DEF k
  <2>4. Before(v[i], v[k + 1])
    BY <1>1, <1>2, <2>1, <2>2, <2>3, BeforeTransitive, Zenon
  <2> QED BY <2>1, <2>4
<1>6. j - i - 1 \in S
  <2> HIDE DEF S
  <2>1. j - i - 1 \in Nat
    BY <1>2
  <2>2. 0 .. (j - i - 1) \subseteq S
    BY <1>4, <1>5, <2>1, Climb, Zenon
  <2> QED BY <2>1, <2>2
<1>7. Before(v[i], v[j])
  <2>1. i + 1 + (j - i - 1) = j /\ j <= Len(v)
    BY <1>1, <1>2
  <2> QED BY <1>6, <2>1
<1>8. v[i] # v[j]
  BY <1>1, <1>2, <1>7, BeforeIrreflexive
<1>9. ~Before(v[j], v[i])
  BY <1>1, <1>2, <1>7, BeforeIrreflexive, BeforeTransitive
<1> QED
  BY <1>7, <1>8, <1>9

-----------------------------------------------------------------------------
(* The segments of a path.                                                 *)

(* The cuts of a path are finitely many places, the end of the path among them. *)
LEMMA CutsFacts ==
  ASSUME NEW p \in Strings
  PROVE  /\ Cuts(p) \subseteq 1 .. Len(p) + 1 /\ Len(p) + 1 \in Cuts(p)
         /\ IsFiniteSet(Cuts(p)) /\ Cardinality(Cuts(p)) \in Nat
         /\ \A i : IsFiniteSet({j \in Cuts(p) : j < i}) /\ Rank(p, i) \in Nat
         /\ \A j \in Cuts(p) : j \in Nat /\ 1 <= j /\ j <= Len(p) + 1
<1>1. Len(p) \in Nat /\ DOMAIN p = 1 .. Len(p)
  BY StringFacts
<1>2. Cuts(p) \subseteq 1 .. Len(p) + 1 /\ Len(p) + 1 \in Cuts(p)
  BY <1>1 DEF Cuts
<1>3. IsFiniteSet(1 .. Len(p) + 1)
  BY <1>1, FS_Interval
<1>4. IsFiniteSet(Cuts(p)) /\ Cardinality(Cuts(p)) \in Nat
  BY <1>2, <1>3, FS_Subset, FS_CardinalityType
<1>5. ASSUME NEW i PROVE IsFiniteSet({j \in Cuts(p) : j < i}) /\ Rank(p, i) \in Nat
  <2>1. IsFiniteSet({j \in Cuts(p) : j < i})
    BY <1>4, FS_Subset
  <2> QED BY <2>1, FS_CardinalityType DEF Rank
<1>6. \A j \in 1 .. Len(p) + 1 : j \in Nat /\ 1 <= j /\ j <= Len(p) + 1
  BY <1>1
<1>7. \A j \in Cuts(p) : j \in Nat /\ 1 <= j /\ j <= Len(p) + 1
  BY <1>2, <1>6, Zenon
<1> QED
  BY <1>2, <1>4, <1>5, <1>7, Zenon

(* Of two cuts the later has the higher rank. *)
LEMMA RankMonotone ==
  ASSUME NEW p \in Strings, NEW i \in Cuts(p), NEW k \in Cuts(p), i < k
  PROVE  Rank(p, i) + 1 <= Rank(p, k)
<1> DEFINE A == {j \in Cuts(p) : j < i}
           B == {j \in Cuts(p) : j < k}
<1>1. IsFiniteSet(A) /\ IsFiniteSet(B) /\ Cuts(p) \subseteq 1 .. Len(p) + 1
  BY CutsFacts, Zenon
<1>2. i \notin A /\ A \cup {i} \subseteq B
  BY <1>1
<1> HIDE DEF A, B
<1>3. Cardinality(A \cup {i}) = Cardinality(A) + 1
  BY <1>1, <1>2, FS_AddElement, Zenon
<1>4. Cardinality(A \cup {i}) <= Cardinality(B)
  BY <1>1, <1>2, FS_Subset
<1> QED
  BY <1>3, <1>4 DEF Rank, A, B

(* There is a cut of every rank. *)
LEMMA CutRank ==
  ASSUME NEW p \in Strings, NEW k \in 1 .. Cardinality(Cuts(p))
  PROVE  Cut(p, k) \in Cuts(p) /\ Rank(p, Cut(p, k)) = k - 1
<1> DEFINE C == Cuts(p)
           N == Cardinality(C)
           S == {r \in Nat : \E i \in C : Rank(p, i) = r}
<1>1. /\ (\A j \in C : j \in Nat) /\ C # {} /\ IsFiniteSet(C) /\ N \in Nat
      /\ \A i : IsFiniteSet({j \in C : j < i}) /\ Rank(p, i) \in Nat
  BY CutsFacts, Zenon
<1>2. \A i : Rank(p, i) = Cardinality({j \in C : j < i})
  BY DEF Rank
<1> HIDE DEF C
<1>3. 0 \in S
  <2>1. PICK m \in C : \A j \in C : m <= j
    BY <1>1, Least
  <2>2. \A j \in C : ~(j < m)
    BY <1>1, <2>1
  <2>3. Rank(p, m) = 0
    <3>1. {j \in C : j < m} = {}
      BY <2>2, Zenon
    <3> QED BY <1>2, <3>1, FS_EmptySet
  <2> QED BY <2>1, <2>3
<1>4. ASSUME NEW r \in 1 .. (N - 1), r - 1 \in S PROVE r \in S
  <2>1. PICK i \in C : Rank(p, i) = r - 1
    BY <1>4
  <2> DEFINE A == {j \in C : j < i}
             U == {j \in C : j > i}
  <2>2. IsFiniteSet(A) /\ i \notin A /\ Cardinality(A) = r - 1
    BY <1>1, <1>2, <2>1
  <2>3. Cardinality(A \cup {i}) = r
    <3> HIDE DEF A
    <3>1. Cardinality(A \cup {i}) = Cardinality(A) + 1
      BY <2>2, FS_AddElement, Zenon
    <3> QED BY <1>1, <2>2, <3>1
  <2>4. U # {}
    <3> SUFFICES ASSUME U = {} PROVE FALSE
      OBVIOUS
    <3>1. \A j \in C : j < i \/ j = i
      BY <1>1, <2>1
    <3>2. C = A \cup {i}
      BY <2>1, <3>1, Zenon
    <3>3. N = r
      BY <2>3, <3>2
    <3> QED BY <1>1, <3>3
  <2>5. PICK m \in U : \A j \in U : m <= j
    <3>1. U \in SUBSET Nat
      BY <1>1
    <3> HIDE DEF U
    <3> QED BY <2>4, <3>1, Least
  <2>6. {j \in C : j < m} = A \cup {i}
    <3>1. \A j \in C : j < m <=> j < i \/ j = i
      BY <1>1, <2>1, <2>5
    <3> QED BY <2>1, <3>1, Zenon
  <2>7. Rank(p, m) = r
    BY <1>2, <2>3, <2>6
  <2> QED BY <2>5, <2>7
<1>5. k - 1 \in S
  <2> HIDE DEF S
  <2>1. N - 1 \in Nat /\ k - 1 \in 0 .. (N - 1)
    BY <1>1 DEF C
  <2>2. 0 .. (N - 1) \subseteq S
    BY <1>3, <1>4, <2>1, Climb
  <2> QED BY <2>1, <2>2
<1>6. \E i \in C : Rank(p, i) = k - 1
  BY <1>5
<1> QED
  BY <1>6 DEF Cut, C

(* Between a cut and the next lies no other; the first is where the path     *)
(* starts, the last where it ends.                                           *)
LEMMA CutOrder ==
  ASSUME NEW p \in Strings, Len(p) > 0, p[1] = Slash
  PROVE  LET N == Cardinality(Cuts(p))
         IN  /\ N \in Nat /\ N >= 2
             /\ Cut(p, 1) = 1 /\ Cut(p, N) = Len(p) + 1
             /\ \A k \in 1 .. N : Cut(p, k) \in Cuts(p) /\ Cut(p, k) \in 1 .. Len(p) + 1
             /\ \A k \in 1 .. (N - 1) : Cut(p, k) < Cut(p, k + 1)
<1> DEFINE C == Cuts(p)
           N == Cardinality(C)
<1>1. /\ Len(p) + 1 \in C /\ IsFiniteSet(C) /\ N \in Nat
      /\ \A i : IsFiniteSet({j \in C : j < i}) /\ Rank(p, i) \in Nat
      /\ \A j \in C : j \in Nat /\ 1 <= j /\ j <= Len(p) + 1
  BY CutsFacts, Zenon
<1>2. 1 \in C /\ Len(p) \in Nat /\ 1 # Len(p) + 1
  BY StringFacts DEF Cuts
<1>3. \A i, k \in C : i < k => Rank(p, i) + 1 <= Rank(p, k)
  BY RankMonotone
<1>4. \A i \in C : Rank(p, i) + 1 <= N
  <2> SUFFICES ASSUME NEW i \in C PROVE Rank(p, i) + 1 <= N
    OBVIOUS
  <2> DEFINE A == {j \in C : j < i}
  <2>1. IsFiniteSet(A) /\ i \notin A /\ A \cup {i} \subseteq C /\ Rank(p, i) = Cardinality(A)
    <3>1. ~(i < i)
      BY <1>1
    <3>2. Rank(p, i) = Cardinality(A)
      BY DEF Rank
    <3> QED BY <1>1, <3>1, <3>2, Zenon
  <2> HIDE DEF A, C
  <2>2. Cardinality(A \cup {i}) = Cardinality(A) + 1
    BY <2>1, FS_AddElement, Zenon
  <2>3. Cardinality(A \cup {i}) <= N
    BY <1>1, <2>1, FS_Subset
  <2> QED BY <2>1, <2>2, <2>3
<1>5. N >= 2
  <2>1. 1 < Len(p) + 1
    BY <1>2
  <2> DEFINE x == Rank(p, 1)
             y == Rank(p, Len(p) + 1)
  <2>2. x + 1 <= y /\ y + 1 <= N /\ x \in Nat /\ y \in Nat
    BY <1>1, <1>2, <1>3, <1>4, <2>1, Zenon
  <2> HIDE DEF x, y
  <2> QED BY <1>1, <2>2
<1>6. \A k \in 1 .. N : Cut(p, k) \in C /\ Rank(p, Cut(p, k)) = k - 1
  BY CutRank
<1> HIDE DEF C
<1>7. \A k \in 1 .. N : Cut(p, k) \in 1 .. Len(p) + 1
  BY <1>1, <1>6
<1>8. Cut(p, 1) = 1
  <2>1. Cut(p, 1) \in C /\ Rank(p, Cut(p, 1)) = 0
    BY <1>1, <1>5, <1>6
  <2>2. Cut(p, 1) \in 1 .. Len(p) + 1
    BY <1>1, <2>1
  <2>3. ~(1 < Cut(p, 1))
    <3> SUFFICES ASSUME 1 < Cut(p, 1) PROVE FALSE
      OBVIOUS
    <3> DEFINE x == Rank(p, 1)
               y == Rank(p, Cut(p, 1))
    <3>1. x + 1 <= y /\ x \in Nat /\ y = 0
      BY <1>1, <1>2, <1>3, <2>1, Zenon
    <3> HIDE DEF x, y
    <3> QED BY <3>1
  <2> QED BY <1>2, <2>2, <2>3
<1>9. Cut(p, N) = Len(p) + 1
  <2>1. Cut(p, N) \in C /\ Rank(p, Cut(p, N)) = N - 1
    BY <1>1, <1>5, <1>6
  <2>2. Cut(p, N) \in 1 .. Len(p) + 1
    BY <1>1, <2>1
  <2>3. ~(Cut(p, N) < Len(p) + 1)
    <3> SUFFICES ASSUME Cut(p, N) < Len(p) + 1 PROVE FALSE
      OBVIOUS
    <3>1. N - 1 + 1 <= Rank(p, Len(p) + 1)
      BY <1>1, <1>3, <2>1
    <3>2. Rank(p, Len(p) + 1) + 1 <= N /\ Rank(p, Len(p) + 1) \in Nat
      BY <1>1, <1>4, Zenon
    <3> QED BY <1>1, <3>1, <3>2
  <2> QED BY <1>2, <2>2, <2>3
<1>10. ASSUME NEW k \in 1 .. (N - 1) PROVE Cut(p, k) < Cut(p, k + 1)
  <2>1. k \in 1 .. N /\ k + 1 \in 1 .. N /\ k \in Nat
    BY <1>1
  <2>2. /\ Cut(p, k) \in C /\ Rank(p, Cut(p, k)) = k - 1
        /\ Cut(p, k + 1) \in C /\ Rank(p, Cut(p, k + 1)) = k
    BY <1>6, <2>1
  <2>3. Cut(p, k) \in 1 .. Len(p) + 1 /\ Cut(p, k + 1) \in 1 .. Len(p) + 1
    BY <1>7, <2>1
  <2>4. Cut(p, k) # Cut(p, k + 1)
    BY <2>1, <2>2
  <2>5. ~(Cut(p, k + 1) < Cut(p, k))
    <3> SUFFICES ASSUME Cut(p, k + 1) < Cut(p, k) PROVE FALSE
      OBVIOUS
    <3>1. k + 1 <= k - 1
      BY <1>3, <2>2
    <3> QED BY <2>1, <3>1
  <2> QED BY <1>2, <2>3, <2>4, <2>5
<1> QED
  BY <1>1, <1>5, <1>6, <1>7, <1>8, <1>9, <1>10 DEF C

(* A path below another one continues it after a slash. *)
LEMMA BelowPoints ==
  ASSUME NEW p \in Strings, NEW q \in Strings
  PROVE  Below(q, p) <=> /\ Len(p) + 1 <= Len(q) /\ q[Len(p) + 1] = Slash
                         /\ \A x \in 1 .. Len(p) : p[x] = q[x]
<1> DEFINE r == Append(p, Slash)
<1>1. p \in Seq(0 .. 255) /\ q \in Seq(0 .. 255) /\ Len(p) \in Nat
  BY DEF Strings
<1>2. /\ r \in Seq(0 .. 255) /\ Len(r) = Len(p) + 1 /\ r[Len(p) + 1] = Slash
      /\ \A x \in 1 .. Len(p) : r[x] = p[x]
  BY <1>1 DEF Slash
<1>3. \A x : x \in 1 .. Len(p) + 1 <=> x \in 1 .. Len(p) \/ x = Len(p) + 1
  BY <1>1
<1> HIDE DEF r
<1>4. IsPrefix(r, q) <=> Len(r) <= Len(q) /\ \A x \in 1 .. Len(r) : r[x] = q[x]
  BY <1>1, <1>2, PrefixPoints
<1>5. IsPrefix(r, q) <=> /\ Len(p) + 1 <= Len(q) /\ q[Len(p) + 1] = Slash
                         /\ \A x \in 1 .. Len(p) : p[x] = q[x]
  BY <1>2, <1>3, <1>4, Zenon
<1> QED
  BY <1>5 DEF Below, r

LEMMA Slice ==
  ASSUME NEW S, NEW s \in Seq(S), NEW a \in 1 .. Len(s) + 1, NEW b \in 1 .. Len(s) + 1, a < b
  PROVE  /\ SubSeq(s, a + 1, b - 1) \in Seq(S)
         /\ Len(SubSeq(s, a + 1, b - 1)) = b - a - 1
         /\ \A x \in 1 .. b - a - 1 : SubSeq(s, a + 1, b - 1)[x] = s[a + x]
<1>1. Len(s) \in Nat /\ a \in Nat /\ b \in Nat /\ 1 <= a /\ b <= Len(s) + 1
  OBVIOUS
<1> DEFINE n == b - a - 1
<1>2. n \in Nat /\ (b - 1) - (a + 1) + 1 = n
  BY <1>1
<1>3. SubSeq(s, a + 1, b - 1) = [x \in 1 .. n |-> s[a + x]]
  BY <1>1, <1>2
<1>4. \A x \in 1 .. n : s[a + x] \in S
  BY <1>1
<1> HIDE DEF n
<1>5. [x \in 1 .. n |-> s[a + x]] \in Seq(S) /\ Len([x \in 1 .. n |-> s[a + x]]) = n
  BY <1>2, <1>4
<1> QED
  BY <1>3, <1>5 DEF n

(* A segment is what lies between two neighbouring cuts. *)
LEMMA SegmentFacts ==
  ASSUME NEW p \in Strings, Len(p) > 0, p[1] = Slash
  PROVE  LET N == Cardinality(Cuts(p))
         IN  /\ Segments(p) \in Seq(Strings) /\ Len(Segments(p)) = N - 1
             /\ \A k \in 1 .. (N - 1) :
                  /\ Len(Segments(p)[k]) = Cut(p, k + 1) - Cut(p, k) - 1
                  /\ \A x \in 1 .. Cut(p, k + 1) - Cut(p, k) - 1 :
                       Segments(p)[k][x] = p[Cut(p, k) + x]
<1> DEFINE N == Cardinality(Cuts(p))
           G(k) == SubSeq(p, Cut(p, k) + 1, Cut(p, k + 1) - 1)
<1>1. /\ N \in Nat /\ N >= 2
      /\ \A k \in 1 .. N : Cut(p, k) \in 1 .. Len(p) + 1
      /\ \A k \in 1 .. (N - 1) : Cut(p, k) < Cut(p, k + 1)
  BY CutOrder
<1>2. p \in Seq(0 .. 255) /\ Len(p) \in Nat
  BY StringFacts
<1> HIDE DEF N
<1>3. ASSUME NEW k \in 1 .. (N - 1)
      PROVE  /\ G(k) \in Strings /\ Len(G(k)) = Cut(p, k + 1) - Cut(p, k) - 1
             /\ \A x \in 1 .. Cut(p, k + 1) - Cut(p, k) - 1 : G(k)[x] = p[Cut(p, k) + x]
  <2> DEFINE a == Cut(p, k)
             b == Cut(p, k + 1)
  <2>1. k \in 1 .. N /\ k + 1 \in 1 .. N
    BY <1>1
  <2>2. a \in 1 .. Len(p) + 1 /\ b \in 1 .. Len(p) + 1 /\ a < b
    BY <1>1, <2>1
  <2> HIDE DEF a, b
  <2>3. /\ SubSeq(p, a + 1, b - 1) \in Seq(0 .. 255)
        /\ Len(SubSeq(p, a + 1, b - 1)) = b - a - 1
        /\ \A x \in 1 .. b - a - 1 : SubSeq(p, a + 1, b - 1)[x] = p[a + x]
    BY <1>2, <2>2, Slice, ZenonT(30)
  <2> QED BY <2>3, Zenon DEF Strings, a, b
<1>4. Segments(p) = [k \in 1 .. (N - 1) |-> G(k)]
  BY DEF Segments, N
<1> HIDE DEF G
<1>5. N - 1 \in Nat
  BY <1>1
<1>6. Segments(p) \in Seq(Strings) /\ Len(Segments(p)) = N - 1
  <2>1. Segments(p) \in [1 .. (N - 1) -> Strings]
    BY <1>3, <1>4
  <2> QED BY <1>5, <2>1
<1>7. \A k \in 1 .. (N - 1) : Segments(p)[k] = G(k)
  BY <1>4
<1> QED
  BY <1>3, <1>6, <1>7 DEF N

(* A path whose segments lead another is that path or an ancestor of it. *)
LEMMA SegmentsLead ==
  ASSUME NEW p \in Strings, Len(p) > 0, p[1] = Slash,
         NEW q \in Strings, Len(q) > 0, q[1] = Slash,
         IsPrefix(Segments(p), Segments(q))
  PROVE  p = q \/ Below(q, p)
<1> DEFINE N == Cardinality(Cuts(p))
           M == Cardinality(Cuts(q))
           S == {k \in Nat : /\ Cut(p, k + 1) = Cut(q, k + 1)
                             /\ \A x \in 1 .. Cut(p, k + 1) - 1 : p[x] = q[x]}
<1>1. /\ N \in Nat /\ N >= 2 /\ Cut(p, 1) = 1 /\ Cut(p, N) = Len(p) + 1
      /\ \A k \in 1 .. N : Cut(p, k) \in Cuts(p) /\ Cut(p, k) \in 1 .. Len(p) + 1
      /\ \A k \in 1 .. (N - 1) : Cut(p, k) < Cut(p, k + 1)
  BY CutOrder
<1>2. /\ M \in Nat /\ M >= 2 /\ Cut(q, 1) = 1
      /\ \A k \in 1 .. M : Cut(q, k) \in Cuts(q) /\ Cut(q, k) \in 1 .. Len(q) + 1
      /\ \A k \in 1 .. (M - 1) : Cut(q, k) < Cut(q, k + 1)
  BY CutOrder
<1>3. /\ Segments(p) \in Seq(Strings) /\ Len(Segments(p)) = N - 1
      /\ \A k \in 1 .. (N - 1) :
           /\ Len(Segments(p)[k]) = Cut(p, k + 1) - Cut(p, k) - 1
           /\ \A x \in 1 .. Cut(p, k + 1) - Cut(p, k) - 1 :
                Segments(p)[k][x] = p[Cut(p, k) + x]
  BY SegmentFacts
<1>4. /\ Segments(q) \in Seq(Strings) /\ Len(Segments(q)) = M - 1
      /\ \A k \in 1 .. (M - 1) :
           /\ Len(Segments(q)[k]) = Cut(q, k + 1) - Cut(q, k) - 1
           /\ \A x \in 1 .. Cut(q, k + 1) - Cut(q, k) - 1 :
                Segments(q)[k][x] = q[Cut(q, k) + x]
  BY SegmentFacts
<1>5. N - 1 <= M - 1 /\ \A k \in 1 .. (N - 1) : Segments(p)[k] = Segments(q)[k]
  <2> DEFINE u == Segments(p)
             v == Segments(q)
  <2>1. u \in Seq(Strings) /\ v \in Seq(Strings) /\ IsPrefix(u, v)
    BY <1>3, <1>4
  <2> HIDE DEF u, v
  <2>2. Len(u) <= Len(v) /\ \A k \in 1 .. Len(u) : u[k] = v[k]
    BY <2>1, PrefixPoints
  <2> QED BY <1>3, <1>4, <2>2 DEF u, v
<1> HIDE DEF N, M
<1>6. N <= M
  BY <1>1, <1>2, <1>5
<1>7. 0 \in S
  BY <1>1, <1>2
<1>8. Len(p) \in Nat /\ Len(q) \in Nat /\ DOMAIN p = 1 .. Len(p) /\ DOMAIN q = 1 .. Len(q)
  BY StringFacts
<1>9. ASSUME NEW k \in 1 .. (N - 1), k - 1 \in S PROVE k \in S
  <2> DEFINE c == Cut(p, k)
             d == Cut(p, k + 1)
             e == Cut(q, k + 1)
  <2>1. /\ k \in Nat /\ k \in 1 .. N /\ k + 1 \in 1 .. N /\ (k - 1) + 1 = k
        /\ k \in 1 .. M /\ k + 1 \in 1 .. M /\ k \in 1 .. (M - 1)
    BY <1>1, <1>2, <1>6
  <2>2. Cut(q, k) = c /\ \A x \in 1 .. c - 1 : p[x] = q[x]
    BY <1>9, <2>1
  <2>3. /\ c \in Cuts(p) /\ c \in 1 .. Len(p) + 1 /\ d \in 1 .. Len(p) + 1 /\ c < d
        /\ c \in Cuts(q) /\ e \in 1 .. Len(q) + 1 /\ c < e
    BY <1>1, <1>2, <2>1, <2>2
  <2>4. /\ Len(Segments(p)[k]) = d - c - 1 /\ Len(Segments(q)[k]) = e - c - 1
        /\ Segments(p)[k] = Segments(q)[k]
        /\ \A x \in 1 .. d - c - 1 : Segments(p)[k][x] = p[c + x]
        /\ \A x \in 1 .. e - c - 1 : Segments(q)[k][x] = q[c + x]
    BY <1>3, <1>4, <1>5, <2>1, <2>2
  <2> HIDE DEF c, d, e
  <2>5. d = e
    BY <1>8, <2>3, <2>4
  <2>6. p[c] = q[c]
    BY <1>8, <2>3 DEF Cuts
  <2>7. ASSUME NEW x \in 1 .. d - 1 PROVE p[x] = q[x]
    <3>1. x \in 1 .. c - 1 \/ x = c \/ (x - c \in 1 .. d - c - 1 /\ c + (x - c) = x)
      BY <1>8, <2>3
    <3> QED BY <2>2, <2>4, <2>5, <2>6, <3>1, Zenon
  <2> QED BY <2>1, <2>5, <2>7 DEF c, d, e
<1>10. N - 1 \in S
  <2> HIDE DEF S
  <2>1. N - 1 \in Nat
    BY <1>1
  <2>2. 0 .. (N - 1) \subseteq S
    BY <1>7, <1>9, <2>1, Climb, Zenon
  <2> QED BY <2>1, <2>2
<1>11. Cut(q, N) = Len(p) + 1 /\ \A x \in 1 .. Len(p) : p[x] = q[x]
  <2>1. (N - 1) + 1 = N /\ (Len(p) + 1) - 1 = Len(p)
    BY <1>1, <1>8
  <2> QED BY <1>1, <1>10, <2>1
<1>12. Len(p) + 1 \in Cuts(q)
  BY <1>1, <1>2, <1>6, <1>11
<1>13. p \in Seq(0 .. 255) /\ q \in Seq(0 .. 255)
  BY DEF Strings
<1>14. CASE Len(p) + 1 = Len(q) + 1
  BY <1>8, <1>11, <1>13, <1>14, SameSequence
<1>15. CASE Len(p) + 1 # Len(q) + 1
  <2>1. Len(p) + 1 <= Len(q) /\ q[Len(p) + 1] = Slash
    BY <1>8, <1>12, <1>15 DEF Cuts
  <2> QED BY <1>8, <1>11, <2>1, BelowPoints
<1> QED
  BY <1>14, <1>15

-----------------------------------------------------------------------------
(* What an accepted manifest describes.                                    *)

Rooted(p) == p \in Strings /\ Len(p) >= 2 /\ p[1] = Slash
Apart(p, q) == p # q /\ ~Below(p, q) /\ ~Below(q, p)

(* Two rooted paths that the validator keeps apart do not overlap. *)
LEMMA ApartIsDisjoint ==
  ASSUME NEW p, NEW q, Rooted(p), Rooted(q), Apart(p, q)
  PROVE  ~Overlap(p, q)
<1>1. p \in Strings /\ q \in Strings /\ Len(p) > 0 /\ Len(q) > 0 /\ p[1] = Slash /\ q[1] = Slash
  BY StringFacts DEF Rooted
<1>2. ASSUME IsPrefix(Segments(p), Segments(q)) PROVE FALSE
  BY <1>1, <1>2, SegmentsLead DEF Apart
<1>3. ASSUME IsPrefix(Segments(q), Segments(p)) PROVE FALSE
  BY <1>1, <1>3, SegmentsLead DEF Apart
<1> QED
  BY <1>2, <1>3 DEF Overlap

(* A path comes before what is below it. *)
LEMMA BelowIsAfter ==
  ASSUME NEW p \in Strings, NEW q \in Strings, Below(q, p)
  PROVE  Before(p, q)
<1>1. Len(p) \in Nat /\ Len(q) \in Nat
  BY StringFacts
<1>2. Len(p) + 1 <= Len(q) /\ \A x \in 1 .. Len(p) : p[x] = q[x]
  BY BelowPoints
<1>3. LessAt(p, q, Len(p) + 1)
  <2>1. /\ Len(p) + 1 \in 1 .. Len(q) /\ (Len(p) + 1) - 1 = Len(p)
        /\ ~(Len(p) + 1 <= Len(p)) /\ Len(p) + 1 \in Nat
    BY <1>1, <1>2
  <2> QED BY <1>1, <1>2, <2>1 DEF LessAt
<1> QED
  BY <1>1, <1>3, BeforeAt

(* The validator compares a path with its ancestors only; sortedness makes that enough. *)
LEMMA SortedApart ==
  ASSUME NEW v \in Seq(Strings), StrictlySorted(v), AncestorsApart(v),
         NEW i \in DOMAIN v, NEW j \in DOMAIN v, i # j
  PROVE  Apart(v[i], v[j])
<1>1. /\ Len(v) \in Nat /\ DOMAIN v = 1 .. Len(v)
      /\ \A k \in 1 .. Len(v) : v[k] \in Strings
  BY ElementsIn
<1>2. ASSUME NEW a \in DOMAIN v, NEW b \in DOMAIN v, a < b
      PROVE  v[a] # v[b] /\ ~Below(v[a], v[b]) /\ ~Below(v[b], v[a])
  <2>1. v[a] # v[b] /\ ~Before(v[b], v[a])
    BY <1>2, SortedThroughout
  <2>2. v[a] \in Strings /\ v[b] \in Strings
    BY <1>1
  <2>3. ~Below(v[a], v[b])
    BY <2>1, <2>2, BelowIsAfter
  <2>4. b \in a + 1 .. Len(v)
    BY <1>1, <1>2
  <2>5. ~Below(v[b], v[a])
    BY <2>4 DEF AncestorsApart
  <2> QED BY <2>1, <2>3, <2>5
<1>3. i < j \/ j < i
  BY <1>1
<1> QED
  BY <1>2, <1>3 DEF Apart

(* /tmp and /work are apart, and no rooted path has either below it. *)
LEMMA WritableFacts ==
  /\ Rooted(Tmp) /\ Rooted(Work) /\ Apart(Tmp, Work)
  /\ \A p : Rooted(p) => ~Below(Tmp, p) /\ ~Below(Work, p)
<1>1. /\ Tmp \in Strings /\ Len(Tmp) = 4 /\ Tmp[1] = 47 /\ Tmp[2] = 116 /\ Tmp[3] = 109
      /\ Tmp[4] = 112
  BY DEF Tmp, Strings
<1>2. /\ Work \in Strings /\ Len(Work) = 5 /\ Work[1] = 47 /\ Work[2] = 119 /\ Work[3] = 111
      /\ Work[4] = 114 /\ Work[5] = 107
  BY DEF Work, Strings
<1>3. Rooted(Tmp) /\ Rooted(Work)
  BY <1>1, <1>2 DEF Rooted, Slash
<1>4. ASSUME NEW p, Rooted(p) PROVE ~Below(Tmp, p) /\ ~Below(Work, p)
  <2>1. p \in Strings /\ Len(p) \in Nat /\ Len(p) >= 2
    BY <1>4, StringFacts DEF Rooted
  <2> DEFINE n == Len(p)
  <2>2. ASSUME Below(Tmp, p) PROVE FALSE
    <3>1. n + 1 <= 4 /\ Tmp[n + 1] = 47
      BY <1>1, <2>1, <2>2, BelowPoints DEF Slash
    <3>2. n + 1 = 3 \/ n + 1 = 4
      BY <2>1, <3>1
    <3> QED BY <1>1, <3>1, <3>2
  <2>3. ASSUME Below(Work, p) PROVE FALSE
    <3>1. n + 1 <= 5 /\ Work[n + 1] = 47
      BY <1>2, <2>1, <2>3, BelowPoints DEF Slash
    <3>2. n + 1 = 3 \/ n + 1 = 4 \/ n + 1 = 5
      BY <2>1, <3>1
    <3> QED BY <1>2, <3>1, <3>2
  <2> QED BY <2>2, <2>3
<1>5. Tmp # Work
  BY <1>1, <1>2
<1> HIDE DEF Tmp, Work
<1> QED
  BY <1>3, <1>4, <1>5 DEF Apart

LEMMA ManifestParts ==
  ASSUME NEW m \in EnvironmentManifests
  PROVE  /\ m.language.name \in Strings /\ m.language.version \in Strings
         /\ m.language.implementation \in Strings /\ m.build.toolchain_id \in Strings
         /\ m.commands.default \in Strings
         /\ m.required_wasm_features \in Seq(Strings) /\ m.commands.available \in Seq(Strings)
         /\ m.filesystem.immutable \in Seq(Strings) /\ m.filesystem.writable \in Seq(Strings)
         /\ m.artifact.sha256 \in Digests /\ m.build.source_digest \in Digests
         /\ m.build.lock_digest \in Digests /\ m.environment_id \in Digests
<1> DEFINE S == Strings
           D == Digests
<1>1. m \in [schema_version : Nat, environment_id : D, execution_profile : STRING,
     language : [name : S, version : S, implementation : S],
     artifact : [format : STRING, path : STRING, sha256 : D],
     required_wasm_features : Seq(S),
     commands : [default : S, available : Seq(S)],
     filesystem : [immutable : Seq(S), writable : Seq(S)],
     build : [toolchain_id : S, source_digest : D, lock_digest : D]]
  BY DEF EnvironmentManifests
<1> HIDE DEF S, D
<1>2. /\ m.language.name \in S /\ m.language.version \in S
      /\ m.language.implementation \in S /\ m.build.toolchain_id \in S
      /\ m.commands.default \in S
      /\ m.required_wasm_features \in Seq(S) /\ m.commands.available \in Seq(S)
      /\ m.filesystem.immutable \in Seq(S) /\ m.filesystem.writable \in Seq(S)
      /\ m.artifact.sha256 \in D /\ m.build.source_digest \in D
      /\ m.build.lock_digest \in D /\ m.environment_id \in D
  BY <1>1
<1> QED
  BY <1>2 DEF S, D

(* The length of the encoding is a natural number. *)
LEMMA LengthCounted ==
  ASSUME NEW m \in EnvironmentManifests
  PROVE  EncodedLength(m) \in Nat
<1> DEFINE strings == <<m.language.name, m.language.version, m.language.implementation,
                     m.build.toolchain_id, m.commands.default>>
                   \o m.required_wasm_features \o m.commands.available
                   \o m.filesystem.immutable \o m.filesystem.writable
           lengths == [i \in DOMAIN strings |-> JsonLength(strings[i])]
<1>1. strings \in Seq(Strings)
  <2>1. <<m.language.name, m.language.version, m.language.implementation,
          m.build.toolchain_id, m.commands.default>> \in Seq(Strings)
    <3>1. \A S : \A a, b, c, d, e \in S : <<a, b, c, d, e>> \in Seq(S)
      OBVIOUS
    <3> QED BY <3>1, ManifestParts, Zenon
  <2>2. \A S : \A a, b, c, d, e \in Seq(S) : a \o b \o c \o d \o e \in Seq(S)
    OBVIOUS
  <2> QED BY <2>1, <2>2, ManifestParts, Zenon
<1> HIDE DEF strings
<1>2. ASSUME NEW value \in Strings PROVE JsonLength(value) \in Nat
  <2>1. Len(value) \in Nat /\ DOMAIN value = 1 .. Len(value)
    BY StringFacts
  <2>2. IsFiniteSet(DOMAIN value)
    BY <2>1, FS_Interval
  <2>3. Cardinality({i \in DOMAIN value : value[i] \in {34, Backslash}}) \in Nat
    BY <2>2, FS_Subset, FS_CardinalityType
  <2> QED BY <2>1, <2>3 DEF JsonLength
<1>3. Len(strings) \in Nat /\ DOMAIN strings = 1 .. Len(strings)
      /\ \A i \in 1 .. Len(strings) : strings[i] \in Strings
  BY <1>1, ElementsIn
<1>4. lengths \in Seq(Nat)
  <2>1. lengths = [i \in 1 .. Len(strings) |-> JsonLength(strings[i])]
    BY <1>3
  <2>2. \A i \in 1 .. Len(strings) : JsonLength(strings[i]) \in Nat
    BY <1>2, <1>3
  <2> HIDE DEF lengths
  <2> QED BY <1>3, <2>1, <2>2
<1>5. EncodedLength(m) = Sum(lengths)
  BY DEF EncodedLength, Sum, strings
<1> HIDE DEF lengths
<1> QED
  BY <1>4, <1>5, SumType

LEMMA TwoMore ==
  ASSUME NEW S, NEW s \in Seq(S), NEW a \in S, NEW b \in S, NEW t, t = s \o <<a, b>>
  PROVE  /\ t \in Seq(S) /\ Len(t) = Len(s) + 2 /\ DOMAIN t = 1 .. Len(s) + 2
         /\ \A k \in 1 .. Len(s) : t[k] = s[k]
         /\ t[Len(s) + 1] = a /\ t[Len(s) + 2] = b
  OBVIOUS

(* No two paths of an accepted manifest overlap, immutable or writable. *)
LEMMA AcceptedPaths ==
  ASSUME NEW m \in EnvironmentManifests, validate_identity_fields(m),
         NEW i \in DOMAIN (m.filesystem.immutable \o m.filesystem.writable),
         NEW j \in DOMAIN (m.filesystem.immutable \o m.filesystem.writable), i # j
  PROVE  ~Overlap((m.filesystem.immutable \o m.filesystem.writable)[i],
                  (m.filesystem.immutable \o m.filesystem.writable)[j])
<1> DEFINE v == m.filesystem.immutable
           w == m.filesystem.writable
           paths == v \o w
           n == Len(v)
<1>1. v \in Seq(Strings) /\ w = <<Tmp, Work>>
  BY ManifestParts DEF validate_identity_fields
<1>2. n \in Nat /\ DOMAIN v = 1 .. n /\ \A k \in 1 .. n : v[k] \in Strings
  BY <1>1, ElementsIn
<1>3. validate_sorted_guest_paths(v)
  BY DEF validate_identity_fields
<1>4. ASSUME NEW k \in DOMAIN v PROVE ~(v[k] \in {Tmp, Work} \/ Below(v[k], Tmp) \/ Below(v[k], Work))
  BY <1>4 DEF validate_identity_fields
<1>5. StrictlySorted(v) /\ AncestorsApart(v)
  BY <1>3 DEF validate_sorted_guest_paths
<1>6. ASSUME NEW k \in DOMAIN v PROVE Rooted(v[k])
  <2>1. validate_guest_path(v[k])
    BY <1>3 DEF validate_sorted_guest_paths
  <2>2. v[k] \in Strings /\ Len(v[k]) \in Nat
    BY <1>2, StringFacts
  <2>3. v[k][1] = Slash /\ Len(v[k]) >= 2
    <3>1. Len(v[k]) \in 2 .. MAX_TOKEN_BYTES /\ v[k][1] = Slash
      BY <2>1 DEF validate_guest_path
    <3> QED BY <2>2, <3>1
  <2> QED BY <2>2, <2>3 DEF Rooted
<1>7. ASSUME NEW k \in DOMAIN v PROVE Apart(v[k], Tmp) /\ Apart(v[k], Work)
  <2>1. ~Below(Tmp, v[k]) /\ ~Below(Work, v[k])
    BY <1>6, <1>7, WritableFacts
  <2> QED BY <1>4, <1>7, <2>1 DEF Apart
<1>8. /\ paths \in Seq(Strings) /\ Len(paths) = n + 2 /\ DOMAIN paths = 1 .. n + 2
      /\ \A k \in 1 .. n : paths[k] = v[k]
      /\ paths[n + 1] = Tmp /\ paths[n + 2] = Work
  <2>1. Tmp \in Strings /\ Work \in Strings
    BY WritableFacts DEF Rooted
  <2>2. paths = v \o <<Tmp, Work>>
    BY <1>1
  <2> HIDE DEF v, w, paths
  <2> QED BY <1>1, <2>1, <2>2, TwoMore
<1> HIDE DEF v, w, paths, n
<1>9. \A p, q : Apart(p, q) => Apart(q, p)
  BY DEF Apart
<1>10. ASSUME NEW k \in 1 .. n + 2 PROVE k \in DOMAIN v \/ k = n + 1 \/ k = n + 2
  BY <1>2
<1>11. ASSUME NEW k \in DOMAIN v PROVE paths[k] = v[k]
  BY <1>2, <1>8
<1>12. ASSUME NEW k \in 1 .. n + 2 PROVE Rooted(paths[k])
  BY <1>6, <1>8, <1>10, <1>11, WritableFacts
<1>13. i \in 1 .. n + 2 /\ j \in 1 .. n + 2
  BY <1>8 DEF paths, v, w
<1>14. Apart(paths[i], paths[j])
  <2>1. CASE i \in DOMAIN v /\ j \in DOMAIN v
    BY <1>1, <1>5, <1>11, <2>1, SortedApart
  <2>2. CASE i \in DOMAIN v /\ j \notin DOMAIN v
    BY <1>7, <1>8, <1>10, <1>11, <1>13, <2>2, Zenon
  <2>3. CASE i \notin DOMAIN v /\ j \in DOMAIN v
    BY <1>7, <1>8, <1>9, <1>10, <1>11, <1>13, <2>3, Zenon
  <2>4. CASE i \notin DOMAIN v /\ j \notin DOMAIN v
    BY <1>8, <1>9, <1>10, <1>13, <2>4, WritableFacts, Zenon
  <2> QED BY <2>1, <2>2, <2>3, <2>4
<1>15. ~Overlap(paths[i], paths[j])
  <2>1. Rooted(paths[i]) /\ Rooted(paths[j])
    BY <1>12, <1>13
  <2> QED BY <1>14, <2>1, ApartIsDisjoint, Zenon
<1> QED
  BY <1>15, Zenon DEF paths, v, w

(* What from_json accepts is coherent. *)
LEMMA AcceptedCoheres ==
  ASSUME NEW d, d.manifest \in EnvironmentManifests, d.slack \in Nat, from_json(d)
  PROVE  Coherent(d.manifest)
<1> DEFINE m == d.manifest
           Canonical(list) ==
             \A i, j \in DOMAIN list : i < j => list[i] # list[j] /\ ~Before(list[j], list[i])
<1>1. m.schema_version = 1 /\ validate(m) /\ validate_identity_fields(m)
  BY DEF from_json, validate
<1>2. m \in EnvironmentManifests
  OBVIOUS
<1>3. /\ m.filesystem.immutable \in Seq(Strings) /\ m.commands.available \in Seq(Strings)
      /\ m.required_wasm_features \in Seq(Strings)
  BY ManifestParts, Zenon
<1>4. /\ StrictlySorted(m.filesystem.immutable) /\ StrictlySorted(m.commands.available)
      /\ StrictlySorted(m.required_wasm_features)
  BY <1>1, Zenon DEF validate_identity_fields, validate_sorted_tokens, validate_sorted_guest_paths
<1>5. m.commands.default \in {m.commands.available[i] : i \in DOMAIN m.commands.available}
  BY <1>1, Zenon DEF validate_identity_fields
<1>6. EncodedLength(m) <= MAX_MANIFEST_BYTES
  BY <1>1 DEF validate_identity_fields
<1> HIDE DEF m
<1>7. Canonical(m.filesystem.immutable) /\ Canonical(m.commands.available)
      /\ Canonical(m.required_wasm_features)
  BY <1>3, <1>4, SortedThroughout
<1>8. \E i \in DOMAIN m.commands.available : m.commands.available[i] = m.commands.default
  BY <1>5
<1>9. from_json([manifest |-> m, slack |-> 0, parses |-> TRUE, unknown_field |-> FALSE])
  <2>1. EncodedLength(m) + 0 <= MAX_MANIFEST_BYTES
    <3>1. EncodedLength(m) + 0 = EncodedLength(m)
      BY <1>2, LengthCounted
    <3> QED BY <1>6, <3>1
  <2> QED BY <1>1, <2>1, Zenon DEF from_json
<1>10. \A i, j \in DOMAIN (m.filesystem.immutable \o m.filesystem.writable) :
         i # j => ~Overlap((m.filesystem.immutable \o m.filesystem.writable)[i],
                           (m.filesystem.immutable \o m.filesystem.writable)[j])
  BY <1>1, <1>2, AcceptedPaths, Zenon
<1>11. Coherent(m)
  BY <1>7, <1>8, <1>9, <1>10, Zenon DEF Coherent
<1> QED
  BY <1>11 DEF m

-----------------------------------------------------------------------------
(* The identity can be read back field by field: a sequence that leads t is  *)
(* extended to another such sequence by at most one string, and by at most   *)
(* one list.                                                                 *)

Leads(a, t) ==
  /\ a \in Seq(Nat) /\ t \in Seq(Nat) /\ Len(a) <= Len(t)
  /\ \A i \in 1 .. Len(a) : a[i] = t[i]

LEMMA Joint ==
  ASSUME NEW a \in Seq(Nat), NEW b \in Seq(Nat)
  PROVE  /\ Len(a) \in Nat /\ Len(b) \in Nat
         /\ a \o b \in Seq(Nat) /\ Len(a \o b) = Len(a) + Len(b)
         /\ \A i \in 1 .. Len(a) : (a \o b)[i] = a[i]
         /\ \A i \in 1 .. Len(b) : (a \o b)[Len(a) + i] = b[i]
  OBVIOUS

LEMMA Associates ==
  ASSUME NEW a \in Seq(Nat), NEW b \in Seq(Nat), NEW c \in Seq(Nat)
  PROVE  a \o (b \o c) = (a \o b) \o c
<1> DEFINE d == a \o b
           e == b \o c
           l == a \o e
           r == d \o c
<1>1. /\ d \in Seq(Nat) /\ Len(d) = Len(a) + Len(b)
      /\ Len(a) \in Nat /\ Len(b) \in Nat
      /\ \A i \in 1 .. Len(a) : d[i] = a[i]
      /\ \A i \in 1 .. Len(b) : d[Len(a) + i] = b[i]
  BY Joint
<1>2. /\ e \in Seq(Nat) /\ Len(e) = Len(b) + Len(c) /\ Len(c) \in Nat
      /\ \A i \in 1 .. Len(b) : e[i] = b[i]
      /\ \A i \in 1 .. Len(c) : e[Len(b) + i] = c[i]
  BY Joint
<1> HIDE DEF d, e
<1>3. /\ l \in Seq(Nat) /\ Len(l) = Len(a) + Len(e)
      /\ \A i \in 1 .. Len(a) : l[i] = a[i]
      /\ \A i \in 1 .. Len(e) : l[Len(a) + i] = e[i]
  <2>1. e \in Seq(Nat)
    BY <1>2
  <2> QED BY <2>1
<1>4. /\ r \in Seq(Nat) /\ Len(r) = Len(d) + Len(c)
      /\ \A i \in 1 .. Len(d) : r[i] = d[i]
      /\ \A i \in 1 .. Len(c) : r[Len(d) + i] = c[i]
  <2>1. d \in Seq(Nat)
    BY <1>1
  <2> QED BY <2>1
<1> HIDE DEF l, r
<1>5. Len(l) = Len(r) /\ Len(l) = Len(a) + Len(b) + Len(c)
  BY <1>1, <1>2, <1>3, <1>4
<1>6. ASSUME NEW i \in 1 .. Len(l) PROVE l[i] = r[i]
  <2>0. /\ i \in Nat /\ i >= 1 /\ i <= Len(a) + Len(b) + Len(c)
        /\ Len(a) \in Nat /\ Len(b) \in Nat /\ Len(c) \in Nat
        /\ Len(d) = Len(a) + Len(b) /\ Len(e) = Len(b) + Len(c)
    BY <1>1, <1>2, <1>5
  <2>1. CASE i <= Len(a)
    <3>1. i \in 1 .. Len(a) /\ i \in 1 .. Len(d)
      BY <1>1, <2>1
    <3> QED BY <1>1, <1>3, <1>4, <3>1
  <2>2. CASE i > Len(a) /\ i <= Len(d)
    <3> DEFINE k == i - Len(a)
    <3>1. /\ k \in 1 .. Len(b) /\ k \in 1 .. Len(e) /\ i = Len(a) + k
          /\ i \in 1 .. Len(d)
      BY <2>0, <2>2
    <3> HIDE DEF k
    <3> QED BY <1>1, <1>2, <1>3, <1>4, <3>1
  <2>3. CASE i > Len(d)
    <3> DEFINE k == i - Len(d)
    <3>1. /\ k \in 1 .. Len(c) /\ Len(b) + k \in 1 .. Len(e)
          /\ i = Len(a) + (Len(b) + k) /\ i = Len(d) + k
      BY <2>0, <2>3
    <3> HIDE DEF k
    <3>2. l[i] = e[Len(b) + k]
      BY <1>3, <3>1
    <3>3. e[Len(b) + k] = c[k]
      BY <1>2, <3>1
    <3>4. r[i] = c[k]
      BY <1>4, <3>1, Zenon
    <3> QED BY <3>2, <3>3, <3>4
  <2>4. i <= Len(a) \/ (i > Len(a) /\ i <= Len(d)) \/ i > Len(d)
    BY <2>0
  <2> QED BY <2>1, <2>2, <2>3, <2>4
<1>7. l = r
  <2>1. l \in Seq(Nat) /\ r \in Seq(Nat)
    BY <1>3, <1>4
  <2> QED BY <1>5, <1>6, <2>1, SameSequence, Zenon
<1> QED
  BY <1>7 DEF l, r, d, e

LEMMA FrontLeads ==
  ASSUME NEW a \in Seq(Nat), NEW b \in Seq(Nat), NEW t, Leads(a \o b, t)
  PROVE  Leads(a, t)
<1> DEFINE c == a \o b
<1>1. /\ Len(a) \in Nat /\ Len(b) \in Nat /\ Len(c) = Len(a) + Len(b)
      /\ \A i \in 1 .. Len(a) : c[i] = a[i]
  BY Joint
<1>2. t \in Seq(Nat) /\ Len(t) \in Nat /\ Len(c) <= Len(t) /\ \A i \in 1 .. Len(c) : c[i] = t[i]
  BY DEF Leads
<1> HIDE DEF c
<1>3. \A i \in 1 .. Len(a) : i \in 1 .. Len(c)
  BY <1>1
<1>4. \A i \in 1 .. Len(a) : a[i] = t[i]
  BY <1>1, <1>2, <1>3, Zenon
<1>5. Len(a) <= Len(t)
  BY <1>1, <1>2
<1> QED
  BY <1>2, <1>4, <1>5 DEF Leads

(* One string at most continues a sequence that leads t. *)
LEMMA StringRead ==
  ASSUME NEW a \in Seq(Nat), NEW x \in Seq(Nat), NEW y \in Seq(Nat), NEW t,
         Leads(a \o hash_string(x), t), Leads(a \o hash_string(y), t)
  PROVE  x = y
<1> DEFINE n == Len(a)
<1>1. ASSUME NEW z \in Seq(Nat), Leads(a \o hash_string(z), t)
      PROVE  /\ t[n + 1] = Len(z)
             /\ \A i \in 1 .. Len(z) : t[n + 1 + i] = z[i]
  <2> DEFINE h == hash_string(z)
             c == a \o h
  <2>1. /\ h \in Seq(Nat) /\ Len(h) = Len(z) + 1 /\ h[1] = Len(z)
        /\ Len(z) \in Nat /\ \A i \in 1 .. Len(z) : h[1 + i] = z[i]
    BY DEF hash_string
  <2> HIDE DEF h
  <2>2. /\ n \in Nat /\ Len(c) = n + Len(h)
        /\ \A i \in 1 .. Len(h) : c[n + i] = h[i]
    BY <2>1, Joint, Zenon
  <2>3. \A i \in 1 .. Len(c) : c[i] = t[i]
    BY <1>1, Zenon DEF Leads, h
  <2> HIDE DEF c, n
  <2>4. ASSUME NEW i \in 1 .. Len(h) PROVE t[n + i] = h[i]
    <3>1. n + i \in 1 .. Len(c)
      BY <2>1, <2>2
    <3> QED BY <2>2, <2>3, <3>1
  <2>5. 1 \in 1 .. Len(h) /\ \A i \in 1 .. Len(z) : 1 + i \in 1 .. Len(h) /\ n + (1 + i) = n + 1 + i
    BY <2>1, <2>2
  <2>6. t[n + 1] = Len(z)
    BY <2>1, <2>4, <2>5
  <2>7. ASSUME NEW i \in 1 .. Len(z) PROVE t[n + 1 + i] = z[i]
    <3>1. t[n + (1 + i)] = h[1 + i]
      BY <2>4, <2>5, Zenon
    <3> QED BY <2>1, <2>5, <3>1, Zenon
  <2> QED BY <2>6, <2>7
<1> HIDE DEF n
<1>2. Len(x) = Len(y)
  BY <1>1, Zenon
<1>3. \A i \in 1 .. Len(x) : x[i] = y[i]
  BY <1>1, <1>2
<1> QED
  BY <1>2, <1>3, SameSequence

HashRuns(v, g, n) ==
  /\ g \in [0 .. n -> Seq(Nat)] /\ g[0] = <<Len(v)>>
  /\ \A i \in 1 .. n : g[i] = g[i - 1] \o hash_string(v[i])

LEMMA Bytes ==
  ASSUME NEW s \in Strings
  PROVE  s \in Seq(Nat) /\ hash_string(s) \in Seq(Nat)
<1>1. s \in Seq(Nat)
  <2>1. s \in Seq(0 .. 255)
    BY StringFacts
  <2>2. Len(s) \in Nat /\ s = [i \in 1 .. Len(s) |-> s[i]] /\ \A i \in 1 .. Len(s) : s[i] \in Nat
    BY <2>1, StringFacts
  <2> QED BY <2>2
<1>2. Len(s) \in Nat
  BY StringFacts
<1> QED
  BY <1>1, <1>2 DEF hash_string

(* hash_strings goes through the list one string at a time. *)
LEMMA HashUnfolds ==
  ASSUME NEW v \in Seq(Strings)
  PROVE  \E g : HashRuns(v, g, Len(v)) /\ hash_strings(v) = g[Len(v)]
<1> DEFINE n == Len(v)
           S == {k \in Nat : \E g : HashRuns(v, g, k)}
           P(f) == f = [i \in 0 .. n |->
                          IF i = 0 THEN <<Len(v)>> ELSE f[i - 1] \o hash_string(v[i])]
<1>1. n \in Nat /\ \A i \in 1 .. n : hash_string(v[i]) \in Seq(Nat)
  <2>1. n \in Nat /\ \A i \in 1 .. n : v[i] \in Strings
    BY ElementsIn
  <2> QED BY <2>1, Bytes
<1>2. 0 \in S
  <2>1. HashRuns(v, [i \in 0 .. 0 |-> <<Len(v)>>], 0)
    <3>1. <<Len(v)>> \in Seq(Nat)
      BY <1>1
    <3> QED BY <3>1 DEF HashRuns
  <2> QED BY <2>1
<1>3. ASSUME NEW k \in 1 .. n, k - 1 \in S PROVE k \in S
  <2>1. PICK g : HashRuns(v, g, k - 1)
    BY <1>3
  <2> DEFINE h == [i \in 0 .. k |-> IF i = k THEN g[k - 1] \o hash_string(v[k]) ELSE g[i]]
  <2>2. k \in Nat /\ k >= 1 /\ k - 1 \in 0 .. (k - 1) /\ 0 \in 0 .. (k - 1)
    BY <1>1
  <2>3. /\ \A i \in 0 .. (k - 1) : g[i] \in Seq(Nat)
        /\ g[k - 1] \o hash_string(v[k]) \in Seq(Nat)
    <3>1. g \in [0 .. (k - 1) -> Seq(Nat)]
      BY <2>1 DEF HashRuns
    <3>2. g[k - 1] \in Seq(Nat) /\ hash_string(v[k]) \in Seq(Nat)
      BY <1>1, <2>2, <3>1
    <3> QED BY <3>1, <3>2
  <2>4. h \in [0 .. k -> Seq(Nat)]
    <3>1. ASSUME NEW i \in 0 .. k PROVE h[i] \in Seq(Nat)
      <4>1. CASE i = k
        <5>1. h[i] = g[k - 1] \o hash_string(v[k])
          BY <4>1, Zenon
        <5> QED BY <2>3, <5>1
      <4>2. CASE i # k
        <5>1. i \in 0 .. (k - 1) /\ h[i] = g[i]
          BY <2>2, <4>2
        <5> QED BY <2>3, <5>1
      <4> QED BY <4>1, <4>2
    <3>2. h = [i \in 0 .. k |-> h[i]]
      OBVIOUS
    <3> HIDE DEF h
    <3> QED BY <3>1, <3>2
  <2>5. ASSUME NEW i \in 1 .. k PROVE h[i] = h[i - 1] \o hash_string(v[i])
    <3>1. h[i - 1] = g[i - 1]
      <4>1. i - 1 \in 0 .. k /\ i - 1 # k
        BY <2>2
      <4> QED BY <4>1, Zenon
    <3>2. CASE i = k
      <4>1. k \in 0 .. k
        BY <2>2
      <4>2. h[k] = g[k - 1] \o hash_string(v[k])
        BY <4>1, Zenon
      <4> HIDE DEF h
      <4> QED BY <3>1, <3>2, <4>2
    <3>3. CASE i # k
      <4>1. i \in 1 .. (k - 1) /\ i \in 0 .. k
        BY <2>2, <3>3
      <4>2. h[i] = g[i]
        BY <3>3, <4>1, Zenon
      <4>3. g[i] = g[i - 1] \o hash_string(v[i])
        BY <2>1, <4>1, Zenon DEF HashRuns
      <4> HIDE DEF h
      <4> QED BY <3>1, <4>2, <4>3
    <3> QED BY <3>2, <3>3, Zenon
  <2>6. h[0] = <<Len(v)>>
    <3>1. 0 \in 0 .. k /\ 0 # k
      BY <2>2
    <3>2. h[0] = g[0]
      BY <3>1, Zenon
    <3> HIDE DEF h
    <3> QED BY <2>1, <3>2 DEF HashRuns
  <2> HIDE DEF h
  <2>7. HashRuns(v, h, k)
    BY <2>4, <2>5, <2>6, Zenon DEF HashRuns
  <2> QED BY <2>2, <2>7
<1>4. n \in S
  <2> HIDE DEF S, n
  <2>1. \A k \in 1 .. n : k - 1 \in S => k \in S
    BY <1>3
  <2>2. 0 .. n \subseteq S
    BY <1>1, <1>2, <2>1, Climb, Zenon
  <2> QED BY <1>1, <2>2
<1>5. PICK g : HashRuns(v, g, n)
  BY <1>4
<1>6. P(g)
  <2>1. g = [i \in 0 .. n |-> g[i]] /\ g[0] = <<Len(v)>>
    BY <1>5 DEF HashRuns
  <2>2. ASSUME NEW i \in 0 .. n
        PROVE  g[i] = IF i = 0 THEN <<Len(v)>> ELSE g[i - 1] \o hash_string(v[i])
    <3>1. CASE i = 0
      BY <2>1, <3>1, Zenon
    <3>2. CASE i # 0
      <4>1. i \in 1 .. n
        BY <1>1, <3>2
      <4>2. g[i] = g[i - 1] \o hash_string(v[i])
        BY <1>5, <4>1, Zenon DEF HashRuns
      <4> QED BY <3>2, <4>2, Zenon
    <3> QED BY <3>1, <3>2
  <2> QED BY <2>1, <2>2, Zenon
<1>7. hash_strings(v) = (CHOOSE f : P(f))[n]
  BY DEF hash_strings
<1> DEFINE f == CHOOSE h : P(h)
<1>8. P(f)
  <2> HIDE DEF P
  <2> QED BY <1>6
<1> HIDE DEF f
<1>9. f[0] = <<Len(v)>> /\ f = [i \in 0 .. n |-> f[i]]
  <2>1. 0 \in 0 .. n
    BY <1>1
  <2>2. f[0] = <<Len(v)>>
    BY <1>8, <2>1, Zenon
  <2>3. DOMAIN f = 0 .. n
    BY <1>8, Zenon
  <2> QED BY <1>8, <2>2, <2>3, Zenon
<1>10. ASSUME NEW i \in 1 .. n PROVE f[i] = f[i - 1] \o hash_string(v[i])
  <2>1. i \in 0 .. n /\ i # 0
    BY <1>1
  <2> QED BY <1>8, <2>1, Zenon
<1> DEFINE T == {i \in Nat : f[i] \in Seq(Nat)}
<1>11. 0 \in T
  <2>1. <<Len(v)>> \in Seq(Nat)
    BY <1>1
  <2> QED BY <1>9, <2>1, Zenon
<1>12. \A i \in 1 .. n : i - 1 \in T => i \in T
  <2> SUFFICES ASSUME NEW i \in 1 .. n, f[i - 1] \in Seq(Nat) PROVE f[i] \in Seq(Nat)
    BY <1>1
  <2>1. hash_string(v[i]) \in Seq(Nat)
    BY <1>1
  <2> QED BY <1>10, <2>1, Joint, Zenon
<1>13. 0 .. n \subseteq T
  <2> HIDE DEF T, P
  <2> QED BY <1>1, <1>11, <1>12, Climb, Zenon
<1>14. HashRuns(v, f, n)
  <2>1. \A i \in 0 .. n : f[i] \in Seq(Nat)
    BY <1>13
  <2>2. f \in [0 .. n -> Seq(Nat)]
    BY <1>9, <2>1, Zenon
  <2> QED BY <1>9, <1>10, <2>2, Zenon DEF HashRuns
<1> QED
  BY <1>7, <1>14, Zenon DEF f

LEMMA PartsLead ==
  ASSUME NEW a \in Seq(Nat), NEW v \in Seq(Strings), NEW g, HashRuns(v, g, Len(v)), NEW t,
         Leads(a \o g[Len(v)], t)
  PROVE  /\ \A i \in 0 .. Len(v) : Leads(a \o g[i], t)
         /\ \A i \in 1 .. Len(v) : Leads((a \o g[i - 1]) \o hash_string(v[i]), t)
<1> DEFINE n == Len(v)
           S == {k \in Nat : k <= n => Leads(a \o g[n - k], t)}
<1>1. n \in Nat /\ \A i \in 1 .. n : hash_string(v[i]) \in Seq(Nat)
  <2>1. n \in Nat /\ \A i \in 1 .. n : v[i] \in Strings
    BY ElementsIn
  <2> QED BY <2>1, Bytes
<1>2. /\ \A i \in 0 .. n : g[i] \in Seq(Nat)
      /\ \A i \in 1 .. n : g[i] = g[i - 1] \o hash_string(v[i])
  BY Zenon DEF HashRuns
<1> HIDE DEF n
<1>3. ASSUME NEW i \in 1 .. n
      PROVE  /\ a \o g[i] = (a \o g[i - 1]) \o hash_string(v[i])
             /\ a \o g[i - 1] \in Seq(Nat) /\ hash_string(v[i]) \in Seq(Nat)
  <2>1. i - 1 \in 0 .. n
    BY <1>1
  <2>2. g[i - 1] \in Seq(Nat) /\ hash_string(v[i]) \in Seq(Nat)
    BY <1>1, <1>2, <2>1
  <2>3. a \o g[i - 1] \in Seq(Nat)
    BY <2>2, Joint
  <2>4. g[i] = g[i - 1] \o hash_string(v[i])
    BY <1>2, Zenon
  <2>5. a \o (g[i - 1] \o hash_string(v[i])) = (a \o g[i - 1]) \o hash_string(v[i])
    BY <2>2, Associates, Zenon
  <2> QED BY <2>2, <2>3, <2>4, <2>5, Zenon
<1>4. 0 \in S
  <2>1. n - 0 = n
    BY <1>1
  <2>2. Leads(a \o g[n - 0], t)
    BY <2>1 DEF n
  <2> QED BY <2>2
<1>5. ASSUME NEW k \in 1 .. n, k - 1 \in S PROVE k \in S
  <2> DEFINE i == n - (k - 1)
  <2>1. i \in 1 .. n /\ i - 1 = n - k /\ k - 1 <= n /\ k \in Nat
    BY <1>1
  <2>2. Leads(a \o g[i], t)
    BY <1>5, <2>1
  <2> HIDE DEF i
  <2>3. Leads(a \o g[i - 1], t)
    <3>1. Leads((a \o g[i - 1]) \o hash_string(v[i]), t)
      BY <1>3, <2>1, <2>2, Zenon
    <3> QED BY <1>3, <2>1, <3>1, FrontLeads, Zenon
  <2> QED BY <2>1, <2>3
<1>6. 0 .. n \subseteq S
  <2> HIDE DEF S
  <2> QED BY <1>1, <1>4, <1>5, Climb, Zenon
<1>7. ASSUME NEW i \in 0 .. n PROVE Leads(a \o g[i], t)
  <2>1. n - i \in 0 .. n /\ n - i <= n /\ n - (n - i) = i
    BY <1>1
  <2>2. n - i \in S
    BY <1>6, <2>1
  <2>3. Leads(a \o g[n - (n - i)], t)
    BY <2>1, <2>2
  <2> QED BY <2>1, <2>3
<1>8. ASSUME NEW i \in 1 .. n PROVE Leads((a \o g[i - 1]) \o hash_string(v[i]), t)
  <2>1. i \in 0 .. n
    BY <1>1
  <2> QED BY <1>3, <1>7, <2>1, Zenon
<1> QED
  BY <1>7, <1>8 DEF n

LEMMA CountRead ==
  ASSUME NEW a \in Seq(Nat), NEW n \in Nat, NEW t, Leads(a \o <<n>>, t)
  PROVE  t[Len(a) + 1] = n
<1> DEFINE c == a \o <<n>>
<1>1. Len(a) \in Nat /\ Len(c) = Len(a) + 1 /\ c[Len(a) + 1] = n
  OBVIOUS
<1>2. \A i \in 1 .. Len(c) : c[i] = t[i]
  BY DEF Leads
<1> HIDE DEF c
<1>3. Len(a) + 1 \in 1 .. Len(c)
  BY <1>1
<1> QED
  BY <1>1, <1>2, <1>3

(* One list at most continues a sequence that leads t: its length comes first. *)
LEMMA StringsRead ==
  ASSUME NEW a \in Seq(Nat), NEW v \in Seq(Strings), NEW w \in Seq(Strings), NEW t,
         Leads(a \o hash_strings(v), t), Leads(a \o hash_strings(w), t)
  PROVE  v = w
<1>1. PICK g : HashRuns(v, g, Len(v)) /\ hash_strings(v) = g[Len(v)]
  BY HashUnfolds
<1>2. PICK h : HashRuns(w, h, Len(w)) /\ hash_strings(w) = h[Len(w)]
  BY HashUnfolds
<1>3. /\ Leads(a \o g[0], t)
      /\ \A i \in 1 .. Len(v) : Leads((a \o g[i - 1]) \o hash_string(v[i]), t)
  <2>1. Leads(a \o g[Len(v)], t)
    BY <1>1
  <2>2. /\ \A i \in 0 .. Len(v) : Leads(a \o g[i], t)
        /\ \A i \in 1 .. Len(v) : Leads((a \o g[i - 1]) \o hash_string(v[i]), t)
    BY <1>1, <2>1, PartsLead, Zenon
  <2>3. 0 \in 0 .. Len(v)
    BY ElementsIn
  <2> QED BY <2>2, <2>3, Zenon
<1>4. /\ Leads(a \o h[0], t)
      /\ \A i \in 1 .. Len(w) : Leads((a \o h[i - 1]) \o hash_string(w[i]), t)
  <2>1. Leads(a \o h[Len(w)], t)
    BY <1>2
  <2>2. /\ \A i \in 0 .. Len(w) : Leads(a \o h[i], t)
        /\ \A i \in 1 .. Len(w) : Leads((a \o h[i - 1]) \o hash_string(w[i]), t)
    BY <1>2, <2>1, PartsLead, Zenon
  <2>3. 0 \in 0 .. Len(w)
    BY ElementsIn
  <2> QED BY <2>2, <2>3, Zenon
<1>5. g[0] = <<Len(v)>> /\ h[0] = <<Len(w)>>
  BY <1>1, <1>2 DEF HashRuns
<1>6. Len(v) = Len(w) /\ Len(v) \in Nat
  <2>1. Len(v) \in Nat /\ Len(w) \in Nat
    BY ElementsIn
  <2>2. t[Len(a) + 1] = Len(v) /\ t[Len(a) + 1] = Len(w)
    BY <1>3, <1>4, <1>5, <2>1, CountRead, Zenon
  <2> QED BY <2>1, <2>2
<1> DEFINE n == Len(v)
           T == {k \in Nat : g[k] = h[k]}
<1>7. \A i \in 1 .. n : v[i] \in Strings /\ w[i] \in Strings
  BY <1>6, ElementsIn
<1>8. ASSUME NEW i \in 1 .. n, g[i - 1] = h[i - 1] PROVE v[i] = w[i]
  <2>1. v[i] \in Seq(Nat) /\ w[i] \in Seq(Nat)
    BY <1>7, Bytes
  <2>2. a \o g[i - 1] \in Seq(Nat)
    <3>1. i - 1 \in 0 .. Len(v)
      BY <1>6
    <3>2. g[i - 1] \in Seq(Nat)
      BY <1>1, <3>1, Zenon DEF HashRuns
    <3> QED BY <3>2, Joint
  <2>3. /\ Leads((a \o g[i - 1]) \o hash_string(v[i]), t)
        /\ Leads((a \o g[i - 1]) \o hash_string(w[i]), t)
    BY <1>3, <1>4, <1>6, <1>8, Zenon
  <2> QED BY <2>1, <2>2, <2>3, StringRead, Zenon
<1>9. 0 \in T
  BY <1>5, <1>6
<1>10. ASSUME NEW i \in 1 .. n, i - 1 \in T PROVE i \in T
  <2>1. g[i - 1] = h[i - 1] /\ i \in Nat
    BY <1>6, <1>10
  <2>2. v[i] = w[i]
    BY <1>8, <2>1
  <2>3. g[i] = g[i - 1] \o hash_string(v[i]) /\ h[i] = h[i - 1] \o hash_string(w[i])
    BY <1>1, <1>2, <1>6, Zenon DEF HashRuns
  <2>4. g[i] = h[i]
    BY <2>1, <2>2, <2>3, Zenon
  <2> QED BY <2>1, <2>4
<1>11. 0 .. n \subseteq T
  <2> HIDE DEF T
  <2>1. n \in Nat
    BY <1>6
  <2> HIDE DEF n
  <2> QED BY <1>9, <1>10, <2>1, Climb, Zenon
<1>12. ASSUME NEW i \in 1 .. n PROVE v[i] = w[i]
  <2>1. i - 1 \in 0 .. n
    BY <1>6
  <2>2. g[i - 1] = h[i - 1]
    BY <1>11, <2>1, Zenon
  <2> QED BY <1>8, <2>2
<1> QED
  BY <1>6, <1>12, SameSequence

LEMMA HashType ==
  /\ \A x \in Seq(Nat) : hash_string(x) \in Seq(Nat)
  /\ \A v \in Seq(Strings) : hash_strings(v) \in Seq(Nat)
<1>1. ASSUME NEW x \in Seq(Nat) PROVE hash_string(x) \in Seq(Nat)
  BY DEF hash_string
<1>2. ASSUME NEW v \in Seq(Strings) PROVE hash_strings(v) \in Seq(Nat)
  <2>1. PICK g : HashRuns(v, g, Len(v)) /\ hash_strings(v) = g[Len(v)]
    BY HashUnfolds
  <2>2. Len(v) \in 0 .. Len(v)
    BY ElementsIn
  <2> QED BY <2>1, <2>2 DEF HashRuns
<1> QED
  BY <1>1, <1>2

LEMMA HashedTexts ==
  ASSUME NEW e \in EnvironmentManifests
  PROVE  /\ e.language.name \in Seq(Nat) /\ e.language.version \in Seq(Nat)
         /\ e.language.implementation \in Seq(Nat) /\ e.artifact.sha256.of \in Seq(Nat)
         /\ e.commands.default \in Seq(Nat) /\ e.build.toolchain_id \in Seq(Nat)
         /\ e.build.source_digest.of \in Seq(Nat) /\ e.build.lock_digest.of \in Seq(Nat)
<1>1. \A d \in Digests : d.of \in Seq(Nat)
  BY DEF Digests
<1>2. /\ e.artifact.sha256 \in Digests /\ e.build.source_digest \in Digests
      /\ e.build.lock_digest \in Digests
  BY ManifestParts
<1>3. /\ e.language.name \in Strings /\ e.language.version \in Strings
      /\ e.language.implementation \in Strings /\ e.commands.default \in Strings
      /\ e.build.toolchain_id \in Strings
  BY ManifestParts
<1> QED
  BY <1>1, <1>2, <1>3, Bytes, Zenon

(* The hashed fields and the sequences up to each of them. *)
B0(e) == <<e.schema_version>>
F1(e) == hash_string(e.language.name)
F2(e) == hash_string(e.language.version)
F3(e) == hash_string(e.language.implementation)
F4(e) == hash_string(e.artifact.sha256.of)
F5(e) == hash_strings(e.required_wasm_features)
F6(e) == hash_string(e.commands.default)
F7(e) == hash_strings(e.commands.available)
F8(e) == hash_strings(e.filesystem.immutable)
F9(e) == hash_strings(e.filesystem.writable)
F10(e) == hash_string(e.build.toolchain_id)
F11(e) == hash_string(e.build.source_digest.of)
F12(e) == hash_string(e.build.lock_digest.of)
B1(e) == B0(e) \o F1(e)
B2(e) == B1(e) \o F2(e)
B3(e) == B2(e) \o F3(e)
B4(e) == B3(e) \o F4(e)
B5(e) == B4(e) \o F5(e)
B6(e) == B5(e) \o F6(e)
B7(e) == B6(e) \o F7(e)
B8(e) == B7(e) \o F8(e)
B9(e) == B8(e) \o F9(e)
B10(e) == B9(e) \o F10(e)
B11(e) == B10(e) \o F11(e)
B12(e) == B11(e) \o F12(e)

(* Two manifests with the same hashed bytes agree in every hashed field. *)
LEMMA SameHashSameFields ==
  ASSUME NEW m \in EnvironmentManifests, NEW o \in EnvironmentManifests,
         m.schema_version = o.schema_version,
         calculate_environment_id(m).of = calculate_environment_id(o).of
  PROVE  /\ m.language.name = o.language.name
         /\ m.language.version = o.language.version
         /\ m.language.implementation = o.language.implementation
         /\ m.artifact.sha256.of = o.artifact.sha256.of
         /\ m.required_wasm_features = o.required_wasm_features
         /\ m.commands.default = o.commands.default
         /\ m.commands.available = o.commands.available
         /\ m.filesystem.immutable = o.filesystem.immutable
         /\ m.filesystem.writable = o.filesystem.writable
         /\ m.build.toolchain_id = o.build.toolchain_id
         /\ m.build.source_digest.of = o.build.source_digest.of
         /\ m.build.lock_digest.of = o.build.lock_digest.of
<1> DEFINE t == B12(m)
<1>1. ASSUME NEW e \in EnvironmentManifests
      PROVE  B0(e) \in Seq(Nat) /\ F1(e) \in Seq(Nat) /\ F2(e) \in Seq(Nat) /\ F3(e) \in Seq(Nat) /\ F4(e) \in Seq(Nat)
             /\ F5(e) \in Seq(Nat) /\ F6(e) \in Seq(Nat) /\ F7(e) \in Seq(Nat) /\ F8(e) \in Seq(Nat)
             /\ F9(e) \in Seq(Nat) /\ F10(e) \in Seq(Nat) /\ F11(e) \in Seq(Nat) /\ F12(e) \in Seq(Nat)
  <2>1. e.schema_version \in Nat
    BY DEF EnvironmentManifests
  <2>2. B0(e) \in Seq(Nat)
    BY <2>1 DEF B0
  <2>3. /\ e.required_wasm_features \in Seq(Strings) /\ e.commands.available \in Seq(Strings)
        /\ e.filesystem.immutable \in Seq(Strings) /\ e.filesystem.writable \in Seq(Strings)
    BY ManifestParts
  <2> QED BY <2>2, <2>3, HashedTexts, HashType, Zenon
         DEF F1, F2, F3, F4, F5, F6, F7, F8, F9, F10, F11, F12
<1>2. ASSUME NEW e PROVE calculate_environment_id(e).of = B12(e)
  BY Zenon
  DEF calculate_environment_id, B0, B1, B2, B3, B4, B5, B6, B7, B8, B9, B10, B11, B12,
      F1, F2, F3, F4, F5, F6, F7, F8, F9, F10, F11, F12
<1>3. B0(m) = B0(o)
  BY DEF B0
<1>4. B12(m) = t /\ B12(o) = t
  BY <1>2, Zenon
<1> HIDE DEF t
<1>5. ASSUME NEW e \in EnvironmentManifests
      PROVE  /\ B1(e) \in Seq(Nat) /\ B2(e) \in Seq(Nat) /\ B3(e) \in Seq(Nat) /\ B4(e) \in Seq(Nat)
             /\ B5(e) \in Seq(Nat) /\ B6(e) \in Seq(Nat) /\ B7(e) \in Seq(Nat) /\ B8(e) \in Seq(Nat)
             /\ B9(e) \in Seq(Nat) /\ B10(e) \in Seq(Nat) /\ B11(e) \in Seq(Nat) /\ B12(e) \in Seq(Nat)
  <2>0. B0(e) \in Seq(Nat) /\ F1(e) \in Seq(Nat) /\ F2(e) \in Seq(Nat) /\ F3(e) \in Seq(Nat) /\ F4(e) \in Seq(Nat)
             /\ F5(e) \in Seq(Nat) /\ F6(e) \in Seq(Nat) /\ F7(e) \in Seq(Nat) /\ F8(e) \in Seq(Nat)
             /\ F9(e) \in Seq(Nat) /\ F10(e) \in Seq(Nat) /\ F11(e) \in Seq(Nat) /\ F12(e) \in Seq(Nat)
    BY <1>1
  <2>1. B1(e) \in Seq(Nat)
    BY <2>0, Joint, Zenon DEF B1
  <2>2. B2(e) \in Seq(Nat)
    BY <2>0, <2>1, Joint, Zenon DEF B2
  <2>3. B3(e) \in Seq(Nat)
    BY <2>0, <2>2, Joint, Zenon DEF B3
  <2>4. B4(e) \in Seq(Nat)
    BY <2>0, <2>3, Joint, Zenon DEF B4
  <2>5. B5(e) \in Seq(Nat)
    BY <2>0, <2>4, Joint, Zenon DEF B5
  <2>6. B6(e) \in Seq(Nat)
    BY <2>0, <2>5, Joint, Zenon DEF B6
  <2>7. B7(e) \in Seq(Nat)
    BY <2>0, <2>6, Joint, Zenon DEF B7
  <2>8. B8(e) \in Seq(Nat)
    BY <2>0, <2>7, Joint, Zenon DEF B8
  <2>9. B9(e) \in Seq(Nat)
    BY <2>0, <2>8, Joint, Zenon DEF B9
  <2>10. B10(e) \in Seq(Nat)
    BY <2>0, <2>9, Joint, Zenon DEF B10
  <2>11. B11(e) \in Seq(Nat)
    BY <2>0, <2>10, Joint, Zenon DEF B11
  <2>12. B12(e) \in Seq(Nat)
    BY <2>0, <2>11, Joint, Zenon DEF B12
  <2> QED BY <2>1, <2>2, <2>3, <2>4, <2>5, <2>6, <2>7, <2>8, <2>9, <2>10, <2>11, <2>12, Zenon
<1>6. ASSUME NEW e \in EnvironmentManifests, B12(e) = t
      PROVE  /\ Leads(B1(e), t) /\ Leads(B2(e), t) /\ Leads(B3(e), t) /\ Leads(B4(e), t)
             /\ Leads(B5(e), t) /\ Leads(B6(e), t) /\ Leads(B7(e), t) /\ Leads(B8(e), t)
             /\ Leads(B9(e), t) /\ Leads(B10(e), t) /\ Leads(B11(e), t) /\ Leads(B12(e), t)
  <2>0. /\ F1(e) \in Seq(Nat) /\ F2(e) \in Seq(Nat) /\ F3(e) \in Seq(Nat) /\ F4(e) \in Seq(Nat)
             /\ F5(e) \in Seq(Nat) /\ F6(e) \in Seq(Nat) /\ F7(e) \in Seq(Nat) /\ F8(e) \in Seq(Nat)
             /\ F9(e) \in Seq(Nat) /\ F10(e) \in Seq(Nat) /\ F11(e) \in Seq(Nat) /\ F12(e) \in Seq(Nat)
         /\ B1(e) \in Seq(Nat) /\ B2(e) \in Seq(Nat) /\ B3(e) \in Seq(Nat) /\ B4(e) \in Seq(Nat)
             /\ B5(e) \in Seq(Nat) /\ B6(e) \in Seq(Nat) /\ B7(e) \in Seq(Nat) /\ B8(e) \in Seq(Nat)
             /\ B9(e) \in Seq(Nat) /\ B10(e) \in Seq(Nat) /\ B11(e) \in Seq(Nat) /\ B12(e) \in Seq(Nat)
    BY <1>1, <1>5, Zenon
  <2>12. Leads(B12(e), t)
    BY <1>6, <2>0 DEF Leads
  <2>11. Leads(B11(e), t)
    BY <2>0, <2>12, FrontLeads, Zenon DEF B12
  <2>10. Leads(B10(e), t)
    BY <2>0, <2>11, FrontLeads, Zenon DEF B11
  <2>9. Leads(B9(e), t)
    BY <2>0, <2>10, FrontLeads, Zenon DEF B10
  <2>8. Leads(B8(e), t)
    BY <2>0, <2>9, FrontLeads, Zenon DEF B9
  <2>7. Leads(B7(e), t)
    BY <2>0, <2>8, FrontLeads, Zenon DEF B8
  <2>6. Leads(B6(e), t)
    BY <2>0, <2>7, FrontLeads, Zenon DEF B7
  <2>5. Leads(B5(e), t)
    BY <2>0, <2>6, FrontLeads, Zenon DEF B6
  <2>4. Leads(B4(e), t)
    BY <2>0, <2>5, FrontLeads, Zenon DEF B5
  <2>3. Leads(B3(e), t)
    BY <2>0, <2>4, FrontLeads, Zenon DEF B4
  <2>2. Leads(B2(e), t)
    BY <2>0, <2>3, FrontLeads, Zenon DEF B3
  <2>1. Leads(B1(e), t)
    BY <2>0, <2>2, FrontLeads, Zenon DEF B2
  <2> QED BY <2>1, <2>2, <2>3, <2>4, <2>5, <2>6, <2>7, <2>8, <2>9, <2>10, <2>11, <2>12, Zenon
<1>7. /\ Leads(B1(m), t) /\ Leads(B2(m), t) /\ Leads(B3(m), t) /\ Leads(B4(m), t)
      /\ Leads(B5(m), t) /\ Leads(B6(m), t) /\ Leads(B7(m), t) /\ Leads(B8(m), t)
      /\ Leads(B9(m), t) /\ Leads(B10(m), t) /\ Leads(B11(m), t) /\ Leads(B12(m), t)
      /\ Leads(B1(o), t) /\ Leads(B2(o), t) /\ Leads(B3(o), t) /\ Leads(B4(o), t)
      /\ Leads(B5(o), t) /\ Leads(B6(o), t) /\ Leads(B7(o), t) /\ Leads(B8(o), t)
      /\ Leads(B9(o), t) /\ Leads(B10(o), t) /\ Leads(B11(o), t) /\ Leads(B12(o), t)
  BY <1>4, <1>6, Zenon
<1>8. B0(m) \in Seq(Nat) /\ B1(m) \in Seq(Nat) /\ B2(m) \in Seq(Nat) /\ B3(m) \in Seq(Nat) /\ B4(m) \in Seq(Nat)
      /\ B5(m) \in Seq(Nat) /\ B6(m) \in Seq(Nat) /\ B7(m) \in Seq(Nat) /\ B8(m) \in Seq(Nat)
      /\ B9(m) \in Seq(Nat) /\ B10(m) \in Seq(Nat) /\ B11(m) \in Seq(Nat) /\ B12(m) \in Seq(Nat)
  BY <1>1, <1>5, Zenon
<1>9. m.language.name = o.language.name /\ B1(m) = B1(o)
  <2>1. Leads(B0(m) \o F1(m), t) /\ Leads(B0(m) \o F1(o), t)
    BY <1>3, <1>7, Zenon DEF B1
  <2>2. m.language.name = o.language.name
    BY <1>8, <2>1, HashedTexts, StringRead, Zenon DEF F1
  <2> QED BY <1>3, <2>2, Zenon DEF B1, F1
<1>10. m.language.version = o.language.version /\ B2(m) = B2(o)
  <2>1. Leads(B1(m) \o F2(m), t) /\ Leads(B1(m) \o F2(o), t)
    BY <1>9, <1>7, Zenon DEF B2
  <2>2. m.language.version = o.language.version
    BY <1>8, <2>1, HashedTexts, StringRead, Zenon DEF F2
  <2> QED BY <1>9, <2>2, Zenon DEF B2, F2
<1>11. m.language.implementation = o.language.implementation /\ B3(m) = B3(o)
  <2>1. Leads(B2(m) \o F3(m), t) /\ Leads(B2(m) \o F3(o), t)
    BY <1>10, <1>7, Zenon DEF B3
  <2>2. m.language.implementation = o.language.implementation
    BY <1>8, <2>1, HashedTexts, StringRead, Zenon DEF F3
  <2> QED BY <1>10, <2>2, Zenon DEF B3, F3
<1>12. m.artifact.sha256.of = o.artifact.sha256.of /\ B4(m) = B4(o)
  <2>1. Leads(B3(m) \o F4(m), t) /\ Leads(B3(m) \o F4(o), t)
    BY <1>11, <1>7, Zenon DEF B4
  <2>2. m.artifact.sha256.of = o.artifact.sha256.of
    BY <1>8, <2>1, HashedTexts, StringRead, Zenon DEF F4
  <2> QED BY <1>11, <2>2, Zenon DEF B4, F4
<1>13. m.required_wasm_features = o.required_wasm_features /\ B5(m) = B5(o)
  <2>1. Leads(B4(m) \o F5(m), t) /\ Leads(B4(m) \o F5(o), t)
    BY <1>12, <1>7, Zenon DEF B5
  <2>2. m.required_wasm_features = o.required_wasm_features
    BY <1>8, <2>1, ManifestParts, StringsRead, Zenon DEF F5
  <2> QED BY <1>12, <2>2, Zenon DEF B5, F5
<1>14. m.commands.default = o.commands.default /\ B6(m) = B6(o)
  <2>1. Leads(B5(m) \o F6(m), t) /\ Leads(B5(m) \o F6(o), t)
    BY <1>13, <1>7, Zenon DEF B6
  <2>2. m.commands.default = o.commands.default
    BY <1>8, <2>1, HashedTexts, StringRead, Zenon DEF F6
  <2> QED BY <1>13, <2>2, Zenon DEF B6, F6
<1>15. m.commands.available = o.commands.available /\ B7(m) = B7(o)
  <2>1. Leads(B6(m) \o F7(m), t) /\ Leads(B6(m) \o F7(o), t)
    BY <1>14, <1>7, Zenon DEF B7
  <2>2. m.commands.available = o.commands.available
    BY <1>8, <2>1, ManifestParts, StringsRead, Zenon DEF F7
  <2> QED BY <1>14, <2>2, Zenon DEF B7, F7
<1>16. m.filesystem.immutable = o.filesystem.immutable /\ B8(m) = B8(o)
  <2>1. Leads(B7(m) \o F8(m), t) /\ Leads(B7(m) \o F8(o), t)
    BY <1>15, <1>7, Zenon DEF B8
  <2>2. m.filesystem.immutable = o.filesystem.immutable
    BY <1>8, <2>1, ManifestParts, StringsRead, Zenon DEF F8
  <2> QED BY <1>15, <2>2, Zenon DEF B8, F8
<1>17. m.filesystem.writable = o.filesystem.writable /\ B9(m) = B9(o)
  <2>1. Leads(B8(m) \o F9(m), t) /\ Leads(B8(m) \o F9(o), t)
    BY <1>16, <1>7, Zenon DEF B9
  <2>2. m.filesystem.writable = o.filesystem.writable
    BY <1>8, <2>1, ManifestParts, StringsRead, Zenon DEF F9
  <2> QED BY <1>16, <2>2, Zenon DEF B9, F9
<1>18. m.build.toolchain_id = o.build.toolchain_id /\ B10(m) = B10(o)
  <2>1. Leads(B9(m) \o F10(m), t) /\ Leads(B9(m) \o F10(o), t)
    BY <1>17, <1>7, Zenon DEF B10
  <2>2. m.build.toolchain_id = o.build.toolchain_id
    BY <1>8, <2>1, HashedTexts, StringRead, Zenon DEF F10
  <2> QED BY <1>17, <2>2, Zenon DEF B10, F10
<1>19. m.build.source_digest.of = o.build.source_digest.of /\ B11(m) = B11(o)
  <2>1. Leads(B10(m) \o F11(m), t) /\ Leads(B10(m) \o F11(o), t)
    BY <1>18, <1>7, Zenon DEF B11
  <2>2. m.build.source_digest.of = o.build.source_digest.of
    BY <1>8, <2>1, HashedTexts, StringRead, Zenon DEF F11
  <2> QED BY <1>18, <2>2, Zenon DEF B11, F11
<1>20. m.build.lock_digest.of = o.build.lock_digest.of /\ B12(m) = B12(o)
  <2>1. Leads(B11(m) \o F12(m), t) /\ Leads(B11(m) \o F12(o), t)
    BY <1>19, <1>7, Zenon DEF B12
  <2>2. m.build.lock_digest.of = o.build.lock_digest.of
    BY <1>8, <2>1, HashedTexts, StringRead, Zenon DEF F12
  <2> QED BY <1>19, <2>2, Zenon DEF B12, F12
<1> QED
  BY <1>9, <1>10, <1>11, <1>12, <1>13, <1>14, <1>15, <1>16, <1>17, <1>18, <1>19, <1>20, Zenon

(* A digest in one of the two accepted spellings is given by what it is of. *)
LEMMA SameDigest ==
  ASSUME NEW d \in Digests, NEW e \in Digests, d.of = e.of,
         \/ validate_hex_sha256(d) /\ validate_hex_sha256(e)
         \/ validate_prefixed_sha256(d) /\ validate_prefixed_sha256(e)
  PROVE  d = e
<1>1. \A x \in Digests : validate_prefixed_sha256(x) => x.prefixed = TRUE /\ x.canonical = TRUE
  BY DEF validate_prefixed_sha256, validate_hex_sha256, Digests
<1>2. \A x \in Digests : validate_hex_sha256(x) => x.prefixed = FALSE /\ x.canonical = TRUE
  BY DEF validate_hex_sha256, Digests
<1>3. d.prefixed = e.prefixed /\ d.canonical = e.canonical
  BY <1>1, <1>2, Zenon
<1> QED
  BY <1>3 DEF Digests

(* Manifests that agree in every field are the same manifest. *)
LEMMA SameParts ==
  ASSUME NEW m \in EnvironmentManifests, NEW o \in EnvironmentManifests,
         m.schema_version = o.schema_version, m.environment_id = o.environment_id,
         m.execution_profile = o.execution_profile,
         m.required_wasm_features = o.required_wasm_features,
         m.language.name = o.language.name, m.language.version = o.language.version,
         m.language.implementation = o.language.implementation,
         m.artifact.format = o.artifact.format, m.artifact.path = o.artifact.path,
         m.artifact.sha256 = o.artifact.sha256,
         m.commands.default = o.commands.default, m.commands.available = o.commands.available,
         m.filesystem.immutable = o.filesystem.immutable,
         m.filesystem.writable = o.filesystem.writable,
         m.build.toolchain_id = o.build.toolchain_id,
         m.build.source_digest = o.build.source_digest,
         m.build.lock_digest = o.build.lock_digest
  PROVE  m = o
<1> DEFINE S == Strings
           D == Digests
           L == [name : S, version : S, implementation : S]
           A == [format : STRING, path : STRING, sha256 : D]
           C == [default : S, available : Seq(S)]
           F == [immutable : Seq(S), writable : Seq(S)]
           B == [toolchain_id : S, source_digest : D, lock_digest : D]
           M == [schema_version : Nat, environment_id : D, execution_profile : STRING,
                 language : L, artifact : A, required_wasm_features : Seq(S),
                 commands : C, filesystem : F, build : B]
<1>1. m \in M /\ o \in M
  BY DEF EnvironmentManifests
<1> HIDE DEF S, D
<1>2. \A x, y \in L : x.name = y.name /\ x.version = y.version
                      /\ x.implementation = y.implementation => x = y
  OBVIOUS
<1>3. \A x, y \in A : x.format = y.format /\ x.path = y.path /\ x.sha256 = y.sha256 => x = y
  OBVIOUS
<1>4. \A x, y \in C : x.default = y.default /\ x.available = y.available => x = y
  OBVIOUS
<1>5. \A x, y \in F : x.immutable = y.immutable /\ x.writable = y.writable => x = y
  OBVIOUS
<1>6. \A x, y \in B : x.toolchain_id = y.toolchain_id /\ x.source_digest = y.source_digest
                      /\ x.lock_digest = y.lock_digest => x = y
  OBVIOUS
<1> HIDE DEF L, A, C, F, B
<1>7. /\ m.language \in L /\ m.artifact \in A /\ m.commands \in C /\ m.filesystem \in F
      /\ m.build \in B
      /\ o.language \in L /\ o.artifact \in A /\ o.commands \in C /\ o.filesystem \in F
      /\ o.build \in B
  BY <1>1
<1>8. /\ m.language = o.language /\ m.artifact = o.artifact /\ m.commands = o.commands
      /\ m.filesystem = o.filesystem /\ m.build = o.build
  BY <1>2, <1>3, <1>4, <1>5, <1>6, <1>7, Zenon
<1> QED
  BY <1>1, <1>8

(* Two valid manifests with the same environment_id are the same manifest. *)
LEMMA IdentityNamesOne ==
  ASSUME NEW m \in EnvironmentManifests, NEW o \in EnvironmentManifests,
         validate(m), validate(o), m.environment_id = o.environment_id
  PROVE  m = o
<1>1. validate_identity_fields(m) /\ validate_identity_fields(o)
  BY DEF validate
<1>2. /\ m.schema_version = o.schema_version /\ m.execution_profile = o.execution_profile
      /\ m.artifact.format = o.artifact.format /\ m.artifact.path = o.artifact.path
      /\ validate_hex_sha256(m.artifact.sha256) /\ validate_hex_sha256(o.artifact.sha256)
      /\ validate_prefixed_sha256(m.build.source_digest)
      /\ validate_prefixed_sha256(o.build.source_digest)
      /\ validate_prefixed_sha256(m.build.lock_digest)
      /\ validate_prefixed_sha256(o.build.lock_digest)
  BY <1>1, Zenon DEF validate_identity_fields
<1>3. calculate_environment_id(m).of = calculate_environment_id(o).of
  BY Zenon DEF validate
<1>4. /\ m.language.name = o.language.name /\ m.language.version = o.language.version
      /\ m.language.implementation = o.language.implementation
      /\ m.artifact.sha256.of = o.artifact.sha256.of
      /\ m.required_wasm_features = o.required_wasm_features
      /\ m.commands.default = o.commands.default /\ m.commands.available = o.commands.available
      /\ m.filesystem.immutable = o.filesystem.immutable
      /\ m.filesystem.writable = o.filesystem.writable
      /\ m.build.toolchain_id = o.build.toolchain_id
      /\ m.build.source_digest.of = o.build.source_digest.of
      /\ m.build.lock_digest.of = o.build.lock_digest.of
  BY <1>2, <1>3, SameHashSameFields, Zenon
<1>5. /\ m.artifact.sha256 \in Digests /\ o.artifact.sha256 \in Digests
      /\ m.build.source_digest \in Digests /\ o.build.source_digest \in Digests
      /\ m.build.lock_digest \in Digests /\ o.build.lock_digest \in Digests
  BY ManifestParts, Zenon
<1>6. /\ m.artifact.sha256 = o.artifact.sha256
      /\ m.build.source_digest = o.build.source_digest
      /\ m.build.lock_digest = o.build.lock_digest
  BY <1>2, <1>4, <1>5, SameDigest, Zenon
<1> QED
  BY <1>2, <1>4, <1>6, SameParts, Zenon

=============================================================================
