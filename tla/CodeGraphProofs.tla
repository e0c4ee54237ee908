---------------------------- MODULE CodeGraphProofs ----------------------------
(***************************************************************************)
(* Theorems about CodeGraph, for any repository, any queries side by side  *)
(* and any limit of the search.  What Hops computes is proved by           *)
(* induction, for which a set of naturals stands for the predicate.        *)
(***************************************************************************)
EXTENDS CodeGraph, SequenceTheorems, FiniteSetTheorems, TLAPS

-----------------------------------------------------------------------------
\* Induction over the natural numbers, on sets of them.

LEMMA Smallest ==
    ASSUME NEW T \in SUBSET Nat, T # {}
    PROVE  \E m \in T : \A n \in T : m <= n
<1> DEFINE less == {p \in Nat \X Nat : p[1] < p[2]}
<1>1. IsWellFoundedOn(less, Nat)
  BY NatLessThanWellFounded DEF OpToRel
<1>2. \A m, n \in T : n < m => <<n, m>> \in less
  OBVIOUS
<1> HIDE DEF less
<1>3. PICK m \in T : \A n \in T : <<n, m>> \notin less
  BY <1>1, WFMin
<1>4. \A n \in T : ~(n < m)
  BY <1>2, <1>3
<1> QED
  BY <1>4

LEMMA Induction ==
    ASSUME NEW T \in SUBSET Nat, 0 \in T, \A n \in T : n + 1 \in T
    PROVE  T = Nat
<1> SUFFICES ASSUME Nat \ T # {} PROVE FALSE
  OBVIOUS
<1>1. PICK m \in Nat \ T : \A n \in Nat \ T : m <= n
  BY Smallest
<1>2. m # 0 /\ m - 1 \in Nat
  OBVIOUS
<1>3. m - 1 \in T
  BY <1>1, <1>2
<1> QED
  BY <1>3

-----------------------------------------------------------------------------
\* What is within reach.

\* What has an edge in E from a file of S.
Targets(E, S) == UNION {{e[2] : e \in {d \in E : d[1] = g}} : g \in S}

Grown(E, S) == S \cup Targets(E, S)

\* The function that Hops defines by recursion.
IsWithin(w, E, f, n) ==
    w = [k \in 0 .. n |-> IF k = 0 THEN {f} ELSE w[k - 1] \cup Targets(E, w[k - 1])]

Reach(E, f, n) == (CHOOSE w : IsWithin(w, E, f, n))[n]

LEMMA WithinStep ==
    ASSUME NEW E, NEW f, NEW n \in Nat, NEW w, IsWithin(w, E, f, n)
    PROVE  w[0] = {f} /\ \A k \in 0 .. n - 1 : w[k + 1] = Grown(E, w[k])
<1>1. \A k \in 0 .. n : w[k] = IF k = 0 THEN {f} ELSE Grown(E, w[k - 1])
  BY DEF IsWithin, Grown
<1>2. ASSUME NEW k \in 0 .. n - 1 PROVE w[k + 1] = Grown(E, w[k])
  <2>1. k + 1 \in 0 .. n /\ k + 1 # 0 /\ (k + 1) - 1 = k
    OBVIOUS
  <2> QED
    BY <1>1, <2>1
<1>3. 0 \in 0 .. n
  OBVIOUS
<1> QED
  BY <1>1, <1>2, <1>3

LEMMA WithinExists ==
    ASSUME NEW E, NEW f, NEW n \in Nat
    PROVE  \E w : IsWithin(w, E, f, n)
<1> DEFINE T == {m \in Nat : \E w : IsWithin(w, E, f, m)}
<1>1. 0 \in T
  <2>1. IsWithin([k \in 0 .. 0 |-> {f}], E, f, 0)
    BY DEF IsWithin
  <2> QED
    BY <2>1
<1>2. ASSUME NEW m \in T PROVE m + 1 \in T
  <2>1. PICK w : IsWithin(w, E, f, m)
    OBVIOUS
  <2> DEFINE v == [k \in 0 .. m + 1 |-> IF k <= m THEN w[k] ELSE Grown(E, w[m])]
  <2>2. w[0] = {f} /\ \A k \in 0 .. m - 1 : w[k + 1] = Grown(E, w[k])
    BY <2>1, WithinStep
  <2>3. v[m + 1] = Grown(E, w[m]) /\ \A k \in 0 .. m : v[k] = w[k]
    OBVIOUS
  <2>4. v = [k \in 0 .. m + 1 |-> v[k]]
    OBVIOUS
  <2> HIDE DEF v
  <2>5. ASSUME NEW k \in 0 .. m + 1 PROVE v[k] = IF k = 0 THEN {f} ELSE Grown(E, v[k - 1])
    <3>1. CASE k = 0
      BY <2>2, <2>3, <3>1
    <3>2. CASE k # 0
      <4>1. PICK j \in 0 .. m : k = j + 1
        <5>1. k - 1 \in 0 .. m /\ k = (k - 1) + 1
          BY <3>2
        <5> QED
          BY <5>1
      <4>2. v[j] = w[j]
        BY <2>3
      <4>3. v[j + 1] = Grown(E, w[j])
        <5>1. CASE j = m
          BY <2>3, <5>1
        <5>2. CASE j # m
          <6>1. j \in 0 .. m - 1 /\ j + 1 \in 0 .. m
            BY <5>2
          <6> QED
            BY <2>2, <2>3, <6>1
        <5> QED
          BY <5>1, <5>2
      <4>4. k - 1 = j
        BY <4>1
      <4> QED
        BY <3>2, <4>1, <4>2, <4>3, <4>4
    <3> QED
      BY <3>1, <3>2
  <2>6. IsWithin(v, E, f, m + 1)
    BY <2>4, <2>5 DEF IsWithin, Grown
  <2> QED
    BY <2>6
<1> HIDE DEF T
<1>3. T = Nat
  BY <1>1, <1>2, Induction DEF T
<1> QED
  BY <1>3 DEF T

LEMMA WithinUnique ==
    ASSUME NEW E, NEW f, NEW m \in Nat, NEW n \in Nat, m <= n,
           NEW w, IsWithin(w, E, f, m), NEW v, IsWithin(v, E, f, n)
    PROVE  w[m] = v[m]
<1> DEFINE T == {k \in Nat : k <= m => w[k] = v[k]}
<1>1. w[0] = {f} /\ \A k \in 0 .. m - 1 : w[k + 1] = Grown(E, w[k])
  BY WithinStep
<1>2. v[0] = {f} /\ \A k \in 0 .. n - 1 : v[k + 1] = Grown(E, v[k])
  BY WithinStep
<1>3. 0 \in T
  <2>1. w[0] = v[0]
    BY <1>1, <1>2
  <2> QED
    BY <2>1
<1>4. ASSUME NEW k \in T PROVE k + 1 \in T
  <2> SUFFICES ASSUME k + 1 <= m PROVE w[k + 1] = v[k + 1]
    OBVIOUS
  <2>1. k \in 0 .. m - 1 /\ k \in 0 .. n - 1
    OBVIOUS
  <2>2. w[k] = v[k]
    OBVIOUS
  <2> QED
    BY <1>1, <1>2, <2>1, <2>2
<1>5. T = Nat
  <2> HIDE DEF T
  <2> QED
    BY <1>3, <1>4, Induction DEF T
<1> QED
  BY <1>5

LEMMA ReachStep ==
    ASSUME NEW E, NEW f
    PROVE  /\ Reach(E, f, 0) = {f}
           /\ \A n \in Nat : Reach(E, f, n + 1) = Grown(E, Reach(E, f, n))
<1> DEFINE w(n) == CHOOSE w : IsWithin(w, E, f, n)
<1>1. \A n \in Nat : IsWithin(w(n), E, f, n)
  BY WithinExists
<1>2. \A n \in Nat : Reach(E, f, n) = w(n)[n]
  BY DEF Reach
<1> HIDE DEF w
<1>3. Reach(E, f, 0) = {f}
  BY <1>1, <1>2, WithinStep
<1>4. ASSUME NEW n \in Nat
      PROVE  Reach(E, f, n + 1) = Grown(E, Reach(E, f, n))
  <2>1. n + 1 \in Nat /\ n \in 0 .. (n + 1) - 1 /\ n <= n + 1
    OBVIOUS
  <2>2. IsWithin(w(n), E, f, n) /\ IsWithin(w(n + 1), E, f, n + 1)
    BY <1>1, <2>1
  <2>3. w(n + 1)[n + 1] = Grown(E, w(n + 1)[n])
    <3>1. \A k \in 0 .. (n + 1) - 1 : w(n + 1)[k + 1] = Grown(E, w(n + 1)[k])
      BY <2>1, <2>2, WithinStep
    <3> QED
      BY <2>1, <3>1
  <2>4. w(n)[n] = w(n + 1)[n]
    BY <2>1, <2>2, WithinUnique
  <2> QED
    BY <1>2, <2>1, <2>3, <2>4
<1> QED
  BY <1>3, <1>4

LEMMA HopsReach == \A f, n : Hops(f, n) = Reach(edges, f, n)
  BY DEF Hops, Reach, IsWithin, Targets, Neighbours

\* A set that is closed under the edges and holds f holds all there is to reach.
LEMMA ReachClosed ==
    ASSUME NEW E, NEW f, NEW V, f \in V, Targets(E, V) \subseteq V, NEW n \in Nat
    PROVE  Reach(E, f, n) \subseteq V
<1> DEFINE T == {m \in Nat : Reach(E, f, m) \subseteq V}
<1>1. 0 \in T
  BY ReachStep
<1>2. ASSUME NEW m \in T PROVE m + 1 \in T
  <2>1. Targets(E, Reach(E, f, m)) \subseteq Targets(E, V)
    BY DEF Targets
  <2>2. Reach(E, f, m + 1) = Grown(E, Reach(E, f, m))
    BY ReachStep
  <2>3. Reach(E, f, m + 1) \subseteq V
    BY <2>1, <2>2 DEF Grown
  <2> QED
    BY <2>3
<1> HIDE DEF T
<1>3. T = Nat
  BY <1>1, <1>2, Induction DEF T
<1> QED
  BY <1>3 DEF T

LEMMA ReachMonotonic ==
    ASSUME NEW E, NEW f, NEW m \in Nat, NEW n \in Nat, m <= n
    PROVE  Reach(E, f, m) \subseteq Reach(E, f, n)
<1> DEFINE T == {k \in Nat : Reach(E, f, m) \subseteq Reach(E, f, m + k)}
<1>1. 0 \in T
  OBVIOUS
<1>2. ASSUME NEW k \in T PROVE k + 1 \in T
  <2>1. m + k \in Nat /\ m + (k + 1) = (m + k) + 1
    OBVIOUS
  <2>2. Reach(E, f, m + k) \subseteq Reach(E, f, (m + k) + 1)
    BY <2>1, ReachStep DEF Grown
  <2> QED
    BY <2>1, <2>2
<1>3. n - m \in T
  <2> HIDE DEF T
  <2>1. T = Nat
    BY <1>1, <1>2, Induction DEF T
  <2> QED
    BY <2>1
<1> QED
  BY <1>3

LEMMA Listed ==
    ASSUME NEW S, IsFiniteSet(S)
    PROVE  SetToSeq(S) \in Seq(S) /\ Range(SetToSeq(S)) = S
<1> DEFINE n == Cardinality(S)
           q == SetToSeq(S)
           R == {q[i] : i \in 1 .. n}
<1>1. n \in Nat /\ ExistsBijection(1 .. n, S)
  BY FS_CardinalityType
<1>2. q \in [1 .. n -> S] /\ IsInjective(q)
  <2>1. \E f \in [1 .. n -> S] : IsInjective(f)
    BY <1>1 DEF ExistsBijection, Bijection, Injection
  <2> QED
    BY <2>1 DEF SetToSeq
<1> HIDE DEF q, n
<1>3. q \in Bijection(1 .. n, R)
  BY <1>2 DEF Bijection, Injection, Surjection, IsInjective
<1>4. Cardinality(R) = n /\ R \subseteq S
  BY <1>1, <1>2, <1>3, FS_CountingElements DEF ExistsBijection
<1>5. R = S
  BY <1>4, FS_Subset DEF n
<1>6. q \in Seq(S)
  BY <1>1, <1>2, SeqDef
<1>7. Range(q) = R
  BY <1>2 DEF Range
<1> QED
  BY <1>5, <1>6, <1>7 DEF q

-----------------------------------------------------------------------------
\* The queue of a search.

Item == [file : Files, depth : 0 .. MaxDepth + 1]

LEMMA HeadTailRange ==
    ASSUME NEW p \in Seq(Item), p # <<>>
    PROVE  /\ Head(p) \in Item /\ Tail(p) \in Seq(Item)
           /\ Range(p) = {Head(p)} \cup Range(Tail(p))
<1>1. /\ Head(p) = p[1] /\ Head(p) \in Item /\ Tail(p) \in Seq(Item)
      /\ Len(p) \in Nat \ {0} /\ Len(Tail(p)) = Len(p) - 1
      /\ \A i \in 1 .. Len(Tail(p)) : Tail(p)[i] = p[i + 1]
  BY HeadTailProperties, EmptySeq
<1>2. Range(p) = {p[i] : i \in 1 .. Len(p)} /\ Range(Tail(p)) = {Tail(p)[i] : i \in 1 .. Len(Tail(p))}
  BY <1>1, RangeEquality
<1>3. ASSUME NEW i \in 1 .. Len(p) PROVE p[i] \in {Head(p)} \cup Range(Tail(p))
  <2>1. CASE i = 1
    BY <1>1, <2>1
  <2>2. CASE i # 1
    <3>1. i - 1 \in 1 .. Len(Tail(p)) /\ (i - 1) + 1 = i
      BY <1>1, <2>2
    <3> QED
      BY <1>1, <1>2, <3>1
  <2> QED
    BY <2>1, <2>2
<1>4. ASSUME NEW i \in 1 .. Len(Tail(p)) PROVE Tail(p)[i] \in Range(p)
  <2>1. i + 1 \in 1 .. Len(p)
    BY <1>1
  <2> QED
    BY <1>1, <1>2, <2>1
<1>5. Head(p) \in Range(p)
  BY <1>1, <1>2
<1> QED
  BY <1>1, <1>2, <1>3, <1>4, <1>5

LEMMA JoinedRange == \A r, t \in Seq(Item) : Range(r \o t) = Range(r) \cup Range(t)
  BY RangeConcatenation

\* A queue is in the order of the depths, and never spans more than two of them.
Sorted(p) ==
    \A i, j \in 1 .. Len(p) : i < j => p[i].depth <= p[j].depth /\ p[j].depth <= p[i].depth + 1

LEMMA SortedHead ==
    ASSUME NEW p \in Seq(Item), p # <<>>, Sorted(p)
    PROVE  \A x \in Range(p) : Head(p).depth <= x.depth /\ x.depth <= Head(p).depth + 1
<1>1. Head(p) = p[1] /\ Len(p) \in Nat \ {0} /\ \A i \in 1 .. Len(p) : p[i] \in Item
  BY HeadTailProperties, EmptySeq, ElementOfSeq
<1>2. Range(p) = {p[i] : i \in 1 .. Len(p)}
  BY RangeEquality
<1>3. ASSUME NEW i \in 1 .. Len(p)
      PROVE  Head(p).depth <= p[i].depth /\ p[i].depth <= Head(p).depth + 1
  <2>1. p[i].depth \in Int /\ 1 \in 1 .. Len(p)
    BY <1>1 DEF Item
  <2>2. CASE i = 1
    BY <1>1, <2>1, <2>2
  <2>3. CASE i # 1
    BY <1>1, <2>1, <2>3 DEF Sorted
  <2> QED
    BY <2>2, <2>3
<1> QED
  BY <1>2, <1>3

LEMMA SortedTail ==
    ASSUME NEW p \in Seq(Item), p # <<>>, Sorted(p)
    PROVE  Sorted(Tail(p))
<1>1. /\ Len(p) \in Nat \ {0} /\ Len(Tail(p)) = Len(p) - 1
      /\ \A i \in 1 .. Len(Tail(p)) : Tail(p)[i] = p[i + 1]
  BY HeadTailProperties, EmptySeq
<1>2. \A i \in 1 .. Len(Tail(p)) : i + 1 \in 1 .. Len(p)
  BY <1>1
<1>3. \A i, j \in 1 .. Len(Tail(p)) : i < j => i + 1 < j + 1
  OBVIOUS
<1> QED
  BY <1>1, <1>2, <1>3 DEF Sorted

\* What is found from the head goes behind the rest.
LEMMA SortedJoined ==
    ASSUME NEW d \in Int, NEW r \in Seq(Item), NEW s \in Seq(Item), Sorted(r),
           \A x \in Range(r) : d <= x.depth /\ x.depth <= d + 1,
           \A x \in Range(s) : x.depth = d + 1
    PROVE  Sorted(r \o s)
<1>1. /\ Len(r) \in Nat /\ Len(s) \in Nat /\ Len(r \o s) = Len(r) + Len(s)
      /\ \A i \in 1 .. Len(r) + Len(s) : (r \o s)[i] = IF i <= Len(r) THEN r[i] ELSE s[i - Len(r)]
  BY ConcatProperties, LenProperties
<1>2. /\ \A i \in 1 .. Len(r) : d <= r[i].depth /\ r[i].depth <= d + 1 /\ r[i].depth \in Int
      /\ \A i \in 1 .. Len(s) : s[i].depth = d + 1
  <2>1. Range(r) = {r[i] : i \in 1 .. Len(r)} /\ Range(s) = {s[i] : i \in 1 .. Len(s)}
    BY RangeEquality
  <2>2. \A i \in 1 .. Len(r) : r[i] \in Item
    BY ElementOfSeq
  <2>3. \A i \in 1 .. Len(r) : r[i].depth \in Int
    BY <2>2 DEF Item
  <2> QED
    BY <2>1, <2>3
<1>3. ASSUME NEW i \in 1 .. Len(r) + Len(s), NEW j \in 1 .. Len(r) + Len(s), i < j
      PROVE  (r \o s)[i].depth <= (r \o s)[j].depth /\ (r \o s)[j].depth <= (r \o s)[i].depth + 1
  <2>1. CASE j <= Len(r)
    <3>1. i \in 1 .. Len(r) /\ j \in 1 .. Len(r)
      BY <1>1, <1>3, <2>1
    <3> QED
      BY <1>1, <1>3, <2>1, <3>1 DEF Sorted
  <2>2. CASE ~(j <= Len(r))
    <3>1. j - Len(r) \in 1 .. Len(s)
      BY <1>1, <2>2
    <3>2. (r \o s)[j].depth = d + 1
      BY <1>1, <1>2, <2>2, <3>1
    <3>3. CASE i <= Len(r)
      <4>1. i \in 1 .. Len(r)
        BY <1>1, <3>3
      <4> QED
        BY <1>1, <1>2, <3>2, <3>3, <4>1
    <3>4. CASE ~(i <= Len(r))
      <4>1. i - Len(r) \in 1 .. Len(s)
        BY <1>1, <3>4
      <4> QED
        BY <1>1, <1>2, <3>2, <3>4, <4>1
    <3> QED
      BY <3>3, <3>4
  <2> QED
    BY <2>1, <2>2
<1> QED
  BY <1>1, <1>3 DEF Sorted

-----------------------------------------------------------------------------
\* The search in the order of a queue.

Waits(p)      == {x.file : x \in Range(p)}
WaitsAt(p, d) == {x.file : x \in {y \in Range(p) : y.depth = d}}

\* With the head at depth d, all within d hops was visited or waits at that depth,
\* and what the visited files have edges to was visited or waits; with nothing
\* left, or nothing within the limit, all there is within the limit was visited.
Complete(E, f, p, V) ==
    IF p = <<>> \/ Head(p).depth > MaxDepth
    THEN Reach(E, f, MaxDepth) \subseteq V
    ELSE /\ Reach(E, f, Head(p).depth) \subseteq V \cup WaitsAt(p, Head(p).depth)
         /\ Targets(E, V) \subseteq V \cup Waits(p)

\* One item of the queue: dropped, or visited and replaced at the end by what it
\* has edges to.
LEMMA BroadStep ==
    ASSUME NEW E, NEW f, NEW p \in Seq(Item), p # <<>>, NEW V, Sorted(p), Complete(E, f, p, V),
           NEW s \in Seq(Item), NEW W,
           \/ /\ Head(p).file \in V \/ Head(p).depth > MaxDepth
              /\ s = Tail(p) /\ W = V
           \/ /\ Head(p).depth <= MaxDepth /\ W = V \cup {Head(p).file}
              /\ \E t \in Seq(Item) :
                    /\ s = Tail(p) \o t
                    /\ \A x \in Range(t) : x.depth = Head(p).depth + 1
                    /\ Targets(E, {Head(p).file}) \subseteq Waits(t)
    PROVE  Sorted(s) /\ Complete(E, f, s, W)
<1> DEFINE d == Head(p).depth
<1>1. d \in 0 .. MaxDepth + 1 /\ MaxDepth \in Nat
  BY HeadTailRange, DepthAssumption DEF Item
<1>2. Tail(p) \in Seq(Item) /\ Range(p) = {Head(p)} \cup Range(Tail(p)) /\ Sorted(Tail(p))
  BY HeadTailRange, SortedTail
<1>3. \A x \in Range(p) : x.depth \in Int /\ d <= x.depth /\ x.depth <= d + 1
  <2>1. \A x \in Range(p) : x \in Item
    BY RangeOfSeq
  <2>2. \A x \in Range(p) : x.depth \in Int
    BY <2>1 DEF Item
  <2>3. \A x \in Range(p) : d <= x.depth /\ x.depth <= d + 1
    BY SortedHead
  <2> QED
    BY <2>2, <2>3
<1>4. Range(Tail(p)) \subseteq Range(s) /\ Sorted(s)
      /\ \A x \in Range(s) : x.depth \in Int /\ d <= x.depth /\ x.depth <= d + 1
  <2>1. CASE s = Tail(p)
    BY <1>2, <1>3, <2>1
  <2>2. ASSUME NEW t \in Seq(Item), s = Tail(p) \o t, \A x \in Range(t) : x.depth = d + 1
        PROVE  Range(Tail(p)) \subseteq Range(s) /\ Sorted(s)
               /\ \A x \in Range(s) : x.depth \in Int /\ d <= x.depth /\ x.depth <= d + 1
    <3>1. Range(s) = Range(Tail(p)) \cup Range(t)
      BY <1>2, <2>2, JoinedRange
    <3>2. Sorted(s)
      <4> HIDE DEF d
      <4>1. \A x \in Range(Tail(p)) : d <= x.depth /\ x.depth <= d + 1
        BY <1>2, <1>3
      <4>2. Sorted(Tail(p) \o t)
        <5>1. d \in Int /\ Tail(p) \in Seq(Item) /\ Sorted(Tail(p))
          BY <1>1, <1>2
        <5>2. \A x \in Range(t) : x.depth = d + 1
          BY <2>2
        <5> QED
          BY <2>2, <4>1, <5>1, <5>2, SortedJoined
      <4> QED
        BY <2>2, <4>2
    <3> QED
      BY <1>1, <1>2, <1>3, <2>2, <3>1, <3>2
  <2> QED
    BY <2>1, <2>2
<1>5. ASSUME d <= MaxDepth
      PROVE  /\ Head(p).file \in W /\ V \subseteq W
             /\ Reach(E, f, d) \subseteq W \cup WaitsAt(s, d)
             /\ Targets(E, W) \subseteq W \cup Waits(s)
  <2>1. /\ Reach(E, f, d) \subseteq V \cup WaitsAt(p, d)
        /\ Targets(E, V) \subseteq V \cup Waits(p)
    BY <1>1, <1>5 DEF Complete
  <2>2. Head(p).file \in W /\ V \subseteq W
    BY <1>1, <1>5
  <2>3. Waits(p) \subseteq W \cup Waits(s) /\ WaitsAt(p, d) \subseteq W \cup WaitsAt(s, d)
    BY <1>2, <1>4, <2>2 DEF Waits, WaitsAt
  <2>4. Targets(E, W) \subseteq Targets(E, V) \cup Waits(s)
    <3>1. CASE W = V
      BY <3>1
    <3>2. ASSUME NEW t \in Seq(Item), s = Tail(p) \o t, Targets(E, {Head(p).file}) \subseteq Waits(t),
                 W = V \cup {Head(p).file}
          PROVE  Targets(E, W) \subseteq Targets(E, V) \cup Waits(s)
      <4>1. Range(t) \subseteq Range(s)
        <5>1. Range(s) = Range(Tail(p)) \cup Range(t)
          BY <1>2, <3>2, JoinedRange
        <5> QED
          BY <5>1
      <4>2. Targets(E, W) \subseteq Targets(E, V) \cup Targets(E, {Head(p).file})
        BY <3>2 DEF Targets
      <4> QED
        BY <3>2, <4>1, <4>2 DEF Waits
    <3> QED
      BY <3>1, <3>2
  <2> QED
    BY <2>1, <2>2, <2>3, <2>4
<1>6. CASE d > MaxDepth
  <2>1. s = Tail(p) /\ W = V
    BY <1>1, <1>6
  <2>2. Reach(E, f, MaxDepth) \subseteq W
    BY <1>6, <2>1 DEF Complete
  <2>3. s # <<>> => Head(s).depth > MaxDepth
    <3> SUFFICES ASSUME s # <<>> PROVE Head(s).depth > MaxDepth
      OBVIOUS
    <3>1. Head(s) \in Range(s)
      BY HeadTailRange
    <3> QED
      BY <1>1, <1>4, <1>6, <3>1
  <2> QED
    BY <1>4, <2>2, <2>3 DEF Complete
<1>7. CASE d <= MaxDepth
  <2>1. CASE s = <<>>
    <3>1. Range(s) = {}
      BY <2>1 DEF Range
    <3>2. Reach(E, f, d) \subseteq W /\ Targets(E, W) \subseteq W
      BY <1>5, <1>7, <3>1 DEF Waits, WaitsAt
    <3>3. f \in W
      <4>1. Reach(E, f, 0) \subseteq Reach(E, f, d)
        <5> HIDE DEF d
        <5> QED
          BY <1>1, ReachMonotonic
      <4> QED
        BY <3>2, <4>1, ReachStep
    <3>4. Reach(E, f, MaxDepth) \subseteq W
      BY <1>1, <3>2, <3>3, ReachClosed
    <3> QED
      BY <1>4, <2>1, <3>4 DEF Complete
  <2>2. CASE s # <<>>
    <3> DEFINE e == Head(s).depth
    <3>1. Head(s) \in Range(s)
      BY <2>2, HeadTailRange
    <3>2. e = d \/ e = d + 1
      <4>1. e \in Int /\ d <= e /\ e <= d + 1
        BY <1>4, <3>1
      <4> HIDE DEF d, e
      <4> QED
        BY <1>1, <4>1
    <3>3. CASE e = d
      BY <1>4, <1>5, <1>7, <2>2, <3>3 DEF Complete
    <3>4. CASE e = d + 1
      <4>1. \A x \in Range(s) : x.depth = d + 1
        <5>1. \A x \in Range(s) : e <= x.depth
          BY <1>4, <2>2, SortedHead
        <5> HIDE DEF d, e
        <5> QED
          BY <1>1, <1>4, <3>4, <5>1
      <4>2. WaitsAt(s, d) = {} /\ WaitsAt(s, d + 1) = Waits(s)
        <5>1. \A x \in Range(s) : x.depth # d
          <6> HIDE DEF d
          <6> QED
            BY <1>1, <4>1
        <5> QED
          BY <4>1, <5>1 DEF Waits, WaitsAt
      <4>3. Reach(E, f, d) \subseteq W /\ Targets(E, W) \subseteq W \cup Waits(s)
        BY <1>5, <1>7, <4>2
      <4>4. CASE d + 1 > MaxDepth
        <5>1. d = MaxDepth
          <6> HIDE DEF d
          <6> QED
            BY <1>1, <1>7, <4>4
        <5> QED
          BY <1>4, <2>2, <3>4, <4>3, <4>4, <5>1 DEF Complete
      <4>5. CASE ~(d + 1 > MaxDepth)
        <5>1. Reach(E, f, d + 1) = Grown(E, Reach(E, f, d))
          <6>1. d \in Nat
            BY <1>1
          <6>2. \A n \in Nat : Reach(E, f, n + 1) = Grown(E, Reach(E, f, n))
            BY ReachStep, Zenon
          <6> HIDE DEF d
          <6> QED
            BY <6>1, <6>2, Zenon
        <5>2. Targets(E, Reach(E, f, d)) \subseteq Targets(E, W)
          BY <4>3 DEF Targets
        <5>3. Reach(E, f, d + 1) \subseteq W \cup WaitsAt(s, d + 1)
          BY <4>2, <4>3, <5>1, <5>2 DEF Grown
        <5> QED
          BY <1>4, <2>2, <3>4, <4>3, <4>5, <5>3 DEF Complete
      <4> QED
        BY <4>4, <4>5
    <3> QED
      BY <3>2, <3>3, <3>4
  <2> QED
    BY <2>1, <2>2
<1> QED
  BY <1>1, <1>6, <1>7

-----------------------------------------------------------------------------
\* Type correctness.

LEMMA NeighbourTypes ==
    ASSUME TypeOK
    PROVE  \A g : Neighbours(g) \subseteq Files /\ IsFiniteSet(Neighbours(g))
                  /\ Neighbours(g) = Targets(edges, {g})
<1> SUFFICES ASSUME NEW g
             PROVE  Neighbours(g) \subseteq Files /\ IsFiniteSet(Neighbours(g))
                    /\ Neighbours(g) = Targets(edges, {g})
  OBVIOUS
<1>1. Neighbours(g) \subseteq Files
  BY DEF TypeOK, Neighbours
<1> QED
  BY <1>1, FilesAssumption, FS_Subset DEF Neighbours, Targets

\* What Visit puts in the queue for an item.
Found(x) == {[file |-> g, depth |-> x.depth + 1] : g \in Neighbours(x.file)}

LEMMA FoundListed ==
    ASSUME TypeOK, NEW x \in Item, x.depth <= MaxDepth
    PROVE  /\ SetToSeq(Found(x)) \in Seq(Item) /\ Range(SetToSeq(Found(x))) = Found(x)
           /\ {y.file : y \in Found(x)} = Neighbours(x.file)
<1> DEFINE rec == [g \in Neighbours(x.file) |-> [file |-> g, depth |-> x.depth + 1]]
<1>1. rec \in Surjection(Neighbours(x.file), Found(x))
  BY DEF Surjection, Found
<1>2. IsFiniteSet(Found(x))
  <2> HIDE DEF rec
  <2> QED
    BY <1>1, NeighbourTypes, FS_Surjection
<1>3. Found(x) \subseteq Item
  <2>1. x.depth + 1 \in 0 .. MaxDepth + 1
    BY DepthAssumption DEF Item
  <2> QED
    <3> SUFFICES ASSUME NEW g \in Neighbours(x.file)
                 PROVE  [file |-> g, depth |-> x.depth + 1] \in Item
      BY DEF Found
    <3>1. g \in Files
      BY NeighbourTypes
    <3> QED
      BY <2>1, <3>1 DEF Item
<1>4. SetToSeq(Found(x)) \in Seq(Item)
  BY <1>2, <1>3, Listed, SeqMonotonic
<1>5. {y.file : y \in Found(x)} = Neighbours(x.file)
  <2>1. \A y \in Found(x) : y.file \in Neighbours(x.file)
    BY DEF Found
  <2>2. ASSUME NEW g \in Neighbours(x.file) PROVE \E y \in Found(x) : y.file = g
    <3>1. [file |-> g, depth |-> x.depth + 1] \in Found(x)
      BY DEF Found
    <3> QED
      BY <3>1
  <2> QED
    BY <2>1, <2>2
<1> QED
  BY <1>2, <1>4, <1>5, Listed

LEMMA VisitMoves ==
    ASSUME TypeOK, NEW q \in Queries, Visit(q)
    PROVE  /\ at[q] = "search" /\ pending[q] \in Seq(Item) /\ pending[q] # <<>>
           /\ pending' = [pending EXCEPT ![q] = pending'[q]]
           /\ visited' = [visited EXCEPT ![q] = visited'[q]]
           /\ UNCHANGED <<tree, edges, query, at, next, result, seen>>
           /\ \/ /\ Head(pending[q]).file \in visited[q] \/ Head(pending[q]).depth > MaxDepth
                 /\ pending'[q] = Tail(pending[q]) /\ visited'[q] = visited[q]
              \/ /\ Head(pending[q]).depth <= MaxDepth
                 /\ visited'[q] = visited[q] \cup {Head(pending[q]).file}
                 /\ \E t \in Seq(Item) :
                       /\ pending'[q] = Joined(q, Tail(pending[q]), t)
                       /\ Range(t) = Found(Head(pending[q]))
<1>1. at[q] = "search" /\ pending[q] \in Seq(Item) /\ pending[q] # <<>>
  BY DEF Visit, TypeOK, Item
<1> DEFINE x == Head(pending[q])
<1>2. x \in Item /\ x.depth \in Int /\ MaxDepth \in Nat
  <2>1. x \in Item
    BY <1>1, HeadTailRange
  <2> QED
    BY <2>1, DepthAssumption DEF Item
<1>3. CASE x.file \in visited[q] \/ x.depth > MaxDepth
  BY <1>1, <1>3 DEF Visit, TooDeep, TypeOK
<1>4. CASE ~(x.file \in visited[q] \/ x.depth > MaxDepth)
  <2>1. x.depth <= MaxDepth
    BY <1>2, <1>4
  <2>2. SetToSeq(Found(x)) \in Seq(Item) /\ Range(SetToSeq(Found(x))) = Found(x)
    BY <1>2, <2>1, FoundListed
  <2>3. pending' = [pending EXCEPT ![q] = Joined(q, Tail(pending[q]), SetToSeq(Found(x)))]
    BY <1>4 DEF Visit, TooDeep, Found
  <2>4. visited' = [visited EXCEPT ![q] = visited[q] \cup {x.file}]
    BY <1>4 DEF Visit, TooDeep
  <2> QED
    BY <1>1, <2>1, <2>2, <2>3, <2>4 DEF Visit, TypeOK
<1> QED
  BY <1>3, <1>4

LEMMA JoinedType ==
    ASSUME NEW q, NEW r \in Seq(Item), NEW t \in Seq(Item)
    PROVE  Joined(q, r, t) \in Seq(Item) /\ Range(Joined(q, r, t)) = Range(r) \cup Range(t)
  BY ConcatProperties, JoinedRange DEF Joined

\* A query that is under way has its files, and stands at one of them.
Asked(q) ==
    /\ files[q] \in Seq(Files) /\ files[q] # <<>>
    /\ next[q] \in 1 .. Len(files[q])

\* Only what it read is attributed to a query, and what it read stays an edge; one
\* query searches at a time, with nothing visited before.
Phase(q) ==
    /\ at[q] \in {"idle", "read"} => visited[q] = {}
    /\ at[q] = "idle" => seen[q] = {} /\ next[q] = 1
    /\ at[q] \in {"read", "search"} => Asked(q) /\ seen[q] \subseteq edges
    /\ \A e \in seen[q] : e[1] \in Range(files[q])

PhaseInv ==
    /\ \A q \in Queries : Phase(q)
    /\ \A q, r \in Queries : at[q] = "search" /\ at[r] = "search" => q = r

LEMMA AskedTypes ==
    ASSUME NEW q, Asked(q)
    PROVE  /\ From(q) \in Files /\ files[q][1] \in Files /\ From(q) \in Range(files[q])
           /\ After(q) \in 1 .. Len(files[q]) /\ Len(files[q]) \in Nat \ {0}
           /\ next[q] \in DOMAIN files[q]
<1>1. Len(files[q]) \in Nat \ {0} /\ DOMAIN files[q] = 1 .. Len(files[q])
  BY LenProperties, EmptySeq DEF Asked
<1>2. \A i \in 1 .. Len(files[q]) : files[q][i] \in Files
  BY ElementOfSeq DEF Asked
<1> QED
  BY <1>1, <1>2 DEF Asked, From, After, Range

Points == {"idle", "read", "search", "done"}

LEMMA InitPhase == Init => TypeOK /\ PhaseInv
<1> SUFFICES ASSUME Init PROVE TypeOK /\ PhaseInv
  OBVIOUS
<1>1. <<>> \in Seq(Item)
  BY EmptySeq
<1>2. pending \in [Queries -> Seq(Item)]
  BY <1>1 DEF Init
<1>3. TypeOK
  BY <1>2, TreesAssumption, DepthAssumption DEF Init, TypeOK, Kinds, Item
<1>4. PhaseInv
  BY DEF Init, PhaseInv, Phase
<1> QED
  BY <1>3, <1>4

LEMMA StartStep ==
    ASSUME TypeOK, PhaseInv, NEW q \in Queries, Start(q)
    PROVE  TypeOK' /\ PhaseInv'
<1>1. PICK fs \in Requests, k \in Kinds :
        /\ files' = [files EXCEPT ![q] = fs] /\ kind' = [kind EXCEPT ![q] = k]
        /\ at' = [at EXCEPT ![q] = "read"] /\ at[q] = "idle"
  BY DEF Start
<1>2. TypeOK'
  <2>1. files' \in [Queries -> Requests \cup {<<>>}] /\ kind' \in [Queries -> Kinds]
    BY <1>1 DEF TypeOK
  <2>2. at' \in [Queries -> Points]
    BY <1>1 DEF TypeOK, Points
  <2> QED
    BY <2>1, <2>2 DEF Start, tree, TypeOK, Points
<1>3. UNCHANGED <<edges, next, visited, seen>>
  BY DEF Start
<1>4. ASSUME NEW r \in Queries PROVE Phase(r)'
  <2>1. CASE r = q
    <3>1. files'[q] = fs /\ at'[q] = "read" /\ next'[q] = 1 /\ visited'[q] = {} /\ seen'[q] = {}
      BY <1>1, <1>3 DEF TypeOK, PhaseInv, Phase
    <3>2. fs \in Seq(Files) /\ fs # <<>> /\ 1 \in 1 .. Len(fs)
      <4>1. fs \in Seq(Files) /\ fs # <<>>
        BY QueryAssumption
      <4>2. Len(fs) \in Nat \ {0}
        BY <4>1, EmptySeq
      <4> QED
        BY <4>1, <4>2
    <3> QED
      BY <2>1, <3>1, <3>2 DEF Phase, Asked
  <2>2. CASE r # q
    <3>1. files'[r] = files[r] /\ at'[r] = at[r]
      BY <1>1, <2>2 DEF TypeOK
    <3> QED
      BY <1>3, <3>1 DEF PhaseInv, Phase, Asked
  <2> QED
    BY <2>1, <2>2
<1>5. \A r, s \in Queries : at'[r] = "search" /\ at'[s] = "search" => r = s
  BY <1>1 DEF PhaseInv, TypeOK
<1> QED
  BY <1>2, <1>4, <1>5 DEF PhaseInv

LEMMA EditStep ==
    ASSUME TypeOK, PhaseInv, Edit
    PROVE  TypeOK' /\ PhaseInv'
<1>1. imports' \in [Files -> SUBSET Files]
  <2>1. PICK c \in Changes : imports' = [imports EXCEPT ![c[1]] = (@ \ {c[2]}) \cup ({c[2]} \ @)]
    BY DEF Edit
  <2>2. c[1] \in Files /\ c[2] \in Files
    BY QueryAssumption
  <2> QED
    BY <2>1, <2>2 DEF TypeOK
<1>2. edits' \in 0 .. MaxEdits
  BY DepthAssumption DEF Edit, TypeOK
<1>3. UNCHANGED <<edges, kind, files, at, next, pending, visited, result, seen>>
  BY DEF Edit, query
<1>4. TypeOK'
  BY <1>1, <1>2, <1>3 DEF TypeOK
<1> QED
  BY <1>3, <1>4 DEF PhaseInv, Phase, Asked

LEMMA ReadMoves ==
    ASSUME TypeOK, PhaseInv, NEW q \in Queries, Read(q)
    PROVE  /\ Asked(q) /\ visited[q] = {} /\ at[q] = "read"
           /\ edges \subseteq edges' /\ edges' \subseteq Files \X Files
           /\ seen' = [seen EXCEPT ![q] = seen'[q]]
           /\ seen'[q] \subseteq edges' /\ seen'[q] \subseteq Files \X Files
           /\ \A e \in seen'[q] : e[1] \in Range(files[q])
           /\ next' = [next EXCEPT ![q] = After(q)]
           /\ UNCHANGED <<imports, edits, kind, files, visited, result>>
           /\ \/ at' = at /\ pending' = [pending EXCEPT ![q] = <<>>]
              \/ /\ at' = [at EXCEPT ![q] = "search"] /\ After(q) = 1
                 /\ pending' = [pending EXCEPT ![q] = <<[file |-> files[q][1], depth |-> 0]>>]
<1>1. at[q] = "read" /\ Asked(q) /\ visited[q] = {} /\ seen[q] \subseteq edges
      /\ \A e \in seen[q] : e[1] \in Range(files[q])
  BY DEF Read, PhaseInv, Phase
<1>2. From(q) \in Files /\ From(q) \in Range(files[q])
  BY <1>1, AskedTypes
<1> DEFINE read == {From(q)} \X imports[From(q)]
<1>3. read \subseteq Files \X Files /\ \A e \in read : e[1] = From(q)
  BY <1>2 DEF TypeOK
<1> HIDE DEF read
<1>4. \/ edges' = edges \cup read /\ seen' = [seen EXCEPT ![q] = seen[q] \cup read]
      \/ edges' = edges /\ seen' = seen
  BY DEF Read, read
<1>5. /\ edges \subseteq edges' /\ edges' \subseteq Files \X Files
      /\ seen' = [seen EXCEPT ![q] = seen'[q]]
      /\ seen'[q] \subseteq edges' /\ seen'[q] \subseteq Files \X Files
      /\ \A e \in seen'[q] : e[1] \in Range(files[q])
  BY <1>1, <1>2, <1>3, <1>4 DEF TypeOK
<1>6. CASE next[q] < Len(files[q])
  <2>1. at' = at /\ at'[q] = "read"
    BY <1>1, <1>6 DEF Read, TypeOK
  <2>2. pending' = [pending EXCEPT ![q] = <<>>]
    BY <2>1 DEF Read
  <2> QED
    BY <1>1, <1>5, <2>1, <2>2 DEF Read, tree, query
<1>7. CASE ~(next[q] < Len(files[q]))
  <2>1. at' = [at EXCEPT ![q] = "search"] /\ at'[q] = "search" /\ After(q) = 1
    BY <1>7 DEF Read, TypeOK, After
  <2>2. pending' = [pending EXCEPT ![q] = <<[file |-> files[q][1], depth |-> 0]>>]
    BY <2>1 DEF Read
  <2> QED
    BY <1>1, <1>5, <2>1, <2>2 DEF Read, tree, query
<1> QED
  BY <1>6, <1>7

LEMMA ReadOthers ==
    ASSUME TypeOK, PhaseInv, NEW q \in Queries, Read(q)
    PROVE  /\ next'[q] = After(q) /\ at'[q] \in {"read", "search"}
           /\ \A r \in Queries \ {q} :
                 at'[r] = at[r] /\ at[r] # "search" /\ next'[r] = next[r] /\ seen'[r] = seen[r]
<1>1. at \in [Queries -> Points] /\ next \in [Queries -> Nat]
      /\ seen \in [Queries -> SUBSET (Files \X Files)]
  BY DEF TypeOK, Points
<1>2. /\ at[q] = "read" /\ next' = [next EXCEPT ![q] = After(q)]
      /\ seen' = [seen EXCEPT ![q] = seen'[q]]
      /\ at' = at \/ at' = [at EXCEPT ![q] = "search"]
  BY ReadMoves
<1>3. \A r \in Queries : at[r] # "search"
  BY DEF Read, Free
<1> QED
  BY <1>1, <1>2, <1>3

LEMMA ReadStep ==
    ASSUME TypeOK, PhaseInv, NEW q \in Queries, Read(q)
    PROVE  TypeOK' /\ PhaseInv'
<1>1. Asked(q) /\ visited[q] = {} /\ at[q] = "read" /\ edges \subseteq edges'
  BY ReadMoves
<1>2. After(q) \in Nat /\ After(q) \in 1 .. Len(files[q]) /\ files[q][1] \in Files
  BY <1>1, AskedTypes
<1>3. pending' \in [Queries -> Seq(Item)]
  <2>1. <<>> \in Seq(Item)
    BY EmptySeq
  <2>2. [file |-> files[q][1], depth |-> 0] \in Item
    BY <1>2, DepthAssumption DEF Item
  <2>3. <<[file |-> files[q][1], depth |-> 0]>> \in Seq(Item)
    BY <2>2
  <2>4. pending \in [Queries -> Seq(Item)]
    BY DEF TypeOK, Item
  <2> QED
    BY <2>1, <2>3, <2>4, ReadMoves
<1>4. at' \in [Queries -> Points] /\ next' \in [Queries -> Nat]
  <2>1. at \in [Queries -> Points] /\ next \in [Queries -> Nat]
    BY DEF TypeOK, Points
  <2>2. next' = [next EXCEPT ![q] = After(q)]
        /\ (at' = at \/ at' = [at EXCEPT ![q] = "search"])
    BY ReadMoves
  <2>3. "search" \in Points
    BY DEF Points
  <2> HIDE DEF Points
  <2> QED
    BY <1>2, <2>1, <2>2, <2>3
<1>5. seen' \in [Queries -> SUBSET (Files \X Files)] /\ edges' \subseteq Files \X Files
  BY ReadMoves DEF TypeOK
<1>6. UNCHANGED <<imports, edits, kind, files, visited, result>>
  BY ReadMoves
<1>7. TypeOK'
  BY <1>3, <1>4, <1>5, <1>6 DEF TypeOK, Points, Item
<1>8. ASSUME NEW r \in Queries PROVE Phase(r)'
  <2>1. CASE r = q
    <3>1. next'[q] = After(q) /\ at'[q] \in {"read", "search"}
      BY ReadOthers
    <3>2. seen'[q] \subseteq edges' /\ \A e \in seen'[q] : e[1] \in Range(files[q])
      BY ReadMoves
    <3>3. Asked(q)'
      BY <1>1, <1>2, <1>6, <3>1 DEF Asked
    <3>4. visited'[q] = {} /\ seen'[q] \subseteq edges'
      BY <1>1, <1>6, <3>2
    <3> HIDE DEF Asked
    <3> QED
      BY <1>6, <2>1, <3>1, <3>2, <3>3, <3>4 DEF Phase
  <2>2. CASE r # q
    <3>1. next'[r] = next[r] /\ at'[r] = at[r] /\ seen'[r] = seen[r]
      BY <2>2, ReadOthers
    <3> QED
      BY <1>1, <1>6, <3>1 DEF PhaseInv, Phase, Asked
  <2> QED
    BY <2>1, <2>2
<1>9. \A r, s \in Queries : at'[r] = "search" /\ at'[s] = "search" => r = s
  BY ReadOthers
<1> QED
  BY <1>7, <1>8, <1>9 DEF PhaseInv

LEMMA VisitStep ==
    ASSUME TypeOK, PhaseInv, NEW q \in Queries, Visit(q)
    PROVE  TypeOK' /\ PhaseInv'
<1>1. /\ UNCHANGED <<imports, edits, edges, kind, files, at, next, result, seen>>
      /\ pending' = [pending EXCEPT ![q] = pending'[q]]
      /\ visited' = [visited EXCEPT ![q] = visited'[q]]
      /\ at[q] = "search" /\ pending[q] \in Seq(Item) /\ pending[q] # <<>>
  BY VisitMoves DEF tree, query
<1>2. Head(pending[q]) \in Item /\ Tail(pending[q]) \in Seq(Item)
  BY <1>1, HeadTailRange
<1>3. pending'[q] \in Seq(Item)
  <2>1. \A t \in Seq(Item) : Joined(q, Tail(pending[q]), t) \in Seq(Item)
    BY <1>2, JoinedType
  <2>2. \/ pending'[q] = Tail(pending[q])
        \/ \E t \in Seq(Item) : pending'[q] = Joined(q, Tail(pending[q]), t)
    BY VisitMoves
  <2> QED
    BY <1>2, <2>1, <2>2
<1>4. visited'[q] \in SUBSET Files
  <2>1. Head(pending[q]).file \in Files /\ visited[q] \in SUBSET Files
    BY <1>2 DEF Item, TypeOK
  <2> QED
    BY <2>1, VisitMoves
<1>5. pending' \in [Queries -> Seq(Item)] /\ visited' \in [Queries -> SUBSET Files]
  BY <1>1, <1>3, <1>4 DEF TypeOK, Item
<1>6. TypeOK'
  BY <1>1, <1>5 DEF TypeOK, Item
<1>7. ASSUME NEW r \in Queries PROVE Phase(r)'
  BY <1>1 DEF PhaseInv, Phase, Asked, TypeOK
<1> QED
  BY <1>1, <1>6, <1>7 DEF PhaseInv

LEMMA CollectMoves ==
    ASSUME TypeOK, PhaseInv, NEW q \in Queries, Collect(q)
    PROVE  /\ at[q] = "search" /\ pending[q] = <<>> /\ Asked(q)
           /\ result' = [result EXCEPT ![q] = Collected(q)] /\ Collected(q) \in SUBSET Files
           /\ next' = [next EXCEPT ![q] = After(q)]
           /\ UNCHANGED <<imports, edits, edges, kind, files, seen>>
           /\ \/ /\ next[q] < Len(files[q]) /\ at' = at
                 /\ After(q) = next[q] + 1 /\ files[q][next[q] + 1] \in Files
                 /\ pending' = [pending EXCEPT ![q] = <<[file |-> files[q][next[q] + 1], depth |-> 0]>>]
                 /\ visited' = [visited EXCEPT ![q] = IF kind[q] = "radius" THEN {} ELSE @]
              \/ /\ next[q] = Len(files[q]) /\ at' = [at EXCEPT ![q] = "done"]
                 /\ UNCHANGED <<pending, visited>>
<1>1. at[q] = "search" /\ pending[q] = <<>> /\ Asked(q)
  BY DEF Collect, PhaseInv, Phase
<1>2. Len(files[q]) \in Nat /\ next[q] \in 1 .. Len(files[q]) /\ From(q) \in Files
  BY <1>1, AskedTypes DEF Asked
<1>3. Collected(q) \in SUBSET Files
  BY <1>2 DEF Collected, TypeOK
<1>4. CASE next[q] < Len(files[q])
  <2>1. next[q] + 1 \in 1 .. Len(files[q])
    BY <1>2, <1>4
  <2>2. files[q][next[q] + 1] \in Files
    BY <1>1, <2>1, ElementOfSeq DEF Asked
  <2> QED
    BY <1>1, <1>3, <1>4, <2>2 DEF Collect, After, tree, query
<1>5. CASE ~(next[q] < Len(files[q]))
  <2>1. next[q] = Len(files[q])
    BY <1>2, <1>5
  <2> QED
    BY <1>1, <1>3, <1>5, <2>1 DEF Collect, tree, query
<1> QED
  BY <1>4, <1>5

LEMMA CollectOthers ==
    ASSUME TypeOK, PhaseInv, NEW q \in Queries, Collect(q)
    PROVE  /\ next'[q] = After(q) /\ at'[q] \in {"search", "done"} /\ result'[q] = Collected(q)
           /\ \A r \in Queries \ {q} : /\ at'[r] = at[r] /\ at[r] # "search" /\ next'[r] = next[r]
                                       /\ visited'[r] = visited[r] /\ result'[r] = result[r]
<1>1. /\ at \in [Queries -> Points] /\ next \in [Queries -> Nat]
      /\ visited \in [Queries -> SUBSET Files] /\ result \in [Queries -> SUBSET Files]
  BY DEF TypeOK, Points
<1>2. /\ at[q] = "search" /\ next' = [next EXCEPT ![q] = After(q)]
      /\ result' = [result EXCEPT ![q] = Collected(q)]
      /\ at' = at \/ at' = [at EXCEPT ![q] = "done"]
  BY CollectMoves
<1>3. visited' = visited \/ visited' = [visited EXCEPT ![q] = IF kind[q] = "radius" THEN {} ELSE @]
  BY CollectMoves
<1>4. \A r \in Queries \ {q} : at[r] # "search"
  BY <1>2 DEF PhaseInv
<1> QED
  BY <1>1, <1>2, <1>3, <1>4

LEMMA CollectStep ==
    ASSUME TypeOK, PhaseInv, NEW q \in Queries, Collect(q)
    PROVE  TypeOK' /\ PhaseInv'
<1>1. /\ at[q] = "search" /\ Asked(q) /\ UNCHANGED <<imports, edits, edges, kind, files, seen>>
      /\ result' = [result EXCEPT ![q] = Collected(q)] /\ Collected(q) \in SUBSET Files
      /\ next' = [next EXCEPT ![q] = After(q)]
  BY CollectMoves
<1>2. After(q) \in 1 .. Len(files[q]) /\ After(q) \in Nat
  BY <1>1, AskedTypes
<1>3. pending' \in [Queries -> Seq(Item)] /\ visited' \in [Queries -> SUBSET Files]
      /\ at' \in [Queries -> Points]
  <2>1. pending \in [Queries -> Seq(Item)] /\ visited \in [Queries -> SUBSET Files]
        /\ at \in [Queries -> Points]
    BY DEF TypeOK, Item, Points
  <2>2. CASE at' = [at EXCEPT ![q] = "done"] /\ UNCHANGED <<pending, visited>>
    BY <2>1, <2>2 DEF Points
  <2>3. CASE /\ at' = at /\ files[q][next[q] + 1] \in Files
             /\ pending' = [pending EXCEPT ![q] = <<[file |-> files[q][next[q] + 1], depth |-> 0]>>]
             /\ visited' = [visited EXCEPT ![q] = IF kind[q] = "radius" THEN {} ELSE @]
    <3>1. [file |-> files[q][next[q] + 1], depth |-> 0] \in Item
      BY <2>3, DepthAssumption DEF Item
    <3>2. <<[file |-> files[q][next[q] + 1], depth |-> 0]>> \in Seq(Item)
      BY <3>1
    <3> QED
      BY <2>1, <2>3, <3>2
  <2> QED
    BY <2>2, <2>3, CollectMoves
<1>4. result' \in [Queries -> SUBSET Files] /\ next' \in [Queries -> Nat]
  BY <1>1, <1>2 DEF TypeOK
<1>5. TypeOK'
  BY <1>1, <1>3, <1>4 DEF TypeOK, Item, Points
<1>6. at'[q] \in {"search", "done"} /\ next'[q] = After(q)
  BY CollectOthers
<1>7. ASSUME NEW r \in Queries PROVE Phase(r)' /\ (at'[r] = "search" => at[r] = "search")
  <2>1. CASE r = q
    BY <1>1, <1>2, <1>6, <2>1 DEF PhaseInv, Phase, Asked
  <2>2. CASE r # q
    <3>1. at'[r] = at[r] /\ next'[r] = next[r] /\ visited'[r] = visited[r]
      BY <2>2, CollectOthers
    <3> QED
      BY <1>1, <3>1 DEF PhaseInv, Phase, Asked
  <2> QED
    BY <2>1, <2>2
<1> QED
  BY <1>5, <1>7 DEF PhaseInv

LEMMA PhaseStep == TypeOK /\ PhaseInv /\ [Next]_vars => TypeOK' /\ PhaseInv'
<1> SUFFICES ASSUME TypeOK, PhaseInv, [Next]_vars PROVE TypeOK' /\ PhaseInv'
  OBVIOUS
<1>1. CASE UNCHANGED vars
  BY <1>1 DEF vars, tree, query, TypeOK, PhaseInv, Phase, Asked
<1> QED
  BY <1>1, StartStep, EditStep, ReadStep, VisitStep, CollectStep DEF Next, Closed

\* Every variable keeps its type: no search leaves the files of the repository,
\* and none goes deeper than one hop beyond its limit.
THEOREM GraphTypeCorrect == Spec => []TypeOK
<1> QED
  BY InitPhase, PhaseStep, PTL DEF Spec

-----------------------------------------------------------------------------
\* What a search has found, and what a finished query answers.

Broad(q) == kind[q] = "radius"

Limit(q) == IF Broad(q) THEN Reach(edges, From(q), MaxDepth)
            ELSE UNION {Reach(edges, files[q][i], MaxDepth) : i \in DOMAIN files[q]}

\* The file and what it has edges to.
Near(E, f) == {f} \cup Targets(E, {f})

\* Every item waits no nearer than it is, nothing beyond the limit was visited, and
\* the radius misses nothing so far.
Searching(q) == at[q] = "search" =>
    /\ \A x \in Range(pending[q]) : x.file \in Reach(edges, From(q), x.depth)
    /\ visited[q] \subseteq Limit(q)
    /\ Broad(q) => /\ Sorted(pending[q]) /\ Complete(edges, From(q), pending[q], visited[q])
                   /\ \A i \in 1 .. next[q] - 1 : Near(edges, files[q][i]) \subseteq result[q]

Answered(q) == at[q] = "done" /\ Broad(q) =>
    {e[2] : e \in seen[q]} \subseteq result[q] /\ Range(files[q]) \subseteq result[q]

SearchInv == \A q \in Queries : Searching(q) /\ Answered(q)

\* Where a search begins.
LEMMA Begins ==
    ASSUME NEW E, NEW f \in Files, NEW p, p = <<[file |-> f, depth |-> 0]>>
    PROVE  /\ \A x \in Range(p) : x.file \in Reach(E, f, x.depth)
           /\ Sorted(p) /\ Complete(E, f, p, {})
<1> DEFINE x0 == [file |-> f, depth |-> 0]
<1>1. p \in Seq({x0}) /\ Len(p) = 1 /\ p[1] = x0 /\ Head(p) = x0 /\ p # <<>>
  OBVIOUS
<1>2. Range(p) = {x0} /\ x0.file = f /\ x0.depth = 0
  <2>1. Range(p) = {p[i] : i \in DOMAIN p} /\ DOMAIN p = 1 .. 1
    BY DEF Range
  <2> QED
    BY <1>1, <2>1
<1>3. Sorted(p)
  BY <1>1 DEF Sorted
<1>4. Reach(E, f, 0) = {f}
  BY ReachStep
<1>5. Complete(E, f, p, {})
  <2>1. ~(Head(p).depth > MaxDepth) /\ Head(p).depth = 0
    BY <1>1, DepthAssumption
  <2>2. f \in WaitsAt(p, 0)
    BY <1>2 DEF WaitsAt
  <2>3. Targets(E, {}) = {}
    BY DEF Targets
  <2> QED
    BY <1>1, <1>4, <2>1, <2>2, <2>3 DEF Complete
<1> QED
  BY <1>2, <1>3, <1>4, <1>5

\* A step that only starts, edits or reads leaves the finished ones alone.
LEMMA AnsweredStays ==
    ASSUME TypeOK, SearchInv, NEW q \in Queries, at'[q] = "done" => at[q] = "done",
           at[q] = "done" => /\ kind'[q] = kind[q] /\ files'[q] = files[q]
                             /\ seen'[q] = seen[q] /\ result'[q] = result[q]
    PROVE  Answered(q)'
  BY DEF SearchInv, Answered, Broad

LEMMA InitSearch == Init => SearchInv
  BY DEF Init, SearchInv, Searching, Answered

LEMMA SearchStart ==
    ASSUME TypeOK, PhaseInv, SearchInv, NEW q \in Queries, Start(q)
    PROVE  SearchInv'
<1>1. /\ at[q] = "idle" /\ at' = [at EXCEPT ![q] = "read"] /\ UNCHANGED <<seen, result>>
      /\ \E k \in Kinds : kind' = [kind EXCEPT ![q] = k]
      /\ \E fs \in Requests : files' = [files EXCEPT ![q] = fs]
      /\ \A r \in Queries : at[r] # "search"
  BY DEF Start, Free
<1>2. ASSUME NEW r \in Queries PROVE Searching(r)' /\ Answered(r)'
  <2>1. at'[r] # "search" /\ (at'[r] = "done" => at[r] = "done" /\ r # q)
    BY <1>1 DEF TypeOK
  <2>2. r # q => kind'[r] = kind[r] /\ files'[r] = files[r]
    BY <1>1 DEF TypeOK
  <2> QED
    BY <1>1, <2>1, <2>2, AnsweredStays DEF Searching
<1> QED
  BY <1>2 DEF SearchInv

LEMMA SearchEdit ==
    ASSUME TypeOK, PhaseInv, SearchInv, Edit
    PROVE  SearchInv'
<1>1. UNCHANGED <<kind, files, at, seen, result>> /\ \A r \in Queries : at[r] # "search"
  BY DEF Edit, Free, query
<1> QED
  BY <1>1, AnsweredStays DEF SearchInv, Searching

LEMMA SearchRead ==
    ASSUME TypeOK, PhaseInv, SearchInv, NEW q \in Queries, Read(q)
    PROVE  SearchInv'
<1>1. Asked(q) /\ visited[q] = {} /\ at[q] = "read" /\ UNCHANGED <<kind, files, visited, result>>
  BY ReadMoves
<1>2. files[q][1] \in Files
  BY <1>1, AskedTypes
<1>3. ASSUME NEW r \in Queries PROVE Answered(r)'
  <2>1. at'[r] = "done" => at[r] = "done" /\ r # q
    BY ReadOthers
  <2>2. at[r] = "done" => seen'[r] = seen[r]
    BY <1>1, ReadOthers
  <2> QED
    BY <1>1, <2>1, <2>2, AnsweredStays
<1>4. ASSUME NEW r \in Queries, at'[r] = "search" PROVE Searching(r)'
  <2>1. r = q
    BY <1>4, ReadOthers
  <2>2. After(q) = 1 /\ pending' = [pending EXCEPT ![q] = <<[file |-> files[q][1], depth |-> 0]>>]
    <3>1. at' # at
      BY <1>1, <1>4, <2>1
    <3> QED
      BY <3>1, ReadMoves
  <2>3. pending'[q] = <<[file |-> files[q][1], depth |-> 0]>>
    BY <2>2 DEF TypeOK
  <2>4. From(q)' = files[q][1] /\ next'[q] = 1
    BY <1>1, <2>2, ReadOthers DEF From
  <2>5. /\ \A x \in Range(pending'[q]) : x.file \in Reach(edges', From(q)', x.depth)
        /\ Sorted(pending'[q]) /\ Complete(edges', From(q)', pending'[q], {})
    BY <1>2, <2>3, <2>4, Begins
  <2>6. visited'[q] = {} /\ \A i \in 1 .. next'[q] - 1 : FALSE
    BY <1>1, <2>4
  <2>7. Searching(q)'
    BY <2>5, <2>6 DEF Searching
  <2> QED
    BY <2>1, <2>7
<1>5. ASSUME NEW r \in Queries PROVE Searching(r)'
  BY <1>4 DEF Searching
<1> QED
  BY <1>3, <1>5 DEF SearchInv

LEMMA SearchVisit ==
    ASSUME TypeOK, PhaseInv, SearchInv, NEW q \in Queries, Visit(q)
    PROVE  SearchInv'
<1> DEFINE p == pending[q]
           x == Head(p)
           f == From(q)
<1>1. /\ at[q] = "search" /\ p \in Seq(Item) /\ p # <<>>
      /\ UNCHANGED <<edges, kind, files, at, next, result, seen>>
  BY VisitMoves DEF query
<1>2. x \in Item /\ Tail(p) \in Seq(Item) /\ Range(p) = {x} \cup Range(Tail(p))
  BY <1>1, HeadTailRange
<1>3. x.depth \in 0 .. MaxDepth + 1 /\ MaxDepth \in Nat
  BY <1>2, DepthAssumption DEF Item
<1>4. From(q)' = f /\ Limit(q)' = Limit(q)
  BY <1>1 DEF From, Limit, Broad
<1>5. /\ \A y \in Range(p) : y.file \in Reach(edges, f, y.depth)
      /\ visited[q] \subseteq Limit(q)
      /\ Broad(q) => /\ Sorted(p) /\ Complete(edges, f, p, visited[q])
                     /\ \A i \in 1 .. next[q] - 1 : Near(edges, files[q][i]) \subseteq result[q]
  BY <1>1 DEF SearchInv, Searching
<1>6. \/ /\ x.file \in visited[q] \/ x.depth > MaxDepth
         /\ pending'[q] = Tail(p) /\ visited'[q] = visited[q]
      \/ /\ x.depth <= MaxDepth /\ visited'[q] = visited[q] \cup {x.file}
         /\ \E t \in Seq(Item) : pending'[q] = Joined(q, Tail(p), t) /\ Range(t) = Found(x)
  BY VisitMoves
<1>7. Asked(q) /\ f \in Files
  BY <1>1, AskedTypes DEF PhaseInv, Phase
<1>join. \A t \in Seq(Item) : /\ Joined(q, Tail(p), t) \in Seq(Item)
                             /\ Range(Joined(q, Tail(p), t)) = Range(Tail(p)) \cup Range(t)
  <2> DEFINE rest == Tail(p)
  <2>1. rest \in Seq(Item)
    BY <1>2
  <2> HIDE DEF rest
  <2>2. \A t \in Seq(Item) : /\ Joined(q, rest, t) \in Seq(Item)
                              /\ Range(Joined(q, rest, t)) = Range(rest) \cup Range(t)
    BY <2>1, JoinedType
  <2> QED
    BY <2>2 DEF rest
<1> HIDE DEF p, x, f
<1>8. visited'[q] \subseteq Limit(q)
  <2>1. CASE visited'[q] = visited[q]
    BY <1>5, <2>1
  <2>2. CASE x.depth <= MaxDepth /\ visited'[q] = visited[q] \cup {x.file}
    <3>1. x.file \in Reach(edges, f, MaxDepth)
      BY <1>2, <1>3, <1>5, <2>2, ReachMonotonic
    <3>2. Reach(edges, f, MaxDepth) \subseteq Limit(q)
      <4>1. CASE Broad(q)
        BY <4>1 DEF Limit, f
      <4>2. CASE ~Broad(q)
        <5>1. next[q] \in DOMAIN files[q] /\ f = files[q][next[q]]
          BY <1>7, AskedTypes DEF From, f
        <5> QED
          BY <4>2, <5>1 DEF Limit
      <4> QED
        BY <4>1, <4>2
    <3> QED
      BY <1>5, <2>2, <3>1, <3>2
  <2> QED
    BY <1>6, <2>1, <2>2
<1>9. \A y \in Range(pending'[q]) : y.file \in Reach(edges, f, y.depth)
  <2>1. CASE pending'[q] = Tail(p)
    BY <1>2, <1>5, <2>1
  <2>2. ASSUME NEW t \in Seq(Item), pending'[q] = Joined(q, Tail(p), t), Range(t) = Found(x)
        PROVE  \A y \in Range(pending'[q]) : y.file \in Reach(edges, f, y.depth)
    <3>1. Range(pending'[q]) = Range(Tail(p)) \cup Found(x)
      BY <1>join, <2>2
    <3>2. ASSUME NEW g \in Neighbours(x.file) PROVE g \in Reach(edges, f, x.depth + 1)
      <4>1. g \in Targets(edges, {x.file})
        BY <3>2, NeighbourTypes
      <4>2. x.file \in Reach(edges, f, x.depth) /\ x.depth \in Nat
        BY <1>2, <1>3, <1>5
      <4>3. Targets(edges, {x.file}) \subseteq Targets(edges, Reach(edges, f, x.depth))
        BY <4>2 DEF Targets
      <4>4. Reach(edges, f, x.depth + 1) = Grown(edges, Reach(edges, f, x.depth))
        <5>1. \A n \in Nat : Reach(edges, f, n + 1) = Grown(edges, Reach(edges, f, n))
          BY ReachStep
        <5> QED
          BY <4>2, <5>1
      <4> QED
        BY <4>1, <4>3, <4>4 DEF Grown
    <3>3. \A y \in Found(x) : y.file \in Reach(edges, f, y.depth)
      BY <3>2 DEF Found
    <3> QED
      BY <1>2, <1>5, <3>1, <3>3
  <2> QED
    BY <1>6, <2>1, <2>2
<1>10. ASSUME Broad(q)
       PROVE  Sorted(pending'[q]) /\ Complete(edges, f, pending'[q], visited'[q])
  <2>1. Sorted(p) /\ Complete(edges, f, p, visited[q])
    BY <1>5, <1>10
  <2>2. \A t \in Seq(Item) : Joined(q, Tail(p), t) = Tail(p) \o t
    BY <1>10 DEF Joined, Broad
  <2>3. pending'[q] \in Seq(Item)
    BY <1>2, <1>6, <1>join
  <2>4. ASSUME NEW t \in Seq(Item), Range(t) = Found(x), x.depth <= MaxDepth
        PROVE  /\ \A y \in Range(t) : y.depth = x.depth + 1
               /\ Targets(edges, {x.file}) \subseteq Waits(t)
    <3>1. \A y \in Range(t) : y.depth = x.depth + 1
      BY <2>4 DEF Found
    <3>2. Waits(t) = Neighbours(x.file)
      BY <1>2, <2>4, FoundListed DEF Waits
    <3> QED
      BY <3>1, <3>2, NeighbourTypes
  <2>5. CASE (x.file \in visited[q] \/ x.depth > MaxDepth)
             /\ pending'[q] = Tail(p) /\ visited'[q] = visited[q]
    BY <1>1, <2>1, <2>3, <2>5, BroadStep DEF x, p
  <2>6. ASSUME x.depth <= MaxDepth, visited'[q] = visited[q] \cup {x.file},
               NEW t \in Seq(Item), pending'[q] = Joined(q, Tail(p), t), Range(t) = Found(x)
        PROVE  Sorted(pending'[q]) /\ Complete(edges, f, pending'[q], visited'[q])
    <3>1. pending'[q] = Tail(p) \o t
      BY <2>2, <2>6
    <3>2. /\ \A y \in Range(t) : y.depth = x.depth + 1
          /\ Targets(edges, {x.file}) \subseteq Waits(t)
      BY <2>4, <2>6
    <3> QED
      BY <1>1, <2>1, <2>3, <2>6, <3>1, <3>2, BroadStep DEF x, p
  <2> QED
    BY <1>6, <2>5, <2>6
<1>11. Searching(q)'
  BY <1>1, <1>4, <1>5, <1>8, <1>9, <1>10 DEF Searching, Broad
<1>12. ASSUME NEW r \in Queries PROVE Searching(r)' /\ Answered(r)'
  <2>1. r # q => at'[r] # "search"
    BY <1>1 DEF PhaseInv
  <2>2. Answered(r)'
    BY <1>1, AnsweredStays
  <2> QED
    BY <1>11, <2>1, <2>2 DEF Searching
<1> QED
  BY <1>12 DEF SearchInv

LEMMA SearchCollect ==
    ASSUME TypeOK, PhaseInv, SearchInv, NEW q \in Queries, Collect(q)
    PROVE  SearchInv'
<1> DEFINE f == From(q)
<1>1. /\ at[q] = "search" /\ pending[q] = <<>> /\ Asked(q)
      /\ UNCHANGED <<edges, kind, files, seen>>
  BY CollectMoves
<1>2. /\ visited[q] \subseteq Limit(q)
      /\ Broad(q) => /\ Complete(edges, f, <<>>, visited[q])
                     /\ \A i \in 1 .. next[q] - 1 : Near(edges, files[q][i]) \subseteq result[q]
  BY <1>1 DEF SearchInv, Searching
<1>3. next[q] \in 1 .. Len(files[q]) /\ Len(files[q]) \in Nat /\ files[q][next[q]] = f
      /\ Range(files[q]) = {files[q][i] : i \in 1 .. Len(files[q])}
  BY <1>1, AskedTypes, RangeEquality DEF Asked, From
<1>4. next'[q] = After(q) /\ result'[q] = Collected(q) /\ at'[q] \in {"search", "done"}
  BY CollectOthers
<1>5. result[q] \cup visited[q] \subseteq Collected(q) /\ (Broad(q) => f \in Collected(q))
  BY DEF Collected, Broad
<1>6. ASSUME Broad(q), NEW i \in 1 .. next[q] PROVE Near(edges, files[q][i]) \subseteq result'[q]
  <2>1. CASE i = next[q]
    <3>1. Reach(edges, f, MaxDepth) \subseteq visited[q]
      BY <1>2, <1>6 DEF Complete
    <3>2. Reach(edges, f, 1) \subseteq Reach(edges, f, MaxDepth)
      BY DepthAssumption, ReachMonotonic
    <3>3. Reach(edges, f, 1) = Grown(edges, {f})
      <4>1. Reach(edges, f, 0) = {f} /\ Reach(edges, f, 0 + 1) = Grown(edges, Reach(edges, f, 0))
        BY ReachStep
      <4> QED
        BY <4>1
    <3>4. Near(edges, f) = Reach(edges, f, 1)
      BY <3>3 DEF Near, Grown
    <3> QED
      BY <1>3, <1>4, <1>5, <2>1, <3>1, <3>2, <3>4
  <2>2. CASE i # next[q]
    <3>1. i \in 1 .. next[q] - 1
      BY <1>3, <2>2
    <3> QED
      BY <1>2, <1>4, <1>5, <1>6, <3>1
  <2> QED
    BY <2>1, <2>2
<1>others. ASSUME Searching(q)', Answered(q)' PROVE SearchInv'
  <2> SUFFICES ASSUME NEW r \in Queries \ {q} PROVE Searching(r)' /\ Answered(r)'
    BY <1>others DEF SearchInv
  <2>1. at'[r] = at[r] /\ at[r] # "search" /\ result'[r] = result[r]
    BY CollectOthers
  <2> QED
    BY <1>1, <2>1, AnsweredStays DEF Searching
<1>7. CASE /\ next[q] < Len(files[q]) /\ at' = at
           /\ After(q) = next[q] + 1 /\ files[q][next[q] + 1] \in Files
           /\ pending' = [pending EXCEPT ![q] = <<[file |-> files[q][next[q] + 1], depth |-> 0]>>]
           /\ visited' = [visited EXCEPT ![q] = IF kind[q] = "radius" THEN {} ELSE @]
  <2>1. pending'[q] = <<[file |-> files[q][next[q] + 1], depth |-> 0]>>
    BY <1>7 DEF TypeOK
  <2>2. visited'[q] = IF Broad(q) THEN {} ELSE visited[q]
    BY <1>7 DEF TypeOK, Broad
  <2>3. From(q)' = files[q][next[q] + 1] /\ Broad(q)' = Broad(q)
    BY <1>1, <1>4, <1>7 DEF From, Broad
  <2>4. /\ \A x \in Range(pending'[q]) : x.file \in Reach(edges', From(q)', x.depth)
        /\ Sorted(pending'[q]) /\ Complete(edges', From(q)', pending'[q], {})
    BY <1>7, <2>1, <2>3, Begins
  <2>5. visited'[q] \subseteq Limit(q)'
    <3>1. CASE Broad(q)
      BY <2>2, <3>1
    <3>2. CASE ~Broad(q)
      <4>1. Limit(q)' = Limit(q)
        BY <1>1, <2>3, <3>2 DEF Limit
      <4> QED
        BY <1>2, <2>2, <3>2, <4>1
    <3> QED
      BY <3>1, <3>2
  <2>6. Broad(q) => \A i \in 1 .. next'[q] - 1 : Near(edges', files'[q][i]) \subseteq result'[q]
    <3>1. next'[q] - 1 = next[q] /\ files'[q] = files[q]
      BY <1>1, <1>3, <1>4, <1>7
    <3> QED
      BY <1>1, <1>6, <3>1
  <2>7. Searching(q)'
    BY <2>2, <2>3, <2>4, <2>5, <2>6 DEF Searching
  <2>8. at'[q] # "done"
    BY <1>1, <1>7
  <2> QED
    BY <2>7, <2>8, <1>others DEF Answered
<1>8. CASE next[q] = Len(files[q]) /\ at' = [at EXCEPT ![q] = "done"] /\ UNCHANGED <<pending, visited>>
  <2>1. at'[q] = "done"
    BY <1>8 DEF TypeOK
  <2>2. ASSUME Broad(q) PROVE Range(files[q]) \subseteq result'[q]
    BY <1>3, <1>6, <1>8, <2>2 DEF Near
  <2>3. ASSUME Broad(q), NEW e \in seen[q] PROVE e[2] \in result'[q]
    <3>1. e \in edges /\ e[1] \in Range(files[q])
      BY <1>1 DEF PhaseInv, Phase
    <3>2. PICK i \in 1 .. next[q] : e[1] = files[q][i]
      BY <1>3, <1>8, <3>1
    <3>3. e[2] \in Near(edges, files[q][i])
      BY <3>1, <3>2 DEF Near, Targets
    <3> QED
      BY <1>6, <2>3, <3>3
  <2>4. Answered(q)'
    BY <1>1, <2>2, <2>3 DEF Answered, Broad
  <2> QED
    BY <2>1, <2>4, <1>others DEF Searching
<1> QED
  BY <1>7, <1>8, CollectMoves

LEMMA SearchStep == TypeOK /\ PhaseInv /\ SearchInv /\ [Next]_vars => SearchInv'
<1> SUFFICES ASSUME TypeOK, PhaseInv, SearchInv, [Next]_vars PROVE SearchInv'
  OBVIOUS
<1>1. CASE UNCHANGED vars
  <2>1. UNCHANGED <<edges, kind, files, at, next, pending, visited, result, seen>>
    BY <1>1 DEF vars, query
  <2> QED
    BY <2>1 DEF SearchInv, Searching, Answered, Limit, Broad, From, Near
<1> QED
  BY <1>1, SearchStart, SearchEdit, SearchRead, SearchVisit, SearchCollect DEF Next, Closed

-----------------------------------------------------------------------------
\* Whatever agents edit and others ask meanwhile, the search for the radius finds
\* exactly what is within MaxDepth hops of the file it starts from, and that of
\* the subgraph nothing beyond (analyze and collectDeps of code-graph).
THEOREM SearchStaysWithin == Spec => []SearchWithinDepth
<1>1. SearchInv => SearchWithinDepth
  <2> SUFFICES ASSUME SearchInv, NEW q \in Queries, at[q] = "search", pending[q] = <<>>
               PROVE  IF kind[q] = "radius" THEN visited[q] = Hops(From(q), MaxDepth)
                      ELSE visited[q] \subseteq UNION {Hops(files[q][i], MaxDepth) : i \in DOMAIN files[q]}
    BY DEF SearchWithinDepth
  <2>1. /\ visited[q] \subseteq Limit(q)
        /\ Broad(q) => Complete(edges, From(q), <<>>, visited[q])
    BY DEF SearchInv, Searching
  <2>2. CASE Broad(q)
    <3>1. visited[q] = Reach(edges, From(q), MaxDepth)
      BY <2>1, <2>2 DEF Complete, Limit
    <3> QED
      BY <2>2, <3>1, HopsReach DEF Broad
  <2>3. CASE ~Broad(q)
    BY <2>1, <2>3, HopsReach DEF Limit, Broad
  <2> QED
    BY <2>2, <2>3
<1> QED
  BY <1>1, InitPhase, PhaseStep, InitSearch, SearchStep, PTL DEF Spec

\* A finished radius holds what the changed files imported when the query read
\* them, and a changed test is among the selected (selectAffectedTests).
THEOREM RadiusCovers == Spec => []RadiusCoversRead
<1>1. SearchInv => RadiusCoversRead
  BY DEF SearchInv, Answered, Broad, RadiusCoversRead, SelectedTests
<1> QED
  BY <1>1, InitPhase, PhaseStep, InitSearch, SearchStep, PTL DEF Spec
=============================================================================
