---- MODULE ReportsProofs ----
EXTENDS Reports, FiniteSetTheorems, TLAPS

(***************************************************************************)
(* Proofs about the reports (internal/reporting, internal/activity and     *)
(* internal/workpolicy): for all stored facts, all times and all targets.  *)
(*                                                                         *)
(* Reports keep no state, so the inductive invariant is short: what was    *)
(* answered is computed from the facts that were asked about (IsAnswered). *)
(* The work lies in what the algorithms compute.  The sections follow them:*)
(*   1. Sorting and adding up.  Merging AFK events.  The prepared evidence.*)
(*   2. Between two boundaries nothing changes (ClassifyIsConstant), so the*)
(*      coalesced pieces are a timeline (IsTimeline): TimelineIsExact and  *)
(*      WorkHasFreshEvidence.                                              *)
(*   3. Time as a number of instants (Time), so that sums of segments are  *)
(*      cardinalities that split and join: TotalsAddUp, WeekIsOneTimeline. *)
(*   4. Leaving out what starts later (Embeds, Begins) does not change what*)
(*      is found at an instant (Settled), and a timeline is determined by  *)
(*      what its instants say (TimelineIsDetermined): PastIsSettled.       *)
(*   5. Work that goes on changes nothing before it (ContinuedBefore) and  *)
(*      is seen as work for as long as it goes on (ContinuedAfter):        *)
(*      EstimateIsReached.                                                 *)
(***************************************************************************)

(***************************************************************************)
(* Sequences, orders and sums.                                             *)
(***************************************************************************)

(* before is a strict total order on S.                                     *)
Orders(before, S) ==
  /\ \A x \in S : <<x, x>> \notin before
  /\ \A x, y \in S : x # y => <<x, y>> \in before \/ <<y, x>> \in before
  /\ \A x, y, z \in S : <<x, y>> \in before /\ <<y, z>> \in before => <<x, z>> \in before

(* InOrder lists a finite set without repetition, in an order that is total *)
(* on it.                                                                   *)
LEMMA InOrderFacts ==
  ASSUME NEW S, IsFiniteSet(S), NEW before, Orders(before, S)
  PROVE  /\ Cardinality(S) \in Nat
         /\ InOrder(S, before) \in [1 .. Cardinality(S) -> S]
         /\ \A x \in S : \E k \in 1 .. Cardinality(S) : InOrder(S, before)[k] = x
         /\ \A j, k \in 1 .. Cardinality(S) :
              j < k => <<InOrder(S, before)[j], InOrder(S, before)[k]>> \in before
<1>0. /\ \A x \in S : <<x, x>> \notin before
      /\ \A x, y \in S : x # y => <<x, y>> \in before \/ <<y, x>> \in before
      /\ \A x, y, z \in S : <<x, y>> \in before /\ <<y, z>> \in before => <<x, z>> \in before
  BY DEF Orders
<1> USE <1>0
<1> DEFINE n == Cardinality(S)
           below(x) == {y \in S : <<y, x>> \in before}
           rank == [x \in S |-> Cardinality(below(x))]
           q == InOrder(S, before)
<1>1. n \in Nat
  BY FS_CardinalityType
<1>2. \A x \in S : IsFiniteSet(below(x)) /\ Cardinality(below(x)) \in Nat
  <2>1. \A x \in S : below(x) \in SUBSET S
    OBVIOUS
  <2>2. QED
    BY <2>1, FS_Subset, FS_CardinalityType
<1>3. ASSUME NEW x \in S, NEW y \in S, <<x, y>> \in before
      PROVE  rank[x] < rank[y]
  <2>1. below(x) \in SUBSET below(y)
    BY <1>3
  <2>2. x \in below(y) /\ x \notin below(x)
    BY <1>3
  <2>3. Cardinality(below(x)) <= Cardinality(below(y)) /\ Cardinality(below(x)) # Cardinality(below(y))
    <3> HIDE DEF below
    <3>1. QED
      BY <1>2, <2>1, <2>2, FS_Subset
  <2>4. QED
    BY <1>2, <2>3
<1>4. \A x \in S : rank[x] \in 0 .. n - 1
  <2> TAKE x \in S
  <2>1. below(x) \in SUBSET S /\ x \notin below(x)
    OBVIOUS
  <2>2. Cardinality(below(x)) <= n /\ Cardinality(below(x)) # n
    <3> HIDE DEF below
    <3>1. QED
      BY <2>1, FS_Subset
  <2>3. QED
    BY <1>1, <1>2, <2>2
<1>5. rank \in Injection(S, 0 .. n - 1)
  <2>1. rank \in [S -> 0 .. n - 1]
    BY <1>4
  <2>2. \A x, y \in S : rank[x] \in Int /\ rank[y] \in Int
    BY <1>4
  <2>3. \A x, y \in S : x # y => rank[x] # rank[y]
    <3> TAKE x \in S, y \in S
    <3> HAVE x # y
    <3> HIDE DEF rank
    <3>1. CASE <<x, y>> \in before
      BY <1>3, <2>2, <3>1
    <3>2. CASE <<y, x>> \in before
      BY <1>3, <2>2, <3>2
    <3>3. QED
      BY <3>1, <3>2
  <2> HIDE DEF rank
  <2>4. QED
    BY <2>1, <2>3 DEF Injection, IsInjective
<1>6. rank \in Surjection(S, 0 .. n - 1)
  <2>1. IsFiniteSet(0 .. n - 1) /\ Cardinality(0 .. n - 1) = n
    <3> HIDE DEF n
    <3>1. n - 1 \in Int /\ (0 > n - 1 => n = 0)
      BY <1>1
    <3>2. QED
      BY <1>1, <3>1, FS_Interval
  <2>2. n = Cardinality(S)
    OBVIOUS
  <2> HIDE DEF rank, n
  <2>3. QED
    BY <1>5, <2>1, <2>2, FS_Injection
<1>7. \A k \in 1 .. n : \E x \in S : rank[x] = k - 1
  <2> HIDE DEF rank, n
  <2>1. \A k \in 1 .. n : k - 1 \in 0 .. n - 1
    BY <1>1
  <2>2. QED
    BY <1>6, <2>1 DEF Surjection
<1>8. \A k \in 1 .. n : q[k] \in S /\ rank[q[k]] = k - 1
  <2> TAKE k \in 1 .. n
  <2> DEFINE places == {<<Cardinality({y \in S : <<y, x>> \in before}) + 1, x>> : x \in S}
  <2>1. ASSUME NEW x \in S
        PROVE  <<k, x>> \in places <=> rank[x] = k - 1
    <3>1. ASSUME k = Cardinality(below(x)) + 1
          PROVE  <<k, x>> \in places
      BY <3>1
    <3>2. ASSUME <<k, x>> \in places
          PROVE  k = Cardinality(below(x)) + 1
      <4>1. PICK z \in S : <<k, x>> = <<Cardinality({y \in S : <<y, z>> \in before}) + 1, z>>
        BY <3>2
      <4>2. z = x /\ k = Cardinality({y \in S : <<y, z>> \in before}) + 1
        BY <4>1
      <4>3. QED
        BY <4>2
    <3>3. k = Cardinality(below(x)) + 1 <=> rank[x] = k - 1
      BY <1>1, <1>2
    <3>4. QED
      BY <3>1, <3>2, <3>3
  <2>2. q[k] = CHOOSE x \in S : <<k, x>> \in places
    BY DEF InOrder
  <2>3. PICK x \in S : rank[x] = k - 1
    BY <1>7
  <2> HIDE DEF rank, q, n, places
  <2>4. QED
    BY <2>1, <2>2, <2>3
<1>9. q \in [1 .. n -> S]
  <2> DEFINE places == {<<Cardinality({y \in S : <<y, x>> \in before}) + 1, x>> : x \in S}
             c(k) == CHOOSE x \in S : <<k, x>> \in places
  <2>1. q = [k \in 1 .. n |-> c(k)]
    BY DEF InOrder
  <2>2. \A k \in 1 .. n : c(k) \in S
    BY ZenonT(30), <1>8, <2>1
  <2> HIDE DEF q, c, n
  <2>3. QED
    BY <2>1, <2>2
<1>10. \A x \in S : \E k \in 1 .. n : q[k] = x
  <2> TAKE x \in S
  <2>1. rank[x] + 1 \in 1 .. n
    BY <1>1, <1>4
  <2>2. rank[q[rank[x] + 1]] = rank[x] /\ q[rank[x] + 1] \in S
    <3> HIDE DEF rank, q
    <3>1. QED
      BY <1>1, <1>4, <1>8, <2>1
  <2>3. q[rank[x] + 1] = x
    <3> HIDE DEF rank, q
    <3>1. QED
      BY <1>5, <2>2 DEF Injection, IsInjective
  <2>4. QED
    BY <2>1, <2>3
<1>11. \A j, k \in 1 .. n : j < k => <<q[j], q[k]>> \in before
  <2> TAKE j \in 1 .. n, k \in 1 .. n
  <2> HAVE j < k
  <2> HIDE DEF rank, q
  <2>1. rank[q[j]] = j - 1 /\ rank[q[k]] = k - 1 /\ q[j] \in S /\ q[k] \in S
    BY <1>8
  <2>2. q[j] # q[k]
    BY <1>1, <2>1
  <2>3. ~(<<q[k], q[j]>> \in before)
    <3>1. ASSUME <<q[k], q[j]>> \in before
          PROVE  FALSE
      <4>1. rank[q[k]] < rank[q[j]]
        BY <1>3, <2>1, <3>1
      <4>2. QED
        BY <1>1, <2>1, <4>1
    <3>2. QED
      BY <3>1
  <2>4. QED
    BY <2>1, <2>2, <2>3
<1>12. QED
  BY <1>1, <1>9, <1>10, <1>11

(* Ascending lists a finite set of numbers from the least to the greatest.  *)
LEMMA AscendingFacts ==
  ASSUME NEW S, S \subseteq Int, IsFiniteSet(S)
  PROVE  /\ Cardinality(S) \in Nat
         /\ Ascending(S) \in [1 .. Cardinality(S) -> S]
         /\ Len(Ascending(S)) = Cardinality(S)
         /\ \A x \in S : \E k \in 1 .. Cardinality(S) : Ascending(S)[k] = x
         /\ \A j, k \in 1 .. Cardinality(S) : j < k => Ascending(S)[j] < Ascending(S)[k]
<1> DEFINE before == {p \in S \X S : p[1] < p[2]}
<1>1. \A x, y \in S : <<x, y>> \in before <=> x < y
  OBVIOUS
<1>2. Orders(before, S)
  <2> HIDE DEF before
  <2>1. QED
    BY <1>1 DEF Orders
<1>3. Ascending(S) = InOrder(S, before)
  BY DEF Ascending
<1> HIDE DEF before
<1>4. /\ Cardinality(S) \in Nat
      /\ InOrder(S, before) \in [1 .. Cardinality(S) -> S]
      /\ \A x \in S : \E k \in 1 .. Cardinality(S) : InOrder(S, before)[k] = x
      /\ \A j, k \in 1 .. Cardinality(S) :
           j < k => <<InOrder(S, before)[j], InOrder(S, before)[k]>> \in before
  BY <1>2, InOrderFacts
<1>5. \A j, k \in 1 .. Cardinality(S) : j < k => Ascending(S)[j] < Ascending(S)[k]
  BY <1>1, <1>3, <1>4
<1>6. Len(Ascending(S)) = Cardinality(S)
  BY <1>3, <1>4
<1>7. QED
  BY <1>3, <1>4, <1>5, <1>6

(* Arranged permutes a sequence: every element keeps one place, in the      *)
(* order given.                                                             *)
LEMMA ArrangedFacts ==
  ASSUME NEW s, NEW n \in Nat, DOMAIN s = 1 .. n, NEW before, Orders(before, 1 .. n)
  PROVE  \E p \in [1 .. n -> 1 .. n] :
           /\ DOMAIN Arranged(s, before) = 1 .. n /\ Len(Arranged(s, before)) = n
           /\ \A k \in 1 .. n : Arranged(s, before)[k] = s[p[k]]
           /\ \A i \in 1 .. n : \E k \in 1 .. n : p[k] = i
           /\ \A j, k \in 1 .. n : j < k => <<p[j], p[k]>> \in before
<1> DEFINE p == InOrder(1 .. n, before)
<1>1. IsFiniteSet(1 .. n) /\ Cardinality(1 .. n) = n
  BY FS_Interval
<1>2. /\ p \in [1 .. n -> 1 .. n]
      /\ \A i \in 1 .. n : \E k \in 1 .. n : p[k] = i
      /\ \A j, k \in 1 .. n : j < k => <<p[j], p[k]>> \in before
  <2> DEFINE S == 1 .. n
  <2>1. IsFiniteSet(S) /\ Cardinality(S) = n /\ S = 1 .. n /\ Orders(before, S)
    BY <1>1
  <2> HIDE DEF S
  <2>2. /\ InOrder(S, before) \in [1 .. Cardinality(S) -> S]
        /\ \A x \in S : \E k \in 1 .. Cardinality(S) : InOrder(S, before)[k] = x
        /\ \A j, k \in 1 .. Cardinality(S) :
             j < k => <<InOrder(S, before)[j], InOrder(S, before)[k]>> \in before
    BY <2>1, InOrderFacts
  <2>3. QED
    BY <2>1, <2>2
<1>3. /\ DOMAIN Arranged(s, before) = 1 .. n /\ Len(Arranged(s, before)) = n
      /\ \A k \in 1 .. n : Arranged(s, before)[k] = s[p[k]]
  <2>1. DOMAIN p = 1 .. n
    BY <1>2
  <2>2. QED
    BY <2>1 DEF Arranged
<1> HIDE DEF p
<1>4. QED
  BY <1>2, <1>3

(* A nonempty set of naturals has a least one.                              *)
LEMMA NatMin ==
  ASSUME NEW S, S \subseteq Nat, S # {}
  PROVE  \E n \in S : \A m \in S : n <= m
<1> DEFINE R == OpToRel(<, Nat)
<1>1. IsWellFoundedOn(R, Nat)
  BY NatLessThanWellFounded
<1>2. \A x, y \in Nat : <<x, y>> \in R <=> x < y
  BY DEF OpToRel
<1> HIDE DEF R
<1>3. PICK n \in S : \A m \in S : ~(<<m, n>> \in R)
  BY <1>1, WFMin
<1>4. \A m \in S : ~(m < n)
  <2> TAKE m \in S
  <2>1. m \in Nat /\ n \in Nat
    OBVIOUS
  <2>2. QED
    BY <1>2, <1>3, <2>1
<1>5. QED
  BY <1>4

(* SumOf adds up element after element.                                     *)
LEMMA SumDef ==
  ASSUME NEW s, NEW n \in Nat, Len(s) = n, \A i \in 1 .. n : s[i] \in Int
  PROVE  \E f \in [0 .. n -> Int] :
           /\ SumOf(s) = f[n]
           /\ f[0] = 0
           /\ \A i \in 1 .. n : f[i] = f[i - 1] + s[i]
<1> DEFINE Good(m, f) == /\ f \in [0 .. m -> Int]
                         /\ f[0] = 0
                         /\ \A i \in 1 .. m : f[i] = f[i - 1] + s[i]
           bad == {m \in 0 .. n : ~ \E f : Good(m, f)}
<1>1. bad = {}
  <2> SUFFICES ASSUME bad # {}
               PROVE  FALSE
    OBVIOUS
  <2>1. bad \subseteq Nat
    OBVIOUS
  <2>2. PICK m \in bad : \A k \in bad : m <= k
    <3> HIDE DEF bad
    <3>1. QED
      BY <2>1, NatMin
  <2>3. m \in 0 .. n /\ ~ \E f : Good(m, f)
    BY <2>2
  <2>4. \A k \in 0 .. m - 1 : \E f : Good(k, f)
    <3> TAKE k \in 0 .. m - 1
    <3>1. k \in 0 .. n /\ k \notin bad
      <4> HIDE DEF bad
      <4>1. QED
        BY <2>2, <2>3
    <3> HIDE DEF Good
    <3>2. QED
      BY <3>1
  <2>5. CASE m = 0
    <3>1. Good(0, [i \in 0 .. 0 |-> 0])
      OBVIOUS
    <3> HIDE DEF Good
    <3>2. QED
      BY <2>3, <2>5, <3>1
  <2>6. CASE m # 0
    <3>1. m - 1 \in 0 .. m - 1 /\ m \in Nat /\ m - 1 \in Nat
      BY <2>3, <2>6
    <3>2. PICK f : Good(m - 1, f)
      BY <2>4, <3>1
    <3> DEFINE g == [i \in 0 .. m |-> IF i = m THEN f[m - 1] + s[m] ELSE f[i]]
    <3>3. \A i \in 0 .. m - 1 : f[i] \in Int /\ g[i] = f[i]
      BY <3>1, <3>2
    <3>4. s[m] \in Int /\ f[m - 1] \in Int /\ g[m] = f[m - 1] + s[m]
      <4>1. s[m] \in Int /\ g[m] = f[m - 1] + s[m]
        BY <2>3, <2>6, <3>1
      <4>2. f[m - 1] \in Int
        BY <3>1, <3>3
      <4>3. QED
        BY <4>1, <4>2
    <3>5. g \in [0 .. m -> Int]
      <4>1. \A i \in 0 .. m : i = m \/ i \in 0 .. m - 1
        BY <3>1
      <4>2. \A i \in 0 .. m : g[i] \in Int
        <5> TAKE i \in 0 .. m
        <5>1. CASE i = m
          <6> HIDE DEF g
          <6>1. QED
            BY <3>4, <5>1
        <5>2. CASE i \in 0 .. m - 1
          BY <3>3, <5>2
        <5>3. QED
          BY <4>1, <5>1, <5>2
      <4>3. QED
        BY <4>2
    <3>6. g[0] = 0
      BY <3>1, <3>2, <3>3
    <3>7. \A i \in 1 .. m : g[i] = g[i - 1] + s[i]
      <4> TAKE i \in 1 .. m
      <4>1. CASE i = m
        BY <3>1, <3>3, <3>4, <4>1
      <4>2. CASE i # m
        <5>1. i \in 1 .. m - 1 /\ i \in 0 .. m - 1 /\ i - 1 \in 0 .. m - 1
          BY <3>1, <4>2
        <5>2. f[i] = f[i - 1] + s[i]
          BY <3>2, <5>1
        <5> HIDE DEF g
        <5>3. QED
          BY <3>3, <5>1, <5>2
      <4>3. QED
        BY <4>1, <4>2
    <3>8. Good(m, g)
      <4> HIDE DEF g
      <4>1. QED
        BY <3>5, <3>6, <3>7
    <3> HIDE DEF Good, g
    <3>9. QED
      BY <2>3, <3>8
  <2>7. QED
    BY <2>5, <2>6
<1>2. PICK f : Good(n, f)
  <2>1. n \in 0 .. n /\ n \notin bad
    <3> HIDE DEF bad
    <3>1. QED
      BY <1>1
  <2> HIDE DEF Good
  <2>2. QED
    BY <2>1
<1> DEFINE Step(g, i) == IF i = 0 THEN 0 ELSE g[i - 1] + s[i]
           sum == CHOOSE g : g = [i \in 0 .. n |-> Step(g, i)]
<1>3. f = [i \in 0 .. n |-> Step(f, i)]
  <2>1. \A i \in 0 .. n : f[i] = Step(f, i)
    BY <1>2
  <2> HIDE DEF Step
  <2>2. QED
    BY <1>2, <2>1
<1>4. sum = [i \in 0 .. n |-> Step(sum, i)]
  <2> HIDE DEF Step
  <2>1. QED
    BY <1>3
<1>5. SumOf(s) = sum[n]
  BY DEF SumOf
<1>6. DOMAIN sum = 0 .. n /\ \A i \in 0 .. n : sum[i] = Step(sum, i)
  <2> HIDE DEF sum, Step
  <2>1. QED
    BY <1>4
<1> HIDE DEF sum
<1> DEFINE alien == {i \in 0 .. n : sum[i] \notin Int}
<1>7. alien = {}
  <2> SUFFICES ASSUME alien # {}
               PROVE  FALSE
    OBVIOUS
  <2>1. alien \subseteq Nat
    OBVIOUS
  <2>2. PICK m \in alien : \A k \in alien : m <= k
    <3> HIDE DEF alien
    <3>1. QED
      BY <2>1, NatMin
  <2>3. m \in 0 .. n /\ sum[m] \notin Int /\ m # 0
    BY <1>6, <2>2
  <2>4. m - 1 \in 0 .. n /\ sum[m - 1] \in Int /\ s[m] \in Int
    BY <2>2, <2>3
  <2>5. QED
    BY <1>6, <2>3, <2>4
<1>8. sum \in [0 .. n -> Int]
  BY <1>4, <1>6, <1>7
<1>9. sum[0] = 0 /\ \A i \in 1 .. n : sum[i] = sum[i - 1] + s[i]
  BY <1>6
<1>10. QED
  BY <1>5, <1>8, <1>9
(* A function that adds up a sequence is its sum.                           *)
LEMMA SumIs ==
  ASSUME NEW s, NEW n \in Nat, Len(s) = n, \A i \in 1 .. n : s[i] \in Int,
         NEW h, \A i \in 0 .. n : h[i] \in Int,
         \A i \in 1 .. n : h[i] = h[i - 1] + s[i]
  PROVE  SumOf(s) = h[n] - h[0]
<1>1. PICK f \in [0 .. n -> Int] : /\ SumOf(s) = f[n]
                                   /\ f[0] = 0
                                   /\ \A i \in 1 .. n : f[i] = f[i - 1] + s[i]
  BY SumDef
<1> DEFINE bad == {i \in 0 .. n : f[i] # h[i] - h[0]}
<1>2. bad = {}
  <2> SUFFICES ASSUME bad # {}
               PROVE  FALSE
    OBVIOUS
  <2>1. bad \subseteq Nat
    OBVIOUS
  <2>2. PICK m \in bad : \A k \in bad : m <= k
    <3> HIDE DEF bad
    <3>1. QED
      BY <2>1, NatMin
  <2>3. m \in 0 .. n /\ f[m] # h[m] - h[0] /\ m # 0
    BY <1>1, <2>2
  <2>4. m \in 1 .. n /\ m - 1 \in 0 .. n /\ f[m - 1] = h[m - 1] - h[0]
    BY <2>2, <2>3
  <2>5. f[m] = f[m - 1] + s[m] /\ h[m] = h[m - 1] + s[m]
    BY <1>1, <2>4
  <2>6. h[m] \in Int /\ h[m - 1] \in Int /\ h[0] \in Int /\ s[m] \in Int
    BY <2>4
  <2>7. f[m] # h[m] - h[0]
    BY <2>3
  <2> HIDE DEF bad
  <2>8. QED
    BY SMTT(30), <2>4, <2>5, <2>6, <2>7
<1>3. f[n] = h[n] - h[0]
  <2>1. n \in 0 .. n /\ n \notin bad
    <3> HIDE DEF bad
    <3>1. QED
      BY <1>2
  <2>2. QED
    BY <2>1
<1>4. QED
  BY <1>1, <1>3

(* Sums are monotone; with the sums of zeros this bounds them.              *)
LEMMA SumMonotone ==
  ASSUME NEW s, NEW r, NEW n \in Nat, Len(s) = n, Len(r) = n,
         \A i \in 1 .. n : s[i] \in Int /\ r[i] \in Int /\ s[i] <= r[i]
  PROVE  SumOf(s) \in Int /\ SumOf(r) \in Int /\ SumOf(s) <= SumOf(r)
<1>1. PICK f \in [0 .. n -> Int] : /\ SumOf(s) = f[n]
                                   /\ f[0] = 0
                                   /\ \A i \in 1 .. n : f[i] = f[i - 1] + s[i]
  BY SumDef
<1>2. PICK g \in [0 .. n -> Int] : /\ SumOf(r) = g[n]
                                   /\ g[0] = 0
                                   /\ \A i \in 1 .. n : g[i] = g[i - 1] + r[i]
  BY SumDef
<1> DEFINE bad == {i \in 0 .. n : ~(f[i] <= g[i])}
<1>3. bad = {}
  <2> SUFFICES ASSUME bad # {}
               PROVE  FALSE
    OBVIOUS
  <2>1. bad \subseteq Nat
    OBVIOUS
  <2>2. PICK m \in bad : \A k \in bad : m <= k
    <3> HIDE DEF bad
    <3>1. QED
      BY <2>1, NatMin
  <2>3. m \in 0 .. n /\ ~(f[m] <= g[m]) /\ m # 0
    BY <1>1, <1>2, <2>2
  <2>4. m \in 1 .. n /\ m - 1 \in 0 .. n /\ f[m - 1] <= g[m - 1]
    BY <2>2, <2>3
  <2>5. f[m] = f[m - 1] + s[m] /\ g[m] = g[m - 1] + r[m] /\ s[m] <= r[m]
    BY <1>1, <1>2, <2>4
  <2>6. /\ f[m] \in Int /\ f[m - 1] \in Int /\ g[m] \in Int /\ g[m - 1] \in Int
        /\ s[m] \in Int /\ r[m] \in Int
    BY <2>4
  <2>7. QED
    BY SMTT(30), <2>3, <2>4, <2>5, <2>6
<1>4. f[n] <= g[n]
  <2>1. n \in 0 .. n /\ n \notin bad
    <3> HIDE DEF bad
    <3>1. QED
      BY <1>3
  <2>2. QED
    BY <2>1
<1>5. QED
  BY <1>1, <1>2, <1>4

(* A sum of zeros is zero.                                                  *)
LEMMA SumZero ==
  ASSUME NEW s, NEW n \in Nat, Len(s) = n, \A i \in 1 .. n : s[i] = 0
  PROVE  SumOf(s) = 0
<1> DEFINE h == [i \in 0 .. n |-> 0]
<1>1. /\ \A i \in 0 .. n : h[i] \in Int
      /\ \A i \in 1 .. n : h[i] = h[i - 1] + s[i]
      /\ \A i \in 1 .. n : s[i] \in Int
      /\ h[n] - h[0] = 0
  OBVIOUS
<1> HIDE DEF h
<1>2. SumOf(s) = h[n] - h[0]
  BY <1>1, SumIs
<1>3. QED
  BY <1>1, <1>2

(* The sum of the sums of two sequences is the sum of the pairs.            *)
LEMMA SumPlus ==
  ASSUME NEW s, NEW r, NEW q, NEW n \in Nat, Len(s) = n, Len(r) = n, Len(q) = n,
         \A i \in 1 .. n : s[i] \in Int /\ r[i] \in Int /\ q[i] = s[i] + r[i]
  PROVE  SumOf(s) \in Int /\ SumOf(r) \in Int /\ SumOf(q) = SumOf(s) + SumOf(r)
<1>1. PICK f \in [0 .. n -> Int] : /\ SumOf(s) = f[n]
                                   /\ f[0] = 0
                                   /\ \A i \in 1 .. n : f[i] = f[i - 1] + s[i]
  BY SumDef
<1>2. PICK g \in [0 .. n -> Int] : /\ SumOf(r) = g[n]
                                   /\ g[0] = 0
                                   /\ \A i \in 1 .. n : g[i] = g[i - 1] + r[i]
  BY SumDef
<1> DEFINE h == [i \in 0 .. n |-> f[i] + g[i]]
<1>3. \A i \in 0 .. n : h[i] \in Int
  OBVIOUS
<1>4. \A i \in 1 .. n : q[i] \in Int /\ h[i] = h[i - 1] + q[i]
  <2> TAKE i \in 1 .. n
  <2>1. i \in 0 .. n /\ i - 1 \in 0 .. n
    OBVIOUS
  <2>2. f[i] = f[i - 1] + s[i] /\ g[i] = g[i - 1] + r[i] /\ q[i] = s[i] + r[i]
    BY <1>1, <1>2
  <2>3. f[i - 1] \in Int /\ g[i - 1] \in Int /\ s[i] \in Int /\ r[i] \in Int
    BY <2>1
  <2>4. h[i] = f[i] + g[i] /\ h[i - 1] = f[i - 1] + g[i - 1]
    BY <2>1
  <2> HIDE DEF h
  <2>5. q[i] \in Int
    BY <2>2, <2>3
  <2>6. h[i] = (f[i - 1] + s[i]) + (g[i - 1] + r[i])
    BY <2>2, <2>4
  <2>7. h[i] = h[i - 1] + q[i]
    BY <2>2, <2>3, <2>4, <2>6
  <2>8. QED
    BY <2>5, <2>7
<1>5. h[n] - h[0] = f[n] + g[n] /\ f[n] \in Int /\ g[n] \in Int
  BY <1>1, <1>2
<1> HIDE DEF h
<1>6. SumOf(q) = h[n] - h[0]
  BY ZenonT(30), <1>3, <1>4, SumIs
<1>7. QED
  BY <1>1, <1>2, <1>5, <1>6

(* Max and Min of finite sets of numbers.                                   *)
LEMMA MaxMinFacts ==
  ASSUME NEW S, S \subseteq Int, IsFiniteSet(S), S # {}
  PROVE  /\ Max(S) \in S /\ \A x \in S : x <= Max(S)
         /\ Min(S) \in S /\ \A x \in S : Min(S) <= x
<1> DEFINE n == Cardinality(S)
           q == Ascending(S)
<1>1. /\ n \in Nat
      /\ q \in [1 .. n -> S]
      /\ \A x \in S : \E k \in 1 .. n : q[k] = x
      /\ \A j, k \in 1 .. n : j < k => q[j] < q[k]
  BY AscendingFacts
<1> HIDE DEF n, q
<1>2. n >= 1
  <2>1. PICK x \in S : TRUE
    OBVIOUS
  <2>2. PICK k \in 1 .. n : q[k] = x
    BY <1>1, <2>1
  <2>3. QED
    BY <1>1, <2>2
<1>3. q[n] \in S /\ q[1] \in S
  BY <1>1, <1>2
<1>4. \A x \in S : x <= q[n] /\ q[1] <= x
  <2> TAKE x \in S
  <2>1. PICK k \in 1 .. n : q[k] = x
    BY <1>1
  <2>2. (k = n \/ q[k] < q[n]) /\ (k = 1 \/ q[1] < q[k])
    BY <1>1, <1>2
  <2>3. q[k] \in Int /\ q[n] \in Int /\ q[1] \in Int
    BY <1>3, <2>1
  <2>4. QED
    BY <2>1, <2>2, <2>3
<1>5. /\ \E x \in S : \A y \in S : x >= y
      /\ \E x \in S : \A y \in S : x =< y
  <2>1. \A y \in S : q[n] >= y /\ q[1] =< y
    BY <1>3, <1>4
  <2>2. QED
    BY <1>3, <2>1
<1>6. Max(S) \in S /\ \A x \in S : Max(S) >= x
  BY <1>5 DEF Max
<1>7. Min(S) \in S /\ \A x \in S : Min(S) =< x
  BY <1>5 DEF Min
<1>8. QED
  BY <1>6, <1>7

(* Max and Min of two numbers.                                              *)
LEMMA MaxMinOfTwo ==
  ASSUME NEW a \in Int, NEW b \in Int
  PROVE  /\ Max({a, b}) = IF a >= b THEN a ELSE b
         /\ Min({a, b}) = IF a <= b THEN a ELSE b
<1>1. /\ \E x \in {a, b} : \A y \in {a, b} : x >= y
      /\ \E x \in {a, b} : \A y \in {a, b} : x =< y
  OBVIOUS
<1>2. Max({a, b}) \in {a, b} /\ \A x \in {a, b} : Max({a, b}) >= x
  BY <1>1 DEF Max
<1>3. Min({a, b}) \in {a, b} /\ \A x \in {a, b} : Min({a, b}) =< x
  BY <1>1 DEF Min
<1>4. QED
  BY <1>2, <1>3

-----------------------------------------------------------------------------
(* Events in order.                                                         *)

(* Times are even numbers: they add up, and two of them are two apart.      *)
LEMMA TimesArithmetic ==
  /\ Times \subseteq Int
  /\ \A s, t \in Times : s + t \in Times /\ s - t \in Times
  /\ 0 \in Times
  /\ \A s, t \in Times : s < t => t - s >= 2
BY DEF Times

(* What ByStart compares: starts, then places, as a stable sort does.       *)
LEMMA ByStartIs ==
  ASSUME NEW s, NEW n \in Nat, DOMAIN s = 1 .. n
  PROVE  \A i, j \in 1 .. n :
           <<i, j>> \in ByStart(s) <=>
             s[i].start < s[j].start \/ (s[i].start = s[j].start /\ i < j)
BY DEF ByStart

(* What ByStartAndEnd compares: starts, then ends, then places.             *)
LEMMA ByStartAndEndIs ==
  ASSUME NEW s, NEW n \in Nat, DOMAIN s = 1 .. n
  PROVE  \A i, j \in 1 .. n :
           <<i, j>> \in ByStartAndEnd(s) <=>
             \/ s[i].start < s[j].start
             \/ /\ s[i].start = s[j].start
                /\ s[i].end < s[j].end \/ (s[i].end = s[j].end /\ i < j)
BY DEF ByStartAndEnd

(* Sorting by start permutes the events.                                    *)
LEMMA ArrangedByStart ==
  ASSUME NEW s, NEW n \in Nat, DOMAIN s = 1 .. n, \A i \in 1 .. n : s[i].start \in Int
  PROVE  \E p \in [1 .. n -> 1 .. n] :
           /\ DOMAIN Arranged(s, ByStart(s)) = 1 .. n /\ Len(Arranged(s, ByStart(s))) = n
           /\ \A k \in 1 .. n : Arranged(s, ByStart(s))[k] = s[p[k]]
           /\ \A i \in 1 .. n : \E k \in 1 .. n : p[k] = i
           /\ \A j, k \in 1 .. n : j < k => <<p[j], p[k]>> \in ByStart(s)
<1> DEFINE before == ByStart(s)
<1>1. \A i, j \in 1 .. n :
        <<i, j>> \in before <=>
          s[i].start < s[j].start \/ (s[i].start = s[j].start /\ i < j)
  BY ByStartIs
<1> HIDE DEF before
<1>2. \A i \in 1 .. n : <<i, i>> \notin before
  BY <1>1
<1>3. \A i, j \in 1 .. n : i # j => <<i, j>> \in before \/ <<j, i>> \in before
  BY <1>1
<1>4. \A i, j, k \in 1 .. n : <<i, j>> \in before /\ <<j, k>> \in before => <<i, k>> \in before
  <2> TAKE i, j, k \in 1 .. n
  <2> HAVE <<i, j>> \in before /\ <<j, k>> \in before
  <2>1. s[i].start < s[j].start \/ (s[i].start = s[j].start /\ i < j)
    BY <1>1
  <2>2. s[j].start < s[k].start \/ (s[j].start = s[k].start /\ j < k)
    BY <1>1
  <2>3. s[i].start \in Int /\ s[j].start \in Int /\ s[k].start \in Int
    OBVIOUS
  <2>4. s[i].start < s[k].start \/ (s[i].start = s[k].start /\ i < k)
    BY <2>1, <2>2, <2>3
  <2>5. QED
    BY <1>1, <2>4
<1>5. \E p \in [1 .. n -> 1 .. n] :
        /\ DOMAIN Arranged(s, before) = 1 .. n /\ Len(Arranged(s, before)) = n
        /\ \A k \in 1 .. n : Arranged(s, before)[k] = s[p[k]]
        /\ \A i \in 1 .. n : \E k \in 1 .. n : p[k] = i
        /\ \A j, k \in 1 .. n : j < k => <<p[j], p[k]>> \in before
  <2>1. Orders(before, 1 .. n)
    BY <1>2, <1>3, <1>4 DEF Orders
  <2>2. QED
    BY ZenonT(30), <2>1, ArrangedFacts
<1>6. QED
  BY <1>5 DEF before

(* Sorting by start and end permutes the events.                            *)
LEMMA ArrangedByStartAndEnd ==
  ASSUME NEW s, NEW n \in Nat, DOMAIN s = 1 .. n,
         \A i \in 1 .. n : s[i].start \in Int /\ s[i].end \in Int
  PROVE  \E p \in [1 .. n -> 1 .. n] :
           /\ DOMAIN Sorted(s) = 1 .. n /\ Len(Sorted(s)) = n
           /\ \A k \in 1 .. n : Sorted(s)[k] = s[p[k]]
           /\ \A i \in 1 .. n : \E k \in 1 .. n : p[k] = i
           /\ \A j, k \in 1 .. n : j < k => <<p[j], p[k]>> \in ByStartAndEnd(s)
<1> DEFINE before == ByStartAndEnd(s)
<1>1. \A i, j \in 1 .. n :
        <<i, j>> \in before <=>
             \/ s[i].start < s[j].start
             \/ /\ s[i].start = s[j].start
                /\ s[i].end < s[j].end \/ (s[i].end = s[j].end /\ i < j)
  BY ByStartAndEndIs
<1>0. Sorted(s) = Arranged(s, before)
  BY DEF Sorted
<1> HIDE DEF before
<1>2. \A i \in 1 .. n : <<i, i>> \notin before
  BY <1>1
<1>3. \A i, j \in 1 .. n : i # j => <<i, j>> \in before \/ <<j, i>> \in before
  BY <1>1
<1>4. \A i, j, k \in 1 .. n : <<i, j>> \in before /\ <<j, k>> \in before => <<i, k>> \in before
  <2> TAKE i, j, k \in 1 .. n
  <2> HAVE <<i, j>> \in before /\ <<j, k>> \in before
  <2>1. \/ s[i].start < s[j].start
        \/ /\ s[i].start = s[j].start
           /\ s[i].end < s[j].end \/ (s[i].end = s[j].end /\ i < j)
    BY <1>1
  <2>2. \/ s[j].start < s[k].start
        \/ /\ s[j].start = s[k].start
           /\ s[j].end < s[k].end \/ (s[j].end = s[k].end /\ j < k)
    BY <1>1
  <2>3. /\ s[i].start \in Int /\ s[j].start \in Int /\ s[k].start \in Int
        /\ s[i].end \in Int /\ s[j].end \in Int /\ s[k].end \in Int
    OBVIOUS
  <2>4. \/ s[i].start < s[k].start
        \/ /\ s[i].start = s[k].start
           /\ s[i].end < s[k].end \/ (s[i].end = s[k].end /\ i < k)
    BY <2>1, <2>2, <2>3
  <2>5. QED
    BY <1>1, <2>4
<1>5. \E p \in [1 .. n -> 1 .. n] :
        /\ DOMAIN Arranged(s, before) = 1 .. n /\ Len(Arranged(s, before)) = n
        /\ \A k \in 1 .. n : Arranged(s, before)[k] = s[p[k]]
        /\ \A i \in 1 .. n : \E k \in 1 .. n : p[k] = i
        /\ \A j, k \in 1 .. n : j < k => <<p[j], p[k]>> \in before
  <2>1. Orders(before, 1 .. n)
    BY <1>2, <1>3, <1>4 DEF Orders
  <2>2. QED
    BY ZenonT(30), <2>1, ArrangedFacts
<1>6. QED
  BY <1>0, <1>5 DEF before

(* The image of a finite set is finite.                                     *)
LEMMA ImageIsFinite ==
  ASSUME NEW S, IsFiniteSet(S), NEW f, DOMAIN f = S
  PROVE  IsFiniteSet({f[x] : x \in S})
<1> DEFINE T == {f[x] : x \in S}
           g == [x \in S |-> f[x]]
<1>1. g \in [S -> T] /\ \A y \in T : \E x \in S : g[x] = y
  OBVIOUS
<1> HIDE DEF g, T
<1>2. g \in Surjection(S, T)
  BY <1>1 DEF Surjection
<1>3. IsFiniteSet(T)
  BY <1>2, FS_Surjection
<1>4. QED
  BY <1>3 DEF T

(* The latest of the ends of some events is one of them.                    *)
LEMMA LatestEnd ==
  ASSUME NEW s, NEW a \in Int, NEW b \in Int, a <= b, \A i \in a .. b : s[i].end \in Int
  PROVE  /\ \E i \in a .. b : Max({s[j].end : j \in a .. b}) = s[i].end
         /\ \A i \in a .. b : s[i].end <= Max({s[j].end : j \in a .. b})
<1> DEFINE I == a .. b
           f == [i \in I |-> s[i].end]
           T == {f[i] : i \in I}
<1>1. IsFiniteSet(T)
  <2>1. IsFiniteSet(I) /\ DOMAIN f = I
    BY FS_Interval
  <2> HIDE DEF f, I
  <2>2. QED
    BY <2>1, ImageIsFinite
<1>2. T = {s[j].end : j \in a .. b}
  OBVIOUS
<1>3. T \subseteq Int /\ a \in I
  OBVIOUS
<1>4. T # {}
  BY <1>3
<1>5. Max(T) \in T /\ \A x \in T : x <= Max(T)
  <2> HIDE DEF T
  <2>1. QED
    BY <1>1, <1>3, <1>4, MaxMinFacts
<1>6. \E i \in a .. b : Max(T) = s[i].end
  <2>1. PICK i \in I : Max(T) = f[i]
    BY <1>5
  <2>2. f[i] = s[i].end
    OBVIOUS
  <2>3. QED
    BY <2>1, <2>2
<1>7. \A i \in a .. b : s[i].end <= Max(T)
  <2> TAKE i \in a .. b
  <2>1. s[i].end \in T
    OBVIOUS
  <2> HIDE DEF T
  <2>2. QED
    BY <1>5, <2>1
<1>8. QED
  BY <1>2, <1>6, <1>7

(* Find returns the last eligible event of a sequence, or None when none is *)
(* eligible.                                                                *)
LEMMA FindFacts ==
  ASSUME NEW s, NEW n \in Nat, DOMAIN s = 1 .. n, NEW t
  PROVE  /\ (\A i \in 1 .. n : ~Eligible(s[i], t)) => Find(s, t) = None
         /\ (\E i \in 1 .. n : Eligible(s[i], t)) =>
              \E k \in 1 .. n : /\ Eligible(s[k], t)
                                /\ Find(s, t) = s[k]
                                /\ \A i \in 1 .. n : Eligible(s[i], t) => i <= k
<1> DEFINE E == {i \in DOMAIN s : Eligible(s[i], t)}
<1>1. Find(s, t) = IF E = {} THEN None ELSE s[Max(E)]
  BY DEF Find
<1>2. E \subseteq 1 .. n /\ E \subseteq Int
  OBVIOUS
<1>3. IsFiniteSet(E)
  <2> DEFINE I == 1 .. n
  <2>1. IsFiniteSet(I) /\ E \in SUBSET I
    BY FS_Interval
  <2> HIDE DEF I, E
  <2>2. QED
    BY <2>1, FS_Subset
<1>4. ASSUME E # {}
      PROVE  Max(E) \in E /\ \A i \in E : i <= Max(E)
  <2> HIDE DEF E
  <2>1. QED
    BY <1>2, <1>3, <1>4, MaxMinFacts
<1>5. \A i \in 1 .. n : i \in E <=> Eligible(s[i], t)
  OBVIOUS
<1> HIDE DEF E
<1>6. ASSUME \A i \in 1 .. n : ~Eligible(s[i], t)
      PROVE  Find(s, t) = None
  <2>1. E = {}
    BY <1>2, <1>5, <1>6
  <2>2. QED
    BY <1>1, <2>1
<1>7. ASSUME NEW j \in 1 .. n, Eligible(s[j], t)
      PROVE  \E k \in 1 .. n : /\ Eligible(s[k], t)
                               /\ Find(s, t) = s[k]
                               /\ \A i \in 1 .. n : Eligible(s[i], t) => i <= k
  <2>1. E # {}
    BY <1>5, <1>7
  <2> DEFINE k == Max(E)
  <2>2. k \in E /\ \A i \in E : i <= k
    BY <1>4, <2>1
  <2>3. Find(s, t) = s[k]
    BY <1>1, <2>1
  <2> HIDE DEF k
  <2>4. k \in 1 .. n /\ Eligible(s[k], t)
    BY <1>2, <1>5, <2>2
  <2>5. \A i \in 1 .. n : Eligible(s[i], t) => i <= k
    BY <1>5, <2>2
  <2>6. QED
    BY <2>3, <2>4, <2>5
<1>8. QED
  BY <1>6, <1>7

(* Blocks cuts 1 .. n before the heads.                                     *)
LEMMA BlocksFacts ==
  ASSUME NEW n \in Nat, NEW heads, heads \subseteq 1 .. n, 1 \in heads
  PROVE  \E m \in Nat :
           /\ m >= 1
           /\ DOMAIN Blocks(n, heads) = 1 .. m /\ Len(Blocks(n, heads)) = m
           /\ \A k \in 1 .. m : /\ Blocks(n, heads)[k].first \in heads
                                /\ Blocks(n, heads)[k].first \in 1 .. n
                                /\ Blocks(n, heads)[k].last \in 1 .. n
                                /\ Blocks(n, heads)[k].first <= Blocks(n, heads)[k].last
           /\ \A k \in 1 .. m : \A h \in heads :
                h <= Blocks(n, heads)[k].first \/ h > Blocks(n, heads)[k].last
           /\ Blocks(n, heads)[1].first = 1 /\ Blocks(n, heads)[m].last = n
           /\ \A k \in 1 .. m - 1 :
                Blocks(n, heads)[k].last + 1 = Blocks(n, heads)[k + 1].first
           /\ \A j, k \in 1 .. m : j < k => Blocks(n, heads)[j].last < Blocks(n, heads)[k].first
           /\ \A i \in 1 .. n : \E k \in 1 .. m :
                Blocks(n, heads)[k].first <= i /\ i <= Blocks(n, heads)[k].last
<1> DEFINE m == Cardinality(heads)
           q == Ascending(heads)
           B == Blocks(n, heads)
<1>1. IsFiniteSet(heads) /\ heads \subseteq Int
  <2> DEFINE I == 1 .. n
  <2>1. IsFiniteSet(I) /\ heads \in SUBSET I /\ heads \subseteq Int
    BY FS_Interval
  <2> HIDE DEF I
  <2>2. QED
    BY <2>1, FS_Subset
<1>2. /\ m \in Nat
      /\ q \in [1 .. m -> heads] /\ Len(q) = m
      /\ \A x \in heads : \E k \in 1 .. m : q[k] = x
      /\ \A j, k \in 1 .. m : j < k => q[j] < q[k]
  BY <1>1, AscendingFacts
<1>3. B = [k \in DOMAIN q |-> [first |-> q[k],
                                last |-> IF k = Len(q) THEN n ELSE q[k + 1] - 1]]
  BY DEF Blocks
<1> HIDE DEF m, q, B
<1>4. m >= 1
  <2>1. PICK k \in 1 .. m : q[k] = 1
    BY <1>2
  <2>2. QED
    BY <1>2, <2>1
<1>5. DOMAIN B = 1 .. m /\ Len(B) = m
  BY <1>2, <1>3
<1>6. \A k \in 1 .. m : /\ B[k].first = q[k]
                        /\ k = m => B[k].last = n
                        /\ k # m => B[k].last = q[k + 1] - 1
  BY <1>2, <1>3
<1>7. \A k \in 1 .. m : q[k] \in heads /\ q[k] \in 1 .. n
  BY <1>2
<1>8. \A k \in 1 .. m : k # m => k + 1 \in 1 .. m /\ q[k] < q[k + 1]
  BY <1>2
<1>9. \A k \in 1 .. m : B[k].last \in 1 .. n /\ B[k].first <= B[k].last
  <2> TAKE k \in 1 .. m
  <2>1. q[k] \in 1 .. n /\ B[k].first = q[k]
    BY <1>6, <1>7
  <2>2. CASE k = m
    BY <1>6, <2>1, <2>2
  <2>3. CASE k # m
    <3>1. q[k + 1] \in 1 .. n /\ q[k] < q[k + 1] /\ B[k].last = q[k + 1] - 1
      BY <1>6, <1>7, <1>8, <2>3
    <3>2. QED
      BY <2>1, <3>1
  <2>4. QED
    BY <2>2, <2>3
<1>10. \A k \in 1 .. m : \A h \in heads : h <= B[k].first \/ h > B[k].last
  <2> TAKE k \in 1 .. m
  <2> TAKE h \in heads
  <2>1. PICK j \in 1 .. m : q[j] = h
    BY <1>2
  <2>2. CASE j <= k
    <3>1. j = k \/ q[j] < q[k]
      BY <1>2, <2>2
    <3>2. QED
      BY <1>6, <1>7, <2>1, <3>1
  <2>3. CASE k < j
    <3>1. k # m /\ k + 1 \in 1 .. m /\ (k + 1 = j \/ k + 1 < j)
      BY <1>2, <2>3
    <3>2. q[k + 1] <= q[j]
      BY <1>2, <1>7, <3>1
    <3>3. B[k].last = q[k + 1] - 1 /\ q[k + 1] \in 1 .. n /\ q[j] \in 1 .. n
      BY <1>6, <1>7, <3>1
    <3>4. QED
      BY <2>1, <3>2, <3>3
  <2>4. QED
    BY <1>2, <2>2, <2>3
<1>11. B[1].first = 1 /\ B[m].last = n
  <2>1. PICK k \in 1 .. m : q[k] = 1
    BY <1>2
  <2>2. 1 \in 1 .. m /\ (k = 1 \/ q[1] < q[k]) /\ q[1] \in 1 .. n
    BY <1>2, <1>4, <1>7
  <2>3. q[1] = 1
    BY <2>1, <2>2
  <2>4. m \in 1 .. m
    BY <1>2, <1>4
  <2>5. QED
    BY <1>6, <2>2, <2>3, <2>4
<1>12. \A k \in 1 .. m - 1 : B[k].last + 1 = B[k + 1].first
  <2> TAKE k \in 1 .. m - 1
  <2>1. k \in 1 .. m /\ k # m /\ k + 1 \in 1 .. m
    BY <1>2
  <2>2. B[k].last = q[k + 1] - 1 /\ B[k + 1].first = q[k + 1] /\ q[k + 1] \in 1 .. n
    BY <1>6, <1>7, <2>1
  <2>3. QED
    BY <2>2
<1>13. \A j, k \in 1 .. m : j < k => B[j].last < B[k].first
  <2> TAKE j, k \in 1 .. m
  <2> HAVE j < k
  <2>1. B[k].first \in heads /\ B[k].first = q[k] /\ B[j].first = q[j] /\ q[j] < q[k]
    BY <1>2, <1>6, <1>7
  <2>2. q[j] \in 1 .. n /\ q[k] \in 1 .. n /\ B[j].last \in 1 .. n
    BY <1>7, <1>9
  <2>3. B[k].first <= B[j].first \/ B[k].first > B[j].last
    BY <1>10, <2>1
  <2>4. QED
    BY <2>1, <2>2, <2>3
<1>14. \A i \in 1 .. n : \E k \in 1 .. m : B[k].first <= i /\ i <= B[k].last
  <2> TAKE i \in 1 .. n
  <2> DEFINE after == {k \in 1 .. m : i < q[k]}
  <2>1. CASE after = {}
    <3>1. m \in 1 .. m /\ m \notin after
      BY <1>2, <1>4, <2>1
    <3>2. q[m] <= i
      BY <1>7, <3>1
    <3>3. B[m].first = q[m] /\ B[m].last = n
      BY <1>6, <3>1
    <3>4. QED
      BY <3>1, <3>2, <3>3
  <2>2. CASE after # {}
    <3>1. after \subseteq Nat
      OBVIOUS
    <3>2. PICK k \in after : \A j \in after : k <= j
      <4> HIDE DEF after
      <4>1. QED
        BY <2>2, <3>1, NatMin
    <3>3. k \in 1 .. m /\ i < q[k]
      BY <3>2
    <3>4. q[1] = 1
      BY <1>4, <1>6, <1>11
    <3>5. k - 1 \in 1 .. m /\ k - 1 # m /\ k - 1 \notin after /\ (k - 1) + 1 = k
      <4>1. k # 1
        BY <3>3, <3>4
      <4>2. k - 1 \in 1 .. m /\ k - 1 # m /\ ~(k <= k - 1) /\ (k - 1) + 1 = k
        BY <1>2, <3>3, <4>1
      <4> HIDE DEF after
      <4>3. QED
        BY <3>2, <4>2
    <3>6. q[k - 1] <= i
      BY <1>7, <3>5
    <3>7. B[k - 1].last = q[k] - 1 /\ B[k - 1].first = q[k - 1]
      BY <1>6, <3>5
    <3>8. q[k] \in Int
      BY <1>7, <3>3
    <3>9. QED
      BY <3>3, <3>5, <3>6, <3>7, <3>8
  <2>3. QED
    BY <2>1, <2>2
<1>15. QED
  <2>1. \A k \in 1 .. m : B[k].first \in heads /\ B[k].first \in 1 .. n
    BY <1>6, <1>7
  <2>2. B = Blocks(n, heads)
    BY DEF B
  <2>3. QED
    BY <1>2, <1>4, <1>5, <1>9, <1>10, <1>11, <1>12, <1>13, <1>14, <2>1, <2>2

-----------------------------------------------------------------------------
(* Merging AFK events.                                                      *)

(* An AFK event ends no earlier than it starts, and stays one when its end  *)
(* moves.                                                                   *)
LEMMA AFKEventFacts ==
  /\ \A e \in AFKEvent : /\ e.start \in Times /\ e.end \in Times /\ e.start <= e.end
                         /\ e.start \in Int /\ e.end \in Int
  /\ \A e \in AFKEvent, x \in Times : e.start <= x =>
       /\ [e EXCEPT !.end = x] \in AFKEvent
       /\ [e EXCEPT !.end = x].start = e.start
       /\ [e EXCEPT !.end = x].end = x
       /\ [e EXCEPT !.end = x].status = e.status
BY TimesArithmetic DEF AFKEvent, Timed

(* A window event ends no earlier than it starts.                           *)
LEMMA WindowEventFacts ==
  \A e \in WindowEvent : /\ e.start \in Times /\ e.end \in Times /\ e.start <= e.end
                         /\ e.start \in Int /\ e.end \in Int
BY TimesArithmetic DEF WindowEvent, Timed

Heads(events) == {i \in DOMAIN events : ~Joins(events, i)}

(* Sorted by start, with n events.                                          *)
Ordered(events, n) ==
  /\ DOMAIN events = 1 .. n /\ Len(events) = n
  /\ \A i \in 1 .. n : events[i] \in AFKEvent
  /\ \A i, j \in 1 .. n : i < j => events[i].start <= events[j].start

(* What it means for AFK events to be sorted by start.                      *)
LEMMA OrderedFacts ==
  ASSUME NEW events, NEW n \in Nat, Ordered(events, n)
  PROVE  /\ DOMAIN events = 1 .. n /\ Len(events) = n
         /\ \A i \in 1 .. n : /\ events[i] \in AFKEvent
                              /\ events[i].start \in Times /\ events[i].end \in Times
                              /\ events[i].start \in Int /\ events[i].end \in Int
                              /\ events[i].start <= events[i].end
         /\ \A i, j \in 1 .. n : i <= j => events[i].start <= events[j].start
BY AFKEventFacts DEF Ordered

(* Sorting AFK events by start loses none and adds none.                    *)
LEMMA ArrangedIsOrdered ==
  ASSUME NEW afks, NEW n \in Nat, DOMAIN afks = 1 .. n, \A i \in 1 .. n : afks[i] \in AFKEvent
  PROVE  /\ Ordered(Arranged(afks, ByStart(afks)), n)
         /\ \A i \in 1 .. n : \E j \in 1 .. n : Arranged(afks, ByStart(afks))[i] = afks[j]
         /\ \A j \in 1 .. n : \E i \in 1 .. n : Arranged(afks, ByStart(afks))[i] = afks[j]
<1> DEFINE E == Arranged(afks, ByStart(afks))
<1>1. \A i \in 1 .. n : afks[i].start \in Int
  BY AFKEventFacts
<1>2. PICK p \in [1 .. n -> 1 .. n] :
           /\ DOMAIN E = 1 .. n /\ Len(E) = n
           /\ \A k \in 1 .. n : E[k] = afks[p[k]]
           /\ \A i \in 1 .. n : \E k \in 1 .. n : p[k] = i
           /\ \A j, k \in 1 .. n : j < k => <<p[j], p[k]>> \in ByStart(afks)
  BY <1>1, ArrangedByStart
<1> HIDE DEF E
<1>3. \A i, j \in 1 .. n : i < j => E[i].start <= E[j].start
  <2> TAKE i, j \in 1 .. n
  <2> HAVE i < j
  <2>1. p[i] \in 1 .. n /\ p[j] \in 1 .. n /\ <<p[i], p[j]>> \in ByStart(afks)
    BY <1>2
  <2>2. afks[p[i]].start < afks[p[j]].start \/ afks[p[i]].start = afks[p[j]].start
    BY <2>1, ByStartIs
  <2>3. E[i] = afks[p[i]] /\ E[j] = afks[p[j]]
    BY <1>2
  <2>4. afks[p[i]].start \in Int /\ afks[p[j]].start \in Int
    BY <1>1, <2>1
  <2>5. QED
    BY <2>2, <2>3, <2>4
<1>4. \A i \in 1 .. n : E[i] \in AFKEvent
  BY <1>2
<1>5. Ordered(E, n)
  BY <1>2, <1>3, <1>4 DEF Ordered
<1>6. \A j \in 1 .. n : \E i \in 1 .. n : E[i] = afks[j]
  BY <1>2
<1>7. \A i \in 1 .. n : \E j \in 1 .. n : E[i] = afks[j]
  BY <1>2
<1>8. QED
  BY <1>5, <1>6, <1>7 DEF E

(* The blocks of merged events: the facts of BlocksFacts, events of one     *)
(* status, and a merged event from the first start to the latest end.       *)
IsMerged(M, B, E, n, m) ==
  /\ m \in Nat /\ m >= 1
  /\ DOMAIN M = 1 .. m /\ Len(M) = m
  /\ \A k \in 1 .. m : /\ M[k] \in AFKEvent
                       /\ M[k].start = E[B[k].first].start
                       /\ M[k].status = E[B[k].first].status
                       /\ \E i \in B[k].first .. B[k].last : M[k].end = E[i].end
                       /\ \A i \in B[k].first .. B[k].last : E[i].end <= M[k].end
  /\ \A k \in 1 .. m : /\ B[k].first \in Heads(E)
                       /\ B[k].first \in 1 .. n
                       /\ B[k].last \in 1 .. n
                       /\ B[k].first <= B[k].last
  /\ \A k \in 1 .. m : \A h \in Heads(E) : h <= B[k].first \/ h > B[k].last
  /\ B[1].first = 1 /\ B[m].last = n
  /\ \A k \in 1 .. m - 1 : B[k].last + 1 = B[k + 1].first
  /\ \A j, k \in 1 .. m : j < k => B[j].last < B[k].first
  /\ \A i \in 1 .. n : \E k \in 1 .. m : B[k].first <= i /\ i <= B[k].last

(* mergeAFK makes one event of each block.                                  *)
LEMMA MergedFacts ==
  ASSUME NEW E, NEW n \in Nat, n >= 1, Ordered(E, n)
  PROVE  \E m \in Nat : IsMerged(Merged(E, Blocks(n, Heads(E))), Blocks(n, Heads(E)), E, n, m)
<1> DEFINE H == Heads(E)
           B == Blocks(n, H)
           M == Merged(E, B)
<1>1. /\ DOMAIN E = 1 .. n /\ Len(E) = n
      /\ \A i \in 1 .. n : /\ E[i] \in AFKEvent
                           /\ E[i].start \in Times /\ E[i].end \in Times
                           /\ E[i].start \in Int /\ E[i].end \in Int
                           /\ E[i].start <= E[i].end
      /\ \A i, j \in 1 .. n : i <= j => E[i].start <= E[j].start
  BY OrderedFacts
<1>2. H \subseteq 1 .. n /\ 1 \in H
  <2>1. ~Joins(E, 1)
    BY DEF Joins
  <2>2. QED
    BY <1>1, <2>1 DEF Heads
<1> HIDE DEF H
<1>3. PICK m \in Nat :
           /\ m >= 1
           /\ DOMAIN B = 1 .. m /\ Len(B) = m
           /\ \A k \in 1 .. m : /\ B[k].first \in H
                                /\ B[k].first \in 1 .. n
                                /\ B[k].last \in 1 .. n
                                /\ B[k].first <= B[k].last
           /\ \A k \in 1 .. m : \A h \in H : h <= B[k].first \/ h > B[k].last
           /\ B[1].first = 1 /\ B[m].last = n
           /\ \A k \in 1 .. m - 1 : B[k].last + 1 = B[k + 1].first
           /\ \A j, k \in 1 .. m : j < k => B[j].last < B[k].first
           /\ \A i \in 1 .. n : \E k \in 1 .. m : B[k].first <= i /\ i <= B[k].last
  BY <1>2, BlocksFacts
<1> HIDE DEF B
<1> DEFINE end(k) == Max({E[i].end : i \in B[k].first .. B[k].last})
<1>4. DOMAIN M = 1 .. m /\ Len(M) = m /\ \A k \in 1 .. m : M[k] = [E[B[k].first] EXCEPT !.end = end(k)]
  BY <1>3 DEF Merged
<1> HIDE DEF M
<1>5. ASSUME NEW k \in 1 .. m
      PROVE  /\ \E i \in B[k].first .. B[k].last : end(k) = E[i].end
             /\ \A i \in B[k].first .. B[k].last : E[i].end <= end(k)
  <2> DEFINE a == B[k].first
             b == B[k].last
  <2>1. a \in Int /\ b \in Int /\ a <= b /\ \A i \in a .. b : i \in 1 .. n
    BY <1>3
  <2>2. end(k) = Max({E[i].end : i \in a .. b})
    OBVIOUS
  <2> HIDE DEF end, a, b
  <2>3. \A i \in a .. b : E[i].end \in Int
    BY <1>1, <2>1
  <2>4. /\ \E i \in a .. b : Max({E[j].end : j \in a .. b}) = E[i].end
        /\ \A i \in a .. b : E[i].end <= Max({E[j].end : j \in a .. b})
    BY <2>1, <2>3, LatestEnd
  <2>5. QED
    BY <2>2, <2>4 DEF a, b
<1> HIDE DEF end
<1>6. ASSUME NEW k \in 1 .. m
      PROVE  /\ M[k] \in AFKEvent
             /\ M[k].start = E[B[k].first].start
             /\ M[k].status = E[B[k].first].status
             /\ M[k].end = end(k)
  <2>1. B[k].first \in 1 .. n /\ B[k].last \in 1 .. n /\ B[k].first <= B[k].last
    BY <1>3
  <2>2. E[B[k].first] \in AFKEvent /\ E[B[k].first].end <= end(k) /\ end(k) \in Times
    <3>1. B[k].first \in B[k].first .. B[k].last
      BY <2>1
    <3>2. PICK i \in B[k].first .. B[k].last : end(k) = E[i].end
      BY <1>5
    <3>3. i \in 1 .. n
      BY <2>1
    <3>4. QED
      BY <1>1, <1>5, <2>1, <3>1, <3>2, <3>3
  <2>3. E[B[k].first].start <= end(k)
    <3>1. E[B[k].first].start \in Int /\ E[B[k].first].end \in Int /\ end(k) \in Int
      BY <1>1, <2>1, <2>2, TimesArithmetic
    <3>2. E[B[k].first].start <= E[B[k].first].end
      BY <1>1, <2>1
    <3>3. QED
      BY <2>2, <3>1, <3>2
  <2> DEFINE e == E[B[k].first]
             x == end(k)
  <2>4. M[k] = [e EXCEPT !.end = x] /\ e \in AFKEvent /\ x \in Times /\ e.start <= x
    BY <1>4, <2>2, <2>3
  <2> HIDE DEF e, x
  <2>5. /\ M[k] \in AFKEvent
        /\ M[k].start = e.start
        /\ M[k].status = e.status
        /\ M[k].end = x
    BY <2>4, AFKEventFacts
  <2>6. QED
    BY <2>5 DEF e, x
<1>7. IsMerged(M, B, E, n, m)
  <2>1. \A k \in 1 .. m : /\ M[k] \in AFKEvent
                          /\ M[k].start = E[B[k].first].start
                          /\ M[k].status = E[B[k].first].status
                          /\ \E i \in B[k].first .. B[k].last : M[k].end = E[i].end
                          /\ \A i \in B[k].first .. B[k].last : E[i].end <= M[k].end
    <3> TAKE k \in 1 .. m
    <3>1. M[k].end = end(k) /\ M[k] \in AFKEvent /\ M[k].start = E[B[k].first].start
      BY <1>6
    <3>2. M[k].status = E[B[k].first].status
      BY <1>6
    <3>3. /\ \E i \in B[k].first .. B[k].last : end(k) = E[i].end
          /\ \A i \in B[k].first .. B[k].last : E[i].end <= end(k)
      BY <1>5
    <3>4. QED
      BY <3>1, <3>2, <3>3
  <2>2. QED
    BY <1>3, <1>4, <2>1 DEF IsMerged, H
<1>8. QED
  BY <1>7 DEF M, B, H

(* The durations of the classifier are times, and the freshness is the      *)
(* longest wait.                                                            *)
LEMMA Durations ==
  /\ Freshness \in Times /\ AFKGrace \in Times /\ AutoEnd \in Times /\ Second \in Times
  /\ Freshness \in Int /\ AFKGrace \in Int /\ AutoEnd \in Int /\ Second \in Int
  /\ 0 <= AFKGrace /\ 0 <= AutoEnd /\ 0 < Second /\ Second <= Freshness /\ 0 < Freshness
  /\ Max({Freshness, Second}) = Freshness
<1>1. /\ Freshness \in Times /\ AFKGrace \in Times /\ AutoEnd \in Times /\ Second \in Times
      /\ 0 <= AFKGrace /\ 0 <= AutoEnd /\ 0 < Second /\ Second <= Freshness
  BY DurationsAssumption DEF DurationsAssumption
<1>2. Freshness \in Int /\ AFKGrace \in Int /\ AutoEnd \in Int /\ Second \in Int
  BY <1>1, TimesArithmetic
<1>3. Max({Freshness, Second}) = Freshness
  BY <1>1, <1>2, MaxMinOfTwo
<1>4. QED
  BY <1>1, <1>2, <1>3

(* The events of a block have the status of the first of them.              *)
LEMMA BlockHasOneStatus ==
  ASSUME NEW E, NEW n \in Nat, Ordered(E, n), NEW M, NEW B, NEW m \in Nat, IsMerged(M, B, E, n, m),
         NEW k \in 1 .. m, NEW i \in B[k].first .. B[k].last
  PROVE  i \in 1 .. n /\ E[i].status = E[B[k].first].status
<1> DEFINE a == B[k].first
           b == B[k].last
<1>1. /\ a \in 1 .. n /\ b \in 1 .. n /\ a <= b
      /\ \A h \in Heads(E) : h <= a \/ h > b
      /\ DOMAIN E = 1 .. n
  BY OrderedFacts DEF IsMerged
<1>2. i \in a .. b
  OBVIOUS
<1> HIDE DEF a, b
<1> DEFINE bad == {j \in a .. b : E[j].status # E[a].status}
<1>3. bad = {}
  <2> SUFFICES ASSUME bad # {}
               PROVE  FALSE
    OBVIOUS
  <2>1. bad \subseteq Nat
    BY <1>1
  <2>2. PICK x \in bad : \A j \in bad : x <= j
    <3> HIDE DEF bad
    <3>1. QED
      BY <2>1, NatMin
  <2>3. x \in a .. b /\ E[x].status # E[a].status
    OBVIOUS
  <2>4. x # a /\ x \in 1 .. n /\ a < x
    BY <1>1, <2>3
  <2>5. x \notin Heads(E)
    BY <1>1, <2>3, <2>4
  <2>6. PICK j \in 1 .. x - 1 : \A l \in j .. x : E[l].status = E[x].status
    BY <1>1, <2>4, <2>5 DEF Heads, Joins
  <2>7. x - 1 \in j .. x /\ x - 1 \in a .. b /\ ~(x <= x - 1)
    BY <1>1, <2>3, <2>4
  <2>8. x - 1 \notin bad
    <3> HIDE DEF bad
    <3>1. QED
      BY <2>2, <2>7
  <2>9. E[x - 1].status = E[a].status
    BY <2>7, <2>8
  <2>10. QED
    BY <2>3, <2>6, <2>7, <2>9
<1>4. E[i].status = E[a].status
  BY <1>2, <1>3
<1>5. i \in 1 .. n
  BY <1>1, <1>2
<1>6. QED
  BY <1>4, <1>5 DEF a

(* A merged event is fresh exactly when one of its events is: merging       *)
(* bridges no gap in the evidence.                                          *)
LEMMA MergedIsAsFresh ==
  ASSUME NEW E, NEW n \in Nat, Ordered(E, n), NEW M, NEW B, NEW m \in Nat, IsMerged(M, B, E, n, m),
         NEW k \in 1 .. m, NEW t \in Int
  PROVE  Eligible(M[k], t) <=> \E i \in B[k].first .. B[k].last : Eligible(E[i], t)
<1> DEFINE a == B[k].first
           b == B[k].last
<1>1. /\ a \in 1 .. n /\ b \in 1 .. n /\ a <= b
      /\ a \in Heads(E)
      /\ \A h \in Heads(E) : h <= a \/ h > b
      /\ DOMAIN E = 1 .. n
  BY OrderedFacts DEF IsMerged
<1>2. /\ M[k] \in AFKEvent
      /\ M[k].start = E[a].start
      /\ \E i \in a .. b : M[k].end = E[i].end
      /\ \A i \in a .. b : E[i].end <= M[k].end
  BY DEF IsMerged
<1>3. \A i \in a .. b : i \in 1 .. n
  BY <1>1
<1>4. /\ \A i \in 1 .. n : /\ E[i].start \in Int /\ E[i].end \in Int
                           /\ E[i].start <= E[i].end
      /\ \A i, j \in 1 .. n : i <= j => E[i].start <= E[j].start
  BY OrderedFacts
<1>5. M[k].start \in Int /\ M[k].end \in Int /\ M[k].start <= M[k].end
  BY <1>2, AFKEventFacts
<1>s. \A i \in a .. b : E[i].status = E[a].status
  BY BlockHasOneStatus
<1> HIDE DEF a, b
<1>6. ASSUME NEW i \in a .. b, Eligible(E[i], t)
      PROVE  Eligible(M[k], t)
  <2>1. E[i].start <= t /\ t <= E[i].end + Freshness
    BY <1>6 DEF Eligible
  <2>2. M[k].start <= E[i].start /\ E[i].end <= M[k].end
    <3>1. i \in 1 .. n /\ a <= i
      BY <1>1
    <3>2. E[a].start <= E[i].start
      BY <1>1, <1>4, <3>1
    <3>3. QED
      BY <1>2, <3>2
  <2>3. i \in 1 .. n /\ E[i].start \in Int /\ E[i].end \in Int
    BY <1>3, <1>4
  <2>4. QED
    BY <1>5, <2>1, <2>2, <2>3, Durations DEF Eligible
<1>7. ASSUME Eligible(M[k], t), \A i \in a .. b : ~Eligible(E[i], t)
      PROVE  FALSE
  <2>1. M[k].start <= t /\ t <= M[k].end + Freshness
    BY <1>7 DEF Eligible
  <2>2. \A i \in a .. b : E[i].start <= t => E[i].end + Freshness < t
    <3> TAKE i \in a .. b
    <3>1. ~Eligible(E[i], t) /\ E[i].start \in Int /\ E[i].end \in Int /\ E[i].start <= E[i].end
      BY <1>3, <1>4, <1>7
    <3>2. QED
      BY <3>1, Durations DEF Eligible
  <2>3. PICK l \in a .. b : M[k].end = E[l].end
    BY <1>2
  <2>4. E[l].start > t
    <3>1. E[l].start \in Int /\ E[l].end \in Int
      BY <1>3, <1>4
    <3>2. QED
      BY <2>1, <2>2, <2>3, <3>1, Durations
  <2> DEFINE later == {i \in a .. b : E[i].start > t}
  <2>5. later # {} /\ later \subseteq Nat
    BY <1>1, <2>4
  <2>6. PICK x \in later : \A j \in later : x <= j
    <3> HIDE DEF later
    <3>1. QED
      BY <2>5, NatMin
  <2>7. x \in a .. b /\ E[x].start > t
    OBVIOUS
  <2>8. x # a
    BY <1>1, <1>2, <1>4, <2>1, <2>7
  <2>9. x \in 1 .. n /\ a < x /\ x \notin Heads(E)
    BY <1>1, <2>7, <2>8
  <2>10. PICK j \in 1 .. x - 1 : /\ \A i \in j .. x : E[i].status = E[x].status
                                 /\ E[x].start <= E[j].end + Freshness
    BY <1>1, <2>9, Durations DEF Heads, Joins
  <2>11. j \in 1 .. n /\ E[j].end \in Int /\ E[x].start \in Int
    BY <1>4, <2>9
  <2>12. CASE j < a
    <3>1. \A i \in j .. a : E[i].status = E[a].status
      <4>1. \A i \in j .. a : i \in j .. x
        BY <1>1, <2>9, <2>11
      <4>2. a \in j .. x
        BY <1>1, <2>9, <2>11, <2>12
      <4>3. QED
        BY <2>10, <4>1, <4>2
    <3>2. E[a].start <= E[j].end + Freshness
      <4>1. E[a].start <= E[x].start /\ E[a].start \in Int
        BY <1>1, <1>4, <2>9
      <4>2. QED
        BY <2>10, <2>11, <4>1, Durations
    <3>3. j \in 1 .. a - 1
      BY <1>1, <2>11, <2>12
    <3>4. Joins(E, a)
      BY <3>1, <3>2, <3>3, Durations DEF Joins
    <3>5. QED
      BY <1>1, <3>4 DEF Heads
  <2>13. CASE a <= j
    <3>1. j \in a .. b /\ ~(x <= j)
      BY <1>1, <2>7, <2>9, <2>11, <2>13
    <3>2. j \notin later
      <4> HIDE DEF later
      <4>1. QED
        BY <2>6, <3>1
    <3>3. E[j].start <= t
      BY <1>4, <2>11, <3>1, <3>2
    <3>4. E[j].end + Freshness < t
      BY <2>2, <3>1, <3>3
    <3>5. QED
      BY <2>7, <2>10, <2>11, <3>4, Durations
  <2>14. QED
    BY <1>1, <2>11, <2>12, <2>13
<1>8. QED
  BY <1>6, <1>7 DEF a, b

-----------------------------------------------------------------------------
(* The prepared evidence.                                                   *)

WellFormed(events) ==
  \E n \in Nat : DOMAIN events = 1 .. n /\ \A i \in 1 .. n : Timed(events[i])

IsPrepared(p) ==
  /\ WellFormed(p.windows)
  /\ WellFormed(p.afks)
  /\ WellFormed(p.contexts)
  /\ \A e \in p.passive : Timed(e)

(* What is timed has a start and an end among the times.                    *)
LEMMA TimedFacts ==
  ASSUME NEW e, Timed(e)
  PROVE  /\ e.start \in Times /\ e.end \in Times /\ e.start <= e.end
         /\ e.start \in Int /\ e.end \in Int
BY TimesArithmetic DEF Timed

(* Sorting evidence loses none and adds none.                               *)
LEMMA SortedFacts ==
  ASSUME NEW s, NEW n \in Nat, DOMAIN s = 1 .. n, \A i \in 1 .. n : Timed(s[i])
  PROVE  /\ DOMAIN Sorted(s) = 1 .. n /\ Len(Sorted(s)) = n
         /\ \A i \in 1 .. n : \E j \in 1 .. n : Sorted(s)[i] = s[j]
         /\ \A j \in 1 .. n : \E i \in 1 .. n : Sorted(s)[i] = s[j]
         /\ WellFormed(Sorted(s))
<1> DEFINE E == Sorted(s)
<1>1. \A i \in 1 .. n : s[i].start \in Int /\ s[i].end \in Int
  BY TimedFacts
<1>2. PICK p \in [1 .. n -> 1 .. n] :
           /\ DOMAIN E = 1 .. n /\ Len(E) = n
           /\ \A k \in 1 .. n : E[k] = s[p[k]]
           /\ \A i \in 1 .. n : \E k \in 1 .. n : p[k] = i
           /\ \A j, k \in 1 .. n : j < k => <<p[j], p[k]>> \in ByStartAndEnd(s)
  BY <1>1, ArrangedByStartAndEnd
<1> HIDE DEF E
<1>3. \A j \in 1 .. n : \E i \in 1 .. n : E[i] = s[j]
  BY <1>2
<1>4. \A i \in 1 .. n : \E j \in 1 .. n : E[i] = s[j]
  BY <1>2
<1>5. \A i \in 1 .. n : Timed(E[i])
  BY <1>4
<1>6. WellFormed(E)
  BY <1>2, <1>5 DEF WellFormed
<1>7. QED
  BY <1>2, <1>3, <1>4, <1>6 DEF E

(* mergeAFK makes AFK events, and none of them is fresh unless a stored one *)
(* is.                                                                      *)
LEMMA MergeAFKFacts ==
  ASSUME NEW afks \in Seq(AFKEvent)
  PROVE  \E m \in Nat : /\ DOMAIN MergeAFK(afks) = 1 .. m
                        /\ \A k \in 1 .. m : MergeAFK(afks)[k] \in AFKEvent
                        /\ \A k \in 1 .. m : \A t \in Int : Eligible(MergeAFK(afks)[k], t) =>
                             \E a \in Range(afks) : Eligible(a, t)
<1> DEFINE n == Len(afks)
           E == Arranged(afks, ByStart(afks))
           B == Blocks(n, Heads(E))
           M == MergeAFK(afks)
<1>1. n \in Nat /\ DOMAIN afks = 1 .. n /\ \A i \in 1 .. n : afks[i] \in AFKEvent
  OBVIOUS
<1>2. /\ Ordered(E, n)
      /\ \A i \in 1 .. n : \E j \in 1 .. n : E[i] = afks[j]
  <2> HIDE DEF n
  <2>1. QED
    BY <1>1, ArrangedIsOrdered
<1>3. DOMAIN E = 1 .. n /\ Len(E) = n
  BY <1>2 DEF Ordered
<1>4. M = Merged(E, B)
  <2>1. M = Merged(E, Blocks(Len(E), {i \in DOMAIN E : ~Joins(E, i)}))
    BY DEF MergeAFK
  <2>2. B = Blocks(Len(E), {i \in DOMAIN E : ~Joins(E, i)})
    BY <1>3, Zenon DEF Heads
  <2>3. QED
    BY <2>1, <2>2, Zenon
<1>5. \A j \in 1 .. n : afks[j] \in Range(afks)
  BY <1>1 DEF Range
<1> HIDE DEF n, E, M
<1>6. CASE n = 0
  <2>1. Heads(E) = {}
    BY <1>1, <1>3, <1>6 DEF Heads
  <2>2. DOMAIN Ascending({}) = 1 .. 0
    <3>1. IsFiniteSet({}) /\ Cardinality({}) = 0
      BY FS_EmptySet
    <3>2. Ascending({}) \in [1 .. Cardinality({}) -> {}]
      BY <3>1, AscendingFacts
    <3>3. QED
      BY <3>1, <3>2
  <2>3. DOMAIN B = 1 .. 0
    BY <2>1, <2>2 DEF Blocks
  <2>4. DOMAIN M = 1 .. 0
    BY <1>4, <2>3 DEF Merged
  <2>5. QED
    BY <2>4 DEF M
<1>7. CASE n # 0
  <2>1. n >= 1
    BY <1>1, <1>7
  <2>2. PICK m \in Nat : IsMerged(M, B, E, n, m)
    BY <1>1, <1>2, <1>4, <2>1, MergedFacts
  <2> HIDE DEF B
  <2>3. DOMAIN M = 1 .. m /\ \A k \in 1 .. m : M[k] \in AFKEvent
    BY <2>2 DEF IsMerged
  <2>4. ASSUME NEW k \in 1 .. m, NEW t \in Int, Eligible(M[k], t)
        PROVE  \E a \in Range(afks) : Eligible(a, t)
    <3>1. PICK i \in B[k].first .. B[k].last : Eligible(E[i], t)
      <4>1. n \in Nat /\ Ordered(E, n) /\ m \in Nat /\ IsMerged(M, B, E, n, m)
        BY <1>1, <1>2, <2>2
      <4>2. QED
        BY ZenonT(30), <2>4, <4>1, MergedIsAsFresh
    <3>2. i \in 1 .. n
      BY <1>1, <1>2, <2>2, BlockHasOneStatus
    <3>3. QED
      BY <1>2, <1>5, <3>1, <3>2
  <2>5. QED
    BY <2>3, <2>4 DEF M
<1>8. QED
  BY <1>6, <1>7

(* Preparing the evidence makes nothing up.                                 *)
LEMMA PreparedFacts ==
  ASSUME NEW f, IsEvidence(f)
  PROVE  /\ IsPrepared(Prepared(f))
         /\ Prepared(f).passive = f.passive
         /\ \A i \in DOMAIN Prepared(f).windows : Prepared(f).windows[i] \in Range(f.windows)
         /\ \A i \in DOMAIN Prepared(f).contexts : Prepared(f).contexts[i] \in Range(f.contexts)
         /\ \A i \in DOMAIN Prepared(f).afks : /\ Prepared(f).afks[i] \in AFKEvent
                                               /\ \A t \in Int : Eligible(Prepared(f).afks[i], t) =>
                                                    \E a \in Range(f.afks) : Eligible(a, t)
<1> DEFINE P == Prepared(f)
<1>1. /\ P.windows = Sorted(f.windows) /\ P.afks = Sorted(MergeAFK(f.afks))
      /\ P.contexts = Sorted(f.contexts) /\ P.passive = f.passive
  BY DEF Prepared
<1> HIDE DEF P
<1>2. /\ f.windows \in Seq(WindowEvent) /\ f.afks \in Seq(AFKEvent)
      /\ f.contexts \in Seq(Range(f.contexts))
      /\ \A e \in Range(f.contexts) : Timed(e)
      /\ \A e \in f.passive : Timed(e)
  BY DEF IsEvidence
<1>3. /\ WellFormed(P.windows)
      /\ \A i \in DOMAIN P.windows : P.windows[i] \in Range(f.windows)
  <2> DEFINE s == f.windows
             n == Len(s)
  <2>1. n \in Nat /\ DOMAIN s = 1 .. n /\ \A i \in 1 .. n : s[i] \in WindowEvent
    BY <1>2
  <2>2. \A i \in 1 .. n : Timed(s[i]) /\ s[i] \in Range(s)
    BY <2>1 DEF WindowEvent, Range
  <2> HIDE DEF s, n
  <2>3. /\ DOMAIN Sorted(s) = 1 .. n
        /\ \A i \in 1 .. n : \E j \in 1 .. n : Sorted(s)[i] = s[j]
        /\ WellFormed(Sorted(s))
    BY <2>1, <2>2, SortedFacts
  <2>4. \A i \in 1 .. n : Sorted(s)[i] \in Range(s)
    BY <2>2, <2>3
  <2>5. QED
    BY <1>1, <2>3, <2>4 DEF s
<1>4. /\ WellFormed(P.contexts)
      /\ \A i \in DOMAIN P.contexts : P.contexts[i] \in Range(f.contexts)
  <2> DEFINE s == f.contexts
             n == Len(s)
  <2>1. n \in Nat /\ DOMAIN s = 1 .. n /\ \A i \in 1 .. n : s[i] \in Range(s)
    BY <1>2
  <2>2. \A i \in 1 .. n : Timed(s[i])
    BY <1>2, <2>1
  <2> HIDE DEF s, n
  <2>3. /\ DOMAIN Sorted(s) = 1 .. n
        /\ \A i \in 1 .. n : \E j \in 1 .. n : Sorted(s)[i] = s[j]
        /\ WellFormed(Sorted(s))
    BY <2>1, <2>2, SortedFacts
  <2>4. \A i \in 1 .. n : Sorted(s)[i] \in Range(s)
    BY <2>1, <2>3
  <2>5. QED
    BY <1>1, <2>3, <2>4 DEF s
<1>5. /\ WellFormed(P.afks)
      /\ \A i \in DOMAIN P.afks : /\ P.afks[i] \in AFKEvent
                                  /\ \A t \in Int : Eligible(P.afks[i], t) =>
                                       \E a \in Range(f.afks) : Eligible(a, t)
  <2> DEFINE M == MergeAFK(f.afks)
  <2>1. PICK m \in Nat : /\ DOMAIN M = 1 .. m
                         /\ \A k \in 1 .. m : M[k] \in AFKEvent
                         /\ \A k \in 1 .. m : \A t \in Int : Eligible(M[k], t) =>
                              \E a \in Range(f.afks) : Eligible(a, t)
    BY <1>2, MergeAFKFacts
  <2>2. \A k \in 1 .. m : Timed(M[k])
    BY <2>1 DEF AFKEvent
  <2> HIDE DEF M
  <2>3. /\ DOMAIN Sorted(M) = 1 .. m
        /\ \A i \in 1 .. m : \E j \in 1 .. m : Sorted(M)[i] = M[j]
        /\ WellFormed(Sorted(M))
    BY <2>1, <2>2, SortedFacts
  <2>4. P.afks = Sorted(M)
    BY <1>1 DEF M
  <2>5. ASSUME NEW i \in 1 .. m
        PROVE  /\ Sorted(M)[i] \in AFKEvent
               /\ \A t \in Int : Eligible(Sorted(M)[i], t) =>
                    \E a \in Range(f.afks) : Eligible(a, t)
    <3>1. PICK j \in 1 .. m : Sorted(M)[i] = M[j]
      BY <2>3
    <3>2. QED
      BY <2>1, <3>1
  <2>6. QED
    BY <2>3, <2>4, <2>5
<1>6. IsPrepared(P)
  BY <1>1, <1>2, <1>3, <1>4, <1>5 DEF IsPrepared
<1>7. QED
  BY <1>1, <1>3, <1>4, <1>5, <1>6 DEF P

(* What Find returns is an eligible element, or None.                       *)
LEMMA FindInWellFormed ==
  ASSUME NEW s, WellFormed(s), NEW t
  PROVE  \/ Find(s, t) = None
         \/ \E k \in DOMAIN s : Find(s, t) = s[k] /\ Eligible(s[k], t)
<1>1. PICK n \in Nat : DOMAIN s = 1 .. n
  BY DEF WellFormed
<1>2. /\ (\A i \in 1 .. n : ~Eligible(s[i], t)) => Find(s, t) = None
      /\ (\E i \in 1 .. n : Eligible(s[i], t)) =>
           \E k \in 1 .. n : /\ Eligible(s[k], t)
                             /\ Find(s, t) = s[k]
                             /\ \A i \in 1 .. n : Eligible(s[i], t) => i <= k
  BY <1>1, FindFacts
<1>3. QED
  BY <1>1, <1>2

-----------------------------------------------------------------------------
(* Between two boundaries nothing changes.                                  *)

(* The boundaries of a period are finitely many times in it, its ends among *)
(* them.                                                                    *)
LEMMA BoundariesFacts ==
  ASSUME NEW p, IsPrepared(p), NEW from \in Times, NEW to \in Times, from <= to
  PROVE  /\ Boundaries(p, from, to) \subseteq Times
         /\ IsFiniteSet(Boundaries(p, from, to))
         /\ from \in Boundaries(p, from, to) /\ to \in Boundaries(p, from, to)
         /\ \A t \in Boundaries(p, from, to) : from <= t /\ t <= to
<1> DEFINE B == Boundaries(p, from, to)
<1>1. \A e \in Range(p.windows) \cup Range(p.afks) \cup Range(p.contexts) \cup p.passive : Timed(e)
  BY DEF IsPrepared, WellFormed, Range
<1>2. Edges(p) \subseteq Times
  <2>1. ASSUME NEW e, Timed(e)
        PROVE  {e.start, e.end, e.end + Freshness} \subseteq Times
    <3>1. e.start \in Times /\ e.end \in Times
      BY <2>1 DEF Timed
    <3>2. e.end + Freshness \in Times
      BY <3>1, Durations, TimesArithmetic
    <3>3. QED
      BY <3>1, <3>2
  <2>2. QED
    BY <1>1, <2>1 DEF Edges
<1>3. GraceEnds(p) \subseteq Times
  <2>1. \A a \in Range(p.afks) : a.start + AFKGrace \in Times
    BY <1>1, Durations, TimesArithmetic DEF Timed
  <2>2. QED
    BY <2>1 DEF GraceEnds
<1>4. B \subseteq Times
  BY <1>2, <1>3 DEF Boundaries
<1>5. from \in B /\ to \in B
  BY DEF Boundaries
<1>6. from \in Int /\ to \in Int
  BY TimesArithmetic
<1>7. \A t \in B : from <= t /\ t <= to
  BY <1>6 DEF Boundaries
<1>8. IsFiniteSet(B)
  <2> DEFINE I == from .. to
  <2>1. IsFiniteSet(I)
    BY <1>6, FS_Interval
  <2>2. B \subseteq I
    <3> HIDE DEF B
    <3>1. QED
      BY <1>4, <1>6, <1>7, TimesArithmetic
  <2> HIDE DEF I, B
  <2>3. QED
    BY <2>1, <2>2, FS_Subset
<1>9. QED
  BY <1>4, <1>5, <1>7, <1>8

(* No boundary lies between l and r.                                        *)
IsPiece(p, from, to, l, r) ==
  /\ l \in Int /\ r \in Int /\ from <= l /\ r <= to
  /\ \A b \in Boundaries(p, from, to) : b <= l \/ r <= b

(* Inside a piece every edge of the evidence lies on the same side of all   *)
(* instants.                                                                *)
LEMMA SameSide ==
  ASSUME NEW p, IsPrepared(p), NEW from \in Times, NEW to \in Times,
         NEW l, NEW r, IsPiece(p, from, to, l, r),
         NEW t \in Int, l < t, t < r, NEW u \in Int, l < u, u < r,
         NEW x \in Edges(p) \cup GraceEnds(p), x \in Int
  PROVE  (x <= t <=> x <= u) /\ (t <= x <=> u <= x)
<1>1. from \in Int /\ to \in Int /\ l \in Int /\ r \in Int /\ from <= l /\ r <= to
  BY TimesArithmetic DEF IsPiece
<1>2. x <= l \/ r <= x
  <2>1. CASE from <= x /\ x <= to
    <3>1. x \in Boundaries(p, from, to)
      BY <2>1 DEF Boundaries
    <3>2. QED
      BY <3>1 DEF IsPiece
  <2>2. CASE ~(from <= x /\ x <= to)
    BY <1>1, <2>2
  <2>3. QED
    BY <2>1, <2>2
<1>3. QED
  BY <1>1, <1>2

(* Inside a piece the same evidence is found at every instant.              *)
LEMMA SameEvidence ==
  ASSUME NEW p, IsPrepared(p), NEW from \in Times, NEW to \in Times,
         NEW l, NEW r, IsPiece(p, from, to, l, r),
         NEW t \in Int, l < t, t < r, NEW u \in Int, l < u, u < r
  PROVE  /\ Find(p.windows, t) = Find(p.windows, u)
         /\ Find(p.afks, t) = Find(p.afks, u)
         /\ Find(p.contexts, t) = Find(p.contexts, u)
         /\ FindPassive(p.passive, t) = FindPassive(p.passive, u)
<1>1. ASSUME NEW e \in Range(p.windows) \cup Range(p.afks) \cup Range(p.contexts) \cup p.passive
      PROVE  Eligible(e, t) <=> Eligible(e, u)
  <2>1. Timed(e)
    BY DEF IsPrepared, WellFormed, Range
  <2>2. e.start \in Edges(p) /\ e.end + Freshness \in Edges(p)
    BY DEF Edges
  <2>3. e.start \in Int /\ e.end \in Int /\ e.end + Freshness \in Int
    BY <2>1, TimedFacts, Durations
  <2> DEFINE x == e.start
             y == e.end + Freshness
  <2>4. x \in Edges(p) \cup GraceEnds(p) /\ x \in Int /\ y \in Edges(p) \cup GraceEnds(p) /\ y \in Int
    BY <2>2, <2>3
  <2>5. /\ Eligible(e, t) <=> e.start <= e.end /\ x <= t /\ t <= y
        /\ Eligible(e, u) <=> e.start <= e.end /\ x <= u /\ u <= y
    BY DEF Eligible
  <2> HIDE DEF x, y
  <2>6. x <= t <=> x <= u
    BY <2>4, SameSide
  <2>7. t <= y <=> u <= y
    BY <2>4, SameSide
  <2>8. QED
    BY <2>5, <2>6, <2>7
<1>2. ASSUME NEW s, \A i \in DOMAIN s : Eligible(s[i], t) <=> Eligible(s[i], u)
      PROVE  Find(s, t) = Find(s, u)
  <2>1. {i \in DOMAIN s : Eligible(s[i], t)} = {i \in DOMAIN s : Eligible(s[i], u)}
    BY <1>2
  <2>2. QED
    BY <2>1, Zenon DEF Find
<1>3. \A i \in DOMAIN p.windows : Eligible(p.windows[i], t) <=> Eligible(p.windows[i], u)
  BY <1>1 DEF Range
<1>4. \A i \in DOMAIN p.afks : Eligible(p.afks[i], t) <=> Eligible(p.afks[i], u)
  BY <1>1 DEF Range
<1>5. \A i \in DOMAIN p.contexts : Eligible(p.contexts[i], t) <=> Eligible(p.contexts[i], u)
  BY <1>1 DEF Range
<1>6. FindPassive(p.passive, t) = FindPassive(p.passive, u)
  <2>1. {e \in p.passive : Eligible(e, t)} = {e \in p.passive : Eligible(e, u)}
    BY <1>1
  <2>2. QED
    BY <2>1, Zenon DEF FindPassive
<1>7. QED
  BY <1>2, <1>3, <1>4, <1>5, <1>6

(* Classifying a piece at its middle is right for all of it.                *)
LEMMA ClassifyIsConstant ==
  ASSUME NEW p, IsPrepared(p), NEW from \in Times, NEW to \in Times,
         NEW l, NEW r, IsPiece(p, from, to, l, r),
         NEW t \in Int, l < t, t < r, NEW u \in Int, l < u, u < r
  PROVE  Classify(p, t) = Classify(p, u)
<1> DEFINE w == Find(p.windows, t)
           a == Find(p.afks, t)
           c == Find(p.contexts, t)
           browser == FindPassive(p.passive, t)
           stored == IF c = None THEN <<>> ELSE c.passive
           passive == [id \in DOMAIN browser \cup DOMAIN stored |->
                         IF id \in DOMAIN browser THEN browser[id] ELSE stored[id]]
<1>1. /\ Find(p.windows, u) = w /\ Find(p.afks, u) = a /\ Find(p.contexts, u) = c
      /\ FindPassive(p.passive, u) = browser
  BY SameEvidence
<1>2. State(w, a, c, passive, t) = State(w, a, c, passive, u)
  <2>1. ASSUME Away(a)
        PROVE  t - a.start <= AFKGrace <=> u - a.start <= AFKGrace
    <3>1. PICK k \in DOMAIN p.afks : a = p.afks[k]
      <4>1. WellFormed(p.afks)
        BY DEF IsPrepared
      <4>2. a # None
        BY <2>1 DEF Away
      <4>3. QED
        BY <4>1, <4>2, FindInWellFormed
    <3>2. a.status = "afk" /\ a \in Range(p.afks) /\ Timed(a)
      BY <2>1, <3>1 DEF Away, Range, IsPrepared, WellFormed
    <3> HIDE DEF a
    <3> DEFINE x == a.start + AFKGrace
    <3>3. x \in Edges(p) \cup GraceEnds(p)
      BY <3>2 DEF GraceEnds
    <3>4. x \in Int /\ a.start \in Int
      BY <3>2, TimedFacts, Durations
    <3>5. /\ t - a.start <= AFKGrace <=> t <= x
          /\ u - a.start <= AFKGrace <=> u <= x
      BY <3>4, Durations
    <3> HIDE DEF x
    <3>6. t <= x <=> u <= x
      BY <3>3, <3>4, SameSide
    <3>7. QED
      BY <3>5, <3>6
  <2> HIDE DEF w, a, c, passive
  <2>2. QED
    BY <2>1 DEF State
<1> DEFINE degraded == c = None \/ \E id \in DOMAIN browser : browser[id] = "unavailable"
           says(state) == [state |-> state,
                           location |-> IF c = None THEN "REMOTE" ELSE c.location,
                           evidence |-> IF c = None THEN "fallback" ELSE c.evidence,
                           health |-> IF degraded THEN "degraded" ELSE c.health,
                           app |-> IF w = None THEN None ELSE w.app,
                           passive |-> passive]
<1>3. Classify(p, t) = says(State(w, a, c, passive, t))
  BY Zenon DEF Classify
<1>4. Classify(p, u) = says(State(w, a, c, passive, u))
  BY <1>1, Zenon DEF Classify
<1> HIDE DEF says, w, a, c, passive
<1>5. QED
  BY <1>2, <1>3, <1>4

-----------------------------------------------------------------------------
(* Timelines.                                                               *)

(* T is the timeline of p: n segments that cover the period from .. to, and *)
(* each of which says what holds at all instants inside it.                 *)
IsTimeline(T, n, p, from, to) ==
  /\ n \in Nat
  /\ DOMAIN T = 1 .. n /\ Len(T) = n
  /\ T = [i \in 1 .. n |-> T[i]]
  /\ n = 0 <=> from = to
  /\ n = 0 <=> T = <<>>
  /\ n # 0 => T[1].start = from /\ T[n].end = to
  /\ \A i \in 1 .. n : /\ T[i].start \in Times /\ T[i].end \in Times
                       /\ T[i].start \in Int /\ T[i].end \in Int
                       /\ from <= T[i].start /\ T[i].start < T[i].end /\ T[i].end <= to
                       /\ T[i] = [start |-> T[i].start, end |-> T[i].end, says |-> T[i].says]
  /\ \A i \in 1 .. n - 1 : T[i].end = T[i + 1].start /\ T[i].says # T[i + 1].says
  /\ \A i, j \in 1 .. n : i < j => T[i].end <= T[j].start
  /\ \A i \in 1 .. n : \A t \in Int \ Times :
       T[i].start < t /\ t < T[i].end => T[i].says = Classify(p, t)

(* The boundaries in order cut the period into pieces.                      *)
LEMMA CutsFacts ==
  ASSUME NEW p, IsPrepared(p), NEW from \in Times, NEW to \in Times, from <= to
  PROVE  \E n \in Nat :
           /\ n >= 1
           /\ DOMAIN Ascending(Boundaries(p, from, to)) = 1 .. n
           /\ Len(Ascending(Boundaries(p, from, to))) = n
           /\ \A k \in 1 .. n : /\ Ascending(Boundaries(p, from, to))[k] \in Times
                                /\ Ascending(Boundaries(p, from, to))[k] \in Int
                                /\ from <= Ascending(Boundaries(p, from, to))[k]
                                /\ Ascending(Boundaries(p, from, to))[k] <= to
           /\ Ascending(Boundaries(p, from, to))[1] = from
           /\ Ascending(Boundaries(p, from, to))[n] = to
           /\ \A j, k \in 1 .. n :
                j < k => Ascending(Boundaries(p, from, to))[j] < Ascending(Boundaries(p, from, to))[k]
           /\ \A k \in 1 .. n - 1 :
                IsPiece(p, from, to, Ascending(Boundaries(p, from, to))[k],
                                     Ascending(Boundaries(p, from, to))[k + 1])
<1> DEFINE B == Boundaries(p, from, to)
           n == Cardinality(B)
           c == Ascending(B)
<1>1. /\ B \subseteq Times
      /\ IsFiniteSet(B)
      /\ from \in B /\ to \in B
      /\ \A t \in B : from <= t /\ t <= to
  BY BoundariesFacts
<1>2. B \subseteq Int
  BY <1>1, TimesArithmetic
<1> HIDE DEF B
<1>3. /\ n \in Nat
      /\ c \in [1 .. n -> B] /\ Len(c) = n
      /\ \A x \in B : \E k \in 1 .. n : c[k] = x
      /\ \A j, k \in 1 .. n : j < k => c[j] < c[k]
  BY <1>1, <1>2, AscendingFacts
<1> HIDE DEF n, c
<1>4. \A k \in 1 .. n : c[k] \in B /\ c[k] \in Times /\ c[k] \in Int /\ from <= c[k] /\ c[k] <= to
  BY <1>1, <1>2, <1>3
<1>5. PICK x \in 1 .. n : c[x] = from
  BY <1>1, <1>3
<1>6. PICK y \in 1 .. n : c[y] = to
  BY <1>1, <1>3
<1>7. n >= 1 /\ 1 \in 1 .. n /\ n \in 1 .. n
  BY <1>3, <1>5
<1>8. c[1] = from
  <2>1. 1 = x \/ c[1] < c[x]
    BY <1>3, <1>7
  <2>2. QED
    BY <1>4, <1>5, <1>7, <2>1
<1>9. c[n] = to
  <2>1. n = y \/ c[y] < c[n]
    BY <1>3, <1>7
  <2>2. QED
    BY <1>4, <1>6, <1>7, <2>1
<1>10. ASSUME NEW k \in 1 .. n - 1
       PROVE  IsPiece(p, from, to, c[k], c[k + 1])
  <2>1. k \in 1 .. n /\ k + 1 \in 1 .. n
    BY <1>3
  <2>2. \A b \in B : b <= c[k] \/ c[k + 1] <= b
    <3> TAKE b \in B
    <3>1. PICK j \in 1 .. n : c[j] = b
      BY <1>3
    <3>2. j = k \/ j < k \/ j = k + 1 \/ k + 1 < j
      BY <1>3, <2>1
    <3>3. c[j] = c[k] \/ c[j] < c[k] \/ c[j] = c[k + 1] \/ c[k + 1] < c[j]
      BY <1>3, <2>1, <3>2
    <3>4. c[j] \in Int /\ c[k] \in Int /\ c[k + 1] \in Int
      BY <1>4, <2>1
    <3>5. QED
      BY <3>1, <3>3, <3>4
  <2>3. c[k] \in Int /\ c[k + 1] \in Int /\ from <= c[k] /\ c[k + 1] <= to
    BY <1>4, <2>1
  <2>4. QED
    BY <2>2, <2>3 DEF IsPiece, B
<1>11. DOMAIN c = 1 .. n
  BY <1>3
<1>12. QED
  BY <1>3, <1>4, <1>7, <1>8, <1>9, <1>10, <1>11 DEF c, B

(* The pieces between n + 1 cuts, and what each of them says.               *)
ArePieces(S, c, n, p, from, to) ==
  /\ DOMAIN c = 1 .. n + 1
  /\ \A k \in 1 .. n + 1 : /\ c[k] \in Times /\ c[k] \in Int
                           /\ from <= c[k] /\ c[k] <= to
  /\ c[1] = from /\ c[n + 1] = to
  /\ \A j, k \in 1 .. n + 1 : j < k => c[j] < c[k]
  /\ DOMAIN S = 1 .. n /\ Len(S) = n
  /\ \A k \in 1 .. n : /\ S[k] = [start |-> c[k], end |-> c[k + 1], says |-> S[k].says]
                       /\ S[k].start = c[k] /\ S[k].end = c[k + 1]
                       /\ \A t \in Int : c[k] < t /\ t < c[k + 1] => S[k].says = Classify(p, t)

(* BuildWithPassive classifies each piece at its middle, and so for all of  *)
(* it.                                                                      *)
LEMMA PiecesFacts ==
  ASSUME NEW p, IsPrepared(p), NEW from \in Times, NEW to \in Times, from <= to
  PROVE  \E n \in Nat :
           ArePieces([i \in 1 .. Len(Ascending(Boundaries(p, from, to))) - 1 |->
                        [start |-> Ascending(Boundaries(p, from, to))[i],
                         end |-> Ascending(Boundaries(p, from, to))[i + 1],
                         says |-> Classify(p, Ascending(Boundaries(p, from, to))[i]
                                     + (Ascending(Boundaries(p, from, to))[i + 1]
                                          - Ascending(Boundaries(p, from, to))[i]) \div 2)]],
                     Ascending(Boundaries(p, from, to)), n, p, from, to)
<1> DEFINE c == Ascending(Boundaries(p, from, to))
           middle(i) == c[i] + (c[i + 1] - c[i]) \div 2
           S == [i \in 1 .. Len(c) - 1 |->
                   [start |-> c[i], end |-> c[i + 1], says |-> Classify(p, middle(i))]]
<1>1. PICK n \in Nat :
           /\ n >= 1
           /\ DOMAIN c = 1 .. n
           /\ Len(c) = n
           /\ \A k \in 1 .. n : /\ c[k] \in Times
                                /\ c[k] \in Int
                                /\ from <= c[k]
                                /\ c[k] <= to
           /\ c[1] = from
           /\ c[n] = to
           /\ \A j, k \in 1 .. n : j < k => c[j] < c[k]
           /\ \A k \in 1 .. n - 1 : IsPiece(p, from, to, c[k], c[k + 1])
  BY CutsFacts
<1> HIDE DEF c
<1>2. n - 1 \in Nat /\ (n - 1) + 1 = n
  BY <1>1
<1>3. \A i \in 1 .. n - 1 : /\ i \in 1 .. n /\ i + 1 \in 1 .. n
                            /\ c[i] < middle(i) /\ middle(i) < c[i + 1] /\ middle(i) \in Int
  <2> TAKE i \in 1 .. n - 1
  <2>1. i \in 1 .. n /\ i + 1 \in 1 .. n /\ i < i + 1
    BY <1>1
  <2>2. c[i] \in Times /\ c[i + 1] \in Times /\ c[i] \in Int /\ c[i + 1] \in Int /\ c[i] < c[i + 1]
    BY <1>1, <2>1
  <2>3. c[i + 1] - c[i] >= 2
    BY <2>2, TimesArithmetic
  <2> DEFINE d == c[i + 1] - c[i]
  <2>4. d \in Int /\ d >= 2 /\ d = c[i + 1] - c[i]
    BY <2>2, <2>3
  <2>5. middle(i) = c[i] + d \div 2
    OBVIOUS
  <2> HIDE DEF d, middle
  <2>6. d \div 2 \in Int /\ 0 < d \div 2 /\ d \div 2 < d
    BY <2>4
  <2>7. QED
    BY <2>1, <2>2, <2>4, <2>5, <2>6
<1> HIDE DEF middle
<1>4. \A i \in 1 .. n - 1 : \A t \in Int : c[i] < t /\ t < c[i + 1] => Classify(p, middle(i)) = Classify(p, t)
  <2> TAKE i \in 1 .. n - 1
  <2> TAKE t \in Int
  <2> HAVE c[i] < t /\ t < c[i + 1]
  <2> DEFINE l == c[i]
             r == c[i + 1]
             u == middle(i)
  <2>1. IsPiece(p, from, to, l, r) /\ l < t /\ t < r /\ l < u /\ u < r /\ u \in Int
    BY <1>1, <1>3
  <2> HIDE DEF l, r, u
  <2>2. Classify(p, u) = Classify(p, t)
    BY <2>1, ClassifyIsConstant
  <2>3. QED
    BY <2>2 DEF u
<1>5. DOMAIN S = 1 .. n - 1 /\ Len(S) = n - 1
  BY <1>1, <1>2
<1>6. \A i \in 1 .. n - 1 : /\ S[i] = [start |-> c[i], end |-> c[i + 1], says |-> S[i].says]
                            /\ S[i].start = c[i] /\ S[i].end = c[i + 1]
                            /\ S[i].says = Classify(p, middle(i))
  BY <1>1
<1> HIDE DEF S
<1>7. ArePieces(S, c, n - 1, p, from, to)
  BY <1>1, <1>2, <1>4, <1>5, <1>6 DEF ArePieces
<1>8. QED
  BY <1>2, <1>7 DEF S, c, middle

(* coalesce makes a timeline of the pieces.                                 *)
LEMMA CoalesceFacts ==
  ASSUME NEW p, NEW from \in Times, NEW to \in Times, from <= to,
         NEW S, NEW c, NEW n \in Nat, ArePieces(S, c, n, p, from, to)
  PROVE  \E m \in Nat : IsTimeline(Coalesce(S), m, p, from, to)
<1>1. /\ DOMAIN c = 1 .. n + 1
      /\ \A k \in 1 .. n + 1 : /\ c[k] \in Times /\ c[k] \in Int
                               /\ from <= c[k] /\ c[k] <= to
      /\ c[1] = from /\ c[n + 1] = to
      /\ \A j, k \in 1 .. n + 1 : j < k => c[j] < c[k]
  BY DEF ArePieces
<1>2. /\ DOMAIN S = 1 .. n /\ Len(S) = n
      /\ \A k \in 1 .. n : /\ S[k] = [start |-> c[k], end |-> c[k + 1], says |-> S[k].says]
                           /\ S[k].start = c[k] /\ S[k].end = c[k + 1]
                           /\ \A t \in Int : c[k] < t /\ t < c[k + 1] => S[k].says = Classify(p, t)
  BY DEF ArePieces
<1>i. from \in Int /\ to \in Int
  BY TimesArithmetic
<1>3. CASE n = 0
  <2>1. S = <<>> /\ from = to
    BY <1>1, <1>2, <1>3
  <2>2. Coalesce(S) = <<>>
    BY <2>1, Zenon DEF Coalesce
  <2>3. IsTimeline(<<>>, 0, p, from, to)
    BY <2>1 DEF IsTimeline
  <2>4. QED
    BY <2>2, <2>3
<1>4. CASE n # 0
  <2> DEFINE H == {i \in DOMAIN S : i = 1 \/ S[i].says # S[i - 1].says}
             B == Blocks(n, H)
             T == Coalesce(S)
  <2>1. H \subseteq 1 .. n /\ 1 \in H /\ n >= 1
    BY <1>2, <1>4
  <2>2. PICK m \in Nat :
           /\ m >= 1
           /\ DOMAIN B = 1 .. m /\ Len(B) = m
           /\ \A k \in 1 .. m : /\ B[k].first \in H
                                /\ B[k].first \in 1 .. n
                                /\ B[k].last \in 1 .. n
                                /\ B[k].first <= B[k].last
           /\ \A k \in 1 .. m : \A h \in H : h <= B[k].first \/ h > B[k].last
           /\ B[1].first = 1 /\ B[m].last = n
           /\ \A k \in 1 .. m - 1 : B[k].last + 1 = B[k + 1].first
           /\ \A j, k \in 1 .. m : j < k => B[j].last < B[k].first
           /\ \A i \in 1 .. n : \E k \in 1 .. m : B[k].first <= i /\ i <= B[k].last
    <3> HIDE DEF H
    <3>1. QED
      BY <2>1, BlocksFacts
  <2>3. T = [k \in DOMAIN B |-> [S[B[k].first] EXCEPT !.end = S[B[k].last].end]]
    <3>1. S # <<>>
      BY <1>2, <1>4
    <3>2. Len(S) = n
      BY <1>2
    <3>3. QED
      BY <3>1, <3>2, Zenon DEF Coalesce
  <2>4. \A i \in 1 .. n : i \in H <=> i = 1 \/ S[i].says # S[i - 1].says
    BY <1>2
  <2> HIDE DEF H, B, T
  <2>5. DOMAIN T = 1 .. m /\ Len(T) = m /\ T = [k \in 1 .. m |-> T[k]]
    BY <2>2, <2>3
  <2>6. ASSUME NEW k \in 1 .. m
        PROVE  /\ T[k].start = c[B[k].first]
               /\ T[k].end = c[B[k].last + 1]
               /\ T[k].says = S[B[k].first].says
               /\ T[k] = [start |-> T[k].start, end |-> T[k].end, says |-> T[k].says]
    <3>1. B[k].first \in 1 .. n /\ B[k].last \in 1 .. n
      BY <2>2
    <3>2. T[k] = [S[B[k].first] EXCEPT !.end = S[B[k].last].end]
      BY <2>2, <2>3
    <3> DEFINE a == B[k].first
               says == S[a].says
    <3>3. S[a] = [start |-> c[a], end |-> c[a + 1], says |-> says]
      BY <1>2, <3>1
    <3>4. S[B[k].last].end = c[B[k].last + 1]
      BY <1>2, <3>1
    <3>5. T[k] = [[start |-> c[a], end |-> c[a + 1], says |-> says] EXCEPT !.end = c[B[k].last + 1]]
      BY <3>2, <3>3, <3>4
    <3> HIDE DEF a, says
    <3>6. T[k] = [start |-> c[a], end |-> c[B[k].last + 1], says |-> says]
      BY <3>5
    <3>7. T[k].start = c[a] /\ T[k].end = c[B[k].last + 1] /\ T[k].says = says
      BY <3>6
    <3>8. QED
      BY <3>6, <3>7 DEF a, says
  <2>7. ASSUME NEW k \in 1 .. m, NEW i \in B[k].first .. B[k].last
        PROVE  i \in 1 .. n /\ S[i].says = S[B[k].first].says
    <3> DEFINE a == B[k].first
               b == B[k].last
               bad == {j \in a .. b : S[j].says # S[a].says}
    <3>1. a \in 1 .. n /\ b \in 1 .. n /\ a <= b /\ \A h \in H : h <= a \/ h > b
      BY <2>2
    <3>2. i \in a .. b
      OBVIOUS
    <3> HIDE DEF a, b
    <3>3. bad = {}
      <4> SUFFICES ASSUME bad # {}
                   PROVE  FALSE
        OBVIOUS
      <4>1. bad \subseteq Nat
        BY <3>1
      <4>2. PICK x \in bad : \A j \in bad : x <= j
        <5> HIDE DEF bad
        <5>1. QED
          BY <4>1, NatMin
      <4>3. x \in a .. b /\ S[x].says # S[a].says
        OBVIOUS
      <4>4. x # a /\ x \in 1 .. n /\ a < x
        BY <3>1, <4>3
      <4>5. x \notin H
        BY <3>1, <4>3, <4>4
      <4>6. S[x].says = S[x - 1].says
        BY <2>4, <4>4, <4>5
      <4>7. x - 1 \in a .. b /\ ~(x <= x - 1)
        BY <3>1, <4>3, <4>4
      <4>8. x - 1 \notin bad
        <5> HIDE DEF bad
        <5>1. QED
          BY <4>2, <4>7
      <4>9. QED
        BY <4>3, <4>6, <4>7, <4>8
    <3>4. S[i].says = S[a].says
      BY <3>2, <3>3
    <3>5. i \in 1 .. n
      BY <3>1, <3>2
    <3>6. QED
      BY <3>4, <3>5 DEF a
  <2>8. T[1].start = from /\ T[m].end = to
    <3>1. 1 \in 1 .. m /\ m \in 1 .. m
      BY <2>2
    <3>2. B[1].first = 1 /\ B[m].last = n
      BY <2>2
    <3>3. T[1].start = c[1] /\ T[m].end = c[n + 1]
      BY <2>6, <3>1, <3>2
    <3>4. QED
      BY <1>1, <3>3
  <2>9. ASSUME NEW k \in 1 .. m
        PROVE  /\ T[k].start \in Times /\ T[k].end \in Times
               /\ T[k].start \in Int /\ T[k].end \in Int
               /\ from <= T[k].start /\ T[k].start < T[k].end /\ T[k].end <= to
    <3>1. B[k].first \in 1 .. n /\ B[k].last \in 1 .. n /\ B[k].first <= B[k].last
      BY <2>2
    <3>2. B[k].first \in 1 .. n + 1 /\ B[k].last + 1 \in 1 .. n + 1 /\ B[k].first < B[k].last + 1
      BY <3>1
    <3>3. T[k].start = c[B[k].first] /\ T[k].end = c[B[k].last + 1]
      BY <2>6
    <3>4. c[B[k].first] < c[B[k].last + 1]
      BY <1>1, <3>2
    <3>5. QED
      BY <1>1, <3>2, <3>3, <3>4
  <2>10. \A i, j \in 1 .. m : i < j => T[i].end <= T[j].start
    <3> TAKE i, j \in 1 .. m
    <3> HAVE i < j
    <3>1. B[i].last < B[j].first /\ B[i].last \in 1 .. n /\ B[j].first \in 1 .. n
      BY <2>2
    <3>2. B[i].last + 1 \in 1 .. n + 1 /\ B[j].first \in 1 .. n + 1 /\ B[i].last + 1 <= B[j].first
      BY <3>1
    <3> DEFINE x == B[i].last + 1
               y == B[j].first
    <3>3. T[j].start = c[y] /\ T[i].end = c[x]
      BY <2>6
    <3>4. x \in 1 .. n + 1 /\ y \in 1 .. n + 1 /\ (x = y \/ x < y)
      BY <3>2
    <3> HIDE DEF x, y
    <3>5. c[x] \in Int /\ c[y] \in Int /\ (c[x] = c[y] \/ c[x] < c[y])
      BY <1>1, <3>4
    <3>6. QED
      BY <3>3, <3>5
  <2>11. \A i \in 1 .. m - 1 : T[i].end = T[i + 1].start /\ T[i].says # T[i + 1].says
    <3> TAKE i \in 1 .. m - 1
    <3>1. i \in 1 .. m /\ i + 1 \in 1 .. m
      BY <2>2
    <3>2. B[i].last + 1 = B[i + 1].first /\ B[i].first <= B[i].last
      BY <2>2, <3>1
    <3>3. /\ B[i].last \in 1 .. n /\ B[i + 1].first \in 1 .. n /\ B[i].first \in 1 .. n
          /\ B[i + 1].first \in H
      BY <2>2, <3>1
    <3>4. B[i + 1].first # 1 /\ B[i + 1].first - 1 = B[i].last
      BY <3>2, <3>3
    <3>5. S[B[i + 1].first].says # S[B[i].last].says
      BY <2>4, <3>3, <3>4
    <3>6. S[B[i].last].says = S[B[i].first].says
      <4>1. B[i].last \in B[i].first .. B[i].last
        BY <3>2, <3>3
      <4>2. QED
        BY <2>7, <3>1, <4>1
    <3>7. T[i].says = S[B[i].first].says /\ T[i + 1].says = S[B[i + 1].first].says
      BY <2>6, <3>1
    <3>8. T[i].end = c[B[i].last + 1] /\ T[i + 1].start = c[B[i + 1].first]
      BY <2>6, <3>1
    <3>9. QED
      BY <3>2, <3>5, <3>6, <3>7, <3>8
  <2>12. ASSUME NEW k \in 1 .. m, NEW t \in Int \ Times, T[k].start < t, t < T[k].end
         PROVE  T[k].says = Classify(p, t)
    <3> DEFINE a == B[k].first
               b == B[k].last
    <3>1. a \in 1 .. n /\ b \in 1 .. n /\ a <= b
      BY <2>2
    <3>2. T[k].start = c[a] /\ T[k].end = c[b + 1]
      BY <2>6
    <3>3. \A i \in a .. b : i \in 1 .. n /\ S[i].says = S[a].says
      BY <2>7
    <3>4. T[k].says = S[a].says
      BY <2>6
    <3> HIDE DEF a, b
    <3> DEFINE after == {i \in a .. b + 1 : t < c[i]}
    <3>5. after # {} /\ after \subseteq Nat
      <4>1. b + 1 \in a .. b + 1
        BY <3>1
      <4>2. t < c[b + 1]
        BY <2>12, <3>2
      <4>3. b + 1 \in after
        BY <4>1, <4>2
      <4>4. after \subseteq Nat
        BY <3>1
      <4>5. QED
        BY <4>3, <4>4
    <3>6. PICK x \in after : \A j \in after : x <= j
      <4> HIDE DEF after
      <4>1. QED
        BY <3>5, NatMin
    <3>7. x \in a .. b + 1 /\ t < c[x]
      OBVIOUS
    <3>8. x # a
      <4>1. c[a] \in Int /\ c[a] < t
        <5>1. a \in 1 .. n + 1
          BY <3>1
        <5>2. QED
          BY <1>1, <2>12, <3>2, <5>1
      <4>2. ~(t < c[a])
        BY <4>1
      <4>3. QED
        BY <3>7, <4>2
    <3>9. x - 1 \in a .. b /\ x - 1 \in a .. b + 1 /\ ~(x <= x - 1) /\ (x - 1) + 1 = x
      BY <3>1, <3>7, <3>8
    <3>10. x - 1 \notin after
      <4> HIDE DEF after
      <4>1. QED
        BY <3>6, <3>9
    <3>11. x - 1 \in 1 .. n /\ c[x - 1] \in Times /\ c[x - 1] \in Int
      <4>1. x - 1 \in 1 .. n /\ x - 1 \in 1 .. n + 1
        BY <3>1, <3>9
      <4>2. QED
        BY <1>1, <4>1
    <3>12. c[x - 1] < t
      <4>1. ~(t < c[x - 1])
        BY <3>9, <3>10
      <4>2. c[x - 1] # t
        BY <3>11
      <4>3. QED
        BY <3>11, <4>1, <4>2
    <3>13. S[x - 1].says = Classify(p, t)
      <4> DEFINE y == x - 1
      <4>1. y \in 1 .. n /\ c[y] < t /\ t < c[y + 1]
        BY <3>7, <3>9, <3>11, <3>12
      <4> HIDE DEF y
      <4>2. S[y].says = Classify(p, t)
        BY <1>2, <4>1
      <4>3. QED
        BY <4>2 DEF y
    <3>14. QED
      BY <3>3, <3>4, <3>9, <3>13
  <2>13. from # to
    <3>1. 1 \in 1 .. n + 1 /\ n + 1 \in 1 .. n + 1 /\ 1 < n + 1
      BY <2>1
    <3>2. c[1] < c[n + 1]
      BY <1>1, <3>1
    <3>3. QED
      BY <1>1, <1>i, <3>2
  <2>14. T # <<>>
    BY <2>2, <2>5
  <2>15. \A k \in 1 .. m : T[k] = [start |-> T[k].start, end |-> T[k].end, says |-> T[k].says]
    BY <2>6
  <2>16. m # 0
    BY <2>2
  <2>17. IsTimeline(T, m, p, from, to)
    BY <2>5, <2>8, <2>9, <2>10, <2>11, <2>12, <2>13, <2>14, <2>15, <2>16 DEF IsTimeline
  <2>18. QED
    BY <2>17 DEF T
<1>5. QED
  BY <1>3, <1>4

(* BuildWithPassive                                                         *)
LEMMA BuildFacts ==
  ASSUME NEW f, IsEvidence(f), NEW from \in Times, NEW to \in Times, from <= to
  PROVE  \E m \in Nat : IsTimeline(Build(f, from, to), m, Prepared(f), from, to)
<1> DEFINE p == Prepared(f)
           c == Ascending(Boundaries(p, from, to))
           S == [i \in 1 .. Len(c) - 1 |->
                   [start |-> c[i], end |-> c[i + 1],
                    says |-> Classify(p, c[i] + (c[i + 1] - c[i]) \div 2)]]
<1>1. IsPrepared(p)
  BY PreparedFacts
<1>2. Build(f, from, to) = Coalesce(S)
  BY Zenon DEF Build
<1> HIDE DEF p
<1>3. PICK n \in Nat : ArePieces(S, c, n, p, from, to)
  BY <1>1, PiecesFacts
<1> HIDE DEF S, c
<1>4. PICK m \in Nat : IsTimeline(Coalesce(S), m, p, from, to)
  BY <1>3, CoalesceFacts
<1>5. QED
  BY <1>2, <1>4 DEF p

-----------------------------------------------------------------------------
(* The calendar and the facts.                                              *)

(* The length of a day and the day boundary are times, the boundary within  *)
(* the day.                                                                 *)
LEMMA Calendar ==
  /\ DayLength \in Times /\ DayBoundary \in Times /\ DayLength \in Int /\ DayBoundary \in Int
  /\ 0 < DayLength /\ 0 <= DayBoundary /\ DayBoundary < DayLength
  /\ DayLength \in Nat
<1>1. /\ DayLength \in Times /\ DayBoundary \in Times
      /\ DayBoundary \in 0 .. DayLength - 1
  BY CalendarAssumption DEF CalendarAssumption
<1>2. DayLength \in Int /\ DayBoundary \in Int
  BY <1>1, TimesArithmetic
<1>3. QED
  BY <1>1, <1>2

(* A number of days is a time.                                              *)
LEMMA WholeDays ==
  ASSUME NEW k \in Int
  PROVE  k * DayLength \in Times /\ k * DayLength \in Int
<1>1. PICK h \in Int : DayLength = 2 * h
  BY Calendar DEF Times
<1> DEFINE z == k * h
<1>2. z \in Int
  BY <1>1
<1>3. k * DayLength = 2 * z
  BY <1>1
<1> HIDE DEF z
<1>4. QED
  BY <1>2, <1>3 DEF Times

(* ReportingPeriod: the reporting day of an instant is the one it lies in.  *)
LEMMA ReportingDayFacts ==
  ASSUME NEW t \in Times
  PROVE  /\ ReportingDay(t) \in Times /\ ReportingDay(t) \in Int
         /\ ReportingDay(t) <= t /\ t < ReportingDay(t) + DayLength
         /\ \E k \in Int : ReportingDay(t) = k * DayLength + DayBoundary
<1> DEFINE q == t \div DayLength
           d == q * DayLength
           start == d + DayBoundary
<1>1. t \in Int
  BY TimesArithmetic
<1>2. q \in Int /\ d <= t /\ t < d + DayLength
  BY <1>1, Calendar
<1>3. d \in Times /\ d \in Int
  <2> HIDE DEF q
  <2>1. QED
    BY <1>2, WholeDays
<1>4. start \in Times /\ start - DayLength \in Times
  <2> HIDE DEF d
  <2>1. QED
    BY <1>3, Calendar, TimesArithmetic
<1>5. ReportingDay(t) = IF t < start THEN start - DayLength ELSE start
  BY DEF ReportingDay
<1>6. d - DayLength = (q - 1) * DayLength
  <2> HIDE DEF q
  <2>1. QED
    BY <1>2, Calendar
<1>7. q - 1 \in Int
  BY <1>2
<1> HIDE DEF q, d
<1>11. start = d + DayBoundary /\ start \in Int
  BY <1>4, TimesArithmetic
<1> HIDE DEF start
<1>8. CASE t < start
  <2>1. ReportingDay(t) = d + DayBoundary - DayLength
    BY <1>1, <1>3, <1>5, <1>8, <1>11, Calendar
  <2>2. ReportingDay(t) = (q - 1) * DayLength + DayBoundary
    BY <1>3, <1>6, <2>1, Calendar
  <2>3. ReportingDay(t) \in Times
    BY <1>4, <1>5, <1>8
  <2>4. ReportingDay(t) <= t /\ t < ReportingDay(t) + DayLength
    BY <1>1, <1>2, <1>3, <1>8, <1>11, <2>1, Calendar
  <2>5. QED
    BY <1>3, <1>7, <2>1, <2>2, <2>3, <2>4, Calendar
<1>9. CASE ~(t < start)
  <2>1. ReportingDay(t) = d + DayBoundary
    BY <1>5, <1>9, <1>11
  <2>2. ReportingDay(t) = q * DayLength + DayBoundary
    BY <2>1 DEF d
  <2>3. ReportingDay(t) \in Times
    BY <1>4, <1>5, <1>9
  <2>4. ReportingDay(t) <= t /\ t < ReportingDay(t) + DayLength
    BY <1>1, <1>2, <1>3, <1>9, <1>11, <2>1, Calendar
  <2>5. QED
    BY <1>2, <1>3, <2>1, <2>2, <2>3, <2>4, Calendar
<1>10. QED
  BY <1>8, <1>9

(* A stored context keeps its times when it is decoded.                     *)
LEMMA ParseContextTimes ==
  ASSUME NEW s, NEW e, NEW data
  PROVE  /\ Stored!ParseContext(s, e, data).start = s
         /\ Stored!ParseContext(s, e, data).end = e
BY DEF Stored!ParseContext

(* A host context starts and ends at the time it was recorded.              *)
LEMMA HostContextTimes ==
  ASSUME NEW item
  PROVE  Stored!HostContext(item).start = item.at /\ Stored!HostContext(item).end = item.at
BY DEF Stored!HostContext

(* What Normalize makes of facts is evidence for the classifier.            *)
LEMMA EvidenceIsEvidence ==
  ASSUME NEW f, IsFacts(f)
  PROVE  IsEvidence(Evidence(f))
<1> DEFINE c1 == [i \in DOMAIN f.stored |->
                   Stored!ParseContext(f.stored[i].start, f.stored[i].end, f.stored[i].data)]
           c2 == [i \in DOMAIN f.host |-> Stored!HostContext(f.host[i])]
           c == c1 \o c2
           n1 == Len(f.stored)
           n2 == Len(f.host)
<1>1. /\ n1 \in Nat /\ DOMAIN f.stored = 1 .. n1
      /\ n2 \in Nat /\ DOMAIN f.host = 1 .. n2
  BY DEF IsFacts
<1>2. /\ \A i \in 1 .. n1 : f.stored[i] \in Range(f.stored)
      /\ \A i \in 1 .. n2 : f.host[i] \in Range(f.host)
  BY <1>1 DEF Range
<1>3. \A i \in 1 .. n1 : Timed(c1[i])
  <2> TAKE i \in 1 .. n1
  <2>1. Timed(f.stored[i])
    BY <1>2 DEF IsFacts
  <2> DEFINE x == f.stored[i]
             y == Stored!ParseContext(x.start, x.end, x.data)
  <2>2. c1[i] = y
    BY <1>1
  <2>3. y.start = x.start /\ y.end = x.end
    BY ParseContextTimes
  <2> HIDE DEF c1, y
  <2>4. QED
    BY <2>1, <2>2, <2>3 DEF Timed
<1>4. \A i \in 1 .. n2 : Timed(c2[i])
  <2> TAKE i \in 1 .. n2
  <2>1. f.host[i].at \in Times
    BY <1>2 DEF IsFacts
  <2> DEFINE x == f.host[i]
             y == Stored!HostContext(x)
  <2>2. c2[i] = y
    BY <1>1
  <2>3. y.start = x.at /\ y.end = x.at
    BY HostContextTimes
  <2>5. x.at \in Times /\ x.at \in Int
    BY <2>1, TimesArithmetic
  <2> HIDE DEF c2, x, y
  <2>4. QED
    BY <2>2, <2>3, <2>5 DEF Timed
<1>5. /\ DOMAIN c1 = 1 .. n1 /\ Len(c1) = n1 /\ DOMAIN c2 = 1 .. n2 /\ Len(c2) = n2
      /\ c1 = [i \in 1 .. n1 |-> c1[i]] /\ c2 = [i \in 1 .. n2 |-> c2[i]]
  BY <1>1
<1> HIDE DEF c1, c2, n1, n2
<1> DEFINE X == {c1[i] : i \in 1 .. n1} \cup {c2[i] : i \in 1 .. n2}
<1>6. c1 \in Seq(X) /\ c2 \in Seq(X)
  <2>1. c1 \in [1 .. n1 -> X] /\ c2 \in [1 .. n2 -> X]
    BY <1>5
  <2> HIDE DEF X
  <2>2. QED
    BY <1>1, <2>1
<1> HIDE DEF X
<1>7. /\ Len(c) = n1 + n2 /\ DOMAIN c = 1 .. n1 + n2
      /\ \A i \in 1 .. n1 + n2 : c[i] = IF i <= n1 THEN c1[i] ELSE c2[i - n1]
  BY <1>1, <1>5, <1>6
<1>8. \A i \in 1 .. n1 + n2 : Timed(c[i])
  <2> TAKE i \in 1 .. n1 + n2
  <2>1. CASE i <= n1
    BY <1>1, <1>3, <1>7, <2>1
  <2>2. CASE ~(i <= n1)
    <3>1. i - n1 \in 1 .. n2
      BY <1>1, <2>2
    <3> HIDE DEF c
    <3>2. QED
      BY <1>4, <1>7, <2>2, <3>1
  <2>3. QED
    BY <2>1, <2>2
<1>9. c \in Seq(Range(c)) /\ \A e \in Range(c) : Timed(e)
  <2>1. c \in Seq(X)
    BY <1>6
  <2>2. n1 + n2 \in Nat
    BY <1>1
  <2>3. c \in Seq(Range(c))
    <3> HIDE DEF c
    <3>1. c \in [1 .. n1 + n2 -> Range(c)]
      <4>1. c = [i \in 1 .. n1 + n2 |-> c[i]]
        BY <1>7, <2>1
      <4>2. QED
        BY <1>7, <4>1 DEF Range
    <3>2. QED
      BY <2>2, <3>1
  <2> HIDE DEF c
  <2>4. QED
    BY <1>7, <1>8, <2>3 DEF Range
<1>10. /\ Evidence(f).windows = f.windows /\ Evidence(f).afks = f.afks
       /\ Evidence(f).passive = f.passive /\ Evidence(f).contexts = c
  BY DEF Evidence, c, c1, c2
<1>11. f.windows \in Seq(WindowEvent) /\ f.afks \in Seq(AFKEvent) /\ \A e \in f.passive : Timed(e)
  BY DEF IsFacts
<1> HIDE DEF c
<1>12. QED
  BY <1>9, <1>10, <1>11 DEF IsEvidence

-----------------------------------------------------------------------------
(* The answers.                                                             *)

(* An odd number is an instant between two times.                           *)
LEMMA OddFacts ==
  /\ \A t \in Int : t % 2 = 1 <=> t \notin Times
  /\ \A t \in Int : t % 2 = 1 => t \in Int \ Times
  /\ \A t \in Times : t - 1 \in Int \ Times
  /\ \A s \in Times, t \in Int \ Times : s # t /\ s \in Int
BY DEF Times

(* A timeline has a segment at every instant between two times.             *)
LEMMA SegmentExists ==
  ASSUME NEW T, NEW n \in Nat, NEW p, NEW from \in Times, NEW to \in Times,
         IsTimeline(T, n, p, from, to),
         NEW t \in Int \ Times, from < t, t < to
  PROVE  \E i \in 1 .. n : T[i].start < t /\ t < T[i].end
<1> DEFINE later == {i \in 1 .. n : t < T[i].end}
<1>1. from \in Int /\ to \in Int /\ n # 0
  BY TimesArithmetic DEF IsTimeline
<1>2. n \in later
  BY <1>1 DEF IsTimeline
<1>3. PICK i \in later : \A m \in later : i <= m
  <2>1. later \subseteq Nat
    OBVIOUS
  <2> HIDE DEF later
  <2>2. QED
    BY <1>2, <2>1, NatMin
<1>4. i \in 1 .. n /\ t < T[i].end /\ T[i].start \in Int /\ T[i].start \in Times
  BY DEF IsTimeline
<1>5. CASE i = 1
  BY <1>1, <1>4, <1>5 DEF IsTimeline
<1>6. CASE i # 1
  <2>1. i - 1 \in 1 .. n - 1 /\ i - 1 \in 1 .. n /\ i - 1 \notin later
    BY <1>3, <1>4, <1>6
  <2>2. ~(t < T[i - 1].end) /\ T[i - 1].end \in Int
    BY <2>1 DEF IsTimeline
  <2>3. T[i - 1].end = T[(i - 1) + 1].start /\ (i - 1) + 1 = i
    <3> HIDE DEF later
    <3>1. \A k \in 1 .. n - 1 : T[k].end = T[k + 1].start
      BY DEF IsTimeline
    <3>2. QED
      BY <1>4, <2>1, <3>1
  <2>4. T[i].start <= t /\ T[i].start # t
    BY <1>4, <2>2, <2>3, OddFacts
  <2>5. QED
    BY <1>4, <2>4
<1>7. QED
  BY <1>5, <1>6

(* The segment at an instant, whichever way it is chosen, says what the     *)
(* evidence says there.                                                     *)
LEMMA SegmentIsExact ==
  ASSUME NEW T, NEW n \in Nat, NEW p, NEW from \in Times, NEW to \in Times,
         IsTimeline(T, n, p, from, to),
         NEW t \in Int \ Times, from < t, t < to
  PROVE  LET s == CHOOSE x \in Range(T) : x.start < t /\ t < x.end
         IN \E i \in 1 .. n : /\ s = T[i] /\ T[i].start < t /\ t < T[i].end
                              /\ T[i].says = Classify(p, t)
<1> DEFINE s == CHOOSE x \in Range(T) : x.start < t /\ t < x.end
<1>1. DOMAIN T = 1 .. n
  BY DEF IsTimeline
<1>2. \E x \in Range(T) : x.start < t /\ t < x.end
  <2>1. PICK i \in 1 .. n : T[i].start < t /\ t < T[i].end
    BY SegmentExists
  <2>2. T[i] \in Range(T)
    BY <1>1 DEF Range
  <2>3. QED
    BY <2>1, <2>2
<1>3. s \in Range(T) /\ s.start < t /\ t < s.end
  BY <1>2
<1> HIDE DEF s
<1>4. PICK i \in 1 .. n : s = T[i]
  BY <1>1, <1>3 DEF Range
<1>5. T[i].says = Classify(p, t)
  BY <1>3, <1>4 DEF IsTimeline
<1>6. QED
  BY <1>3, <1>4, <1>5 DEF s

(* The last segment says what holds just before the end.                    *)
LEMMA LastSegmentIsExact ==
  ASSUME NEW T, NEW n \in Nat, NEW p, NEW from \in Times, NEW to \in Times,
         IsTimeline(T, n, p, from, to), n # 0
  PROVE  Last(T) = T[n] /\ T[n].says = Classify(p, to - 1)
<1>1. Last(T) = T[n]
  BY DEF IsTimeline, Last
<1>2. n \in 1 .. n
  OBVIOUS
<1>3. T[n].start \in Times /\ T[n].start < to /\ T[n].end = to /\ to \in Int
      /\ T[n].start \in Int
  BY <1>2, TimesArithmetic DEF IsTimeline
<1>4. to - T[n].start >= 2
  BY <1>3, TimesArithmetic
<1>5. to - 1 \in Int \ Times /\ T[n].start < to - 1 /\ to - 1 < T[n].end
  BY <1>3, <1>4, OddFacts
<1>6. QED
  BY <1>1, <1>2, <1>5 DEF IsTimeline

(* The inductive invariant: what the store holds, and held when a day of    *)
(* the week was reported, are facts, and what was answered is computed from *)
(* them.                                                                    *)
IsAsked == IsFacts(facts) /\ now \in Times

IsSnapshots(s) == s \in Seq(Range(s)) /\ \A i \in 1 .. Len(s) : IsFacts(s[i])

Answer(f, t) == [report |-> Today(f, t), status |-> Status(Today(f, t), t)]

IsAnswered ==
  /\ IsAsked
  /\ IsSnapshots(snapshots)
  /\ today = None \/ today = Answer(facts, now)
  /\ week # None => week = Week(snapshots, now) /\ Len(snapshots) - 1 = Len(DayStarts(now)) - 1

(* Joining two sequences.                                                   *)
LEMMA ConcatIs ==
  ASSUME NEW a, NEW b, NEW m \in Nat, NEW k \in Nat,
         a = [i \in 1 .. m |-> a[i]], b = [i \in 1 .. k |-> b[i]]
  PROVE  /\ Len(a \o b) = m + k /\ DOMAIN (a \o b) = 1 .. m + k
         /\ \A i \in 1 .. m + k : (a \o b)[i] = IF i <= m THEN a[i] ELSE b[i - m]
<1> DEFINE X == {a[i] : i \in 1 .. m} \cup {b[i] : i \in 1 .. k}
<1>1. a \in [1 .. m -> X] /\ b \in [1 .. k -> X]
  OBVIOUS
<1>2. DOMAIN a = 1 .. m /\ DOMAIN b = 1 .. k
  OBVIOUS
<1> HIDE DEF X
<1>3. a \in Seq(X) /\ b \in Seq(X)
  BY <1>1
<1>4. Len(a) = m /\ Len(b) = k
  BY <1>2, <1>3
<1>5. QED
  BY <1>3, <1>4

(* What Append does.                                                        *)
LEMMA AppendIs ==
  ASSUME NEW X, NEW s \in Seq(X), NEW e \in X, NEW n \in Nat, DOMAIN s = 1 .. n
  PROVE  /\ Append(s, e) \in Seq(X)
         /\ DOMAIN Append(s, e) = 1 .. n + 1
         /\ Append(s, e)[n + 1] = e
         /\ \A i \in 1 .. n : Append(s, e)[i] = s[i]
<1>1. Len(s) = n
  OBVIOUS
<1>2. QED
  BY <1>1

(* Two sequences of facts joined.                                           *)
LEMMA JoinedInSeq ==
  ASSUME NEW X, NEW s \in Seq(X), NEW r \in Seq(X)
  PROVE  /\ s \o r \in Seq(X)
         /\ s \o r \in Seq(Range(s \o r))
         /\ Range(s \o r) \subseteq Range(s) \cup Range(r)
<1> DEFINE n == Len(s)
           m == Len(r)
           j == s \o r
<1>1. n \in Nat /\ m \in Nat /\ DOMAIN s = 1 .. n /\ DOMAIN r = 1 .. m
  OBVIOUS
<1>2. j \in Seq(X) /\ s = [i \in 1 .. n |-> s[i]] /\ r = [i \in 1 .. m |-> r[i]]
  OBVIOUS
<1> HIDE DEF n, m
<1>3. /\ DOMAIN j = 1 .. n + m
      /\ \A i \in 1 .. n + m : j[i] = IF i <= n THEN s[i] ELSE r[i - n]
  BY <1>1, <1>2, ConcatIs
<1> HIDE DEF j
<1>9. j = [i \in 1 .. n + m |-> j[i]] /\ n + m \in Nat
  BY <1>1, <1>2, <1>3
<1>4. j \in [1 .. n + m -> Range(j)]
  BY <1>3, <1>9 DEF Range
<1>5. j \in Seq(Range(j))
  BY SMTT(30), <1>4, <1>9
<1>6. \A i \in 1 .. n + m : j[i] \in Range(s) \cup Range(r)
  <2> TAKE i \in 1 .. n + m
  <2>1. CASE i <= n
    <3>1. i \in 1 .. n /\ j[i] = s[i]
      BY <1>1, <1>3, <2>1
    <3>2. QED
      BY <1>1, <3>1 DEF Range
  <2>2. CASE ~(i <= n)
    <3>1. i - n \in 1 .. m /\ j[i] = r[i - n]
      BY <1>1, <1>3, <2>2
    <3>2. QED
      BY <1>1, <3>1 DEF Range
  <2>3. QED
    BY <2>1, <2>2
<1>7. Range(j) \subseteq Range(s) \cup Range(r)
  BY <1>3, <1>6 DEF Range
<1>8. QED
  BY <1>2, <1>5, <1>7 DEF j

(* A sequence is one over more than its elements.                           *)
LEMMA SeqOfMore ==
  ASSUME NEW s, NEW X, s \in Seq(Range(s)), Range(s) \subseteq X
  PROVE  s \in Seq(X)
OBVIOUS

(* What an Ingest leaves are facts.                                         *)
LEMMA IngestedIsFacts ==
  ASSUME NEW f, IsFacts(f), NEW a, IsFacts(a)
  PROVE  IsFacts(Ingested(f, a))
<1> DEFINE g == Ingested(f, a)
           X == Range(f.stored) \cup Range(a.stored)
           Y == Range(f.host) \cup Range(a.host)
<1>1. /\ f.windows \in Seq(WindowEvent) /\ f.afks \in Seq(AFKEvent)
      /\ a.windows \in Seq(WindowEvent) /\ a.afks \in Seq(AFKEvent)
      /\ f.stored \in Seq(Range(f.stored)) /\ f.host \in Seq(Range(f.host))
      /\ a.stored \in Seq(Range(a.stored)) /\ a.host \in Seq(Range(a.host))
      /\ \A e \in Range(f.stored) \cup f.passive : Timed(e)
      /\ \A e \in Range(a.stored) \cup a.passive : Timed(e)
      /\ \A e \in Range(f.host) \cup Range(a.host) : e.at \in Times
  BY DEF IsFacts
<1>2. /\ g.windows = f.windows \o a.windows /\ g.afks = f.afks \o a.afks
      /\ g.stored = f.stored \o a.stored /\ g.host = f.host \o a.host
      /\ g.passive = f.passive \cup a.passive
  BY DEF Ingested
<1> HIDE DEF g
<1>3. g.windows \in Seq(WindowEvent) /\ g.afks \in Seq(AFKEvent)
  BY <1>1, <1>2, JoinedInSeq
<1>4. f.stored \in Seq(X) /\ a.stored \in Seq(X) /\ f.host \in Seq(Y) /\ a.host \in Seq(Y)
  <2>1. Range(f.stored) \subseteq X /\ Range(a.stored) \subseteq X
        /\ Range(f.host) \subseteq Y /\ Range(a.host) \subseteq Y
    OBVIOUS
  <2> HIDE DEF X, Y
  <2>2. QED
    BY <1>1, <2>1, SeqOfMore
<1>5. g.stored \in Seq(Range(g.stored)) /\ Range(g.stored) \subseteq X
  <2>1. f.stored \o a.stored \in Seq(Range(f.stored \o a.stored))
        /\ Range(f.stored \o a.stored) \subseteq X
    BY <1>4, JoinedInSeq
  <2>2. QED
    BY <1>2, <2>1
<1>6. g.host \in Seq(Range(g.host)) /\ Range(g.host) \subseteq Y
  <2>1. f.host \o a.host \in Seq(Range(f.host \o a.host))
        /\ Range(f.host \o a.host) \subseteq Y
    BY <1>4, JoinedInSeq
  <2>2. QED
    BY <1>2, <2>1
<1>7. IsFacts(g)
  BY <1>1, <1>2, <1>3, <1>5, <1>6 DEF IsFacts
<1>8. QED
  BY <1>7 DEF g

(* One more day of the week is reported.                                    *)
LEMMA SnapshotIsTaken ==
  ASSUME NEW s, IsSnapshots(s), NEW f, IsFacts(f)
  PROVE  IsSnapshots(Append(s, f)) /\ Len(Append(s, f)) = Len(s) + 1
<1> DEFINE X == Range(s) \cup {f}
           n == Len(s)
           r == Append(s, f)
<1>1. s \in Seq(Range(s)) /\ \A i \in 1 .. Len(s) : IsFacts(s[i])
  BY DEF IsSnapshots
<1>2. s \in Seq(X) /\ f \in X
  <2>1. Range(s) \subseteq X /\ f \in X
    OBVIOUS
  <2> HIDE DEF X
  <2>2. QED
    BY <1>1, <2>1, SeqOfMore
<1> HIDE DEF X
<1>3. n \in Nat /\ DOMAIN s = 1 .. n
  BY <1>1
<1>4. /\ r \in Seq(X) /\ DOMAIN r = 1 .. n + 1 /\ r[n + 1] = f
      /\ \A i \in 1 .. n : r[i] = s[i]
  BY <1>2, <1>3, AppendIs
<1>5. \A i \in 1 .. n : IsFacts(s[i])
  BY <1>1
<1> HIDE DEF n, r
<1>6. Len(r) = n + 1 /\ r = [i \in 1 .. n + 1 |-> r[i]]
  BY <1>3, <1>4
<1>7. \A i \in 1 .. n + 1 : IsFacts(r[i])
  <2> TAKE i \in 1 .. n + 1
  <2>1. i \in 1 .. n \/ i = n + 1
    BY <1>3
  <2>2. QED
    BY <1>4, <1>5, <2>1
<1>8. r \in [1 .. n + 1 -> Range(r)]
  BY <1>4, <1>6 DEF Range
<1>9. r \in Seq(Range(r))
  BY SMTT(30), <1>3, <1>8
<1>10. IsSnapshots(r)
  BY <1>6, <1>7, <1>9 DEF IsSnapshots
<1>11. QED
  BY <1>6, <1>10 DEF r, n

(* Reports keep no state of their own: at every time the answer is computed *)
(* from the stored facts, a week from what was stored when each of its days *)
(* was reported (Engine.Today, Engine.Week).                                *)
THEOREM ReportsAreComputed == Spec => []IsAnswered
<1>1. Init => IsAnswered
  <2> SUFFICES ASSUME Init PROVE IsAnswered
    OBVIOUS
  <2>1. IsSnapshots(<<>>)
    BY DEF IsSnapshots
  <2>2. QED
    BY <2>1, CasesAssumption DEF Init, IsAnswered, IsAsked
<1>2. IsAnswered /\ [Next]_vars => IsAnswered'
  <2> SUFFICES ASSUME IsAnswered, [Next]_vars PROVE IsAnswered'
    OBVIOUS
  <2>1. CASE HandleToday
    BY <2>1 DEF IsAnswered, IsAsked, HandleToday, Answer
  <2>2. CASE ReportPastDay
    <3>1. IsSnapshots(Append(snapshots, facts))
      BY SnapshotIsTaken DEF IsAnswered, IsAsked
    <3>2. snapshots' = Append(snapshots, facts) /\ UNCHANGED <<facts, now, today, week>> /\ week = None
      BY <2>2 DEF ReportPastDay
    <3>3. QED
      BY <3>1, <3>2 DEF IsAnswered, IsAsked
  <2>3. CASE HandleWeek
    <3>1. IsSnapshots(Append(snapshots, facts)) /\ Len(Append(snapshots, facts)) = Len(snapshots) + 1
      BY SnapshotIsTaken DEF IsAnswered, IsAsked
    <3>2. /\ snapshots' = Append(snapshots, facts) /\ week' = Week(snapshots', now)
          /\ UNCHANGED <<facts, now, today>> /\ Len(snapshots) = Len(DayStarts(now)) - 1
      BY <2>3 DEF HandleWeek
    <3>3. Len(snapshots') - 1 = Len(DayStarts(now)) - 1
      <4>1. Len(snapshots) \in Int
        BY DEF IsAnswered, IsSnapshots
      <4>2. QED
        BY <3>1, <3>2, <4>1
    <3>4. QED
      BY <3>1, <3>2, <3>3 DEF IsAnswered, IsAsked
  <2>4. CASE Ingest
    <3>1. PICK a \in Arrivals : facts' = Ingested(facts, a)
      BY <2>4 DEF Ingest
    <3>2. IsFacts(facts')
      BY <3>1, IngestedIsFacts, CasesAssumption DEF IsAnswered, IsAsked
    <3>3. QED
      BY <2>4, <3>2 DEF IsAnswered, IsAsked, Ingest
  <2>5. CASE UNCHANGED vars
    BY <2>5 DEF IsAnswered, IsAsked, vars
  <2>6. QED
    BY <2>1, <2>2, <2>3, <2>4, <2>5 DEF Next
<1>3. QED
  BY <1>1, <1>2, PTL DEF Spec

(* What the invariant says of the facts, the time and the evidence.         *)
LEMMA AskedFacts ==
  ASSUME IsAnswered
  PROVE  /\ IsFacts(facts) /\ now \in Times /\ now \in Int
         /\ From \in Times /\ From \in Int /\ From <= now
         /\ IsEvidence(Evidence(facts))
         /\ IsPrepared(Prepared(Evidence(facts)))
<1>1. IsFacts(facts) /\ now \in Times
  BY DEF IsAnswered, IsAsked
<1>2. now \in Int /\ From \in Times /\ From \in Int /\ From <= now
  BY <1>1, ReportingDayFacts, TimesArithmetic DEF From
<1>3. IsEvidence(Evidence(facts))
  BY <1>1, EvidenceIsEvidence
<1>4. QED
  BY <1>1, <1>2, <1>3, PreparedFacts

(* What the report of today shows.                                          *)
LEMMA TodayFacts ==
  ASSUME IsAnswered, today # None
  PROVE  \E n \in Nat :
           /\ IsTimeline(today.report.timeline, n, Prepared(Evidence(facts)), From, now)
           /\ today.report.timeline = Build(Evidence(facts), From, now)
           /\ today.report = BuildDay(today.report.timeline, now, TRUE)
           /\ today.status = Status(today.report, now)
<1>1. today = Answer(facts, now)
  BY DEF IsAnswered
<1>2. today.report = Today(facts, now) /\ today.status = Status(today.report, now)
  BY <1>1 DEF Answer
<1>3. today.report = BuildDay(Build(Evidence(facts), From, now), now, TRUE)
  BY <1>2 DEF Today, Day, From
<1>4. today.report.timeline = Build(Evidence(facts), From, now)
  BY <1>3 DEF BuildDay
<1>5. \E n \in Nat : IsTimeline(Build(Evidence(facts), From, now), n,
                                Prepared(Evidence(facts)), From, now)
  BY AskedFacts, BuildFacts
<1>6. QED
  BY <1>2, <1>3, <1>4, <1>5

(* Between two times of the day lies an instant at which a segment is.      *)
LEMMA BetweenFacts ==
  ASSUME IsAnswered, NEW t \in Between
  PROVE  t \in Int \ Times /\ From < t /\ t < now
<1>1. t \in From .. now /\ t % 2 = 1
  BY DEF Between
<1>2. t \in Int /\ t \notin Times
  BY <1>1, AskedFacts, OddFacts
<1>3. QED
  BY <1>1, <1>2, AskedFacts

(* At an instant between two times, the segment of the report says what the *)
(* evidence says.                                                           *)
LEMMA TodaysSegment ==
  ASSUME IsAnswered, today # None, NEW t \in Between
  PROVE  SegmentAt(t).says = Classify(Prepared(Evidence(facts)), t)
<1>1. PICK n \in Nat :
        IsTimeline(today.report.timeline, n, Prepared(Evidence(facts)), From, now)
  BY TodayFacts
<1>2. t \in Int \ Times /\ From < t /\ t < now
  BY BetweenFacts
<1> DEFINE T == today.report.timeline
           s == CHOOSE x \in Range(T) : x.start < t /\ t < x.end
<1>3. \E i \in 1 .. n : /\ s = T[i] /\ T[i].start < t /\ t < T[i].end
                        /\ T[i].says = Classify(Prepared(Evidence(facts)), t)
  <2> HIDE DEF T
  <2>1. IsTimeline(T, n, Prepared(Evidence(facts)), From, now)
    BY <1>1 DEF T
  <2>2. From \in Times /\ now \in Times
    BY AskedFacts
  <2>3. QED
    BY <1>2, <2>1, <2>2, SegmentIsExact
<1>4. SegmentAt(t) = s
  BY DEF SegmentAt
<1> HIDE DEF s, T
<1>5. s.says = Classify(Prepared(Evidence(facts)), t)
  BY <1>3
<1>6. QED
  BY <1>4, <1>5

(* The timeline of the report of today covers the day so far.               *)
LEMMA TimelineCovers ==
  ASSUME IsAnswered
  PROVE  TimelineCoversPeriod
<1> SUFFICES ASSUME today # None PROVE TimelineCoversPeriod
  BY DEF TimelineCoversPeriod
<1> DEFINE T == today.report.timeline
<1>1. PICK n \in Nat : IsTimeline(T, n, Prepared(Evidence(facts)), From, now)
  BY TodayFacts
<1> HIDE DEF T
<1>2. CASE From = now
  BY <1>1, <1>2 DEF TimelineCoversPeriod, IsTimeline, T
<1>3. CASE From # now
  <2>1. T[1].start = From /\ T[Len(T)].end = now
    BY <1>1, <1>3 DEF IsTimeline
  <2>2. \A i \in DOMAIN T : T[i].start < T[i].end
    BY <1>1 DEF IsTimeline
  <2>3. \A i \in 1 .. Len(T) - 1 : T[i].end = T[i + 1].start /\ T[i].says # T[i + 1].says
    BY <1>1 DEF IsTimeline
  <2>4. QED
    BY <1>3, <2>1, <2>2, <2>3 DEF TimelineCoversPeriod, T
<1>4. QED
  BY <1>2, <1>3

(* Every instant of the day so far is reported as the classifier sees it.   *)
LEMMA InstantsAreClassified ==
  ASSUME IsAnswered
  PROVE  EveryInstantIsClassified
<1> SUFFICES ASSUME today # None PROVE EveryInstantIsClassified
  BY DEF EveryInstantIsClassified
<1> DEFINE T == today.report.timeline
           p == Prepared(Evidence(facts))
<1>1. PICK n \in Nat : /\ IsTimeline(T, n, p, From, now)
                       /\ today.status = Status(today.report, now)
  BY TodayFacts
<1>3. \A t \in Between : SegmentAt(t).says = Classify(p, t)
  BY TodaysSegment
<1>4. today.status.says = IF T = <<>> THEN None ELSE Last(T).says
  BY <1>1 DEF Status
<1> HIDE DEF T, p
<1>5. today.status.says = IF From = now THEN None ELSE Classify(p, now - 1)
  <2>1. T = <<>> <=> From = now
    BY <1>1 DEF IsTimeline
  <2>2. CASE From = now
    BY <1>4, <2>1, <2>2
  <2>3. CASE From # now
    <3>1. n # 0
      BY <1>1, <2>3 DEF IsTimeline
    <3>2. Last(T).says = Classify(p, now - 1)
      <4>1. IsTimeline(T, n, p, From, now) /\ From \in Times /\ now \in Times
        BY <1>1, AskedFacts
      <4>2. n \in Nat
        OBVIOUS
      <4>3. Last(T) = T[n] /\ T[n].says = Classify(p, now - 1)
        BY <3>1, <4>1, <4>2, LastSegmentIsExact, Zenon
      <4>4. QED
        BY <4>3
    <3>3. QED
      BY <1>4, <2>1, <2>3, <3>2
  <2>4. QED
    BY <2>2, <2>3
<1>6. QED
  BY <1>3, <1>5 DEF EveryInstantIsClassified, p

(* TimelineIsExact: for all facts and at every time, the report of today is *)
(* a gapless sequence of segments of which each says, at each instant in    *)
(* it, what the classifier makes of the evidence at that instant.           *)
THEOREM TimelineTheorem == Spec => []TimelineIsExact
<1>1. IsAnswered => TimelineIsExact
  BY TimelineCovers, InstantsAreClassified DEF TimelineIsExact
<1>2. QED
  BY <1>1, ReportsAreComputed, PTL

-----------------------------------------------------------------------------
(* Fresh evidence.                                                          *)

(* What the classifier calls work has a fresh window that is not locked,    *)
(* and a fresh context in the office or a fresh AFK event.                  *)
LEMMA WorkIsEvident ==
  ASSUME NEW f, IsEvidence(f), NEW t \in Int, Classify(Prepared(f), t).state = "WORKING"
  PROVE  /\ \E w \in Range(f.windows) : Eligible(w, t) /\ ~Locked(w)
         /\ \/ \E c \in Range(f.contexts) : Eligible(c, t) /\ InOffice(c)
            \/ \E a \in Range(f.afks) : Eligible(a, t)
<1> DEFINE p == Prepared(f)
           w == Find(p.windows, t)
           a == Find(p.afks, t)
           c == Find(p.contexts, t)
<1>1. PICK passive : Classify(p, t).state = State(w, a, c, passive, t)
  BY DEF Classify
<1>2. /\ IsPrepared(p)
      /\ \A i \in DOMAIN p.windows : p.windows[i] \in Range(f.windows)
      /\ \A i \in DOMAIN p.contexts : p.contexts[i] \in Range(f.contexts)
      /\ \A i \in DOMAIN p.afks : \A u \in Int : Eligible(p.afks[i], u) =>
           \E x \in Range(f.afks) : Eligible(x, u)
  BY PreparedFacts
<1>3. /\ w = None \/ \E k \in DOMAIN p.windows : w = p.windows[k] /\ Eligible(p.windows[k], t)
      /\ a = None \/ \E k \in DOMAIN p.afks : a = p.afks[k] /\ Eligible(p.afks[k], t)
      /\ c = None \/ \E k \in DOMAIN p.contexts : c = p.contexts[k] /\ Eligible(p.contexts[k], t)
  <2> HIDE DEF p
  <2>1. WellFormed(p.windows) /\ WellFormed(p.afks) /\ WellFormed(p.contexts)
    BY <1>2 DEF IsPrepared
  <2>2. QED
    BY <2>1, FindInWellFormed
<1> HIDE DEF w, a, c, p
<1>4. State(w, a, c, passive, t) = "WORKING"
  BY <1>1 DEF p
<1>5. w # None /\ ~Locked(w)
  BY <1>4 DEF State
<1>6. InOffice(c) \/ a # None
  BY <1>4 DEF State, Active, Away
<1>7. \E x \in Range(f.windows) : Eligible(x, t) /\ ~Locked(x)
  BY <1>2, <1>3, <1>5
<1>8. CASE InOffice(c)
  <2>1. c # None
    BY <1>8 DEF InOffice
  <2>2. QED
    BY <1>2, <1>3, <1>7, <1>8, <2>1
<1>9. CASE a # None
  BY <1>2, <1>3, <1>7, <1>9
<1>10. QED
  BY <1>6, <1>8, <1>9

(* WorkHasFreshEvidence: merging and sorting never make an expired event    *)
(* count: whatever is reported as work had, at each of its instants, a      *)
(* stored window that was fresh, and a stored AFK event or context.         *)
THEOREM FreshEvidenceTheorem == Spec => []WorkHasFreshEvidence
<1>1. IsAnswered => WorkHasFreshEvidence
  <2> SUFFICES ASSUME IsAnswered, today # None,
                      NEW t \in Between, SegmentAt(t).says.state = "WORKING"
               PROVE  /\ \E w \in Range(facts.windows) : Eligible(w, t) /\ ~Locked(w)
                      /\ \/ \E c \in Range(Evidence(facts).contexts) :
                              Eligible(c, t) /\ InOffice(c)
                         \/ \E a \in Range(facts.afks) : Eligible(a, t)
    BY DEF WorkHasFreshEvidence
  <2> DEFINE f == Evidence(facts)
  <2>1. f.windows = facts.windows /\ f.afks = facts.afks
    BY DEF Evidence
  <2>2. Classify(Prepared(f), t).state = "WORKING"
    BY TodaysSegment
  <2>3. IsEvidence(f) /\ t \in Int
    BY AskedFacts, BetweenFacts
  <2> HIDE DEF f
  <2>4. /\ \E w \in Range(f.windows) : Eligible(w, t) /\ ~Locked(w)
        /\ \/ \E c \in Range(f.contexts) : Eligible(c, t) /\ InOffice(c)
           \/ \E a \in Range(f.afks) : Eligible(a, t)
    BY <2>2, <2>3, WorkIsEvident
  <2>5. QED
    BY <2>1, <2>4 DEF f
<1>2. QED
  BY <1>1, ReportsAreComputed, PTL

-----------------------------------------------------------------------------
(* Time as a number of instants: between two times there are half as many   *)
(* odd numbers as there is time.                                            *)

Inside(K, l, r) == {t \in K : t \in Int \ Times /\ l < t /\ t < r}
Time(K, l, r) == 2 * Cardinality(Inside(K, l, r))

(* The time that a set of instants takes is a natural number.               *)
LEMMA InsideIsFinite ==
  ASSUME NEW K, NEW l \in Int, NEW r \in Int
  PROVE  /\ IsFiniteSet(Inside(K, l, r))
         /\ Cardinality(Inside(K, l, r)) \in Nat
         /\ Time(K, l, r) \in Int /\ 0 <= Time(K, l, r)
<1>1. Inside(K, l, r) \in SUBSET (l .. r)
  BY DEF Inside
<1>2. IsFiniteSet(l .. r)
  BY FS_Interval
<1>3. IsFiniteSet(Inside(K, l, r))
  BY <1>1, <1>2, FS_Subset
<1>4. Cardinality(Inside(K, l, r)) \in Nat
  BY <1>3, FS_CardinalityType
<1>5. QED
  BY <1>3, <1>4 DEF Time

(* A period is cut by a time: no instant is lost or counted twice.          *)
LEMMA TimeSplit ==
  ASSUME NEW K, NEW l \in Int, NEW c \in Times, NEW r \in Int, l <= c, c <= r
  PROVE  Time(K, l, r) = Time(K, l, c) + Time(K, c, r)
<1> DEFINE A == Inside(K, l, c)
           B == Inside(K, c, r)
<1>1. c \in Int
  BY TimesArithmetic
<1>2. Inside(K, l, r) = A \cup B /\ A \cap B = {}
  BY <1>1 DEF Inside
<1>3. IsFiniteSet(A) /\ IsFiniteSet(B) /\ Cardinality(A) \in Nat /\ Cardinality(B) \in Nat
  BY <1>1, InsideIsFinite
<1> HIDE DEF A, B
<1>4. Cardinality(A \cup B) = Cardinality(A) + Cardinality(B)
  <2>1. Cardinality(A \cup B) = Cardinality(A) + Cardinality(B) - Cardinality(A \cap B)
    BY <1>3, FS_Union
  <2>2. Cardinality(A \cap B) = 0
    BY <1>2, FS_EmptySet
  <2>3. QED
    BY <1>3, <2>1, <2>2
<1>5. Time(K, l, r) = 2 * (Cardinality(A) + Cardinality(B))
  BY <1>2, <1>4 DEF Time
<1>6. QED
  BY <1>3, <1>5 DEF Time, A, B

(* A set of instants is cut by another one.                                 *)
LEMMA TimePlus ==
  ASSUME NEW K, NEW L, NEW M, NEW l \in Int, NEW r \in Int,
         \A t \in Int \ Times : l < t /\ t < r =>
           (t \in M <=> t \in K \/ t \in L) /\ ~(t \in K /\ t \in L)
  PROVE  Time(M, l, r) = Time(K, l, r) + Time(L, l, r)
<1> DEFINE A == Inside(K, l, r)
           B == Inside(L, l, r)
<1>2. Inside(M, l, r) = A \cup B /\ A \cap B = {}
  BY DEF Inside
<1>3. IsFiniteSet(A) /\ IsFiniteSet(B) /\ Cardinality(A) \in Nat /\ Cardinality(B) \in Nat
  BY InsideIsFinite
<1> HIDE DEF A, B
<1>4. Cardinality(A \cup B) = Cardinality(A) + Cardinality(B)
  <2>1. Cardinality(A \cup B) = Cardinality(A) + Cardinality(B) - Cardinality(A \cap B)
    BY <1>3, FS_Union
  <2>2. Cardinality(A \cap B) = 0
    BY <1>2, FS_EmptySet
  <2>3. QED
    BY <1>3, <2>1, <2>2
<1>5. Time(M, l, r) = 2 * (Cardinality(A) + Cardinality(B))
  BY <1>2, <1>4 DEF Time
<1>6. QED
  BY <1>3, <1>5 DEF Time, A, B

(* More instants take no less time.                                         *)
LEMMA TimeMonotone ==
  ASSUME NEW K, NEW L, NEW l \in Int, NEW r \in Int,
         \A t \in Int \ Times : l < t /\ t < r /\ t \in K => t \in L
  PROVE  Time(K, l, r) <= Time(L, l, r)
<1>1. Inside(K, l, r) \in SUBSET Inside(L, l, r)
  BY DEF Inside
<1>2. /\ IsFiniteSet(Inside(L, l, r))
      /\ Cardinality(Inside(K, l, r)) \in Nat /\ Cardinality(Inside(L, l, r)) \in Nat
  BY InsideIsFinite
<1>3. Cardinality(Inside(K, l, r)) <= Cardinality(Inside(L, l, r))
  BY <1>1, <1>2, FS_Subset
<1>4. QED
  BY <1>2, <1>3 DEF Time

(* The same instants take the same time.                                    *)
LEMMA TimeSame ==
  ASSUME NEW K, NEW L, NEW l \in Int, NEW r \in Int,
         \A t \in Int \ Times : l < t /\ t < r => (t \in K <=> t \in L)
  PROVE  Time(K, l, r) = Time(L, l, r)
<1>1. Inside(K, l, r) = Inside(L, l, r)
  BY DEF Inside
<1>2. QED
  BY <1>1 DEF Time

(* No instants take no time.                                                *)
LEMMA TimeZero ==
  ASSUME NEW K, NEW l \in Int, NEW r \in Int,
         \A t \in Int \ Times : l < t /\ t < r => t \notin K
  PROVE  Time(K, l, r) = 0
<1>1. Inside(K, l, r) = {}
  BY DEF Inside
<1>2. QED
  BY <1>1, FS_EmptySet DEF Time

(* All instants of a period take the time from its start to its end.        *)
LEMMA TimeFull ==
  ASSUME NEW K, NEW l \in Times, NEW r \in Times, l <= r,
         \A t \in Int \ Times : l < t /\ t < r => t \in K
  PROVE  Time(K, l, r) = r - l
<1> DEFINE n == (r - l) \div 2
           f == [i \in 1 .. n |-> l + 2 * i - 1]
           A == Inside(K, l, r)
<1>1. l \in Int /\ r \in Int /\ l % 2 = 0 /\ r % 2 = 0
  BY DEF Times
<1>2. n \in Nat /\ r = l + 2 * n
  BY <1>1
<1> HIDE DEF n
<1>3. \A i \in 1 .. n : f[i] \in A
  <2> TAKE i \in 1 .. n
  <2>1. f[i] = l + 2 * i - 1 /\ f[i] \in Int
    BY <1>1
  <2>2. f[i] \notin Times /\ l < f[i] /\ f[i] < r
    BY <1>1, <1>2, <2>1 DEF Times
  <2> HIDE DEF f
  <2>3. QED
    BY <2>1, <2>2 DEF Inside
<1>4. \A t \in A : \E i \in 1 .. n : f[i] = t
  <2> TAKE t \in A
  <2>1. t \in Int /\ t % 2 = 1 /\ l < t /\ t < r
    BY OddFacts DEF Inside
  <2> DEFINE i == (t - l + 1) \div 2
  <2>2. i \in Int /\ t = l + 2 * i - 1
    BY <1>1, <2>1
  <2> HIDE DEF i
  <2>3. i \in 1 .. n
    BY <1>1, <1>2, <2>1, <2>2
  <2>4. QED
    BY <2>2, <2>3
<1>5. \A i, j \in 1 .. n : f[i] = f[j] => i = j
  BY <1>1
<1>6. DOMAIN f = 1 .. n /\ f \in [1 .. n -> A]
  BY <1>3
<1> HIDE DEF f, A
<1>7. f \in Bijection(1 .. n, A)
  BY <1>4, <1>5, <1>6 DEF Bijection, Injection, Surjection, IsInjective
<1>8. Cardinality(A) = n
  BY <1>2, <1>7, FS_CountingElements DEF ExistsBijection
<1>9. Time(K, l, r) = 2 * n
  BY <1>8 DEF Time, A
<1>10. QED
  BY <1>1, <1>2, <1>9

(* The instant of a period that is nearest to another one.                  *)
Clamp(x, l, r) == IF x <= l THEN l ELSE IF x >= r THEN r ELSE x

(* A clamped time is a time of the period.                                  *)
LEMMA ClampFacts ==
  ASSUME NEW x \in Times, NEW l \in Times, NEW r \in Times, l <= r
  PROVE  /\ Clamp(x, l, r) \in Times /\ Clamp(x, l, r) \in Int
         /\ l <= Clamp(x, l, r) /\ Clamp(x, l, r) <= r
BY TimesArithmetic DEF Clamp

(* Overlap is the time between the clamped ends of a segment.               *)
LEMMA OverlapIs ==
  ASSUME NEW s, s.start \in Times, s.end \in Times, s.start <= s.end,
         NEW l \in Times, NEW r \in Times, l <= r
  PROVE  Overlap(s, l, r) = Clamp(s.end, l, r) - Clamp(s.start, l, r)
<1>1. s.start \in Int /\ s.end \in Int /\ l \in Int /\ r \in Int
  BY TimesArithmetic
<1> DEFINE a == Min({s.end, r})
           b == Max({s.start, l})
<1>2. /\ a = IF s.end <= r THEN s.end ELSE r
      /\ b = IF s.start >= l THEN s.start ELSE l
  BY <1>1, MaxMinOfTwo
<1>3. a - b \in Int
  BY <1>1, <1>2
<1>4. Overlap(s, l, r) = Max({0, a - b})
  BY DEF Overlap
<1> HIDE DEF a, b
<1>5. Max({0, a - b}) = IF 0 >= a - b THEN 0 ELSE a - b
  BY <1>3, MaxMinOfTwo
<1>6. QED
  BY <1>1, <1>2, <1>4, <1>5 DEF Clamp

(* What a timeline spends in counted segments between two times is the time *)
(* between the instants inside them.                                        *)
LEMMA SpentIs ==
  ASSUME NEW T, NEW n \in Nat, NEW p, NEW from \in Times, NEW to \in Times,
         IsTimeline(T, n, p, from, to), NEW C, NEW K,
         NEW l \in Times, NEW r \in Times, from <= l, l <= r, r <= to,
         \A i \in 1 .. n : \A t \in Int \ Times :
           T[i].start < t /\ t < T[i].end => (t \in K <=> i \in C)
  PROVE  Spent(T, C, l, r) = Time(K, l, r)
<1> DEFINE s == [i \in DOMAIN T |-> IF i \in C THEN Overlap(T[i], l, r) ELSE 0]
           edge(i) == IF i = 0 THEN from ELSE T[i].end
           c(i) == Clamp(edge(i), l, r)
           h == [i \in 0 .. n |-> Time(K, l, c(i))]
<1>0. /\ DOMAIN T = 1 .. n /\ Len(T) = n
      /\ from \in Int /\ to \in Int /\ l \in Int /\ r \in Int
  BY TimesArithmetic DEF IsTimeline
<1>1. \A i \in 1 .. n : /\ T[i].start \in Times /\ T[i].end \in Times
                        /\ T[i].start \in Int /\ T[i].end \in Int
                        /\ T[i].start <= T[i].end
  BY DEF IsTimeline
<1>2. \A i \in 0 .. n : edge(i) \in Times /\ edge(i) \in Int
  <2> TAKE i \in 0 .. n
  <2>1. CASE i = 0
    BY <1>0, <2>1
  <2>2. CASE i # 0
    <3>1. i \in 1 .. n
      BY <2>2
    <3>2. QED
      BY <1>1, <2>2, <3>1
  <2>3. QED
    BY <2>1, <2>2
<1>3. \A i \in 1 .. n : edge(i - 1) = T[i].start /\ edge(i) = T[i].end
  <2> TAKE i \in 1 .. n
  <2>1. CASE i = 1
    BY <2>1 DEF IsTimeline
  <2>2. CASE i # 1
    <3>1. i - 1 \in 1 .. n - 1 /\ (i - 1) + 1 = i /\ i - 1 # 0
      BY <2>2
    <3>2. \A k \in 1 .. n - 1 : T[k].end = T[k + 1].start
      BY DEF IsTimeline
    <3>3. QED
      BY <3>1, <3>2
  <2>3. QED
    BY <2>1, <2>2
<1>4. \A i \in 0 .. n : c(i) \in Times /\ c(i) \in Int /\ l <= c(i) /\ c(i) <= r
  <2> HIDE DEF edge
  <2>1. QED
    BY <1>2, ClampFacts
<1>5. \A i \in 1 .. n : s[i] = IF i \in C THEN c(i) - c(i - 1) ELSE 0
  <2> TAKE i \in 1 .. n
  <2>1. Overlap(T[i], l, r) = Clamp(T[i].end, l, r) - Clamp(T[i].start, l, r)
    BY <1>1, OverlapIs
  <2>2. c(i) = Clamp(T[i].end, l, r) /\ c(i - 1) = Clamp(T[i].start, l, r)
    <3> HIDE DEF edge
    <3>1. QED
      BY <1>3
  <2>3. s[i] = IF i \in C THEN Overlap(T[i], l, r) ELSE 0
    BY <1>0
  <2> HIDE DEF c, s
  <2>4. QED
    BY <2>1, <2>2, <2>3
<1>6. \A i \in 1 .. n : c(i - 1) <= c(i)
  <2> TAKE i \in 1 .. n
  <2>1. edge(i - 1) <= edge(i)
    <3> HIDE DEF edge
    <3>1. QED
      BY <1>1, <1>3
  <2>2. i - 1 \in 0 .. n /\ i \in 0 .. n
    OBVIOUS
  <2> HIDE DEF edge
  <2>3. QED
    BY <1>0, <1>2, <2>1, <2>2 DEF Clamp
<1>7. \A i \in 1 .. n : \A t \in Int \ Times : c(i - 1) < t /\ t < c(i) => (t \in K <=> i \in C)
  <2> SUFFICES ASSUME NEW i \in 1 .. n, NEW t \in Int \ Times, c(i - 1) < t, t < c(i)
               PROVE  t \in K <=> i \in C
    OBVIOUS
  <2>1. i - 1 \in 0 .. n /\ i \in 0 .. n /\ t \in Int
    OBVIOUS
  <2>2. edge(i - 1) < t /\ t < edge(i)
    <3>1. c(i - 1) < t /\ t < c(i)
      OBVIOUS
    <3> HIDE DEF edge
    <3>2. QED
      BY <1>0, <1>2, <2>1, <3>1 DEF Clamp
  <2>3. T[i].start < t /\ t < T[i].end
    <3> HIDE DEF edge
    <3>1. QED
      BY <1>3, <2>2
  <2>4. QED
    BY <2>3
<1> HIDE DEF c
<1>8. \A i \in 1 .. n : h[i] = h[i - 1] + s[i]
  <2> TAKE i \in 1 .. n
  <2> DEFINE a == c(i - 1)
             b == c(i)
  <2>1. i - 1 \in 0 .. n /\ i \in 0 .. n
    OBVIOUS
  <2>2. a \in Times /\ b \in Times /\ l <= a /\ a <= b /\ a \in Int /\ b \in Int
    BY <1>4, <1>6, <2>1
  <2>3. h[i] = Time(K, l, b) /\ h[i - 1] = Time(K, l, a)
    BY <2>1
  <2>4. \A t \in Int \ Times : a < t /\ t < b => (t \in K <=> i \in C)
    BY <1>7
  <2>5. s[i] = IF i \in C THEN b - a ELSE 0
    BY <1>5
  <2> HIDE DEF a, b, h, s
  <2>6. Time(K, l, b) = Time(K, l, a) + Time(K, a, b)
    BY <1>0, <2>2, TimeSplit
  <2>7. Time(K, a, b) = s[i]
    <3>1. CASE i \in C
      BY <2>2, <2>4, <2>5, <3>1, TimeFull
    <3>2. CASE i \notin C
      BY <2>2, <2>4, <2>5, <3>2, TimeZero
    <3>3. QED
      BY <3>1, <3>2
  <2>8. QED
    BY <2>3, <2>6, <2>7
<1>9. \A i \in 0 .. n : h[i] \in Int
  BY <1>0, <1>4, InsideIsFinite
<1>10. \A i \in 1 .. n : s[i] \in Int
  <2> TAKE i \in 1 .. n
  <2>1. i - 1 \in 0 .. n /\ i \in 0 .. n
    OBVIOUS
  <2> HIDE DEF s
  <2>2. QED
    BY <1>4, <1>5, <2>1
<1>11. Len(s) = n
  BY <1>0
<1>12. SumOf(s) = h[n] - h[0]
  <2> HIDE DEF s, h
  <2>1. QED
    BY <1>8, <1>9, <1>10, <1>11, SumIs
<1>13. h[0] = 0
  <2>1. c(0) = l
    BY <1>0 DEF c, Clamp
  <2>2. h[0] = Time(K, l, l)
    BY <2>1
  <2>3. Time(K, l, l) = 0
    <3>1. \A t \in Int \ Times : l < t /\ t < l => t \notin K
      BY <1>0
    <3>2. QED
      BY <1>0, <3>1, TimeZero
  <2>4. QED
    BY <2>2, <2>3
<1>14. h[n] = Time(K, l, r)
  <2>1. edge(n) = to
    BY <1>0 DEF IsTimeline
  <2>2. c(n) = r
    <3> HIDE DEF edge
    <3>1. QED
      BY <1>0, <2>1 DEF c, Clamp
  <2>3. QED
    BY <2>2
<1>15. Spent(T, C, l, r) = SumOf(s)
  BY DEF Spent
<1> HIDE DEF h, s
<1>16. Time(K, l, r) \in Int
  BY <1>0, InsideIsFinite
<1>17. QED
  BY <1>12, <1>13, <1>14, <1>15, <1>16

-----------------------------------------------------------------------------
(* Totals.                                                                  *)

(* The instants that are classified as a state.                             *)
Instants(p, state) == {t \in Int \ Times : Classify(p, t).state = state}

(* Classify names one of the states, and work only when a window is found.  *)
LEMMA StateFacts ==
  ASSUME NEW p, NEW t
  PROVE  /\ Classify(p, t).state \in States
         /\ Classify(p, t).state = "WORKING" => Find(p.windows, t) # None
         /\ Classify(p, t).app = IF Find(p.windows, t) = None THEN None
                                 ELSE Find(p.windows, t).app
<1>1. PICK passive : Classify(p, t).state = State(Find(p.windows, t), Find(p.afks, t),
                                                  Find(p.contexts, t), passive, t)
  BY DEF Classify
<1>2. Classify(p, t).state \in States
  BY <1>1 DEF State, States
<1>3. Classify(p, t).state = "WORKING" => Find(p.windows, t) # None
  BY <1>1 DEF State
<1>4. QED
  BY <1>2, <1>3 DEF Classify

(* The total of a state is the time that it takes by the classification.    *)
LEMMA TotalIs ==
  ASSUME NEW T, NEW n \in Nat, NEW p, NEW from \in Times, NEW to \in Times,
         IsTimeline(T, n, p, from, to),
         NEW l \in Times, NEW r \in Times, from <= l, l <= r, r <= to, NEW state
  PROVE  Total(T, state, l, r) = Time(Instants(p, state), l, r)
<1> DEFINE C == In(T, state)
           K == Instants(p, state)
<1>1. \A i \in 1 .. n : \A t \in Int \ Times :
        T[i].start < t /\ t < T[i].end => (t \in K <=> i \in C)
  <2> TAKE i \in 1 .. n
  <2> TAKE t \in Int \ Times
  <2> HAVE T[i].start < t /\ t < T[i].end
  <2>1. T[i].says = Classify(p, t) /\ DOMAIN T = 1 .. n
    BY DEF IsTimeline
  <2>2. QED
    BY <2>1 DEF In, Instants
<1> HIDE DEF C, K
<1>2. Spent(T, C, l, r) = Time(K, l, r)
  BY <1>1, SpentIs
<1>3. QED
  BY <1>2 DEF Total, C, K

(* The states share all the time: none is lost, none is counted twice.      *)
LEMMA StatesAreAll ==
  ASSUME NEW p, NEW l \in Times, NEW r \in Times, l <= r
  PROVE  Time(Instants(p, "WORKING"), l, r) + Time(Instants(p, "BREAK"), l, r)
           + Time(Instants(p, "UNTRACKED"), l, r) = r - l
<1> DEFINE W == Instants(p, "WORKING")
           B == Instants(p, "BREAK")
           U == Instants(p, "UNTRACKED")
<1>1. l \in Int /\ r \in Int
  BY TimesArithmetic
<1>2. \A t \in Int \ Times : /\ t \in W \/ t \in B \/ t \in U
                             /\ ~(t \in W /\ t \in B)
                             /\ ~((t \in W \/ t \in B) /\ t \in U)
  BY StateFacts DEF States, Instants
<1> HIDE DEF W, B, U
<1>3. Time(W \cup B, l, r) = Time(W, l, r) + Time(B, l, r)
  BY <1>1, <1>2, TimePlus
<1>4. Time(W \cup B \cup U, l, r) = Time(W \cup B, l, r) + Time(U, l, r)
  BY <1>1, <1>2, TimePlus
<1>5. Time(W \cup B \cup U, l, r) = r - l
  BY <1>2, TimeFull
<1>6. QED
  BY <1>3, <1>4, <1>5 DEF W, B, U

(* The totals of a timeline add up to the period.                           *)
LEMMA TotalsAreAll ==
  ASSUME NEW T, NEW n \in Nat, NEW p, NEW from \in Times, NEW to \in Times,
         IsTimeline(T, n, p, from, to),
         NEW l \in Times, NEW r \in Times, from <= l, l <= r, r <= to
  PROVE  InAll(Totals(T, l, r)) = r - l
<1> DEFINE K(state) == Time(Instants(p, state), l, r)
<1>1. /\ Total(T, "WORKING", l, r) = K("WORKING")
      /\ Total(T, "BREAK", l, r) = K("BREAK")
      /\ Total(T, "UNTRACKED", l, r) = K("UNTRACKED")
  BY TotalIs
<1>2. K("WORKING") + K("BREAK") + K("UNTRACKED") = r - l
  BY StatesAreAll
<1> HIDE DEF K
<1>3. InAll(Totals(T, l, r))
        = Total(T, "WORKING", l, r) + Total(T, "BREAK", l, r) + Total(T, "UNTRACKED", l, r)
  BY DEF InAll, Totals, States
<1>4. QED
  BY <1>1, <1>2, <1>3

(* The first and the last working segment.                                  *)
LEMMA WorkingFacts ==
  ASSUME NEW T, NEW n \in Nat, NEW p, NEW from \in Times, NEW to \in Times,
         IsTimeline(T, n, p, from, to), Working(T) # {}
  PROVE  /\ Working(T) \subseteq 1 .. n /\ IsFiniteSet(Working(T))
         /\ Min(Working(T)) \in Working(T) /\ \A i \in Working(T) : Min(Working(T)) <= i
         /\ Max(Working(T)) \in Working(T) /\ \A i \in Working(T) : i <= Max(Working(T))
<1>1. Working(T) \in SUBSET (1 .. n)
  BY DEF Working, In, IsTimeline
<1>2. IsFiniteSet(Working(T))
  BY <1>1, FS_Interval, FS_Subset
<1>3. Working(T) \subseteq Int
  BY <1>1
<1>4. QED
  BY <1>1, <1>2, <1>3, MaxMinFacts

(* The coverage of a day is made of all of its timeline.                    *)
LEMMA CoverageIs ==
  ASSUME NEW T, NEW n, NEW p, NEW from, NEW to, IsTimeline(T, n, p, from, to)
  PROVE  Calculate(T, to).coverage = Totals(T, from, to)
<1>1. (IF T = <<>> THEN to ELSE T[1].start) = from
  BY DEF IsTimeline
<1>2. Calculate(T, to).coverage = Totals(T, IF T = <<>> THEN to ELSE T[1].start, to)
  BY DEF Calculate
<1>3. QED
  BY <1>1, <1>2

(* The day runs from the first work to an end that no work is beyond.       *)
LEMMA CalculateFacts ==
  ASSUME NEW T, NEW n \in Nat, NEW p, NEW from \in Times, NEW to \in Times,
         IsTimeline(T, n, p, from, to), from <= to
  PROVE  /\ Working(T) = {} =>
              /\ Calculate(T, to).start = None
              /\ Calculate(T, to).end = to
              /\ Calculate(T, to).totals = [s \in States |-> 0]
         /\ Working(T) # {} =>
              /\ Calculate(T, to).start \in Times /\ Calculate(T, to).start \in Int
              /\ Calculate(T, to).end \in Times /\ Calculate(T, to).end \in Int
              /\ from <= Calculate(T, to).start
              /\ Calculate(T, to).start < Calculate(T, to).end
              /\ Calculate(T, to).end <= to
              /\ Calculate(T, to).totals
                   = Totals(T, Calculate(T, to).start, Calculate(T, to).end)
              /\ \A i \in Working(T) : /\ Calculate(T, to).start <= T[i].start
                                       /\ T[i].end <= Calculate(T, to).end
<1>0. from \in Int /\ to \in Int
  BY TimesArithmetic
<1>2. CASE Working(T) = {}
  BY <1>2 DEF Calculate
<1>3. CASE Working(T) # {}
  <2> DEFINE first == Min(Working(T))
             last == Max(Working(T))
             C == Calculate(T, to)
  <2>1. /\ Working(T) \subseteq 1 .. n
        /\ first \in Working(T) /\ \A i \in Working(T) : first <= i
        /\ last \in Working(T) /\ \A i \in Working(T) : i <= last
    BY <1>3, WorkingFacts
  <2>2. /\ C.start = T[first].start
        /\ C.end = EffectiveEnd(T, to)
        /\ C.totals = Totals(T, T[first].start, EffectiveEnd(T, to))
    BY <1>3 DEF Calculate
  <2>3. EffectiveEnd(T, to) = T[last].end \/ EffectiveEnd(T, to) = to
    BY DEF EffectiveEnd
  <2> HIDE DEF first, last, C
  <2>4. \A i \in 1 .. n : /\ T[i].start \in Times /\ T[i].end \in Times
                          /\ T[i].start \in Int /\ T[i].end \in Int
                          /\ from <= T[i].start /\ T[i].start < T[i].end /\ T[i].end <= to
    BY DEF IsTimeline
  <2>5. \A i, j \in 1 .. n : i < j => T[i].end <= T[j].start
    BY DEF IsTimeline
  <2>6. first \in 1 .. n /\ last \in 1 .. n
    BY <2>1
  <2>7. \A i \in Working(T) : T[first].start <= T[i].start /\ T[i].end <= T[last].end
    <3> TAKE i \in Working(T)
    <3>1. i \in 1 .. n /\ first <= i /\ i <= last
      BY <2>1
    <3>2. first = i \/ first < i
      BY <2>6, <3>1
    <3>3. last = i \/ i < last
      BY <2>6, <3>1
    <3>4. T[first].start <= T[i].start
      BY <2>4, <2>5, <2>6, <3>1, <3>2
    <3>5. T[i].end <= T[last].end
      BY <2>4, <2>5, <2>6, <3>1, <3>3
    <3>6. QED
      BY <3>4, <3>5
  <2>8. /\ C.start \in Times /\ C.start \in Int /\ C.end \in Times /\ C.end \in Int
        /\ from <= C.start /\ C.end <= to /\ T[last].end <= C.end
    BY <1>0, <2>2, <2>3, <2>4, <2>6
  <2>9. \A i \in Working(T) : C.start <= T[i].start /\ T[i].end <= C.end
    <3> TAKE i \in Working(T)
    <3>1. i \in 1 .. n
      BY <2>1
    <3>2. QED
      BY <2>2, <2>4, <2>6, <2>7, <2>8, <3>1
  <2>10. C.start < C.end
    BY <2>1, <2>4, <2>6, <2>8, <2>9
  <2>11. QED
    BY <1>3, <2>2, <2>8, <2>9, <2>10 DEF C
<1>4. QED
  BY <1>2, <1>3

(* Where there is no working segment there is no work.                      *)
LEMMA WorkIsInSegments ==
  ASSUME NEW T, NEW n \in Nat, NEW p, NEW from \in Times, NEW to \in Times,
         IsTimeline(T, n, p, from, to),
         NEW t \in Instants(p, "WORKING"), from < t, t < to
  PROVE  \E i \in Working(T) : /\ i \in 1 .. n /\ T[i].start < t /\ t < T[i].end
                               /\ T[i].says = Classify(p, t)
<1>1. t \in Int \ Times /\ Classify(p, t).state = "WORKING"
  BY DEF Instants
<1>2. PICK i \in 1 .. n : T[i].start < t /\ t < T[i].end
  BY <1>1, SegmentExists
<1>3. T[i].says = Classify(p, t) /\ DOMAIN T = 1 .. n
  BY <1>1, <1>2 DEF IsTimeline
<1>4. i \in Working(T)
  BY <1>1, <1>3 DEF Working, In
<1>5. QED
  BY <1>2, <1>3, <1>4

(* Trimming the day trims no work.                                          *)
LEMMA WorkIsCovered ==
  ASSUME NEW T, NEW n \in Nat, NEW p, NEW from \in Times, NEW to \in Times,
         IsTimeline(T, n, p, from, to), from <= to
  PROVE  /\ Calculate(T, to).totals["WORKING"] = Time(Instants(p, "WORKING"), from, to)
         /\ Calculate(T, to).coverage["WORKING"] = Time(Instants(p, "WORKING"), from, to)
<1> DEFINE K == Instants(p, "WORKING")
           start == Calculate(T, to).start
           end == Calculate(T, to).end
<1>0. from \in Int /\ to \in Int
  BY TimesArithmetic
<1>1. Calculate(T, to).coverage["WORKING"] = Time(K, from, to)
  <2>1. Calculate(T, to).coverage = Totals(T, from, to)
    BY CoverageIs
  <2>2. Total(T, "WORKING", from, to) = Time(K, from, to)
    <3>1. from <= from /\ to <= to
      BY <1>0
    <3>2. QED
      BY <3>1, TotalIs
  <2>3. QED
    BY <2>1, <2>2 DEF Totals, States
<1>2. CASE Working(T) = {}
  <2>1. Calculate(T, to).totals["WORKING"] = 0
    BY <1>2, CalculateFacts DEF States
  <2>2. \A t \in Int \ Times : from < t /\ t < to => t \notin K
    BY <1>2, WorkIsInSegments
  <2>3. Time(K, from, to) = 0
    BY <1>0, <2>2, TimeZero
  <2>4. QED
    BY <1>1, <2>1, <2>3
<1>3. CASE Working(T) # {}
  <2>1. /\ start \in Times /\ start \in Int /\ end \in Times /\ end \in Int
        /\ from <= start /\ start < end /\ end <= to
        /\ Calculate(T, to).totals = Totals(T, start, end)
        /\ \A i \in Working(T) : start <= T[i].start /\ T[i].end <= end
    BY <1>3, CalculateFacts
  <2> HIDE DEF start, end
  <2>2. Total(T, "WORKING", start, end) = Time(K, start, end)
    BY <2>1, TotalIs
  <2>3. \A t \in Int \ Times : from < t /\ t < to /\ t \in K => start < t /\ t < end
    <3> TAKE t \in Int \ Times
    <3> HAVE from < t /\ t < to /\ t \in K
    <3>1. PICK i \in Working(T) : /\ i \in 1 .. n /\ T[i].start < t /\ t < T[i].end
                                  /\ T[i].says = Classify(p, t)
      BY WorkIsInSegments
    <3>2. T[i].start \in Int /\ T[i].end \in Int /\ t \in Int
      BY <3>1 DEF IsTimeline
    <3>3. start <= T[i].start /\ T[i].end <= end
      BY <2>1
    <3>4. QED
      BY <2>1, <3>1, <3>2, <3>3
  <2> HIDE DEF K
  <2>4. Time(K, from, start) = 0
    <3>1. \A t \in Int \ Times : from < t /\ t < start => t \notin K
      BY <1>0, <2>1, <2>3
    <3>2. QED
      BY <1>0, <2>1, <3>1, TimeZero
  <2>5. Time(K, end, to) = 0
    <3>1. \A t \in Int \ Times : end < t /\ t < to => t \notin K
      BY <1>0, <2>1, <2>3
    <3>2. QED
      BY <1>0, <2>1, <3>1, TimeZero
  <2>6. Time(K, from, to) = Time(K, from, start) + Time(K, start, to)
    BY <1>0, <2>1, TimeSplit
  <2>7. Time(K, start, to) = Time(K, start, end) + Time(K, end, to)
    BY <1>0, <2>1, TimeSplit
  <2>8. Time(K, start, end) \in Int
    BY <2>1, InsideIsFinite
  <2>9. Calculate(T, to).totals["WORKING"] = Time(K, start, end)
    BY <2>1, <2>2 DEF Totals, States
  <2>10. QED
    BY <1>1, <2>4, <2>5, <2>6, <2>7, <2>8, <2>9 DEF K
<1>4. QED
  BY <1>2, <1>3

(* The report of today accounts for the period.                             *)
LEMMA TodayAccounts ==
  ASSUME IsAnswered
  PROVE  TotalsAccountForThePeriod
<1> SUFFICES ASSUME today # None PROVE TotalsAccountForThePeriod
  BY DEF TotalsAccountForThePeriod
<1> DEFINE T == today.report.timeline
           p == Prepared(Evidence(facts))
           C == Calculate(T, now)
<1>1. PICK n \in Nat : /\ IsTimeline(T, n, p, From, now)
                       /\ today.report = BuildDay(T, now, TRUE)
  BY TodayFacts
<1>2. /\ From \in Times /\ From \in Int /\ now \in Times /\ now \in Int /\ From <= now
  BY AskedFacts
<1>3. /\ today.report.coverage = C.coverage /\ today.report.totals = C.totals
      /\ today.report.start = C.start /\ today.report.end = C.end
  BY SMTT(30), <1>1 DEF BuildDay
<1>4. n \in Nat
  OBVIOUS
<1> HIDE DEF T, p, C
<1>5. InAll(C.coverage) = now - From
  <2>1. C.coverage = Totals(T, From, now)
    BY <1>1, CoverageIs DEF C
  <2>2. From <= From /\ now <= now
    BY <1>2
  <2>3. InAll(Totals(T, From, now)) = now - From
    BY <1>1, <1>2, <1>4, <2>2, TotalsAreAll
  <2>4. QED
    BY <2>1, <2>3
<1>6. ASSUME C.start # None PROVE InAll(C.totals) = C.end - C.start
  <2>1. Working(T) # {}
    BY <1>1, <1>2, <1>6, CalculateFacts DEF C
  <2>2. /\ C.start \in Times /\ C.start \in Int /\ C.end \in Times /\ C.end \in Int
        /\ From <= C.start /\ C.start < C.end /\ C.end <= now
        /\ C.totals = Totals(T, C.start, C.end)
    BY <1>1, <1>2, <2>1, CalculateFacts DEF C
  <2>3. C.start <= C.end
    BY <2>2
  <2>4. InAll(Totals(T, C.start, C.end)) = C.end - C.start
    BY <1>1, <1>2, <2>2, <2>3, TotalsAreAll
  <2>5. QED
    BY <2>2, <2>4
<1>7. C.totals["WORKING"] = C.coverage["WORKING"]
  BY <1>1, <1>2, WorkIsCovered DEF C
<1>8. QED
  BY <1>3, <1>5, <1>6, <1>7 DEF TotalsAccountForThePeriod

-----------------------------------------------------------------------------
(* Usage.                                                                   *)

(* The elements of a finite set in a row: each of them once.                *)
LEMMA SetToSeqFacts ==
  ASSUME NEW S, IsFiniteSet(S)
  PROVE  /\ Cardinality(S) \in Nat
         /\ SetToSeq(S) \in [1 .. Cardinality(S) -> S]
         /\ \A i, j \in 1 .. Cardinality(S) : SetToSeq(S)[i] = SetToSeq(S)[j] => i = j
         /\ \A x \in S : \E i \in 1 .. Cardinality(S) : SetToSeq(S)[i] = x
<1> DEFINE m == Cardinality(S)
           f == SetToSeq(S)
<1>1. m \in Nat /\ ExistsBijection(1 .. m, S)
  BY FS_CardinalityType
<1>2. \E g \in [1 .. m -> S] : IsInjective(g)
  BY <1>1 DEF ExistsBijection, Bijection, Injection
<1>3. f \in [1 .. m -> S] /\ IsInjective(f)
  BY <1>2 DEF SetToSeq
<1> HIDE DEF m, f
<1>4. f \in Injection(1 .. m, S)
  BY <1>3 DEF Injection
<1>5. Cardinality(1 .. m) = m
  BY <1>1, FS_Interval
<1>6. f \in Surjection(1 .. m, S)
  BY <1>4, <1>5, FS_Injection DEF m
<1>7. \A i, j \in 1 .. m : f[i] = f[j] => i = j
  BY <1>3 DEF IsInjective
<1>8. \A x \in S : \E i \in 1 .. m : f[i] = x
  BY <1>6 DEF Surjection
<1>9. QED
  BY <1>1, <1>3, <1>7, <1>8 DEF m, f

(* The instants of a state in which an application of a set is used.        *)
Using(p, state, apps) == {t \in Instants(p, state) : Classify(p, t).app \in apps}

(* The segments of an application.                                          *)
Of(T, app) == {i \in DOMAIN T : T[i].says.app = app}

(* The usage of an application in a state is the time of the instants it is *)
(* used at.                                                                 *)
LEMMA UsedByOne ==
  ASSUME NEW T, NEW n \in Nat, NEW p, NEW from \in Times, NEW to \in Times,
         IsTimeline(T, n, p, from, to),
         NEW l \in Times, NEW r \in Times, from <= l, l <= r, r <= to, NEW state, NEW app
  PROVE  Spent(T, Of(T, app) \cap In(T, state), l, r)
           = Time(Using(p, state, {app}), l, r)
<1> DEFINE C == Of(T, app) \cap In(T, state)
           K == Using(p, state, {app})
<1>1. \A i \in 1 .. n : \A t \in Int \ Times :
        T[i].start < t /\ t < T[i].end => (t \in K <=> i \in C)
  <2> TAKE i \in 1 .. n
  <2> TAKE t \in Int \ Times
  <2> HAVE T[i].start < t /\ t < T[i].end
  <2>1. T[i].says = Classify(p, t) /\ DOMAIN T = 1 .. n
    BY DEF IsTimeline
  <2>2. QED
    BY <2>1 DEF In, Of, Instants, Using
<1> HIDE DEF C, K
<1>2. Spent(T, C, l, r) = Time(K, l, r)
  BY <1>1, SpentIs
<1>3. QED
  BY <1>2 DEF C, K

(* How long all applications are used in a state.                           *)
Used(usage, state) ==
  LET apps == SetToSeq(DOMAIN usage) IN SumOf([k \in DOMAIN apps |-> usage[apps[k]][state]])

(* The usages of several applications add up: they share no instant.        *)
LEMMA UsedByAll ==
  ASSUME NEW T, NEW n \in Nat, NEW p, NEW from \in Times, NEW to \in Times,
         IsTimeline(T, n, p, from, to),
         NEW l \in Times, NEW r \in Times, from <= l, l <= r, r <= to, NEW state,
         NEW usage, IsFiniteSet(DOMAIN usage),
         \A app \in DOMAIN usage : usage[app][state]
           = Spent(T, Of(T, app) \cap In(T, state), l, r)
  PROVE  Used(usage, state) = Time(Using(p, state, DOMAIN usage), l, r)
<1> DEFINE S == DOMAIN usage
           m == Cardinality(S)
           A == SetToSeq(S)
           s == [k \in DOMAIN A |-> usage[A[k]][state]]
           upTo(k) == {A[j] : j \in 1 .. k}
           h == [k \in 0 .. m |-> Time(Using(p, state, upTo(k)), l, r)]
<1>0. l \in Int /\ r \in Int
  BY TimesArithmetic
<1>1. /\ m \in Nat
      /\ A \in [1 .. m -> S]
      /\ \A i, j \in 1 .. m : A[i] = A[j] => i = j
      /\ \A x \in S : \E i \in 1 .. m : A[i] = x
  BY SetToSeqFacts
<1>2. DOMAIN A = 1 .. m /\ \A k \in 1 .. m : A[k] \in S
  BY <1>1
<1> HIDE DEF A, m, S
<1>3. \A k \in 1 .. m : s[k] = Time(Using(p, state, {A[k]}), l, r)
  <2> TAKE k \in 1 .. m
  <2>1. s[k] = usage[A[k]][state]
    BY <1>2
  <2>2. usage[A[k]][state]
          = Spent(T, Of(T, A[k]) \cap In(T, state), l, r)
    BY <1>2 DEF S
  <2> HIDE DEF s
  <2> DEFINE app == A[k]
  <2>3. Spent(T, Of(T, app) \cap In(T, state), l, r)
          = Time(Using(p, state, {app}), l, r)
    <3> HIDE DEF app
    <3>1. QED
      BY UsedByOne
  <2>4. QED
    BY <2>1, <2>2, <2>3
<1>4. \A k \in 0 .. m : h[k] = Time(Using(p, state, upTo(k)), l, r)
  OBVIOUS
<1>5. Len(s) = m
  BY <1>1, <1>2
<1> HIDE DEF s, h
<1>6. \A k \in 1 .. m : h[k] = h[k - 1] + s[k]
  <2> TAKE k \in 1 .. m
  <2>1. k - 1 \in 0 .. m /\ k \in 0 .. m
    BY <1>1
  <2>2. \A x : (x \in upTo(k) <=> x \in upTo(k - 1) \/ x \in {A[k]})
               /\ ~(x \in upTo(k - 1) /\ x \in {A[k]})
    <3>1. \A j \in 1 .. k : j = k \/ j \in 1 .. k - 1
      BY <1>1
    <3>2. \A j \in 1 .. k - 1 : j \in 1 .. k /\ j \in 1 .. m /\ j # k
      BY <1>1
    <3>3. k \in 1 .. k
      BY <1>1
    <3>4. \A j \in 1 .. k - 1 : A[j] # A[k]
      BY <1>1, <3>2
    <3>5. QED
      BY <3>1, <3>2, <3>3, <3>4
  <2> HIDE DEF upTo
  <2>3. \A t \in Int \ Times : l < t /\ t < r =>
          (t \in Using(p, state, upTo(k))
             <=> t \in Using(p, state, upTo(k - 1)) \/ t \in Using(p, state, {A[k]}))
          /\ ~(t \in Using(p, state, upTo(k - 1)) /\ t \in Using(p, state, {A[k]}))
    BY <2>2 DEF Using
  <2>4. Time(Using(p, state, upTo(k)), l, r)
          = Time(Using(p, state, upTo(k - 1)), l, r) + Time(Using(p, state, {A[k]}), l, r)
    BY <1>0, <2>3, TimePlus
  <2>5. QED
    BY <1>3, <1>4, <2>1, <2>4
<1>7. \A k \in 0 .. m : h[k] \in Int
  BY <1>0, <1>4, InsideIsFinite
<1>8. \A k \in 1 .. m : s[k] \in Int
  BY <1>0, <1>3, InsideIsFinite
<1>9. SumOf(s) = h[m] - h[0]
  <2>1. m \in Nat
    BY <1>1
  <2> HIDE DEF upTo
  <2>2. QED
    BY <1>5, <1>6, <1>7, <1>8, <2>1, SumIs
<1>10. h[0] = 0
  <2>1. h[0] = Time(Using(p, state, upTo(0)), l, r)
    BY <1>1, <1>4
  <2>2. \A t \in Int \ Times : l < t /\ t < r => t \notin Using(p, state, upTo(0))
    BY DEF Using
  <2> HIDE DEF upTo
  <2>3. QED
    BY <1>0, <2>1, <2>2, TimeZero
<1>11. upTo(m) = S
  BY <1>1, <1>2
<1> HIDE DEF upTo
<1>12. h[m] = Time(Using(p, state, S), l, r)
  <2>1. m \in 0 .. m
    BY <1>1
  <2>2. QED
    BY <1>4, <1>11, <2>1
<1>13. Time(Using(p, state, S), l, r) \in Int
  BY <1>0, InsideIsFinite
<1>14. QED
  BY <1>9, <1>10, <1>12, <1>13 DEF s, A, S, Used

(* Usage has every application of a segment in the day, with what is spent  *)
(* in it.                                                                   *)
LEMMA UsageFacts ==
  ASSUME NEW T, NEW n \in Nat, NEW p, NEW from \in Times, NEW to \in Times,
         IsTimeline(T, n, p, from, to), NEW l, NEW r
  PROVE  /\ IsFiniteSet(DOMAIN Usage(T, l, r))
         /\ \A app \in DOMAIN Usage(T, l, r) : \A state \in States :
              Usage(T, l, r)[app][state] = Spent(T, Of(T, app) \cap In(T, state), l, r)
         /\ \A i \in 1 .. n : T[i].end > l /\ T[i].start < r /\ T[i].says.app # None
              => T[i].says.app \in DOMAIN Usage(T, l, r)
<1> DEFINE near == {x \in Range(T) : x.end > l /\ x.start < r}
           apps == {s.says.app : s \in near} \ {None}
           of(app) == {i \in DOMAIN T : T[i].says.app = app}
           U == [app \in apps |->
                   [state \in States |-> Spent(T, of(app) \cap In(T, state), l, r)]]
<1>1. Usage(T, l, r) = U
  BY DEF Usage
<1>2. DOMAIN T = 1 .. n
  BY DEF IsTimeline
<1>3. DOMAIN Usage(T, l, r) = apps
  BY <1>1
<1>4. IsFiniteSet(apps)
  <2> DEFINE g == [i \in 1 .. n |-> T[i].says.app]
  <2>1. IsFiniteSet({g[i] : i \in 1 .. n})
    <3>1. IsFiniteSet(1 .. n) /\ DOMAIN g = 1 .. n
      BY FS_Interval
    <3> HIDE DEF g
    <3>2. QED
      BY <3>1, ImageIsFinite
  <2>2. apps \in SUBSET {g[i] : i \in 1 .. n}
    BY <1>2 DEF Range
  <2> HIDE DEF g, apps
  <2>3. QED
    BY <2>1, <2>2, FS_Subset
<1>5. \A app \in apps : \A state \in States :
        U[app][state] = Spent(T, Of(T, app) \cap In(T, state), l, r)
  <2> HIDE DEF apps
  <2>1. \A app : of(app) = Of(T, app)
    BY DEF Of
  <2> HIDE DEF of
  <2>2. QED
    BY <2>1
<1>6. \A i \in 1 .. n : T[i].end > l /\ T[i].start < r /\ T[i].says.app # None
        => T[i].says.app \in apps
  BY <1>2 DEF Range
<1> HIDE DEF apps, U
<1>7. QED
  BY <1>1, <1>3, <1>4, <1>5, <1>6

(* Work is always done in an application.                                   *)
LEMMA WorkHasAnApp ==
  ASSUME NEW f, IsEvidence(f), NEW t, Classify(Prepared(f), t).state = "WORKING"
  PROVE  Classify(Prepared(f), t).app # None
<1> DEFINE p == Prepared(f)
           w == Find(p.windows, t)
<1>1. w # None /\ Classify(p, t).app = IF w = None THEN None ELSE w.app
  BY StateFacts
<1>2. WellFormed(p.windows) /\ \A i \in DOMAIN p.windows : p.windows[i] \in Range(f.windows)
  BY PreparedFacts DEF IsPrepared
<1>3. f.windows \in Seq(WindowEvent)
  BY DEF IsEvidence
<1>4. \A i \in DOMAIN p.windows : p.windows[i] \in WindowEvent
  BY <1>2, <1>3 DEF Range
<1>5. \E k \in DOMAIN p.windows : w = p.windows[k]
  <2> HIDE DEF p
  <2>1. QED
    BY <1>1, <1>2, FindInWellFormed
<1> HIDE DEF w, p
<1>6. w \in WindowEvent
  BY <1>4, <1>5
<1>7. w.app \in STRING
  BY <1>6 DEF WindowEvent
<1>8. QED
  BY <1>1, <1>7, NoneAssumption DEF p

(* All the work that a report trims to is some application's.               *)
LEMMA UsedIsWork ==
  ASSUME NEW T, NEW n \in Nat, NEW f, IsEvidence(f), NEW from \in Times, NEW to \in Times,
         IsTimeline(T, n, Prepared(f), from, to),
         NEW l \in Times, NEW r \in Times, from <= l, l <= r, r <= to
  PROVE  /\ Used(Usage(T, l, r), "WORKING") = Total(T, "WORKING", l, r)
         /\ Used(Usage(T, l, r), "BREAK") <= Total(T, "BREAK", l, r)
         /\ Used(Usage(T, l, r), "UNTRACKED") <= Total(T, "UNTRACKED", l, r)
<1> DEFINE p == Prepared(f)
           U == Usage(T, l, r)
           S == DOMAIN U
<1>0. l \in Int /\ r \in Int /\ from \in Int /\ to \in Int
  BY TimesArithmetic
<1>1. /\ IsFiniteSet(S)
      /\ \A app \in S : \A state \in States :
           U[app][state] = Spent(T, Of(T, app) \cap In(T, state), l, r)
      /\ \A i \in 1 .. n : T[i].end > l /\ T[i].start < r /\ T[i].says.app # None
           => T[i].says.app \in S
  BY UsageFacts
<1> HIDE DEF p, U
<1>2. \A state \in States : Used(U, state) = Time(Using(p, state, S), l, r)
  <2> TAKE state \in States
  <2>1. IsTimeline(T, n, p, from, to)
    BY DEF p
  <2>2. \A app \in S : U[app][state] = Spent(T, Of(T, app) \cap In(T, state), l, r)
    BY <1>1
  <2>3. QED
    BY <1>1, <2>1, <2>2, UsedByAll
<1>3. \A state \in States : Total(T, state, l, r) = Time(Instants(p, state), l, r)
  BY TotalIs DEF p
<1>4. \A state \in States : Time(Using(p, state, S), l, r) <= Time(Instants(p, state), l, r)
  <2> TAKE state \in States
  <2>1. \A t \in Int \ Times : l < t /\ t < r /\ t \in Using(p, state, S)
          => t \in Instants(p, state)
    BY DEF Using
  <2>2. QED
    BY <1>0, <2>1, TimeMonotone
<1>5. Time(Using(p, "WORKING", S), l, r) = Time(Instants(p, "WORKING"), l, r)
  <2>1. \A t \in Int \ Times : l < t /\ t < r =>
          (t \in Using(p, "WORKING", S) <=> t \in Instants(p, "WORKING"))
    <3> TAKE t \in Int \ Times
    <3> HAVE l < t /\ t < r
    <3>1. t \in Using(p, "WORKING", S) => t \in Instants(p, "WORKING")
      BY DEF Using
    <3>2. ASSUME t \in Instants(p, "WORKING") PROVE t \in Using(p, "WORKING", S)
      <4>1. from < t /\ t < to /\ t \in Int
        BY <1>0
      <4>2. PICK i \in Working(T) : /\ i \in 1 .. n /\ T[i].start < t /\ t < T[i].end
                                    /\ T[i].says = Classify(p, t)
        BY <3>2, <4>1, WorkIsInSegments DEF p
      <4>3. T[i].start \in Int /\ T[i].end \in Int
        BY <4>2 DEF IsTimeline
      <4>4. T[i].end > l /\ T[i].start < r
        BY <1>0, <4>1, <4>2, <4>3
      <4>5. T[i].says.app # None
        <5>1. Classify(p, t).state = "WORKING"
          BY <3>2 DEF Instants
        <5>2. QED
          BY <4>2, <5>1, WorkHasAnApp DEF p
      <4>6. Classify(p, t).app \in S
        BY <1>1, <4>2, <4>4, <4>5
      <4>7. QED
        BY <3>2, <4>6 DEF Using
    <3>3. QED
      BY <3>1, <3>2
  <2>2. QED
    BY <1>0, <2>1, TimeSame
<1>6. {"WORKING", "BREAK", "UNTRACKED"} \subseteq States
  BY DEF States
<1> HIDE DEF S
<1>7. QED
  BY <1>2, <1>3, <1>4, <1>5, <1>6 DEF U

(* The work of a day lies between its first and its last work.              *)
Worked(T, to) == {i \in Working(T) : T[i].start < Calculate(T, to).end}
FirstWork(T, to) == Min({T[i].start : i \in Worked(T, to)})
LastWork(T, to) == Max({Min({T[i].end, Calculate(T, to).end}) : i \in Worked(T, to)})

(* No work lies before the first work or after the last work of a day.      *)
LEMMA WorkLiesInTheDay ==
  ASSUME NEW T, NEW n \in Nat, NEW p, NEW from \in Times, NEW to \in Times,
         IsTimeline(T, n, p, from, to), from <= to, Working(T) # {}
  PROVE  /\ Worked(T, to) # {}
         /\ \A i \in Working(T) : /\ FirstWork(T, to) <= T[i].start
                                  /\ T[i].end <= LastWork(T, to)
         /\ FirstWork(T, to) \in Int /\ LastWork(T, to) \in Int
<1> DEFINE C == Calculate(T, to)
           worked == Worked(T, to)
           starts == {T[j].start : j \in Working(T)}
           ends == {Min({T[j].end, C.end}) : j \in Working(T)}
<1>1. /\ C.end \in Int
      /\ \A i \in Working(T) : T[i].end <= C.end
  BY CalculateFacts
<1>2. Working(T) \subseteq 1 .. n /\ IsFiniteSet(Working(T))
  BY WorkingFacts
<1>3. \A i \in 1 .. n : T[i].start \in Int /\ T[i].end \in Int /\ T[i].start < T[i].end
  BY DEF IsTimeline
<1> HIDE DEF C
<1>4. worked = Working(T)
  BY <1>1, <1>2, <1>3 DEF Worked, C
<1>5. \A i \in Working(T) : Min({T[i].end, C.end}) = T[i].end
  BY <1>1, <1>2, <1>3, MaxMinOfTwo
<1>6. starts \subseteq Int /\ IsFiniteSet(starts) /\ starts # {}
  <2> DEFINE g == [i \in Working(T) |-> T[i].start]
  <2>1. DOMAIN g = Working(T) /\ starts = {g[i] : i \in Working(T)}
    OBVIOUS
  <2>2. starts \subseteq Int /\ starts # {}
    BY <1>2, <1>3
  <2> HIDE DEF g, starts
  <2>3. QED
    BY <1>2, <2>1, <2>2, ImageIsFinite
<1>7. ends \subseteq Int /\ IsFiniteSet(ends) /\ ends # {}
  <2> DEFINE g == [i \in Working(T) |-> Min({T[i].end, C.end})]
  <2>1. DOMAIN g = Working(T) /\ ends = {g[i] : i \in Working(T)}
    OBVIOUS
  <2>2. ends \subseteq Int /\ ends # {}
    BY <1>2, <1>3, <1>5
  <2> HIDE DEF g, ends
  <2>3. QED
    BY <1>2, <2>1, <2>2, ImageIsFinite
<1>8. \A i \in Working(T) : T[i].start \in starts /\ Min({T[i].end, C.end}) \in ends
  OBVIOUS
<1> HIDE DEF starts, ends
<1>9. \A i \in Working(T) : Min(starts) <= T[i].start /\ T[i].end <= Max(ends)
  <2> TAKE i \in Working(T)
  <2>1. T[i].start \in starts /\ T[i].end \in ends
    BY <1>5, <1>8
  <2>2. QED
    BY <1>6, <1>7, <2>1, MaxMinFacts
<1> HIDE DEF worked
<1>11. Min(starts) \in Int /\ Max(ends) \in Int
  BY <1>6, <1>7, MaxMinFacts
<1>10. QED
  BY <1>4, <1>11, <1>9 DEF starts, ends, worked, C, FirstWork, LastWork

(* What buildDay takes from the calculation.                                *)
LEMMA BuildDayFacts ==
  ASSUME NEW T, NEW end, NEW live
  PROVE  /\ BuildDay(T, end, live).totals = Calculate(T, end).totals
         /\ BuildDay(T, end, live).coverage = Calculate(T, end).coverage
         /\ BuildDay(T, end, live).start = Calculate(T, end).start
         /\ BuildDay(T, end, live).end = Calculate(T, end).end
         /\ BuildDay(T, end, live).usage
              = IF Worked(T, end) = {} THEN <<>>
                ELSE Usage(T, Calculate(T, end).start, Calculate(T, end).end)
         /\ Worked(T, end) # {} =>
              /\ BuildDay(T, end, live).firstWork = FirstWork(T, end)
              /\ BuildDay(T, end, live).lastWork = LastWork(T, end)
BY DEF BuildDay, Worked, FirstWork, LastWork

(* The usage of the day explains its work.                                  *)
LEMMA TodaysUsageExplains ==
  ASSUME IsAnswered
  PROVE  UsageExplainsTheDay
<1> SUFFICES ASSUME today # None PROVE UsageExplainsTheDay
  BY DEF UsageExplainsTheDay
<1> DEFINE T == today.report.timeline
           C == Calculate(T, now)
           worked == Worked(T, now)
           R == today.report
<1>1. PICK n \in Nat : /\ IsTimeline(T, n, Prepared(Evidence(facts)), From, now)
                       /\ R = BuildDay(T, now, TRUE)
  BY TodayFacts
<1>2. /\ From \in Times /\ From \in Int /\ now \in Times /\ now \in Int /\ From <= now
      /\ IsEvidence(Evidence(facts))
  BY AskedFacts
<1>3. /\ R.totals = C.totals /\ R.start = C.start /\ R.end = C.end
      /\ R.usage = IF worked = {} THEN <<>> ELSE Usage(T, C.start, C.end)
      /\ worked # {} => R.firstWork = FirstWork(T, now) /\ R.lastWork = LastWork(T, now)
  <2> HIDE DEF T
  <2>1. R = BuildDay(T, now, TRUE)
    BY <1>1
  <2> HIDE DEF R
  <2>2. QED
    BY ZenonT(30), <2>1, BuildDayFacts
<1>4. DOMAIN T = 1 .. n
  BY <1>1 DEF IsTimeline
<1>5. /\ Used(R.usage, "WORKING") = R.totals["WORKING"]
      /\ Used(R.usage, "BREAK") <= R.totals["BREAK"]
      /\ Used(R.usage, "UNTRACKED") <= R.totals["UNTRACKED"]
      /\ \A i \in Working(T) : T[i].start >= R.firstWork /\ T[i].end <= R.lastWork
  <2>1. CASE Working(T) = {}
    <3>1. worked = {} /\ R.usage = <<>>
      BY <1>3, <2>1 DEF Worked
    <3>2. \A state : Used(R.usage, state) = 0
      <4> TAKE state
      <4> DEFINE apps == SetToSeq(DOMAIN R.usage)
                 s == [k \in DOMAIN apps |-> R.usage[apps[k]][state]]
      <4>1. DOMAIN R.usage = {} /\ IsFiniteSet(DOMAIN R.usage) /\ Cardinality(DOMAIN R.usage) = 0
        BY <3>1, FS_EmptySet
      <4>2. DOMAIN apps = 1 .. 0
        BY <4>1, SetToSeqFacts
      <4>3. Len(s) = 0 /\ \A i \in 1 .. 0 : s[i] = 0
        BY <4>2
      <4> HIDE DEF s
      <4>4. SumOf(s) = 0
        BY <4>3, SumZero
      <4>5. QED
        BY <4>4 DEF Used, s
    <3>3. R.totals = [state \in States |-> 0]
      BY <1>1, <1>2, <1>3, <2>1, CalculateFacts
    <3> HIDE DEF T, R
    <3>4. QED
      BY <2>1, <3>2, <3>3 DEF States
  <2>2. CASE Working(T) # {}
    <3> HIDE DEF T, R
    <3>1. /\ C.start \in Times /\ C.start \in Int /\ C.end \in Times /\ C.end \in Int
          /\ From <= C.start /\ C.start < C.end /\ C.end <= now
          /\ C.totals = Totals(T, C.start, C.end)
      <4> HIDE DEF C
      <4>1. QED
        BY <1>1, <1>2, <2>2, CalculateFacts DEF C
    <3>2. /\ worked # {}
          /\ \A i \in Working(T) :
               FirstWork(T, now) <= T[i].start /\ T[i].end <= LastWork(T, now)
      BY <1>1, <1>2, <2>2, WorkLiesInTheDay
    <3> HIDE DEF C, worked
    <3>3. R.usage = Usage(T, C.start, C.end)
      BY <1>3, <3>2
    <3>4. /\ Used(R.usage, "WORKING") = Total(T, "WORKING", C.start, C.end)
          /\ Used(R.usage, "BREAK") <= Total(T, "BREAK", C.start, C.end)
          /\ Used(R.usage, "UNTRACKED") <= Total(T, "UNTRACKED", C.start, C.end)
      <4>1. C.start <= C.end
        BY <3>1
      <4>2. n \in Nat
        OBVIOUS
      <4> DEFINE f == Evidence(facts)
                 l == C.start
                 r == C.end
      <4>3. /\ IsTimeline(T, n, Prepared(f), From, now) /\ IsEvidence(f)
            /\ l \in Times /\ r \in Times /\ From <= l /\ l <= r /\ r <= now
            /\ From \in Times /\ now \in Times
        BY <1>1, <1>2, <3>1, <4>1
      <4> HIDE DEF f, l, r
      <4>4. /\ Used(Usage(T, l, r), "WORKING") = Total(T, "WORKING", l, r)
            /\ Used(Usage(T, l, r), "BREAK") <= Total(T, "BREAK", l, r)
            /\ Used(Usage(T, l, r), "UNTRACKED") <= Total(T, "UNTRACKED", l, r)
        BY <4>2, <4>3, UsedIsWork
      <4>5. QED
        BY <3>3, <4>4 DEF l, r
    <3>5. \A state \in States : R.totals[state] = Total(T, state, C.start, C.end)
      BY <1>3, <3>1 DEF Totals
    <3>6. /\ R.totals["WORKING"] = Total(T, "WORKING", C.start, C.end)
          /\ R.totals["BREAK"] = Total(T, "BREAK", C.start, C.end)
          /\ R.totals["UNTRACKED"] = Total(T, "UNTRACKED", C.start, C.end)
      BY <3>5 DEF States
    <3>7. FirstWork(T, now) \in Int /\ LastWork(T, now) \in Int
      BY <1>1, <1>2, <2>2, WorkLiesInTheDay
    <3>10. \A i \in Working(T) : T[i].start >= R.firstWork /\ T[i].end <= R.lastWork
      BY <1>3, <3>2, <3>7
    <3>11. QED
      BY <3>4, <3>6, <3>10
  <2>3. QED
    BY <2>1, <2>2
<1> HIDE DEF C, worked
<1>6. \A s \in Range(T) : s.says.state = "WORKING" =>
        s.start >= R.firstWork /\ s.end <= R.lastWork
  <2> TAKE s \in Range(T)
  <2>1. PICK i \in DOMAIN T : s = T[i]
    BY DEF Range
  <2> HAVE s.says.state = "WORKING"
  <2>2. i \in Working(T)
    BY <2>1 DEF Working, In
  <2> HIDE DEF T, R
  <2>3. QED
    BY <1>5, <2>1, <2>2
<1>7. /\ \A state \in {"BREAK", "UNTRACKED"} : Used(R.usage, state) <= R.totals[state]
  BY <1>5
<1>8. QED
  BY <1>5, <1>6, <1>7 DEF UsageExplainsTheDay, Used

(* TotalsAddUp: for all facts and at every time, the totals of the day      *)
(* account for all of the period, trimming the day trims no work, and the   *)
(* usage of applications explains all the work of the day and no more.      *)
THEOREM TotalsTheorem == Spec => []TotalsAddUp
<1>1. IsAnswered => TotalsAddUp
  BY TodayAccounts, TodaysUsageExplains DEF TotalsAddUp
<1>2. QED
  BY <1>1, ReportsAreComputed, PTL

-----------------------------------------------------------------------------
(* The week.                                                                *)

(* Whole days follow one another without a gap.                             *)
LEMMA DayProducts ==
  /\ \A j, k \in Int : j < k => j * DayLength + DayLength <= k * DayLength
  /\ \A j \in Int : (j + 1) * DayLength = j * DayLength + DayLength
<1>1. DayLength \in Nat /\ 0 < DayLength
  BY Calendar
<1>2. \A j \in Int : (j + 1) * DayLength = j * DayLength + DayLength
  BY <1>1
<1>3. ASSUME NEW j \in Int, NEW k \in Int, j < k
      PROVE  j * DayLength + DayLength <= k * DayLength
  <2>1. k - j - 1 \in Nat
    BY <1>3
  <2>2. 0 <= (k - j - 1) * DayLength
    BY <1>1, <2>1
  <2>3. (k - j - 1) * DayLength = k * DayLength - j * DayLength - DayLength
    BY <1>1
  <2>4. k * DayLength \in Int /\ j * DayLength \in Int
    BY <1>1
  <2>5. QED
    BY <1>1, <2>2, <2>3, <2>4
<1>4. QED
  BY <1>2, <1>3

(* Where the days of the week so far end: day i of Days(t).                 *)
Days(t) == Weekday(ReportingDay(t)) + 1
DayBound(t, i) == IF i < Days(t) THEN Monday(t) + i * DayLength ELSE t

(* The days of the week so far follow one another from Monday until now,    *)
(* and the last one is today.                                               *)
LEMMA WeekFacts ==
  ASSUME NEW t \in Times
  PROVE  /\ Days(t) \in 1 .. 7 /\ Days(t) \in Nat
         /\ Monday(t) \in Times /\ Monday(t) \in Int /\ t \in Int
         /\ DayBound(t, 0) = Monday(t) /\ DayBound(t, Days(t)) = t
         /\ \A i \in 0 .. Days(t) : /\ DayBound(t, i) \in Times /\ DayBound(t, i) \in Int
                                    /\ Monday(t) <= DayBound(t, i) /\ DayBound(t, i) <= t
         /\ \A i \in 1 .. Days(t) :
              /\ DayBound(t, i - 1) <= DayBound(t, i)
              /\ DayBound(t, i) = Min({t, Monday(t) + i * DayLength})
              /\ i < Days(t) => DayBound(t, i) = DayBound(t, i - 1) + DayLength
         /\ DOMAIN DayStarts(t) = 1 .. Days(t)
         /\ \A i \in 1 .. Days(t) : /\ DayStarts(t)[i] = DayBound(t, i - 1)
                                    /\ DayEnd(DayStarts(t)[i], t) = DayBound(t, i)
                                    /\ DayStarts(t)[i] = ReportingDay(t) <=> i = Days(t)
<1> DEFINE day == ReportingDay(t)
           d == Weekday(day)
           m == Monday(t)
<1>1. /\ day \in Times /\ day \in Int /\ t \in Int
      /\ day <= t /\ t < day + DayLength
  BY ReportingDayFacts, TimesArithmetic
<1> HIDE DEF day
<1>2. d \in 0 .. 6
  <2>1. day \div DayLength \in Int
    BY <1>1, Calendar
  <2>2. QED
    BY <2>1 DEF Weekday
<1>3. m = day - d * DayLength
  BY DEF Monday, day
<1> HIDE DEF d
<1>4. d * DayLength \in Times /\ d * DayLength \in Int /\ d \in Int
  BY <1>2, WholeDays
<1>5. m \in Times /\ m \in Int
  BY <1>1, <1>3, <1>4, TimesArithmetic
<1>6. Days(t) = d + 1
  BY DEF Days, day, d
<1> HIDE DEF m
<1>7. \A i \in Int : i * DayLength \in Times /\ i * DayLength \in Int
  BY WholeDays
<1>8. \A i \in Int : m + i * DayLength \in Times /\ m + i * DayLength \in Int
  BY <1>5, <1>7, TimesArithmetic
<1>9. day = m + d * DayLength
  BY <1>1, <1>3, <1>4
<1>10. \A i \in 0 .. d : m + i * DayLength <= day /\ m <= m + i * DayLength
  <2> TAKE i \in 0 .. d
  <2>1. i \in Int /\ 0 <= i /\ i <= d
    BY <1>4
  <2>2. i * DayLength <= d * DayLength
    BY <1>4, <1>7, <2>1, DayProducts, Calendar
  <2>3. 0 <= i * DayLength
    BY <2>1, Calendar
  <2>4. i * DayLength \in Int
    BY <1>7, <2>1
  <2>5. QED
    BY <1>4, <1>5, <1>9, <2>2, <2>3, <2>4
<1>11. \A i \in 1 .. d : m + i * DayLength = m + (i - 1) * DayLength + DayLength
  <2> TAKE i \in 1 .. d
  <2>1. i - 1 \in Int /\ (i - 1) + 1 = i
    OBVIOUS
  <2>2. i * DayLength = (i - 1) * DayLength + DayLength
    BY <2>1, DayProducts
  <2>3. (i - 1) * DayLength \in Int
    BY <1>7, <2>1
  <2>4. QED
    BY <1>5, <2>2, <2>3, Calendar
<1>12. \A i \in Int : DayBound(t, i) = IF i < d + 1 THEN m + i * DayLength ELSE t
  BY <1>6 DEF DayBound, m
<1>13. DayBound(t, 0) = m /\ DayBound(t, d + 1) = t
  <2>1. 0 * DayLength = 0
    BY Calendar
  <2>2. QED
    BY <1>2, <1>5, <1>12, <2>1
<1>14. \A i \in 0 .. d + 1 : /\ DayBound(t, i) \in Times /\ DayBound(t, i) \in Int
                             /\ m <= DayBound(t, i) /\ DayBound(t, i) <= t
  <2> TAKE i \in 0 .. d + 1
  <2>1. CASE i < d + 1
    <3>1. i \in 0 .. d /\ i \in Int
      BY <1>4, <2>1
    <3>2. DayBound(t, i) = m + i * DayLength
      BY <1>12, <2>1, <3>1
    <3>3. m + i * DayLength \in Times /\ m + i * DayLength \in Int
      BY <1>8, <3>1
    <3>4. QED
      BY <1>1, <1>10, <3>1, <3>2, <3>3
  <2>2. CASE i = d + 1
    <3>1. 0 \in 0 .. d
      BY <1>2
    <3>2. m <= day
      BY <1>1, <1>4, <1>5, <1>8, <1>10, <3>1
    <3>3. QED
      BY <1>1, <1>5, <1>13, <2>2, <3>2
  <2>3. QED
    BY <1>4, <2>1, <2>2
<1>15. \A i \in 1 .. d : /\ DayBound(t, i) = DayBound(t, i - 1) + DayLength
                         /\ DayBound(t, i) = Min({t, m + i * DayLength})
  <2> TAKE i \in 1 .. d
  <2>1. i \in Int /\ i - 1 \in Int /\ i < d + 1 /\ i - 1 < d + 1 /\ i \in 0 .. d
    BY <1>4
  <2>2. DayBound(t, i) = m + i * DayLength /\ DayBound(t, i - 1) = m + (i - 1) * DayLength
    BY <1>12, <2>1
  <2>3. m + i * DayLength <= t /\ m + i * DayLength \in Int
    BY <1>1, <1>8, <1>10, <2>1
  <2>4. Min({t, m + i * DayLength}) = m + i * DayLength
    <3> DEFINE x == m + i * DayLength
    <3> HIDE DEF x
    <3>1. x <= t /\ x \in Int
      BY <2>3 DEF x
    <3>2. Min({t, x}) = x
      <4>1. t \in Int
        BY <1>1
      <4>2. Min({t, x}) = IF t <= x THEN t ELSE x
        BY <3>1, <4>1, MaxMinOfTwo
      <4>3. QED
        BY <3>1, <4>1, <4>2
    <3>3. QED
      BY <3>2 DEF x
  <2>5. QED
    BY <1>11, <2>2, <2>4
<1>16. DayBound(t, d + 1) = Min({t, m + (d + 1) * DayLength})
  <2> DEFINE x == m + (d + 1) * DayLength
  <2>1. x = day + DayLength
    <3>1. (d + 1) * DayLength = d * DayLength + DayLength
      BY <1>4, DayProducts
    <3>2. (d + 1) * DayLength \in Int
      BY <1>4, <1>7
    <3> DEFINE y == (d + 1) * DayLength
               z == d * DayLength
    <3>3. y = z + DayLength /\ z \in Int /\ y \in Int /\ day = m + z /\ x = m + y
      BY <1>4, <1>9, <3>1, <3>2
    <3> HIDE DEF x, y, z
    <3>4. QED
      BY <1>5, <3>3, Calendar
  <2> HIDE DEF x
  <2>2. t <= x /\ x \in Int
    BY <1>1, <2>1, Calendar
  <2>3. Min({t, x}) = t
    BY <1>1, <2>2, MaxMinOfTwo
  <2>4. QED
    BY <1>13, <2>3 DEF x
<1>17. DayBound(t, d) = day
  BY <1>4, <1>9, <1>12
<1>18. \A i \in 1 .. d + 1 : DayBound(t, i - 1) <= DayBound(t, i)
  <2> TAKE i \in 1 .. d + 1
  <2>1. i - 1 \in 0 .. d + 1 /\ i \in 0 .. d + 1
    BY <1>4
  <2>2. CASE i = d + 1
    BY <1>1, <1>4, <1>13, <1>17, <2>2
  <2>3. CASE i # d + 1
    <3>1. i \in 1 .. d
      BY <1>4, <2>3
    <3>2. DayBound(t, i) = DayBound(t, i - 1) + DayLength
      BY <1>15, <3>1
    <3>3. QED
      BY <1>14, <2>1, <3>2, Calendar
  <2>4. QED
    BY <2>2, <2>3
<1>19. DOMAIN DayStarts(t) = 1 .. d + 1
       /\ \A i \in 1 .. d + 1 : DayStarts(t)[i] = m + (i - 1) * DayLength
  BY DEF DayStarts, m, d, day
<1>20. \A i \in 1 .. d + 1 : DayStarts(t)[i] = DayBound(t, i - 1)
  <2> TAKE i \in 1 .. d + 1
  <2>1. i - 1 \in Int /\ i - 1 < d + 1
    BY <1>4
  <2>2. QED
    BY <1>12, <1>19, <2>1
<1>21. \A i \in 1 .. d + 1 : DayStarts(t)[i] = day <=> i = d + 1
  <2> TAKE i \in 1 .. d + 1
  <2>1. CASE i = d + 1
    BY <1>4, <1>17, <1>20, <2>1
  <2>2. CASE i # d + 1
    <3>1. i - 1 \in Int /\ i - 1 < d
      BY <1>4, <2>2
    <3>2. (i - 1) * DayLength + DayLength <= d * DayLength /\ (i - 1) * DayLength \in Int
      BY <1>4, <1>7, <3>1, DayProducts
    <3>3. m + (i - 1) * DayLength < m + d * DayLength
      BY <1>4, <1>5, <3>2, Calendar
    <3>4. DayStarts(t)[i] < day /\ DayStarts(t)[i] \in Int
      BY <1>8, <1>9, <1>19, <3>1, <3>3
    <3>5. QED
      BY <1>1, <2>2, <3>4
  <2>3. QED
    BY <2>1, <2>2
<1>22. \A i \in 1 .. d + 1 : DayEnd(DayStarts(t)[i], t) = DayBound(t, i)
  <2> TAKE i \in 1 .. d + 1
  <2>1. DayEnd(DayStarts(t)[i], t)
          = IF DayStarts(t)[i] = day THEN t ELSE DayStarts(t)[i] + DayLength
    BY DEF DayEnd, day
  <2>2. CASE i = d + 1
    BY <1>13, <1>21, <2>1, <2>2
  <2>3. CASE i # d + 1
    <3>1. i \in 1 .. d
      BY <1>4, <2>3
    <3>2. QED
      BY <1>15, <1>20, <1>21, <2>1, <2>3, <3>1
  <2>4. QED
    BY <2>2, <2>3
<1>23. \A i \in 1 .. d + 1 : DayBound(t, i) = Min({t, m + i * DayLength})
  <2> TAKE i \in 1 .. d + 1
  <2>1. i = d + 1 \/ i \in 1 .. d
    BY <1>4
  <2>2. QED
    BY <1>15, <1>16, <2>1
<1>24. \A i \in 1 .. d + 1 : i < d + 1 => i \in 1 .. d
  BY <1>4
<1>25. d + 1 \in 1 .. 7 /\ d + 1 \in Nat
  BY <1>2
<1>26. /\ \A i \in 1 .. d + 1 :
            /\ DayBound(t, i - 1) <= DayBound(t, i)
            /\ DayBound(t, i) = Min({t, m + i * DayLength})
            /\ i < d + 1 => DayBound(t, i) = DayBound(t, i - 1) + DayLength
       /\ \A i \in 1 .. d + 1 : /\ DayStarts(t)[i] = DayBound(t, i - 1)
                                /\ DayEnd(DayStarts(t)[i], t) = DayBound(t, i)
                                /\ DayStarts(t)[i] = ReportingDay(t) <=> i = d + 1
  BY <1>15, <1>18, <1>20, <1>21, <1>22, <1>23, <1>24 DEF day
<1>27. QED
  BY <1>1, <1>5, <1>6, <1>13, <1>14, <1>19, <1>25, <1>26 DEF m

(* An evaluation keeps the work it evaluates.                               *)
LEMMA EvaluateWorking ==
  ASSUME NEW days, NEW working
  PROVE  Evaluate(days, working).working = working
BY DEF Evaluate

(* The totals of a day report are the times its states take.                *)
LEMMA DayReportFacts ==
  ASSUME NEW f, IsFacts(f), NEW start \in Times, NEW end \in Times, start <= end, NEW live
  PROVE  LET p == Prepared(Evidence(f))
             R == Day(f, start, end, live)
         IN /\ R.totals["WORKING"] = Time(Instants(p, "WORKING"), start, end)
            /\ \A state \in States : R.coverage[state] = Time(Instants(p, state), start, end)
<1> DEFINE p == Prepared(Evidence(f))
           T == Build(Evidence(f), start, end)
           R == Day(f, start, end, live)
<1>1. IsEvidence(Evidence(f))
  BY EvidenceIsEvidence
<1>2. PICK n \in Nat : IsTimeline(T, n, p, start, end)
  BY <1>1, BuildFacts
<1>3. R = BuildDay(T, end, live)
  BY DEF Day
<1> HIDE DEF T, R, p
<1>4. R.totals = Calculate(T, end).totals /\ R.coverage = Calculate(T, end).coverage
  BY <1>3, BuildDayFacts
<1>5. n \in Nat /\ start \in Int /\ end \in Int
  BY TimesArithmetic
<1>6. R.totals["WORKING"] = Time(Instants(p, "WORKING"), start, end)
  <2>1. Calculate(T, end).totals["WORKING"] = Time(Instants(p, "WORKING"), start, end)
    BY <1>2, <1>5, WorkIsCovered
  <2>2. QED
    BY <1>4, <2>1
<1>7. \A state \in States : R.coverage[state] = Time(Instants(p, state), start, end)
  <2> TAKE state \in States
  <2>1. R.coverage[state] = Total(T, state, start, end)
    <3>1. Calculate(T, end).coverage = Totals(T, start, end)
      BY <1>2, CoverageIs
    <3>2. Totals(T, start, end)[state] = Total(T, state, start, end)
      BY DEF Totals
    <3>3. QED
      BY <1>4, <3>1, <3>2
  <2>2. start <= start /\ end <= end /\ IsTimeline(T, n, p, start, end) /\ n \in Nat
    BY <1>2, <1>5
  <2>3. Total(T, state, start, end) = Time(Instants(p, state), start, end)
    BY <2>2, TotalIs
  <2>4. QED
    BY <2>1, <2>3
<1>8. QED
  BY <1>6, <1>7 DEF p, R

(* The days of the week so far add up.                                      *)
LEMMA DaysAddUp ==
  ASSUME NEW t \in Times, NEW K, NEW k \in 0 .. Days(t), NEW s, Len(s) = k,
         \A i \in 1 .. k : s[i] = Time(K, DayBound(t, i - 1), DayBound(t, i))
  PROVE  SumOf(s) = Time(K, Monday(t), DayBound(t, k))
<1> DEFINE b(i) == DayBound(t, i)
           h == [i \in 0 .. k |-> Time(K, Monday(t), b(i))]
<1>1. /\ Days(t) \in Nat /\ Monday(t) \in Times /\ Monday(t) \in Int
      /\ b(0) = Monday(t)
      /\ \A i \in 0 .. Days(t) : b(i) \in Times /\ b(i) \in Int /\ Monday(t) <= b(i)
      /\ \A i \in 1 .. Days(t) : b(i - 1) <= b(i)
  BY WeekFacts
<1> HIDE DEF b
<1>2. k \in Nat /\ \A i \in 1 .. k : i - 1 \in 0 .. Days(t) /\ i \in 0 .. Days(t)
                                   /\ i \in 1 .. Days(t) /\ i - 1 \in 0 .. k /\ i \in 0 .. k
  BY <1>1
<1>3. ASSUME NEW i \in 0 .. k
      PROVE  h[i] = Time(K, Monday(t), b(i)) /\ h[i] \in Int
  <2>1. i \in 0 .. Days(t) /\ b(i) \in Int
    BY <1>1
  <2>2. Time(K, Monday(t), b(i)) \in Int
    BY <1>1, <2>1, InsideIsFinite
  <2>3. QED
    BY <2>2
<1> HIDE DEF h
<1>4. \A i \in 1 .. k : s[i] = Time(K, b(i - 1), b(i))
  BY DEF b
<1>5. \A i \in 1 .. k : s[i] \in Int
  BY <1>1, <1>2, <1>4, InsideIsFinite
<1>6. \A i \in 1 .. k : h[i] = h[i - 1] + s[i]
  <2> TAKE i \in 1 .. k
  <2> DEFINE c == b(i - 1)
             d == b(i)
  <2>1. /\ c \in Times /\ c \in Int /\ d \in Int /\ Monday(t) <= c /\ c <= d
        /\ s[i] = Time(K, c, d) /\ h[i] = Time(K, Monday(t), d)
        /\ h[i - 1] = Time(K, Monday(t), c)
    BY <1>1, <1>2, <1>3, <1>4
  <2> HIDE DEF c, d
  <2>2. Time(K, Monday(t), d) = Time(K, Monday(t), c) + Time(K, c, d)
    BY <1>1, <2>1, TimeSplit
  <2>3. QED
    BY <2>1, <2>2
<1>7. SumOf(s) = h[k] - h[0]
  BY <1>2, <1>3, <1>5, <1>6, SumIs
<1>8. h[0] = 0
  <2>1. h[0] = Time(K, Monday(t), Monday(t))
    BY <1>1, <1>2, <1>3
  <2>2. \A u \in Int \ Times : Monday(t) < u /\ u < Monday(t) => u \notin K
    BY <1>1
  <2>3. QED
    BY <1>1, <2>1, <2>2, TimeZero
<1>9. QED
  BY <1>2, <1>3, <1>7, <1>8 DEF b

(* Coverage, evaluation and running evaluation of the week, from the time   *)
(* its states take, where all of its days are of the same facts.            *)
LEMMA WeekAddsUp ==
  ASSUME NEW f, IsFacts(f), NEW t \in Times, NEW s,
         \A i \in 1 .. Days(t) : WeekDay(s[i], DayStarts(t)[i], t) = WeekDay(f, DayStarts(t)[i], t)
  PROVE  LET p == Prepared(Evidence(f))
             S == Week(s, t).summary
             D == Week(s, t).weekToDate
             W(i) == Time(Instants(p, "WORKING"), Monday(t), DayBound(t, i))
         IN /\ DOMAIN S.days = 1 .. Days(t)
            /\ \A state \in States : S.coverage[state] = Time(Instants(p, state), Monday(t), t)
            /\ S.evaluation = Evaluate(WorkdaysPerWeek, W(Days(t)))
            /\ DOMAIN D = 1 .. Days(t) /\ Len(D) = Days(t)
            /\ \A i \in 1 .. Days(t) : D[i] = Evaluate(WorkdaysPerWeek, W(i))
<1> DEFINE p == Prepared(Evidence(f))
           starts == DayStarts(t)
           R == [i \in DOMAIN starts |-> WeekDay(s[i], starts[i], t)]
           b(i) == DayBound(t, i)
           m == Monday(t)
           W(i) == Time(Instants(p, "WORKING"), m, b(i))
<1>1. /\ Days(t) \in Nat /\ Days(t) \in 1 .. 7
      /\ b(Days(t)) = t
      /\ \A i \in 0 .. Days(t) : b(i) \in Times /\ b(i) \in Int
      /\ \A i \in 1 .. Days(t) : b(i - 1) <= b(i)
      /\ DOMAIN starts = 1 .. Days(t)
      /\ \A i \in 1 .. Days(t) : starts[i] = b(i - 1) /\ DayEnd(starts[i], t) = b(i)
  BY WeekFacts
<1>2. Week(s, t).summary = SummarizeWeek(R, t) /\ Week(s, t).weekToDate = WeekToDate(R)
  BY DEF Week
<1>3. DOMAIN R = 1 .. Days(t)
  BY <1>1
<1> HIDE DEF p
<1>4. \A i \in 1 .. Days(t) :
        /\ R[i].totals["WORKING"] = Time(Instants(p, "WORKING"), b(i - 1), b(i))
        /\ \A state \in States : R[i].coverage[state] = Time(Instants(p, state), b(i - 1), b(i))
  <2> TAKE i \in 1 .. Days(t)
  <2> DEFINE l == b(i - 1)
             r == b(i)
             live == starts[i] = ReportingDay(t)
  <2>1. i - 1 \in 0 .. Days(t) /\ i \in 0 .. Days(t)
    BY <1>1
  <2>2. l \in Times /\ r \in Times /\ l <= r
    BY <1>1, <2>1
  <2>3. R[i] = Day(f, l, r, live)
    <3>1. R[i] = WeekDay(f, starts[i], t)
      BY <1>3
    <3>2. QED
      BY <1>1, <3>1 DEF WeekDay
  <2> HIDE DEF R, l, r, live
  <2>4. QED
    BY <2>2, <2>3, DayReportFacts DEF p, l, r
<1> HIDE DEF R, b
<1>5. \A k \in 1 .. Days(t) : SumOf([j \in 1 .. k |-> R[j].totals["WORKING"]]) = W(k)
  <2> TAKE k \in 1 .. Days(t)
  <2> DEFINE z == [j \in 1 .. k |-> R[j].totals["WORKING"]]
  <2>1. k \in 0 .. Days(t) /\ k \in Nat /\ \A j \in 1 .. k : j \in 1 .. Days(t)
    BY <1>1
  <2>2. Len(z) = k
    BY <2>1
  <2>3. \A j \in 1 .. k : z[j] = Time(Instants(p, "WORKING"), b(j - 1), b(j))
    BY <1>4, <2>1
  <2> HIDE DEF z
  <2>4. SumOf(z) = W(k)
    BY <2>1, <2>2, <2>3, DaysAddUp DEF b
  <2>5. QED
    BY <2>4 DEF z
<1>6. \A state \in States : SumOf([i \in DOMAIN R |-> R[i].coverage[state]])
                              = Time(Instants(p, state), m, t)
  <2> TAKE state \in States
  <2> DEFINE z == [i \in DOMAIN R |-> R[i].coverage[state]]
             n == Days(t)
  <2>1. n \in 0 .. Days(t) /\ n \in Nat /\ b(n) = t
    BY <1>1
  <2>2. Len(z) = n
    BY <1>3, <2>1
  <2>3. \A j \in 1 .. n : z[j] = Time(Instants(p, state), b(j - 1), b(j))
    BY <1>3, <1>4
  <2> HIDE DEF z, n
  <2>4. SumOf(z) = Time(Instants(p, state), m, b(n))
    BY <2>1, <2>2, <2>3, DaysAddUp DEF b
  <2>5. QED
    BY <2>1, <2>4 DEF z
<1>7. SumOf([i \in DOMAIN R |-> R[i].totals["WORKING"]]) = W(Days(t))
  <2>1. Days(t) \in 1 .. Days(t)
    BY <1>1
  <2>2. SumOf([j \in 1 .. Days(t) |-> R[j].totals["WORKING"]]) = W(Days(t))
    BY <1>5, <2>1
  <2>3. QED
    BY <1>3, <2>2
<1> HIDE DEF W
<1>8. /\ SummarizeWeek(R, t).days = R
      /\ \A state \in States : SummarizeWeek(R, t).coverage[state] = Time(Instants(p, state), m, t)
      /\ SummarizeWeek(R, t).evaluation = Evaluate(WorkdaysPerWeek, W(Days(t)))
  BY <1>6, <1>7 DEF SummarizeWeek
<1>9. /\ DOMAIN WeekToDate(R) = 1 .. Days(t) /\ Len(WeekToDate(R)) = Days(t)
      /\ \A i \in 1 .. Days(t) : WeekToDate(R)[i] = Evaluate(WorkdaysPerWeek, W(i))
  BY <1>1, <1>3, <1>5 DEF WeekToDate
<1>10. QED
  BY <1>2, <1>3, <1>8, <1>9 DEF W, p, b

(* Whatever each of its days is of, the week is covered, and the running    *)
(* evaluation ends with that of the week.                                   *)
LEMMA WeekIsCovered ==
  ASSUME NEW t \in Times, NEW s, \A i \in 1 .. Days(t) : IsFacts(s[i])
  PROVE  /\ InAll(Week(s, t).summary.coverage) = t - Monday(t)
         /\ DOMAIN Week(s, t).summary.days = 1 .. Days(t)
         /\ Last(Week(s, t).weekToDate) = Week(s, t).summary.evaluation
<1> DEFINE starts == DayStarts(t)
           R == [i \in DOMAIN starts |-> WeekDay(s[i], starts[i], t)]
           n == Days(t)
           b(i) == DayBound(t, i)
           K(i, state) == Time(Instants(Prepared(Evidence(s[i])), state), b(i - 1), b(i))
           C(state) == [i \in DOMAIN R |-> R[i].coverage[state]]
<1>0. n \in Nat /\ n \in 1 .. n
  <2>1. n \in 1 .. 7
    BY WeekFacts
  <2> HIDE DEF n
  <2>2. QED
    BY <2>1
<1>1. /\ n \in Nat /\ n \in 1 .. n /\ b(0) = Monday(t) /\ b(n) = t
      /\ \A i \in 0 .. n : b(i) \in Times /\ b(i) \in Int
      /\ \A i \in 1 .. n : b(i - 1) <= b(i)
      /\ DOMAIN starts = 1 .. n
      /\ \A i \in 1 .. n : starts[i] = b(i - 1) /\ DayEnd(starts[i], t) = b(i)
  BY <1>0, WeekFacts
<1>2. Week(s, t).summary = SummarizeWeek(R, t) /\ Week(s, t).weekToDate = WeekToDate(R)
  BY DEF Week
<1>3. DOMAIN R = 1 .. n /\ \A i \in 1 .. n : R[i] = WeekDay(s[i], starts[i], t)
  BY <1>1
<1> HIDE DEF n
<1>4. \A i \in 1 .. n : \A state \in States : R[i].coverage[state] = K(i, state)
  <2> TAKE i \in 1 .. n
  <2> DEFINE l == b(i - 1)
             r == b(i)
             live == starts[i] = ReportingDay(t)
  <2>1. i - 1 \in 0 .. n /\ i \in 0 .. n
    BY <1>1
  <2>2. l \in Times /\ r \in Times /\ l <= r /\ IsFacts(s[i])
    BY <1>1, <2>1 DEF n
  <2>3. R[i] = Day(s[i], l, r, live)
    BY <1>1, <1>3 DEF WeekDay
  <2> HIDE DEF R, l, r, live, K
  <2>4. \A state \in States :
          R[i].coverage[state] = Time(Instants(Prepared(Evidence(s[i])), state), l, r)
    BY <2>2, <2>3, DayReportFacts
  <2>5. QED
    BY <2>4 DEF K, l, r
<1>5. \A i \in 1 .. n :
        /\ K(i, "WORKING") \in Int /\ K(i, "BREAK") \in Int /\ K(i, "UNTRACKED") \in Int
        /\ K(i, "WORKING") + K(i, "BREAK") + K(i, "UNTRACKED") = b(i) - b(i - 1)
  <2> TAKE i \in 1 .. n
  <2> DEFINE l == b(i - 1)
             r == b(i)
             q == Prepared(Evidence(s[i]))
  <2>1. l \in Times /\ r \in Times /\ l <= r /\ l \in Int /\ r \in Int
    <3>1. i - 1 \in 0 .. n /\ i \in 0 .. n
      BY <1>1
    <3>2. QED
      BY <1>1, <3>1
  <2> HIDE DEF l, r, q
  <2>2. Time(Instants(q, "WORKING"), l, r) + Time(Instants(q, "BREAK"), l, r)
          + Time(Instants(q, "UNTRACKED"), l, r) = r - l
    BY <2>1, StatesAreAll
  <2>3. \A state : Time(Instants(q, state), l, r) \in Int
    BY <2>1, InsideIsFinite
  <2>4. QED
    BY <2>2, <2>3 DEF l, r, q
<1> HIDE DEF R, K, b
<1>6. /\ Len(C("WORKING")) = n /\ Len(C("BREAK")) = n /\ Len(C("UNTRACKED")) = n
      /\ \A i \in 1 .. n : /\ C("WORKING")[i] = K(i, "WORKING") /\ C("BREAK")[i] = K(i, "BREAK")
                           /\ C("UNTRACKED")[i] = K(i, "UNTRACKED")
  BY <1>1, <1>3, <1>4 DEF States
<1> HIDE DEF C
<1>7. SumOf(C("WORKING")) + SumOf(C("BREAK")) + SumOf(C("UNTRACKED")) = t - Monday(t)
  <2> DEFINE wb == [i \in 1 .. n |-> K(i, "WORKING") + K(i, "BREAK")]
             all == [i \in 1 .. n |-> b(i) - b(i - 1)]
             h == [i \in 0 .. n |-> b(i)]
  <2>1. Len(wb) = n /\ Len(all) = n
    BY <1>1
  <2>2. \A i \in 1 .. n : wb[i] = K(i, "WORKING") + K(i, "BREAK") /\ all[i] = b(i) - b(i - 1)
    OBVIOUS
  <2>3. \A i \in 1 .. n : /\ h[i] = b(i) /\ h[i - 1] = b(i - 1)
                          /\ h[i] \in Int /\ h[i - 1] \in Int
    BY <1>1
  <2>4. h[0] = Monday(t) /\ h[n] = t /\ \A i \in 0 .. n : h[i] \in Int
    BY <1>1
  <2> HIDE DEF wb, all, h
  <2>5. SumOf(wb) = SumOf(C("WORKING")) + SumOf(C("BREAK"))
        /\ SumOf(C("WORKING")) \in Int /\ SumOf(C("BREAK")) \in Int
    <3>1. \A i \in 1 .. n : /\ C("WORKING")[i] \in Int /\ C("BREAK")[i] \in Int
                            /\ wb[i] = C("WORKING")[i] + C("BREAK")[i]
      BY <1>5, <1>6, <2>2
    <3>2. n \in Nat
      BY <1>1
    <3> DEFINE x == C("WORKING")
               y == C("BREAK")
    <3>3. Len(x) = n /\ Len(y) = n /\ Len(wb) = n
      BY <1>6, <2>1
    <3>4. \A i \in 1 .. n : x[i] \in Int /\ y[i] \in Int /\ wb[i] = x[i] + y[i]
      BY <3>1
    <3> HIDE DEF x, y
    <3>5. SumOf(x) \in Int /\ SumOf(y) \in Int /\ SumOf(wb) = SumOf(x) + SumOf(y)
      BY <3>2, <3>3, <3>4, SumPlus
    <3>6. QED
      BY <3>5 DEF x, y
  <2>6. SumOf(all) = SumOf(wb) + SumOf(C("UNTRACKED")) /\ SumOf(C("UNTRACKED")) \in Int
    <3>1. \A i \in 1 .. n : /\ wb[i] \in Int /\ C("UNTRACKED")[i] \in Int
                            /\ all[i] = wb[i] + C("UNTRACKED")[i]
      BY <1>5, <1>6, <2>2
    <3>2. n \in Nat
      BY <1>1
    <3> DEFINE x == wb
               y == C("UNTRACKED")
    <3>3. Len(x) = n /\ Len(y) = n /\ Len(all) = n
      BY <1>6, <2>1
    <3>4. \A i \in 1 .. n : x[i] \in Int /\ y[i] \in Int /\ all[i] = x[i] + y[i]
      BY <3>1
    <3> HIDE DEF x, y
    <3>5. SumOf(x) \in Int /\ SumOf(y) \in Int /\ SumOf(all) = SumOf(x) + SumOf(y)
      BY <3>2, <3>3, <3>4, SumPlus
    <3>6. QED
      BY <3>5 DEF x, y
  <2>7. SumOf(all) = h[n] - h[0]
    <3>1. ASSUME NEW i \in 1 .. n
          PROVE  all[i] \in Int /\ h[i] = h[i - 1] + all[i]
      <4>1. all[i] = h[i] - h[i - 1] /\ h[i] \in Int /\ h[i - 1] \in Int
        BY <2>2, <2>3
      <4>2. QED
        BY <4>1
    <3>2. (\A i \in 1 .. n : all[i] \in Int)
          /\ (\A i \in 1 .. n : h[i] = h[i - 1] + all[i])
      BY <3>1
    <3>3. n \in Nat
      BY <1>1
    <3>4. QED
      BY <2>1, <2>4, <3>2, <3>3, SumIs
  <2>8. QED
    BY <2>4, <2>5, <2>6, <2>7
<1>8. InAll(SummarizeWeek(R, t).coverage)
        = SumOf(C("WORKING")) + SumOf(C("BREAK")) + SumOf(C("UNTRACKED"))
  BY DEF SummarizeWeek, InAll, States, C
<1>9. Last(WeekToDate(R)) = SummarizeWeek(R, t).evaluation
  <2>1. DOMAIN WeekToDate(R) = 1 .. n /\ Len(WeekToDate(R)) = n
    BY <1>1, <1>3 DEF WeekToDate
  <2>2. WeekToDate(R)[n] = Evaluate(WorkdaysPerWeek, SumOf([j \in 1 .. n |-> R[j].totals["WORKING"]]))
    BY <1>1, <1>3 DEF WeekToDate
  <2>3. SummarizeWeek(R, t).evaluation
          = Evaluate(WorkdaysPerWeek, SumOf([i \in DOMAIN R |-> R[i].totals["WORKING"]]))
    BY DEF SummarizeWeek
  <2>4. QED
    BY <1>3, <2>1, <2>2, <2>3 DEF Last
<1>10. SummarizeWeek(R, t).days = R
  BY DEF SummarizeWeek
<1>11. QED
  BY <1>2, <1>3, <1>7, <1>8, <1>9, <1>10 DEF n

-----------------------------------------------------------------------------
(* What is selected depends on the fresh facts only.                        *)

(* i is the latest fresh one of n facts.                                    *)
IsLatest(s, n, t, i) ==
  /\ i \in 1 .. n /\ Eligible(s[i], t)
  /\ \A j \in 1 .. n : Eligible(s[j], t) => j = i \/ <<j, i>> \in ByStartAndEnd(s)

(* Among sorted evidence Find returns the latest eligible one.              *)
LEMMA FindSorted ==
  ASSUME NEW s, NEW n \in Nat, DOMAIN s = 1 .. n, \A i \in 1 .. n : Timed(s[i]), NEW t
  PROVE  /\ (\A i \in 1 .. n : ~Eligible(s[i], t)) => Find(Sorted(s), t) = None
         /\ (\E i \in 1 .. n : Eligible(s[i], t)) => \E i \in 1 .. n : IsLatest(s, n, t, i)
         /\ \A i \in 1 .. n : IsLatest(s, n, t, i) => Find(Sorted(s), t) = s[i]
<1> DEFINE E == Sorted(s)
<1>1. \A i \in 1 .. n : s[i].start \in Int /\ s[i].end \in Int
  BY TimedFacts
<1>2. PICK p \in [1 .. n -> 1 .. n] :
           /\ DOMAIN E = 1 .. n /\ Len(E) = n
           /\ \A k \in 1 .. n : E[k] = s[p[k]]
           /\ \A i \in 1 .. n : \E k \in 1 .. n : p[k] = i
           /\ \A j, k \in 1 .. n : j < k => <<p[j], p[k]>> \in ByStartAndEnd(s)
  BY <1>1, ArrangedByStartAndEnd
<1> HIDE DEF E
<1>3. ASSUME \A i \in 1 .. n : ~Eligible(s[i], t)
      PROVE  Find(E, t) = None
  <2>1. \A k \in 1 .. n : ~Eligible(E[k], t)
    BY <1>2, <1>3
  <2>2. QED
    BY <1>2, <2>1, FindFacts
<1>4. ASSUME NEW i \in 1 .. n, Eligible(s[i], t)
      PROVE  \E j \in 1 .. n : IsLatest(s, n, t, j) /\ Find(E, t) = s[j]
  <2>1. \E k \in 1 .. n : Eligible(E[k], t)
    BY <1>2, <1>4
  <2>2. PICK k \in 1 .. n : /\ Eligible(E[k], t)
                            /\ Find(E, t) = E[k]
                            /\ \A x \in 1 .. n : Eligible(E[x], t) => x <= k
    BY <1>2, <2>1, FindFacts
  <2>3. \A j \in 1 .. n : Eligible(s[j], t) => j = p[k] \/ <<j, p[k]>> \in ByStartAndEnd(s)
    <3> TAKE j \in 1 .. n
    <3> HAVE Eligible(s[j], t)
    <3>1. PICK x \in 1 .. n : p[x] = j
      BY <1>2
    <3>2. Eligible(E[x], t)
      BY <1>2, <3>1
    <3>3. x = k \/ x < k
      BY <2>2, <3>2
    <3>4. QED
      BY <1>2, <3>1, <3>3
  <2>4. IsLatest(s, n, t, p[k]) /\ Find(E, t) = s[p[k]] /\ p[k] \in 1 .. n
    BY <1>2, <2>2, <2>3 DEF IsLatest
  <2>5. QED
    BY <2>4
<1>5. ASSUME NEW i \in 1 .. n, IsLatest(s, n, t, i)
      PROVE  Find(E, t) = s[i]
  <2>1. Eligible(s[i], t)
    BY <1>5 DEF IsLatest
  <2>2. PICK j \in 1 .. n : IsLatest(s, n, t, j) /\ Find(E, t) = s[j]
    BY <1>4, <2>1
  <2>3. /\ j = i \/ <<j, i>> \in ByStartAndEnd(s)
        /\ i = j \/ <<i, j>> \in ByStartAndEnd(s)
    BY <1>5, <2>2 DEF IsLatest
  <2>4. ~(<<j, i>> \in ByStartAndEnd(s) /\ <<i, j>> \in ByStartAndEnd(s))
    <3>1. <<i, j>> \in ByStartAndEnd(s) <=>
            \/ s[i].start < s[j].start
            \/ /\ s[i].start = s[j].start
               /\ s[i].end < s[j].end \/ (s[i].end = s[j].end /\ i < j)
      BY ByStartAndEndIs
    <3>2. <<j, i>> \in ByStartAndEnd(s) <=>
            \/ s[j].start < s[i].start
            \/ /\ s[j].start = s[i].start
               /\ s[j].end < s[i].end \/ (s[j].end = s[i].end /\ j < i)
      BY ByStartAndEndIs
    <3>3. /\ s[i].start \in Int /\ s[i].end \in Int
          /\ s[j].start \in Int /\ s[j].end \in Int /\ i \in Int /\ j \in Int
      BY <1>1
    <3> DEFINE a == s[i].start
               b == s[j].start
               c == s[i].end
               d == s[j].end
               x == <<i, j>> \in ByStartAndEnd(s)
               y == <<j, i>> \in ByStartAndEnd(s)
    <3>4. /\ x => a < b \/ (a = b /\ (c < d \/ (c = d /\ i < j)))
          /\ y => b < a \/ (b = a /\ (d < c \/ (d = c /\ j < i)))
          /\ a \in Int /\ b \in Int /\ c \in Int /\ d \in Int /\ i \in Int /\ j \in Int
      BY <3>1, <3>2, <3>3
    <3>5. ~(y /\ x)
      <4> HIDE DEF a, b, c, d, x, y
      <4>1. QED
        BY <3>4
    <3>6. QED
      BY <3>5
  <2>5. QED
    BY <2>2, <2>3, <2>4
<1>6. QED
  BY <1>3, <1>4, <1>5 DEF E

(* g is what is left of s when some of its elements are left out: element k *)
(* of g is element q[k] of s.                                               *)
Embeds(g, m, s, n, q) ==
  /\ m \in Nat /\ n \in Nat
  /\ DOMAIN g = 1 .. m /\ DOMAIN s = 1 .. n
  /\ q \in [1 .. m -> 1 .. n]
  /\ \A j, k \in 1 .. m : j < k => q[j] < q[k]
  /\ \A k \in 1 .. m : g[k] = s[q[k]]

(* Leaving out facts that are not fresh changes nothing.                    *)
LEMMA SameFind ==
  ASSUME NEW g, NEW m, NEW s, NEW n, NEW q, Embeds(g, m, s, n, q),
         \A i \in 1 .. n : Timed(s[i]),
         NEW t, \A i \in 1 .. n : Eligible(s[i], t) => \E k \in 1 .. m : q[k] = i
  PROVE  Find(Sorted(g), t) = Find(Sorted(s), t)
<1>1. /\ m \in Nat /\ n \in Nat
      /\ DOMAIN g = 1 .. m /\ DOMAIN s = 1 .. n
      /\ \A k \in 1 .. m : q[k] \in 1 .. n /\ g[k] = s[q[k]]
      /\ \A j, k \in 1 .. m : j < k => q[j] < q[k]
  BY DEF Embeds
<1>2. \A k \in 1 .. m : Timed(g[k])
  BY <1>1
<1>3. \A i \in 1 .. n : s[i].start \in Int /\ s[i].end \in Int
  BY TimedFacts
<1>4. CASE \A i \in 1 .. n : ~Eligible(s[i], t)
  <2>1. \A k \in 1 .. m : ~Eligible(g[k], t)
    BY <1>1, <1>4
  <2>2. Find(Sorted(g), t) = None
    BY <1>1, <1>2, <2>1, FindSorted
  <2>3. Find(Sorted(s), t) = None
    BY <1>1, <1>4, FindSorted
  <2>4. QED
    BY <2>2, <2>3
<1>5. CASE \E i \in 1 .. n : Eligible(s[i], t)
  <2>1. PICK i \in 1 .. n : IsLatest(s, n, t, i)
    BY <1>1, <1>5, FindSorted
  <2>2. Find(Sorted(s), t) = s[i]
    BY <1>1, <2>1, FindSorted
  <2>3. Eligible(s[i], t)
        /\ \A j \in 1 .. n : Eligible(s[j], t) => j = i \/ <<j, i>> \in ByStartAndEnd(s)
    BY <2>1 DEF IsLatest
  <2>4. PICK k \in 1 .. m : q[k] = i
    BY <2>3
  <2>5. \A j \in 1 .. m : Eligible(g[j], t) => j = k \/ <<j, k>> \in ByStartAndEnd(g)
    <3> TAKE j \in 1 .. m
    <3> HAVE Eligible(g[j], t)
    <3>1. q[j] \in 1 .. n /\ Eligible(s[q[j]], t) /\ q[j] \in Int /\ q[k] \in Int
      BY <1>1
    <3>2. q[j] = q[k] \/ <<q[j], q[k]>> \in ByStartAndEnd(s)
      BY <2>3, <2>4, <3>1
    <3>3. <<q[j], q[k]>> \in ByStartAndEnd(s) <=>
            \/ s[q[j]].start < s[q[k]].start
            \/ /\ s[q[j]].start = s[q[k]].start
               /\ s[q[j]].end < s[q[k]].end \/ (s[q[j]].end = s[q[k]].end /\ q[j] < q[k])
      BY <1>1, <3>1, <2>4, ByStartAndEndIs
    <3>4. <<j, k>> \in ByStartAndEnd(g) <=>
            \/ g[j].start < g[k].start
            \/ /\ g[j].start = g[k].start
               /\ g[j].end < g[k].end \/ (g[j].end = g[k].end /\ j < k)
      BY <1>1, ByStartAndEndIs
    <3>5. g[j] = s[q[j]] /\ g[k] = s[q[k]]
      BY <1>1
    <3>6. j < k \/ j = k \/ k < j
      OBVIOUS
    <3>7. k < j => q[k] < q[j]
      BY <1>1
    <3>8. j < k => q[j] < q[k]
      BY <1>1
    <3>9. CASE j = k
      BY <3>9
    <3>10. CASE j < k
      <4>1. q[j] < q[k]
        BY <3>8, <3>10
      <4>2. <<q[j], q[k]>> \in ByStartAndEnd(s)
        BY <3>1, <3>2, <4>1
      <4>3. QED
        BY <3>3, <3>4, <3>5, <3>10, <4>2
    <3>11. CASE k < j
      <4>1. q[k] < q[j]
        BY <3>7, <3>11
      <4>2. <<q[j], q[k]>> \in ByStartAndEnd(s)
        BY <3>1, <3>2, <4>1
      <4>3. ~(q[j] < q[k])
        BY <3>1, <4>1
      <4>4. QED
        BY <3>3, <3>4, <3>5, <4>2, <4>3
    <3>12. QED
      BY <3>6, <3>9, <3>10, <3>11
  <2>6. g[k] = s[i]
    BY <1>1, <2>4
  <2>7. IsLatest(g, m, t, k)
    BY <2>3, <2>5, <2>6 DEF IsLatest
  <2>8. Find(Sorted(g), t) = g[k]
    BY <1>1, <1>2, <2>7, FindSorted
  <2>9. QED
    BY <2>2, <2>6, <2>8
<1>6. QED
  BY <1>4, <1>5

(* What is kept of a sequence.                                              *)
LEMMA KeptFacts ==
  ASSUME NEW s, NEW n \in Nat, DOMAIN s = 1 .. n, NEW P, P \subseteq 1 .. n
  PROVE  \E m \in 0 .. n : \E q \in [1 .. m -> 1 .. n] :
           /\ Embeds(Kept(s, P), m, s, n, q)
           /\ Kept(s, P) = [k \in 1 .. m |-> s[q[k]]]
           /\ Len(Kept(s, P)) = m
           /\ \A i \in 1 .. n : i \in P <=> \E k \in 1 .. m : q[k] = i
<1> DEFINE q == Ascending(P)
           m == Cardinality(P)
           g == Kept(s, P)
<1>1. IsFiniteSet(P) /\ m <= n
  <2> DEFINE I == 1 .. n
  <2>1. IsFiniteSet(I) /\ Cardinality(I) = n
    BY FS_Interval
  <2>2. P \in SUBSET I
    OBVIOUS
  <2> HIDE DEF I
  <2>3. QED
    BY <2>1, <2>2, FS_Subset
<1>2. /\ m \in Nat
      /\ q \in [1 .. m -> P]
      /\ \A x \in P : \E k \in 1 .. m : q[k] = x
      /\ \A j, k \in 1 .. m : j < k => q[j] < q[k]
  <2>1. P \subseteq Int
    OBVIOUS
  <2>2. QED
    BY <1>1, <2>1, AscendingFacts
<1>3. g = [k \in DOMAIN q |-> s[q[k]]]
  BY DEF Kept
<1> HIDE DEF q, m, g
<1>4. q \in [1 .. m -> 1 .. n] /\ \A k \in 1 .. m : q[k] \in P
  BY <1>2
<1>5. /\ g = [k \in 1 .. m |-> s[q[k]]]
      /\ DOMAIN g = 1 .. m /\ Len(g) = m /\ \A k \in 1 .. m : g[k] = s[q[k]]
  BY <1>2, <1>3
<1>6. \A i \in 1 .. n : i \in P <=> \E k \in 1 .. m : q[k] = i
  BY <1>2, <1>4
<1>7. Embeds(g, m, s, n, q)
  BY <1>2, <1>4, <1>5 DEF Embeds
<1>8. m \in 0 .. n
  BY <1>1, <1>2
<1>9. QED
  BY <1>4, <1>5, <1>6, <1>7, <1>8 DEF g

(* g, which is left of s, has the facts that had started by an instant.     *)
LeavesStarted(m, s, n, q, u) ==
  /\ m <= n /\ u \in Int
  /\ \A i \in 1 .. n : s[i].start \in Int
  /\ \A i \in 1 .. n : s[i].start <= u <=> \E k \in 1 .. m : q[k] = i

(* D is the beginning of E, up to all that had started by an instant.       *)
Begins(D, m, E, n, u) ==
  /\ \A k \in 1 .. m : D[k] = E[k]
  /\ \A k \in 1 .. n : E[k].start <= u => k <= m

(* The facts that had started by an instant come first in the order of      *)
(* starts, in the same order as when only they are there.                   *)
LEMMA ArrangedPrefix ==
  ASSUME NEW g, NEW m, NEW s, NEW n, NEW q, Embeds(g, m, s, n, q),
         NEW u, LeavesStarted(m, s, n, q, u)
  PROVE  Begins(Arranged(g, ByStart(g)), m, Arranged(s, ByStart(s)), n, u)
<1>0. /\ m <= n /\ u \in Int
      /\ \A i \in 1 .. n : s[i].start \in Int
      /\ \A i \in 1 .. n : s[i].start <= u <=> \E k \in 1 .. m : q[k] = i
  BY DEF LeavesStarted
<1>1. /\ m \in Nat /\ n \in Nat
      /\ DOMAIN g = 1 .. m /\ DOMAIN s = 1 .. n
      /\ \A k \in 1 .. m : q[k] \in 1 .. n /\ g[k] = s[q[k]]
      /\ \A j, k \in 1 .. m : j < k => q[j] < q[k]
  BY DEF Embeds
<1>2. \A k \in 1 .. m : g[k].start \in Int
  BY <1>0, <1>1
<1> DEFINE D == Arranged(g, ByStart(g))
           E == Arranged(s, ByStart(s))
<1>3. PICK pg \in [1 .. m -> 1 .. m] :
        /\ DOMAIN D = 1 .. m /\ Len(D) = m
        /\ \A k \in 1 .. m : D[k] = g[pg[k]]
        /\ \A i \in 1 .. m : \E k \in 1 .. m : pg[k] = i
        /\ \A j, k \in 1 .. m : j < k => <<pg[j], pg[k]>> \in ByStart(g)
  BY <1>1, <1>2, ArrangedByStart
<1>4. PICK ps \in [1 .. n -> 1 .. n] :
        /\ DOMAIN E = 1 .. n /\ Len(E) = n
        /\ \A k \in 1 .. n : E[k] = s[ps[k]]
        /\ \A i \in 1 .. n : \E k \in 1 .. n : ps[k] = i
        /\ \A j, k \in 1 .. n : j < k => <<ps[j], ps[k]>> \in ByStart(s)
  BY <1>0, <1>1, ArrangedByStart
<1> HIDE DEF D, E
<1>5. \A i, j \in 1 .. n : <<i, j>> \in ByStart(s) <=>
        s[i].start < s[j].start \/ (s[i].start = s[j].start /\ i < j)
  BY <1>1, ByStartIs
<1>6. \A i, j \in 1 .. m : <<i, j>> \in ByStart(g) <=>
        g[i].start < g[j].start \/ (g[i].start = g[j].start /\ i < j)
  BY <1>1, ByStartIs
<1>7. \A j, k \in 1 .. n : j < k => ps[j] # ps[k]
  <2> TAKE j \in 1 .. n, k \in 1 .. n
  <2> HAVE j < k
  <2>1. <<ps[j], ps[k]>> \in ByStart(s) /\ ps[j] \in 1 .. n /\ ps[k] \in 1 .. n
    BY <1>4
  <2>2. s[ps[k]].start \in Int
    BY <1>0, <2>1
  <2>3. ~(s[ps[k]].start < s[ps[k]].start \/ (s[ps[k]].start = s[ps[k]].start /\ ps[k] < ps[k]))
    BY <2>1, <2>2
  <2>4. QED
    BY <1>5, <2>1, <2>3
<1>8. \A j, k \in 1 .. m : j < k => pg[j] # pg[k]
  <2> TAKE j \in 1 .. m, k \in 1 .. m
  <2> HAVE j < k
  <2>1. <<pg[j], pg[k]>> \in ByStart(g) /\ pg[j] \in 1 .. m /\ pg[k] \in 1 .. m
    BY <1>3
  <2>2. g[pg[k]].start \in Int
    BY <1>2, <2>1
  <2>3. ~(g[pg[k]].start < g[pg[k]].start \/ (g[pg[k]].start = g[pg[k]].start /\ pg[k] < pg[k]))
    BY <2>1, <2>2
  <2>4. QED
    BY <1>6, <2>1, <2>3
<1>9. \A j, k \in 1 .. m : q[j] = q[k] => j = k
  <2> TAKE j \in 1 .. m, k \in 1 .. m
  <2>1. j < k \/ j = k \/ k < j
    BY <1>1
  <2>2. q[j] \in 1 .. n /\ q[k] \in 1 .. n
    BY <1>1
  <2>3. q[j] \in Int /\ q[k] \in Int
    BY <2>2
  <2>4. (j < k => q[j] < q[k]) /\ (k < j => q[k] < q[j])
    BY <1>1
  <2>5. QED
    BY <2>1, <2>3, <2>4
<1> DEFINE bad == {k \in 1 .. m : ps[k] # q[pg[k]]}
<1>10. bad = {}
  <2> SUFFICES ASSUME bad # {} PROVE FALSE
    OBVIOUS
  <2>1. PICK k \in bad : \A x \in bad : k <= x
    <3>1. bad \subseteq Nat
      BY <1>1
    <3> HIDE DEF bad
    <3>2. QED
      BY <3>1, NatMin
  <2>2. k \in 1 .. m /\ k \in 1 .. n /\ ps[k] # q[pg[k]]
    BY <1>0, <1>1
  <2>3. \A x \in 1 .. m : x < k => ps[x] = q[pg[x]]
    BY <2>1, <2>2
  <2> HIDE DEF bad
  <2> DEFINE i == ps[k]
             y == pg[k]
             j == q[y]
  <2>4. i \in 1 .. n /\ y \in 1 .. m /\ j \in 1 .. n /\ i # j
    BY <1>1, <1>3, <1>4, <2>2
  <2>5. PICK a \in 1 .. n : ps[a] = j
    BY <1>4, <2>4
  <2>6. ~(a < k)
    <3> SUFFICES ASSUME a < k PROVE FALSE
      OBVIOUS
    <3>1. a \in 1 .. m
      BY <1>0, <1>1, <2>2
    <3>2. q[pg[a]] = q[pg[k]] /\ pg[a] \in 1 .. m /\ pg[k] \in 1 .. m
      BY <1>3, <2>2, <2>3, <2>5, <3>1
    <3>3. pg[a] = pg[k]
      BY <1>9, <3>2
    <3>4. QED
      BY <1>8, <2>2, <3>1, <3>3
  <2>7. k < a
    BY <2>2, <2>4, <2>5, <2>6
  <2>8. <<i, j>> \in ByStart(s)
    BY <1>4, <2>2, <2>5, <2>7
  <2>9. s[i].start \in Int /\ s[j].start \in Int
    BY <1>0, <2>4
  <2>10. s[j].start <= u
    BY <1>0, <2>4
  <2>11. s[i].start <= u
    <3> HIDE DEF i, j
    <3>1. s[i].start < s[j].start \/ s[i].start = s[j].start
      BY <1>5, <2>4, <2>8
    <3>2. QED
      BY <1>0, <2>9, <2>10, <3>1
  <2>12. PICK x \in 1 .. m : q[x] = i
    BY <1>0, <2>4, <2>11
  <2>13. PICK b \in 1 .. m : pg[b] = x
    BY <1>3
  <2>14. b # k
    BY <2>4, <2>12, <2>13
  <2>15. ~(b < k)
    <3> SUFFICES ASSUME b < k PROVE FALSE
      OBVIOUS
    <3>1. ps[b] = ps[k]
      BY <2>3, <2>12, <2>13
    <3>2. b \in 1 .. n
      BY <1>0, <1>1
    <3>3. QED
      BY <1>7, <2>2, <3>1, <3>2
  <2>16. k < b
    BY <2>2, <2>14, <2>15
  <2>17. <<y, x>> \in ByStart(g)
    BY <1>3, <2>2, <2>13, <2>16
  <2>18. g[y].start = s[j].start /\ g[x].start = s[i].start /\ (y < x => j < i)
    BY <1>1, <2>4, <2>12
  <2> HIDE DEF i, j, y
  <2>19. s[j].start < s[i].start \/ (s[j].start = s[i].start /\ j < i)
    BY <1>6, <2>4, <2>17, <2>18
  <2>20. s[i].start < s[j].start \/ (s[i].start = s[j].start /\ i < j)
    BY <1>5, <2>4, <2>8
  <2>21. i \in Int /\ j \in Int
    BY <2>4
  <2>22. QED
    BY <2>9, <2>19, <2>20, <2>21
<1>11. \A k \in 1 .. m : D[k] = E[k]
  <2> TAKE k \in 1 .. m
  <2>0. k \in 1 .. n
    BY <1>0, <1>1
  <2>1. ps[k] = q[pg[k]]
    BY <1>10
  <2> HIDE DEF bad
  <2>2. D[k] = g[pg[k]] /\ pg[k] \in 1 .. m
    BY <1>3
  <2>3. QED
    <3>1. g[pg[k]] = s[q[pg[k]]]
      BY <1>1, <2>2
    <3>2. E[k] = s[ps[k]]
      BY <1>4, <2>0
    <3>3. QED
      BY <2>1, <2>2, <3>1, <3>2
<1>12. \A k \in 1 .. n : E[k].start <= u => k <= m
  <2> TAKE k \in 1 .. n
  <2> HAVE E[k].start <= u
  <2> HIDE DEF bad
  <2>1. E[k] = s[ps[k]] /\ ps[k] \in 1 .. n
    BY <1>4
  <2>2. PICK x \in 1 .. m : q[x] = ps[k]
    BY <1>0, <2>1
  <2>3. PICK b \in 1 .. m : pg[b] = x
    BY <1>3
  <2>4. ps[b] = ps[k] /\ b \in 1 .. n
    <3>1. ps[b] = q[pg[b]]
      BY <1>10 DEF bad
    <3>2. QED
      BY <1>0, <1>1, <2>2, <2>3, <3>1
  <2>5. b = k
    BY <1>7, <2>4
  <2>6. QED
    BY <2>5
<1>13. QED
  BY <1>11, <1>12 DEF D, E, Begins

-----------------------------------------------------------------------------
(* Merged AFK events.                                                       *)

(* Of n events, those that start together by an instant have one status.    *)
Unambiguous(E, n, u) ==
  \A i, j \in 1 .. n : E[i].start = E[j].start /\ E[i].start <= u => E[i].status = E[j].status

(* Merged events start one after the other, if events that start together   *)
(* have one status.                                                         *)
LEMMA BlockStartsIncrease ==
  ASSUME NEW E, NEW n \in Nat, Ordered(E, n), NEW u, Unambiguous(E, n, u),
         NEW M, NEW B, NEW m \in Nat, IsMerged(M, B, E, n, m)
  PROVE  \A j, k \in 1 .. m : j < k /\ M[k].start <= u => M[j].start < M[k].start
<1> SUFFICES ASSUME NEW j \in 1 .. m, NEW k \in 1 .. m, j < k, M[k].start <= u
             PROVE  M[j].start < M[k].start
  OBVIOUS
<1> DEFINE a == B[j].first
           i == B[k].first
<1>1. /\ a \in 1 .. n /\ i \in 1 .. n /\ a <= B[j].last /\ B[j].last < i
      /\ B[j].last \in 1 .. n
      /\ i \in Heads(E) /\ M[j].start = E[a].start /\ M[k].start = E[i].start
  BY DEF IsMerged
<1>2. /\ DOMAIN E = 1 .. n
      /\ \A x \in 1 .. n : /\ E[x].start \in Int /\ E[x].end \in Int /\ E[x].start <= E[x].end
      /\ \A x, y \in 1 .. n : x <= y => E[x].start <= E[y].start
  BY OrderedFacts
<1> HIDE DEF a, i
<1>3. a <= i - 1 /\ i - 1 \in 1 .. n /\ i - 1 \in 1 .. i - 1
  BY <1>1
<1>4. E[a].start <= E[i - 1].start /\ E[i - 1].start <= E[i].start
  BY <1>1, <1>2, <1>3
<1>5. CASE E[a].start = E[i].start
  <2>1. E[i - 1].start = E[i].start
    BY <1>1, <1>2, <1>3, <1>4, <1>5
  <2>2. E[i - 1].status = E[i].status
    BY <1>1, <1>3, <2>1 DEF Unambiguous
  <2>3. \A x \in (i - 1) .. i : E[x].status = E[i].status
    <3>1. \A x \in (i - 1) .. i : x = i - 1 \/ x = i
      BY <1>1
    <3>2. QED
      BY <2>2, <3>1
  <2>4. E[i].start <= E[i - 1].end + Max({Freshness, Second})
    BY SMTT(30), <1>1, <1>2, <1>3, <2>1, Durations
  <2>5. Joins(E, i)
    BY <1>3, <2>3, <2>4 DEF Joins
  <2>6. QED
    BY <1>1, <2>5 DEF Heads
<1>6. CASE E[a].start # E[i].start
  BY <1>1, <1>2, <1>4, <1>3, <1>6
<1>7. QED
  BY <1>5, <1>6

(* Every event has a head: the first event of its block.                    *)
LEMMA HeadOf ==
  ASSUME NEW E, NEW n \in Nat, Ordered(E, n), NEW i \in 1 .. n
  PROVE  \E h \in 1 .. i : h \in Heads(E) /\ \A x \in h + 1 .. i : x \notin Heads(E)
<1> DEFINE B == Blocks(n, Heads(E))
<1>1. PICK m \in Nat : IsMerged(Merged(E, B), B, E, n, m)
  BY MergedFacts
<1> HIDE DEF B
<1>2. PICK k \in 1 .. m : B[k].first <= i /\ i <= B[k].last
  BY <1>1 DEF IsMerged
<1>3. /\ B[k].first \in Heads(E) /\ B[k].first \in 1 .. n /\ B[k].last \in 1 .. n
      /\ \A h \in Heads(E) : h <= B[k].first \/ h > B[k].last
  BY <1>1 DEF IsMerged
<1> DEFINE h == B[k].first
           l == B[k].last
<1>4. h \in 1 .. i /\ h \in Int /\ l \in Int /\ i <= l
  BY <1>2, <1>3
<1>5. \A x \in h + 1 .. i : x \notin Heads(E)
  <2> HIDE DEF h, l
  <2>1. \A x \in Heads(E) : x <= h \/ x > l
    BY <1>3 DEF h, l
  <2>2. \A x \in h + 1 .. i : ~(x <= h) /\ ~(x > l)
    BY <1>4
  <2>3. QED
    BY <2>1, <2>2
<1>6. QED
  BY <1>3, <1>4, <1>5

(* The latest merged event that is fresh starts with the block of the last  *)
(* fresh event, and has its status.                                         *)
LEMMA FindMerged ==
  ASSUME NEW E, NEW n \in Nat, Ordered(E, n), NEW t \in Int, Unambiguous(E, n, t),
         NEW i \in 1 .. n, Eligible(E[i], t), \A j \in 1 .. n : Eligible(E[j], t) => j <= i,
         NEW h \in 1 .. i, h \in Heads(E), \A x \in h + 1 .. i : x \notin Heads(E)
  PROVE  LET a == Find(Sorted(Merged(E, Blocks(n, Heads(E)))), t)
         IN a # None /\ a.start = E[h].start /\ a.status = E[i].status
<1> DEFINE B == Blocks(n, Heads(E))
           M == Merged(E, B)
<1>1. PICK m \in Nat : IsMerged(M, B, E, n, m)
  BY MergedFacts
<1> HIDE DEF B, M
<1>2. PICK k \in 1 .. m : B[k].first <= i /\ i <= B[k].last
  BY <1>1 DEF IsMerged
<1>3. /\ B[k].first \in Heads(E) /\ B[k].first \in 1 .. n /\ B[k].last \in 1 .. n
      /\ \A x \in Heads(E) : x <= B[k].first \/ x > B[k].last
      /\ DOMAIN M = 1 .. m
      /\ \A x \in 1 .. m : M[x] \in AFKEvent
      /\ M[k].start = E[B[k].first].start /\ M[k].status = E[B[k].first].status
  BY <1>1 DEF IsMerged
<1>4. B[k].first = h
  <2> DEFINE b == B[k].first
             l == B[k].last
  <2>1. b \in Int /\ l \in Int /\ b <= i /\ i <= l /\ h \in Int /\ h <= i
    BY <1>2, <1>3
  <2>2. b \in Heads(E) /\ \A x \in Heads(E) : x <= b \/ x > l
    BY <1>3
  <2> HIDE DEF b, l
  <2>3. h <= b
    BY <2>1, <2>2
  <2>4. ~(h < b)
    <3>1. h < b => b \in h + 1 .. i
      BY <2>1
    <3>2. QED
      BY <2>2, <3>1
  <2>5. b = h
    BY <2>1, <2>3, <2>4
  <2>6. QED
    BY <2>5 DEF b
<1>5. i \in B[k].first .. B[k].last
  BY <1>2, <1>3
<1>6. M[k].start = E[h].start /\ M[k].status = E[i].status
  BY <1>1, <1>3, <1>4, <1>5, BlockHasOneStatus
<1>7. Eligible(M[k], t)
  BY <1>1, <1>5, MergedIsAsFresh
<1>8. \A x \in 1 .. m : Timed(M[x]) /\ M[x].start \in Int
  BY <1>3, AFKEventFacts DEF Timed
<1>9. M[k].start <= t
  BY <1>7 DEF Eligible
<1>10. \A x \in 1 .. m : Eligible(M[x], t) => x = k \/ <<x, k>> \in ByStartAndEnd(M)
  <2> TAKE x \in 1 .. m
  <2> HAVE Eligible(M[x], t)
  <2>1. PICK y \in B[x].first .. B[x].last : Eligible(E[y], t)
    BY <1>1, MergedIsAsFresh
  <2>2. /\ B[x].first \in 1 .. n /\ B[x].last \in 1 .. n
        /\ (k < x => B[k].last < B[x].first)
    BY <1>1 DEF IsMerged
  <2>3. y \in 1 .. n /\ B[x].first <= y
    BY <2>2
  <2>4. y <= i
    BY <2>1, <2>3
  <2>5. ~(k < x)
    BY <1>2, <1>3, <2>2, <2>3, <2>4
  <2>6. x = k \/ x < k
    BY <2>5
  <2>7. x < k => M[x].start < M[k].start
    BY <1>1, <1>9, BlockStartsIncrease
  <2>8. <<x, k>> \in ByStartAndEnd(M) <=>
          \/ M[x].start < M[k].start
          \/ /\ M[x].start = M[k].start
             /\ M[x].end < M[k].end \/ (M[x].end = M[k].end /\ x < k)
    BY <1>3, ByStartAndEndIs
  <2>9. QED
    BY <2>6, <2>7, <2>8
<1>11. IsLatest(M, m, t, k)
  BY <1>7, <1>10 DEF IsLatest
<1>12. Find(Sorted(M), t) = M[k]
  BY <1>3, <1>8, <1>11, FindSorted
<1>13. M[k] # None
  BY <1>3, NoneAssumption
<1>14. QED
  BY <1>6, <1>12, <1>13 DEF M, B

(* Where no AFK event is fresh, no merged one is.                           *)
LEMMA NoAFK ==
  ASSUME NEW afks \in Seq(AFKEvent), NEW t \in Int, \A a \in Range(afks) : ~Eligible(a, t)
  PROVE  Find(Sorted(MergeAFK(afks)), t) = None
<1> DEFINE M == MergeAFK(afks)
<1>1. PICK m \in Nat : /\ DOMAIN M = 1 .. m
                       /\ \A k \in 1 .. m : M[k] \in AFKEvent
                       /\ \A k \in 1 .. m : \A x \in Int : Eligible(M[k], x) =>
                            \E a \in Range(afks) : Eligible(a, x)
  BY MergeAFKFacts
<1> HIDE DEF M
<1>2. \A k \in 1 .. m : ~Eligible(M[k], t)
  BY <1>1
<1>3. \A k \in 1 .. m : Timed(M[k])
  BY <1>1, AFKEventFacts DEF Timed
<1>4. Find(Sorted(M), t) = None
  BY <1>1, <1>2, <1>3, FindSorted
<1>5. QED
  BY <1>4 DEF M

(* Whether an event joins its predecessors depends on them only.            *)
LEMMA JoinsPrefix ==
  ASSUME NEW D, NEW E, NEW m \in Nat, \A k \in 1 .. m : D[k] = E[k], NEW i \in 1 .. m
  PROVE  Joins(D, i) <=> Joins(E, i)
<1>1. \A j \in 1 .. i - 1 : \A k \in j .. i : k \in 1 .. m
  OBVIOUS
<1>2. \A j \in 1 .. i - 1 : j \in 1 .. m
  OBVIOUS
<1>3. QED
  BY <1>1, <1>2 DEF Joins

(* The last of the events that are fresh.                                   *)
LEMMA LastFresh ==
  ASSUME NEW E, NEW n \in Nat, NEW t, NEW j \in 1 .. n, Eligible(E[j], t)
  PROVE  \E i \in 1 .. n : Eligible(E[i], t) /\ \A k \in 1 .. n : Eligible(E[k], t) => k <= i
<1> DEFINE I == 1 .. n
           S == {i \in I : Eligible(E[i], t)}
<1>1. IsFiniteSet(I) /\ S \in SUBSET I /\ S \subseteq Int /\ j \in S
  BY FS_Interval
<1>2. IsFiniteSet(S)
  <2> HIDE DEF I, S
  <2>1. QED
    BY <1>1, FS_Subset
<1>3. Max(S) \in S /\ \A i \in S : i <= Max(S)
  <2> HIDE DEF S
  <2>1. QED
    BY <1>1, <1>2, MaxMinFacts
<1> DEFINE i == Max(S)
<1>4. i \in S /\ \A k \in S : k <= i
  BY <1>3
<1> HIDE DEF i
<1>5. i \in 1 .. n /\ Eligible(E[i], t)
  BY <1>4
<1>6. \A k \in 1 .. n : Eligible(E[k], t) => k <= i
  BY <1>4
<1>7. QED
  BY <1>5, <1>6

(* Two AFK events that mean the same to the classifier.                     *)
LooksSame(a, b) ==
  \/ a = None /\ b = None
  \/ a # None /\ b # None /\ a.start = b.start /\ a.status = b.status

(* Events that start together by an instant have one status.                *)
OneStatus(afks, t) ==
  \A a, b \in Range(afks) : a.start = b.start /\ a.start <= t => a.status = b.status

(* AFK events that start later change nothing of what is merged before, if  *)
(* those that start together by then have one status.                       *)
LEMMA SameAFK ==
  ASSUME NEW g \in Seq(AFKEvent), NEW m \in Nat, NEW afks \in Seq(AFKEvent), NEW n \in Nat, NEW q,
         Embeds(g, m, afks, n, q), NEW t \in Int, NEW u \in Int, t <= u,
         LeavesStarted(m, afks, n, q, u), OneStatus(afks, t)
  PROVE  LooksSame(Find(Sorted(MergeAFK(g)), t), Find(Sorted(MergeAFK(afks)), t))
<1> DEFINE E == Arranged(afks, ByStart(afks))
           D == Arranged(g, ByStart(g))
<1>0. /\ m <= n
      /\ \A i \in 1 .. n : afks[i].start <= u <=> \E k \in 1 .. m : q[k] = i
      /\ \A a, b \in Range(afks) : a.start = b.start /\ a.start <= t => a.status = b.status
  BY DEF LeavesStarted, OneStatus
<1>1. DOMAIN afks = 1 .. n /\ \A i \in 1 .. n : afks[i] \in AFKEvent
  BY DEF Embeds
<1>6. /\ DOMAIN g = 1 .. m
      /\ \A k \in 1 .. m : q[k] \in 1 .. n /\ g[k] = afks[q[k]]
      /\ \A k \in 1 .. m : g[k] \in AFKEvent
  BY <1>1 DEF Embeds
<1>7. \A i \in 1 .. n : afks[i].start \in Int
  BY <1>1, AFKEventFacts
<1>8. /\ \A k \in 1 .. m : D[k] = E[k]
      /\ \A k \in 1 .. n : E[k].start <= u => k <= m
  <2>1. Begins(D, m, E, n, u)
    BY ArrangedPrefix
  <2>2. QED
    BY <2>1 DEF Begins
<1>9. /\ Ordered(E, n)
      /\ \A i \in 1 .. n : \E j \in 1 .. n : E[i] = afks[j]
      /\ \A j \in 1 .. n : \E i \in 1 .. n : E[i] = afks[j]
  BY <1>1, ArrangedIsOrdered
<1>10. Ordered(D, m) /\ \A i \in 1 .. m : \E j \in 1 .. m : D[i] = g[j]
  BY <1>6, ArrangedIsOrdered
<1>11. /\ MergeAFK(afks) = Merged(E, Blocks(n, Heads(E)))
       /\ MergeAFK(g) = Merged(D, Blocks(m, Heads(D)))
  <2>1. Len(E) = n /\ Len(D) = m
    BY <1>9, <1>10 DEF Ordered
  <2>2. QED
    BY <2>1 DEF MergeAFK, Heads
<1> HIDE DEF D, E
<1>12. /\ \A i \in 1 .. n : E[i] \in Range(afks)
       /\ \A a \in Range(afks) : \E i \in 1 .. n : E[i] = a
       /\ \A a \in Range(g) : a \in Range(afks)
  <2>1. \A i \in 1 .. n : afks[i] \in Range(afks)
    BY <1>1 DEF Range
  <2>2. \A a \in Range(afks) : \E i \in 1 .. n : afks[i] = a
    BY <1>1 DEF Range
  <2>3. \A a \in Range(g) : a \in Range(afks)
    BY <1>6, <2>1 DEF Range
  <2>4. \A i \in 1 .. n : E[i] \in Range(afks)
    BY <1>9, <2>1
  <2>5. \A a \in Range(afks) : \E i \in 1 .. n : E[i] = a
    <3> TAKE a \in Range(afks)
    <3>1. PICK j \in 1 .. n : afks[j] = a
      BY <2>2
    <3>2. PICK i \in 1 .. n : E[i] = afks[j]
      BY <1>9, <3>1
    <3>3. QED
      BY <3>1, <3>2
  <2>6. QED
    BY <2>3, <2>4, <2>5
<1>13. CASE \A a \in Range(afks) : ~Eligible(a, t)
  <2>1. \A a \in Range(g) : ~Eligible(a, t)
    BY <1>12, <1>13
  <2>2. Find(Sorted(MergeAFK(g)), t) = None
    BY <1>12, <2>1, NoAFK
  <2>3. Find(Sorted(MergeAFK(afks)), t) = None
    BY <1>13, NoAFK
  <2>4. QED
    BY <2>2, <2>3 DEF LooksSame
<1>14. CASE \E a \in Range(afks) : Eligible(a, t)
  <2>1. PICK j \in 1 .. n : Eligible(E[j], t)
    BY <1>12, <1>14
  <2>2. PICK i \in 1 .. n : /\ Eligible(E[i], t)
                            /\ \A k \in 1 .. n : Eligible(E[k], t) => k <= i
    BY <1>1, <2>1, LastFresh
  <2>3. i \in 1 .. m
    <3>1. E[i].start <= t /\ E[i].start \in Int
      BY <1>1, <1>9, <2>2, OrderedFacts DEF Eligible
    <3>2. E[i].start <= u
      BY <3>1
    <3>3. QED
      BY <1>6, <1>8, <3>2
  <2>4. Eligible(D[i], t) /\ \A k \in 1 .. m : Eligible(D[k], t) => k <= i
    <3>1. \A k \in 1 .. m : k \in 1 .. n
      BY <1>0, <1>6
    <3>2. QED
      BY <1>8, <2>2, <2>3, <3>1
  <2>5. PICK h \in 1 .. i : h \in Heads(E) /\ \A x \in h + 1 .. i : x \notin Heads(E)
    BY <1>1, <1>9, HeadOf
  <2>6. \A x \in 1 .. m : x \in Heads(D) <=> x \in Heads(E)
    <3> TAKE x \in 1 .. m
    <3>1. Joins(D, x) <=> Joins(E, x)
      BY <1>6, <1>8, JoinsPrefix
    <3>2. x \in DOMAIN D /\ x \in DOMAIN E
      BY <1>0, <1>6, <1>9, <1>10 DEF Ordered
    <3>3. QED
      BY <3>1, <3>2 DEF Heads
  <2>7. h \in 1 .. m /\ \A x \in h + 1 .. i : x \in 1 .. m
    BY <2>3
  <2>8. h \in Heads(D) /\ \A x \in h + 1 .. i : x \notin Heads(D)
    BY <2>5, <2>6, <2>7
  <2>9. Unambiguous(E, n, t)
    BY <1>0, <1>12 DEF Unambiguous
  <2>10. Unambiguous(D, m, t)
    <3>1. \A k \in 1 .. m : D[k] = E[k] /\ k \in 1 .. n
      BY <1>0, <1>6, <1>8
    <3>2. QED
      BY <2>9, <3>1 DEF Unambiguous
  <2> DEFINE a == Find(Sorted(Merged(E, Blocks(n, Heads(E)))), t)
             b == Find(Sorted(Merged(D, Blocks(m, Heads(D)))), t)
  <2> HIDE DEF a, b
  <2>11. a # None /\ a.start = E[h].start /\ a.status = E[i].status
    <3>1. n \in Nat /\ t \in Int /\ Ordered(E, n) /\ Unambiguous(E, n, t) /\ i \in 1 .. n /\ h \in 1 .. i
      BY <1>9, <2>9
    <3>2. QED
      BY <2>2, <2>5, <3>1, FindMerged DEF a
  <2>12. b # None /\ b.start = D[h].start /\ b.status = D[i].status
    <3>1. m \in Nat /\ t \in Int /\ Ordered(D, m) /\ Unambiguous(D, m, t) /\ i \in 1 .. m /\ h \in 1 .. i
      BY <1>10, <2>3, <2>10
    <3>2. QED
      BY <2>4, <2>8, <3>1, FindMerged DEF b
  <2>13. D[h] = E[h] /\ D[i] = E[i]
    BY <1>8, <2>3, <2>7
  <2> HIDE DEF a, b
  <2>14. LooksSame(b, a)
    BY <2>11, <2>12, <2>13 DEF LooksSame
  <2>15. QED
    BY <1>11, <2>14 DEF a, b
<1>15. QED
  BY <1>13, <1>14

(* The classification depends on what is selected only.                     *)
LEMMA StateDepends ==
  ASSUME NEW a, NEW b, LooksSame(a, b), NEW w, NEW c, NEW x, NEW t
  PROVE  State(w, a, c, x, t) = State(w, b, c, x, t)
<1>1. Active(a) <=> Active(b)
  BY DEF LooksSame, Active
<1>2. Away(a) <=> Away(b)
  BY DEF LooksSame, Away
<1>3. Away(a) => a.start = b.start
  BY DEF LooksSame, Away
<1>4. QED
  BY <1>1, <1>2, <1>3 DEF State

(* Evidence that looks the same is classified the same.                     *)
LEMMA ClassifyDepends ==
  ASSUME NEW p, NEW r, NEW t,
         Find(p.windows, t) = Find(r.windows, t),
         LooksSame(Find(p.afks, t), Find(r.afks, t)),
         Find(p.contexts, t) = Find(r.contexts, t),
         FindPassive(p.passive, t) = FindPassive(r.passive, t)
  PROVE  Classify(p, t) = Classify(r, t)
<1> DEFINE w == Find(p.windows, t)
           c == Find(p.contexts, t)
           browser == FindPassive(p.passive, t)
           stored == IF c = None THEN <<>> ELSE c.passive
           x == [id \in DOMAIN browser \cup DOMAIN stored |->
                   IF id \in DOMAIN browser THEN browser[id] ELSE stored[id]]
           degraded == c = None \/ \E id \in DOMAIN browser : browser[id] = "unavailable"
           says(state) ==
             [state |-> state,
              location |-> IF c = None THEN "REMOTE" ELSE c.location,
              evidence |-> IF c = None THEN "fallback" ELSE c.evidence,
              health |-> IF degraded THEN "degraded" ELSE c.health,
              app |-> IF w = None THEN None ELSE w.app,
              passive |-> x]
<1>1. Classify(p, t) = says(State(w, Find(p.afks, t), c, x, t))
  BY DEF Classify
<1>2. Classify(r, t) = says(State(w, Find(r.afks, t), c, x, t))
  BY DEF Classify
<1>3. State(w, Find(p.afks, t), c, x, t) = State(w, Find(r.afks, t), c, x, t)
  BY StateDepends
<1> HIDE DEF says, w, c, x
<1>4. QED
  BY <1>1, <1>2, <1>3

-----------------------------------------------------------------------------
(* Contexts are read one by one.                                            *)
Parsed(s) == [i \in DOMAIN s |-> Stored!ParseContext(s[i].start, s[i].end, s[i].data)]
Hosted(s) == [i \in DOMAIN s |-> Stored!HostContext(s[i])]

(* Leaving out stored contexts leaves out what they are decoded to.         *)
LEMMA ParsedEmbeds ==
  ASSUME NEW g, NEW m, NEW s, NEW n, NEW q, Embeds(g, m, s, n, q)
  PROVE  Embeds(Parsed(g), m, Parsed(s), n, q)
<1>1. /\ DOMAIN g = 1 .. m /\ DOMAIN s = 1 .. n /\ q \in [1 .. m -> 1 .. n]
      /\ \A k \in 1 .. m : g[k] = s[q[k]]
      /\ m \in Nat /\ n \in Nat
      /\ \A j, k \in 1 .. m : j < k => q[j] < q[k]
  BY DEF Embeds
<1>2. DOMAIN Parsed(g) = 1 .. m /\ DOMAIN Parsed(s) = 1 .. n
  BY <1>1 DEF Parsed
<1>3. ASSUME NEW k \in 1 .. m PROVE Parsed(g)[k] = Parsed(s)[q[k]]
  <2>1. q[k] \in 1 .. n /\ g[k] = s[q[k]]
    BY <1>1
  <2>2. QED
    BY <1>1, <2>1 DEF Parsed
<1>4. QED
  BY <1>1, <1>2, <1>3 DEF Embeds

(* Leaving out host contexts leaves out what they are read as.              *)
LEMMA HostedEmbeds ==
  ASSUME NEW g, NEW m, NEW s, NEW n, NEW q, Embeds(g, m, s, n, q)
  PROVE  Embeds(Hosted(g), m, Hosted(s), n, q)
<1>1. /\ DOMAIN g = 1 .. m /\ DOMAIN s = 1 .. n /\ q \in [1 .. m -> 1 .. n]
      /\ \A k \in 1 .. m : g[k] = s[q[k]]
      /\ m \in Nat /\ n \in Nat
      /\ \A j, k \in 1 .. m : j < k => q[j] < q[k]
  BY DEF Embeds
<1>2. DOMAIN Hosted(g) = 1 .. m /\ DOMAIN Hosted(s) = 1 .. n
  BY <1>1 DEF Hosted
<1>3. ASSUME NEW k \in 1 .. m PROVE Hosted(g)[k] = Hosted(s)[q[k]]
  <2>1. q[k] \in 1 .. n /\ g[k] = s[q[k]]
    BY <1>1
  <2>2. QED
    BY <1>1, <2>1 DEF Hosted
<1>4. QED
  BY <1>1, <1>2, <1>3 DEF Embeds

(* Where the elements of two sequences are in the two they are left of.     *)
Joined(q, m, v, k, n) == [i \in 1 .. m + k |-> IF i <= m THEN q[i] ELSE n + v[i - m]]

(* Leaving out elements of two sequences leaves them out of the two joined. *)
LEMMA ConcatEmbeds ==
  ASSUME NEW g, NEW m, NEW s, NEW n, NEW q, Embeds(g, m, s, n, q),
         NEW h, NEW k, NEW r, NEW l, NEW v, Embeds(h, k, r, l, v),
         g = [i \in 1 .. m |-> g[i]], h = [i \in 1 .. k |-> h[i]],
         s = [i \in 1 .. n |-> s[i]], r = [i \in 1 .. l |-> r[i]]
  PROVE  Embeds(g \o h, m + k, s \o r, n + l, Joined(q, m, v, k, n))
<1>1. /\ m \in Nat /\ n \in Nat
      /\ \A i \in 1 .. m : q[i] \in 1 .. n /\ g[i] = s[q[i]]
      /\ \A i, j \in 1 .. m : i < j => q[i] < q[j]
  BY DEF Embeds
<1>2. /\ k \in Nat /\ l \in Nat
      /\ \A i \in 1 .. k : v[i] \in 1 .. l /\ h[i] = r[v[i]]
      /\ \A i, j \in 1 .. k : i < j => v[i] < v[j]
  BY DEF Embeds
<1> DEFINE c == Joined(q, m, v, k, n)
           G == g \o h
           S == s \o r
<1>3. /\ DOMAIN G = 1 .. m + k
      /\ \A i \in 1 .. m + k : G[i] = IF i <= m THEN g[i] ELSE h[i - m]
  BY <1>1, <1>2, ConcatIs
<1>4. /\ DOMAIN S = 1 .. n + l
      /\ \A i \in 1 .. n + l : S[i] = IF i <= n THEN s[i] ELSE r[i - n]
  BY <1>1, <1>2, ConcatIs
<1>5. m + k \in Nat /\ n + l \in Nat
  BY <1>1, <1>2
<1>6. \A i \in 1 .. m + k : /\ i <= m => i \in 1 .. m /\ c[i] = q[i]
                            /\ ~(i <= m) => i - m \in 1 .. k /\ c[i] = n + v[i - m]
  BY <1>1, <1>2 DEF Joined
<1>7. c = [i \in 1 .. m + k |-> c[i]]
  BY DEF Joined
<1> HIDE DEF c, G, S
<1>8. \A i \in 1 .. m + k : c[i] \in 1 .. n + l /\ G[i] = S[c[i]]
  <2> TAKE i \in 1 .. m + k
  <2>1. CASE i <= m
    <3>1. i \in 1 .. m /\ c[i] = q[i]
      BY <1>6, <2>1
    <3>2. q[i] \in 1 .. n /\ g[i] = s[q[i]]
      BY <1>1, <3>1
    <3>3. q[i] \in 1 .. n + l /\ q[i] <= n
      BY <1>1, <1>2, <3>2
    <3>4. QED
      BY <1>3, <1>4, <2>1, <3>1, <3>2, <3>3
  <2>2. CASE ~(i <= m)
    <3>1. i - m \in 1 .. k /\ c[i] = n + v[i - m]
      BY <1>6, <2>2
    <3>2. v[i - m] \in 1 .. l /\ h[i - m] = r[v[i - m]]
      BY <1>2, <3>1
    <3>3. c[i] \in 1 .. n + l /\ ~(c[i] <= n) /\ c[i] - n = v[i - m]
      BY <1>1, <1>2, <3>1, <3>2
    <3>4. G[i] = h[i - m]
      BY <1>3, <2>2
    <3>5. S[c[i]] = r[c[i] - n]
      BY <1>4, <3>3
    <3>6. QED
      BY <3>2, <3>3, <3>4, <3>5
  <2>3. QED
    BY <2>1, <2>2
<1>9. \A i, j \in 1 .. m + k : i < j => c[i] < c[j]
  <2> TAKE i \in 1 .. m + k, j \in 1 .. m + k
  <2> HAVE i < j
  <2>1. CASE j <= m
    <3>1. i \in 1 .. m /\ j \in 1 .. m /\ c[i] = q[i] /\ c[j] = q[j]
      BY <1>1, <1>6, <2>1
    <3>2. QED
      BY <1>1, <3>1
  <2>2. CASE i <= m /\ ~(j <= m)
    <3>1. i \in 1 .. m /\ c[i] = q[i] /\ j - m \in 1 .. k /\ c[j] = n + v[j - m]
      BY <1>6, <2>2
    <3>2. q[i] \in 1 .. n /\ v[j - m] \in 1 .. l
      BY <1>1, <1>2, <3>1
    <3>3. QED
      BY <1>1, <3>1, <3>2
  <2>3. CASE ~(i <= m)
    <3>1. i - m \in 1 .. k /\ c[i] = n + v[i - m]
      BY <1>6, <2>3
    <3>2. j - m \in 1 .. k /\ c[j] = n + v[j - m] /\ i - m < j - m
      BY <1>1, <1>6, <2>3
    <3>3. v[i - m] < v[j - m] /\ v[i - m] \in 1 .. l /\ v[j - m] \in 1 .. l
      BY <1>2, <3>1, <3>2
    <3>4. QED
      BY <1>1, <3>1, <3>2, <3>3
  <2>4. QED
    BY <1>1, <2>1, <2>2, <2>3
<1>10. c \in [1 .. m + k -> 1 .. n + l]
  BY <1>7, <1>8
<1>11. Embeds(G, m + k, S, n + l, c)
  BY <1>3, <1>4, <1>5, <1>8, <1>9, <1>10 DEF Embeds
<1>12. QED
  BY <1>11 DEF c, G, S

-----------------------------------------------------------------------------
(* Facts that start later.                                                  *)

(* What is kept of s are its elements at the places P: of n elements m,     *)
(* element k of which is element q[k] of s.                                 *)
IsKept(s, P, n, m, q) ==
  /\ n \in Nat /\ m \in Nat /\ m <= n
  /\ DOMAIN s = 1 .. n
  /\ q \in [1 .. m -> 1 .. n]
  /\ Embeds(Kept(s, P), m, s, n, q)
  /\ Kept(s, P) = [k \in 1 .. m |-> s[q[k]]]
  /\ \A i \in 1 .. n : i \in P <=> \E k \in 1 .. m : q[k] = i

(* What is kept of a sequence has places in it.                             *)
LEMMA KeptExists ==
  ASSUME NEW X, NEW s \in Seq(X), NEW P, P \subseteq DOMAIN s
  PROVE  \E n, m, q : IsKept(s, P, n, m, q)
<1> DEFINE n == Len(s)
<1>1. n \in Nat /\ DOMAIN s = 1 .. n
  OBVIOUS
<1> HIDE DEF n
<1>2. P \subseteq 1 .. n
  BY <1>1
<1>3. PICK m \in 0 .. n : \E q \in [1 .. m -> 1 .. n] :
           /\ Embeds(Kept(s, P), m, s, n, q)
           /\ Kept(s, P) = [k \in 1 .. m |-> s[q[k]]]
           /\ Len(Kept(s, P)) = m
           /\ \A i \in 1 .. n : i \in P <=> \E k \in 1 .. m : q[k] = i
  BY SMTT(30), <1>1, <1>2, KeptFacts
<1>4. PICK q \in [1 .. m -> 1 .. n] :
           /\ Embeds(Kept(s, P), m, s, n, q)
           /\ Kept(s, P) = [k \in 1 .. m |-> s[q[k]]]
           /\ \A i \in 1 .. n : i \in P <=> \E k \in 1 .. m : q[k] = i
  BY <1>3
<1>5. m \in Nat /\ m <= n
  BY <1>1
<1>6. IsKept(s, P, n, m, q)
  BY <1>1, <1>4, <1>5 DEF IsKept
<1>7. QED
  BY <1>6

(* What is kept of a sequence are elements of it.                           *)
LEMMA KeptInSeq ==
  ASSUME NEW X, NEW s \in Seq(X), NEW P, P \subseteq DOMAIN s
  PROVE  /\ Kept(s, P) \in Seq(X)
         /\ Range(Kept(s, P)) \subseteq Range(s)
         /\ Kept(s, P) \in Seq(Range(Kept(s, P)))
<1> DEFINE g == Kept(s, P)
<1>1. PICK n, m, q : IsKept(s, P, n, m, q)
  BY KeptExists
<1>2. /\ n \in Nat /\ m \in Nat /\ DOMAIN s = 1 .. n
      /\ q \in [1 .. m -> 1 .. n]
      /\ g = [k \in 1 .. m |-> s[q[k]]]
  BY <1>1 DEF IsKept
<1>3. \A i \in 1 .. n : s[i] \in X /\ s[i] \in Range(s)
  <2>1. \A i \in DOMAIN s : s[i] \in X /\ s[i] \in Range(s)
    BY DEF Range
  <2>2. QED
    BY <1>2, <2>1
<1> HIDE DEF g
<1>6. g \in [1 .. m -> X] /\ \A k \in 1 .. m : g[k] \in Range(s)
  BY <1>2, <1>3
<1>7. DOMAIN g = 1 .. m /\ g = [k \in 1 .. m |-> g[k]]
  BY <1>2
<1>8. g \in [1 .. m -> Range(g)]
  BY <1>7 DEF Range
<1>9. g \in Seq(X) /\ g \in Seq(Range(g))
  BY SMTT(30), <1>2, <1>6, <1>8
<1>10. Range(g) \subseteq Range(s)
  BY <1>6, <1>7 DEF Range
<1>11. QED
  BY <1>9, <1>10 DEF g

(* Where the events and the host contexts are that had started.             *)
Until(s, u) == {i \in DOMAIN s : s[i].start <= u}
HostUntil(s, u) == {i \in DOMAIN s : s[i].at <= u}

(* The facts that had started by an instant, kind by kind.                  *)
LEMMA StartedIs ==
  ASSUME NEW f, NEW u
  PROVE  /\ Started(f, u).windows = Kept(f.windows, Until(f.windows, u))
         /\ Started(f, u).afks = Kept(f.afks, Until(f.afks, u))
         /\ Started(f, u).stored = Kept(f.stored, Until(f.stored, u))
         /\ Started(f, u).host = Kept(f.host, HostUntil(f.host, u))
         /\ Started(f, u).passive = {e \in f.passive : e.start <= u}
BY DEF Started, Until, HostUntil

(* What is kept of the events until an instant are some of them.            *)
LEMMA KeptUntil ==
  ASSUME NEW X, NEW s \in Seq(X), NEW u
  PROVE  /\ Kept(s, Until(s, u)) \in Seq(X)
         /\ Range(Kept(s, Until(s, u))) \subseteq Range(s)
         /\ Kept(s, Until(s, u)) \in Seq(Range(Kept(s, Until(s, u))))
<1>1. Until(s, u) \subseteq DOMAIN s
  BY DEF Until
<1>2. QED
  BY <1>1, KeptInSeq

(* The facts that had started by an instant are facts.                      *)
LEMMA StartedIsFacts ==
  ASSUME NEW f, IsFacts(f), NEW u
  PROVE  IsFacts(Started(f, u))
<1> DEFINE S == Started(f, u)
<1>1. /\ f.windows \in Seq(WindowEvent) /\ f.afks \in Seq(AFKEvent)
      /\ f.stored \in Seq(Range(f.stored)) /\ f.host \in Seq(Range(f.host))
      /\ \A e \in Range(f.stored) \cup f.passive : Timed(e)
      /\ \A e \in Range(f.host) : e.at \in Times
  BY DEF IsFacts
<1>2. S.windows \in Seq(WindowEvent)
  BY <1>1, StartedIs, KeptUntil
<1>3. S.afks \in Seq(AFKEvent)
  BY <1>1, StartedIs, KeptUntil
<1>4. S.stored \in Seq(Range(S.stored)) /\ Range(S.stored) \subseteq Range(f.stored)
  BY <1>1, StartedIs, KeptUntil
<1>5. S.host \in Seq(Range(S.host)) /\ Range(S.host) \subseteq Range(f.host)
  <2>1. HostUntil(f.host, u) \subseteq DOMAIN f.host
    BY DEF HostUntil
  <2>2. QED
    BY <1>1, <2>1, StartedIs, KeptInSeq
<1>6. S.passive \subseteq f.passive
  BY StartedIs
<1> HIDE DEF S
<1>7. IsFacts(S)
  BY <1>1, <1>2, <1>3, <1>4, <1>5, <1>6 DEF IsFacts
<1>8. QED
  BY <1>7 DEF S

(* What is eligible at an instant has started by then.                      *)
LEMMA EligibleStarted ==
  ASSUME NEW e, NEW t \in Int, NEW u \in Int, t <= u, e.start \in Int, Eligible(e, t)
  PROVE  e.start <= u
BY DEF Eligible

(* The windows.                                                             *)
LEMMA SettledWindows ==
  ASSUME NEW s \in Seq(WindowEvent), NEW t \in Int, NEW u \in Int, t <= u
  PROVE  Find(Sorted(Kept(s, Until(s, u))), t) = Find(Sorted(s), t)
<1>1. Until(s, u) \subseteq DOMAIN s
  BY DEF Until
<1>2. PICK n, m, q : IsKept(s, Until(s, u), n, m, q)
  BY <1>1, KeptExists
<1>3. /\ n \in Nat /\ DOMAIN s = 1 .. n
      /\ Embeds(Kept(s, Until(s, u)), m, s, n, q)
      /\ \A i \in 1 .. n : i \in Until(s, u) <=> \E k \in 1 .. m : q[k] = i
  BY <1>2 DEF IsKept
<1>4. \A i \in 1 .. n : Timed(s[i])
  BY <1>3 DEF WindowEvent
<1>6. ASSUME NEW i \in 1 .. n, Eligible(s[i], t) PROVE \E k \in 1 .. m : q[k] = i
  <2>1. s[i].start \in Int
    BY <1>4, TimedFacts
  <2>2. s[i].start <= u
    BY <1>6, <2>1, EligibleStarted
  <2>3. QED
    BY <1>3, <2>2 DEF Until
<1>7. QED
  BY <1>3, <1>4, <1>6, SameFind

(* The AFK events.                                                          *)
LEMMA SettledAFK ==
  ASSUME NEW s \in Seq(AFKEvent), NEW t \in Int, NEW u \in Int, t <= u, OneStatus(s, t)
  PROVE  LooksSame(Find(Sorted(MergeAFK(Kept(s, Until(s, u)))), t),
                   Find(Sorted(MergeAFK(s)), t))
<1> DEFINE g == Kept(s, Until(s, u))
<1>1. Until(s, u) \subseteq DOMAIN s
  BY DEF Until
<1>2. PICK n, m, q : IsKept(s, Until(s, u), n, m, q)
  BY <1>1, KeptExists
<1>3. /\ n \in Nat /\ m \in Nat /\ m <= n /\ DOMAIN s = 1 .. n
      /\ Embeds(g, m, s, n, q)
      /\ \A i \in 1 .. n : i \in Until(s, u) <=> \E k \in 1 .. m : q[k] = i
  BY <1>2 DEF IsKept
<1>4. g \in Seq(AFKEvent)
  BY KeptUntil
<1>5. LeavesStarted(m, s, n, q, u)
  <2>1. \A i \in 1 .. n : s[i].start <= u <=> \E k \in 1 .. m : q[k] = i
    BY <1>3 DEF Until
  <2>2. \A i \in 1 .. n : s[i].start \in Int
    <3>1. \A i \in DOMAIN s : s[i] \in AFKEvent
      OBVIOUS
    <3>2. QED
      BY <1>3, <3>1, AFKEventFacts
  <2>3. QED
    BY <1>3, <2>1, <2>2 DEF LeavesStarted
<1> HIDE DEF g
<1>6. LooksSame(Find(Sorted(MergeAFK(g)), t), Find(Sorted(MergeAFK(s)), t))
  BY <1>3, <1>4, <1>5, SameAFK
<1>7. QED
  BY <1>6 DEF g

(* Browser events.                                                          *)
LEMMA SettledPassive ==
  ASSUME NEW f, IsFacts(f), NEW t \in Int, NEW u \in Int, t <= u
  PROVE  FindPassive(Started(f, u).passive, t) = FindPassive(f.passive, t)
<1>1. Started(f, u).passive = {e \in f.passive : e.start <= u}
  BY StartedIs
<1>2. ASSUME NEW e \in f.passive, Eligible(e, t) PROVE e.start <= u
  <2>1. Timed(e)
    BY DEF IsFacts
  <2>2. QED
    BY <1>2, <2>1, TimedFacts, EligibleStarted
<1>3. {e \in Started(f, u).passive : Eligible(e, t)} = {e \in f.passive : Eligible(e, t)}
  BY <1>1, <1>2
<1>4. QED
  BY <1>3 DEF FindPassive

(* Stored contexts are decoded one by one, each with its start.             *)
LEMMA ParsedIs ==
  ASSUME NEW s, NEW n, DOMAIN s = 1 .. n
  PROVE  /\ Parsed(s) = [i \in 1 .. n |-> Parsed(s)[i]]
         /\ \A i \in 1 .. n : Parsed(s)[i].start = s[i].start
<1>1. Parsed(s) = [i \in 1 .. n |-> Parsed(s)[i]]
  BY DEF Parsed
<1>2. ASSUME NEW i \in 1 .. n PROVE Parsed(s)[i].start = s[i].start
  <2>1. Parsed(s)[i] = Stored!ParseContext(s[i].start, s[i].end, s[i].data)
    BY DEF Parsed
  <2>2. QED
    BY <2>1, ParseContextTimes
<1>3. QED
  BY <1>1, <1>2

(* Host contexts are read one by one, each with its time.                   *)
LEMMA HostedIs ==
  ASSUME NEW s, NEW n, DOMAIN s = 1 .. n
  PROVE  /\ Hosted(s) = [i \in 1 .. n |-> Hosted(s)[i]]
         /\ \A i \in 1 .. n : Hosted(s)[i].start = s[i].at
<1>1. Hosted(s) = [i \in 1 .. n |-> Hosted(s)[i]]
  BY DEF Hosted
<1>2. ASSUME NEW i \in 1 .. n PROVE Hosted(s)[i].start = s[i].at
  <2>1. Hosted(s)[i] = Stored!HostContext(s[i])
    BY DEF Hosted
  <2>2. QED
    BY <2>1, HostContextTimes
<1>3. QED
  BY <1>1, <1>2

(* Normalize puts the decoded contexts before the host contexts.            *)
LEMMA ContextsAre ==
  ASSUME NEW f
  PROVE  Evidence(f).contexts = Parsed(f.stored) \o Hosted(f.host)
BY DEF Evidence, Parsed, Hosted

(* The contexts.                                                            *)
LEMMA SettledContexts ==
  ASSUME NEW f, IsFacts(f), NEW t \in Int, NEW u \in Int, t <= u
  PROVE  Find(Sorted(Evidence(Started(f, u)).contexts), t) = Find(Sorted(Evidence(f).contexts), t)
<1> DEFINE s == f.stored
           r == f.host
           g == Kept(s, Until(s, u))
           h == Kept(r, HostUntil(r, u))
           C == Parsed(s) \o Hosted(r)
           D == Parsed(g) \o Hosted(h)
<1>1. /\ Evidence(Started(f, u)).contexts = D
      /\ Evidence(f).contexts = C
  <2>1. Started(f, u).stored = g /\ Started(f, u).host = h
    BY StartedIs
  <2> HIDE DEF g, h
  <2>2. QED
    BY <2>1, ContextsAre
<1>2. PICK n, m, q : IsKept(s, Until(s, u), n, m, q)
  <2>1. s \in Seq(Range(s)) /\ Until(s, u) \subseteq DOMAIN s
    BY DEF IsFacts, Until
  <2> HIDE DEF s
  <2>2. QED
    BY <2>1, KeptExists
<1>3. PICK l, k, v : IsKept(r, HostUntil(r, u), l, k, v)
  <2>1. r \in Seq(Range(r)) /\ HostUntil(r, u) \subseteq DOMAIN r
    BY DEF IsFacts, HostUntil
  <2> HIDE DEF r
  <2>2. QED
    BY <2>1, KeptExists
<1>4. IsEvidence(Evidence(f))
  BY EvidenceIsEvidence
<1>5. \A i \in DOMAIN C : Timed(C[i])
  <2>1. \A e \in Range(C) : Timed(e)
    BY <1>1, <1>4 DEF IsEvidence
  <2> HIDE DEF C
  <2>2. QED
    BY <2>1 DEF Range
<1> HIDE DEF s, r
<1>6. /\ n \in Nat /\ m \in Nat /\ DOMAIN s = 1 .. n
      /\ Embeds(g, m, s, n, q) /\ g = [i \in 1 .. m |-> s[q[i]]]
      /\ \A i \in 1 .. n : i \in Until(s, u) <=> \E j \in 1 .. m : q[j] = i
  BY <1>2 DEF IsKept
<1>7. /\ l \in Nat /\ k \in Nat /\ DOMAIN r = 1 .. l
      /\ Embeds(h, k, r, l, v) /\ h = [i \in 1 .. k |-> r[v[i]]]
      /\ \A i \in 1 .. l : i \in HostUntil(r, u) <=> \E j \in 1 .. k : v[j] = i
  BY <1>3 DEF IsKept
<1> HIDE DEF g, h
<1> DEFINE c == Joined(q, m, v, k, n)
<1>8. /\ Parsed(g) = [i \in 1 .. m |-> Parsed(g)[i]]
      /\ Parsed(s) = [i \in 1 .. n |-> Parsed(s)[i]]
      /\ Hosted(h) = [i \in 1 .. k |-> Hosted(h)[i]]
      /\ Hosted(r) = [i \in 1 .. l |-> Hosted(r)[i]]
      /\ \A i \in 1 .. n : Parsed(s)[i].start = s[i].start
      /\ \A i \in 1 .. l : Hosted(r)[i].start = r[i].at
  <2>1. DOMAIN g = 1 .. m /\ DOMAIN h = 1 .. k
    BY <1>6, <1>7
  <2>2. QED
    BY ZenonT(30), <1>6, <1>7, <2>1, ParsedIs, HostedIs
<1>9. Embeds(D, m + k, C, n + l, c)
  <2>1. Embeds(Parsed(g), m, Parsed(s), n, q) /\ Embeds(Hosted(h), k, Hosted(r), l, v)
    BY <1>6, <1>7, ParsedEmbeds, HostedEmbeds
  <2> HIDE DEF c
  <2>2. Embeds(Parsed(g) \o Hosted(h), m + k, Parsed(s) \o Hosted(r), n + l, Joined(q, m, v, k, n))
    BY <1>8, <2>1, ConcatEmbeds
  <2>3. QED
    BY <2>2 DEF c
<1>10. /\ DOMAIN C = 1 .. n + l
       /\ \A i \in 1 .. n + l : C[i] = IF i <= n THEN Parsed(s)[i] ELSE Hosted(r)[i - n]
  BY <1>6, <1>7, <1>8, ConcatIs
<1>11. \A i \in 1 .. m + k : c[i] = IF i <= m THEN q[i] ELSE n + v[i - m]
  BY DEF Joined
<1> HIDE DEF c, C, D
<1>12. ASSUME NEW i \in 1 .. n + l, Eligible(C[i], t) PROVE \E j \in 1 .. m + k : c[j] = i
  <2>1. C[i].start \in Int
    BY <1>5, <1>10, TimedFacts
  <2>2. C[i].start <= u
    BY <1>12, <2>1, EligibleStarted
  <2>3. CASE i <= n
    <3>1. i \in 1 .. n
      BY <1>6, <1>7, <2>3
    <3>2. C[i].start = s[i].start
      BY <1>8, <1>10, <2>3, <3>1
    <3>3. i \in Until(s, u)
      BY <1>6, <2>2, <3>1, <3>2 DEF Until
    <3>4. PICK j \in 1 .. m : q[j] = i
      BY <1>6, <3>1, <3>3
    <3>5. j \in 1 .. m + k /\ j <= m
      BY <1>6, <1>7
    <3>6. c[j] = i
      BY <1>11, <3>4, <3>5
    <3>7. QED
      BY <3>5, <3>6
  <2>4. CASE ~(i <= n)
    <3>1. i - n \in 1 .. l
      BY <1>6, <1>7, <2>4
    <3>2. C[i].start = r[i - n].at
      BY <1>8, <1>10, <2>4, <3>1
    <3>3. i - n \in HostUntil(r, u)
      BY <1>7, <2>2, <3>1, <3>2 DEF HostUntil
    <3>4. PICK j \in 1 .. k : v[j] = i - n
      BY <1>7, <3>1, <3>3
    <3> DEFINE x == m + j
    <3>5. x \in 1 .. m + k /\ ~(x <= m) /\ x - m = j
      BY <1>6, <1>7
    <3> HIDE DEF x
    <3>6. c[x] = n + v[j]
      BY <1>11, <3>5
    <3>7. c[x] = i
      BY <1>6, <1>7, <3>4, <3>6
    <3>8. QED
      BY <3>5, <3>7
  <2>5. QED
    BY <2>3, <2>4
<1>13. \A i \in 1 .. n + l : Timed(C[i])
  BY <1>5, <1>10
<1>14. Find(Sorted(D), t) = Find(Sorted(C), t)
  BY <1>9, <1>12, <1>13, SameFind
<1>15. QED
  BY <1>1, <1>14

(* What is classified at an instant rests on what had started by then.      *)
LEMMA Settled ==
  ASSUME NEW f, IsFacts(f), NEW t \in Int, NEW u \in Int, t <= u, OneStatus(f.afks, t)
  PROVE  Classify(Prepared(Evidence(Started(f, u))), t) = Classify(Prepared(Evidence(f)), t)
<1> DEFINE g == Started(f, u)
           p == Prepared(Evidence(g))
           r == Prepared(Evidence(f))
<1>1. /\ p.windows = Sorted(g.windows) /\ r.windows = Sorted(f.windows)
      /\ p.afks = Sorted(MergeAFK(g.afks)) /\ r.afks = Sorted(MergeAFK(f.afks))
      /\ p.contexts = Sorted(Evidence(g).contexts) /\ r.contexts = Sorted(Evidence(f).contexts)
      /\ p.passive = g.passive /\ r.passive = f.passive
  BY DEF Prepared, Evidence
<1>2. f.windows \in Seq(WindowEvent) /\ f.afks \in Seq(AFKEvent)
  BY DEF IsFacts
<1>3. g.windows = Kept(f.windows, Until(f.windows, u)) /\ g.afks = Kept(f.afks, Until(f.afks, u))
  BY StartedIs
<1> HIDE DEF p, r, g
<1>4. Find(p.windows, t) = Find(r.windows, t)
  BY <1>1, <1>2, <1>3, SettledWindows
<1>5. LooksSame(Find(p.afks, t), Find(r.afks, t))
  BY <1>1, <1>2, <1>3, SettledAFK
<1>6. Find(p.contexts, t) = Find(r.contexts, t)
  BY <1>1, SettledContexts DEF g
<1>7. FindPassive(p.passive, t) = FindPassive(r.passive, t)
  BY <1>1, SettledPassive DEF g
<1>8. Classify(p, t) = Classify(r, t)
  BY <1>4, <1>5, <1>6, <1>7, ClassifyDepends
<1>9. QED
  BY <1>8 DEF p, r, g

(* Unambiguous AFK events have one status at each start.                    *)
LEMMA OneStatusAlways ==
  ASSUME NEW f, AFKIsUnambiguous(f), NEW t
  PROVE  OneStatus(f.afks, t)
BY DEF AFKIsUnambiguous, OneStatus

(* The day's timeline never depends on what started later.                  *)
LEMMA TodayIsSettled ==
  ASSUME IsAnswered
  PROVE  TodaysPastIsSettled
<1> SUFFICES ASSUME today # None, AFKIsUnambiguous(facts), NEW t \in Between
             PROVE  SegmentAt(t).says.state = Classify(Prepared(Evidence(Started(facts, t))), t).state
  BY DEF TodaysPastIsSettled
<1>1. IsFacts(facts) /\ t \in Int
  BY AskedFacts, BetweenFacts
<1>2. SegmentAt(t).says = Classify(Prepared(Evidence(facts)), t)
  BY TodaysSegment
<1>3. OneStatus(facts.afks, t) /\ t <= t
  BY <1>1, OneStatusAlways
<1>4. Classify(Prepared(Evidence(Started(facts, t))), t) = Classify(Prepared(Evidence(facts)), t)
  BY <1>1, <1>3, Settled
<1>5. QED
  BY <1>2, <1>4

-----------------------------------------------------------------------------
(* A timeline is determined by what its instants say.                       *)

SayTheSame(p, r, from, to) ==
  \A t \in Int \ Times : from < t /\ t < to => Classify(p, t) = Classify(r, t)

(* A segment ends no earlier than the one that starts with it.              *)
LEMMA EndsNoEarlier ==
  ASSUME NEW T, NEW n \in Nat, NEW p, NEW U, NEW k \in Nat, NEW r,
         NEW from \in Times, NEW to \in Times,
         IsTimeline(T, n, p, from, to), IsTimeline(U, k, r, from, to),
         SayTheSame(p, r, from, to),
         NEW i \in 1 .. n, i \in 1 .. k,
         T[i].start = U[i].start, T[i].says = U[i].says
  PROVE  ~(T[i].end < U[i].end)
<1> SUFFICES ASSUME T[i].end < U[i].end PROVE FALSE
  OBVIOUS
<1>1. /\ T[i].end \in Times /\ T[i].end \in Int /\ T[i].start \in Int /\ T[i].start < T[i].end
      /\ U[i].end \in Times /\ U[i].end \in Int /\ U[i].end <= to /\ from <= U[i].start
  BY DEF IsTimeline
<1>2. to \in Int /\ from \in Int
  BY TimesArithmetic
<1>3. i # n
  BY <1>1, <1>2 DEF IsTimeline
<1>4. i + 1 \in 1 .. n /\ i \in 1 .. n - 1
  BY <1>3
<1>5. T[i].end = T[i + 1].start /\ T[i].says # T[i + 1].says
  BY <1>4 DEF IsTimeline
<1>6. T[i + 1].start \in Times /\ T[i + 1].end \in Times /\ T[i + 1].end \in Int
        /\ T[i + 1].start < T[i + 1].end /\ T[i + 1].end <= to
  BY <1>4 DEF IsTimeline
<1> DEFINE t == T[i].end + 1
<1>7. t \in Int \ Times
  <2>1. t - 1 \in Times /\ t \in Int
    BY <1>1
  <2>2. t \notin Times
    BY <2>1 DEF Times
  <2>3. QED
    BY <2>1, <2>2
<1>8. T[i + 1].end - T[i + 1].start >= 2 /\ U[i].end - T[i].end >= 2
  BY <1>1, <1>6, TimesArithmetic
<1>9. T[i + 1].start < t /\ t < T[i + 1].end /\ U[i].start < t /\ t < U[i].end
  BY <1>1, <1>5, <1>6, <1>8
<1>10. from < t /\ t < to
  BY <1>1, <1>2, <1>9
<1> HIDE DEF t
<1>11. T[i + 1].says = Classify(p, t)
  BY <1>4, <1>7, <1>9 DEF IsTimeline
<1>12. U[i].says = Classify(r, t)
  BY <1>7, <1>9 DEF IsTimeline
<1>13. Classify(p, t) = Classify(r, t)
  BY <1>7, <1>10 DEF SayTheSame
<1>14. QED
  BY <1>5, <1>11, <1>12, <1>13

(* Two timelines of the same period whose instants say the same have the    *)
(* same segments.                                                           *)
LEMMA SegmentsAgree ==
  ASSUME NEW T, NEW n \in Nat, NEW p, NEW U, NEW k \in Nat, NEW r,
         NEW from \in Times, NEW to \in Times,
         IsTimeline(T, n, p, from, to), IsTimeline(U, k, r, from, to),
         SayTheSame(p, r, from, to)
  PROVE  \A i \in 1 .. n : i <= k /\ T[i] = U[i]
<1> DEFINE bad == {i \in 1 .. n : ~(i <= k /\ T[i] = U[i])}
<1> SUFFICES ASSUME bad # {} PROVE FALSE
  OBVIOUS
<1>1. PICK i \in bad : \A x \in bad : i <= x
  <2>1. bad \subseteq Nat
    OBVIOUS
  <2> HIDE DEF bad
  <2>2. QED
    BY <2>1, NatMin
<1>2. i \in 1 .. n /\ ~(i <= k /\ T[i] = U[i])
  OBVIOUS
<1>3. \A x \in 1 .. n : x < i => x <= k /\ T[x] = U[x]
  BY <1>1, <1>2
<1> HIDE DEF bad
<1>4. /\ T[i].start \in Times /\ T[i].end \in Times /\ T[i].start \in Int /\ T[i].end \in Int
      /\ from <= T[i].start /\ T[i].start < T[i].end /\ T[i].end <= to
      /\ T[i] = [start |-> T[i].start, end |-> T[i].end, says |-> T[i].says]
  BY <1>2 DEF IsTimeline
<1>5. to \in Int /\ from \in Int
  BY TimesArithmetic
<1>6. i \in 1 .. k /\ T[i].start = U[i].start
  <2>1. CASE i = 1
    <3>1. from # to /\ n # 0
      BY <1>2, <1>4, <1>5, <2>1
    <3>2. k # 0
      BY <3>1 DEF IsTimeline
    <3>3. U[1].start = from /\ T[1].start = from
      BY <3>1, <3>2 DEF IsTimeline
    <3>4. QED
      BY <2>1, <3>2, <3>3
  <2>2. CASE i # 1
    <3> DEFINE j == i - 1
    <3>1. j \in 1 .. n /\ j < i /\ j \in 1 .. n - 1 /\ j + 1 = i
      BY <1>2, <2>2
    <3> HIDE DEF j
    <3>2. j <= k /\ T[j] = U[j]
      BY <1>3, <3>1
    <3>3. T[j].end = T[i].start
      BY <3>1 DEF IsTimeline
    <3>4. j # k
      <4>1. T[j].end # to
        BY <1>4, <1>5, <3>3
      <4>2. k # 0
        BY <3>1, <3>2
      <4>3. QED
        BY <3>2, <4>1, <4>2 DEF IsTimeline
    <3>5. j \in 1 .. k - 1
      BY <3>1, <3>2, <3>4
    <3>6. U[j].end = U[i].start
      BY <3>1, <3>5 DEF IsTimeline
    <3>7. QED
      BY <1>2, <3>1, <3>2, <3>3, <3>5, <3>6
  <2>3. QED
    BY <2>1, <2>2
<1>7. /\ U[i].start \in Times /\ U[i].end \in Times /\ U[i].start \in Int /\ U[i].end \in Int
      /\ from <= U[i].start /\ U[i].start < U[i].end /\ U[i].end <= to
      /\ U[i] = [start |-> U[i].start, end |-> U[i].end, says |-> U[i].says]
  BY <1>6 DEF IsTimeline
<1> DEFINE t == T[i].start + 1
<1>8. t \in Int \ Times
  <2>1. t - 1 \in Times /\ t \in Int
    BY <1>4
  <2>2. t \notin Times
    BY <2>1 DEF Times
  <2>3. QED
    BY <2>1, <2>2
<1>9. T[i].end - T[i].start >= 2 /\ U[i].end - U[i].start >= 2
  BY <1>4, <1>7, TimesArithmetic
<1>10. /\ T[i].start < t /\ t < T[i].end /\ U[i].start < t /\ t < U[i].end
       /\ from < t /\ t < to
  BY <1>4, <1>5, <1>6, <1>7, <1>9
<1> HIDE DEF t
<1>11. T[i].says = U[i].says
  <2>1. T[i].says = Classify(p, t)
    BY <1>2, <1>8, <1>10 DEF IsTimeline
  <2>2. U[i].says = Classify(r, t)
    BY <1>6, <1>8, <1>10 DEF IsTimeline
  <2>3. QED
    BY <1>8, <1>10, <2>1, <2>2 DEF SayTheSame
<1>12. ~(T[i].end < U[i].end)
  BY <1>2, <1>6, <1>11, EndsNoEarlier
<1>13. ~(U[i].end < T[i].end)
  <2>1. SayTheSame(r, p, from, to)
    BY DEF SayTheSame
  <2>2. i \in 1 .. k /\ i \in 1 .. n /\ U[i].start = T[i].start /\ U[i].says = T[i].says
    BY <1>2, <1>6, <1>11
  <2>3. QED
    BY <2>1, <2>2, EndsNoEarlier
<1>14. T[i].end = U[i].end
  BY <1>4, <1>7, <1>12, <1>13
<1>15. T[i] = U[i]
  BY <1>4, <1>6, <1>7, <1>11, <1>14
<1>16. QED
  BY <1>2, <1>6, <1>15

(* A timeline is determined by what its instants say.                       *)
LEMMA TimelineIsDetermined ==
  ASSUME NEW T, NEW n \in Nat, NEW p, NEW U, NEW k \in Nat, NEW r,
         NEW from \in Times, NEW to \in Times,
         IsTimeline(T, n, p, from, to), IsTimeline(U, k, r, from, to),
         SayTheSame(p, r, from, to)
  PROVE  T = U
<1>1. SayTheSame(r, p, from, to)
  BY DEF SayTheSame
<1>2. \A i \in 1 .. n : i <= k /\ T[i] = U[i]
  BY SegmentsAgree
<1>3. \A i \in 1 .. k : i <= n /\ U[i] = T[i]
  BY <1>1, SegmentsAgree
<1>4. n <= k /\ k <= n
  <2>1. n = 0 \/ n \in 1 .. n
    OBVIOUS
  <2>2. k = 0 \/ k \in 1 .. k
    OBVIOUS
  <2>3. QED
    BY <1>2, <1>3, <2>1, <2>2
<1>5. n = k
  BY <1>4
<1>6. T = [i \in 1 .. n |-> T[i]] /\ U = [i \in 1 .. k |-> U[i]]
  BY DEF IsTimeline
<1>7. QED
  BY <1>2, <1>5, <1>6

-----------------------------------------------------------------------------
(* The report of a day does not depend on what starts when it is over.      *)
LEMMA DayIsSettled ==
  ASSUME NEW f, IsFacts(f), AFKIsUnambiguous(f), NEW start \in Times, NEW end \in Times,
         start <= end, NEW live
  PROVE  Day(Started(f, end - 1), start, end, live) = Day(f, start, end, live)
<1> DEFINE g == Started(f, end - 1)
           p == Prepared(Evidence(f))
           r == Prepared(Evidence(g))
           T == Build(Evidence(f), start, end)
           U == Build(Evidence(g), start, end)
<1>0. end \in Int /\ end - 1 \in Int /\ start \in Int
  BY TimesArithmetic
<1>1. IsFacts(g)
  BY StartedIsFacts
<1>2. IsEvidence(Evidence(f)) /\ IsEvidence(Evidence(g))
  <2> HIDE DEF g
  <2>1. QED
    BY <1>1, EvidenceIsEvidence
<1>3. \E n \in Nat : IsTimeline(T, n, p, start, end)
  BY <1>2, BuildFacts
<1>4. \E k \in Nat : IsTimeline(U, k, r, start, end)
  <2> HIDE DEF g
  <2>1. QED
    BY <1>2, BuildFacts
<1>5. SayTheSame(p, r, start, end)
  <2> SUFFICES ASSUME NEW t \in Int \ Times, start < t, t < end
               PROVE  Classify(p, t) = Classify(r, t)
    BY DEF SayTheSame
  <2>1. t \in Int /\ t <= end - 1 /\ OneStatus(f.afks, t)
    BY <1>0, OneStatusAlways
  <2>2. QED
    BY <1>0, <2>1, Settled
<1> HIDE DEF T, U, p, r, g
<1>6. T = U
  BY <1>3, <1>4, <1>5, TimelineIsDetermined
<1>7. QED
  BY <1>6 DEF T, U, g, Day

(* The week is computed from a snapshot for each of its days.               *)
LEMMA WeekIsOfFacts ==
  ASSUME IsAnswered, week # None
  PROVE  /\ week = Week(snapshots, now) /\ now \in Times /\ Len(snapshots) = Days(now)
         /\ \A i \in 1 .. Days(now) : IsFacts(snapshots[i]) /\ i \in DOMAIN snapshots
         /\ IsFacts(Last(snapshots)) /\ Days(now) \in 1 .. Days(now)
<1>1. /\ week = Week(snapshots, now) /\ now \in Times
      /\ Len(snapshots) - 1 = Len(DayStarts(now)) - 1 /\ IsSnapshots(snapshots)
  BY DEF IsAnswered, IsAsked
<1>3. Days(now) \in Nat /\ Days(now) \in 1 .. Days(now)
  <2> DEFINE n == Days(now)
  <2>1. n \in 1 .. 7
    BY <1>1, WeekFacts
  <2> HIDE DEF n
  <2>2. n \in Nat /\ n \in 1 .. n
    BY <2>1
  <2>3. QED
    BY <2>2 DEF n
<1>7. Len(DayStarts(now)) = Days(now)
  <2> DEFINE n == Days(now)
  <2>1. DayStarts(now) = [i \in 1 .. n |-> Monday(now) + (i - 1) * DayLength] /\ n \in Nat
    BY <1>3 DEF DayStarts, Days
  <2> HIDE DEF n
  <2>2. Len(DayStarts(now)) = n
    BY <2>1
  <2>3. QED
    BY <2>2 DEF n
<1>2. Len(snapshots) = Days(now)
  <2>1. Len(snapshots) \in Int
    BY <1>1 DEF IsSnapshots
  <2> DEFINE n == Days(now)
             m == Len(snapshots)
  <2>2. m - 1 = n - 1 /\ m \in Int /\ n \in Int
    BY <1>1, <1>3, <1>7, <2>1
  <2> HIDE DEF n, m
  <2>3. m = n
    BY <2>2
  <2>4. QED
    BY <2>3 DEF n, m
<1>4. snapshots \in Seq(Range(snapshots)) /\ \A i \in 1 .. Len(snapshots) : IsFacts(snapshots[i])
  BY <1>1 DEF IsSnapshots
<1>5. DOMAIN snapshots = 1 .. Days(now)
  BY <1>1, <1>2, <1>4
<1>6. QED
  BY <1>1, <1>2, <1>3, <1>4, <1>5 DEF Last

(* What came between the snapshots and is no history of the days reported   *)
(* by then does not show: each day is what the last snapshot says of it.    *)
LEMMA DaysAreOfTheLast ==
  ASSUME IsAnswered, week # None, NoLateHistory
  PROVE  \A i \in 1 .. Days(now) : WeekDay(snapshots[i], DayStarts(now)[i], now)
                                     = WeekDay(Last(snapshots), DayStarts(now)[i], now)
<1> TAKE i \in 1 .. Days(now)
<1> DEFINE f == snapshots[i]
           g == Last(snapshots)
           start == DayStarts(now)[i]
           end == DayEnd(start, now)
           live == start = ReportingDay(now)
<1>1. IsFacts(f) /\ IsFacts(g) /\ now \in Times /\ i \in DOMAIN snapshots
  BY WeekIsOfFacts
<1>2. start \in Times /\ end \in Times /\ start <= end
  <2>1. i - 1 \in 0 .. Days(now) /\ i \in 0 .. Days(now) /\ Days(now) \in Nat
    BY <1>1, WeekFacts
  <2>2. start = DayBound(now, i - 1) /\ end = DayBound(now, i) /\ DayBound(now, i - 1) <= DayBound(now, i)
    BY <1>1, WeekFacts
  <2>3. QED
    BY <1>1, <2>1, <2>2, WeekFacts
<1>3. f = g \/ (AFKIsUnambiguous(f) /\ AFKIsUnambiguous(g) /\ Started(f, end - 1) = Started(g, end - 1))
  BY <1>1 DEF NoLateHistory
<1>4. WeekDay(f, start, now) = Day(f, start, end, live) /\ WeekDay(g, start, now) = Day(g, start, end, live)
  BY DEF WeekDay
<1> HIDE DEF f, g, start, end, live
<1>5. CASE f = g
  BY <1>5 DEF f, g, start
<1>6. CASE /\ AFKIsUnambiguous(f) /\ AFKIsUnambiguous(g)
           /\ Started(f, end - 1) = Started(g, end - 1)
  <2>1. Day(Started(f, end - 1), start, end, live) = Day(f, start, end, live)
    BY ZenonT(30), <1>1, <1>2, <1>6, DayIsSettled
  <2>2. Day(Started(g, end - 1), start, end, live) = Day(g, start, end, live)
    BY ZenonT(30), <1>1, <1>2, <1>6, DayIsSettled
  <2>3. Day(f, start, end, live) = Day(g, start, end, live)
    BY <1>6, <2>1, <2>2
  <2>4. QED
    BY <1>4, <2>3 DEF f, g, start
<1>7. QED
  BY <1>3, <1>5, <1>6

(* The days of the week add up to the week as one timeline.                 *)
LEMMA WeekIsWhole ==
  ASSUME IsAnswered
  PROVE  WeekIsOneTimeline
<1> SUFFICES ASSUME week # None PROVE WeekIsOneTimeline
  BY DEF WeekIsOneTimeline
<1> DEFINE f == Last(snapshots)
           t == now
           p == Prepared(Evidence(f))
           S == week.summary
           D == week.weekToDate
           W(i) == Time(Instants(p, "WORKING"), Monday(t), DayBound(t, i))
           whole == Build(Evidence(f), Monday(t), t)
<1>0. /\ week = Week(snapshots, t) /\ t \in Times /\ IsFacts(f) /\ Len(snapshots) = Days(t)
      /\ \A i \in 1 .. Days(t) : IsFacts(snapshots[i]) /\ i \in DOMAIN snapshots
  BY WeekIsOfFacts
<1>1. IsEvidence(Evidence(f))
  <2> HIDE DEF f
  <2>1. QED
    BY <1>0, EvidenceIsEvidence
<1>2. /\ InAll(S.coverage) = t - Monday(t) /\ DOMAIN S.days = 1 .. Days(t)
      /\ Last(D) = S.evaluation
  <2> HIDE DEF t
  <2>1. QED
    BY <1>0, WeekIsCovered
<1>3. CASE ~NoLateHistory
  BY <1>2, <1>3 DEF WeekIsOneTimeline
<1>4. SUFFICES ASSUME NoLateHistory PROVE WeekIsOneTimeline
  BY <1>3
<1>5. \A i \in 1 .. Days(t) :
        WeekDay(snapshots[i], DayStarts(t)[i], t) = WeekDay(f, DayStarts(t)[i], t)
  BY <1>4, DaysAreOfTheLast
<1> HIDE DEF f, t
<1>6. /\ DOMAIN S.days = 1 .. Days(t)
      /\ \A state \in States : S.coverage[state] = Time(Instants(p, state), Monday(t), t)
      /\ S.evaluation = Evaluate(WorkdaysPerWeek, W(Days(t)))
      /\ DOMAIN D = 1 .. Days(t) /\ Len(D) = Days(t)
      /\ \A i \in 1 .. Days(t) : D[i] = Evaluate(WorkdaysPerWeek, W(i))
  BY <1>0, <1>5, WeekAddsUp
<1>7. /\ Days(t) \in Nat /\ Days(t) \in 1 .. Days(t)
      /\ Monday(t) \in Times /\ Monday(t) \in Int /\ t \in Int
      /\ DayBound(t, 0) = Monday(t)
      /\ \A i \in 0 .. Days(t) : /\ DayBound(t, i) \in Times /\ DayBound(t, i) \in Int
                                 /\ Monday(t) <= DayBound(t, i) /\ DayBound(t, i) <= t
      /\ \A i \in 1 .. Days(t) : DayBound(t, i) = Min({t, Monday(t) + i * DayLength})
  BY <1>0, WeekFacts
<1>8. Monday(t) <= t
  BY <1>7
<1>9. PICK n \in Nat : IsTimeline(whole, n, p, Monday(t), t)
  BY <1>0, <1>1, <1>7, <1>8, BuildFacts
<1> HIDE DEF S, D, whole, p
<1>10. \A i \in 1 .. Days(t) :
        D[i].working = Total(whole, "WORKING", Monday(t), Min({t, Monday(t) + i * DayLength}))
  <2> TAKE i \in 1 .. Days(t)
  <2> DEFINE b == DayBound(t, i)
  <2>1. /\ b \in Times /\ Monday(t) <= b /\ b <= t /\ Monday(t) <= Monday(t)
        /\ b = Min({t, Monday(t) + i * DayLength})
    BY <1>7
  <2>2. D[i].working = Time(Instants(p, "WORKING"), Monday(t), b)
    <3>1. D[i] = Evaluate(WorkdaysPerWeek, W(i))
      BY <1>6
    <3>2. W(i) = Time(Instants(p, "WORKING"), Monday(t), b)
      OBVIOUS
    <3> HIDE DEF W, b
    <3>3. Evaluate(WorkdaysPerWeek, W(i)).working = W(i)
      BY EvaluateWorking
    <3>4. QED
      BY <3>1, <3>2, <3>3
  <2> HIDE DEF b
  <2>3. Total(whole, "WORKING", Monday(t), b) = Time(Instants(p, "WORKING"), Monday(t), b)
    <3>1. IsTimeline(whole, n, p, Monday(t), t) /\ n \in Nat /\ t \in Times /\ Monday(t) \in Times
      BY <1>0, <1>7, <1>9
    <3>2. QED
      BY <2>1, <3>1, TotalIs
  <2>4. QED
    BY <2>1, <2>2, <2>3
<1>11. QED
  BY <1>6, <1>10, <1>2 DEF WeekIsOneTimeline, S, D, whole, f, t

(* WeekIsOneTimeline: for all facts, at every time and for every day        *)
(* boundary, whatever is ingested meanwhile, the week is covered and the    *)
(* running evaluation ends with the week's; and unless that was history of  *)
(* a day reported before, the days are the timeline of the whole week, cut  *)
(* at the day boundaries.                                                   *)
THEOREM WeekTheorem == Spec => []WeekIsOneTimeline
<1>1. IsAnswered => WeekIsOneTimeline
  BY WeekIsWhole
<1>2. QED
  BY <1>1, ReportsAreComputed, PTL

(* The report of a past day of the week, from what had started by its end.  *)
PastDay(f, start) == Day(Started(f, (start + DayLength) - 1), start, start + DayLength, FALSE)

(* The past days of the week do not depend on what started after each of    *)
(* them.                                                                    *)
LEMMA WeekIsSettled ==
  ASSUME IsAnswered
  PROVE  PastDaysAreSettled
<1> SUFFICES ASSUME week # None, NEW i \in 1 .. Len(week.summary.days) - 1,
                    AFKIsUnambiguous(snapshots[i])
             PROVE  week.summary.days[i] = PastDay(snapshots[i], DayStarts(now)[i])
  BY DEF PastDaysAreSettled, PastDay
<1> DEFINE n == Days(now)
           start == DayStarts(now)[i]
           end == start + DayLength
           reports == [k \in DOMAIN DayStarts(now) |->
                         WeekDay(snapshots[k], DayStarts(now)[k], now)]
           f == snapshots[i]
<1>1. week = Week(snapshots, now) /\ now \in Times
  BY WeekIsOfFacts
<1>2. week.summary.days = reports
  BY <1>1 DEF Week, SummarizeWeek
<1>3. /\ n \in Nat /\ DOMAIN DayStarts(now) = 1 .. n
      /\ \A k \in 0 .. n : DayBound(now, k) \in Times
      /\ \A k \in 1 .. n : /\ DayBound(now, k - 1) <= DayBound(now, k)
                           /\ k < n => DayBound(now, k) = DayBound(now, k - 1) + DayLength
                           /\ DayStarts(now)[k] = DayBound(now, k - 1)
                           /\ DayEnd(DayStarts(now)[k], now) = DayBound(now, k)
                           /\ DayStarts(now)[k] = ReportingDay(now) <=> k = n
  BY <1>1, WeekFacts
<1>4. DOMAIN reports = 1 .. n
  BY <1>3
<1>5. i \in 1 .. n /\ i # n /\ i < n /\ i - 1 \in 0 .. n /\ i \in 0 .. n
  <2>1. Len(week.summary.days) = n
    <3> HIDE DEF reports, n
    <3>1. QED
      BY <1>2, <1>3, <1>4
  <2> HIDE DEF n
  <2>2. QED
    BY <1>3, <2>1
<1>6. reports[i] = Day(f, start, DayEnd(start, now), start = ReportingDay(now)) /\ IsFacts(f)
  BY <1>3, <1>5, WeekIsOfFacts DEF WeekDay
<1>7. /\ start \in Times /\ DayEnd(start, now) = end /\ end \in Times /\ start <= end
      /\ (start = ReportingDay(now)) = FALSE
  <2> HIDE DEF n
  <2>1. QED
    BY <1>3, <1>5
<1>8. week.summary.days[i] = Day(f, start, end, FALSE)
  BY <1>2, <1>6, <1>7
<1>0. AFKIsUnambiguous(f)
  OBVIOUS
<1> HIDE DEF start, reports, f
<1>9. Day(Started(f, end - 1), start, end, FALSE) = Day(f, start, end, FALSE)
  BY ZenonT(30), <1>6, <1>7, <1>0, DayIsSettled
<1>10. PastDay(f, start) = Day(Started(f, end - 1), start, end, FALSE)
  BY DEF PastDay
<1>11. week.summary.days[i] = PastDay(f, start)
  BY <1>8, <1>9, <1>10
<1>12. QED
  BY <1>11 DEF start, f

(* The past is settled: no fact that starts later changes what the report   *)
(* of the day says of an instant or the report of a day that is over.       *)
THEOREM SettledTheorem == Spec => []PastIsSettled
<1>1. IsAnswered => PastIsSettled
  BY TodayIsSettled, WeekIsSettled DEF PastIsSettled
<1>2. QED
  BY <1>1, ReportsAreComputed, PTL

-----------------------------------------------------------------------------
(* Work that goes on.                                                       *)

(* The elements of a sequence.                                              *)
LEMMA SeqElements ==
  ASSUME NEW X, NEW s \in Seq(X)
  PROVE  \A i \in DOMAIN s : s[i] \in X
OBVIOUS

(* The elements of a sequence with one more.                                *)
LEMMA RangeOfAppend ==
  ASSUME NEW X, NEW s \in Seq(X), NEW e \in X
  PROVE  \A a \in Range(Append(s, e)) : a \in Range(s) \/ a = e
<1> DEFINE n == Len(s)
           r == Append(s, e)
<1>1. n \in Nat /\ DOMAIN s = 1 .. n
  OBVIOUS
<1> HIDE DEF n
<1>2. /\ DOMAIN r = 1 .. n + 1 /\ r[n + 1] = e
      /\ \A i \in 1 .. n : r[i] = s[i]
  BY <1>1, AppendIs
<1> HIDE DEF r
<1>3. \A i \in 1 .. n + 1 : i \in 1 .. n \/ i = n + 1
  BY <1>1
<1>4. \A a \in Range(r) : a \in Range(s) \/ a = e
  BY <1>1, <1>2, <1>3 DEF Range
<1>5. QED
  BY <1>4 DEF r

(* Nothing ends later or starts later than e.                               *)
NoLaterThan(s, e) == \A a \in Range(s) : a.start <= e.start /\ a.end <= e.end

(* The window that came last and ends last is the one that is selected.     *)
LEMMA LastWindowCounts ==
  ASSUME NEW s \in Seq(WindowEvent), NEW e \in WindowEvent, NoLaterThan(s, e),
         NEW t \in Int, Eligible(e, t)
  PROVE  Find(Sorted(Append(s, e)), t) = e
<1> DEFINE n == Len(s)
           r == Append(s, e)
           l == n + 1
<1>1. n \in Nat /\ DOMAIN s = 1 .. n /\ \A i \in 1 .. n : s[i] \in Range(s)
  BY DEF Range
<1> HIDE DEF n
<1>2. /\ r \in Seq(WindowEvent) /\ DOMAIN r = 1 .. l /\ r[l] = e
      /\ \A i \in 1 .. n : r[i] = s[i]
  BY <1>1, AppendIs
<1>3. l \in Nat /\ l \in 1 .. l /\ \A i \in 1 .. l : i = l \/ (i \in 1 .. n /\ i < l)
  BY <1>1
<1> HIDE DEF r, l
<1>4. \A i \in 1 .. l : Timed(r[i])
  <2>1. \A i \in DOMAIN r : r[i] \in WindowEvent
    BY <1>2, SeqElements
  <2>2. QED
    BY <1>2, <2>1 DEF WindowEvent
<1>5. ASSUME NEW j \in 1 .. l PROVE j = l \/ <<j, l>> \in ByStartAndEnd(r)
  <2> SUFFICES ASSUME j # l PROVE <<j, l>> \in ByStartAndEnd(r)
    OBVIOUS
  <2>1. j \in 1 .. n /\ j < l
    BY <1>3
  <2>2. r[j].start <= r[l].start /\ r[j].end <= r[l].end
    BY <1>1, <1>2, <2>1 DEF NoLaterThan
  <2>3. r[j].start \in Int /\ r[j].end \in Int /\ r[l].start \in Int /\ r[l].end \in Int
    BY <1>3, <1>4, TimedFacts
  <2>4. <<j, l>> \in ByStartAndEnd(r) <=>
          \/ r[j].start < r[l].start
          \/ /\ r[j].start = r[l].start
             /\ r[j].end < r[l].end \/ (r[j].end = r[l].end /\ j < l)
    BY <1>2, <1>3, ByStartAndEndIs
  <2>5. QED
    BY <2>1, <2>2, <2>3, <2>4
<1>6. IsLatest(r, l, t, l)
  BY <1>2, <1>3, <1>5 DEF IsLatest
<1>7. Find(Sorted(r), t) = r[l]
  BY <1>2, <1>3, <1>4, <1>6, FindSorted
<1>8. QED
  BY <1>2, <1>7 DEF r

(* The AFK event that came last and ends last has the status that counts.   *)
LEMMA LastIsArrangedLast ==
  ASSUME NEW s, NEW l \in Nat, l >= 1, DOMAIN s = 1 .. l, \A i \in 1 .. l : s[i].start \in Int,
         \A i \in 1 .. l : s[i].start <= s[l].start
  PROVE  Arranged(s, ByStart(s))[l] = s[l]
<1> DEFINE E == Arranged(s, ByStart(s))
<1>1. PICK p \in [1 .. l -> 1 .. l] :
           /\ DOMAIN E = 1 .. l /\ Len(E) = l
           /\ \A k \in 1 .. l : E[k] = s[p[k]]
           /\ \A i \in 1 .. l : \E k \in 1 .. l : p[k] = i
           /\ \A j, k \in 1 .. l : j < k => <<p[j], p[k]>> \in ByStart(s)
  BY ArrangedByStart
<1> HIDE DEF E
<1>2. l \in 1 .. l
  OBVIOUS
<1>3. PICK k \in 1 .. l : p[k] = l
  BY <1>1, <1>2
<1>4. ~(k < l)
  <2> SUFFICES ASSUME k < l PROVE FALSE
    OBVIOUS
  <2>1. <<l, p[l]>> \in ByStart(s) /\ p[l] \in 1 .. l
    BY <1>1, <1>2, <1>3
  <2>2. s[l].start < s[p[l]].start \/ (s[l].start = s[p[l]].start /\ l < p[l])
    BY <1>2, <2>1, ByStartIs
  <2>3. s[p[l]].start <= s[l].start /\ s[p[l]].start \in Int /\ s[l].start \in Int /\ ~(l < p[l])
    BY <1>2, <2>1
  <2>4. QED
    BY <2>2, <2>3
<1>5. k = l
  BY <1>4
<1>6. E[l] = s[l]
  BY <1>1, <1>2, <1>3, <1>5
<1>7. QED
  BY <1>6 DEF E

(* The AFK event that came last and ends last has the status that counts,   *)
(* merged or not.                                                           *)
LEMMA LastAFKCounts ==
  ASSUME NEW s \in Seq(AFKEvent), NEW e \in AFKEvent, NoLaterThan(s, e),
         NEW t \in Int, Eligible(e, t)
  PROVE  LET a == Find(Sorted(MergeAFK(Append(s, e))), t)
         IN a # None /\ a.status = e.status
<1> DEFINE n == Len(s)
           r == Append(s, e)
           l == n + 1
           E == Arranged(r, ByStart(r))
           B == Blocks(l, Heads(E))
           M == Merged(E, B)
<1>1. n \in Nat /\ DOMAIN s = 1 .. n /\ \A i \in 1 .. n : s[i] \in Range(s)
  BY DEF Range
<1> HIDE DEF n
<1>2. /\ r \in Seq(AFKEvent) /\ DOMAIN r = 1 .. l /\ r[l] = e
      /\ \A i \in 1 .. n : r[i] = s[i]
  BY <1>1, AppendIs
<1>3. l \in Nat /\ l >= 1 /\ l \in 1 .. l /\ \A i \in 1 .. l : i = l \/ i \in 1 .. n
  BY <1>1
<1> HIDE DEF r, l
<1>4. \A i \in 1 .. l : r[i] \in AFKEvent /\ r[i].start \in Int /\ r[i].end \in Int
  <2>1. \A i \in DOMAIN r : r[i] \in AFKEvent
    BY <1>2, SeqElements
  <2>2. QED
    BY <1>2, <2>1, AFKEventFacts
<1>5. \A i \in 1 .. l : r[i].start <= r[l].start /\ r[i].end <= r[l].end
  <2> TAKE i \in 1 .. l
  <2>1. CASE i = l
    BY <1>3, <1>4, <2>1
  <2>2. CASE i \in 1 .. n
    BY <1>1, <1>2, <2>2 DEF NoLaterThan
  <2>3. QED
    BY <1>3, <2>1, <2>2
<1>6. E[l] = e
  BY <1>2, <1>3, <1>4, <1>5, LastIsArrangedLast
<1>7. Ordered(E, l) /\ \A i \in 1 .. l : \E j \in 1 .. l : E[i] = r[j]
  BY <1>2, <1>3, <1>4, ArrangedIsOrdered
<1>8. MergeAFK(r) = M
  BY <1>7 DEF MergeAFK, Heads, Ordered
<1> HIDE DEF E
<1>9. PICK m \in Nat : IsMerged(M, B, E, l, m)
  BY <1>3, <1>7, MergedFacts
<1> HIDE DEF B, M
<1>10. /\ m \in 1 .. m /\ DOMAIN M = 1 .. m
       /\ \A k \in 1 .. m : /\ M[k] \in AFKEvent
                            /\ M[k].start = E[B[k].first].start
                            /\ M[k].status = E[B[k].first].status
                            /\ \E i \in B[k].first .. B[k].last : M[k].end = E[i].end
                            /\ \A i \in B[k].first .. B[k].last : E[i].end <= M[k].end
                            /\ B[k].first \in 1 .. l /\ B[k].last \in 1 .. l
                            /\ B[k].first <= B[k].last
       /\ B[m].last = l
       /\ \A j, k \in 1 .. m : j < k => B[j].last < B[k].first
  BY SMTT(30), <1>9 DEF IsMerged
<1>11. l \in B[m].first .. B[m].last
  BY <1>3, <1>10
<1>12. M[m].status = e.status
  <2>1. E[l].status = E[B[m].first].status
    <3>1. l \in Nat /\ Ordered(E, l) /\ m \in Nat /\ IsMerged(M, B, E, l, m) /\ m \in 1 .. m
      BY <1>3, <1>7, <1>9, <1>10
    <3>2. QED
      BY <1>11, <3>1, BlockHasOneStatus
  <2>2. QED
    BY <1>6, <1>10, <2>1
<1>13. Eligible(M[m], t)
  <2>1. Eligible(E[l], t)
    BY <1>6
  <2>2. QED
    <3>1. l \in Nat /\ Ordered(E, l) /\ m \in Nat /\ IsMerged(M, B, E, l, m) /\ m \in 1 .. m
      BY <1>3, <1>7, <1>9, <1>10
    <3>2. \E i \in B[m].first .. B[m].last : Eligible(E[i], t)
      BY <1>11, <2>1
    <3>3. QED
      BY <3>1, <3>2, MergedIsAsFresh
<1>14. \A k \in 1 .. m : Timed(M[k]) /\ M[k].start \in Int /\ M[k].end \in Int
  BY <1>10, AFKEventFacts DEF Timed
<1>15. ASSUME NEW k \in 1 .. m PROVE k = m \/ <<k, m>> \in ByStartAndEnd(M)
  <2> SUFFICES ASSUME k # m PROVE <<k, m>> \in ByStartAndEnd(M)
    OBVIOUS
  <2>1. k < m
    OBVIOUS
  <2>2. M[k].start <= M[m].start
    <3> DEFINE a == B[k].first
               b == B[k].last
               c == B[m].first
    <3>0. a \in 1 .. l /\ b \in 1 .. l /\ c \in 1 .. l /\ a <= b /\ b < c
      BY <1>10, <2>1
    <3>1. a <= c /\ a \in 1 .. l /\ c \in 1 .. l
      <4> HIDE DEF a, b, c
      <4>1. a \in Int /\ b \in Int /\ c \in Int
        BY <3>0
      <4>2. QED
        BY <3>0, <4>1
    <3>2. E[B[k].first].start <= E[B[m].first].start
      BY <1>3, <1>7, <3>1, OrderedFacts
    <3>3. QED
      BY <1>10, <3>2
  <2>3. M[k].end <= M[m].end
    <3>1. PICK i \in B[k].first .. B[k].last : M[k].end = E[i].end
      BY <1>10
    <3>2. i \in 1 .. l
      BY SMTT(30), <1>10, <3>1
    <3>3. PICK j \in 1 .. l : E[i] = r[j]
      BY <1>7, <3>2
    <3>4. E[i].end <= E[l].end
      BY <1>2, <1>5, <1>6, <3>3
    <3>5. E[l].end <= M[m].end
      BY <1>10, <1>11
    <3>6. E[l].end \in Int /\ E[i].end \in Int
      BY <1>2, <1>3, <1>4, <1>6, <3>3
    <3>7. QED
      BY <1>10, <1>14, <3>1, <3>4, <3>5, <3>6
  <2>4. <<k, m>> \in ByStartAndEnd(M) <=>
          \/ M[k].start < M[m].start
          \/ /\ M[k].start = M[m].start
             /\ M[k].end < M[m].end \/ (M[k].end = M[m].end /\ k < m)
    BY <1>10, ByStartAndEndIs
  <2>5. QED
    BY <1>10, <1>14, <2>1, <2>2, <2>3, <2>4
<1>16. IsLatest(M, m, t, m)
  BY <1>10, <1>13, <1>15 DEF IsLatest
<1>17. Find(Sorted(M), t) = M[m]
  BY <1>10, <1>14, <1>16, FindSorted
<1>18. M[m] # None
  BY <1>10, NoneAssumption
<1>19. Find(Sorted(MergeAFK(r)), t) # None /\ Find(Sorted(MergeAFK(r)), t).status = e.status
  BY <1>8, <1>12, <1>17, <1>18
<1>20. QED
  BY <1>19 DEF r

(* Until the day ends its times have the same reporting day.                *)
LEMMA ReportingDayIs ==
  ASSUME NEW t \in Times, NEW x \in Times, t <= x, x < ReportingDay(t) + DayLength
  PROVE  ReportingDay(x) = ReportingDay(t)
<1> DEFINE a == ReportingDay(t)
           b == ReportingDay(x)
<1>1. a <= t /\ t < a + DayLength /\ a \in Int /\ t \in Int
  BY ReportingDayFacts, TimesArithmetic
<1>2. b <= x /\ x < b + DayLength /\ b \in Int /\ x \in Int
  BY ReportingDayFacts, TimesArithmetic
<1>3. PICK k \in Int : a = k * DayLength + DayBoundary
  BY ReportingDayFacts
<1>4. PICK j \in Int : b = j * DayLength + DayBoundary
  BY ReportingDayFacts
<1>5. x < a + DayLength
  OBVIOUS
<1> HIDE DEF a, b
<1> DEFINE y == j * DayLength
           z == k * DayLength
<1>6. DayLength \in Int /\ DayBoundary \in Int /\ y \in Int /\ z \in Int
  BY Calendar
<1>7. (j < k => y + DayLength <= z) /\ (k < j => z + DayLength <= y)
  BY DayProducts
<1>8. j < k \/ j = k \/ k < j
  OBVIOUS
<1>9. b = y + DayBoundary /\ a = z + DayBoundary /\ (j = k => y = z)
  BY <1>3, <1>4
<1> HIDE DEF y, z
<1>10. a = b
  BY <1>1, <1>2, <1>5, <1>6, <1>7, <1>8, <1>9
<1>11. QED
  BY <1>10 DEF a, b

(* The facts that going on with the work adds.                              *)
WorkWindow(t, until) == [start |-> t, end |-> until, app |-> WorkApp, locked |-> FALSE]
WorkAFK(t, until) == [status |-> "not-afk", start |-> t, end |-> until]

(* Work that goes on is a window event and an AFK event.                    *)
LEMMA WorkFacts ==
  ASSUME NEW t \in Times, NEW until \in Times, t <= until
  PROVE  /\ WorkWindow(t, until) \in WindowEvent /\ WorkAFK(t, until) \in AFKEvent
         /\ WorkWindow(t, until).start = t /\ WorkWindow(t, until).end = until
         /\ WorkAFK(t, until).start = t /\ WorkAFK(t, until).end = until
         /\ WorkAFK(t, until).status = "not-afk"
         /\ ~Locked(WorkWindow(t, until))
<1>1. /\ WorkWindow(t, until) \in WindowEvent
      /\ WorkWindow(t, until).start = t /\ WorkWindow(t, until).end = until
  <2>1. WorkWindow(t, until) \in [start : Times, end : Times, app : STRING, locked : BOOLEAN]
    BY WorkAssumption DEF WorkAssumption, WorkWindow
  <2>2. WorkWindow(t, until).start = t /\ WorkWindow(t, until).end = until
    BY DEF WorkWindow
  <2>3. Timed(WorkWindow(t, until))
    BY <2>2 DEF Timed
  <2>4. QED
    BY <2>1, <2>2, <2>3 DEF WindowEvent
<1>2. /\ WorkAFK(t, until) \in AFKEvent
      /\ WorkAFK(t, until).start = t /\ WorkAFK(t, until).end = until
      /\ WorkAFK(t, until).status = "not-afk"
  <2>1. WorkAFK(t, until) \in [start : Times, end : Times, status : Statuses]
    BY StatusesAssumption DEF StatusesAssumption, WorkAFK
  <2>2. /\ WorkAFK(t, until).start = t /\ WorkAFK(t, until).end = until
        /\ WorkAFK(t, until).status = "not-afk"
    BY DEF WorkAFK
  <2>3. Timed(WorkAFK(t, until))
    BY <2>2 DEF Timed
  <2>4. QED
    BY <2>1, <2>2, <2>3 DEF AFKEvent
<1>3. ~Locked(WorkWindow(t, until))
  BY WorkAssumption DEF WorkAssumption, WorkWindow, Locked
<1>4. QED
  BY <1>1, <1>2, <1>3

(* The facts of work that goes on: one window and one AFK event more.       *)
LEMMA ContinuedIs ==
  ASSUME NEW f, IsFacts(f), NEW t \in Times, NEW until \in Times, t <= until
  PROVE  LET g == Continued(f, t, until) IN
         /\ f.windows \in Seq(WindowEvent) /\ f.afks \in Seq(AFKEvent)
         /\ g.windows = Append(f.windows, WorkWindow(t, until))
         /\ g.afks = Append(f.afks, WorkAFK(t, until))
         /\ g.stored = f.stored /\ g.host = f.host /\ g.passive = f.passive
         /\ IsFacts(g)
<1> DEFINE g == Continued(f, t, until)
           w == WorkWindow(t, until)
           a == WorkAFK(t, until)
<1>1. f.windows \in Seq(WindowEvent) /\ f.afks \in Seq(AFKEvent)
  BY DEF IsFacts
<1>2. w \in WindowEvent /\ a \in AFKEvent
  BY WorkFacts
<1>4. Append(f.windows, w) \in Seq(WindowEvent) /\ Append(f.afks, a) \in Seq(AFKEvent)
  <2> HIDE DEF w, a
  <2>1. QED
    BY <1>1, <1>2
<1>3. /\ g.windows = Append(f.windows, w) /\ g.afks = Append(f.afks, a)
      /\ g.stored = f.stored /\ g.host = f.host /\ g.passive = f.passive
  BY DEF Continued, WorkWindow, WorkAFK, IsFacts
<1> HIDE DEF g, w, a
<1>5. IsFacts(g)
  BY <1>3, <1>4 DEF IsFacts
<1>6. QED
  BY <1>1, <1>3, <1>5 DEF g, w, a

(* What starts later is not kept.                                           *)
LEMMA KeptOfAppend ==
  ASSUME NEW X, NEW s \in Seq(X), NEW e \in X, NEW u, ~(e.start <= u)
  PROVE  Kept(Append(s, e), Until(Append(s, e), u)) = Kept(s, Until(s, u))
<1> DEFINE n == Len(s)
           r == Append(s, e)
           P == Until(s, u)
           q == Ascending(P)
<1>1. n \in Nat /\ DOMAIN s = 1 .. n
  OBVIOUS
<1> HIDE DEF n
<1>2. /\ DOMAIN r = 1 .. n + 1 /\ r[n + 1] = e
      /\ \A i \in 1 .. n : r[i] = s[i]
  BY <1>1, AppendIs
<1>3. \A i \in 1 .. n + 1 : i \in 1 .. n \/ i = n + 1
  BY <1>1
<1>4. 1 .. n \subseteq 1 .. n + 1
  BY <1>1
<1> HIDE DEF r
<1>5. Until(r, u) = P
  BY <1>1, <1>2, <1>3, <1>4 DEF Until
<1>6. P \subseteq 1 .. n
  BY <1>1 DEF Until
<1>7. q \in [1 .. Cardinality(P) -> P]
  <2> HIDE DEF P
  <2> DEFINE I == 1 .. n
  <2>1. IsFiniteSet(I) /\ P \in SUBSET I /\ P \subseteq Int
    BY <1>1, <1>6, FS_Interval
  <2> HIDE DEF I
  <2>2. IsFiniteSet(P)
    BY <2>1, FS_Subset
  <2>3. QED
    BY <2>1, <2>2, AscendingFacts
<1> HIDE DEF q, P
<1>8. \A k \in DOMAIN q : r[q[k]] = s[q[k]]
  BY <1>2, <1>6, <1>7
<1>9. [k \in DOMAIN q |-> r[q[k]]] = [k \in DOMAIN q |-> s[q[k]]]
  BY <1>8
<1>10. Kept(r, P) = [k \in DOMAIN q |-> r[q[k]]] /\ Kept(s, P) = [k \in DOMAIN q |-> s[q[k]]]
  BY DEF Kept, q
<1>11. Kept(r, Until(r, u)) = Kept(s, P)
  BY <1>5, <1>9, <1>10
<1>12. QED
  BY <1>11 DEF r, P

(* The work that follows changes nothing of what was before it.             *)
LEMMA ContinuedBefore ==
  ASSUME NEW f, IsFacts(f), AFKIsUnambiguous(f), NEW t \in Times, NEW until \in Times, t <= until,
         NEW x \in Int, x < t
  PROVE  Classify(Prepared(Evidence(Continued(f, t, until))), x) = Classify(Prepared(Evidence(f)), x)
<1> DEFINE g == Continued(f, t, until)
           w == WorkWindow(t, until)
           a == WorkAFK(t, until)
<1>0. t \in Int /\ until \in Int /\ ~(t <= x) /\ x <= x
  BY TimesArithmetic
<1>1. /\ f.windows \in Seq(WindowEvent) /\ f.afks \in Seq(AFKEvent)
      /\ g.windows = Append(f.windows, w)
      /\ g.afks = Append(f.afks, a)
      /\ g.stored = f.stored /\ g.host = f.host /\ g.passive = f.passive
      /\ IsFacts(g)
  BY ContinuedIs
<1>2. /\ w \in WindowEvent /\ a \in AFKEvent
      /\ w.start = t /\ a.start = t
  BY WorkFacts
<1> HIDE DEF g, w, a
<1>3. Kept(g.windows, Until(g.windows, x)) = Kept(f.windows, Until(f.windows, x))
  BY <1>0, <1>1, <1>2, KeptOfAppend
<1>4. Kept(g.afks, Until(g.afks, x)) = Kept(f.afks, Until(f.afks, x))
  BY <1>0, <1>1, <1>2, KeptOfAppend
<1>5. Started(g, x) = Started(f, x)
  BY <1>1, <1>3, <1>4 DEF Started, Until
<1>6. OneStatus(f.afks, x)
  BY OneStatusAlways
<1>7. OneStatus(g.afks, x)
  <2>1. \A b \in Range(g.afks) : b \in Range(f.afks) \/ b = a
    BY <1>1, <1>2, RangeOfAppend
  <2>2. QED
    BY <1>0, <1>2, <1>6, <2>1 DEF OneStatus
<1>8. Classify(Prepared(Evidence(Started(g, x))), x) = Classify(Prepared(Evidence(g)), x)
  BY <1>0, <1>1, <1>7, Settled
<1>9. Classify(Prepared(Evidence(Started(f, x))), x) = Classify(Prepared(Evidence(f)), x)
  BY <1>0, <1>6, Settled
<1>10. QED
  BY <1>5, <1>8, <1>9 DEF g

(* As long as the work goes on it is seen as work.                          *)
LEMMA ContinuedAfter ==
  ASSUME NEW f, IsFacts(f), NEW t \in Times, NEW until \in Times, t <= until, Observed(f, t),
         NEW x \in Int, t <= x, x <= until
  PROVE  Classify(Prepared(Evidence(Continued(f, t, until))), x).state = "WORKING"
<1> DEFINE g == Continued(f, t, until)
           w == WorkWindow(t, until)
           a == WorkAFK(t, until)
           p == Prepared(Evidence(g))
<1>1. /\ f.windows \in Seq(WindowEvent) /\ f.afks \in Seq(AFKEvent)
      /\ g.windows = Append(f.windows, w)
      /\ g.afks = Append(f.afks, a)
  BY ContinuedIs
<1>2. /\ w \in WindowEvent /\ a \in AFKEvent
      /\ w.start = t /\ w.end = until /\ a.start = t /\ a.end = until
      /\ a.status = "not-afk" /\ ~Locked(w)
  BY WorkFacts
<1>3. p.windows = Sorted(g.windows) /\ p.afks = Sorted(MergeAFK(g.afks))
  BY DEF Prepared, Evidence
<1>4. t \in Int /\ until \in Int /\ Freshness \in Int /\ 0 <= Freshness
  BY TimesArithmetic, DurationsAssumption DEF DurationsAssumption
<1> HIDE DEF g, w, a, p
<1>5. Eligible(w, x) /\ Eligible(a, x)
  BY <1>2, <1>4 DEF Eligible
<1>6. NoLaterThan(f.windows, w)
  <2> SUFFICES ASSUME NEW e \in Range(f.windows) PROVE e.start <= w.start /\ e.end <= w.end
    BY DEF NoLaterThan
  <2>1. e \in WindowEvent
    <3>1. \A i \in DOMAIN f.windows : f.windows[i] \in WindowEvent
      BY <1>1, SeqElements
    <3>2. QED
      BY <3>1 DEF Range
  <2>2. e.start \in Int /\ e.end \in Int /\ e.start <= e.end
    BY <2>1, TimedFacts DEF WindowEvent
  <2>3. e.end <= t
    BY DEF Observed
  <2>4. QED
    BY <1>2, <1>4, <2>2, <2>3
<1>7. NoLaterThan(f.afks, a)
  <2> SUFFICES ASSUME NEW e \in Range(f.afks) PROVE e.start <= a.start /\ e.end <= a.end
    BY DEF NoLaterThan
  <2>1. e \in AFKEvent
    <3>1. \A i \in DOMAIN f.afks : f.afks[i] \in AFKEvent
      BY <1>1, SeqElements
    <3>2. QED
      BY <3>1 DEF Range
  <2>2. e.start \in Int /\ e.end \in Int /\ e.start <= e.end
    BY <2>1, AFKEventFacts
  <2>3. e.end <= t
    BY DEF Observed
  <2>4. QED
    BY <1>2, <1>4, <2>2, <2>3
<1>8. Find(p.windows, x) = w
  BY <1>1, <1>2, <1>3, <1>5, <1>6, LastWindowCounts
<1>9. Find(p.afks, x) # None /\ Find(p.afks, x).status = "not-afk"
  BY <1>1, <1>2, <1>3, <1>5, <1>7, LastAFKCounts
<1>10. w # None
  BY <1>2, NoneAssumption
<1>11. \A c, passive : State(w, Find(p.afks, x), c, passive, x) = "WORKING"
  BY <1>2, <1>9, <1>10 DEF State, Active
<1>12. Classify(p, x).state = "WORKING"
  BY <1>8, <1>11 DEF Classify
<1>13. QED
  BY <1>12 DEF p, g

(* What remains of the daily target.                                        *)
LEMMA EvaluateRemaining ==
  ASSUME NEW working \in Int
  PROVE  Evaluate(1, working).targetRemaining
           = IF DailyTarget > working THEN DailyTarget - working ELSE 0
<1>1. DailyTarget \in Int
  BY TargetsAssumption, TimesArithmetic DEF TargetsAssumption
<1>2. Evaluate(1, working).targetRemaining = Max({0, DailyTarget * 1 - working})
  BY DEF Evaluate
<1> DEFINE y == DailyTarget * 1 - working
<1>3. y \in Int /\ y = DailyTarget - working
  BY <1>1
<1> HIDE DEF y
<1>4. Max({0, y}) = IF 0 >= y THEN 0 ELSE y
  BY <1>3, MaxMinOfTwo
<1>5. QED
  BY <1>1, <1>2, <1>3, <1>4 DEF y

(* The work of the day is counted on, instant by instant.                   *)
LEMMA WorkOfToday ==
  ASSUME NEW f, IsFacts(f), NEW t \in Times
  PROVE  LET W == Time(Instants(Prepared(Evidence(f)), "WORKING"), ReportingDay(t), t)
         IN /\ Today(f, t).totals["WORKING"] = W
            /\ Today(f, t).evaluation = Evaluate(1, W)
<1> DEFINE day == ReportingDay(t)
           W == Time(Instants(Prepared(Evidence(f)), "WORKING"), day, t)
<1>1. day \in Times /\ day <= t
  BY ReportingDayFacts
<1>2. Today(f, t) = Day(f, day, t, TRUE)
  BY DEF Today
<1> HIDE DEF day
<1>3. Day(f, day, t, TRUE).totals["WORKING"] = W
  BY <1>1, DayReportFacts
<1>4. Day(f, day, t, TRUE).evaluation = Evaluate(1, Day(f, day, t, TRUE).totals["WORKING"])
  BY DEF Day, BuildDay
<1>5. QED
  BY <1>2, <1>3, <1>4 DEF day

(* Work that goes on is counted in full until the day ends.                 *)
LEMMA RemainingAfterWork ==
  ASSUME NEW f, IsFacts(f), AFKIsUnambiguous(f), NEW t \in Times, Observed(f, t),
         NEW until \in Times, t < until, until < ReportingDay(t) + DayLength,
         NEW W, W = Time(Instants(Prepared(Evidence(f)), "WORKING"), ReportingDay(t), t)
  PROVE  Today(Continued(f, t, until), until).evaluation = Evaluate(1, W + (until - t))
<1> DEFINE g == Continued(f, t, until)
           day == ReportingDay(t)
           K == Instants(Prepared(Evidence(f)), "WORKING")
           L == Instants(Prepared(Evidence(g)), "WORKING")
<1>1. /\ day \in Times /\ day \in Int /\ day <= t /\ t \in Int /\ until \in Int
      /\ t <= until /\ day <= until
  BY ReportingDayFacts, TimesArithmetic
<1>2. IsFacts(g)
  BY <1>1, ContinuedIs
<1>3. ReportingDay(until) = day
  BY <1>1, ReportingDayIs
<1>4. Today(g, until).evaluation = Evaluate(1, Time(L, day, until))
  <2> HIDE DEF g
  <2>1. QED
    BY <1>2, <1>3, WorkOfToday
<1>5. \A x \in Int \ Times : day < x /\ x < t => (x \in L <=> x \in K)
  <2> TAKE x \in Int \ Times
  <2> HAVE day < x /\ x < t
  <2>1. Classify(Prepared(Evidence(g)), x) = Classify(Prepared(Evidence(f)), x)
    BY <1>1, ContinuedBefore
  <2>2. QED
    BY <2>1 DEF Instants
<1>6. \A x \in Int \ Times : t < x /\ x < until => x \in L
  <2> TAKE x \in Int \ Times
  <2> HAVE t < x /\ x < until
  <2>0. t <= x /\ x <= until
    BY <1>1
  <2>1. Classify(Prepared(Evidence(g)), x).state = "WORKING"
    BY <1>1, <2>0, ContinuedAfter
  <2>2. QED
    BY <2>1 DEF Instants
<1> HIDE DEF K, L, g, day
<1>7. Time(L, day, until) = Time(L, day, t) + Time(L, t, until)
  BY <1>1, TimeSplit
<1>8. Time(L, day, t) = Time(K, day, t)
  BY <1>1, <1>5, TimeSame
<1>9. Time(L, t, until) = until - t
  BY <1>1, <1>6, TimeFull
<1>10. W = Time(K, day, t)
  BY DEF K, day
<1>11. Time(L, day, until) = W + (until - t)
  BY <1>7, <1>8, <1>9, <1>10
<1>12. QED
  BY <1>4, <1>11 DEF g

(* The estimated finish is when the target is reached.                      *)
LEMMA EstimateHolds ==
  ASSUME IsAnswered
  PROVE  EstimateIsReached
<1> DEFINE finish == today.report.finish
           remaining(t) == Today(Continued(facts, now, t), t).evaluation.targetRemaining
<1> SUFFICES ASSUME today # None, finish # None, Observed(facts, now), AFKIsUnambiguous(facts),
                    finish < From + DayLength
             PROVE  /\ today.status.finish = finish
                    /\ remaining(finish) = 0
                    /\ finish - 2 > now => remaining(finish - 2) > 0
  BY DEF EstimateIsReached
<1> DEFINE W == Time(Instants(Prepared(Evidence(facts)), "WORKING"), From, now)
           R == today.report.evaluation.targetRemaining
<1>1. /\ IsFacts(facts) /\ now \in Times /\ now \in Int
      /\ From \in Times /\ From \in Int /\ From <= now
  BY AskedFacts
<1>2. today.report = Today(facts, now) /\ today.status = Status(today.report, now)
  BY DEF IsAnswered, Answer
<1>3. today.report.evaluation = Evaluate(1, W)
  BY <1>1, <1>2, WorkOfToday DEF From
<1>4. W \in Int /\ W \in Times
  <2> DEFINE K == Instants(Prepared(Evidence(facts)), "WORKING")
  <2>1. Time(K, From, now) = 2 * Cardinality(Inside(K, From, now))
    BY DEF Time
  <2>2. Cardinality(Inside(K, From, now)) \in Nat
    BY <1>1, InsideIsFinite
  <2> HIDE DEF K
  <2>3. 2 * Cardinality(Inside(K, From, now)) \in Times
    BY <2>2 DEF Times
  <2>4. QED
    BY <2>1, <2>3, TimesArithmetic DEF K
<1>5. DailyTarget \in Times /\ DailyTarget \in Int
  BY TargetsAssumption, TimesArithmetic DEF TargetsAssumption
<1> HIDE DEF W
<1>6. R = IF DailyTarget > W THEN DailyTarget - W ELSE 0
  BY <1>3, <1>4, EvaluateRemaining
<1>7. finish = IF R > 0 THEN now + R ELSE None
  <2>1. today.report = BuildDay(Build(Evidence(facts), From, now), now, TRUE)
    BY <1>2 DEF Today, Day, From
  <2> DEFINE T == Build(Evidence(facts), From, now)
  <2> HIDE DEF T
  <2>2. BuildDay(T, now, TRUE).finish
          = IF BuildDay(T, now, TRUE).evaluation.targetRemaining > 0
            THEN now + BuildDay(T, now, TRUE).evaluation.targetRemaining ELSE None
    BY DEF BuildDay, EstimatedFinish
  <2>3. QED
    BY <2>1, <2>2 DEF T
<1>8. today.status.finish = IF R > 0 THEN now + R ELSE None
  BY <1>2 DEF Status
<1> HIDE DEF finish, R
<1>9. R > 0 /\ finish = now + R
  BY <1>7
<1>10. R = DailyTarget - W
  BY <1>4, <1>5, <1>6, <1>9
<1>11. /\ finish \in Times /\ finish \in Int /\ now < finish
       /\ W + (finish - now) = DailyTarget
  <2>1. DailyTarget - W \in Times
    BY <1>4, <1>5, TimesArithmetic
  <2>2. now + (DailyTarget - W) \in Times
    BY <1>1, <2>1, TimesArithmetic
  <2>3. QED
    BY <1>1, <1>4, <1>5, <1>9, <1>10, <2>2, TimesArithmetic
<1>12. ASSUME NEW u \in Times, now < u, u <= finish
       PROVE  remaining(u) = Evaluate(1, W + (u - now)).targetRemaining
  <2>1. u < ReportingDay(now) + DayLength
    <3>1. u \in Int /\ From + DayLength \in Int
      BY <1>1, TimesArithmetic, Calendar
    <3>2. QED
      BY <1>11, <1>12, <3>1 DEF From
  <2>2. Today(Continued(facts, now, u), u).evaluation = Evaluate(1, W + (u - now))
    BY <1>1, <1>12, <2>1, RemainingAfterWork DEF W, From
  <2>3. QED
    BY <2>2
<1>13. remaining(finish) = 0
  <2>1. remaining(finish) = Evaluate(1, DailyTarget).targetRemaining
    BY <1>11, <1>12
  <2>2. Evaluate(1, DailyTarget).targetRemaining = 0
    BY <1>5, EvaluateRemaining
  <2> HIDE DEF remaining
  <2>3. QED
    BY <2>1, <2>2
<1>14. ASSUME finish - 2 > now PROVE remaining(finish - 2) > 0
  <2> DEFINE u == finish - 2
             y == W + (u - now)
  <2>1. u \in Times /\ now < u /\ u <= finish
    <3>1. 2 \in Times
      BY DEF Times
    <3>2. QED
      BY <1>11, <1>1, <1>14, <3>1, TimesArithmetic
  <2>2. y = DailyTarget - 2 /\ y \in Int
    BY <1>1, <1>4, <1>5, <1>11
  <2>3. remaining(u) = Evaluate(1, y).targetRemaining
    BY <1>12, <2>1
  <2> HIDE DEF remaining, y, u
  <2>4. Evaluate(1, y).targetRemaining = 2
    BY <1>5, <2>2, EvaluateRemaining
  <2>5. remaining(u) > 0
    BY <2>3, <2>4
  <2>6. QED
    BY <2>5 DEF u
<1>15. QED
  BY <1>8, <1>9, <1>13, <1>14

(* The estimated finish is true, for every stored day and every target: who *)
(* works on until then has reached the target then and not before.          *)
THEOREM EstimateTheorem == Spec => []EstimateIsReached
<1>1. IsAnswered => EstimateIsReached
  BY EstimateHolds
<1>2. QED
  BY <1>1, ReportsAreComputed, PTL

==============================
