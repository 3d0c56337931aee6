-------------------------- MODULE WindowStatsProofs --------------------------
(***************************************************************************)
(* Lemmas about the statistics over window rows, for rows and values of any *)
(* number: what a filter keeps, what a sort orders, what a sum says of its  *)
(* terms, and which values the percentiles and the worst row are.           *)
(* Sums and filters are recursive functions; what they compute is shown     *)
(* with Climb, induction over a set of numbers.                             *)
(***************************************************************************)
EXTENDS WindowStats, TLAPS, FiniteSetTheorems, WellFoundedInduction

-----------------------------------------------------------------------------
(***************************************************************************)
(* Numbers and counting.                                                    *)
(***************************************************************************)
LEMMA HasLeast ==
    ASSUME NEW T, T \subseteq Nat, T # {}
    PROVE  \E x \in T : \A y \in T : x <= y
<1>1. PICK x \in T : \A y \in T : <<y, x>> \notin OpToRel(<, Nat)
  BY NatLessThanWellFounded, WFMin, Zenon
<1>2. \A y \in T : ~(y < x)
  BY <1>1 DEF OpToRel
<1>. QED  BY <1>2

\* Induction up to m, for a set of numbers instead of a predicate.
LEMMA Climb ==
    ASSUME NEW m \in Nat, NEW T, 0 \in T, \A j \in 1..m : j - 1 \in T => j \in T
    PROVE  \A k \in 0..m : k \in T
<1>. DEFINE W == {k \in 0..m : k \notin T}
<1>. SUFFICES ASSUME W # {} PROVE FALSE
  OBVIOUS
<1>1. PICK k \in W : \A l \in W : k <= l
  <2>1. W \subseteq Nat
    OBVIOUS
  <2>. QED  BY <2>1, HasLeast
<1>2. k # 0 /\ k \in 1..m /\ k - 1 \in 0..m /\ ~(k <= k - 1)
  OBVIOUS
<1>3. k - 1 \in T
  BY <1>1, <1>2
<1>. QED  BY <1>2, <1>3

LEMMA SubsetCount ==
    ASSUME NEW B, IsFiniteSet(B), NEW A, A \subseteq B
    PROVE  /\ IsFiniteSet(A) /\ Cardinality(A) \in Nat /\ Cardinality(B) \in Nat
           /\ Cardinality(A) <= Cardinality(B)
BY FS_Subset, FS_CardinalityType

\* A finite set of numbers has a least one and a greatest one.
LEMMA HasBounds ==
    ASSUME NEW S, S \subseteq Int, IsFiniteSet(S), S # {}
    PROVE  /\ \E x \in S : \A y \in S : x <= y
           /\ \E x \in S : \A y \in S : y <= x
<1>. DEFINE Low(x)  == {y \in S : y < x}
            High(x) == {y \in S : y > x}
<1>1. \A x \in S : /\ Cardinality(Low(x)) \in Nat /\ IsFiniteSet(Low(x))
                   /\ Cardinality(High(x)) \in Nat /\ IsFiniteSet(High(x))
  <2>1. TAKE x \in S
  <2>2. Low(x) \subseteq S /\ High(x) \subseteq S
    OBVIOUS
  <2>. HIDE DEF Low, High
  <2>. QED  BY <2>2, SubsetCount
<1>2. ASSUME NEW x \in S, NEW y \in S, y < x
      PROVE  /\ Cardinality(Low(y)) < Cardinality(Low(x))
             /\ Cardinality(High(x)) < Cardinality(High(y))
  <2>0. x \in Int /\ y \in Int /\ \A z \in S : z \in Int
    OBVIOUS
  <2>1. Low(y) \cup {y} \subseteq Low(x) /\ y \notin Low(y)
    <3>1. \A z : z \in Low(y) => z \in S /\ z < x
      BY <1>2, <2>0
    <3>2. \A z : z \in Low(x) <=> z \in S /\ z < x
      OBVIOUS
    <3>3. y \notin Low(y)
      BY <2>0
    <3>. HIDE DEF Low
    <3>. QED  BY <1>2, <3>1, <3>2, <3>3
  <2>2. High(x) \cup {x} \subseteq High(y) /\ x \notin High(x)
    <3>1. \A z : z \in High(x) => z \in S /\ z > y
      BY <1>2, <2>0
    <3>2. \A z : z \in High(y) <=> z \in S /\ z > y
      OBVIOUS
    <3>3. x \notin High(x)
      BY <2>0
    <3>4. x > y
      BY <1>2, <2>0
    <3>. HIDE DEF High
    <3>. QED  BY <3>1, <3>2, <3>3, <3>4
  <2>. HIDE DEF Low, High
  <2>3. Cardinality(Low(y) \cup {y}) = Cardinality(Low(y)) + 1
        /\ Cardinality(High(x) \cup {x}) = Cardinality(High(x)) + 1
    BY <1>1, <2>1, <2>2, FS_AddElement
  <2>4. Cardinality(Low(y) \cup {y}) <= Cardinality(Low(x))
        /\ Cardinality(High(x) \cup {x}) <= Cardinality(High(y))
    BY <1>1, <2>1, <2>2, SubsetCount
  <2>. QED  BY <1>1, <2>3, <2>4
<1>3. \E x \in S : \A y \in S : Cardinality(Low(x)) <= Cardinality(Low(y))
  <2>. DEFINE T == {Cardinality(Low(x)) : x \in S}
  <2>1. T \subseteq Nat /\ T # {}
    BY <1>1
  <2>2. PICK t \in T : \A u \in T : t <= u
    <3>. HIDE DEF T
    <3>. QED  BY <2>1, HasLeast
  <2>. QED  BY <2>2
<1>4. \E x \in S : \A y \in S : Cardinality(High(x)) <= Cardinality(High(y))
  <2>. DEFINE T == {Cardinality(High(x)) : x \in S}
  <2>1. T \subseteq Nat /\ T # {}
    BY <1>1
  <2>2. PICK t \in T : \A u \in T : t <= u
    <3>. HIDE DEF T
    <3>. QED  BY <2>1, HasLeast
  <2>. QED  BY <2>2
<1>. HIDE DEF Low, High
<1>5. \E x \in S : \A y \in S : x <= y
  <2>1. PICK x \in S : \A y \in S : Cardinality(Low(x)) <= Cardinality(Low(y))
    BY <1>3
  <2>2. \A y \in S : ~(y < x)
    BY <1>1, <1>2, <2>1
  <2>. QED  BY <2>2
<1>6. \E x \in S : \A y \in S : y <= x
  <2>1. PICK x \in S : \A y \in S : Cardinality(High(x)) <= Cardinality(High(y))
    BY <1>4
  <2>2. \A y \in S : ~(x < y)
    BY <1>1, <1>2, <2>1
  <2>. QED  BY <2>2
<1>. QED  BY <1>5, <1>6

\* A recursion over 0..m whose steps stay in E has a solution.
LEMMA Recursion ==
    ASSUME NEW E, NEW e0 \in E, NEW m \in Nat, NEW G \in [1..m -> [E -> E]]
    PROVE  \E f \in [0..m -> E] : f[0] = e0 /\ \A j \in 1..m : f[j] = G[j][f[j - 1]]
<1>. DEFINE Upto(k, f) == /\ f \in [0..k -> E] /\ f[0] = e0
                          /\ \A j \in 1..k : f[j] = G[j][f[j - 1]]
            T == {k \in 0..m : \E f : Upto(k, f)}
<1>1. 0 \in T
  <2>1. Upto(0, [j \in 0..0 |-> e0])
    OBVIOUS
  <2>2. 0 \in 0..m
    OBVIOUS
  <2>. HIDE DEF Upto
  <2>. QED  BY <2>1, <2>2
<1>2. ASSUME NEW k \in 1..m, k - 1 \in T PROVE k \in T
  <2>1. PICK f : Upto(k - 1, f)
    BY <1>2
  <2>. DEFINE g == [j \in 0..k |-> IF j = k THEN G[k][f[k - 1]] ELSE f[j]]
  <2>2. G[k][f[k - 1]] \in E
    BY <2>1
  <2>3. g \in [0..k -> E] /\ g[0] = e0 /\ g[k] = G[k][f[k - 1]] /\ \A j \in 0..k - 1 : g[j] = f[j]
    BY <2>1, <2>2
  <2>4. \A j \in 1..k : g[j] = G[j][g[j - 1]]
    <3>. HIDE DEF g
    <3>1. TAKE j \in 1..k
    <3>2. CASE j = k
      BY <2>3, <3>2
    <3>3. CASE j # k
      <4>1. j \in 1..k - 1 /\ j \in 0..k - 1 /\ j - 1 \in 0..k - 1
        BY <3>3, SMTT(60)
      <4>. QED  BY <2>1, <2>3, <4>1, SMTT(60)
    <3>. QED  BY <3>2, <3>3
  <2>5. Upto(k, g)
    BY <2>3, <2>4
  <2>. HIDE DEF Upto
  <2>. QED  BY <2>5
<1>3. \A k \in 0..m : k \in T
  <2>. HIDE DEF T
  <2>. QED  BY <1>1, <1>2, Climb
<1>4. PICK f : Upto(m, f)
  BY <1>3
<1>. QED  BY <1>4

-----------------------------------------------------------------------------
(***************************************************************************)
(* Filters and sorts.                                                       *)
(***************************************************************************)
\* The elements a filter keeps are those at the places it is given, and no more.
LEMMA PickFacts ==
    ASSUME NEW S, NEW s \in Seq(S), NEW I
    PROVE  /\ Pick(s, I) \in Seq(S)
           /\ Len(Pick(s, I)) <= Len(s)
           /\ \A k \in DOMAIN Pick(s, I) : \E i \in I \cap DOMAIN s : Pick(s, I)[k] = s[i]
           /\ \A i \in I \cap DOMAIN s : \E k \in DOMAIN Pick(s, I) : Pick(s, I)[k] = s[i]
<1>. DEFINE m == Len(s)
            Defines(f) == f = [k \in 0..m |-> IF k = 0 THEN <<>>
                                              ELSE IF k \in I THEN Append(f[k - 1], s[k]) ELSE f[k - 1]]
            picked == CHOOSE f : Defines(f)
            G == [k \in 1..m |-> [q \in Seq(S) |-> IF k \in I THEN Append(q, s[k]) ELSE q]]
<1>1. m \in Nat /\ DOMAIN s = 1..m /\ \A k \in 1..m : s[k] \in S
  OBVIOUS
<1>2. G \in [1..m -> [Seq(S) -> Seq(S)]] /\ <<>> \in Seq(S)
  OBVIOUS
<1>3. PICK f \in [0..m -> Seq(S)] : f[0] = <<>> /\ \A k \in 1..m : f[k] = G[k][f[k - 1]]
  <2>. DEFINE E  == Seq(S)
              e0 == <<>>
  <2>1. m \in Nat /\ e0 \in E /\ G \in [1..m -> [E -> E]]
    BY <1>1, <1>2
  <2>. HIDE DEF G, m, E, e0
  <2>2. \E f \in [0..m -> E] : f[0] = e0 /\ \A k \in 1..m : f[k] = G[k][f[k - 1]]
    BY <2>1, Recursion, SMTT(60)
  <2>. QED  BY <2>2 DEF E, e0
<1>4. Defines(f)
  <2>1. ASSUME NEW k \in 1..m
        PROVE  f[k] = IF k \in I THEN Append(f[k - 1], s[k]) ELSE f[k - 1]
    <3>1. f[k - 1] \in Seq(S) /\ f[k] = G[k][f[k - 1]]
      <4>1. k - 1 \in 0..m
        BY <1>1
      <4>. HIDE DEF G, m
      <4>. QED  BY <1>3, <4>1
    <3>. QED  BY <3>1
  <2>2. \A k \in 0..m : k # 0 => k \in 1..m
    BY <1>1, SMTT(60)
  <2>. HIDE DEF G, m
  <2>. QED  BY <1>3, <2>1, <2>2
<1>5. Defines(picked)
  BY <1>4
<1>6. Pick(s, I) = picked[m]
  BY Zenon DEF Pick
<1>. HIDE DEF picked, m
<1>7. picked[0] = <<>>
      /\ \A k \in 1..m : picked[k] = IF k \in I THEN Append(picked[k - 1], s[k]) ELSE picked[k - 1]
  <2>1. \A k \in 0..m : picked[k] = IF k = 0 THEN <<>>
                                     ELSE IF k \in I THEN Append(picked[k - 1], s[k]) ELSE picked[k - 1]
    BY <1>5
  <2>2. 0 \in 0..m /\ \A k \in 1..m : k \in 0..m /\ k # 0
    BY <1>1
  <2>. QED  BY <2>1, <2>2
<1>. DEFINE Kept(k, q) == /\ q \in Seq(S) /\ Len(q) <= k
                          /\ \A j \in 1..Len(q) : \E i \in I \cap 1..k : q[j] = s[i]
                          /\ \A i \in I \cap 1..k : \E j \in 1..Len(q) : q[j] = s[i]
            T == {k \in 0..m : Kept(k, picked[k])}
<1>8. 0 \in T
  <2>1. Kept(0, <<>>)
    OBVIOUS
  <2>2. 0 \in 0..m
    BY <1>1
  <2>. HIDE DEF Kept
  <2>. QED  BY <1>7, <2>1, <2>2
<1>9. ASSUME NEW k \in 1..m, k - 1 \in T PROVE k \in T
  <2>. DEFINE q == picked[k - 1]
  <2>1. Kept(k - 1, q) /\ k \in 0..m /\ k \in Nat
    BY <1>1, <1>9
  <2>. HIDE DEF q
  <2>2. CASE k \in I
    <3>1. picked[k] = Append(q, s[k])
      BY <1>7, <2>2 DEF q
    <3>2. /\ Append(q, s[k]) \in Seq(S) /\ Len(Append(q, s[k])) = Len(q) + 1 /\ Len(q) \in Nat
          /\ \A j \in 1..Len(q) : Append(q, s[k])[j] = q[j]
          /\ Append(q, s[k])[Len(q) + 1] = s[k]
      BY <1>1, <2>1
    <3>3. Kept(k, Append(q, s[k]))
      <4>. DEFINE r == Append(q, s[k])
      <4>. HIDE DEF r
      <4>0. r \in Seq(S) /\ Len(r) = Len(q) + 1 /\ (\A j \in 1..Len(q) : r[j] = q[j]) /\ r[Len(q) + 1] = s[k]
        BY <3>2 DEF r
      <4>1. \A j \in 1..Len(r) : \E i \in I \cap 1..k : r[j] = s[i]
        <5>1. TAKE j \in 1..Len(r)
        <5>2. CASE j = Len(q) + 1
          BY <2>1, <2>2, <4>0, <5>2
        <5>3. CASE j # Len(q) + 1
          <6>1. j \in 1..Len(q)
            BY <3>2, <4>0, <5>3
          <6>2. PICK i \in I \cap 1..k - 1 : q[j] = s[i]
            BY <2>1, <6>1
          <6>. QED  BY <4>0, <6>1, <6>2, SMTT(60)
        <5>. QED  BY <5>2, <5>3
      <4>2. \A i \in I \cap 1..k : \E j \in 1..Len(r) : r[j] = s[i]
        <5>1. TAKE i \in I \cap 1..k
        <5>2. CASE i = k
          <6>1. Len(q) + 1 \in 1..Len(r)
            BY <3>2, <4>0
          <6>. QED  BY <4>0, <5>2, <6>1
        <5>3. CASE i # k
          <6>1. i \in I \cap 1..k - 1
            BY <2>1, <5>3
          <6>2. PICK j \in 1..Len(q) : q[j] = s[i]
            BY <2>1, <6>1
          <6>3. j \in 1..Len(r)
            BY <3>2, <4>0
          <6>. QED  BY <4>0, <6>2, <6>3
        <5>. QED  BY <5>2, <5>3
      <4>3. Len(r) <= k
        BY <2>1, <3>2, <4>0
      <4>4. Kept(k, r)
        BY <4>0, <4>1, <4>2, <4>3
      <4>. QED  BY <4>4 DEF r
    <3>. QED  BY <2>1, <3>1, <3>3, ZenonT(60)
  <2>3. CASE k \notin I
    <3>1. picked[k] = q
      BY <1>7, <2>3 DEF q
    <3>2. I \cap 1..k = I \cap 1..k - 1
      BY <2>1, <2>3, SMTT(60)
    <3>3. Len(q) <= k
      BY <2>1
    <3>. QED  BY <2>1, <3>1, <3>2, <3>3, ZenonT(60)
  <2>. QED  BY <2>2, <2>3
<1>10. \A k \in 0..m : k \in T
  <2>. HIDE DEF T
  <2>. QED  BY <1>1, <1>8, <1>9, Climb
<1>11. Kept(m, picked[m])
  <2>1. m \in T
    <3>1. m \in 0..m
      BY <1>1
    <3>. HIDE DEF T
    <3>. QED  BY <1>10, <3>1
  <2>. HIDE DEF Kept
  <2>. QED  BY <2>1
<1>12. DOMAIN Pick(s, I) = 1..Len(Pick(s, I))
  BY <1>6, <1>11
<1>. QED  BY <1>1, <1>6, <1>11, <1>12 DEF m

\* The numbers of a set in increasing order, each at one place.
LEMMA AscendingFacts ==
    ASSUME NEW S, S \subseteq Int, IsFiniteSet(S)
    PROVE  LET n == Cardinality(S)
           IN  /\ n \in Nat /\ Ascending(S) \in [1..n -> S]
               /\ \A x \in S : \E k \in 1..n : Ascending(S)[k] = x
               /\ \A j, k \in 1..n : j < k => Ascending(S)[j] < Ascending(S)[k]
<1>. DEFINE n == Cardinality(S)
            Below(x) == {y \in S : y < x}
            r == [x \in S |-> Cardinality(Below(x))]
            a == Ascending(S)
<1>1. n \in Nat
  BY FS_CardinalityType
<1>2. \A x \in S : r[x] \in 0..n - 1
  <2>1. TAKE x \in S
  <2>2. Below(x) \subseteq S /\ x \in S /\ x \notin Below(x)
    OBVIOUS
  <2>. HIDE DEF Below
  <2>3. IsFiniteSet(Below(x)) /\ Cardinality(Below(x)) <= n /\ Cardinality(Below(x)) # n
    BY <2>2, FS_Subset
  <2>4. Cardinality(Below(x)) \in Nat
    BY <2>3, FS_CardinalityType
  <2>. QED  BY <1>1, <2>3, <2>4
<1>3. ASSUME NEW x \in S, NEW y \in S, y < x PROVE r[y] < r[x]
  <2>0. x \in Int /\ y \in Int /\ \A z \in S : z \in Int
    OBVIOUS
  <2>1. Below(y) \cup {y} \subseteq Below(x) /\ y \notin Below(y)
    <3>1. \A z : z \in Below(y) => z \in S /\ z < x
      BY <1>3, <2>0
    <3>2. \A z : z \in Below(x) <=> z \in S /\ z < x
      OBVIOUS
    <3>3. y \notin Below(y)
      BY <2>0
    <3>. HIDE DEF Below
    <3>. QED  BY <1>3, <3>1, <3>2, <3>3
  <2>2. Below(x) \subseteq S /\ Below(y) \subseteq S
    OBVIOUS
  <2>. HIDE DEF Below
  <2>3. IsFiniteSet(Below(x)) /\ IsFiniteSet(Below(y)) /\ Cardinality(Below(y)) \in Nat
    BY <2>2, SubsetCount
  <2>4. Cardinality(Below(y) \cup {y}) = Cardinality(Below(y)) + 1
    BY <2>1, <2>3, FS_AddElement
  <2>5. Cardinality(Below(y) \cup {y}) <= Cardinality(Below(x)) /\ Cardinality(Below(x)) \in Nat
    BY <2>1, <2>3, SubsetCount
  <2>. QED  BY <2>3, <2>4, <2>5
<1>4. \A k \in 1..n : a[k] = CHOOSE x \in S : Cardinality(Below(x)) = k - 1
  BY DEF Ascending
<1>5. DOMAIN a = 1..n
  BY DEF Ascending
<1>6. r \in [S -> 0..n - 1]
  <2>1. DOMAIN r = S /\ r = [x \in S |-> r[x]]
    OBVIOUS
  <2>. HIDE DEF r, n
  <2>. QED  BY <1>2, <2>1
<1>7. \A x \in S : r[x] = Cardinality(Below(x))
  OBVIOUS
<1>. HIDE DEF r, n, Below, a
<1>8. \A x, y \in S : r[x] = r[y] => x = y
  <2>1. TAKE x, y \in S
  <2>2. x \in Int /\ y \in Int /\ r[x] \in Int /\ r[y] \in Int
    BY <1>1, <1>2
  <2>. QED  BY <1>3, <2>2
<1>9. \A k \in 1..n : \E x \in S : r[x] = k - 1
  <2>1. r \in Injection(S, 0..n - 1)
    BY <1>6, <1>8 DEF Injection, IsInjective
  <2>2. IsFiniteSet(0..n - 1) /\ Cardinality(0..n - 1) = n
    BY <1>1, FS_Interval
  <2>3. r \in Surjection(S, 0..n - 1)
    <3>1. Cardinality(S) = Cardinality(0..n - 1)
      BY <2>2 DEF n
    <3>. QED  BY <2>1, <2>2, <3>1, FS_Injection
  <2>4. \A k \in 1..n : k - 1 \in 0..n - 1
    BY <1>1
  <2>. QED  BY <2>3, <2>4 DEF Surjection
<1>10. \A k \in 1..n : a[k] \in S /\ r[a[k]] = k - 1
  BY <1>4, <1>7, <1>9
<1>11. a \in [1..n -> S]
  <2>1. a = [k \in 1..n |-> CHOOSE x \in S : Cardinality({y \in S : y < x}) = k - 1]
    BY Zenon DEF a, n, Ascending
  <2>. QED  BY <1>10, <2>1
<1>12. \A x \in S : \E k \in 1..n : a[k] = x
  <2>1. TAKE x \in S
  <2>2. r[x] + 1 \in 1..n /\ (r[x] + 1) - 1 = r[x]
    BY <1>1, <1>2
  <2>. QED  BY <1>8, <1>10, <2>2
<1>13. \A j, k \in 1..n : j < k => a[j] < a[k]
  <2>1. TAKE j, k \in 1..n
  <2>2. HAVE j < k
  <2>3. a[j] \in S /\ a[k] \in S /\ r[a[j]] < r[a[k]] /\ a[j] \in Int /\ a[k] \in Int
    <3>1. a[j] \in S /\ a[k] \in S /\ r[a[j]] = j - 1 /\ r[a[k]] = k - 1
      BY <1>10
    <3>2. j - 1 < k - 1
      BY <1>1, <2>2
    <3>. QED  BY <3>1, <3>2
  <2>4. ~(a[k] < a[j]) /\ a[k] # a[j]
    <3>1. r[a[j]] \in Int /\ r[a[k]] \in Int
      BY <1>1, <1>2, <2>3
    <3>. QED  BY <1>3, <2>3, <3>1
  <2>. QED  BY <2>3, <2>4
<1>. QED  BY <1>1, <1>11, <1>12, <1>13 DEF n, a

-----------------------------------------------------------------------------
(***************************************************************************)
(* Sums, percentiles and the worst row.                                     *)
(***************************************************************************)
\* A sum of numbers, each of which is at least a bound, is a number and at least as large as
\* that many times the bound.
LEMMA TotalFacts ==
    ASSUME NEW v, NEW m \in Nat, v \in [1..m -> Int], Len(v) = m, NEW b \in Int
    PROVE  /\ Total(v) \in Int
           /\ (\A k \in 1..m : v[k] >= b) => Total(v) >= b * m
<1>. DEFINE Defines(f) == f = [k \in 0..m |-> IF k = 0 THEN 0 ELSE f[k - 1] + v[k]]
            sum == CHOOSE f : Defines(f)
            G == [k \in 1..m |-> [q \in Int |-> q + v[k]]]
<1>1. \A k \in 1..m : v[k] \in Int
  OBVIOUS
<1>2. G \in [1..m -> [Int -> Int]] /\ 0 \in Int
  BY <1>1
<1>3. PICK f \in [0..m -> Int] : f[0] = 0 /\ \A k \in 1..m : f[k] = G[k][f[k - 1]]
  <2>. DEFINE E == Int
  <2>1. m \in Nat /\ 0 \in E /\ G \in [1..m -> [E -> E]]
    BY <1>2
  <2>. HIDE DEF G, E
  <2>2. \E f \in [0..m -> E] : f[0] = 0 /\ \A k \in 1..m : f[k] = G[k][f[k - 1]]
    BY <2>1, Recursion, SMTT(60)
  <2>. QED  BY <2>2 DEF E
<1>4. Defines(f)
  <2>1. ASSUME NEW k \in 1..m
        PROVE  f[k] = f[k - 1] + v[k]
    <3>1. f[k - 1] \in Int /\ f[k] = G[k][f[k - 1]]
      <4>1. k - 1 \in 0..m
        OBVIOUS
      <4>. HIDE DEF G
      <4>. QED  BY <1>3, <4>1
    <3>. QED  BY <3>1
  <2>2. \A k \in 0..m : k # 0 => k \in 1..m
    OBVIOUS
  <2>. HIDE DEF G
  <2>. QED  BY <1>3, <2>1, <2>2
<1>5. Defines(sum)
  BY <1>4
<1>6. Total(v) = sum[m]
  <2>1. Total(v) = (CHOOSE g : g = [k \in 0..Len(v) |-> IF k = 0 THEN 0 ELSE g[k - 1] + v[k]])[Len(v)]
    BY Zenon DEF Total
  <2>. QED  BY <2>1
<1>. HIDE DEF sum
<1>7. sum[0] = 0 /\ \A k \in 1..m : sum[k] = sum[k - 1] + v[k]
  <2>1. \A k \in 0..m : sum[k] = IF k = 0 THEN 0 ELSE sum[k - 1] + v[k]
    BY <1>5
  <2>2. 0 \in 0..m /\ \A k \in 1..m : k \in 0..m /\ k # 0
    OBVIOUS
  <2>. QED  BY <2>1, <2>2
<1>. DEFINE T == {k \in 0..m : sum[k] \in Int}
<1>8. \A k \in 0..m : k \in T
  <2>1. 0 \in T
    BY <1>7
  <2>2. ASSUME NEW k \in 1..m, k - 1 \in T PROVE k \in T
    <3>1. sum[k - 1] \in Int /\ sum[k] = sum[k - 1] + v[k] /\ v[k] \in Int /\ k \in 0..m
      BY <1>1, <1>7, <2>2
    <3>. QED  BY <3>1, SMTT(60)
  <2>. HIDE DEF T
  <2>. QED  BY <2>1, <2>2, Climb
<1>9. \A k \in 0..m : sum[k] \in Int
  BY <1>8
<1>. DEFINE U == {k \in 0..m : sum[k] >= b * k}
<1>10. ASSUME \A k \in 1..m : v[k] >= b PROVE sum[m] >= b * m
  <2>1. 0 \in U
    BY <1>7
  <2>2. ASSUME NEW k \in 1..m, k - 1 \in U PROVE k \in U
    <3>1. sum[k - 1] >= b * (k - 1) /\ sum[k] = sum[k - 1] + v[k] /\ v[k] >= b /\ v[k] \in Int /\ sum[k - 1] \in Int
      BY <1>1, <1>7, <1>9, <1>10, <2>2
    <3>2. b * k = b * (k - 1) + b /\ b * k \in Int /\ b * (k - 1) \in Int
      OBVIOUS
    <3>3. sum[k] >= b * k
      <4>. DEFINE x == b * k
                  y == b * (k - 1)
      <4>1. x = y + b /\ x \in Int /\ y \in Int /\ sum[k - 1] >= y
        BY <3>1, <3>2
      <4>. HIDE DEF x, y
      <4>2. sum[k] >= x
        BY <3>1, <4>1, SMTT(60)
      <4>. QED  BY <4>2 DEF x
    <3>. QED  BY <3>3
  <2>3. \A k \in 0..m : k \in U
    <3>. HIDE DEF U
    <3>. QED  BY <2>1, <2>2, Climb
  <2>4. m \in 0..m
    OBVIOUS
  <2>. QED  BY <2>3, <2>4
<1>11. m \in 0..m
  OBVIOUS
<1>. QED  BY <1>6, <1>9, <1>10, <1>11

\* Where the mean is at most M, some value is.
LEMMA SomeBelow ==
    ASSUME NEW v, NEW m \in Nat, v \in [1..m -> Int], Len(v) = m, m > 0, NEW M \in Int,
           Total(v) <= M * m
    PROVE  \E k \in 1..m : v[k] <= M
<1>. SUFFICES ASSUME \A k \in 1..m : v[k] >= M + 1 PROVE FALSE
  <2>1. \A k \in 1..m : v[k] \in Int
    OBVIOUS
  <2>. QED  BY <2>1
<1>1. Total(v) >= (M + 1) * m /\ Total(v) \in Int
  <2>. DEFINE b == M + 1
  <2>1. b \in Int /\ \A k \in 1..m : v[k] >= b
    OBVIOUS
  <2>. HIDE DEF b
  <2>2. Total(v) >= b * m /\ Total(v) \in Int
    BY <2>1, TotalFacts
  <2>. QED  BY <2>2 DEF b
<1>2. (M + 1) * m = M * m + m
  OBVIOUS
<1>. DEFINE x == M * m
<1>3. x \in Int /\ Total(v) <= x
  OBVIOUS
<1>4. Total(v) >= x + m
  BY <1>1, <1>2
<1>. HIDE DEF x
<1>. QED  BY <1>1, <1>3, <1>4

\* The values of a sequence are finitely many.
LEMMA FiniteValues ==
    ASSUME NEW n \in Nat, NEW f, NEW V, \A v \in V : \E j \in 1..n : v = f[j]
    PROVE  IsFiniteSet(V)
<1>. DEFINE W == {f[j] : j \in 1..n}
<1>1. IsFiniteSet(1..n)
  BY FS_Interval
<1>2. [j \in 1..n |-> f[j]] \in Surjection(1..n, W)
  BY DEF Surjection
<1>3. IsFiniteSet(W)
  <2>. HIDE DEF W
  <2>. QED  BY <1>1, <1>2, FS_Surjection
<1>4. V \subseteq W
  OBVIOUS
<1>. HIDE DEF W
<1>. QED  BY <1>3, <1>4, FS_Subset

\* The worst row bounds every row.
LEMMA WorstFacts ==
    ASSUME NEW n \in Nat, NEW rows, DOMAIN rows = 1..n, NEW field,
           \A j \in 1..n : rows[j][field] \in Int
    PROVE  /\ Worst(field, rows) \in Nat
           /\ \A j \in 1..n : rows[j][field] <= Worst(field, rows)
<1>. DEFINE f == [j \in 1..n |-> rows[j][field]]
            S == {0} \cup {rows[j][field] : j \in DOMAIN rows}
<1>1. IsFiniteSet(S)
  <2>. DEFINE F == {rows[j][field] : j \in DOMAIN rows}
  <2>1. \A v \in F : \E j \in 1..n : v = f[j]
    OBVIOUS
  <2>2. S = F \cup {0}
    OBVIOUS
  <2>. HIDE DEF S, F, f
  <2>. QED  BY <2>1, <2>2, FiniteValues, FS_AddElement
<1>2. S \subseteq Int /\ S # {}
  OBVIOUS
<1>3. Worst(field, rows) = CHOOSE x \in S : \A y \in S : x >= y
  BY Zenon DEF Worst, Max
<1>4. 0 \in S /\ \A j \in 1..n : rows[j][field] \in S
  OBVIOUS
<1>. HIDE DEF S
<1>5. \E x \in S : \A y \in S : x >= y
  BY <1>1, <1>2, HasBounds
<1>6. Worst(field, rows) \in S /\ \A y \in S : Worst(field, rows) >= y
  BY <1>3, <1>5
<1>7. Worst(field, rows) \in Int /\ Worst(field, rows) >= 0
  BY <1>2, <1>4, <1>6
<1>8. \A j \in 1..n : rows[j][field] \in S /\ Worst(field, rows) >= rows[j][field]
  BY <1>4, <1>6
<1>. QED  BY <1>7, <1>8

\* A percentile of some values is one of them.
LEMMA PercentileFacts ==
    ASSUME NEW values \in Seq(Int), values # <<>>, NEW p \in 1..100
    PROVE  LET rank == Max({1, (p * Len(values) + 99) \div 100})
               v    == Percentile(values, p)
           IN  /\ rank \in Nat /\ v \in {values[j] : j \in DOMAIN values}
               /\ Cardinality({j \in DOMAIN values : values[j] < v}) < rank
<1>. DEFINE n    == Len(values)
            q    == (p * n + 99) \div 100
            rank == Max({1, q})
            V    == {values[j] : j \in DOMAIN values}
            Less(v)   == {j \in DOMAIN values : values[j] < v}
            UpTo(v)   == {j \in DOMAIN values : values[j] <= v}
            Good(v)   == Cardinality(Less(v)) < rank /\ rank <= Cardinality(UpTo(v))
<1>1. n \in Nat \ {0} /\ DOMAIN values = 1..n /\ \A j \in 1..n : values[j] \in Int
  OBVIOUS
<1>2. q \in Int /\ q <= n
  <2>. DEFINE x == p * n
  <2>1. x \in Nat /\ x <= 100 * n
    BY <1>1
  <2>. HIDE DEF x, n
  <2>2. (x + 99) \div 100 \in Int /\ (x + 99) \div 100 <= n
    BY <1>1, <2>1
  <2>. QED  BY <2>2 DEF x
<1>3. rank \in 1..n
  <2>1. \E x \in {1, q} : \A y \in {1, q} : x >= y
    <3>. HIDE DEF q
    <3>. QED  BY <1>2
  <2>2. rank \in {1, q} /\ \A y \in {1, q} : rank >= y
    <3>. HIDE DEF q
    <3>1. rank = CHOOSE x \in {1, q} : \A y \in {1, q} : x >= y
      BY Zenon DEF Max
    <3>. HIDE DEF rank
    <3>. QED  BY <2>1, <3>1
  <2>. HIDE DEF q, n, rank
  <2>. QED  BY <1>1, <1>2, <2>2
<1>4. V \subseteq Int /\ IsFiniteSet(V) /\ \A j \in 1..n : values[j] \in V
  <2>1. \A v \in V : \E j \in 1..n : v = values[j]
    BY <1>1
  <2>2. IsFiniteSet(V)
    <3>. HIDE DEF V
    <3>. QED  BY <1>1, <2>1, FiniteValues
  <2>. QED  BY <1>1, <2>2, SMTT(60)
<1>5. \A v \in V : \E j \in 1..n : v = values[j]
  BY <1>1
<1>6. \A v : /\ IsFiniteSet(Less(v)) /\ Cardinality(Less(v)) \in Nat
             /\ IsFiniteSet(UpTo(v)) /\ Cardinality(UpTo(v)) \in Nat
  <2>1. TAKE v
  <2>2. Less(v) \subseteq 1..n /\ UpTo(v) \subseteq 1..n /\ IsFiniteSet(1..n)
    BY <1>1, FS_Interval, SMTT(60)
  <2>. HIDE DEF Less, UpTo, n
  <2>. QED  BY <2>2, SubsetCount
<1>7. Percentile(values, p) = CHOOSE v \in V : Good(v)
  <2>1. Percentile(values, p)
        = CHOOSE v \in V : /\ Cardinality({j \in DOMAIN values : values[j] < v}) < rank
                           /\ rank <= Cardinality({j \in DOMAIN values : values[j] <= v})
    BY Zenon DEF Percentile
  <2>. QED  BY <2>1
<1>8. \E v \in V : Good(v)
  <2>. DEFINE H == {v \in V : rank <= Cardinality(UpTo(v))}
  <2>1. PICK t \in V : \A y \in V : y <= t
    <3>1. V # {}
      BY <1>1, <1>4, SMTT(60)
    <3>. HIDE DEF V
    <3>. QED  BY <1>4, <3>1, HasBounds
  <2>2. UpTo(t) = 1..n
    <3>. HIDE DEF V
    <3>. QED  BY <1>1, <1>4, <2>1
  <2>3. t \in H
    <3>1. Cardinality(1..n) = n
      BY <1>1, FS_Interval, SMTT(60)
    <3>. HIDE DEF UpTo, V, rank, n
    <3>. QED  BY <1>1, <1>3, <2>1, <2>2, <3>1
  <2>4. H \subseteq V
    OBVIOUS
  <2>5. H # {} /\ IsFiniteSet(H) /\ H \subseteq Int
    <3>. HIDE DEF H, V
    <3>. QED  BY <1>4, <2>3, <2>4, FS_Subset
  <2>6. PICK v \in H : \A y \in H : v <= y
    <3>. HIDE DEF H
    <3>. QED  BY <2>5, HasBounds
  <2>7. Cardinality(Less(v)) < rank
    <3>1. CASE Less(v) = {}
      <4>. HIDE DEF Less, rank
      <4>. QED  BY <1>3, <3>1, FS_EmptySet
    <3>2. CASE Less(v) # {}
      <4>. DEFINE W == {values[j] : j \in Less(v)}
      <4>1. Less(v) \subseteq 1..n
        BY <1>1
      <4>2. IsFiniteSet(W) /\ W \subseteq V /\ W # {} /\ \A j \in Less(v) : values[j] \in W
        <5>1. IsFiniteSet(W)
          <6>1. \A w \in W : \E j \in 1..n : w = values[j]
            BY <4>1
          <6>. HIDE DEF W
          <6>. QED  BY <1>1, <6>1, FiniteValues
        <5>. QED  BY <3>2, <5>1, SMTT(60)
      <4>3. \A w \in W : w < v
        OBVIOUS
      <4>4. PICK u \in W : \A y \in W : y <= u
        <5>1. W \subseteq Int
          <6>. HIDE DEF W, V
          <6>. QED  BY <1>4, <4>2
        <5>. HIDE DEF W
        <5>. QED  BY <4>2, <5>1, HasBounds
      <4>5. u \in V /\ u \in Int /\ v \in Int /\ v \in V /\ u < v
        <5>. HIDE DEF W, V, H
        <5>. QED  BY <1>4, <2>4, <2>5, <4>2, <4>3, <4>4
      <4>6. u \notin H
        <5>. HIDE DEF H, W
        <5>. QED  BY <2>6, <4>5
      <4>7. ~(rank <= Cardinality(UpTo(u)))
        <5>. HIDE DEF UpTo, V, rank, W
        <5>. QED  BY <4>5, <4>6
      <4>8. Less(v) \subseteq UpTo(u)
        <5>. HIDE DEF W, H, V
        <5>. QED  BY <1>1, <4>2, <4>4
      <4>9. Cardinality(Less(v)) <= Cardinality(UpTo(u))
        <5>. HIDE DEF Less, UpTo
        <5>. QED  BY <1>6, <4>8, SubsetCount
      <4>. HIDE DEF Less, UpTo, rank, W, H, V, n
      <4>10. rank \in Int
        BY <1>1, <1>3
      <4>. QED  BY <1>6, <4>7, <4>9, <4>10
    <3>. QED  BY <3>1, <3>2
  <2>8. v \in V /\ rank <= Cardinality(UpTo(v))
    <3>. HIDE DEF V, UpTo, rank
    <3>. QED  OBVIOUS
  <2>. HIDE DEF V, Less, UpTo, rank, H
  <2>. QED  BY <2>7, <2>8
<1>. HIDE DEF Good, V
<1>9. Percentile(values, p) \in V /\ Good(Percentile(values, p))
  BY <1>7, <1>8
<1>10. rank \in Nat
  <2>. HIDE DEF rank, n
  <2>. QED  BY <1>1, <1>3
<1>. QED  BY <1>9, <1>10 DEF Good, V

\* The fifth percentile of up to twenty values is the least of them.
LEMMA PercentileLeast ==
    ASSUME NEW values \in Seq(Int), values # <<>>, Len(values) <= 20
    PROVE  \A j \in DOMAIN values : Percentile(values, 5) <= values[j]
<1>. DEFINE n    == Len(values)
            q    == (5 * n + 99) \div 100
            rank == Max({1, q})
            v    == Percentile(values, 5)
            Less == {j \in DOMAIN values : values[j] < v}
<1>1. n \in 1..20 /\ DOMAIN values = 1..n /\ \A j \in 1..n : values[j] \in Int
  <2>1. n \in Nat /\ n # 0 /\ n <= 20
    OBVIOUS
  <2>2. DOMAIN values = 1..n /\ \A j \in 1..n : values[j] \in Int
    OBVIOUS
  <2>. HIDE DEF n
  <2>. QED  BY <2>1, <2>2
<1>2. q = 1
  <2>. HIDE DEF n
  <2>. QED  BY <1>1
<1>3. rank = 1
  <2>1. rank = CHOOSE x \in {1, q} : \A y \in {1, q} : x >= y
    BY Zenon DEF Max
  <2>. HIDE DEF q, rank
  <2>. QED  BY <1>2, <2>1
<1>4. v \in {values[j] : j \in DOMAIN values} /\ Cardinality(Less) < 1
  <2>1. 5 \in 1..100
    OBVIOUS
  <2>2. /\ Percentile(values, 5) \in {values[j] : j \in DOMAIN values}
        /\ Cardinality({j \in DOMAIN values : values[j] < Percentile(values, 5)})
               < Max({1, (5 * Len(values) + 99) \div 100})
    BY <2>1, PercentileFacts, ZenonT(60)
  <2>3. Cardinality(Less) < rank
    BY <2>2, Zenon
  <2>. HIDE DEF rank, Less
  <2>. QED  BY <1>3, <2>2, <2>3
<1>5. Less = {}
  <2>1. Less \subseteq 1..n
    BY <1>1
  <2>2. IsFiniteSet(1..n)
    BY <1>1, FS_Interval
  <2>. HIDE DEF Less, n
  <2>3. IsFiniteSet(Less) /\ Cardinality(Less) \in Nat
    BY <2>1, <2>2, SubsetCount
  <2>. QED  BY <1>4, <2>3, FS_EmptySet
<1>6. v \in Int
  <2>. HIDE DEF v
  <2>. QED  BY <1>1, <1>4
<1>7. \A j \in DOMAIN values : ~(values[j] < v)
  <2>. HIDE DEF v
  <2>. QED  BY <1>5
<1>. HIDE DEF v
<1>8. \A j \in DOMAIN values : v <= values[j]
  BY <1>1, <1>6, <1>7
<1>. QED  BY <1>8 DEF v

\* The APRs that take part are those of the rows that have one.
LEMMA AprsFacts ==
    ASSUME None \notin Int, NEW n \in Nat, NEW rows, DOMAIN rows = 1..n, Len(rows) = n,
           \A j \in 1..n : rows[j].apr \in Int \cup {None}
    PROVE  /\ Aprs(rows) \in Seq(Int) /\ Len(Aprs(rows)) <= n
           /\ \A j \in 1..n : rows[j].apr # None => \E k \in DOMAIN Aprs(rows) : Aprs(rows)[k] = rows[j].apr
           /\ Aprs(rows) # <<>> => \E j \in 1..n : rows[j].apr # None
<1>. DEFINE col == Column("apr", rows)
            I   == {j \in DOMAIN rows : rows[j].apr # None}
            S   == Int \cup {None}
<1>1. DOMAIN col = 1..n /\ (\A j \in 1..n : col[j] = rows[j].apr) /\ col \in Seq(S) /\ Len(col) = n
  <2>1. col = [j \in 1..n |-> rows[j].apr]
    BY DEF Column
  <2>. HIDE DEF col
  <2>. QED  BY <2>1
<1>2. I \subseteq 1..n /\ \A j \in 1..n : j \in I <=> rows[j].apr # None
  OBVIOUS
<1>3. Aprs(rows) = Pick(col, I)
  BY Zenon DEF Aprs
<1>. DEFINE a == Aprs(rows)
<1>. HIDE DEF col, I, S, a
<1>4. /\ a \in Seq(S) /\ Len(a) <= Len(col)
      /\ \A k \in DOMAIN a : \E i \in I \cap DOMAIN col : a[k] = col[i]
      /\ \A i \in I \cap DOMAIN col : \E k \in DOMAIN a : a[k] = col[i]
  <2>1. col \in Seq(S) /\ a = Pick(col, I)
    BY <1>1, <1>3 DEF a
  <2>. QED  BY ONLY <2>1, PickFacts
<1>5. \A k \in DOMAIN a : a[k] \in Int
  <2>1. TAKE k \in DOMAIN a
  <2>2. PICK i \in I \cap DOMAIN col : a[k] = col[i]
    BY <1>4
  <2>3. rows[i].apr \in Int \cup {None} /\ rows[i].apr # None /\ a[k] = rows[i].apr
    BY <1>1, <1>2, <2>2
  <2>. QED  BY <2>3
<1>6. a \in Seq(Int)
  BY <1>4, <1>5
<1>7. \A j \in 1..n : rows[j].apr # None => \E k \in DOMAIN a : a[k] = rows[j].apr
  <2>1. TAKE j \in 1..n
  <2>2. HAVE rows[j].apr # None
  <2>3. j \in I \cap DOMAIN col /\ col[j] = rows[j].apr
    BY <1>1, <1>2, <2>2
  <2>. QED  BY <1>4, <2>3
<1>8. a # <<>> => \E j \in 1..n : rows[j].apr # None
  <2>1. HAVE a # <<>>
  <2>2. 1 \in DOMAIN a
    BY <1>6, <2>1
  <2>. QED  BY <1>1, <1>2, <1>4, <2>2
<1>. QED  BY <1>1, <1>4, <1>6, <1>7, <1>8 DEF a

\* What a summary says of every row: the fifth percentile exists when some row has an APR and
\* is, with up to twenty rows, below all of them; no row lost more than the worst.
LEMMA SummaryFacts ==
    ASSUME None \notin Int, NEW n \in Nat, NEW rows, DOMAIN rows = 1..n, Len(rows) = n,
           \A j \in 1..n : rows[j].apr \in Int \cup {None} /\ rows[j].dd \in Int
    PROVE  LET s == Summary(rows)
           IN  /\ s.windows = n /\ s.dd \in Nat /\ \A j \in 1..n : rows[j].dd <= s.dd
               /\ s.p05 \in Int \cup {None}
               /\ s.p05 # None => \E j \in 1..n : rows[j].apr # None
               /\ n <= 20 => \A j \in 1..n : rows[j].apr # None => s.p05 # None /\ s.p05 <= rows[j].apr
<1>. DEFINE a == Aprs(rows)
            s == Summary(rows)
<1>1. s.windows = n /\ s.dd = Worst("dd", rows) /\ s.p05 = Percentile(a, 5)
  BY DEF Summary
<1>2. /\ a \in Seq(Int) /\ Len(a) <= n
      /\ \A j \in 1..n : rows[j].apr # None => \E k \in DOMAIN a : a[k] = rows[j].apr
      /\ a # <<>> => \E j \in 1..n : rows[j].apr # None
  BY AprsFacts, ZenonT(60)
<1>3. Worst("dd", rows) \in Nat /\ \A j \in 1..n : rows[j].dd <= Worst("dd", rows)
  <2>. DEFINE field == "dd"
  <2>1. \A j \in 1..n : rows[j][field] \in Int
    OBVIOUS
  <2>2. \A j \in 1..n : rows[j][field] = rows[j].dd
    OBVIOUS
  <2>. HIDE DEF field
  <2>3. Worst(field, rows) \in Nat /\ \A j \in 1..n : rows[j][field] <= Worst(field, rows)
    BY <2>1, WorstFacts
  <2>. QED  BY <2>2, <2>3 DEF field
<1>. HIDE DEF a, s
<1>4. a = <<>> => Percentile(a, 5) = None
  BY DEF Percentile
<1>5. a # <<>> => Percentile(a, 5) \in Int /\ (n <= 20 => \A k \in DOMAIN a : Percentile(a, 5) <= a[k])
  <2>1. HAVE a # <<>>
  <2>2. Percentile(a, 5) \in {a[j] : j \in DOMAIN a}
    <3>1. 5 \in 1..100
      OBVIOUS
    <3>. QED  BY <1>2, <2>1, <3>1, PercentileFacts, ZenonT(60)
  <2>3. \A j \in DOMAIN a : a[j] \in Int
    BY <1>2
  <2>4. Percentile(a, 5) \in Int
    BY <2>2, <2>3
  <2>5. n <= 20 => \A k \in DOMAIN a : Percentile(a, 5) <= a[k]
    <3>1. HAVE n <= 20
    <3>2. Len(a) \in Nat /\ Len(a) <= 20
      BY <1>2, <3>1
    <3>. QED  BY <1>2, <2>1, <3>2, PercentileLeast
  <2>. QED  BY <2>4, <2>5
<1>6. \A j \in 1..n : rows[j].apr # None => a # <<>> /\ \E k \in DOMAIN a : a[k] = rows[j].apr
  <2>1. a = <<>> => DOMAIN a = {}
    OBVIOUS
  <2>. QED  BY <1>2, <2>1
<1>7. s.p05 \in Int \cup {None} /\ (s.p05 # None => \E j \in 1..n : rows[j].apr # None)
  BY <1>1, <1>2, <1>4, <1>5
<1>8. n <= 20 => \A j \in 1..n : rows[j].apr # None => s.p05 # None /\ s.p05 <= rows[j].apr
  BY <1>1, <1>5, <1>6
<1>. QED  BY <1>1, <1>3, <1>7, <1>8 DEF s

\* The total of a column of numbers.
LEMMA ColumnTotal ==
    ASSUME NEW n \in Nat, NEW rows, DOMAIN rows = 1..n, NEW field,
           \A j \in 1..n : rows[j][field] \in Int
    PROVE  LET col == Column(field, rows)
           IN  /\ col \in [1..n -> Int] /\ Len(col) = n /\ Total(col) \in Int
               /\ \A j \in 1..n : col[j] = rows[j][field]
               /\ (\A j \in 1..n : rows[j][field] >= 0) => Total(col) >= 0
<1>. DEFINE col == Column(field, rows)
<1>1. col = [j \in 1..n |-> rows[j][field]]
  BY DEF Column
<1>. HIDE DEF col
<1>2. col \in [1..n -> Int] /\ Len(col) = n /\ \A j \in 1..n : col[j] = rows[j][field]
  BY <1>1
<1>3. Total(col) \in Int /\ ((\A k \in 1..n : col[k] >= 0) => Total(col) >= 0 * n)
  BY <1>2, TotalFacts
<1>4. (\A j \in 1..n : rows[j][field] >= 0) => Total(col) >= 0
  BY <1>2, <1>3
<1>. QED  BY <1>2, <1>3, <1>4 DEF col

\* A percentile is one of the values, or there is none.
LEMMA PercentileTyped ==
    ASSUME NEW values \in Seq(Int), NEW p \in 1..100
    PROVE  Percentile(values, p) \in Int \cup {None}
<1>1. CASE values = <<>>
  BY <1>1 DEF Percentile
<1>2. CASE values # <<>>
  <2>1. Percentile(values, p) \in {values[j] : j \in DOMAIN values}
    BY <1>2, PercentileFacts
  <2>. QED  BY <2>1, SMTT(60)
<1>. QED  BY <1>1, <1>2

\* A summary of typed rows is typed.
LEMMA SummaryTyped ==
    ASSUME None \notin Int, NEW n \in Nat, NEW rows, DOMAIN rows = 1..n, Len(rows) = n,
           \A j \in 1..n : /\ rows[j].apr \in Int \cup {None} /\ rows[j].dd \in Int
                           /\ rows[j].pnl \in Int /\ rows[j].vsHold \in Int /\ rows[j].rebalances \in Nat
    PROVE  Summary(rows) \in Stats
<1>. DEFINE a == Aprs(rows)
<1>1. a \in Seq(Int)
  BY AprsFacts
<1>. DEFINE S == Int \cup {None}
            p05 == Percentile(a, 5)
            p50 == Percentile(a, 50)
            p95 == Percentile(a, 95)
<1>2. p05 \in S /\ p50 \in S /\ p95 \in S
  <2>1. 5 \in 1..100 /\ 50 \in 1..100 /\ 95 \in 1..100
    OBVIOUS
  <2>. HIDE DEF a
  <2>. QED  BY <1>1, <2>1, PercentileTyped
<1>3. Len(a) \in Nat /\ Total(a) \in Int
  <2>. HIDE DEF a
  <2>1. Len(a) \in Nat /\ a \in [1..Len(a) -> Int]
    BY <1>1
  <2>2. Total(a) \in Int
    <3>1. 0 \in Int
      OBVIOUS
    <3>. QED  BY <2>1, <3>1, TotalFacts
  <2>. QED  BY <2>1, <2>2
<1>4. Wins(rows) \in Nat
  <2>. DEFINE W == {j \in DOMAIN rows : rows[j].vsHold > 0}
  <2>1. W \subseteq 1..n /\ IsFiniteSet(1..n)
    BY FS_Interval
  <2>2. Wins(rows) = Cardinality(W)
    BY Zenon DEF Wins
  <2>. HIDE DEF W
  <2>. QED  BY <2>1, <2>2, SubsetCount
<1>5. ASSUME NEW field, \A j \in 1..n : rows[j][field] \in Int
      PROVE  /\ Total(Column(field, rows)) \in Int
             /\ (\A j \in 1..n : rows[j][field] >= 0) => Total(Column(field, rows)) >= 0
  BY <1>5, ColumnTotal
<1>6. Total(Column("pnl", rows)) \in Int /\ Total(Column("vsHold", rows)) \in Int
  <2>1. \A j \in 1..n : rows[j]["pnl"] \in Int /\ rows[j]["vsHold"] \in Int
    OBVIOUS
  <2>. QED  BY <1>5, <2>1
<1>7. Total(Column("rebalances", rows)) \in Nat
  <2>1. \A j \in 1..n : rows[j]["rebalances"] \in Int /\ rows[j]["rebalances"] >= 0
    OBVIOUS
  <2>2. Total(Column("rebalances", rows)) \in Int /\ Total(Column("rebalances", rows)) >= 0
    BY <1>5, <2>1
  <2>. QED  BY <2>2
<1>8. Worst("dd", rows) \in Nat
  <2>. DEFINE field == "dd"
  <2>1. \A j \in 1..n : rows[j][field] \in Int
    OBVIOUS
  <2>. HIDE DEF field
  <2>2. Worst(field, rows) \in Nat
    BY <2>1, WorstFacts
  <2>. QED  BY <2>2 DEF field
<1>. DEFINE pnl    == Total(Column("pnl", rows))
            vsHold == Total(Column("vsHold", rows))
            moved  == Total(Column("rebalances", rows))
            worst  == Worst("dd", rows)
            wins   == Wins(rows)
            total  == Total(a)
            many   == Len(a)
<1>9. Summary(rows) = [windows |-> n, wins |-> wins, pnl |-> pnl, vsHold |-> vsHold, aprs |-> many,
                       apr |-> total, p05 |-> p05, p50 |-> p50, p95 |-> p95, dd |-> worst,
                       rebalances |-> moved]
  BY DEF Summary
<1>10. /\ pnl \in Int /\ vsHold \in Int /\ moved \in Nat /\ worst \in Nat /\ wins \in Nat
       /\ total \in Int /\ many \in Nat
  BY <1>3, <1>4, <1>6, <1>7, <1>8
<1>. HIDE DEF pnl, vsHold, moved, worst, wins, total, many, p05, p50, p95
<1>. QED  BY <1>2, <1>9, <1>10 DEF Stats

\* The larger of two numbers.
LEMMA MaxOfTwo ==
    ASSUME NEW a \in Int, NEW b \in Int
    PROVE  Max({a, b}) \in {a, b} /\ Max({a, b}) \in Int /\ a <= Max({a, b}) /\ b <= Max({a, b})
<1>1. \E x \in {a, b} : \A y \in {a, b} : x >= y
  OBVIOUS
<1>2. Max({a, b}) = CHOOSE x \in {a, b} : \A y \in {a, b} : x >= y
  BY Zenon DEF Max
<1>3. Max({a, b}) \in {a, b} /\ \A y \in {a, b} : Max({a, b}) >= y
  BY <1>1, <1>2
<1>. QED  BY <1>3
=============================================================================
