---------------------------- MODULE NumberFacts ----------------------------
(***************************************************************************)
(* Facts about sets of naturals, and about folds over positions, that the  *)
(* proofs of this project share.                                           *)
(***************************************************************************)
EXTENDS Integers, FiniteSetsExt, WellFoundedInduction, TLAPS

\* A non-empty set of naturals has a least element.
LEMMA LeastNatural ==
    ASSUME NEW S, S \subseteq Nat, S # {}
    PROVE  \E m \in S : \A k \in S : m <= k
<1> DEFINE R == OpToRel(<, Nat)
<1>1. PICK m \in S : \A k \in S : ~ (<<k, m>> \in R)
    <2>1. IsWellFoundedOn(R, Nat)
        BY NatLessThanWellFounded
    <2> HIDE DEF R
    <2> QED BY <2>1, WFMin
<1>2. \A k \in S : k < m => <<k, m>> \in R
    BY DEF OpToRel
<1>3. m \in Nat /\ \A k \in S : k \in Nat
    OBVIOUS
<1> HIDE DEF R
<1>4. \A k \in S : ~ (k < m)
    BY <1>1, <1>2
<1> QED BY <1>3, <1>4

\* Max returns the greatest element of a bounded, non-empty set of naturals.
LEMMA MaxOfBounded ==
    ASSUME NEW b \in Nat, NEW S, S \subseteq 0..b, S # {}
    PROVE  Max(S) \in S /\ \A k \in S : k <= Max(S)
<1> DEFINE T == {b - k : k \in S}
<1>1. T \subseteq Nat
    OBVIOUS
<1>2. T # {}
    OBVIOUS
<1>3. PICK t \in T : \A k \in T : t <= k
    <2> HIDE DEF T
    <2> QED BY <1>1, <1>2, LeastNatural
<1>4. PICK m \in S : t = b - m
    OBVIOUS
<1>5. \A k \in S : b - m <= b - k
    BY <1>3, <1>4
<1>6. \A k \in S : m >= k
    BY <1>5
<1> QED BY <1>6 DEF Max

\* Min returns the least element of a non-empty set of naturals.
LEMMA MinOfNaturals ==
    ASSUME NEW S, S \subseteq Nat, S # {}
    PROVE  Min(S) \in S /\ \A k \in S : Min(S) <= k
BY LeastNatural DEF Min

\* Max and Min of two naturals.
LEMMA MaxOfTwo ==
    ASSUME NEW a \in Nat, NEW b \in Nat
    PROVE  Max({a, b}) = IF a > b THEN a ELSE b
<1>1. \E x \in {a, b} : \A y \in {a, b} : x >= y
    OBVIOUS
<1>2. Max({a, b}) \in {a, b} /\ \A y \in {a, b} : Max({a, b}) >= y
    BY <1>1 DEF Max
<1> QED BY <1>2

LEMMA MinOfTwo ==
    ASSUME NEW a \in Nat, NEW b \in Nat
    PROVE  Min({a, b}) = IF a < b THEN a ELSE b
<1>1. \E x \in {a, b} : \A y \in {a, b} : x =< y
    OBVIOUS
<1>2. Min({a, b}) \in {a, b} /\ \A y \in {a, b} : Min({a, b}) =< y
    BY <1>1 DEF Min
<1> QED BY <1>2
\* Among finitely many naturals there is a largest.
LEMMA LargestOf ==
    ASSUME NEW n \in Nat, NEW f, \A i \in 0..n : f[i] \in Nat
    PROVE  \E j \in 0..n : \A i \in 0..n : f[i] <= f[j]
<1> DEFINE Bad == {m \in 0..n : ~ \E j \in 0..m : \A i \in 0..m : f[i] <= f[j]}
<1>1. CASE Bad = {}
    BY <1>1
<1>2. CASE Bad # {}
    <2>0. Bad \in SUBSET Nat
        OBVIOUS
    <2>1. PICK m \in Bad : \A k \in Bad : m <= k
        <3> HIDE DEF Bad
        <3> QED BY <1>2, <2>0, LeastNatural
    <2>2. m \in 0..n /\ ~ \E j \in 0..m : \A i \in 0..m : f[i] <= f[j]
        BY <2>1
    <2>3. m # 0
        BY <2>2
    <2>4. m - 1 \in 0..n /\ m - 1 \notin Bad
        <3>1. m - 1 \in 0..n /\ ~ (m <= m - 1)
            BY <2>2, <2>3
        <3> HIDE DEF Bad
        <3> QED BY <2>1, <3>1
    <2>5. PICK j \in 0..(m - 1) : \A i \in 0..(m - 1) : f[i] <= f[j]
        BY <2>4
    <2>6. /\ j \in 0..m /\ m \in 0..m /\ f[j] \in Nat /\ f[m] \in Nat
          /\ \A i \in 0..m : (i \in 0..(m - 1) \/ i = m) /\ f[i] \in Nat
        BY <2>2, <2>3
    <2>7. CASE f[m] <= f[j]
        BY <2>2, <2>5, <2>6, <2>7
    <2>8. CASE ~ (f[m] <= f[j])
        <3>1. f[j] <= f[m]
            BY <2>6, <2>8
        <3>2. \A i \in 0..m : f[i] <= f[m]
            BY <2>5, <2>6, <3>1
        <3> QED BY <2>2, <2>6, <3>2
    <2> QED BY <2>7, <2>8
<1> QED BY <1>1, <1>2

----------------------------------------------------------------------------
(* Folds *)

\* What a fold from the left with step G builds: for a set of positions, the step at
\* the greatest of them on what the others give.
FoldsTo(it, V, b, m, G) ==
    /\ it \in [SUBSET (1..m) -> V] /\ it[{}] = b
    /\ \A s \in SUBSET (1..m) : s # {} => it[s] = G[<<it[s \ {Max(s)}], Max(s)>>]

LEMMA IterExists ==
    ASSUME NEW V, NEW b \in V, NEW m \in Nat, NEW G \in [V \X (1..m) -> V]
    PROVE  \E it : FoldsTo(it, V, b, m, G)
<1> DEFINE P(k, it) == FoldsTo(it, V, b, k, G)
           Bad == {k \in 0..m : ~ \E it : P(k, it)}
<1>1. \A k \in Nat : \A s \in SUBSET (1..k) : s # {} => Max(s) \in s /\ \A i \in s : i <= Max(s)
    <2> TAKE k \in Nat
    <2> TAKE s \in SUBSET (1..k)
    <2> HAVE s # {}
    <2>1. s \subseteq 0..k
        OBVIOUS
    <2> QED BY <2>1, MaxOfBounded
<1>2. P(0, [s \in SUBSET (1..0) |-> b])
    <2>1. 1..0 = {}
        OBVIOUS
    <2>2. \A s \in SUBSET (1..0) : s = {}
        BY <2>1
    <2> QED BY <2>2 DEF FoldsTo
<1>3. ASSUME NEW k \in 0..m, k + 1 <= m, NEW f, P(k, f) PROVE \E it : P(k + 1, it)
    <2> DEFINE g == [s \in SUBSET (1..(k + 1)) |->
                       IF k + 1 \in s THEN G[<<f[s \ {k + 1}], k + 1>>] ELSE f[s]]
    <2>1. \A s \in SUBSET (1..(k + 1)) : s \ {k + 1} \in SUBSET (1..k)
        OBVIOUS
    <2>2. \A s \in SUBSET (1..(k + 1)) : k + 1 \notin s => s \in SUBSET (1..k)
        OBVIOUS
    <2>3. f \in [SUBSET (1..k) -> V] /\ f[{}] = b
        BY <1>3 DEF FoldsTo
    <2>4. k + 1 \in 1..m
        BY <1>3
    <2>5. ASSUME NEW s \in SUBSET (1..(k + 1)) PROVE g[s] \in V
        <3>1. CASE k + 1 \in s
            <4>1. f[s \ {k + 1}] \in V
                BY <2>1, <2>3
            <4>2. <<f[s \ {k + 1}], k + 1>> \in V \X (1..m)
                BY <2>4, <4>1
            <4>3. G[<<f[s \ {k + 1}], k + 1>>] \in V
                BY <4>2
            <4> QED BY <3>1, <4>3
        <3>2. CASE k + 1 \notin s
            BY <2>2, <2>3, <3>2
        <3> QED BY <3>1, <3>2
    <2>6. g \in [SUBSET (1..(k + 1)) -> V]
        BY <2>5
    <2>7. g[{}] = b
        BY <2>3
    <2>8. ASSUME NEW s \in SUBSET (1..(k + 1)), s # {}
          PROVE  g[s] = G[<<g[s \ {Max(s)}], Max(s)>>]
        <3>0. Max(s) \in s /\ \A i \in s : i <= Max(s)
            <4>1. k + 1 \in Nat
                OBVIOUS
            <4> QED BY <1>1, <2>8, <4>1
        <3>1. CASE k + 1 \in s
            <4>1. Max(s) = k + 1
                <5>1. Max(s) \in 1..(k + 1) /\ k + 1 <= Max(s)
                    BY <3>0, <3>1
                <5> QED BY <5>1
            <4>2. g[s \ {k + 1}] = f[s \ {k + 1}]
                BY <2>1
            <4> QED BY <3>1, <4>1, <4>2
        <3>2. CASE k + 1 \notin s
            <4>1. s \in SUBSET (1..k)
                BY <2>2, <3>2
            <4>2. f[s] = G[<<f[s \ {Max(s)}], Max(s)>>]
                BY <1>3, <2>8, <4>1 DEF FoldsTo
            <4>3. g[s \ {Max(s)}] = f[s \ {Max(s)}] /\ g[s] = f[s]
                BY <3>2, <4>1
            <4> QED BY <4>2, <4>3
        <3> QED BY <3>1, <3>2
    <2> HIDE DEF g
    <2> QED BY <2>6, <2>7, <2>8 DEF FoldsTo
<1> HIDE DEF P
<1>4. Bad = {}
    <2> SUFFICES ASSUME Bad # {} PROVE FALSE
        OBVIOUS
    <2>1. Bad \subseteq Nat
        OBVIOUS
    <2>2. PICK k \in Bad : \A j \in Bad : k <= j
        <3> HIDE DEF Bad
        <3> QED BY <2>1, LeastNatural
    <2>3. k # 0
        BY <1>2
    <2>4. k - 1 \in 0..m /\ k - 1 \notin Bad /\ (k - 1) + 1 = k
        BY <2>2, <2>3
    <2>5. PICK f : P(k - 1, f)
        BY <2>4
    <2>6. \E it : P(k, it)
        BY <1>3, <2>4, <2>5
    <2> QED BY <2>6
<1>5. PICK it : P(m, it)
    BY <1>4
<1> QED BY <1>5 DEF P

\* Two functions of a number that start alike and go on alike are alike.
LEMMA SameTrace ==
    ASSUME NEW m \in Nat, NEW f, NEW g, f[0] = g[0],
           \A i \in 1..m : f[i - 1] = g[i - 1] => f[i] = g[i]
    PROVE  \A i \in 0..m : f[i] = g[i]
<1> DEFINE Bad == {i \in 0..m : f[i] # g[i]}
<1> SUFFICES ASSUME Bad # {} PROVE FALSE
    OBVIOUS
<1>1. Bad \subseteq Nat
    OBVIOUS
<1>2. PICK k \in Bad : \A j \in Bad : k <= j
    <2> HIDE DEF Bad
    <2> QED BY <1>1, LeastNatural
<1>3. k # 0
    OBVIOUS
<1>4. k \in 1..m /\ k - 1 \in 0..m /\ ~ (k <= k - 1)
    BY <1>3
<1>5. f[k - 1] = g[k - 1]
    BY <1>2, <1>4
<1> QED BY <1>4, <1>5

============================================================================
