----------------------------- MODULE StorageProofs -----------------------------
(***************************************************************************)
(* Proofs about Storage, for all keys, values, encoded lengths and bounds. *)
(* With every fault of the model: types, that open finds its files, that   *)
(* the recovery cursor covers what was flushed, that flushing and          *)
(* compaction are invisible, and that the engine reads what its files hold *)
(* whenever those are undamaged.                                           *)
(***************************************************************************)
EXTENDS Storage, NumberFacts, FiniteSetTheorems, SequenceTheorems, TLAPS

----------------------------------------------------------------------------
(* Numbers and finite sets *)

\* Max of finitely many naturals.
LEMMA MaxOfFinite ==
    ASSUME NEW S, S \subseteq Nat, S # {}, IsFiniteSet(S)
    PROVE  Max(S) \in S /\ \A k \in S : k <= Max(S)
<1>1. PICK n \in Nat : ExistsBijection(1..n, S)
    BY FS_NatBijection
<1>2. PICK g : g \in Bijection(1..n, S)
    BY <1>1 DEF ExistsBijection
<1>3. g \in [1..n -> S] /\ \A s \in S : \E i \in 1..n : g[i] = s
    BY <1>2 DEF Bijection, Surjection
<1>4. PICK z \in S : TRUE
    OBVIOUS
<1> DEFINE f == [i \in 0..n |-> IF i = 0 THEN z ELSE g[i]]
<1>5. \A i \in 0..n : f[i] \in S
    BY <1>3
<1>6. \A s \in S : \E i \in 0..n : f[i] = s
    <2> TAKE s \in S
    <2>1. PICK i \in 1..n : g[i] = s
        BY <1>3
    <2>2. i \in 0..n /\ i # 0
        OBVIOUS
    <2> QED BY <2>1, <2>2
<1> HIDE DEF f
<1>7. PICK j \in 0..n : \A i \in 0..n : f[i] <= f[j]
    <2>1. \A i \in 0..n : f[i] \in Nat
        BY <1>5
    <2> QED BY <2>1, LargestOf
<1>8. f[j] \in S /\ \A s \in S : s <= f[j]
    BY <1>5, <1>6, <1>7
<1>9. \E x \in S : \A y \in S : x >= y
    BY <1>8
<1>10. Max(S) \in S /\ \A y \in S : Max(S) >= y
    BY <1>9 DEF Max
<1> QED BY <1>10

\* The values a function takes on a finite set are finitely many.
LEMMA FiniteValues ==
    ASSUME NEW S, IsFiniteSet(S), NEW f, DOMAIN f = S, f = [x \in S |-> f[x]]
    PROVE  IsFiniteSet({f[x] : x \in S})
<1> DEFINE T == {f[x] : x \in S}
<1>1. f \in [S -> T]
    OBVIOUS
<1>2. \A t \in T : \E x \in S : f[x] = t
    OBVIOUS
<1>3. f \in Surjection(S, T)
    BY <1>1, <1>2 DEF Surjection
<1> HIDE DEF T
<1>4. IsFiniteSet(T)
    BY <1>3, FS_Surjection
<1> QED BY <1>4 DEF T

----------------------------------------------------------------------------
(* Tables and files *)

Whole == [op : Nat, key : Keys, val : Values \cup {None}]

LEMMA SlotNames == None # Absent /\ None \in Slots /\ Absent \in Slots
BY DEF None, Absent, Slots

LEMMA NoTableType == NoTable \in Tables /\ \A k \in Keys : NoTable[k] = Absent
BY SlotNames DEF NoTable, Tables

LEMMA KeysFinite == IsFiniteSet(Keys)
BY KeysAssumption

LEMMA FileSizeType ==
    ASSUME NEW t \in Tables
    PROVE  FileSize(t) \in Nat /\ FileSize(t) > 0
<1> DEFINE S == {k \in Keys : t[k] # Absent}
           f == [k \in S |-> {k} \X (1..Size[t[k]])]
           SS == {f[k] : k \in S}
<1>1. IsFiniteSet(S)
    BY KeysFinite, FS_Subset
<1>2. IsFiniteSet(SS)
    <2>1. DOMAIN f = S /\ f = [x \in S |-> f[x]]
        OBVIOUS
    <2> HIDE DEF S, f
    <2> QED BY <1>1, <2>1, FiniteValues
<1>3. \A k \in S : IsFiniteSet(f[k])
    <2> TAKE k \in S
    <2>1. t[k] \in Values \cup {None}
        BY DEF Tables, Slots
    <2>2. Size[t[k]] \in Nat
        BY <2>1, StorageBounds
    <2> DEFINE n == Size[t[k]]
    <2>3. IsFiniteSet(1..n)
        <3> HIDE DEF n
        <3>1. n \in Nat
            BY <2>2 DEF n
        <3> QED BY <3>1, FS_Interval
    <2>4. IsFiniteSet({k})
        BY FS_Singleton
    <2>5. IsFiniteSet({k} \X (1..n))
        <3> HIDE DEF n
        <3> QED BY <2>3, <2>4, FS_Product
    <2> QED BY <2>5
<1>4. Bytes(t) = UNION SS
    BY DEF Bytes
<1>5. IsFiniteSet(UNION SS)
    <2> HIDE DEF f
    <2>1. \A T \in SS : IsFiniteSet(T)
        BY <1>3
    <2> HIDE DEF SS
    <2> QED BY <1>2, <2>1, FS_UNION
<1>6. Cardinality(Bytes(t)) \in Nat
    <2> HIDE DEF SS
    <2> QED BY <1>4, <1>5, FS_CardinalityType
<1> QED BY <1>6 DEF FileSize

\* The keys of a set in order: each of them once.
LEMMA InOrderIs ==
    ASSUME NEW S, S \subseteq Keys
    PROVE  /\ Cardinality(S) \in Nat /\ InOrder(S) \in [1..Cardinality(S) -> S]
           /\ \A i, j \in 1..Cardinality(S) : InOrder(S)[i] = InOrder(S)[j] => i = j
           /\ \A k \in S : \E i \in 1..Cardinality(S) : InOrder(S)[i] = k
<1> DEFINE n == Cardinality(S)
           Upto(k) == {j \in S : j <= k}
           rank == [k \in S |-> Cardinality(Upto(k))]
<1>1. IsFiniteSet(S) /\ n \in Nat /\ S \subseteq Int
    BY KeysAssumption, KeysFinite, FS_Subset, FS_CardinalityType
<1>2. \A k \in S : IsFiniteSet(Upto(k)) /\ Cardinality(Upto(k)) \in 1..n
    <2> TAKE k \in S
    <2> DEFINE U == Upto(k)
    <2>1. U \in SUBSET S /\ k \in U
        BY <1>1
    <2> HIDE DEF U
    <2>2. IsFiniteSet(U) /\ Cardinality(U) <= n
        BY <1>1, <2>1, FS_Subset
    <2>3. Cardinality(U) \in Nat /\ Cardinality(U) # 0
        BY <2>1, <2>2, FS_CardinalityType, FS_EmptySet
    <2>4. IsFiniteSet(U) /\ Cardinality(U) \in 1..n
        BY <1>1, <2>2, <2>3
    <2> QED BY <2>4 DEF U
<1>3. \A k, l \in S : k < l => Cardinality(Upto(k)) < Cardinality(Upto(l))
    <2> TAKE k, l \in S
    <2> HAVE k < l
    <2> DEFINE A == Upto(k) B == Upto(l)
    <2>0. k \in Int /\ l \in Int /\ k < l /\ \A j \in S : j \in Int
        BY <1>1
    <2>1. A \in SUBSET B /\ l \in B /\ l \notin A
        <3>1. \A j \in Int : j <= k => j <= l
            BY <2>0
        <3>2. ~ (l <= k) /\ l <= l
            BY <2>0
        <3> QED BY <2>0, <3>1, <3>2
    <2>2. IsFiniteSet(B) /\ Cardinality(A) \in Nat /\ Cardinality(B) \in Nat
        BY <1>2
    <2> HIDE DEF A, B
    <2>3. Cardinality(A) <= Cardinality(B) /\ (Cardinality(B) = Cardinality(A) => B = A)
        BY <2>1, <2>2, FS_Subset
    <2>4. Cardinality(A) < Cardinality(B)
        BY <2>1, <2>2, <2>3
    <2> QED BY <2>4 DEF A, B
<1>4. rank \in Injection(S, 1..n)
    <2>1. rank \in [S -> 1..n]
        BY <1>2
    <2>2. \A k, l \in S : rank[k] = rank[l] => k = l
        <3> TAKE k, l \in S
        <3> HAVE rank[k] = rank[l]
        <3>1. k \in Int /\ l \in Int /\ (k < l \/ l < k \/ k = l)
            BY <1>1
        <3>2. rank[k] \in Nat /\ rank[l] \in Nat
            BY <1>2
        <3>3. (k < l => rank[k] < rank[l]) /\ (l < k => rank[l] < rank[k])
            BY <1>3
        <3> HIDE DEF rank
        <3> QED BY <3>1, <3>2, <3>3
    <2> HIDE DEF rank
    <2> QED BY <2>1, <2>2 DEF Injection, IsInjective
<1>5. \A k, l \in S : rank[k] < rank[l] => k < l
    <2> TAKE k, l \in S
    <2> HAVE rank[k] < rank[l]
    <2>1. k \in Int /\ l \in Int
        BY <1>1
    <2>2. rank[k] \in Nat /\ rank[l] \in Nat
        BY <1>2
    <2>3. l < k => rank[l] < rank[k]
        BY <1>3
    <2> HIDE DEF rank
    <2>4. k # l /\ ~ (l < k)
        BY <2>2, <2>3
    <2> QED BY <2>1, <2>4
<1> HIDE DEF rank
<1>6. \A i \in 1..n : \E k \in S : rank[k] = i
    <2>1. IsFiniteSet(1..n) /\ Cardinality(1..n) = n
        BY <1>1, FS_Interval
    <2>2. rank \in Surjection(S, 1..n)
        BY <1>1, <1>4, <2>1, FS_Injection
    <2> QED BY <2>2 DEF Surjection
<1>7. rank \in [S -> 1..n] /\ \A k, l \in S : rank[k] = rank[l] => k = l
    BY <1>4 DEF Injection, IsInjective
<1> DEFINE q == [i \in 1..n |-> CHOOSE k \in S : rank[k] = i]
<1>8. \A i \in 1..n : q[i] \in S /\ rank[q[i]] = i
    BY <1>6
<1>9. q \in [1..n -> S]
    BY <1>8
<1> HIDE DEF q
<1>10. \A i, j \in DOMAIN q : i < j => q[i] < q[j]
    BY <1>5, <1>8, <1>9
<1> DEFINE o == InOrder(S)
<1>11. o \in [1..n -> S] /\ \A i, j \in DOMAIN o : i < j => o[i] < o[j]
    <2>1. \E x \in [1..n -> S] : \A i, j \in DOMAIN x : i < j => x[i] < x[j]
        BY <1>9, <1>10
    <2> QED BY <2>1 DEF InOrder
<1> HIDE DEF o
<1>12. \A i, j \in 1..n : o[i] = o[j] => i = j
    <2> TAKE i, j \in 1..n
    <2> HAVE o[i] = o[j]
    <2>1. o[i] \in Int /\ o[j] \in Int /\ DOMAIN o = 1..n
        BY <1>1, <1>11
    <2>2. (i < j => o[i] < o[j]) /\ (j < i => o[j] < o[i])
        BY <1>11, <2>1
    <2>3. ~ (i < j) /\ ~ (j < i)
        BY <2>1, <2>2
    <2> QED BY <1>1, <2>3
<1>13. \A k \in S : \E i \in 1..n : o[i] = k
    <2>1. o \in Injection(1..n, S)
        BY <1>11, <1>12 DEF Injection, IsInjective
    <2>2. IsFiniteSet(1..n) /\ Cardinality(1..n) = n
        BY <1>1, FS_Interval
    <2>3. o \in Surjection(1..n, S)
        BY <1>1, <2>1, <2>2, FS_Injection
    <2> QED BY <2>3 DEF Surjection
<1> QED BY <1>1, <1>11, <1>12, <1>13 DEF o

LEMMA BoundsAre ==
    /\ MaxOp \in Nat /\ MaxSst \in Nat /\ MaxStops \in Nat /\ Names \subseteq Nat
    /\ Frames = Whole \cup {Torn} /\ Torn \notin Whole /\ Whole \subseteq Frames
<1>1. Torn \notin Whole
    BY SlotNames, ValuesAssumption DEF Torn, Whole
<1>2. MaxOp \in Nat /\ MaxSst \in Nat /\ MaxStops \in Nat
    BY StorageBounds
<1> QED BY <1>1, <1>2 DEF Names, Frames, Whole

\* What is replayed of a WAL: whole frames, from its beginning.
LEMMA ReplayedIs ==
    ASSUME NEW w \in Seq(Frames)
    PROVE  /\ Replayed(w) \in Seq(Whole) /\ Len(Replayed(w)) <= Len(w)
           /\ \A i \in 1..Len(Replayed(w)) : Replayed(w)[i] = w[i]
           /\ w \in Seq(Whole) => Replayed(w) = w
<1> DEFINE bad == {i \in DOMAIN w : w[i] = Torn}
           r == Replayed(w)
<1>1. Len(w) \in Nat /\ DOMAIN w = 1..Len(w) /\ \A i \in 1..Len(w) : w[i] \in Frames
    BY LenProperties, ElementOfSeq
<1>2. CASE bad = {}
    <2>1. r = w
        BY <1>2 DEF Replayed
    <2>2. \A i \in 1..Len(w) : w[i] \in Whole
        BY <1>1, <1>2, BoundsAre
    <2>3. w \in Seq(Whole)
        BY <1>1, <2>2, SeqDef
    <2> QED BY <1>1, <2>1, <2>3
<1>3. CASE bad # {}
    <2> DEFINE n == Min(bad) - 1
    <2>1. r = SubSeq(w, 1, n)
        BY <1>3 DEF Replayed
    <2>2. Min(bad) \in bad /\ \A k \in bad : Min(bad) <= k
        <3>1. bad \subseteq Nat
            BY <1>1
        <3> HIDE DEF bad
        <3> QED BY <1>3, <3>1, MinOfNaturals
    <2>3. n \in Nat /\ n < Len(w) /\ \A i \in 1..n : i \in DOMAIN w /\ i \notin bad
        <3>1. Min(bad) \in 1..Len(w)
            BY <1>1, <2>2
        <3>2. \A i \in 1..n : i \in 1..Len(w) /\ ~ (Min(bad) <= i)
            BY <1>1, <3>1
        <3> HIDE DEF bad
        <3> QED BY <1>1, <2>2, <3>1, <3>2
    <2>4. \A i \in 1..n : w[i] \in Whole
        BY <1>1, <2>3, BoundsAre
    <2> HIDE DEF n
    <2>5. r \in Seq(Whole) /\ Len(r) = n /\ \A i \in 1..n : r[i] = w[i]
        <3>1. /\ SubSeq(w, 1, n) \in Seq(Whole)
              /\ Len(SubSeq(w, 1, n)) = IF 1 <= n THEN n - 1 + 1 ELSE 0
              /\ \A i \in 1..n - 1 + 1 : SubSeq(w, 1, n)[i] = w[1 + i - 1]
            BY <2>3, <2>4, SubSeqProperties
        <3>2. n - 1 + 1 = n /\ (~ (1 <= n) => n = 0) /\ \A i \in 1..n : 1 + i - 1 = i
            BY <2>3
        <3> HIDE DEF r
        <3> QED BY <2>1, <3>1, <3>2
    <2>6. w \notin Seq(Whole)
        <3>1. w \in Seq(Whole) => \A i \in 1..Len(w) : w[i] \in Whole
            BY ElementOfSeq
        <3> QED BY <1>1, <1>3, <3>1, BoundsAre
    <2> HIDE DEF r
    <2> QED BY <1>1, <2>3, <2>5, <2>6 DEF r
<1> QED BY <1>2, <1>3

\* The table of a WAL: the last frame of a key decides.
LEMMA TableOfIs ==
    ASSUME NEW w \in Seq(Whole)
    PROVE  /\ TableOf(w) \in Tables
           /\ \A k \in Keys :
                \/ TableOf(w)[k] = Absent /\ \A i \in 1..Len(w) : w[i].key # k
                \/ \E i \in 1..Len(w) :
                      /\ w[i].key = k /\ TableOf(w)[k] = w[i].val
                      /\ \A j \in 1..Len(w) : j > i => w[j].key # k
<1>1. Len(w) \in Nat /\ DOMAIN w = 1..Len(w) /\ \A i \in 1..Len(w) : w[i] \in Whole
    BY LenProperties, ElementOfSeq
<1>2. ASSUME NEW k \in Keys
      PROVE  /\ TableOf(w)[k] \in Slots
             /\ \/ TableOf(w)[k] = Absent /\ \A i \in 1..Len(w) : w[i].key # k
                \/ \E i \in 1..Len(w) :
                      /\ w[i].key = k /\ TableOf(w)[k] = w[i].val
                      /\ \A j \in 1..Len(w) : j > i => w[j].key # k
    <2> DEFINE own == {i \in DOMAIN w : w[i].key = k}
    <2>1. TableOf(w)[k] = IF own = {} THEN Absent ELSE w[Max(own)].val
        BY DEF TableOf
    <2>2. CASE own = {}
        BY <1>1, <2>1, <2>2, SlotNames
    <2>3. CASE own # {}
        <3>1. Max(own) \in own /\ \A j \in own : j <= Max(own)
            <4>1. own \subseteq 0..Len(w)
                BY <1>1
            <4> HIDE DEF own
            <4> QED BY <1>1, <2>3, <4>1, MaxOfBounded
        <3>2. PICK i : i = Max(own)
            OBVIOUS
        <3>3. /\ i \in 1..Len(w) /\ w[i].key = k /\ TableOf(w)[k] = w[i].val
              /\ w[i].val \in Slots
            BY <1>1, <2>1, <2>3, <3>1, <3>2 DEF Whole, Slots
        <3>4. \A j \in 1..Len(w) : j > i => w[j].key # k
            <4> TAKE j \in 1..Len(w)
            <4> HAVE j > i
            <4>1. ~ (j <= i)
                BY <3>3
            <4> QED BY <1>1, <3>1, <3>2, <4>1
        <3> QED BY <3>3, <3>4
    <2> QED BY <2>2, <2>3
<1>3. TableOf(w) = [k \in Keys |-> TableOf(w)[k]]
    BY DEF TableOf
<1>4. TableOf(w) \in Tables
    BY <1>2, <1>3 DEF Tables
<1> QED BY <1>2, <1>4

LEMMA TopOfType ==
    ASSUME NEW w \in Seq(Whole)
    PROVE  TopOf(w) \in Nat
<1>1. Len(w) \in Nat /\ DOMAIN w = 1..Len(w) /\ \A i \in 1..Len(w) : w[i] \in Whole
    BY LenProperties, ElementOfSeq
<1> DEFINE D == DOMAIN w
           f == [i \in D |-> w[i].op]
           S == {f[i] : i \in D}
<1>2. IsFiniteSet(D)
    BY <1>1, FS_Interval
<1>3. DOMAIN f = D /\ f = [i \in D |-> f[i]]
    OBVIOUS
<1>4. IsFiniteSet(S)
    <2> HIDE DEF D, f
    <2> QED BY <1>2, <1>3, FiniteValues
<1>5. S \subseteq Nat /\ TopOf(w) = Max({0} \cup S)
    <2>1. {w[i].op : i \in DOMAIN w} = S
        OBVIOUS
    <2>2. S \subseteq Nat
        BY <1>1 DEF Whole
    <2> HIDE DEF S
    <2> QED BY <2>1, <2>2 DEF TopOf
<1> HIDE DEF S
<1>6. IsFiniteSet(S \cup {0})
    BY <1>4, FS_AddElement
<1>7. {0} \cup S = S \cup {0} /\ S \cup {0} \subseteq Nat /\ S \cup {0} # {}
    BY <1>5
<1>8. Max(S \cup {0}) \in S \cup {0}
    BY <1>6, <1>7, MaxOfFinite
<1> QED BY <1>5, <1>7, <1>8

\* Of a sequence of tables the last one that has the key decides.
LEMMA MergedIs ==
    ASSUME NEW ts \in Seq(Tables)
    PROVE  /\ Merged(ts) \in Tables
           /\ \A k \in Keys :
                \/ Merged(ts)[k] = Absent /\ \A i \in 1..Len(ts) : ts[i][k] = Absent
                \/ \E i \in 1..Len(ts) :
                      /\ ts[i][k] # Absent /\ Merged(ts)[k] = ts[i][k]
                      /\ \A j \in 1..Len(ts) : j > i => ts[j][k] = Absent
<1>1. Len(ts) \in Nat /\ DOMAIN ts = 1..Len(ts) /\ \A i \in 1..Len(ts) : ts[i] \in Tables
    BY LenProperties, ElementOfSeq
<1>2. ASSUME NEW k \in Keys
      PROVE  /\ Merged(ts)[k] \in Slots
             /\ \/ Merged(ts)[k] = Absent /\ \A i \in 1..Len(ts) : ts[i][k] = Absent
                \/ \E i \in 1..Len(ts) :
                      /\ ts[i][k] # Absent /\ Merged(ts)[k] = ts[i][k]
                      /\ \A j \in 1..Len(ts) : j > i => ts[j][k] = Absent
    <2> DEFINE having == {i \in DOMAIN ts : ts[i][k] # Absent}
    <2>1. Merged(ts)[k] = IF having = {} THEN Absent ELSE ts[Max(having)][k]
        BY DEF Merged, Newest
    <2>2. CASE having = {}
        BY <1>1, <2>1, <2>2, SlotNames
    <2>3. CASE having # {}
        <3>1. Max(having) \in having /\ \A j \in having : j <= Max(having)
            <4>1. having \subseteq 0..Len(ts)
                BY <1>1
            <4> HIDE DEF having
            <4> QED BY <1>1, <2>3, <4>1, MaxOfBounded
        <3>2. PICK i : i = Max(having)
            OBVIOUS
        <3>3. /\ i \in 1..Len(ts) /\ ts[i][k] # Absent /\ Merged(ts)[k] = ts[i][k]
              /\ ts[i][k] \in Slots
            BY <1>1, <2>1, <2>3, <3>1, <3>2 DEF Tables
        <3>4. \A j \in 1..Len(ts) : j > i => ts[j][k] = Absent
            <4> TAKE j \in 1..Len(ts)
            <4> HAVE j > i
            <4>1. ~ (j <= i)
                BY <3>3
            <4> QED BY <1>1, <3>1, <3>2, <4>1
        <3> QED BY <3>3, <3>4
    <2> QED BY <2>2, <2>3
<1>3. Merged(ts) = [k \in Keys |-> Merged(ts)[k]]
    BY DEF Merged
<1>4. Merged(ts) \in Tables
    BY <1>2, <1>3 DEF Tables
<1> QED BY <1>2, <1>4

LEMMA OverType ==
    ASSUME NEW b \in Tables, NEW t \in Tables
    PROVE  Over(b, t) \in Tables
BY DEF Over, Tables

LEMMA RetainType ==
    ASSUME NEW t \in Tables
    PROVE  Retain(t) \in Tables
BY SlotNames DEF Retain, Tables

LEMMA WrittenType ==
    ASSUME NEW f \in SsTableFile, NEW t \in Tables, NEW top \in Nat
    PROVE  /\ Written(f, t, top) \in SsTableFile
           /\ Written(f, t, top).table = t /\ Written(f, t, top).top = top
           /\ Opens(Written(f, t, top)) \/ Written(f, t, top).reused
<1>1. FileSize(t) \in Nat /\ FileSize(t) > 0 /\ f.len \in Nat
    BY FileSizeType DEF SsTableFile
<1>2. PICK n : n = FileSize(t)
    OBVIOUS
<1>3. Max({f.len, n}) = IF f.len > n THEN f.len ELSE n
    BY <1>1, <1>2, MaxOfTwo
<1>4. /\ Written(f, t, top) = [table |-> t, top |-> top, len |-> Max({f.len, n}),
                               reused |-> f.len > 0]
    BY <1>2 DEF Written
<1>5. Written(f, t, top) \in SsTableFile
    BY <1>1, <1>2, <1>3, <1>4 DEF SsTableFile
<1>6. Opens(Written(f, t, top)) \/ Written(f, t, top).reused
    <2>1. CASE f.len > 0
        <3> DEFINE b == f.len > 0
        <3>1. Written(f, t, top) = [table |-> t, top |-> top, len |-> Max({f.len, n}), reused |-> b]
            BY <1>4
        <3>2. b
            BY <2>1
        <3> HIDE DEF b
        <3>3. Written(f, t, top).reused = b
            BY <3>1
        <3> QED BY <3>2, <3>3
    <2>2. CASE ~ (f.len > 0)
        <3>1. Max({f.len, n}) = n
            BY <1>1, <1>2, <1>3, <2>2
        <3> QED BY <1>2, <1>4, <3>1 DEF Opens
    <2> QED BY <2>1, <2>2
<1> QED BY <1>4, <1>5, <1>6

LEMMA NoFileType == NoFile \in SsTableFile
BY NoTableType DEF NoFile, SsTableFile

LEMMA ManifestTypes ==
    ASSUME TypeOK
    PROVE  /\ DefaultManifest \in Manifests /\ read_manifest(man) \in Manifests
           /\ man.m \in Manifests
<1>1. DefaultManifest \in Manifests
    BY BoundsAre DEF DefaultManifest, Manifests
<1> QED BY <1>1 DEF read_manifest, TypeOK

LEMMA TablesOfType ==
    ASSUME TypeOK, NEW m \in Manifests
    PROVE  /\ TablesOf(m) \in Seq(Tables) /\ Len(TablesOf(m)) = Len(m.sstables)
           /\ Len(m.sstables) \in Nat /\ DOMAIN m.sstables = 1..Len(m.sstables)
           /\ \A i \in 1..Len(m.sstables) :
                 m.sstables[i] \in Names /\ TablesOf(m)[i] = ssts[m.sstables[i]].table
<1> DEFINE n == Len(m.sstables)
<1>1. m.sstables \in Seq(Names)
    BY DEF Manifests
<1>2. n \in Nat /\ DOMAIN m.sstables = 1..n /\ \A i \in 1..n : m.sstables[i] \in Names
    BY <1>1, LenProperties, ElementOfSeq
<1>3. \A i \in 1..n : ssts[m.sstables[i]].table \in Tables
    BY <1>2 DEF TypeOK, SsTableFile
<1>4. TablesOf(m) = [i \in 1..n |-> ssts[m.sstables[i]].table]
    BY <1>2 DEF TablesOf
<1>5. TablesOf(m) \in [1..n -> Tables]
    BY <1>3, <1>4
<1>6. TablesOf(m) \in Seq(Tables)
    BY <1>2, <1>5, SeqDef
<1>7. Len(TablesOf(m)) = n
    BY <1>2, <1>5, <1>6, LenProperties
<1> QED BY <1>2, <1>4, <1>6, <1>7

----------------------------------------------------------------------------
(* The invariants *)

\* Only an open engine is in the middle of something, and there is a name left
\* for the file it is writing.
StepInv ==
    /\ ~ up => step = "idle"
    /\ step \in {"flush_manifest", "compact_manifest", "compact_remove"} =>
          manifest.next_sst < MaxSst

\* The file the engine is about to put into the manifest.
NextFile == ssts[manifest.next_sst]

\* File f opens, or an interrupted flush had left it behind.
Intact(f) == Opens(f) \/ f.reused

\* Among files fs the names in manifest m are below the next one, their files are
\* intact and their operations not above c.
Sound(fs, m, c) ==
    \A n \in Range(m.sstables) : n < m.next_sst /\ Intact(fs[n]) /\ fs[n].top <= c

\* The manifest that compaction writes.
Compacted == [sstables |-> <<manifest.next_sst>>, next_sst |-> manifest.next_sst + 1,
              high_op |-> Cursor]

\* What recovery would read is sound, and so is what the engine works with; the
\* two are the same unless the manifest file cannot be read.
FileInv ==
    /\ Sound(ssts, read_manifest(man), read_manifest(man).high_op)
    /\ up => /\ mem_top <= high_op /\ Sound(ssts, manifest, high_op)
             /\ step # "compact_remove" => read_manifest(man) \in {manifest, DefaultManifest}
    /\ step \in {"flush_manifest", "compact_manifest", "compact_remove"} =>
          Intact(NextFile) /\ NextFile.top <= high_op
    /\ step = "compact_remove" => man.m = Compacted

\* What a step of flush or compaction has written is what it was to write.
TableInv ==
    /\ step = "flush_manifest" => NextFile.table = memtable
    /\ step = "flush_reset" => sstables # <<>> /\ sstables[Len(sstables)] = memtable
    /\ step \in {"compact_manifest", "compact_remove"} =>
          NextFile.table = Retain(Merged(sstables))

----------------------------------------------------------------------------
(* Types *)

LEMMA TypeInit == Init => TypeOK /\ StepInv
<1> SUFFICES ASSUME Init PROVE TypeOK /\ StepInv
    OBVIOUS
<1>1. wal \in Seq(Frames) /\ synced \in 0..Len(wal)
    BY DEF Init
<1>2. DefaultManifest \in Manifests
    BY BoundsAre DEF DefaultManifest, Manifests
<1>3. ssts \in [Names -> SsTableFile]
    BY NoFileType DEF Init
<1>4. memtable \in Tables /\ txn \in [op : Nat, table : Tables] /\ sstables \in Seq(Tables)
    BY NoTableType DEF Init, NoTxn
<1> QED BY <1>1, <1>2, <1>3, <1>4, BoundsAre DEF Init, TypeOK, StepInv

LEMMA NumberTypes ==
    ASSUME TypeOK
    PROVE  /\ Len(wal) \in Nat /\ synced \in Nat /\ synced <= Len(wal)
           /\ high_op \in Nat /\ mem_top \in Nat /\ last_op \in Nat
           /\ manifest.high_op \in Nat /\ manifest.next_sst \in Nat /\ man.len \in Nat
           /\ Cursor \in Nat /\ Cursor >= high_op /\ Cursor >= manifest.high_op
<1>1. wal \in Seq(Frames) /\ high_op \in Nat /\ mem_top \in Nat /\ last_op \in Nat
    BY BoundsAre DEF TypeOK
<1>2. Len(wal) \in Nat
    BY <1>1, LenProperties
<1>3. synced \in 0..Len(wal)
    BY DEF TypeOK
<1>4. manifest.high_op \in Nat /\ manifest.next_sst \in Nat /\ man.len \in Nat
    BY BoundsAre DEF TypeOK, Manifests
<1>5. PICK a : a = manifest.high_op
    OBVIOUS
<1>6. Max({high_op, a}) = IF high_op > a THEN high_op ELSE a
    BY <1>1, <1>4, <1>5, MaxOfTwo
<1>7. Cursor = Max({high_op, a})
    BY <1>5 DEF Cursor
<1>8. Cursor \in Nat /\ Cursor >= high_op /\ Cursor >= manifest.high_op
    BY <1>1, <1>4, <1>5, <1>6, <1>7
<1> QED BY <1>1, <1>2, <1>3, <1>4, <1>8

LEMMA TypeCommit ==
    ASSUME TypeOK, StepInv, NEW n \in 1..MaxOp, NEW k \in Keys, NEW v \in Values \cup {None},
           Commit(n, k, v), UNCHANGED autosync
    PROVE  TypeOK' /\ StepInv'
<1>1. v \in Slots /\ n \in Nat /\ n \in 0..MaxOp
    BY BoundsAre DEF Slots
<1>2. CASE txn # NoTxn /\ n = txn.op /\ txn' = [txn EXCEPT !.table[k] = v]
           /\ UNCHANGED <<disk, memtable, sstables, manifest, high_op, mem_top>>
    <2>1. txn' \in [op : Nat, table : Tables]
        BY <1>1, <1>2 DEF TypeOK, Tables
    <2> QED BY <1>1, <1>2, <2>1 DEF Commit, TypeOK, StepInv, disk
<1>3. CASE /\ wal' = Append(wal, Frame(n, k, v))
           /\ synced' = SyncedAfterCommit(wal')
           /\ memtable' = [memtable EXCEPT ![k] = v]
           /\ high_op' = Max({high_op, n})
           /\ mem_top' = Max({mem_top, n})
           /\ UNCHANGED <<man, ssts, sstables, manifest, txn>>
    <2>1. Frame(n, k, v) \in Frames
        BY <1>1 DEF Frame, Frames
    <2>2. wal' \in Seq(Frames) /\ Len(wal') = Len(wal) + 1
        BY <1>3, <2>1, AppendProperties DEF TypeOK
    <2>3. synced' \in 0..Len(wal')
        <3>1. synced' = Len(wal') \/ synced' = synced
            BY <1>3 DEF SyncedAfterCommit
        <3> QED BY <2>2, <3>1, NumberTypes
    <2>4. memtable' \in Tables
        BY <1>1, <1>3 DEF TypeOK, Tables
    <2>5. high_op' \in Nat /\ mem_top' \in Nat
        BY <1>1, <1>3, NumberTypes, MaxOfTwo
    <2> QED BY <1>1, <1>3, <2>2, <2>3, <2>4, <2>5 DEF Commit, TypeOK, StepInv
<1> QED BY <1>2, <1>3 DEF Commit

LEMMA TypeTxn ==
    ASSUME TypeOK, StepInv, Sync \/ BeginTxn \/ AbortTxn \/ SyncTxn, UNCHANGED autosync
    PROVE  TypeOK' /\ StepInv'
<1>1. CASE Sync
    <2>1. synced' \in 0..Len(wal')
        BY <1>1, NumberTypes DEF Sync
    <2> QED BY <1>1, <2>1 DEF Sync, TypeOK, StepInv, memory
<1>2. CASE BeginTxn
    <2>1. txn' \in [op : Nat, table : Tables]
        BY <1>2, NumberTypes, NoTableType DEF BeginTxn
    <2> QED BY <1>2, <2>1 DEF BeginTxn, TypeOK, StepInv, disk
<1>3. CASE AbortTxn
    <2>1. txn' \in [op : Nat, table : Tables]
        BY <1>3, NoTableType DEF AbortTxn, NoTxn
    <2> QED BY <1>3, <2>1 DEF AbortTxn, TypeOK, StepInv, disk
<1>4. CASE SyncTxn
    <2>1. txn' \in [op : Nat, table : Tables]
        BY <1>4, NoTableType DEF SyncTxn, NoTxn
    <2>2. synced' \in 0..Len(wal')
        BY <1>4, NumberTypes DEF SyncTxn
    <2>3. memtable' \in Tables
        <3>1. txn.table \in Tables /\ memtable \in Tables
            BY DEF TypeOK
        <3> QED BY <1>4, <3>1, OverType DEF SyncTxn
    <2> QED BY <1>4, <2>1, <2>2, <2>3 DEF SyncTxn, TypeOK, StepInv
<1> QED BY <1>1, <1>2, <1>3, <1>4

\* The frames of a transaction.
Batch(op, t) ==
    LET order == InOrder({k \in Keys : t[k] # Absent})
    IN  [i \in DOMAIN order |-> Frame(op, order[i], t[order[i]])]

LEMMA BatchIs ==
    ASSUME NEW op \in Nat, NEW t \in Tables
    PROVE  /\ Batch(op, t) \in Seq(Whole)
           /\ \A i \in 1..Len(Batch(op, t)) :
                 Batch(op, t)[i].val = t[Batch(op, t)[i].key] /\ Batch(op, t)[i].val # Absent
           /\ \A k \in Keys : t[k] # Absent => \E i \in 1..Len(Batch(op, t)) : Batch(op, t)[i].key = k
<1> DEFINE S == {k \in Keys : t[k] # Absent}
           n == Cardinality(S)
           order == InOrder(S)
           b == Batch(op, t)
<1>1. S \subseteq Keys
    OBVIOUS
<1>2. /\ n \in Nat /\ order \in [1..n -> S]
      /\ \A k \in S : \E i \in 1..n : order[i] = k
    <2> HIDE DEF S
    <2> QED BY <1>1, InOrderIs
<1>3. b = [i \in 1..n |-> Frame(op, order[i], t[order[i]])]
    BY <1>2 DEF Batch
<1>4. \A k \in S : t[k] \in Values \cup {None} /\ t[k] # Absent /\ k \in Keys
    BY DEF Tables, Slots
<1> HIDE DEF order
<1>5. \A i \in 1..n : /\ order[i] \in S /\ b[i] = Frame(op, order[i], t[order[i]])
    BY <1>2, <1>3
<1> HIDE DEF S
<1>6. \A i \in 1..n : /\ b[i] \in Whole /\ b[i].key = order[i] /\ b[i].val = t[order[i]]
                      /\ b[i].val # Absent
    <2> TAKE i \in 1..n
    <2>1. PICK k : k = order[i]
        OBVIOUS
    <2>2. k \in S /\ b[i] = Frame(op, k, t[k])
        BY <1>5, <2>1
    <2>3. Frame(op, k, t[k]) \in Whole
        BY <1>4, <2>2 DEF Frame, Whole
    <2>4. Frame(op, k, t[k]).key = k /\ Frame(op, k, t[k]).val = t[k]
        BY DEF Frame
    <2> QED BY <1>4, <2>1, <2>2, <2>3, <2>4
<1> HIDE DEF b
<1>7. b \in [1..n -> Whole]
    BY <1>3, <1>6
<1>8. b \in Seq(Whole) /\ Len(b) = n
    <2>1. b \in Seq(Whole)
        BY <1>2, <1>7, SeqDef
    <2> QED BY <1>2, <1>7, <2>1, LenProperties
<1>9. \A k \in Keys : t[k] # Absent => \E i \in 1..n : b[i].key = k
    <2> TAKE k \in Keys
    <2> HAVE t[k] # Absent
    <2>1. k \in S
        BY DEF S
    <2> QED BY <1>2, <1>6, <2>1
<1> QED BY <1>6, <1>8, <1>9 DEF b

LEMMA TypeAppendTxn ==
    ASSUME TypeOK, StepInv, AppendTxn, UNCHANGED autosync
    PROVE  /\ TypeOK' /\ StepInv' /\ wal' = wal \o Batch(txn.op, txn.table)
<1>1. txn.op \in Nat /\ txn.table \in Tables /\ wal \in Seq(Frames)
    BY DEF TypeOK
<1>2. wal' = wal \o Batch(txn.op, txn.table)
    BY DEF AppendTxn, Batch
<1>3. PICK b : b = Batch(txn.op, txn.table)
    OBVIOUS
<1>4. b \in Seq(Frames)
    <2>1. b \in Seq(Whole)
        BY <1>1, <1>3, BatchIs
    <2> QED BY <2>1, BoundsAre, SeqMonotonic
<1>5. wal' \in Seq(Frames) /\ Len(wal') = Len(wal) + Len(b) /\ Len(b) \in Nat
    BY <1>1, <1>2, <1>3, <1>4, ConcatProperties, LenProperties
<1>6. synced' \in 0..Len(wal')
    <2>1. synced' = synced
        BY DEF AppendTxn
    <2> QED BY <1>5, <2>1, NumberTypes
<1>7. step' = "commit_txn" /\ UNCHANGED <<man, ssts, up, memory, last_op, stops>>
    BY DEF AppendTxn
<1>8. up
    BY DEF AppendTxn, Idle
<1>9. TypeOK'
    BY <1>5, <1>6, <1>7 DEF TypeOK, memory
<1> QED BY <1>2, <1>7, <1>8, <1>9 DEF StepInv

LEMMA TypeFlush ==
    ASSUME TypeOK, StepInv, WriteSsTable \/ FlushManifest \/ ResetWal, UNCHANGED autosync
    PROVE  TypeOK' /\ StepInv'
<1>0. \A n \in Names : ssts[n] \in SsTableFile
    BY DEF TypeOK
<1>1. CASE WriteSsTable
    <2>1. PICK n : n = manifest.next_sst
        OBVIOUS
    <2>2. n \in Names
        BY <1>1, <2>1, NumberTypes, BoundsAre DEF WriteSsTable, Names
    <2>3. Written(ssts[n], memtable, mem_top) \in SsTableFile
        BY <1>0, <2>2, WrittenType DEF TypeOK
    <2>4. ssts' = [ssts EXCEPT ![n] = Written(ssts[n], memtable, mem_top)]
        BY <1>1, <2>1 DEF WriteSsTable
    <2>5. ssts' \in [Names -> SsTableFile]
        BY <2>3, <2>4 DEF TypeOK
    <2>6. /\ step' = "flush_manifest" /\ manifest.next_sst < MaxSst /\ up
          /\ UNCHANGED <<wal, synced, man, up, memory, last_op, stops>>
        BY <1>1 DEF WriteSsTable, Idle
    <2> QED BY <2>5, <2>6 DEF TypeOK, StepInv, memory
<1>2. CASE FlushManifest
    <2>1. PICK n : n = manifest.next_sst
        OBVIOUS
    <2>2. n \in Names /\ n + 1 \in 0..MaxSst
        BY <1>2, <2>1, NumberTypes, BoundsAre DEF FlushManifest, StepInv, Names
    <2>3. PICK q : q = Append(manifest.sstables, n)
        OBVIOUS
    <2>4. q \in Seq(Names) /\ Len(q) \in Nat
        <3>1. manifest.sstables \in Seq(Names)
            BY DEF TypeOK, Manifests
        <3>2. q \in Seq(Names)
            BY <2>2, <2>3, <3>1, AppendProperties
        <3> QED BY <3>2, LenProperties
    <2>5. /\ manifest' = [sstables |-> q, next_sst |-> n + 1, high_op |-> Cursor]
          /\ man' = [m |-> manifest', len |-> Max({man.len, Len(q)}), ok |-> TRUE]
        BY <1>2, <2>1, <2>3 DEF FlushManifest, write_manifest
    <2>6. manifest' \in Manifests
        BY <2>2, <2>4, <2>5, NumberTypes DEF Manifests
    <2>7. Max({man.len, Len(q)}) \in Nat
        BY <2>4, NumberTypes, MaxOfTwo
    <2>8. man' \in [m : Manifests, len : Nat, ok : BOOLEAN]
        BY <2>5, <2>6, <2>7
    <2>9. sstables' \in Seq(Tables)
        <3>1. sstables' = sstables \/ sstables' = Append(sstables, ssts[n].table)
            BY <1>2, <2>1 DEF FlushManifest
        <3>2. ssts[n].table \in Tables /\ sstables \in Seq(Tables)
            BY <1>0, <2>2 DEF SsTableFile, TypeOK
        <3> QED BY <3>1, <3>2, AppendProperties
    <2>10. /\ step' \in {"flush_reset", "idle"} /\ up
           /\ UNCHANGED <<wal, synced, ssts, up, memtable, high_op, txn, mem_top, last_op, stops>>
        BY <1>2 DEF FlushManifest
    <2> QED BY <2>6, <2>8, <2>9, <2>10 DEF TypeOK, StepInv
<1>3. CASE ResetWal
    <2>1. wal' \in Seq(Frames) /\ synced' \in 0..Len(wal')
        BY <1>3 DEF ResetWal
    <2>2. /\ step' \in {"compact", "idle"} /\ up /\ memtable' = NoTable /\ mem_top' = 0
          /\ UNCHANGED <<man, ssts, up, sstables, manifest, high_op, txn, last_op, stops>>
        BY <1>3 DEF ResetWal
    <2> QED BY <2>1, <2>2, NoTableType DEF TypeOK, StepInv
<1> QED BY <1>1, <1>2, <1>3

\* The highest operation of the files a manifest names.
TopIn(m) == Max({0} \cup {ssts[n].top : n \in Range(m.sstables)})

LEMMA TopInIs ==
    ASSUME TypeOK, NEW m \in Manifests
    PROVE  /\ Range(m.sstables) \subseteq Names
           /\ TopIn(m) \in Nat
           /\ TopIn(m) = 0 \/ \E n \in Range(m.sstables) : TopIn(m) = ssts[n].top
<1> DEFINE R == Range(m.sstables)
           f == [n \in R |-> ssts[n].top]
           S == {f[n] : n \in R}
<1>1. R \subseteq Names
    BY TablesOfType DEF Range
<1>2. IsFiniteSet(R)
    <2>1. IsFiniteSet(Names)
        BY BoundsAre, FS_Interval DEF Names
    <2> HIDE DEF R
    <2> QED BY <1>1, <2>1, FS_Subset
<1>3. IsFiniteSet(S)
    <2>1. DOMAIN f = R /\ f = [n \in R |-> f[n]]
        OBVIOUS
    <2> HIDE DEF R, f
    <2> QED BY <1>2, <2>1, FiniteValues
<1>4. S = {ssts[n].top : n \in R} /\ S \subseteq Nat
    BY <1>1 DEF TypeOK, SsTableFile
<1>5. \A x \in S : \E n \in R : x = ssts[n].top
    OBVIOUS
<1>6. TopIn(m) = Max({0} \cup S)
    BY <1>4 DEF TopIn
<1> HIDE DEF S, R
<1>7. IsFiniteSet(S \cup {0}) /\ {0} \cup S = S \cup {0} /\ S \cup {0} \subseteq Nat
    <2>1. IsFiniteSet(S \cup {0})
        BY <1>3, FS_AddElement
    <2>2. {0} \cup S = S \cup {0} /\ S \cup {0} \subseteq Nat
        BY <1>4
    <2> QED BY <2>1, <2>2
<1>8. Max(S \cup {0}) \in S \cup {0}
    BY <1>7, MaxOfFinite
<1>9. TopIn(m) \in Nat /\ (TopIn(m) = 0 \/ TopIn(m) \in S)
    BY <1>4, <1>6, <1>7, <1>8
<1> QED BY <1>1, <1>5, <1>9 DEF R

LEMMA TypeCompact ==
    ASSUME TypeOK, StepInv, WriteMerged \/ SkipCompact \/ CompactManifest \/ RemoveOld,
           UNCHANGED autosync
    PROVE  TypeOK' /\ StepInv'
<1>0. \A n \in Names : ssts[n] \in SsTableFile
    BY DEF TypeOK
<1>1. CASE WriteMerged
    <2>1. PICK n : n = manifest.next_sst
        OBVIOUS
    <2>2. n \in Names
        BY <1>1, <2>1, NumberTypes, BoundsAre DEF WriteMerged, Names
    <2>3. PICK t : t = Retain(Merged(sstables))
        OBVIOUS
    <2>4. t \in Tables
        BY <2>3, MergedIs, RetainType DEF TypeOK
    <2>5. Written(ssts[n], t, TopIn(manifest)) \in SsTableFile
        <3>1. TopIn(manifest) \in Nat
            BY TopInIs DEF TypeOK
        <3> QED BY <1>0, <2>2, <2>4, <3>1, WrittenType
    <2>6. ssts' = [ssts EXCEPT ![n] = Written(ssts[n], t, TopIn(manifest))]
        BY <1>1, <2>1, <2>3 DEF WriteMerged, TopIn
    <2>7. ssts' \in [Names -> SsTableFile]
        BY <2>5, <2>6 DEF TypeOK
    <2>8. /\ step' = "compact_manifest" /\ manifest.next_sst < MaxSst /\ up
          /\ UNCHANGED <<wal, synced, man, up, memory, last_op, stops>>
        BY <1>1 DEF WriteMerged
    <2> QED BY <2>7, <2>8 DEF TypeOK, StepInv, memory
<1>2. CASE SkipCompact
    BY <1>2 DEF SkipCompact, TypeOK, StepInv, disk, memory
<1>3. CASE CompactManifest
    <2>1. PICK n : n = manifest.next_sst
        OBVIOUS
    <2>2. n \in Names /\ n + 1 \in 0..MaxSst
        BY <1>3, <2>1, NumberTypes, BoundsAre DEF CompactManifest, StepInv, Names
    <2>3. <<n>> \in Seq(Names) /\ Len(<<n>>) = 1
        BY <2>2
    <2>4. man' = [m |-> [sstables |-> <<n>>, next_sst |-> n + 1, high_op |-> Cursor],
                  len |-> Max({man.len, Len(<<n>>)}), ok |-> TRUE]
        BY <1>3, <2>1 DEF CompactManifest, write_manifest
    <2>5. Max({man.len, Len(<<n>>)}) \in Nat
        BY <2>3, NumberTypes, MaxOfTwo
    <2>6. man'.m \in Manifests
        BY <2>2, <2>3, <2>4, NumberTypes DEF Manifests
    <2>7. man' \in [m : Manifests, len : Nat, ok : BOOLEAN]
        BY <2>4, <2>5, <2>6
    <2>8. /\ step' = "compact_remove" /\ up /\ manifest.next_sst < MaxSst
          /\ UNCHANGED <<wal, synced, ssts, up, memory, last_op, stops>>
        BY <1>3 DEF CompactManifest, StepInv
    <2> QED BY <2>7, <2>8 DEF TypeOK, StepInv, memory
<1>4. CASE RemoveOld
    <2>1. PICK n : n = manifest.next_sst
        OBVIOUS
    <2>2. n \in Names
        BY <1>4, <2>1, NumberTypes, BoundsAre DEF RemoveOld, StepInv, Names
    <2>3. ssts' \in [Names -> SsTableFile]
        BY <1>0, <1>4, NoFileType DEF RemoveOld
    <2>4. sstables' \in Seq(Tables)
        <3>1. ssts'[n].table \in Tables
            BY <2>2, <2>3 DEF SsTableFile
        <3>2. sstables' = sstables \/ sstables' = <<ssts'[n].table>>
            BY <1>4, <2>1 DEF RemoveOld
        <3>3. sstables \in Seq(Tables)
            BY DEF TypeOK
        <3>4. PICK x : x = ssts'[n].table
            OBVIOUS
        <3>5. x \in Tables
            BY <3>1, <3>4
        <3>6. <<x>> \in Seq(Tables)
            BY <3>5
        <3> QED BY <3>2, <3>3, <3>4, <3>6
    <2>5. manifest' \in Manifests
        BY <1>4, ManifestTypes DEF RemoveOld
    <2>6. /\ step' = "idle" /\ up
          /\ UNCHANGED <<wal, synced, man, up, memtable, high_op, txn, mem_top, last_op, stops>>
        BY <1>4 DEF RemoveOld
    <2> QED BY <2>3, <2>4, <2>5, <2>6 DEF TypeOK, StepInv
<1> QED BY <1>1, <1>2, <1>3, <1>4

LEMMA PrefixOfWal ==
    ASSUME TypeOK, NEW n \in 0..Len(wal)
    PROVE  /\ SubSeq(wal, 1, n) \in Seq(Frames) /\ Len(SubSeq(wal, 1, n)) = n
           /\ \A i \in 1..n : SubSeq(wal, 1, n)[i] = wal[i]
<1>1. Len(wal) \in Nat /\ n \in Nat /\ \A i \in 1..n : wal[i] \in Frames
    <2>1. wal \in Seq(Frames)
        BY DEF TypeOK
    <2>2. Len(wal) \in Nat
        BY NumberTypes
    <2>3. n \in Nat /\ \A i \in 1..n : i \in 1..Len(wal)
        BY <2>2
    <2> QED BY <2>1, <2>2, <2>3, ElementOfSeq
<1>2. /\ SubSeq(wal, 1, n) \in Seq(Frames)
      /\ Len(SubSeq(wal, 1, n)) = IF 1 <= n THEN n - 1 + 1 ELSE 0
      /\ \A i \in 1..n - 1 + 1 : SubSeq(wal, 1, n)[i] = wal[1 + i - 1]
    BY <1>1, SubSeqProperties
<1>3. n - 1 + 1 = n /\ (~ (1 <= n) => n = 0) /\ \A i \in 1..n : 1 + i - 1 = i
    BY <1>1
<1> QED BY <1>2, <1>3

LEMMA TypeStops ==
    ASSUME TypeOK, StepInv, Crash \/ Exit, UNCHANGED autosync
    PROVE  TypeOK' /\ StepInv'
<1>1. /\ up' = FALSE /\ stops' = stops + 1 /\ stops < MaxStops
      /\ memtable' = NoTable /\ mem_top' = 0 /\ sstables' = <<>>
      /\ manifest' = DefaultManifest /\ high_op' = 0
      /\ txn' = NoTxn /\ step' = "idle" /\ last_op' = last_op
    BY DEF Crash, Exit, Stop
<1>2. memtable' \in Tables /\ sstables' \in Seq(Tables) /\ txn' \in [op : Nat, table : Tables]
    BY <1>1, NoTableType DEF NoTxn
<1>3. manifest' \in Manifests /\ stops' \in 0..MaxStops
    BY <1>1, ManifestTypes, BoundsAre DEF TypeOK
<1>4. CASE Exit
    BY <1>1, <1>2, <1>3, <1>4 DEF Exit, TypeOK, StepInv, disk
<1>5. CASE Crash
    <2>1. PICK kept \in (IF PartialTail THEN synced .. Len(wal) ELSE {synced}) :
             \/ wal' = SubSeq(wal, 1, kept)
             \/ wal' = Append(SubSeq(wal, 1, kept), Torn)
        BY <1>5 DEF Crash
    <2>2. kept \in 0..Len(wal)
        BY <2>1, NumberTypes
    <2>3. SubSeq(wal, 1, kept) \in Seq(Frames)
        BY <2>2, PrefixOfWal
    <2>4. wal' \in Seq(Frames)
        <3>1. Torn \in Frames
            BY BoundsAre
        <3> QED BY <2>1, <2>3, <3>1, AppendProperties
    <2>5. synced' \in 0..Len(wal')
        <3>1. synced' = Len(wal')
            BY <1>5 DEF Crash
        <3> QED BY <2>4, <3>1, LenProperties
    <2>6. man' \in [m : Manifests, len : Nat, ok : BOOLEAN]
        BY <1>5 DEF Crash, TearManifest, TypeOK
    <2>7. ssts' = ssts
        BY <1>5 DEF Crash
    <2> QED BY <1>1, <1>2, <1>3, <2>4, <2>5, <2>6, <2>7 DEF TypeOK, StepInv
<1> QED BY <1>4, <1>5

LEMMA TypeOpen ==
    ASSUME TypeOK, StepInv, Open, UNCHANGED autosync
    PROVE  /\ TypeOK' /\ StepInv' /\ TopOf(Replayed(wal)) \in Nat
           /\ high_op' >= read_manifest(man).high_op /\ high_op' >= mem_top'
<1>1. PICK m : m = read_manifest(man)
    OBVIOUS
<1>2. m \in Manifests
    BY <1>1, ManifestTypes
<1>3. PICK w : w = Replayed(wal)
    OBVIOUS
<1>4. w \in Seq(Whole)
    BY <1>3, ReplayedIs DEF TypeOK
<1>5. /\ up' = TRUE /\ manifest' = m /\ sstables' = TablesOf(m)
      /\ memtable' = TableOf(w) /\ mem_top' = TopOf(w)
      /\ high_op' = Max({m.high_op, TopOf(w)})
      /\ txn' = NoTxn /\ step' = "idle" /\ UNCHANGED <<disk, last_op, stops>>
    BY <1>1, <1>3 DEF Open, Recovered
<1>6. sstables' \in Seq(Tables)
    BY <1>2, <1>5, TablesOfType
<1>7. memtable' \in Tables /\ mem_top' \in Nat /\ txn' \in [op : Nat, table : Tables]
    BY <1>4, <1>5, TableOfIs, TopOfType, NoTableType DEF NoTxn
<1>8. high_op' \in Nat /\ high_op' >= m.high_op /\ high_op' >= mem_top'
    <2>1. m.high_op \in Nat /\ TopOf(w) \in Nat
        BY <1>2, <1>4, TopOfType DEF Manifests
    <2>2. PICK a, b : a = m.high_op /\ b = TopOf(w)
        OBVIOUS
    <2>3. Max({a, b}) = IF a > b THEN a ELSE b
        BY <2>1, <2>2, MaxOfTwo
    <2> QED BY <1>5, <2>1, <2>2, <2>3
<1>9. TypeOK' /\ StepInv'
    BY <1>2, <1>5, <1>6, <1>7, <1>8 DEF TypeOK, StepInv, disk
<1> QED BY <1>1, <1>3, <1>4, <1>8, <1>9, TopOfType

LEMMA TypeStep ==
    ASSUME TypeOK, StepInv, [Next]_vars
    PROVE  TypeOK' /\ StepInv'
<1>1. CASE UNCHANGED vars
    BY <1>1 DEF vars, disk, memory, TypeOK, StepInv
<1>2. CASE Next
    BY <1>2, TypeCommit, TypeTxn, TypeAppendTxn, TypeFlush, TypeCompact, TypeStops, TypeOpen
       DEF Next
<1> QED BY <1>1, <1>2

(* Every reachable state has the types of the files and of struct Storage,   *)
(* torn manifests and logs, reused files and failed flushes included, and    *)
(* flush and compaction never run out of the names they reserved.            *)
THEOREM TypeCorrect == Spec => [](TypeOK /\ StepInv)
<1>1. Init => TypeOK /\ StepInv
    BY TypeInit
<1>2. TypeOK /\ StepInv /\ [Next]_vars => (TypeOK /\ StepInv)'
    BY TypeStep
<1> QED BY <1>1, <1>2, PTL DEF Spec

----------------------------------------------------------------------------
(* Files *)

LEMMA SoundDefault == \A fs, c : Sound(fs, DefaultManifest, c)
BY DEF Sound, DefaultManifest, Range

LEMMA SoundRaised ==
    ASSUME NEW fs \in [Names -> SsTableFile], NEW m \in Manifests, Range(m.sstables) \subseteq Names,
           NEW c \in Nat, NEW d \in Nat, c <= d, Sound(fs, m, c)
    PROVE  Sound(fs, m, d)
<1>1. \A n \in Names : fs[n].top \in Nat
    BY DEF SsTableFile
<1> QED BY <1>1 DEF Sound

\* A file the manifest does not name may change.
LEMMA SoundElsewhere ==
    ASSUME NEW fs, NEW gs, NEW m, NEW c, Sound(fs, m, c),
           \A n \in Range(m.sstables) : gs[n] = fs[n]
    PROVE  Sound(gs, m, c)
BY DEF Sound

\* What read_manifest makes of a manifest file that was written whole.
LEMMA ReadsWritten ==
    ASSUME NEW m, NEW l, NEW o
    PROVE  read_manifest([m |-> m, len |-> l, ok |-> o]) \in {m, DefaultManifest}
BY DEF read_manifest

LEMMA RangeAppend ==
    ASSUME NEW S, NEW q \in Seq(S), NEW x \in S
    PROVE  Range(Append(q, x)) = Range(q) \cup {x}
<1>1. /\ Append(q, x) \in Seq(S) /\ Len(Append(q, x)) = Len(q) + 1 /\ Len(q) \in Nat
      /\ \A i \in 1..Len(q) : Append(q, x)[i] = q[i]
      /\ Append(q, x)[Len(q) + 1] = x
    BY AppendProperties, LenProperties
<1>2. DOMAIN Append(q, x) = 1..Len(q) + 1 /\ DOMAIN q = 1..Len(q)
    BY <1>1, LenProperties
<1>3. \A i \in 1..Len(q) + 1 : i \in 1..Len(q) \/ i = Len(q) + 1
    BY <1>1
<1>4. Len(q) + 1 \in 1..Len(q) + 1 /\ \A i \in 1..Len(q) : i \in 1..Len(q) + 1
    BY <1>1
<1> QED BY <1>1, <1>2, <1>3, <1>4 DEF Range

LEMMA FileInit == Init => FileInv /\ TableInv
<1> SUFFICES ASSUME Init PROVE FileInv /\ TableInv
    OBVIOUS
<1>1. read_manifest(man) = DefaultManifest
    BY DEF Init, read_manifest
<1>2. high_op = 0 /\ mem_top = 0 /\ step = "idle" /\ manifest = DefaultManifest
    BY DEF Init
<1> QED BY <1>1, <1>2, SoundDefault DEF FileInv, TableInv

\* The names of what is on disk and of what the engine works with.
LEMMA NamedFiles ==
    ASSUME TypeOK
    PROVE  /\ Range(manifest.sstables) \subseteq Names
           /\ Range(read_manifest(man).sstables) \subseteq Names
           /\ Range(man.m.sstables) \subseteq Names
           /\ manifest \in Manifests /\ read_manifest(man) \in Manifests /\ man.m \in Manifests
           /\ read_manifest(man).high_op \in Nat
<1>1. manifest \in Manifests /\ read_manifest(man) \in Manifests /\ man.m \in Manifests
    BY ManifestTypes DEF TypeOK
<1>2. \A m \in Manifests : Range(m.sstables) \subseteq Names /\ m.high_op \in Nat
    BY TopInIs DEF Manifests
<1> QED BY <1>1, <1>2

\* A step that changes neither a manifest nor an SSTable.
LEMMA FileQuiet ==
    ASSUME TypeOK, TypeOK', StepInv, FileInv, UNCHANGED <<man, ssts, up, manifest>>, up,
           high_op' >= high_op, mem_top' <= high_op',
           step # "compact_remove", step' \in {"idle", "commit_txn", "compact"}
    PROVE  FileInv'
<1>1. Sound(ssts, manifest, high_op')
    <2>1. Sound(ssts, manifest, high_op) /\ high_op \in Nat /\ high_op' \in Nat
        BY DEF FileInv, TypeOK
    <2>2. PICK d \in Nat : d = high_op'
        BY <2>1
    <2>3. ssts \in [Names -> SsTableFile] /\ high_op <= d
        BY <2>1, <2>2 DEF TypeOK
    <2>4. Sound(ssts, manifest, d)
        BY <2>1, <2>3, NamedFiles, SoundRaised
    <2> QED BY <2>2, <2>4
<1> QED BY <1>1 DEF FileInv

LEMMA FileCommit ==
    ASSUME TypeOK, TypeOK', StepInv, FileInv, TableInv,
           NEW n \in 1..MaxOp, NEW k \in Keys, NEW v \in Values \cup {None}, Commit(n, k, v)
    PROVE  FileInv' /\ TableInv'
<1>1. UNCHANGED <<man, ssts, up, manifest, step>> /\ up /\ step = "idle"
    BY DEF Commit, Idle, disk
<1>2. high_op' >= high_op /\ mem_top' <= high_op'
    <2>1. n \in Nat /\ high_op \in Nat /\ mem_top \in Nat /\ mem_top <= high_op
        BY <1>1, BoundsAre, NumberTypes DEF FileInv
    <2>2. \/ high_op' = high_op /\ mem_top' = mem_top
          \/ high_op' = Max({high_op, n}) /\ mem_top' = Max({mem_top, n})
        BY DEF Commit
    <2>3. /\ Max({high_op, n}) = IF high_op > n THEN high_op ELSE n
          /\ Max({mem_top, n}) = IF mem_top > n THEN mem_top ELSE n
        BY <2>1, MaxOfTwo
    <2> QED BY <2>1, <2>2, <2>3
<1>3. FileInv'
    BY <1>1, <1>2, FileQuiet
<1> QED BY <1>1, <1>3 DEF TableInv

LEMMA FileTxn ==
    ASSUME TypeOK, TypeOK', StepInv, FileInv, TableInv,
           Sync \/ BeginTxn \/ AbortTxn \/ AppendTxn \/ SyncTxn \/ SkipCompact
    PROVE  FileInv' /\ TableInv'
<1>1. /\ UNCHANGED <<man, ssts, up, manifest, high_op, mem_top>> /\ up
      /\ step \in {"idle", "commit_txn", "compact"} /\ step' \in {"idle", "commit_txn"}
    BY DEF Sync, BeginTxn, AbortTxn, AppendTxn, SyncTxn, SkipCompact, Idle, disk, memory
<1>2. high_op \in Nat /\ mem_top <= high_op
    BY <1>1 DEF FileInv, TypeOK
<1>3. high_op' >= high_op /\ mem_top' <= high_op'
    BY <1>1, <1>2
<1>4. FileInv'
    BY <1>1, <1>3, FileQuiet
<1> QED BY <1>1, <1>4 DEF TableInv

\* An SSTable is written under the next name.
LEMMA FileWritten ==
    ASSUME TypeOK, TypeOK', StepInv, FileInv, up, manifest.next_sst < MaxSst,
           NEW t \in Tables, NEW top \in Nat, top <= high_op,
           ssts' = [ssts EXCEPT ![manifest.next_sst] = Written(ssts[manifest.next_sst], t, top)],
           UNCHANGED <<man, up, memory>>, step \in {"idle", "compact"},
           step' \in {"flush_manifest", "compact_manifest"}
    PROVE  FileInv' /\ NextFile'.table = t
<1>1. PICK x : x = manifest.next_sst
    OBVIOUS
<1>2. x \in Nat /\ x \in Names
    BY <1>1, NumberTypes, BoundsAre DEF Names
<1>3. /\ ssts \in [Names -> SsTableFile]
      /\ ssts' = [ssts EXCEPT ![x] = Written(ssts[x], t, top)]
    BY <1>1 DEF TypeOK
<1>4. ssts'[x] = Written(ssts[x], t, top) /\ \A n \in Names : n # x => ssts'[n] = ssts[n]
    BY <1>2, <1>3
<1>5. Intact(ssts'[x]) /\ ssts'[x].top = top /\ ssts'[x].table = t
    <2>1. ssts[x] \in SsTableFile
        BY <1>2, <1>3
    <2> QED BY <1>4, <2>1, WrittenType DEF Intact
<1>6. NextFile' = ssts'[x]
    BY <1>1 DEF NextFile, memory
<1>7. \A n \in Range(manifest.sstables) : n \in Names /\ n # x
    <2>1. Sound(ssts, manifest, high_op)
        BY DEF FileInv
    <2>2. \A n \in Range(manifest.sstables) : n \in Nat /\ n < x
        BY <1>1, <2>1, NamedFiles, BoundsAre DEF Sound
    <2> QED BY <1>2, <2>2, NamedFiles
<1>8. Sound(ssts', manifest, high_op)
    <2>1. Sound(ssts, manifest, high_op)
        BY DEF FileInv
    <2>2. \A n \in Range(manifest.sstables) : ssts'[n] = ssts[n]
        BY <1>4, <1>7
    <2> QED BY <2>1, <2>2, SoundElsewhere
<1>9. Sound(ssts', read_manifest(man), read_manifest(man).high_op)
    <2>1. CASE read_manifest(man) = DefaultManifest
        BY <2>1, SoundDefault
    <2>2. CASE read_manifest(man) = manifest
        <3>1. \A n \in Range(read_manifest(man).sstables) : ssts'[n] = ssts[n]
            BY <1>4, <1>7, <2>2
        <3>2. Sound(ssts, read_manifest(man), read_manifest(man).high_op)
            BY DEF FileInv
        <3> QED BY <3>1, <3>2, SoundElsewhere
    <2> QED BY <2>1, <2>2 DEF FileInv
<1>10. step # "compact_remove" /\ mem_top <= high_op
    BY DEF FileInv
<1>11. FileInv'
    BY <1>5, <1>6, <1>8, <1>9, <1>10 DEF FileInv, memory
<1> QED BY <1>5, <1>6, <1>11

LEMMA FileFlush ==
    ASSUME TypeOK, TypeOK', StepInv, FileInv, TableInv,
           WriteSsTable \/ FlushManifest \/ ResetWal
    PROVE  FileInv' /\ TableInv'
<1>1. CASE WriteSsTable
    <2>1. /\ up /\ step = "idle" /\ manifest.next_sst < MaxSst /\ step' = "flush_manifest"
          /\ ssts' = [ssts EXCEPT ![manifest.next_sst] =
                         Written(ssts[manifest.next_sst], memtable, mem_top)]
          /\ UNCHANGED <<man, up, memory>>
        BY <1>1 DEF WriteSsTable, Idle
    <2>2. memtable \in Tables /\ mem_top \in Nat /\ mem_top <= high_op
        BY <2>1 DEF TypeOK, FileInv
    <2>3. FileInv' /\ NextFile'.table = memtable
        BY <2>1, <2>2, FileWritten
    <2> QED BY <2>1, <2>3 DEF TableInv, memory
<1>2. CASE FlushManifest
    <2>1. PICK x : x = manifest.next_sst
        OBVIOUS
    <2>2. x \in Nat /\ x \in Names
        BY <1>2, <2>1, NumberTypes, BoundsAre DEF Names, StepInv, FlushManifest
    <2>3. PICK q : q = Append(manifest.sstables, x)
        OBVIOUS
    <2>4. PICK c : c = Cursor
        OBVIOUS
    <2>5. c \in Nat /\ high_op \in Nat /\ high_op <= c
        BY <2>4, NumberTypes
    <2>6. Range(q) = Range(manifest.sstables) \cup {x}
        <3>1. PICK old : old = manifest.sstables
            OBVIOUS
        <3>2. old \in Seq(Names)
            BY <3>1 DEF TypeOK, Manifests
        <3> QED BY <2>2, <2>3, <3>1, <3>2, RangeAppend
    <2> DEFINE next == [sstables |-> q, next_sst |-> x + 1, high_op |-> c]
    <2>7. /\ manifest' = next /\ up /\ up' = up
          /\ man' = [m |-> next, len |-> Max({man.len, Len(q)}), ok |-> TRUE]
          /\ UNCHANGED <<ssts, memtable, high_op, mem_top>> /\ step' \in {"flush_reset", "idle"}
        BY <1>2, <2>1, <2>3, <2>4 DEF FlushManifest, write_manifest
    <2>8. Sound(ssts, next, high_op)
        <3> SUFFICES ASSUME NEW n \in Range(q)
                     PROVE  n < x + 1 /\ Intact(ssts[n]) /\ ssts[n].top <= high_op
            BY DEF Sound
        <3>1. CASE n = x
            BY <1>2, <2>1, <2>2, <3>1 DEF FileInv, NextFile, FlushManifest
        <3>2. CASE n \in Range(manifest.sstables)
            <4>1. n < x /\ Intact(ssts[n]) /\ ssts[n].top <= high_op
                BY <2>1, <2>7, <3>2 DEF FileInv, Sound
            <4>2. n \in Nat
                BY <3>2, NamedFiles, BoundsAre
            <4> QED BY <2>2, <4>1, <4>2
        <3> QED BY <2>6, <3>1, <3>2
    <2>9. Sound(ssts, next, c)
        <3>1. \A n \in Range(q) : n \in Names
            BY <2>2, <2>6, NamedFiles
        <3>2. \A n \in Names : ssts[n].top \in Nat
            BY DEF TypeOK, SsTableFile
        <3> QED BY <2>5, <2>8, <3>1, <3>2 DEF Sound
    <2>10. read_manifest(man') \in {next, DefaultManifest}
        BY <2>7, ReadsWritten
    <2>11. Sound(ssts, read_manifest(man'), read_manifest(man').high_op)
        <3>1. CASE read_manifest(man') = DefaultManifest
            BY <3>1, SoundDefault
        <3>2. CASE read_manifest(man') = next
            BY <2>9, <3>2
        <3> QED BY <2>10, <3>1, <3>2
    <2>12. FileInv'
        <3>1. mem_top <= high_op
            BY <2>7 DEF FileInv
        <3> HIDE DEF next
        <3> QED BY <2>7, <2>8, <2>10, <2>11, <3>1 DEF FileInv
    <2>13. TableInv'
        <3>1. CASE step' = "idle"
            BY <3>1 DEF TableInv
        <3>2. CASE step' = "flush_reset"
            <4>1. sstables' = Append(sstables, ssts[x].table)
                BY <1>2, <2>1, <3>2 DEF FlushManifest
            <4>2. ssts[x].table = memtable /\ sstables \in Seq(Tables) /\ memtable \in Tables
                BY <1>2, <2>1 DEF TableInv, NextFile, FlushManifest, TypeOK
            <4>3. /\ Append(sstables, memtable) # <<>>
                  /\ Len(Append(sstables, memtable)) = Len(sstables) + 1
                  /\ Append(sstables, memtable)[Len(sstables) + 1] = memtable
                BY <4>2, AppendProperties
            <4> QED BY <2>7, <3>2, <4>1, <4>2, <4>3 DEF TableInv
        <3> QED BY <2>7, <3>1, <3>2
    <2> QED BY <2>12, <2>13
<1>3. CASE ResetWal
    <2>1. /\ up /\ step = "flush_reset" /\ step' \in {"idle", "compact"} /\ mem_top' = 0
          /\ UNCHANGED <<man, ssts, up, manifest, high_op>>
        BY <1>3 DEF ResetWal
    <2>2. high_op \in Nat
        BY DEF TypeOK
    <2>3. high_op' >= high_op /\ mem_top' <= high_op'
        BY <2>1, <2>2
    <2>4. FileInv'
        BY <2>1, <2>3, FileQuiet
    <2> QED BY <2>1, <2>4 DEF TableInv
<1> QED BY <1>1, <1>2, <1>3

LEMMA FileCompact ==
    ASSUME TypeOK, TypeOK', StepInv, FileInv, TableInv,
           WriteMerged \/ CompactManifest \/ RemoveOld
    PROVE  FileInv' /\ TableInv'
<1>1. CASE WriteMerged
    <2>1. PICK t : t = Retain(Merged(sstables))
        OBVIOUS
    <2>2. PICK top : top = TopIn(manifest)
        OBVIOUS
    <2>3. /\ up /\ step = "compact" /\ manifest.next_sst < MaxSst /\ step' = "compact_manifest"
          /\ ssts' = [ssts EXCEPT ![manifest.next_sst] = Written(ssts[manifest.next_sst], t, top)]
          /\ UNCHANGED <<man, up, memory>>
        BY <1>1, <2>1, <2>2 DEF WriteMerged, TopIn
    <2>4. t \in Tables
        BY <2>1, MergedIs, RetainType DEF TypeOK
    <2>5. top \in Nat /\ top <= high_op
        <3>1. Sound(ssts, manifest, high_op) /\ high_op \in Nat
            BY <2>3 DEF FileInv, TypeOK
        <3>2. top \in Nat /\ (top = 0 \/ \E n \in Range(manifest.sstables) : top = ssts[n].top)
            BY <2>2, TopInIs DEF TypeOK
        <3> QED BY <3>1, <3>2 DEF Sound
    <2>6. FileInv' /\ NextFile'.table = t
        BY <2>3, <2>4, <2>5, FileWritten
    <2> QED BY <2>1, <2>3, <2>6 DEF TableInv, memory
<1>2. CASE CompactManifest
    <2>1. PICK x : x = manifest.next_sst
        OBVIOUS
    <2>2. x \in Nat /\ x \in Names
        BY <1>2, <2>1, NumberTypes, BoundsAre DEF Names, StepInv, CompactManifest
    <2>3. PICK c : c = Cursor
        OBVIOUS
    <2>4. c \in Nat /\ high_op \in Nat /\ high_op <= c
        BY <2>3, NumberTypes
    <2> DEFINE cm == [sstables |-> <<x>>, next_sst |-> x + 1, high_op |-> c]
    <2>5. /\ up /\ up' = up /\ step' = "compact_remove" /\ UNCHANGED <<ssts, memory>>
          /\ man' = [m |-> cm, len |-> Max({man.len, Len(<<x>>)}), ok |-> TRUE]
        BY <1>2, <2>1, <2>3 DEF CompactManifest, write_manifest
    <2>6. Intact(ssts[x]) /\ ssts[x].top <= high_op /\ ssts[x].top \in Nat
        BY <1>2, <2>1, <2>2 DEF CompactManifest, FileInv, NextFile, TypeOK, SsTableFile
    <2>7. Sound(ssts, cm, c)
        <3>1. Range(<<x>>) = {x}
            BY DEF Range
        <3> QED BY <2>2, <2>4, <2>6, <3>1 DEF Sound
    <2>8. read_manifest(man') \in {cm, DefaultManifest}
        BY <2>5, ReadsWritten
    <2>9. Sound(ssts, read_manifest(man'), read_manifest(man').high_op)
        <3>1. CASE read_manifest(man') = DefaultManifest
            BY <3>1, SoundDefault
        <3>2. CASE read_manifest(man') = cm
            BY <2>7, <3>2
        <3> QED BY <2>8, <3>1, <3>2
    <2>10. man'.m = Compacted'
        <3>1. man'.m = cm
            BY <2>5
        <3>2. Cursor' = Cursor
            BY <2>5 DEF Cursor, memory
        <3> QED BY <2>1, <2>3, <2>5, <3>1, <3>2 DEF Compacted, memory
    <2>11. FileInv'
        <3>1. mem_top <= high_op /\ Sound(ssts, manifest, high_op)
            BY <2>5 DEF FileInv
        <3>2. NextFile' = ssts[x]
            BY <2>1, <2>5 DEF NextFile, memory
        <3> HIDE DEF cm
        <3> QED BY <2>5, <2>6, <2>9, <2>10, <3>1, <3>2 DEF FileInv, memory
    <2>12. TableInv'
        <3>1. NextFile' = NextFile /\ NextFile.table = Retain(Merged(sstables))
            BY <1>2, <2>5 DEF NextFile, memory, TableInv, CompactManifest
        <3> QED BY <2>5, <3>1 DEF TableInv, memory
    <2> QED BY <2>11, <2>12
<1>3. CASE RemoveOld
    <2>1. PICK x : x = manifest.next_sst
        OBVIOUS
    <2>2. x \in Nat /\ x \in Names
        BY <1>3, <2>1, NumberTypes, BoundsAre DEF Names, StepInv, RemoveOld
    <2>3. PICK c : c = Cursor
        OBVIOUS
    <2>4. c \in Nat /\ high_op \in Nat /\ high_op <= c
        BY <2>3, NumberTypes
    <2> DEFINE cm == [sstables |-> <<x>>, next_sst |-> x + 1, high_op |-> c]
    <2>5. /\ up /\ up' = up /\ step = "compact_remove" /\ step' = "idle"
          /\ manifest' = man.m /\ UNCHANGED <<man, high_op, mem_top>>
          /\ ssts' = [n \in Names |-> IF n \in Range(manifest.sstables) THEN NoFile ELSE ssts[n]]
        BY <1>3 DEF RemoveOld
    <2>6. man.m = cm
        BY <2>1, <2>3, <2>5 DEF FileInv, Compacted
    <2>7. x \notin Range(manifest.sstables)
        <3>1. \A n \in Range(manifest.sstables) : n \in Nat /\ n < x
            BY <2>1, <2>5, NamedFiles, BoundsAre DEF FileInv, Sound
        <3> QED BY <2>2, <3>1
    <2>8. ssts'[x] = ssts[x]
        BY <2>2, <2>5, <2>7
    <2>9. Intact(ssts'[x]) /\ ssts'[x].top <= high_op /\ ssts[x].top \in Nat
        BY <2>1, <2>2, <2>5, <2>8 DEF FileInv, NextFile, TypeOK, SsTableFile
    <2>10. Sound(ssts', cm, high_op) /\ Sound(ssts', cm, c)
        <3>1. Range(<<x>>) = {x}
            BY DEF Range
        <3> QED BY <2>2, <2>4, <2>8, <2>9, <3>1 DEF Sound
    <2>11. read_manifest(man) \in {cm, DefaultManifest}
        BY <2>6 DEF read_manifest
    <2>12. Sound(ssts', read_manifest(man), read_manifest(man).high_op)
        <3>1. CASE read_manifest(man) = DefaultManifest
            BY <3>1, SoundDefault
        <3>2. CASE read_manifest(man) = cm
            BY <2>10, <3>2
        <3> QED BY <2>11, <3>1, <3>2
    <2>13. FileInv'
        <3>1. mem_top <= high_op
            BY <2>5 DEF FileInv
        <3> HIDE DEF cm
        <3> QED BY <2>5, <2>6, <2>10, <2>11, <2>12, <3>1 DEF FileInv
    <2> QED BY <2>5, <2>13 DEF TableInv
<1> QED BY <1>1, <1>2, <1>3

LEMMA FileStops ==
    ASSUME TypeOK, TypeOK', FileInv, Crash \/ Exit \/ (Open /\ UNCHANGED autosync), StepInv
    PROVE  FileInv' /\ TableInv'
<1>1. CASE Crash \/ Exit
    <2>1. up' = FALSE /\ step' = "idle" /\ ssts' = ssts
        BY <1>1 DEF Crash, Exit, Stop, disk
    <2>2. read_manifest(man') \in {read_manifest(man), DefaultManifest}
        <3>1. man' = man \/ man' = [man EXCEPT !.ok = FALSE]
            BY <1>1 DEF Crash, Exit, TearManifest, disk
        <3>2. man \in [m : Manifests, len : Nat, ok : BOOLEAN]
            BY DEF TypeOK
        <3>3. man' = [man EXCEPT !.ok = FALSE] => man'.ok = FALSE
            BY <3>2
        <3> QED BY <3>1, <3>3 DEF read_manifest
    <2>3. Sound(ssts, read_manifest(man'), read_manifest(man').high_op)
        BY <2>2, SoundDefault DEF FileInv
    <2> QED BY <2>1, <2>3 DEF FileInv, TableInv
<1>2. CASE Open /\ UNCHANGED autosync
    <2>1. /\ UNCHANGED <<man, ssts>> /\ step' = "idle" /\ manifest' = read_manifest(man)
        BY <1>2 DEF Open, disk
    <2>2. high_op' >= read_manifest(man).high_op /\ high_op' >= mem_top'
        BY <1>2, TypeOpen
    <2>3. high_op' \in Nat /\ mem_top' \in Nat /\ read_manifest(man).high_op \in Nat
        BY NamedFiles DEF TypeOK
    <2>4. Sound(ssts, manifest', high_op')
        <3>1. PICK m \in Manifests : m = read_manifest(man)
            BY NamedFiles
        <3>2. PICK d \in Nat : d = high_op'
            BY <2>3
        <3>3. Sound(ssts, m, m.high_op) /\ m.high_op \in Nat /\ Range(m.sstables) \subseteq Names
              /\ m.high_op <= d /\ ssts \in [Names -> SsTableFile]
            BY <2>2, <2>3, <3>1, <3>2, NamedFiles DEF FileInv, TypeOK
        <3>4. Sound(ssts, m, d)
            BY <3>3, SoundRaised
        <3> QED BY <2>1, <3>1, <3>2, <3>4
    <2>5. mem_top' <= high_op'
        BY <2>2, <2>3
    <2> QED BY <2>1, <2>4, <2>5 DEF FileInv, TableInv
<1> QED BY <1>1, <1>2

LEMMA FileStep ==
    ASSUME TypeOK, StepInv, FileInv, TableInv, [Next]_vars
    PROVE  FileInv' /\ TableInv'
<1>0. TypeOK'
    BY TypeStep
<1>1. CASE UNCHANGED vars
    BY <1>1 DEF vars, disk, memory, FileInv, TableInv, NextFile, Compacted, Cursor
<1>2. CASE Next
    BY <1>0, <1>2, FileCommit, FileTxn, FileFlush, FileCompact, FileStops DEF Next
<1> QED BY <1>1, <1>2

(* Through flushes, compactions, crashes in the middle of them and torn      *)
(* manifests: what recovery would read, and what the engine works with, only *)
(* names files that are intact or reused and that the cursor covers.         *)
THEOREM FilesCorrect == Spec => [](TypeOK /\ StepInv /\ FileInv /\ TableInv)
<1>1. Init => TypeOK /\ StepInv /\ FileInv /\ TableInv
    BY TypeInit, FileInit
<1>2. TypeOK /\ StepInv /\ FileInv /\ TableInv /\ [Next]_vars
          => (TypeOK /\ StepInv /\ FileInv /\ TableInv)'
    BY TypeStep, FileStep
<1> QED BY <1>1, <1>2, PTL DEF Spec

(* Storage::open finds every SSTable of the manifest intact, wherever the    *)
(* engine stopped, except one whose file an interrupted flush had left       *)
(* behind.                                                                   *)
THEOREM OpenFindsFiles == Spec => []Openable
<1>1. FileInv => Openable
    BY DEF FileInv, Sound, Intact, Openable
<1> QED BY <1>1, FilesCorrect, PTL

(* The recovery cursor covers every operation of the memtable and of the     *)
(* SSTables, also after a manifest or the end of the WAL was lost.           *)
THEOREM CursorHolds == Spec => []CursorCovers
<1>1. FileInv => CursorCovers
    BY DEF FileInv, Sound, CursorCovers, Idle
<1> QED BY <1>1, FilesCorrect, PTL

----------------------------------------------------------------------------
(* What a reader sees *)

LEMMA MergedDecides ==
    ASSUME NEW ts \in Seq(Tables), NEW k \in Keys, NEW i \in 1..Len(ts), ts[i][k] # Absent,
           \A j \in 1..Len(ts) : j > i => ts[j][k] = Absent
    PROVE  Merged(ts)[k] = ts[i][k]
<1>1. PICK h \in 1..Len(ts) : /\ ts[h][k] # Absent /\ Merged(ts)[k] = ts[h][k]
                              /\ \A j \in 1..Len(ts) : j > h => ts[j][k] = Absent
    BY MergedIs
<1>2. Len(ts) \in Nat
    BY LenProperties
<1>3. ~ (i > h) /\ ~ (h > i)
    BY <1>1
<1>4. h = i
    BY <1>2, <1>3
<1> QED BY <1>1, <1>4

LEMMA MergedNone ==
    ASSUME NEW ts \in Seq(Tables), NEW k \in Keys, \A i \in 1..Len(ts) : ts[i][k] = Absent
    PROVE  Merged(ts)[k] = Absent
BY MergedIs

\* One more table hides what the others have of its keys.
LEMMA MergedAppend ==
    ASSUME NEW ts \in Seq(Tables), NEW t \in Tables
    PROVE  Merged(Append(ts, t)) = Over(Merged(ts), t)
<1> DEFINE us == Append(ts, t)
           n == Len(ts)
<1>1. n \in Nat
    BY LenProperties
<1>2. /\ us \in Seq(Tables) /\ Len(us) = n + 1 /\ us[n + 1] = t
      /\ \A i \in 1..n : us[i] = ts[i]
    BY AppendProperties
<1> HIDE DEF us
<1>3. Merged(us) \in Tables /\ Merged(ts) \in Tables
    BY <1>2, MergedIs
<1>4. Over(Merged(ts), t) \in Tables
    BY <1>3, OverType
<1>5. ASSUME NEW k \in Keys PROVE Merged(us)[k] = Over(Merged(ts), t)[k]
    <2>0. Over(Merged(ts), t)[k] = IF t[k] = Absent THEN Merged(ts)[k] ELSE t[k]
        BY DEF Over
    <2>1. CASE t[k] # Absent
        <3>1. n + 1 \in 1..Len(us) /\ us[n + 1][k] # Absent
            BY <1>1, <1>2, <2>1
        <3>2. \A j \in 1..Len(us) : ~ (j > n + 1)
            BY <1>1, <1>2
        <3>3. Merged(us)[k] = us[n + 1][k]
            BY <1>2, <3>1, <3>2, MergedDecides
        <3> QED BY <1>2, <2>0, <2>1, <3>3
    <2>2. CASE t[k] = Absent
        <3>1. \A j \in 1..Len(us) : (j \in 1..n /\ us[j] = ts[j]) \/ us[j][k] = Absent
            <4>1. \A j \in 1..n + 1 : j \in 1..n \/ j = n + 1
                BY <1>1
            <4> QED BY <1>2, <2>2, <4>1
        <3>2. CASE \A i \in 1..n : ts[i][k] = Absent
            <4>1. \A j \in 1..Len(us) : us[j][k] = Absent
                BY <3>1, <3>2
            <4> QED BY <1>2, <2>0, <2>2, <3>2, <4>1, MergedNone
        <3>3. CASE ~ \A i \in 1..n : ts[i][k] = Absent
            <4>1. PICK i \in 1..n : /\ ts[i][k] # Absent /\ Merged(ts)[k] = ts[i][k]
                                    /\ \A j \in 1..n : j > i => ts[j][k] = Absent
                BY <3>3, MergedIs
            <4>2. i \in 1..Len(us) /\ us[i] = ts[i]
                BY <1>1, <1>2
            <4>3. \A j \in 1..Len(us) : j > i => us[j][k] = Absent
                BY <3>1, <4>1
            <4>4. Merged(us)[k] = us[i][k]
                BY <1>2, <4>1, <4>2, <4>3, MergedDecides
            <4> QED BY <2>0, <2>2, <4>1, <4>2, <4>4
        <3> QED BY <3>2, <3>3
    <2> QED BY <2>1, <2>2
<1>6. Merged(us) = Over(Merged(ts), t)
    BY <1>3, <1>4, <1>5 DEF Tables
<1> QED BY <1>6 DEF us

LEMMA MergedOne ==
    ASSUME NEW t \in Tables
    PROVE  Merged(<<t>>) = t
<1>1. <<>> \in Seq(Tables) /\ Append(<<>>, t) = <<t>> /\ Len(<<>>) = 0
    OBVIOUS
<1>2. Merged(<<t>>) = Over(Merged(<<>>), t)
    BY <1>1, MergedAppend
<1>3. Merged(<<>>) \in Tables /\ \A k \in Keys : Merged(<<>>)[k] = Absent
    <2>1. \A i \in 1..Len(<<>>) : FALSE
        BY <1>1
    <2> QED BY <1>1, <2>1, MergedIs
<1>4. Over(Merged(<<>>), t) = t
    BY <1>3 DEF Over, Tables
<1> QED BY <1>2, <1>4

LEMMA OverTwice ==
    ASSUME NEW b \in Tables, NEW t \in Tables
    PROVE  Over(Over(b, t), t) = Over(b, t)
BY DEF Over, Tables

LEMMA OverNone ==
    ASSUME NEW b \in Tables
    PROVE  Over(b, NoTable) = b
BY DEF Over, Tables, NoTable

LEMMA RetainInvisible ==
    ASSUME NEW b \in Tables, NEW t \in Tables
    PROVE  Seen(Over(Retain(b), t)) = Seen(Over(b, t))
BY SlotNames DEF Over, Retain, Seen, Tables

\* The last table hides nothing of the tables it is one of.
LEMMA LastHides ==
    ASSUME NEW ts \in Seq(Tables), ts # <<>>, NEW t \in Tables, ts[Len(ts)] = t
    PROVE  Over(Merged(ts), t) = Merged(ts)
<1>1. PICK n : n = Len(ts)
    OBVIOUS
<1>2. n \in Nat \ {0}
    BY <1>1, EmptySeq
<1>3. \A k \in Keys : t[k] # Absent => Merged(ts)[k] = t[k]
    <2> TAKE k \in Keys
    <2> HAVE t[k] # Absent
    <2>1. n \in 1..Len(ts) /\ \A j \in 1..Len(ts) : ~ (j > n)
        BY <1>1, <1>2
    <2>2. ts[n][k] # Absent
        BY <1>1
    <2>3. Merged(ts)[k] = ts[n][k]
        BY <2>1, <2>2, MergedDecides
    <2> QED BY <1>1, <2>3
<1>4. Merged(ts) \in Tables
    BY MergedIs
<1> QED BY <1>3, <1>4 DEF Over, Tables

LEMMA WholeFrames == Seq(Whole) \subseteq Seq(Frames)
BY BoundsAre, SeqMonotonic

\* A step of flush or compaction changes nothing a reader sees.
LEMMA InvisibleStep ==
    ASSUME TypeOK, TypeOK', StepInv, FileInv, TableInv,
           \/ WriteSsTable \/ FlushManifest \/ ResetWal
           \/ WriteMerged \/ CompactManifest \/ RemoveOld
    PROVE  View' = View
<1>0. /\ sstables \in Seq(Tables) /\ memtable \in Tables /\ Merged(sstables) \in Tables
      /\ sstables' \in Seq(Tables)
    BY MergedIs DEF TypeOK
<1>1. CASE WriteSsTable \/ WriteMerged \/ CompactManifest
    BY <1>1 DEF WriteSsTable, WriteMerged, CompactManifest, View, memory
<1>2. CASE FlushManifest
    <2>1. NextFile.table = memtable
        BY <1>2 DEF FlushManifest, TableInv
    <2>2. memtable' = memtable /\ (sstables' = sstables \/ sstables' = Append(sstables, memtable))
        BY <1>2, <2>1 DEF FlushManifest, NextFile
    <2>3. Over(Merged(Append(sstables, memtable)), memtable) = Over(Merged(sstables), memtable)
        BY <1>0, MergedAppend, OverTwice
    <2> QED BY <2>2, <2>3 DEF View
<1>3. CASE ResetWal
    <2>1. /\ sstables # <<>> /\ sstables[Len(sstables)] = memtable
          /\ sstables' = sstables /\ memtable' = NoTable
        BY <1>3 DEF ResetWal, TableInv
    <2>5. Over(Merged(sstables), memtable) = Merged(sstables)
        BY <1>0, <2>1, LastHides
    <2>6. Over(Merged(sstables), NoTable) = Merged(sstables)
        BY <1>0, OverNone
    <2> QED BY <2>1, <2>5, <2>6 DEF View
<1>4. CASE RemoveOld
    <2>1. PICK x : x = manifest.next_sst
        OBVIOUS
    <2>2. /\ up /\ step = "compact_remove" /\ memtable' = memtable
          /\ ssts' = [n \in Names |-> IF n \in Range(manifest.sstables) THEN NoFile ELSE ssts[n]]
          /\ sstables' = sstables \/ sstables' = <<ssts'[x].table>>
        BY <1>4, <2>1 DEF RemoveOld
    <2>3. x \in Names /\ x \notin Range(manifest.sstables)
        <3>1. x \in Nat /\ x \in Names
            BY <2>1, <2>2, NumberTypes, BoundsAre DEF Names, StepInv
        <3>2. \A n \in Range(manifest.sstables) : n \in Nat /\ n < x
            BY <2>1, <2>2, NamedFiles, BoundsAre DEF FileInv, Sound
        <3> QED BY <3>1, <3>2
    <2>4. ssts'[x].table = Retain(Merged(sstables))
        BY <2>1, <2>2, <2>3 DEF TableInv, NextFile
    <2>5. PICK t \in Tables : t = Retain(Merged(sstables))
        BY <1>0, RetainType
    <2>6. Merged(<<t>>) = t
        BY MergedOne
    <2>7. Seen(Over(t, memtable)) = Seen(Over(Merged(sstables), memtable))
        BY <1>0, <2>5, RetainInvisible
    <2> QED BY <2>2, <2>4, <2>5, <2>6, <2>7 DEF View
<1> QED BY <1>1, <1>2, <1>3, <1>4

(* Persisting the memtable and merging SSTables change nothing a reader      *)
(* sees, for every order of flushes, compactions and recoveries.             *)
THEOREM CompactionUnseen == Spec => CompactionInvisible
<1> DEFINE Quiet == (\/ WriteSsTable \/ FlushManifest \/ ResetWal
                     \/ WriteMerged \/ CompactManifest \/ RemoveOld) => View' = View
<1>1. TypeOK /\ StepInv /\ FileInv /\ TableInv /\ [Next]_vars => [Quiet]_vars
    BY TypeStep, InvisibleStep
<1> HIDE DEF Quiet
<1>2. Spec => [][Quiet]_vars
    BY <1>1, FilesCorrect, PTL DEF Spec
<1> QED BY <1>2 DEF CompactionInvisible, Quiet

----------------------------------------------------------------------------
(* What the files hold *)

\* What the files of manifest m hold together.
Flushed(m) == Merged(TablesOf(m))

\* No frame of WAL w is torn.
Untorn(w) == \A i \in DOMAIN w : w[i] # Torn

\* read_manifest finds the manifest that was written last.
Readable == man.ok /\ man.len = Len(man.m.sstables)

\* Under memtable m, a reader cannot tell table a from table b.
Alike(a, b, m) == \A k \in Keys : m[k] = Absent => Seen(a)[k] = Seen(b)[k]

\* Unless a torn tail stands in the WAL, the memtable is what the WAL holds; the
\* engine's tables and those its manifest names differ at most where the memtable
\* hides it, as after a flush or a compaction that could not open its file; and
\* when the manifest file can be read, it is the manifest the engine works with.
ReadInv ==
    /\ Untorn(wal) /\ up /\ step # "commit_txn" => memtable = TableOf(wal)
    /\ Untorn(wal) /\ step = "commit_txn" => TableOf(wal) = Over(memtable, txn.table)
    /\ up => Alike(Merged(sstables), Flushed(manifest), memtable)
    /\ step = "flush_reset" => Over(Flushed(manifest), memtable) = Flushed(manifest)
    /\ up /\ step # "compact_remove" /\ Readable => manifest = man.m

LEMMA TableOfDecides ==
    ASSUME NEW w \in Seq(Whole), NEW k \in Keys, NEW i \in 1..Len(w), w[i].key = k,
           \A j \in 1..Len(w) : j > i => w[j].key # k
    PROVE  TableOf(w)[k] = w[i].val
<1>1. PICK h \in 1..Len(w) : /\ w[h].key = k /\ TableOf(w)[k] = w[h].val
                             /\ \A j \in 1..Len(w) : j > h => w[j].key # k
    BY TableOfIs
<1>2. Len(w) \in Nat
    BY LenProperties
<1>3. ~ (i > h) /\ ~ (h > i)
    BY <1>1
<1>4. h = i
    BY <1>2, <1>3
<1> QED BY <1>1, <1>4

LEMMA TableOfNone ==
    ASSUME NEW w \in Seq(Whole), NEW k \in Keys, \A i \in 1..Len(w) : w[i].key # k
    PROVE  TableOf(w)[k] = Absent
BY TableOfIs

\* The table of two pieces of a WAL.
LEMMA TableOfConcat ==
    ASSUME NEW w \in Seq(Whole), NEW u \in Seq(Whole)
    PROVE  TableOf(w \o u) = Over(TableOf(w), TableOf(u))
<1> DEFINE x == w \o u
           n == Len(w)
           p == Len(u)
<1>1. n \in Nat /\ p \in Nat
    BY LenProperties
<1>2. /\ x \in Seq(Whole) /\ Len(x) = n + p
      /\ \A i \in 1..n + p : x[i] = IF i <= n THEN w[i] ELSE u[i - n]
    BY ConcatProperties
<1> HIDE DEF x
<1>3. \A i \in 1..n : i \in 1..Len(x) /\ x[i] = w[i]
    BY <1>1, <1>2
<1>4. \A i \in 1..p : n + i \in 1..Len(x) /\ x[n + i] = u[i]
    <2> TAKE i \in 1..p
    <2>1. n + i \in 1..n + p /\ ~ (n + i <= n) /\ (n + i) - n = i
        BY <1>1
    <2> QED BY <1>2, <2>1
<1>5. \A j \in 1..Len(x) : j \in 1..n \/ \E i \in 1..p : j = n + i
    <2> TAKE j \in 1..Len(x)
    <2>1. j \in 1..n \/ (j - n \in 1..p /\ j = n + (j - n))
        BY <1>1, <1>2
    <2> QED BY <2>1
<1>6. TableOf(x) \in Tables /\ TableOf(w) \in Tables /\ TableOf(u) \in Tables
    BY <1>2, TableOfIs
<1>7. ASSUME NEW k \in Keys PROVE TableOf(x)[k] = Over(TableOf(w), TableOf(u))[k]
    <2>0. Over(TableOf(w), TableOf(u))[k]
             = IF TableOf(u)[k] = Absent THEN TableOf(w)[k] ELSE TableOf(u)[k]
        BY DEF Over
    <2>1. CASE \E i \in 1..p : u[i].key = k
        <3>0. ~ \A i \in 1..p : u[i].key # k
            BY <2>1
        <3>1. PICK i \in 1..p : /\ u[i].key = k /\ TableOf(u)[k] = u[i].val
                                /\ \A j \in 1..p : j > i => u[j].key # k
            BY <3>0, TableOfIs
        <3>2. TableOf(u)[k] # Absent
            <4>1. u[i] \in Whole
                BY ElementOfSeq
            <4> QED BY <3>1, <4>1, ValuesAssumption, SlotNames DEF Whole
        <3>3. \A j \in 1..Len(x) : j > n + i => x[j].key # k
            <4> TAKE j \in 1..Len(x)
            <4> HAVE j > n + i
            <4>1. ~ (j \in 1..n)
                BY <1>1
            <4>2. PICK h \in 1..p : j = n + h
                BY <1>5, <4>1
            <4>3. h > i
                BY <1>1, <4>2
            <4> QED BY <1>4, <3>1, <4>2, <4>3
        <3>4. TableOf(x)[k] = x[n + i].val
            <4>1. PICK h : h = n + i
                OBVIOUS
            <4>2. h \in 1..Len(x) /\ x[h].key = k
                BY <1>4, <3>1, <4>1
            <4>3. \A j \in 1..Len(x) : j > h => x[j].key # k
                BY <3>3, <4>1
            <4>4. TableOf(x)[k] = x[h].val
                BY <1>2, <4>2, <4>3, TableOfDecides
            <4> QED BY <4>1, <4>4
        <3> QED BY <1>4, <2>0, <3>1, <3>2, <3>4
    <2>2. CASE ~ \E i \in 1..p : u[i].key = k
        <3>1. TableOf(u)[k] = Absent
            BY <2>2, TableOfNone
        <3>2. CASE \A i \in 1..n : w[i].key # k
            <4>1. TableOf(w)[k] = Absent
                BY <3>2, TableOfNone
            <4>2. \A j \in 1..Len(x) : x[j].key # k
                <5> TAKE j \in 1..Len(x)
                <5>1. CASE j \in 1..n
                    BY <1>3, <3>2, <5>1
                <5>2. CASE \E h \in 1..p : j = n + h
                    <6>1. PICK h \in 1..p : j = n + h
                        BY <5>2
                    <6> QED BY <1>4, <2>2, <6>1
                <5> QED BY <1>5, <5>1, <5>2
            <4> QED BY <1>2, <2>0, <3>1, <4>1, <4>2, TableOfNone
        <3>3. CASE ~ \A i \in 1..n : w[i].key # k
            <4>1. PICK i \in 1..n : /\ w[i].key = k /\ TableOf(w)[k] = w[i].val
                                    /\ \A j \in 1..n : j > i => w[j].key # k
                BY <3>3, TableOfIs
            <4>2. \A j \in 1..Len(x) : j > i => x[j].key # k
                <5> TAKE j \in 1..Len(x)
                <5> HAVE j > i
                <5>1. CASE j \in 1..n
                    BY <1>3, <4>1, <5>1
                <5>2. CASE \E h \in 1..p : j = n + h
                    <6>1. PICK h \in 1..p : j = n + h
                        BY <5>2
                    <6> QED BY <1>4, <2>2, <6>1
                <5> QED BY <1>5, <5>1, <5>2
            <4>3. TableOf(x)[k] = x[i].val
                BY <1>2, <1>3, <4>1, <4>2, TableOfDecides
            <4> QED BY <1>3, <2>0, <3>1, <4>1, <4>3
        <3> QED BY <3>2, <3>3
    <2> QED BY <2>1, <2>2
<1>8. Over(TableOf(w), TableOf(u)) \in Tables
    BY <1>6, OverType
<1>9. TableOf(x) = Over(TableOf(w), TableOf(u))
    BY <1>6, <1>7, <1>8 DEF Tables
<1> QED BY <1>9 DEF x

\* The frames of a transaction hold its overlay.
LEMMA TableOfBatch ==
    ASSUME NEW op \in Nat, NEW t \in Tables
    PROVE  TableOf(Batch(op, t)) = t
<1>1. PICK b : b = Batch(op, t)
    OBVIOUS
<1>2. /\ b \in Seq(Whole)
      /\ \A i \in 1..Len(b) : b[i].val = t[b[i].key] /\ b[i].val # Absent
      /\ \A k \in Keys : t[k] # Absent => \E i \in 1..Len(b) : b[i].key = k
    BY <1>1, BatchIs
<1>3. TableOf(b) \in Tables
    BY <1>2, TableOfIs
<1>4. ASSUME NEW k \in Keys PROVE TableOf(b)[k] = t[k]
    <2>1. CASE TableOf(b)[k] = Absent /\ \A i \in 1..Len(b) : b[i].key # k
        BY <1>2, <2>1
    <2>2. CASE \E i \in 1..Len(b) : b[i].key = k /\ TableOf(b)[k] = b[i].val
        BY <1>2, <2>2
    <2> QED BY <1>2, <2>1, <2>2, TableOfIs
<1> QED BY <1>1, <1>3, <1>4 DEF Tables

\* One more frame.
LEMMA TableOfAppend ==
    ASSUME NEW w \in Seq(Whole), NEW op \in Nat, NEW k \in Keys, NEW v \in Values \cup {None}
    PROVE  /\ Append(w, Frame(op, k, v)) \in Seq(Whole)
           /\ TableOf(Append(w, Frame(op, k, v))) = [TableOf(w) EXCEPT ![k] = v]
           /\ v # Absent /\ v \in Slots
<1>1. PICK f : f = Frame(op, k, v)
    OBVIOUS
<1>2. f \in Whole /\ f.key = k /\ f.val = v
    BY <1>1 DEF Frame, Whole
<1>3. <<f>> \in Seq(Whole) /\ Len(<<f>>) = 1 /\ <<f>>[1] = f
    BY <1>2
<1>4. Append(w, f) = w \o <<f>>
    BY <1>2, AppendIsConcat
<1>5. v # Absent /\ v \in Slots
    BY ValuesAssumption, SlotNames DEF Slots
<1>6. TableOf(<<f>>) = [l \in Keys |-> IF l = k THEN v ELSE Absent]
    <2>0. PICK u : u = <<f>>
        OBVIOUS
    <2>1. \A i \in 1..Len(u) : i = 1 /\ u[i] = f
        BY <1>3, <2>0
    <2>2. \A l \in Keys : TableOf(u)[l] = IF l = k THEN v ELSE Absent
        <3> TAKE l \in Keys
        <3>1. CASE l = k
            <4>1. 1 \in 1..Len(u) /\ u[1].key = l /\ \A j \in 1..Len(u) : ~ (j > 1)
                BY <1>2, <1>3, <2>0, <2>1, <3>1
            <4>2. TableOf(u)[l] = u[1].val
                BY <1>3, <2>0, <4>1, TableOfDecides
            <4> QED BY <1>2, <1>3, <2>0, <3>1, <4>2
        <3>2. CASE l # k
            <4>1. \A j \in 1..Len(u) : u[j].key # l
                BY <1>2, <2>1, <3>2
            <4> QED BY <1>3, <2>0, <3>2, <4>1, TableOfNone
        <3> QED BY <3>1, <3>2
    <2>3. TableOf(u) \in Tables
        BY <1>3, <2>0, TableOfIs
    <2> QED BY <2>0, <2>2, <2>3 DEF Tables
<1>7. TableOf(w) \in Tables
    BY TableOfIs
<1>8. Over(TableOf(w), TableOf(<<f>>)) = [TableOf(w) EXCEPT ![k] = v]
    BY <1>5, <1>6, <1>7 DEF Over, Tables
<1>9. TableOf(w \o <<f>>) = Over(TableOf(w), TableOf(<<f>>))
    BY <1>3, TableOfConcat
<1> QED BY <1>1, <1>2, <1>4, <1>5, <1>8, <1>9, AppendProperties

LEMMA TableOfEmpty == <<>> \in Seq(Whole) /\ TableOf(<<>>) = NoTable
<1>0. <<>> \in Seq(Whole)
    OBVIOUS
<1>1. PICK w \in Seq(Whole) : w = <<>>
    BY <1>0
<1>2. \A i \in 1..Len(w) : FALSE
    BY <1>1
<1>3. \A k \in Keys : TableOf(w)[k] = Absent
    BY <1>2, TableOfNone
<1>4. TableOf(w) = NoTable
    BY <1>3, TableOfIs, NoTableType DEF Tables
<1> QED BY <1>1, <1>4

\* A WAL without a torn frame consists of whole frames.
LEMMA UntornWhole ==
    ASSUME NEW w \in Seq(Frames), Untorn(w)
    PROVE  w \in Seq(Whole) /\ Replayed(w) = w
<1>1. {i \in DOMAIN w : w[i] = Torn} = {}
    BY DEF Untorn
<1>2. Replayed(w) = w
    BY <1>1 DEF Replayed
<1> QED BY <1>2, ReplayedIs

\* What is appended to a WAL leaves its torn frames where they are.
LEMMA UntornBefore ==
    ASSUME NEW w \in Seq(Frames), NEW u \in Seq(Frames), Untorn(w \o u)
    PROVE  Untorn(w)
<1>1. Len(w) \in Nat /\ Len(u) \in Nat /\ DOMAIN w = 1..Len(w)
    BY LenProperties
<1>2. PICK x : x = w \o u
    OBVIOUS
<1>3. /\ x \in Seq(Frames) /\ Len(x) = Len(w) + Len(u)
      /\ \A i \in 1..Len(w) + Len(u) : x[i] = IF i <= Len(w) THEN w[i] ELSE u[i - Len(w)]
    BY <1>2, ConcatProperties
<1>4. DOMAIN x = 1..Len(w) + Len(u)
    BY <1>3, LenProperties
<1>5. \A i \in 1..Len(w) : i \in 1..Len(w) + Len(u) /\ i <= Len(w)
    BY <1>1
<1> QED BY <1>1, <1>2, <1>3, <1>4, <1>5 DEF Untorn

\* Tables alike stay alike under a memtable that hides as much or more.
LEMMA AlikeUnder ==
    ASSUME NEW a, NEW b, NEW m, NEW n, Alike(a, b, m),
           \A k \in Keys : n[k] = Absent => m[k] = Absent
    PROVE  Alike(a, b, n)
BY DEF Alike

\* A reader sees the same through tables that are alike.
LEMMA AlikeSeen ==
    ASSUME NEW a \in Tables, NEW b \in Tables, NEW m \in Tables, Alike(a, b, m)
    PROVE  Seen(Over(a, m)) = Seen(Over(b, m))
BY DEF Alike, Seen, Over, Tables

\* A table hides the same of both.
LEMMA AlikeOver ==
    ASSUME NEW a \in Tables, NEW b \in Tables, NEW m \in Tables, Alike(a, b, m)
    PROVE  Alike(Over(a, m), Over(b, m), m) /\ Alike(a, Over(b, m), m)
BY DEF Alike, Seen, Over, Tables

\* Dropping the tombstones shows in neither.
LEMMA AlikeRetain ==
    ASSUME NEW a \in Tables, NEW m \in Tables
    PROVE  Alike(a, Retain(a), m) /\ Alike(Retain(a), Retain(a), m)
BY SlotNames DEF Alike, Seen, Retain, Tables

\* What ReadInv speaks of are tables.
LEMMA ReadTypes ==
    ASSUME TypeOK
    PROVE  /\ memtable \in Tables /\ Merged(sstables) \in Tables /\ txn.table \in Tables
           /\ Flushed(manifest) \in Tables /\ Flushed(man.m) \in Tables
           /\ txn.op \in Nat /\ TablesOf(manifest) \in Seq(Tables) /\ wal \in Seq(Frames)
<1>1. sstables \in Seq(Tables) /\ memtable \in Tables /\ txn \in [op : Nat, table : Tables]
      /\ wal \in Seq(Frames)
    BY DEF TypeOK
<1>2. TablesOf(manifest) \in Seq(Tables) /\ TablesOf(man.m) \in Seq(Tables)
    BY NamedFiles, TablesOfType
<1> QED BY <1>1, <1>2, MergedIs DEF Flushed

LEMMA ReadInit == Init => ReadInv
<1> SUFFICES ASSUME Init PROVE ReadInv
    OBVIOUS
<1>0. wal = <<>> /\ step = "idle" /\ memtable = NoTable /\ sstables = <<>>
      /\ manifest = DefaultManifest /\ man = [m |-> DefaultManifest, len |-> 0, ok |-> TRUE]
    BY DEF Init
<1>1. TablesOf(manifest) = <<>>
    BY <1>0 DEF TablesOf, DefaultManifest
<1>2. man.m = manifest
    BY <1>0
<1>3. TableOf(wal) = memtable
    BY <1>0, TableOfEmpty
<1>4. Flushed(manifest) = Merged(sstables)
    BY <1>0, <1>1 DEF Flushed
<1> QED BY <1>0, <1>2, <1>3, <1>4 DEF ReadInv, Alike

LEMMA ReadCommit ==
    ASSUME TypeOK, TypeOK', StepInv, ReadInv,
           NEW n \in 1..MaxOp, NEW k \in Keys, NEW v \in Values \cup {None}, Commit(n, k, v)
    PROVE  ReadInv'
<1>1. up /\ step = "idle" /\ UNCHANGED <<up, step, man, ssts, manifest, sstables>>
    BY DEF Commit, Idle, disk
<1>2. Flushed(manifest)' = Flushed(manifest) /\ Readable' = Readable
    BY <1>1 DEF Flushed, TablesOf, Readable
<1>3. CASE UNCHANGED <<wal, memtable>>
    BY <1>1, <1>2, <1>3 DEF ReadInv
<1>4. CASE wal' = Append(wal, Frame(n, k, v)) /\ memtable' = [memtable EXCEPT ![k] = v]
    <2>1. PICK f : f = Frame(n, k, v)
        OBVIOUS
    <2>2. n \in Nat /\ f \in Frames /\ v # Absent
        <3>1. n \in Nat
            BY BoundsAre
        <3>2. f \in Whole
            BY <2>1, <3>1 DEF Frame, Whole
        <3> QED BY <3>1, <3>2, BoundsAre, ValuesAssumption, SlotNames
    <2>3. ASSUME Untorn(wal') PROVE memtable' = TableOf(wal')
        <3>1. wal' = wal \o <<f>> /\ <<f>> \in Seq(Frames)
            BY <1>4, <2>1, <2>2, ReadTypes, AppendIsConcat
        <3>2. Untorn(wal)
            BY <2>3, <3>1, ReadTypes, UntornBefore
        <3>3. wal \in Seq(Whole) /\ memtable = TableOf(wal)
            BY <1>1, <3>2, ReadTypes, UntornWhole DEF ReadInv
        <3> QED BY <1>4, <2>2, <3>3, TableOfAppend
    <2>4. \A l \in Keys : memtable'[l] = Absent => memtable[l] = Absent
        BY <1>4, <2>2, ReadTypes DEF Tables
    <2>5. Alike(Merged(sstables), Flushed(manifest), memtable')
        BY <1>1, <2>4, AlikeUnder DEF ReadInv
    <2> QED BY <1>1, <1>2, <2>3, <2>5 DEF ReadInv
<1> QED BY <1>3, <1>4 DEF Commit, disk

LEMMA ReadTxn ==
    ASSUME TypeOK, TypeOK', StepInv, ReadInv, UNCHANGED autosync,
           Sync \/ BeginTxn \/ AbortTxn \/ AppendTxn \/ SyncTxn \/ SkipCompact
    PROVE  ReadInv'
<1>1. up /\ UNCHANGED <<up, man, ssts, manifest, sstables>>
    BY DEF Sync, BeginTxn, AbortTxn, AppendTxn, SyncTxn, SkipCompact, Idle, disk, memory
<1>2. Flushed(manifest)' = Flushed(manifest) /\ Readable' = Readable
    BY <1>1 DEF Flushed, TablesOf, Readable
<1>3. CASE Sync \/ BeginTxn \/ AbortTxn \/ SkipCompact
    <2>1. UNCHANGED <<wal, memtable>> /\ step' = "idle" /\ step \in {"idle", "compact"}
        BY <1>3 DEF Sync, BeginTxn, AbortTxn, SkipCompact, Idle, disk, memory
    <2> QED BY <1>1, <1>2, <2>1 DEF ReadInv
<1>4. CASE AppendTxn
    <2>1. step = "idle" /\ step' = "commit_txn" /\ UNCHANGED <<memtable, txn>>
        BY <1>4 DEF AppendTxn, Idle, memory
    <2>2. PICK b : b = Batch(txn.op, txn.table)
        OBVIOUS
    <2>3. wal' = wal \o b
        BY <1>4, <2>2, TypeAppendTxn
    <2>4. b \in Seq(Whole) /\ TableOf(b) = txn.table /\ b \in Seq(Frames)
        BY <2>2, ReadTypes, BatchIs, TableOfBatch, WholeFrames
    <2>5. ASSUME Untorn(wal') PROVE TableOf(wal') = Over(memtable, txn.table)
        <3>1. Untorn(wal)
            BY <2>3, <2>4, <2>5, ReadTypes, UntornBefore
        <3>2. wal \in Seq(Whole) /\ memtable = TableOf(wal)
            BY <1>1, <2>1, <3>1, ReadTypes, UntornWhole DEF ReadInv
        <3> QED BY <2>3, <2>4, <3>2, TableOfConcat
    <2> QED BY <1>1, <1>2, <2>1, <2>5 DEF ReadInv
<1>5. CASE SyncTxn
    <2>1. /\ step = "commit_txn" /\ step' = "idle" /\ wal' = wal
          /\ memtable' = Over(memtable, txn.table)
        BY <1>5 DEF SyncTxn
    <2>2. \A k \in Keys : memtable'[k] = Absent => memtable[k] = Absent
        BY <2>1 DEF Over
    <2>3. Alike(Merged(sstables), Flushed(manifest), memtable')
        BY <1>1, <2>2, AlikeUnder DEF ReadInv
    <2> QED BY <1>1, <1>2, <2>1, <2>3 DEF ReadInv
<1> QED BY <1>3, <1>4, <1>5

\* The file that flush or compaction writes is not one of the manifest's.
LEMMA WrittenElsewhere ==
    ASSUME TypeOK, TypeOK', StepInv, FileInv, WriteSsTable \/ WriteMerged
    PROVE  TablesOf(manifest)' = TablesOf(manifest)
<1>1. PICK x : x = manifest.next_sst
    OBVIOUS
<1>2. /\ up /\ manifest' = manifest
      /\ \E t, top : ssts' = [ssts EXCEPT ![x] = Written(ssts[x], t, top)]
    BY <1>1 DEF WriteSsTable, WriteMerged, Idle, memory
<1>3. \A n \in Range(manifest.sstables) : n \in Names /\ n # x
    <2> TAKE n \in Range(manifest.sstables)
    <2>1. n < x /\ n \in Names
        BY <1>1, <1>2, NamedFiles DEF FileInv, Sound
    <2>2. n \in Nat /\ x \in Nat
        BY <1>1, <2>1, BoundsAre, NumberTypes
    <2> QED BY <2>1, <2>2
<1>4. \A n \in Range(manifest.sstables) : ssts'[n] = ssts[n]
    BY <1>2, <1>3 DEF TypeOK
<1>5. \A i \in DOMAIN manifest.sstables : ssts'[manifest.sstables[i]] = ssts[manifest.sstables[i]]
    BY <1>4 DEF Range
<1> QED BY <1>2, <1>5 DEF TablesOf

\* The tables on disk once the manifest is replaced.
LEMMA FlushedMore ==
    ASSUME TypeOK, TypeOK', StepInv, TableInv, FlushManifest
    PROVE  /\ TablesOf(manifest)' = Append(TablesOf(manifest), memtable)
           /\ Flushed(manifest)' = Over(Flushed(manifest), memtable)
           /\ manifest'.sstables = Append(manifest.sstables, manifest.next_sst)
           /\ Len(manifest'.sstables) = Len(manifest.sstables) + 1
           /\ man'.m = manifest' /\ man'.ok = TRUE
           /\ man'.len = Max({man.len, Len(manifest'.sstables)})
<1>1. PICK x : x = manifest.next_sst
    OBVIOUS
<1>2. ssts' = ssts /\ ssts[x].table = memtable
    BY <1>1 DEF FlushManifest, TableInv, NextFile
<1>3. PICK q : q = manifest.sstables
    OBVIOUS
<1>4. q \in Seq(Names) /\ x \in Names
    <2>1. x \in Nat /\ x < MaxSst
        BY <1>1, NumberTypes DEF FlushManifest, StepInv
    <2> QED BY <1>3, <2>1, BoundsAre DEF TypeOK, Manifests, Names
<1>5. manifest'.sstables = Append(q, x) /\ man'.m = manifest' /\ man'.ok = TRUE
      /\ man'.len = Max({man.len, Len(manifest'.sstables)})
    BY <1>1, <1>3 DEF FlushManifest, write_manifest
<1>6. /\ Len(Append(q, x)) = Len(q) + 1 /\ Len(q) \in Nat /\ Append(q, x)[Len(q) + 1] = x
      /\ \A i \in 1..Len(q) : Append(q, x)[i] = q[i]
      /\ DOMAIN Append(q, x) = 1..Len(q) + 1
    <2>1. Append(q, x) \in Seq(Names) /\ Len(Append(q, x)) = Len(q) + 1 /\ Len(q) \in Nat
        BY <1>4, AppendProperties, LenProperties
    <2> QED BY <1>4, <2>1, AppendProperties, LenProperties
<1>7. TablesOf(manifest)' = [i \in 1..Len(q) + 1 |-> ssts[Append(q, x)[i]].table]
    BY <1>2, <1>5, <1>6 DEF TablesOf
<1>8. TablesOf(manifest) \in Seq(Tables) /\ Len(TablesOf(manifest)) = Len(q) /\ memtable \in Tables
      /\ \A i \in 1..Len(q) : TablesOf(manifest)[i] = ssts[q[i]].table
    BY <1>3, TablesOfType DEF TypeOK
<1>9. TablesOf(manifest)' = Append(TablesOf(manifest), memtable)
    <2>1. PICK r : r = TablesOf(manifest)
        OBVIOUS
    <2>2. /\ Append(r, memtable) \in Seq(Tables) /\ Len(Append(r, memtable)) = Len(q) + 1
          /\ \A i \in 1..Len(q) : Append(r, memtable)[i] = r[i]
          /\ Append(r, memtable)[Len(q) + 1] = memtable
        BY <1>8, <2>1, AppendProperties
    <2>3. PICK s : s = TablesOf(manifest)'
        OBVIOUS
    <2>4. \A i \in 1..Len(q) + 1 : s[i] = Append(r, memtable)[i]
        <3> TAKE i \in 1..Len(q) + 1
        <3>1. i \in 1..Len(q) \/ i = Len(q) + 1
            BY <1>6
        <3>2. s[i] = ssts[Append(q, x)[i]].table
            BY <1>7, <2>3
        <3> QED BY <1>2, <1>6, <1>8, <2>1, <2>2, <3>1, <3>2
    <2>5. s \in Seq(Tables) /\ Len(s) = Len(q) + 1
        <3>1. DOMAIN s = 1..Len(q) + 1 /\ s = [i \in 1..Len(q) + 1 |-> s[i]]
            BY <1>7, <2>3
        <3>2. \A i \in 1..Len(q) + 1 : s[i] \in Tables
            BY <2>2, <2>4, ElementOfSeq
        <3>3. s \in [1..Len(q) + 1 -> Tables]
            BY <3>1, <3>2
        <3>4. Len(q) + 1 \in Nat
            BY <1>6
        <3> QED BY <3>3, <3>4, SeqDef, LenProperties
    <2>6. s = Append(r, memtable)
        BY <2>2, <2>4, <2>5, SeqEqual
    <2> QED BY <2>1, <2>3, <2>6
<1>10. Flushed(manifest)' = Over(Flushed(manifest), memtable)
    <2>1. PICK r : r = TablesOf(manifest)
        OBVIOUS
    <2>2. Merged(Append(r, memtable)) = Over(Merged(r), memtable)
        BY <1>8, <2>1, MergedAppend
    <2> QED BY <1>9, <2>1, <2>2 DEF Flushed
<1> QED BY <1>1, <1>3, <1>5, <1>6, <1>9, <1>10

LEMMA ReadFlush ==
    ASSUME TypeOK, TypeOK', StepInv, FileInv, TableInv, ReadInv,
           WriteSsTable \/ FlushManifest \/ ResetWal
    PROVE  ReadInv'
<1>0. up /\ up'
    BY DEF WriteSsTable, FlushManifest, ResetWal, Idle
<1>1. CASE WriteSsTable
    <2>1. /\ step = "idle" /\ step' = "flush_manifest"
          /\ UNCHANGED <<wal, man, up, manifest, memtable, sstables>>
        BY <1>1 DEF WriteSsTable, Idle, memory
    <2>2. Flushed(manifest)' = Flushed(manifest) /\ Readable' = Readable
        BY <1>1, <2>1, WrittenElsewhere DEF Flushed, Readable
    <2> QED BY <2>1, <2>2 DEF ReadInv
<1>2. CASE FlushManifest
    <2>1. /\ step = "flush_manifest" /\ step' \in {"flush_reset", "idle"}
          /\ UNCHANGED <<wal, memtable>>
          /\ sstables' = sstables \/ sstables' = Append(sstables, memtable)
        BY <1>2 DEF FlushManifest, TableInv, NextFile
    <2>2. Flushed(manifest)' = Over(Flushed(manifest), memtable) /\ man'.m = manifest'
        BY <1>2, FlushedMore
    <2>3. Alike(Merged(sstables), Flushed(manifest), memtable)
        BY <1>0 DEF ReadInv
    <2>4. Merged(sstables') \in {Merged(sstables), Over(Merged(sstables), memtable)}
        <3>1. Merged(Append(sstables, memtable)) = Over(Merged(sstables), memtable)
            BY MergedAppend DEF TypeOK
        <3> QED BY <2>1, <3>1
    <2>5. Alike(Merged(sstables'), Over(Flushed(manifest), memtable), memtable)
        BY <2>3, <2>4, ReadTypes, AlikeOver
    <2>6. Over(Over(Flushed(manifest), memtable), memtable) = Over(Flushed(manifest), memtable)
        BY ReadTypes, OverTwice
    <2>7. Untorn(wal) => memtable = TableOf(wal)
        BY <1>0, <2>1 DEF ReadInv
    <2> QED BY <1>0, <2>1, <2>2, <2>5, <2>6, <2>7 DEF ReadInv
<1>3. CASE ResetWal
    <2>1. /\ step = "flush_reset" /\ step' \in {"idle", "compact"} /\ wal' = <<>>
          /\ memtable' = NoTable /\ UNCHANGED <<man, ssts, manifest, sstables>>
        BY <1>3 DEF ResetWal
    <2>2. Flushed(manifest)' = Flushed(manifest) /\ Readable' = Readable
        BY <2>1 DEF Flushed, TablesOf, Readable
    <2>3. /\ Alike(Merged(sstables), Flushed(manifest), memtable)
          /\ Over(Flushed(manifest), memtable) = Flushed(manifest)
        BY <1>0, <2>1 DEF ReadInv
    <2>4. Over(Merged(sstables), memtable) = Merged(sstables)
        BY <2>1, LastHides DEF TypeOK, TableInv
    <2>5. Seen(Merged(sstables)) = Seen(Flushed(manifest))
        <3>1. Seen(Over(Merged(sstables), memtable)) = Seen(Over(Flushed(manifest), memtable))
            BY <2>3, ReadTypes, AlikeSeen
        <3> QED BY <2>3, <2>4, <3>1
    <2>6. Alike(Merged(sstables), Flushed(manifest), NoTable)
        BY <2>5 DEF Alike
    <2> QED BY <1>0, <2>1, <2>2, <2>6, TableOfEmpty DEF ReadInv
<1> QED BY <1>1, <1>2, <1>3

LEMMA ReadCompact ==
    ASSUME TypeOK, TypeOK', StepInv, FileInv, TableInv, ReadInv,
           WriteMerged \/ CompactManifest \/ RemoveOld
    PROVE  ReadInv'
<1>1. CASE WriteMerged
    <2>1. /\ up /\ step = "compact" /\ step' = "compact_manifest"
          /\ UNCHANGED <<wal, man, up, manifest, memtable, sstables>>
        BY <1>1 DEF WriteMerged, memory
    <2>2. Flushed(manifest)' = Flushed(manifest) /\ Readable' = Readable
        BY <1>1, <2>1, WrittenElsewhere DEF Flushed, Readable
    <2> QED BY <2>1, <2>2 DEF ReadInv
<1>2. CASE CompactManifest
    <2>1. /\ up /\ step = "compact_manifest" /\ step' = "compact_remove"
          /\ UNCHANGED <<wal, ssts, up, manifest, memtable, sstables>>
        BY <1>2 DEF CompactManifest, memory
    <2>2. Flushed(manifest)' = Flushed(manifest)
        BY <2>1 DEF Flushed, TablesOf
    <2> QED BY <2>1, <2>2 DEF ReadInv
<1>3. CASE RemoveOld
    <2>1. PICK x : x = manifest.next_sst
        OBVIOUS
    <2>2. /\ up /\ up' /\ step = "compact_remove" /\ step' = "idle" /\ UNCHANGED <<wal, man, memtable>>
          /\ manifest' = man.m
          /\ ssts' = [n \in Names |-> IF n \in Range(manifest.sstables) THEN NoFile ELSE ssts[n]]
          /\ sstables' = sstables \/ sstables' = <<ssts'[x].table>>
        BY <1>3, <2>1 DEF RemoveOld
    <2>3. x \in Names /\ x \notin Range(manifest.sstables)
        <3>1. x \in Nat /\ x \in Names
            BY <2>1, <2>2, NumberTypes, BoundsAre DEF Names, StepInv
        <3>2. \A n \in Range(manifest.sstables) : n \in Nat /\ n < x
            BY <2>1, <2>2, NamedFiles, BoundsAre DEF FileInv, Sound
        <3> QED BY <3>1, <3>2
    <2>4. ssts'[x].table = Retain(Merged(sstables))
        BY <2>1, <2>2, <2>3 DEF TableInv, NextFile
    <2>5. PICK a \in Tables : a = Merged(sstables)
        BY ReadTypes
    <2>6. PICK t \in Tables : t = Retain(a)
        BY RetainType
    <2>7. Flushed(manifest)' = t
        <3>1. manifest'.sstables = <<x>>
            BY <2>1, <2>2 DEF FileInv, Compacted
        <3>2. TablesOf(manifest)' = <<t>>
            BY <2>4, <2>5, <2>6, <3>1 DEF TablesOf
        <3> QED BY <3>2, MergedOne DEF Flushed
    <2>8. Merged(sstables') \in {a, t}
        <3>1. Merged(<<t>>) = t
            BY MergedOne
        <3> QED BY <2>2, <2>4, <2>5, <2>6, <3>1
    <2>9. Alike(Merged(sstables'), t, memtable)
        BY <2>6, <2>8, ReadTypes, AlikeRetain
    <2>10. Untorn(wal) => memtable = TableOf(wal)
        BY <2>2 DEF ReadInv
    <2> QED BY <2>2, <2>7, <2>9, <2>10 DEF ReadInv
<1> QED BY <1>1, <1>2, <1>3

LEMMA ReadStops ==
    ASSUME TypeOK, TypeOK', StepInv, ReadInv, Crash \/ Exit \/ Open
    PROVE  ReadInv'
<1>1. CASE Crash \/ Exit
    <2>1. up' = FALSE /\ step' = "idle"
        BY <1>1 DEF Crash, Exit, Stop
    <2> QED BY <2>1 DEF ReadInv
<1>2. CASE Open
    <2>1. /\ step' = "idle" /\ UNCHANGED <<wal, man, ssts>> /\ manifest' = read_manifest(man)
          /\ sstables' = TablesOf(read_manifest(man)) /\ memtable' = TableOf(Replayed(wal))
        BY <1>2 DEF Open, disk, Recovered
    <2>2. Readable => manifest' = man.m
        BY <2>1 DEF Readable, read_manifest
    <2>3. Untorn(wal) => memtable' = TableOf(wal)
        BY <2>1, ReadTypes, UntornWhole
    <2>4. Flushed(manifest)' = Merged(sstables')
        BY <2>1 DEF Flushed, TablesOf
    <2> QED BY <2>1, <2>2, <2>3, <2>4 DEF ReadInv, Alike, Readable
<1> QED BY <1>1, <1>2

LEMMA ReadStep ==
    ASSUME TypeOK, StepInv, FileInv, TableInv, ReadInv, [Next]_vars
    PROVE  ReadInv'
<1>0. TypeOK'
    BY TypeStep
<1>1. CASE UNCHANGED vars
    BY <1>1 DEF vars, disk, memory, ReadInv, Flushed, TablesOf, Readable
<1>2. CASE Next
    BY <1>0, <1>2, ReadCommit, ReadTxn, ReadFlush, ReadCompact, ReadStops DEF Next
<1> QED BY <1>1, <1>2

\* The inductive invariant of the engine and its files.
AllInv == TypeOK /\ StepInv /\ FileInv /\ TableInv /\ ReadInv

LEMMA ReadsCorrect == Spec => []AllInv
<1>1. Init => AllInv
    BY TypeInit, FileInit, ReadInit DEF AllInv
<1>2. AllInv /\ [Next]_vars => AllInv'
    BY TypeStep, FileStep, ReadStep DEF AllInv
<1> QED BY <1>1, <1>2, PTL DEF Spec

(* Whatever the engine went through before - flushes and compactions, some   *)
(* of which could not open the file they wrote, crashes in the middle of     *)
(* them, half-written manifests and torn WAL tails - when the manifest can   *)
(* be read and no torn frame stands in the WAL, closing the engine between   *)
(* two operations and opening it again changes nothing a reader sees.        *)
THEOREM UndamagedSame == Spec => []UndamagedReadsSame
<1>1. ASSUME AllInv, Idle, Undamaged PROVE View = OnDisk(wal)
    <2>1. TypeOK /\ ReadInv /\ up /\ step = "idle"
        BY <1>1 DEF AllInv, Idle
    <2>2. Readable /\ Untorn(wal)
        BY <1>1 DEF Undamaged, Readable, Untorn
    <2>3. read_manifest(man) = manifest /\ Replayed(wal) = wal /\ memtable = TableOf(wal)
        BY <2>1, <2>2, ReadTypes, UntornWhole DEF ReadInv, Readable, read_manifest
    <2>4. Seen(Over(Merged(sstables), memtable)) = Seen(Over(Flushed(manifest), memtable))
        BY <2>1, ReadTypes, AlikeSeen DEF ReadInv
    <2> QED BY <2>3, <2>4 DEF View, OnDisk, Flushed
<1>2. AllInv => UndamagedReadsSame
    BY <1>1 DEF UndamagedReadsSame
<1> QED BY <1>2, ReadsCorrect, PTL

============================================================================
