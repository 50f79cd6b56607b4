------------------------------ MODULE PolicyProofs ------------------------------
(******************************************************************************)
(* Proofs about PolicyLifecycle: an approval is earned, whatever was replaced *)
(* since, the threshold that is locked is the best one there is, the reports  *)
(* count every row once, and the trees that are accepted can be walked.       *)
(******************************************************************************)
EXTENDS PolicyLifecycle, FiniteSetTheorems, FunctionTheorems, SequenceTheorems,
        WellFoundedInduction, TLAPS

--------------------------------------------------------------------------------
(* The order of keys.                                                         *)

Keys(n) == [1 .. n -> Int]

\* Tuples of one length are ordered strictly.
LEMMA PrecedesIsStrict ==
  ASSUME NEW n \in Nat, NEW a \in Keys(n), NEW b \in Keys(n), NEW c \in Keys(n)
  PROVE  /\ ~Precedes(a, a)
         /\ Precedes(a, b) /\ Precedes(b, c) => Precedes(a, c)
<1>1. ~Precedes(a, a)
  BY DEF Precedes, Keys
<1>2. ASSUME Precedes(a, b), Precedes(b, c)
      PROVE  Precedes(a, c)
  <2>1. PICK i \in 1 .. n : a[i] < b[i] /\ \A j \in 1 .. i - 1 : a[j] = b[j]
    BY <1>2 DEF Precedes, Keys
  <2>2. PICK k \in 1 .. n : b[k] < c[k] /\ \A j \in 1 .. k - 1 : b[j] = c[j]
    BY <1>2 DEF Precedes, Keys
  <2> DEFINE m == IF i < k THEN i ELSE k
  <2>3. m \in 1 .. n /\ m <= i /\ m <= k
    OBVIOUS
  <2>4. a[m] < c[m]
    <3>1. CASE i < k
      BY <3>1, <2>1, <2>2 DEF Keys
    <3>2. CASE i = k
      BY <3>2, <2>1, <2>2 DEF Keys
    <3>3. CASE k < i
      BY <3>3, <2>1, <2>2 DEF Keys
    <3> QED
      BY <3>1, <3>2, <3>3
  <2>5. \A j \in 1 .. m - 1 : a[j] = c[j]
    BY <2>1, <2>2
  <2> QED
    BY <2>3, <2>4, <2>5 DEF Precedes, Keys
<1> QED
  BY <1>1, <1>2

\* Of finitely many entries, one has a key that no other precedes.
LEMMA FirstComesFirst ==
  ASSUME NEW S, IsFiniteSet(S), S # {}, NEW n \in Nat, NEW key \in [S -> Keys(n)]
  PROVE  /\ First(key) \in S
         /\ \A y \in S : ~Precedes(key[y], key[First(key)])
<1> DEFINE before == [x \in S |-> {y \in S : Precedes(key[y], key[x])}]
           befores == {before[x] : x \in S}
           R == StrictSubsetOrdering(S)
<1>1. befores \subseteq FiniteSubsetsOf(S) /\ befores # {}
  <2>1. \A x \in S : before[x] \in SUBSET S
    OBVIOUS
  <2>2. \A x \in S : IsFiniteSet(before[x])
    BY <2>1, FS_Subset
  <2> QED
    BY <2>1, <2>2 DEF FiniteSubsetsOf
<1>2. PICK B \in befores : \A C \in befores : ~(<<C, B>> \in R)
  BY <1>1, FS_StrictSubsetOrderingWellFounded, WFMin
<1>3. PICK x \in S : B = before[x]
  OBVIOUS
<1>4. \A y \in S : ~Precedes(key[y], key[x])
  <2> SUFFICES ASSUME NEW y \in S, Precedes(key[y], key[x])
               PROVE  FALSE
    OBVIOUS
  <2>1. before[y] \subseteq before[x]
    <3> SUFFICES ASSUME NEW z \in S, Precedes(key[z], key[y])
                 PROVE  Precedes(key[z], key[x])
      OBVIOUS
    <3> QED
      BY PrecedesIsStrict
  <2>2. y \in before[x] /\ y \notin before[y]
    BY PrecedesIsStrict
  <2>3. <<before[y], before[x]>> \in R
    BY <1>1, <2>1, <2>2 DEF StrictSubsetOrdering, FiniteSubsetsOf
  <2> QED
    BY <1>2, <1>3, <2>3
<1> QED
  BY <1>4 DEF First

--------------------------------------------------------------------------------
(* The threshold that is locked.                                              *)

Tried(batch) == ScoresOf(batch) \cup {0, One}

MetricsTried(batch) == {ThresholdMetrics(batch, t) : t \in Tried(batch)}

RowsWhere(batch, threshold, flagged, attack) ==
    {i \in DOMAIN batch : (batch[i].score >= threshold) = flagged /\ batch[i].attack = attack}

MetricsType == [threshold : 0 .. One, truePositive : Nat, falsePositive : Nat, falseNegative : Nat,
                trueNegative : Nat, precision : Nat, cost : Nat]

\* Scores, and the thresholds tried, are probabilities, finitely many.
LEMMA ScoresAreProbabilities ==
  ASSUME NEW batch \in Seq(ScoredRows)
  PROVE  /\ \A i \in DOMAIN batch : batch[i].score \in 0 .. One /\ batch[i].attack \in BOOLEAN
         /\ ScoresOf(batch) \subseteq 0 .. One
         /\ Tried(batch) \subseteq 0 .. One /\ One \in Tried(batch) /\ IsFiniteSet(Tried(batch))
         /\ DOMAIN batch = 1 .. Len(batch) /\ Len(batch) \in Nat /\ IsFiniteSet(DOMAIN batch)
<1>1. DOMAIN batch = 1 .. Len(batch) /\ Len(batch) \in Nat
  OBVIOUS
<1>2. \A i \in DOMAIN batch : batch[i] \in ScoredRows
  OBVIOUS
<1>3. \A i \in DOMAIN batch : batch[i].score \in 0 .. One /\ batch[i].attack \in BOOLEAN
  BY <1>2 DEF ScoredRows
<1>4. ScoresOf(batch) \subseteq 0 .. One
  BY <1>3 DEF ScoresOf
<1>5. Tried(batch) \subseteq 0 .. One /\ One \in Tried(batch)
  BY <1>4, OneAssumption DEF Tried
<1>6. IsFiniteSet(0 .. One) /\ IsFiniteSet(1 .. Len(batch))
  BY <1>1, FS_Interval, OneAssumption
<1>7. IsFiniteSet(Tried(batch))
  BY <1>5, <1>6, FS_Subset
<1> QED
  BY <1>1, <1>3, <1>4, <1>5, <1>6, <1>7

\* A rate is a natural number.
LEMMA RateType ==
  ASSUME NEW n \in Nat, NEW d \in Nat
  PROVE  Rate(n, d) \in Nat
<1>1. CASE d = 0
  BY <1>1 DEF Rate
<1>2. CASE d # 0
  <2>1. n * 60 \in Nat /\ d \in Nat \ {0}
    BY <1>2
  <2>2. \A x \in Nat, y \in Nat \ {0} : x \div y \in Nat
    OBVIOUS
  <2> QED
    BY <2>1, <2>2, <1>2 DEF Rate
<1> QED
  BY <1>1, <1>2

\* What is measured of a threshold, and of which threshold.
LEMMA MetricsAreTyped ==
  ASSUME NEW batch \in Seq(ScoredRows), NEW t \in 0 .. One
  PROVE  /\ ThresholdMetrics(batch, t) \in MetricsType
         /\ ThresholdMetrics(batch, t).threshold = t
<1> DEFINE tp == Cardinality(RowsWhere(batch, t, TRUE, TRUE))
           fp == Cardinality(RowsWhere(batch, t, TRUE, FALSE))
           fn == Cardinality(RowsWhere(batch, t, FALSE, TRUE))
           tn == Cardinality(RowsWhere(batch, t, FALSE, FALSE))
<1>1. \A f \in BOOLEAN, a \in BOOLEAN : Cardinality(RowsWhere(batch, t, f, a)) \in Nat
  <2> SUFFICES ASSUME NEW f \in BOOLEAN, NEW a \in BOOLEAN
               PROVE  Cardinality(RowsWhere(batch, t, f, a)) \in Nat
    OBVIOUS
  <2>1. RowsWhere(batch, t, f, a) \in SUBSET (DOMAIN batch)
    BY DEF RowsWhere
  <2> QED
    BY <2>1, ScoresAreProbabilities, FS_Subset, FS_CardinalityType
<1>2. ThresholdMetrics(batch, t) =
        [threshold |-> t,
         truePositive |-> tp, falsePositive |-> fp, falseNegative |-> fn, trueNegative |-> tn,
         precision |-> Rate(tp, tp + fp),
         cost |-> fp * LockedCosts.falsePositive + fn * LockedCosts.falseNegative]
  BY DEF ThresholdMetrics, RowsWhere
<1>3. tp \in Nat /\ fp \in Nat /\ fn \in Nat /\ tn \in Nat
  BY <1>1
<1> HIDE DEF tp, fp, fn, tn
<1>4. Rate(tp, tp + fp) \in Nat
  <2>1. tp \in Nat /\ tp + fp \in Nat
    BY <1>3
  <2> QED
    BY <2>1, RateType
<1>5. fp * LockedCosts.falsePositive + fn * LockedCosts.falseNegative \in Nat
  BY <1>3 DEF LockedCosts
<1> HIDE DEF LockedCosts
<1>6. \A precision \in Nat, cost \in Nat :
        [threshold |-> t,
         truePositive |-> tp, falsePositive |-> fp, falseNegative |-> fn, trueNegative |-> tn,
         precision |-> precision, cost |-> cost] \in MetricsType
  BY <1>3 DEF MetricsType
<1>7. ThresholdMetrics(batch, t) \in MetricsType
  BY <1>2, <1>4, <1>5, <1>6
<1>8. ThresholdMetrics(batch, t).threshold = t
  BY <1>2
<1> QED
  BY <1>7, <1>8

\* The key of a threshold has five integers.
LEMMA ThresholdKeyType ==
  ASSUME NEW m \in MetricsType
  PROVE  ThresholdKey(m) \in Keys(5)
<1>1. /\ m.cost \in Int /\ m.falsePositive \in Int /\ -m.truePositive \in Int
      /\ -m.precision \in Int /\ -m.threshold \in Int
  BY OneAssumption DEF MetricsType
<1> QED
  BY <1>1 DEF ThresholdKey, Keys

\* Each candidate is represented by the first of its thresholds.
LEMMA SelectedThreshold ==
  ASSUME NEW batch \in Seq(ScoredRows)
  PROVE  /\ SelectThreshold(batch) \in MetricsType
         /\ \E t \in 0 .. One : SelectThreshold(batch) = ThresholdMetrics(batch, t)
         /\ \A t \in Tried(batch) :
              ~Precedes(ThresholdKey(ThresholdMetrics(batch, t)), ThresholdKey(SelectThreshold(batch)))
<1> DEFINE M == MetricsTried(batch)
           key == [m \in M |-> ThresholdKey(m)]
<1>1. M \subseteq MetricsType /\ M # {} /\ \A m \in M : \E t \in 0 .. One : m = ThresholdMetrics(batch, t)
  BY ScoresAreProbabilities, MetricsAreTyped DEF MetricsTried
<1>2. IsFiniteSet(M)
  <2> DEFINE f == [t \in Tried(batch) |-> ThresholdMetrics(batch, t)]
  <2>1. f \in Surjection(Tried(batch), M)
    BY DEF Surjection, MetricsTried
  <2> QED
    BY <2>1, ScoresAreProbabilities, FS_Surjection
<1>3. key \in [M -> Keys(5)]
  BY <1>1, ThresholdKeyType
<1>4. SelectThreshold(batch) = First(key)
  BY DEF SelectThreshold, MetricsTried, Tried
<1>5. First(key) \in M /\ \A m \in M : ~Precedes(key[m], key[First(key)])
  <2> HIDE DEF key, M
  <2> QED
    BY <1>1, <1>2, <1>3, FirstComesFirst
<1>6. \A t \in Tried(batch) : ThresholdMetrics(batch, t) \in M
  BY DEF MetricsTried
<1> HIDE DEF M
<1> QED
  BY <1>1, <1>4, <1>5, <1>6

\* A set of natural numbers has a least element.
LEMMA LeastElement ==
  ASSUME NEW U \in SUBSET Nat, U # {}
  PROVE  \E u \in U : \A v \in U : u <= v
<1>1. PICK u \in U : \A v \in U : ~(<<v, u>> \in OpToRel(<, Nat))
  BY NatLessThanWellFounded, WFMin
<1>2. \A v \in U : ~(v < u)
  BY <1>1 DEF OpToRel
<1> QED
  BY <1>2

\* The order of keys is total.
LEMMA PrecedesIsTotal ==
  ASSUME NEW n \in Nat, NEW a \in Keys(n), NEW b \in Keys(n), NEW c \in Keys(n),
         ~Precedes(a, b), ~Precedes(b, c)
  PROVE  ~Precedes(a, c)
<1> SUFFICES ASSUME NEW i \in 1 .. n, a[i] < c[i], \A j \in 1 .. i - 1 : a[j] = c[j]
             PROVE  FALSE
  BY DEF Precedes, Keys
<1> DEFINE D == {k \in 1 .. n : a[k] # b[k] \/ b[k] # c[k]}
<1>1. D \in SUBSET Nat /\ i \in D
  BY DEF Keys
<1>2. PICK k \in D : \A v \in D : k <= v
  BY <1>1, LeastElement
<1>3. k \in 1 .. n /\ k <= i /\ \A j \in 1 .. k - 1 : a[j] = b[j] /\ b[j] = c[j]
  BY <1>1, <1>2
<1>4. a[k] \in Int /\ b[k] \in Int /\ c[k] \in Int
  BY <1>3 DEF Keys
<1>5. ~(a[k] < b[k])
  BY <1>3, <1>4 DEF Precedes, Keys
<1>6. ~(b[k] < c[k])
  BY <1>3, <1>4 DEF Precedes, Keys
<1>7. CASE k < i
  <2>1. a[k] = c[k]
    BY <1>3, <1>7
  <2> QED
    BY <1>2, <1>4, <1>5, <1>6, <2>1
<1>8. CASE k = i
  BY <1>4, <1>5, <1>6, <1>8
<1> QED
  BY <1>3, <1>7, <1>8

BeginsWith(a, p, m) == \A i \in 1 .. m : a[i] = p[i]

\* What a key does not decide, its beginning does not decide either.
LEMMA PrefixPrecedes ==
  ASSUME NEW n \in Nat, NEW m \in 0 .. n,
         NEW a \in Keys(n), NEW b \in Keys(n), NEW p \in Keys(m), NEW q \in Keys(m),
         BeginsWith(a, p, m), BeginsWith(b, q, m), ~Precedes(a, b)
  PROVE  ~Precedes(p, q)
<1> SUFFICES ASSUME NEW i \in 1 .. m, p[i] < q[i], \A j \in 1 .. i - 1 : p[j] = q[j]
             PROVE  FALSE
  BY DEF Precedes, Keys
<1>1. i \in 1 .. n /\ a[i] < b[i]
  BY DEF BeginsWith
<1>2. \A j \in 1 .. i - 1 : a[j] = b[j]
  BY DEF BeginsWith
<1> QED
  BY <1>1, <1>2 DEF Precedes, Keys

\* Every threshold decides like one of those that were tried.
LEMMA TriedDecidesAlike ==
  ASSUME NEW batch \in Seq(ScoredRows), NEW t \in 0 .. One
  PROVE  \E u \in Tried(batch) : Flagged(batch, u) = Flagged(batch, t)
<1> DEFINE U == {u \in Tried(batch) : u >= t}
<1>1. U \in SUBSET Nat /\ One \in U
  BY ScoresAreProbabilities, OneAssumption
<1>2. PICK u \in U : \A v \in U : u <= v
  BY <1>1, LeastElement
<1>3. \A i \in DOMAIN batch : batch[i].score >= u <=> batch[i].score >= t
  <2> SUFFICES ASSUME NEW i \in DOMAIN batch
               PROVE  batch[i].score >= u <=> batch[i].score >= t
    OBVIOUS
  <2>1. batch[i].score \in Tried(batch) /\ batch[i].score \in Nat
    <3>1. batch[i].score \in Tried(batch)
      BY DEF Tried, ScoresOf
    <3> QED
      BY <3>1, ScoresAreProbabilities
  <2>2. batch[i].score >= t => batch[i].score \in U
    BY <2>1
  <2>3. u \in Nat /\ u >= t
    BY <1>1
  <2> QED
    BY <1>2, <2>1, <2>2, <2>3
<1>4. Flagged(batch, u) = Flagged(batch, t)
  BY <1>3 DEF Flagged
<1> QED
  BY <1>4

\* Thresholds that flag the same rows measure the same.
LEMMA AlikeMeasureAlike ==
  ASSUME NEW batch \in Seq(ScoredRows), NEW t \in 0 .. One, NEW u \in 0 .. One,
         Flagged(batch, t) = Flagged(batch, u)
  PROVE  LET m == ThresholdMetrics(batch, t)
             n == ThresholdMetrics(batch, u)
         IN  /\ m.cost = n.cost /\ m.falsePositive = n.falsePositive
             /\ m.truePositive = n.truePositive /\ m.precision = n.precision
<1>1. \A i \in DOMAIN batch : batch[i].score >= t <=> batch[i].score >= u
  BY DEF Flagged
<1>2. \A f \in BOOLEAN, a \in BOOLEAN : RowsWhere(batch, t, f, a) = RowsWhere(batch, u, f, a)
  <2> SUFFICES ASSUME NEW f \in BOOLEAN, NEW a \in BOOLEAN, NEW i \in DOMAIN batch
               PROVE  (batch[i].score >= t) = f <=> (batch[i].score >= u) = f
    BY DEF RowsWhere
  <2>1. batch[i].score >= t <=> batch[i].score >= u
    BY <1>1
  <2>2. CASE batch[i].score >= t
    BY <2>1, <2>2
  <2>3. CASE ~(batch[i].score >= t)
    BY <2>1, <2>3
  <2> QED
    BY <2>2, <2>3
<1>3. /\ RowsWhere(batch, t, TRUE, TRUE) = RowsWhere(batch, u, TRUE, TRUE)
      /\ RowsWhere(batch, t, TRUE, FALSE) = RowsWhere(batch, u, TRUE, FALSE)
      /\ RowsWhere(batch, t, FALSE, TRUE) = RowsWhere(batch, u, FALSE, TRUE)
      /\ RowsWhere(batch, t, FALSE, FALSE) = RowsWhere(batch, u, FALSE, FALSE)
  BY <1>2
<1>4. \A x \in {t, u} :
        LET tp == Cardinality(RowsWhere(batch, x, TRUE, TRUE))
            fp == Cardinality(RowsWhere(batch, x, TRUE, FALSE))
            fn == Cardinality(RowsWhere(batch, x, FALSE, TRUE))
        IN  /\ ThresholdMetrics(batch, x).cost = fp * LockedCosts.falsePositive + fn * LockedCosts.falseNegative
            /\ ThresholdMetrics(batch, x).falsePositive = fp
            /\ ThresholdMetrics(batch, x).truePositive = tp
            /\ ThresholdMetrics(batch, x).precision = Rate(tp, tp + fp)
  BY DEF ThresholdMetrics, RowsWhere
<1> QED
  BY <1>3, <1>4

\* A key with a further part is a key, and begins as it did.
LEMMA KeyAppended ==
  ASSUME NEW k \in Keys(5), NEW x \in Int
  PROVE  k \o <<x>> \in Keys(6) /\ \A i \in 1 .. 5 : (k \o <<x>>)[i] = k[i]
<1>1. k \in Seq(Int)
  <2>1. k \in [1 .. 5 -> Int]
    BY DEF Keys
  <2>2. Seq(Int) = UNION {[1 .. n -> Int] : n \in Nat}
    BY SeqDef
  <2> QED
    BY <2>1, <2>2
<1>2. Len(k) = 5
  <2>1. DOMAIN k = 1 .. 5 /\ DOMAIN k = 1 .. Len(k) /\ Len(k) \in Nat
    BY <1>1, LenProperties DEF Keys
  <2> QED
    BY <2>1
<1>3. <<x>> \in Seq(Int) /\ Len(<<x>>) = 1
  OBVIOUS
<1> DEFINE kx == k \o <<x>>
<1>4. kx \in Seq(Int) /\ Len(kx) = 6 /\ \A i \in 1 .. 6 : kx[i] = IF i <= 5 THEN k[i] ELSE <<x>>[i - 5]
  <2> DEFINE one == <<x>>
  <2>1. one \in Seq(Int) /\ Len(one) = 1
    BY <1>3
  <2> HIDE DEF one
  <2> DEFINE joined == k \o one
  <2>2. /\ joined \in Seq(Int)
        /\ Len(joined) = Len(k) + Len(one)
        /\ \A i \in 1 .. Len(k) + Len(one) : joined[i] = IF i <= Len(k) THEN k[i] ELSE one[i - Len(k)]
    BY <1>1, <2>1, ConcatProperties
  <2> HIDE DEF joined
  <2>3. Len(k) + Len(one) = 6
    BY <1>2, <2>1
  <2>4. /\ joined \in Seq(Int)
        /\ Len(joined) = 6
        /\ \A i \in 1 .. 6 : joined[i] = IF i <= Len(k) THEN k[i] ELSE one[i - Len(k)]
    BY <2>2, <2>3
  <2> QED
    BY <1>2, <2>4 DEF one, joined
<1> HIDE DEF kx
<1>5. kx \in [1 .. 6 -> Int]
  BY <1>4, LenProperties
<1>6. \A i \in 1 .. 5 : kx[i] = k[i]
  BY <1>4
<1> QED
  BY <1>5, <1>6 DEF Keys, kx

\* The winner is one of the candidates with its own threshold, and no candidate
\* ranks before it.
LEMMA SelectedCandidate ==
  ASSUME NEW fitted \in [Candidates -> Seq(ScoredRows)]
  PROVE  LET w == SelectCandidate(fitted)
         IN  /\ w.name \in Candidates
             /\ w.metrics = SelectThreshold(fitted[w.name])
             /\ \A c \in Candidates :
                  ~Precedes(RankingKey([name |-> c, metrics |-> SelectThreshold(fitted[c])]), RankingKey(w))
<1> DEFINE entry == [c \in Candidates |-> [name |-> c, metrics |-> SelectThreshold(fitted[c])]]
           E == {entry[c] : c \in Candidates}
           key == [e \in E |-> RankingKey(e)]
<1>1. SelectCandidate(fitted) = First(key)
  BY DEF SelectCandidate
<1>2. IsFiniteSet(E) /\ E # {}
  <2>1. E = {entry["gradient_boosting"]} \cup {entry["logistic_regression"]}
    BY DEF Candidates
  <2> HIDE DEF entry, E
  <2>2. IsFiniteSet({entry["gradient_boosting"]}) /\ IsFiniteSet({entry["logistic_regression"]})
    BY FS_Singleton
  <2> QED
    BY <2>1, <2>2, FS_Union
<1>3. \A c \in Candidates : RankingKey(entry[c]) \in Keys(6)
  <2> SUFFICES ASSUME NEW c \in Candidates
               PROVE  RankingKey(entry[c]) \in Keys(6)
    OBVIOUS
  <2>1. ThresholdKey(SelectThreshold(fitted[c])) \in Keys(5)
    BY SelectedThreshold, ThresholdKeyType
  <2>2. NameOrder[c] \in Int
    BY DEF Candidates, NameOrder
  <2>3. RankingKey(entry[c]) = ThresholdKey(SelectThreshold(fitted[c])) \o <<NameOrder[c]>>
    BY DEF RankingKey
  <2>4. \A k \in Keys(5), x \in Int : k \o <<x>> \in Keys(6)
    BY KeyAppended
  <2> QED
    BY <2>1, <2>2, <2>3, <2>4
<1>4. key \in [E -> Keys(6)]
  BY <1>3
<1>5. First(key) \in E /\ \A e \in E : ~Precedes(key[e], key[First(key)])
  <2> HIDE DEF key, E
  <2> QED
    BY <1>2, <1>4, FirstComesFirst
<1>6. PICK d \in Candidates : First(key) = entry[d]
  BY <1>5
<1>7. \A c \in Candidates : entry[c] \in E
  OBVIOUS
<1>8. \A c \in Candidates : ~Precedes(RankingKey(entry[c]), RankingKey(First(key)))
  BY <1>5, <1>7
<1> QED
  BY <1>1, <1>6, <1>8

Costs(m) == <<m.cost, m.falsePositive, -m.truePositive>>

\* The key begins with the costs.
LEMMA CostsAreKeys ==
  ASSUME NEW m \in MetricsType
  PROVE  Costs(m) \in Keys(3) /\ \A i \in 1 .. 3 : ThresholdKey(m)[i] = Costs(m)[i]
<1>1. m.cost \in Int /\ m.falsePositive \in Int /\ -m.truePositive \in Int
  BY DEF MetricsType
<1>2. Costs(m) \in Keys(3)
  BY <1>1 DEF Costs, Keys
<1>3. \A i \in 1 .. 3 : ThresholdKey(m)[i] = Costs(m)[i]
  <2>1. /\ ThresholdKey(m)[1] = Costs(m)[1] /\ ThresholdKey(m)[2] = Costs(m)[2]
        /\ ThresholdKey(m)[3] = Costs(m)[3]
    BY DEF ThresholdKey, Costs
  <2>2. \A i \in 1 .. 3 : i = 1 \/ i = 2 \/ i = 3
    OBVIOUS
  <2> QED
    BY <2>1, <2>2
<1> QED
  BY <1>2, <1>3

\* No threshold of any candidate costs less than the winner's, and so on down the key.
LEMMA WinnerCostsLeast ==
  ASSUME NEW fitted \in [Candidates -> Seq(ScoredRows)], NEW c \in Candidates, NEW t \in 0 .. One
  PROVE  ~Precedes(Costs(ThresholdMetrics(fitted[c], t)), Costs(SelectCandidate(fitted).metrics))
<1> DEFINE w == SelectCandidate(fitted)
           own == SelectThreshold(fitted[c])
<1>1. PICK u \in Tried(fitted[c]) : Flagged(fitted[c], u) = Flagged(fitted[c], t)
  BY TriedDecidesAlike
<1> DEFINE m == ThresholdMetrics(fitted[c], u)
<1>2. u \in 0 .. One
  BY ScoresAreProbabilities
<1>3. Costs(ThresholdMetrics(fitted[c], t)) = Costs(m)
  BY <1>1, <1>2, AlikeMeasureAlike DEF Costs
<1>4. m \in MetricsType /\ own \in MetricsType /\ w.metrics \in MetricsType
  BY <1>2, MetricsAreTyped, SelectedThreshold, SelectedCandidate
<1>5. ~Precedes(Costs(m), Costs(own))
  <2>1. ~Precedes(ThresholdKey(m), ThresholdKey(own))
    BY SelectedThreshold
  <2> HIDE DEF m, own
  <2>2. ThresholdKey(m) \in Keys(5) /\ ThresholdKey(own) \in Keys(5)
    BY <1>4, ThresholdKeyType
  <2>3. /\ Costs(m) \in Keys(3) /\ \A i \in 1 .. 3 : ThresholdKey(m)[i] = Costs(m)[i]
        /\ Costs(own) \in Keys(3) /\ \A i \in 1 .. 3 : ThresholdKey(own)[i] = Costs(own)[i]
    BY <1>4, CostsAreKeys
  <2>4. BeginsWith(ThresholdKey(m), Costs(m), 3) /\ BeginsWith(ThresholdKey(own), Costs(own), 3)
    BY <2>3 DEF BeginsWith
  <2>5. 5 \in Nat /\ 3 \in 0 .. 5
    OBVIOUS
  <2> QED
    BY <2>1, <2>2, <2>3, <2>4, <2>5, PrefixPrecedes
<1>6. ~Precedes(Costs(own), Costs(w.metrics))
  <2> DEFINE e == [name |-> c, metrics |-> own]
  <2>1. ~Precedes(RankingKey(e), RankingKey(w))
    BY SelectedCandidate
  <2>2. w.name \in Candidates
    BY SelectedCandidate
  <2>3. NameOrder[c] \in Int /\ NameOrder[w.name] \in Int
    BY <2>2 DEF Candidates, NameOrder
  <2>4. e.metrics = own /\ e.name = c
    OBVIOUS
  <2> HIDE DEF e, own, w
  <2>5. RankingKey(e) = ThresholdKey(own) \o <<NameOrder[c]>> /\ RankingKey(w) = ThresholdKey(w.metrics) \o <<NameOrder[w.name]>>
    BY <2>4 DEF RankingKey
  <2>6. ThresholdKey(own) \in Keys(5) /\ ThresholdKey(w.metrics) \in Keys(5)
    BY <1>4, ThresholdKeyType
  <2>7. /\ RankingKey(e) \in Keys(6) /\ RankingKey(w) \in Keys(6)
        /\ \A i \in 1 .. 5 : RankingKey(e)[i] = ThresholdKey(own)[i] /\ RankingKey(w)[i] = ThresholdKey(w.metrics)[i]
    <3> DEFINE k == ThresholdKey(own)
               l == ThresholdKey(w.metrics)
               x == NameOrder[c]
               y == NameOrder[w.name]
    <3>1. k \in Keys(5) /\ l \in Keys(5) /\ x \in Int /\ y \in Int
      BY <2>3, <2>6
    <3> HIDE DEF k, l, x, y
    <3>2. /\ k \o <<x>> \in Keys(6) /\ \A i \in 1 .. 5 : (k \o <<x>>)[i] = k[i]
          /\ l \o <<y>> \in Keys(6) /\ \A i \in 1 .. 5 : (l \o <<y>>)[i] = l[i]
      BY <3>1, KeyAppended
    <3>3. RankingKey(e) = k \o <<x>> /\ RankingKey(w) = l \o <<y>>
      BY <2>5 DEF k, l, x, y
    <3>4. k = ThresholdKey(own) /\ l = ThresholdKey(w.metrics)
      BY DEF k, l
    <3> QED
      BY <3>2, <3>3, <3>4
  <2>8. /\ Costs(own) \in Keys(3) /\ \A i \in 1 .. 3 : ThresholdKey(own)[i] = Costs(own)[i]
        /\ Costs(w.metrics) \in Keys(3) /\ \A i \in 1 .. 3 : ThresholdKey(w.metrics)[i] = Costs(w.metrics)[i]
    BY <1>4, CostsAreKeys
  <2>9. BeginsWith(RankingKey(e), Costs(own), 3) /\ BeginsWith(RankingKey(w), Costs(w.metrics), 3)
    BY <2>7, <2>8 DEF BeginsWith
  <2>10. 6 \in Nat /\ 3 \in 0 .. 6
    OBVIOUS
  <2> QED
    BY <2>1, <2>7, <2>8, <2>9, <2>10, PrefixPrecedes
<1>7. ~Precedes(Costs(m), Costs(w.metrics))
  <2> HIDE DEF m, own, w
  <2>1. Costs(m) \in Keys(3) /\ Costs(own) \in Keys(3) /\ Costs(w.metrics) \in Keys(3)
    BY <1>4, CostsAreKeys
  <2> QED
    BY <1>5, <1>6, <2>1, PrecedesIsTotal
<1> QED
  BY <1>3, <1>7

\* Among the thresholds that decide alike, the highest is locked.
LEMMA HighestIsLocked ==
  ASSUME NEW batch \in Seq(ScoredRows), NEW t \in Tried(batch),
         Flagged(batch, t) = Flagged(batch, SelectThreshold(batch).threshold)
  PROVE  t <= SelectThreshold(batch).threshold
<1> DEFINE own == SelectThreshold(batch)
           m == ThresholdMetrics(batch, t)
<1>1. t \in 0 .. One
  BY ScoresAreProbabilities
<1>2. PICK u \in 0 .. One : own = ThresholdMetrics(batch, u)
  BY SelectedThreshold
<1>3. own.threshold = u /\ m.threshold = t /\ m \in MetricsType /\ own \in MetricsType
  BY <1>1, <1>2, MetricsAreTyped
<1>4. /\ m.cost = own.cost /\ m.falsePositive = own.falsePositive
      /\ m.truePositive = own.truePositive /\ m.precision = own.precision
  BY <1>1, <1>2, <1>3, AlikeMeasureAlike
<1>5. ~Precedes(ThresholdKey(m), ThresholdKey(own))
  BY SelectedThreshold
<1> DEFINE a == ThresholdKey(m)
           b == ThresholdKey(own)
<1>6. a \in Keys(5) /\ b \in Keys(5)
  BY <1>3, ThresholdKeyType
<1>7. a[1] = b[1] /\ a[2] = b[2] /\ a[3] = b[3] /\ a[4] = b[4] /\ a[5] = -t /\ b[5] = -u
  <2> HIDE DEF m, own
  <2> QED
    BY <1>3, <1>4 DEF ThresholdKey
<1> HIDE DEF a, b
<1>8. ASSUME u < t
      PROVE  FALSE
  <2>1. a[5] < b[5]
    BY <1>1, <1>7, <1>8
  <2>2. \A j \in 1 .. 5 - 1 : a[j] = b[j]
    <3>1. \A j \in 1 .. 5 - 1 : j = 1 \/ j = 2 \/ j = 3 \/ j = 4
      OBVIOUS
    <3> QED
      BY <1>7, <3>1
  <2>3. 5 \in DOMAIN a
    BY <1>6 DEF Keys
  <2>4. Precedes(a, b)
    BY <2>1, <2>2, <2>3 DEF Precedes
  <2> QED
    BY <1>5, <2>4 DEF a, b
<1> QED
  BY <1>1, <1>3, <1>8

--------------------------------------------------------------------------------
(* An approval.                                                               *)

\* Rows that a band decides in one way, by label.
Decided(batch, b, decision, attack) ==
    {i \in DOMAIN batch : BandDecision(batch[i].score, b) = decision /\ batch[i].attack = attack}

\* The decisions of a band whose thresholds are in order are its two thresholds'.
LEMMA DecisionsOfBand ==
  ASSUME NEW batch \in Seq(ScoredRows), NEW b, b.lower \in Int, b.upper \in Int, b.lower <= b.upper
  PROVE  /\ Decided(batch, b, "allow", TRUE) = Attacks(batch) \ Flagged(batch, b.lower)
         /\ Decided(batch, b, "deny", FALSE) = Flagged(batch, b.upper) \cap Legitimate(batch)
         /\ Decided(batch, b, "review", TRUE)
              = (Flagged(batch, b.lower) \ Flagged(batch, b.upper)) \cap Attacks(batch)
         /\ Decided(batch, b, "review", FALSE)
              = (Flagged(batch, b.lower) \ Flagged(batch, b.upper)) \ Attacks(batch)
<1>1. \A i \in DOMAIN batch : batch[i].score \in Int /\ batch[i].attack \in BOOLEAN
  BY ScoresAreProbabilities
<1>2. ASSUME NEW i \in DOMAIN batch
      PROVE  /\ BandDecision(batch[i].score, b) = "allow" <=> ~(batch[i].score >= b.lower)
             /\ BandDecision(batch[i].score, b) = "deny" <=> batch[i].score >= b.upper
             /\ BandDecision(batch[i].score, b) = "review"
                  <=> batch[i].score >= b.lower /\ ~(batch[i].score >= b.upper)
  <2>1. batch[i].score \in Int
    BY <1>1
  <2>2. CASE batch[i].score >= b.upper
    BY <2>1, <2>2 DEF BandDecision
  <2>3. CASE ~(batch[i].score >= b.upper) /\ batch[i].score >= b.lower
    BY <2>1, <2>3 DEF BandDecision
  <2>4. CASE ~(batch[i].score >= b.upper) /\ ~(batch[i].score >= b.lower)
    BY <2>1, <2>4 DEF BandDecision
  <2> QED
    BY <2>2, <2>3, <2>4
<1> QED
  BY <1>1, <1>2 DEF Decided, Attacks, Legitimate, Flagged

\* A band costs what its thresholds stop and deny.
LEMMA CostOfBand ==
  ASSUME NEW batch \in Seq(ScoredRows), NEW costs, NEW b, b.lower \in Int, b.upper \in Int,
         b.lower <= b.upper,
         costs.falseNegative \in Nat, costs.falsePositive \in Nat, costs.review \in Nat
  PROVE  EvaluateBand(batch, b, costs).cost
           = CostOf(batch, costs, Flagged(batch, b.lower), Flagged(batch, b.upper))
<1> DEFINE between == Flagged(batch, b.lower) \ Flagged(batch, b.upper)
           fn == Cardinality(Decided(batch, b, "allow", TRUE))
           fp == Cardinality(Decided(batch, b, "deny", FALSE))
           ra == Cardinality(Decided(batch, b, "review", TRUE))
           rl == Cardinality(Decided(batch, b, "review", FALSE))
<1>1. IsFiniteSet(DOMAIN batch)
  BY ScoresAreProbabilities
<1>2. \A decision, attack : IsFiniteSet(Decided(batch, b, decision, attack))
  <2> SUFFICES ASSUME NEW decision, NEW attack
               PROVE  IsFiniteSet(Decided(batch, b, decision, attack))
    OBVIOUS
  <2>1. Decided(batch, b, decision, attack) \in SUBSET (DOMAIN batch)
    BY DEF Decided
  <2> QED
    BY <1>1, <2>1, FS_Subset
<1>3. fn \in Nat /\ fp \in Nat /\ ra \in Nat /\ rl \in Nat
  BY <1>2, FS_CardinalityType
<1>4. Cardinality(between) = ra + rl
  <2>1. /\ Decided(batch, b, "review", TRUE) = between \cap Attacks(batch)
        /\ Decided(batch, b, "review", FALSE) = between \ Attacks(batch)
    BY DecisionsOfBand
  <2>2. between \in SUBSET (DOMAIN batch)
    BY DEF Flagged
  <2>3. IsFiniteSet(between)
    BY <1>1, <2>2, FS_Subset
  <2>4. Cardinality(between \ Attacks(batch)) = Cardinality(between) - Cardinality(between \cap Attacks(batch))
    BY <2>3, FS_Difference
  <2>5. Cardinality(between) \in Nat
    BY <2>3, FS_CardinalityType
  <2>6. ra = Cardinality(between \cap Attacks(batch)) /\ rl = Cardinality(between \ Attacks(batch))
    BY <2>1
  <2> HIDE DEF between, ra, rl
  <2> QED
    BY <1>3, <2>4, <2>5, <2>6
<1>5. EvaluateBand(batch, b, costs).cost
        = fn * costs.falseNegative + fp * costs.falsePositive + (ra + rl) * costs.review
  BY DEF EvaluateBand, Decided
<1>6. CostOf(batch, costs, Flagged(batch, b.lower), Flagged(batch, b.upper))
        = costs.falseNegative * fn + costs.falsePositive * fp + costs.review * (ra + rl)
  BY <1>4, DecisionsOfBand DEF CostOf
<1> HIDE DEF fn, fp, ra, rl
<1>7. \A x \in Nat, y \in Nat : x * y = y * x
  OBVIOUS
<1>8. ra + rl \in Nat
  BY <1>3
<1> QED
  BY <1>3, <1>5, <1>6, <1>7, <1>8

\* Basis points at or below a ceiling, up to half a basis point of rounding.
LEMMA BasisPointsBound ==
  ASSUME NEW n \in Nat, NEW d \in Nat, d > 0, NEW c \in Nat, BasisPoints(n, d) <= c
  PROVE  20000 * n < (2 * c + 1) * d
<1> DEFINE x == n * 20000 + d
           y == 2 * d
           q == x \div y
<1>1. x \in Nat /\ y \in Nat /\ y > 0
  OBVIOUS
<1>2. q \in Int /\ q <= c
  <2> HIDE DEF x, y
  <2>1. q \in Int
    BY <1>1
  <2>2. q = BasisPoints(n, d)
    BY DEF BasisPoints, x, y
  <2> QED
    BY <2>1, <2>2
<1>3. x < y * (q + 1)
  <2> HIDE DEF x, y
  <2>1. x = y * q + (x % y) /\ x % y < y
    <3>1. \A u \in Nat, v \in Nat : v > 0 => u = v * (u \div v) + (u % v)
      OBVIOUS
    <3>2. \A u \in Nat, v \in Nat : v > 0 => u % v < v
      OBVIOUS
    <3> HIDE DEF x, y
    <3>3. x = y * (x \div y) + (x % y) /\ x % y < y
      BY <1>1, <3>1, <3>2
    <3> QED
      BY <3>3
  <2> HIDE DEF q
  <2>2. y * (q + 1) = y * q + y
    BY <1>1, <1>2
  <2>3. y * q \in Int /\ x % y \in Int
    BY <1>1, <1>2
  <2> QED
    BY <1>1, <2>1, <2>2, <2>3
<1>4. y * (q + 1) <= y * (c + 1)
  <2> HIDE DEF x, y, q
  <2>1. \A u \in Nat, v \in Int, w \in Int : v <= w => u * v <= u * w
    OBVIOUS
  <2> QED
    BY <1>1, <1>2, <2>1
<1>5. x < y * (c + 1)
  <2> HIDE DEF x, y, q
  <2>1. y * (c + 1) \in Int /\ y * (q + 1) \in Int
    BY <1>1, <1>2
  <2> QED
    BY <1>1, <1>3, <1>4, <2>1
<1>6. y * (c + 1) = (2 * c + 1) * d + d
  OBVIOUS
<1>7. (2 * c + 1) * d \in Int
  OBVIOUS
<1> QED
  BY <1>5, <1>6, <1>7

PolicyType == [costs : [falseNegative : Nat, falsePositive : Nat, review : Nat],
               gridSize : Nat \ {0, 1}, ceiling : Nat, minimumRows : Nat, minimumAttacks : Nat]

PassesGates(batch, p, threshold, lower, upper) ==
    FailedGates(EvaluateBand(batch, SingleThreshold(threshold), p.costs),
                EvaluateBand(batch, [lower |-> lower, upper |-> upper], p.costs), p) = {}

\* What the approval of a band promises of a batch.
EarnedOn(batch, p, threshold, lower, upper) ==
    /\ CostOf(batch, p.costs, Flagged(batch, lower), Flagged(batch, upper))
         < CostOf(batch, p.costs, Flagged(batch, threshold), Flagged(batch, threshold))
    /\ 20000 * Cardinality(Flagged(batch, upper) \cap Legitimate(batch))
         < (2 * p.ceiling + 1) * Cardinality(Legitimate(batch))
    /\ Len(batch) >= p.minimumRows /\ Cardinality(Attacks(batch)) >= p.minimumAttacks

\* A comparison that fails no gate has earned its approval.
LEMMA GatesAreEarned ==
  ASSUME NEW batch \in Seq(ScoredRows), NEW p \in PolicyType, NEW threshold \in Int,
         NEW lower \in Int, NEW upper \in Int, lower <= upper,
         PassesGates(batch, p, threshold, lower, upper)
  PROVE  EarnedOn(batch, p, threshold, lower, upper)
<1> DEFINE one == SingleThreshold(threshold)
           two == [lower |-> lower, upper |-> upper]
           incumbent == EvaluateBand(batch, one, p.costs)
           banded == EvaluateBand(batch, two, p.costs)
<1>1. /\ one.lower = threshold /\ one.upper = threshold /\ two.lower = lower /\ two.upper = upper
      /\ p.costs.falseNegative \in Nat /\ p.costs.falsePositive \in Nat /\ p.costs.review \in Nat
      /\ p.ceiling \in Nat
  BY DEF SingleThreshold, PolicyType
<1>2. /\ banded.rows = Len(batch) /\ banded.attacks = Cardinality(Attacks(batch))
      /\ banded.falsePositive = Cardinality(Decided(batch, two, "deny", FALSE))
  BY DEF EvaluateBand, Attacks, Decided
<1> HIDE DEF one, two, incumbent, banded
<1>3. /\ banded.cost < incumbent.cost /\ WithinCeiling(banded, p.ceiling)
      /\ banded.rows >= p.minimumRows /\ banded.attacks >= p.minimumAttacks
  <2>1. FailedGates(incumbent, banded, p) = {}
    BY DEF PassesGates, one, two, incumbent, banded
  <2> QED
    BY <2>1 DEF FailedGates
<1>4. /\ incumbent.cost = CostOf(batch, p.costs, Flagged(batch, threshold), Flagged(batch, threshold))
      /\ banded.cost = CostOf(batch, p.costs, Flagged(batch, lower), Flagged(batch, upper))
  <2>1. threshold <= threshold
    OBVIOUS
  <2> QED
    BY <1>1, <2>1, CostOfBand DEF incumbent, banded
<1>5. Cardinality(Legitimate(batch)) = banded.rows - banded.attacks /\ banded.rows - banded.attacks \in Nat
  <2>1. /\ IsFiniteSet(DOMAIN batch) /\ DOMAIN batch = 1 .. Len(batch) /\ Len(batch) \in Nat
    BY ScoresAreProbabilities
  <2>2. Cardinality(DOMAIN batch) = Len(batch)
    <3> DEFINE l == Len(batch)
    <3>1. l \in Nat /\ DOMAIN batch = 1 .. l
      BY <2>1
    <3> HIDE DEF l
    <3>2. 1 \in Int /\ l \in Int
      BY <3>1
    <3>3. Cardinality(1 .. l) = IF 1 > l THEN 0 ELSE l - 1 + 1
      BY <3>2, FS_Interval
    <3>4. Cardinality(1 .. l) = l
      BY <3>1, <3>3
    <3> QED
      BY <3>1, <3>4 DEF l
  <2> DEFINE rows == DOMAIN batch
             attacks == Attacks(batch)
  <2>3. /\ attacks = rows \cap attacks
        /\ Legitimate(batch) = rows \ attacks
    BY DEF Attacks, Legitimate
  <2>4. /\ IsFiniteSet(Legitimate(batch))
        /\ Cardinality(Legitimate(batch)) = Cardinality(rows) - Cardinality(attacks)
    <3>1. IsFiniteSet(rows)
      BY <2>1
    <3> HIDE DEF rows, attacks
    <3>2. /\ IsFiniteSet(rows \ attacks)
          /\ Cardinality(rows \ attacks) = Cardinality(rows) - Cardinality(rows \cap attacks)
      BY <3>1, FS_Difference
    <3> QED
      BY <2>3, <3>2
  <2>5. Cardinality(Legitimate(batch)) \in Nat
    BY <2>4, FS_CardinalityType
  <2> QED
    BY <1>2, <2>2, <2>4, <2>5
<1>6. banded.falsePositive = Cardinality(Flagged(batch, upper) \cap Legitimate(batch)) /\ banded.falsePositive \in Nat
  <2>1. Decided(batch, two, "deny", FALSE) = Flagged(batch, upper) \cap Legitimate(batch)
    BY <1>1, DecisionsOfBand
  <2>2. Flagged(batch, upper) \cap Legitimate(batch) \in SUBSET (DOMAIN batch)
    BY DEF Flagged
  <2>3. Cardinality(Flagged(batch, upper) \cap Legitimate(batch)) \in Nat
    BY <2>2, ScoresAreProbabilities, FS_Subset, FS_CardinalityType
  <2> QED
    BY <1>2, <2>1, <2>3
<1>7. 20000 * banded.falsePositive < (2 * p.ceiling + 1) * (banded.rows - banded.attacks)
  <2> DEFINE d == banded.rows - banded.attacks
             n == banded.falsePositive
  <2>1. d \in Nat /\ d > 0 /\ n \in Nat /\ BasisPoints(n, d) <= p.ceiling
    BY <1>3, <1>5, <1>6 DEF WithinCeiling
  <2> HIDE DEF d, n
  <2>2. 20000 * n < (2 * p.ceiling + 1) * d
    BY <1>1, <2>1, BasisPointsBound
  <2> QED
    BY <2>2 DEF d, n
<1>8. 20000 * Cardinality(Flagged(batch, upper) \cap Legitimate(batch))
        < (2 * p.ceiling + 1) * Cardinality(Legitimate(batch))
  BY <1>5, <1>6, <1>7
<1>9. CostOf(batch, p.costs, Flagged(batch, lower), Flagged(batch, upper))
        < CostOf(batch, p.costs, Flagged(batch, threshold), Flagged(batch, threshold))
  BY <1>3, <1>4
<1> QED
  BY <1>2, <1>3, <1>8, <1>9 DEF EarnedOn

--------------------------------------------------------------------------------
(* Orders.                                                                    *)

\* R orders S strictly and totally.
Orders(R, S) ==
    /\ \A x \in S : <<x, x>> \notin R
    /\ \A x \in S, y \in S, z \in S : <<x, y>> \in R /\ <<y, z>> \in R => <<x, z>> \in R
    /\ \A x \in S, y \in S : x # y => <<x, y>> \in R \/ <<y, x>> \in R

Below(R, S, x) == {y \in S : <<y, x>> \in R}

RankIn(R, S) == [x \in S |-> Cardinality(Below(R, S, x))]

\* Ranks are the numbers from 0 on, in the order of the elements.
LEMMA Ranks ==
  ASSUME NEW S, IsFiniteSet(S), NEW R, Orders(R, S)
  PROVE  /\ RankIn(R, S) \in Bijection(S, 0 .. Cardinality(S) - 1)
         /\ \A x \in S, y \in S : <<x, y>> \in R <=> RankIn(R, S)[x] < RankIn(R, S)[y]
<1> DEFINE n == Cardinality(S)
           rank == RankIn(R, S)
<1>1. n \in Nat
  BY FS_CardinalityType
<1>2. ASSUME NEW x \in S
      PROVE  IsFiniteSet(Below(R, S, x)) /\ rank[x] \in 0 .. n - 1
  <2>1. Below(R, S, x) \subseteq S \ {x}
    BY DEF Below, Orders
  <2>2. IsFiniteSet(S \ {x}) /\ Cardinality(S \ {x}) = n - 1
    BY FS_RemoveElement
  <2>3. IsFiniteSet(Below(R, S, x)) /\ Cardinality(Below(R, S, x)) <= n - 1
    BY <2>1, <2>2, FS_Subset
  <2>4. Cardinality(Below(R, S, x)) \in Nat
    BY <2>3, FS_CardinalityType
  <2> QED
    BY <1>1, <2>3, <2>4 DEF RankIn
<1>3. ASSUME NEW x \in S, NEW y \in S, <<x, y>> \in R
      PROVE  rank[x] < rank[y]
  <2>1. Below(R, S, x) \subseteq Below(R, S, y) \ {x} /\ x \in Below(R, S, y)
    BY <1>3 DEF Below, Orders
  <2>2. /\ IsFiniteSet(Below(R, S, y) \ {x})
        /\ Cardinality(Below(R, S, y) \ {x}) = Cardinality(Below(R, S, y)) - 1
    BY <1>2, <2>1, FS_RemoveElement
  <2>3. Cardinality(Below(R, S, x)) <= Cardinality(Below(R, S, y) \ {x})
    BY <2>1, <2>2, FS_Subset
  <2> QED
    BY <1>2, <2>2, <2>3 DEF RankIn
<1>4. rank \in [S -> 0 .. n - 1]
  BY <1>2 DEF RankIn
<1>5. ASSUME NEW x \in S, NEW y \in S, x # y
      PROVE  rank[x] # rank[y]
  <2>1. <<x, y>> \in R \/ <<y, x>> \in R
    BY <1>5 DEF Orders
  <2> QED
    BY <1>2, <1>3, <2>1
<1> HIDE DEF rank, n
<1>6. rank \in Injection(S, 0 .. n - 1)
  BY <1>4, <1>5, Fun_IsInj
<1>7. IsFiniteSet(0 .. n - 1) /\ Cardinality(0 .. n - 1) = n
  BY <1>1, FS_Interval
<1>8. rank \in Surjection(S, 0 .. n - 1)
  BY <1>6, <1>7, FS_Injection DEF n
<1>9. rank \in Bijection(S, 0 .. n - 1)
  BY <1>6, <1>8, Fun_IsBij
<1>10. ASSUME NEW x \in S, NEW y \in S, rank[x] < rank[y]
       PROVE  <<x, y>> \in R
  <2>1. x # y
    BY <1>2, <1>10
  <2>2. ~(<<y, x>> \in R)
    BY <1>2, <1>3, <1>10
  <2> QED
    BY <2>1, <2>2 DEF Orders
<1> QED
  BY <1>3, <1>9, <1>10 DEF rank, n

\* There is an element of every rank.
LEMMA OneOfEachRank ==
  ASSUME NEW S, IsFiniteSet(S), NEW R, Orders(R, S), NEW k \in 1 .. Cardinality(S)
  PROVE  \E x \in S : Cardinality(Below(R, S, x)) = k - 1
<1>1. Cardinality(S) \in Nat
  BY FS_CardinalityType
<1>2. k - 1 \in 0 .. Cardinality(S) - 1
  BY <1>1
<1>3. RankIn(R, S) \in Surjection(S, 0 .. Cardinality(S) - 1)
  BY Ranks DEF Bijection
<1> QED
  BY <1>2, <1>3 DEF Surjection, RankIn

\* A sequence that has at each place an element of that rank lists every element once.
Lists(list, R, S) ==
    /\ list \in [1 .. Cardinality(S) -> S]
    /\ \A k \in 1 .. Cardinality(S) : Cardinality(Below(R, S, list[k])) = k - 1

LEMMA ListedIs ==
  ASSUME NEW S, IsFiniteSet(S), NEW R, Orders(R, S), NEW list, Lists(list, R, S)
  PROVE  /\ \A x \in S : \E k \in 1 .. Cardinality(S) : list[k] = x
         /\ \A i \in 1 .. Cardinality(S), j \in 1 .. Cardinality(S) :
              <<list[i], list[j]>> \in R <=> i < j
<1> DEFINE n == Cardinality(S)
           rank == RankIn(R, S)
<1>1. n \in Nat
  BY FS_CardinalityType
<1>2. /\ rank \in Bijection(S, 0 .. n - 1)
      /\ \A x \in S, y \in S : <<x, y>> \in R <=> rank[x] < rank[y]
  BY Ranks
<1>3. rank \in [S -> 0 .. n - 1] /\ \A a, b \in S : rank[a] = rank[b] => a = b
  <2>1. rank \in Injection(S, 0 .. n - 1)
    BY <1>2 DEF Bijection
  <2> HIDE DEF rank, n
  <2> QED
    BY <2>1 DEF Injection, IsInjective
<1>4. \A k \in 1 .. n : list[k] \in S /\ rank[list[k]] = k - 1
  BY DEF RankIn, Lists
<1> HIDE DEF rank, n
<1>5. ASSUME NEW x \in S
      PROVE  \E k \in 1 .. n : list[k] = x
  <2>1. rank[x] \in 0 .. n - 1
    BY <1>3
  <2>2. rank[x] + 1 \in 1 .. n /\ (rank[x] + 1) - 1 = rank[x]
    BY <1>1, <2>1
  <2>3. list[rank[x] + 1] = x
    BY <1>3, <1>4, <2>2
  <2> QED
    BY <2>2, <2>3
<1>6. \A i \in 1 .. n, j \in 1 .. n : <<list[i], list[j]>> \in R <=> i < j
  <2> SUFFICES ASSUME NEW i \in 1 .. n, NEW j \in 1 .. n
               PROVE  <<list[i], list[j]>> \in R <=> i < j
    OBVIOUS
  <2>1. <<list[i], list[j]>> \in R <=> i - 1 < j - 1
    BY <1>2, <1>4
  <2> QED
    BY <1>1, <2>1
<1> QED
  BY <1>5, <1>6 DEF n

\* There is one element of each rank to choose.
LEMMA InOrderLists ==
  ASSUME NEW S, IsFiniteSet(S), NEW R, Orders(R, S)
  PROVE  Lists(InOrder(S, R), R, S)
<1> DEFINE list == InOrder(S, R)
           n == Cardinality(S)
<1>1. \A k \in 1 .. n : \E x \in S : Cardinality(Below(R, S, x)) = k - 1
  BY OneOfEachRank
<1>2. list = [k \in 1 .. n |-> CHOOSE x \in S : Cardinality(Below(R, S, x)) = k - 1]
  BY DEF InOrder, Below
<1> HIDE DEF list, n
<1>3. \A k \in 1 .. n : list[k] \in S /\ Cardinality(Below(R, S, list[k])) = k - 1
  BY <1>1, <1>2
<1>4. list \in [1 .. n -> S]
  BY <1>2, <1>3
<1> QED
  BY <1>3, <1>4 DEF Lists, list, n

\* Numbers in ascending order.
LEMMA AscendingIs ==
  ASSUME NEW S \in SUBSET Int, IsFiniteSet(S)
  PROVE  /\ Cardinality(S) \in Nat
         /\ Ascending(S) \in [1 .. Cardinality(S) -> S]
         /\ ToSet(Ascending(S)) = S
<1> DEFINE R == {e \in S \X S : e[1] < e[2]}
           list == Ascending(S)
           n == Cardinality(S)
<1>1. \A x \in S, y \in S : <<x, y>> \in R <=> x < y
  OBVIOUS
<1>2. Orders(R, S)
  BY DEF Orders
<1>3. list = InOrder(S, R)
  BY DEF Ascending
<1> HIDE DEF R, list
<1>4. Lists(list, R, S)
  BY <1>2, <1>3, InOrderLists
<1>5. list \in [1 .. n -> S] /\ \A x \in S : \E k \in 1 .. n : list[k] = x
  <2>1. list \in [1 .. n -> S]
    BY <1>4 DEF Lists
  <2>2. \A x \in S : \E k \in 1 .. n : list[k] = x
    BY <1>2, <1>4, ListedIs
  <2> QED
    BY <2>1, <2>2
<1>6. ToSet(list) = S
  <2> HIDE DEF n
  <2> QED
    BY <1>5 DEF ToSet
<1>7. n \in Nat
  BY FS_CardinalityType
<1> QED
  BY <1>5, <1>6, <1>7 DEF list

--------------------------------------------------------------------------------
(* The rows sorted by score.                                                  *)

\* The argsort lists every row once, and no row before one of lower score.
LEMMA SortedRowsAre ==
  ASSUME NEW batch \in Seq(ScoredRows)
  PROVE  LET D == DOMAIN batch
             order == ByScore(batch)
         IN  /\ order \in [D -> D]
             /\ \A x \in D : \E k \in D : order[k] = x
             /\ \A i \in D, j \in D : order[i] = order[j] => i = j
             /\ \A i \in D, j \in D : i < j => batch[order[i]].score <= batch[order[j]].score
<1> DEFINE D == DOMAIN batch
           R == ScoreOrder(batch)
           order == ByScore(batch)
           n == Cardinality(D)
           Before(i, j) == batch[i].score < batch[j].score \/ (batch[i].score = batch[j].score /\ i < j)
<1>1. /\ D = 1 .. Len(batch) /\ Len(batch) \in Nat /\ IsFiniteSet(D)
      /\ \A i \in D : i \in Int /\ batch[i].score \in Int
  BY ScoresAreProbabilities, OneAssumption
<1>2. D = 1 .. n
  BY <1>1, FS_Interval
<1>3. \A i \in D, j \in D : <<i, j>> \in R <=> Before(i, j)
  BY DEF ScoreOrder
<1>4. order = InOrder(D, R)
  BY DEF ByScore
<1> HIDE DEF D, R, order, n
<1>5. Orders(R, D)
  <2>1. \A x \in D : <<x, x>> \notin R
    BY <1>1, <1>3
  <2>2. ASSUME NEW x \in D, NEW y \in D, NEW z \in D, <<x, y>> \in R, <<y, z>> \in R
        PROVE  <<x, z>> \in R
    <3>1. Before(x, y) /\ Before(y, z)
      BY <1>3, <2>2
    <3>2. /\ x \in Int /\ y \in Int /\ z \in Int
          /\ batch[x].score \in Int /\ batch[y].score \in Int /\ batch[z].score \in Int
      BY <1>1
    <3>3. Before(x, z)
      BY <3>1, <3>2
    <3> QED
      BY <1>3, <3>3
  <2>3. ASSUME NEW x \in D, NEW y \in D, x # y
        PROVE  <<x, y>> \in R \/ <<y, x>> \in R
    <3>1. x \in Int /\ y \in Int /\ batch[x].score \in Int /\ batch[y].score \in Int
      BY <1>1
    <3>2. Before(x, y) \/ Before(y, x)
      BY <2>3, <3>1
    <3> QED
      BY <1>3, <3>2
  <2> QED
    BY <2>1, <2>2, <2>3 DEF Orders
<1> HIDE DEF Before
<1>6. IsFiniteSet(D)
  BY <1>1
<1>7. Lists(order, R, D)
  BY <1>4, <1>5, <1>6, InOrderLists
<1>8. /\ \A x \in D : \E k \in D : order[k] = x
       /\ \A i \in D, j \in D : <<order[i], order[j]>> \in R <=> i < j
  <2>1. /\ \A x \in D : \E k \in 1 .. n : order[k] = x
        /\ \A i \in 1 .. n, j \in 1 .. n : <<order[i], order[j]>> \in R <=> i < j
    BY <1>5, <1>6, <1>7, ListedIs DEF n
  <2> QED
    BY <1>2, <2>1
<1>9. order \in [D -> D]
  BY <1>2, <1>7 DEF Lists, n
<1>10. ASSUME NEW i \in D, NEW j \in D, order[i] = order[j]
       PROVE  i = j
  <2>1. ~(i < j) /\ ~(j < i)
    BY <1>5, <1>8, <1>9, <1>10 DEF Orders
  <2> QED
    BY <1>1, <2>1
<1>11. ASSUME NEW i \in D, NEW j \in D, i < j
       PROVE  batch[order[i]].score <= batch[order[j]].score
  <2>1. order[i] \in D /\ order[j] \in D /\ <<order[i], order[j]>> \in R
    BY <1>8, <1>9, <1>11
  <2>2. Before(order[i], order[j])
    BY <1>3, <2>1
  <2> QED
    BY <1>1, <2>1, <2>2 DEF Before
<1> QED
  BY <1>8, <1>9, <1>10, <1>11 DEF D, order

\* A function that takes each element to another place.
Rearranges(order, D) ==
    /\ order \in [D -> D]
    /\ \A x \in D : \E k \in D : order[k] = x
    /\ \A i \in D, j \in D : order[i] = order[j] => i = j

PlacesOf(X, order, D) == {k \in D : order[k] \in X}

\* Positions are counted like the rows at them.
LEMMA CountedAlike ==
  ASSUME NEW D, IsFiniteSet(D), NEW order, Rearranges(order, D), NEW X \in SUBSET D
  PROVE  Cardinality(PlacesOf(X, order, D)) = Cardinality(X)
<1> DEFINE P == PlacesOf(X, order, D)
           f == [k \in P |-> order[k]]
<1>1. P \in SUBSET D /\ \A k \in D : k \in P <=> order[k] \in X
  BY DEF PlacesOf
<1> HIDE DEF P
<1>2. f \in [P -> X] /\ \A a \in P, b \in P : f[a] = f[b] => a = b
  BY <1>1 DEF Rearranges
<1>3. \A x \in X : \E k \in P : f[k] = x
  BY <1>1 DEF Rearranges
<1>4. f \in Bijection(P, X)
  <2> HIDE DEF f
  <2> QED
    BY <1>2, <1>3 DEF Bijection, Injection, Surjection, IsInjective
<1>5. IsFiniteSet(P)
  BY <1>1, FS_Subset
<1>6. Cardinality(P) = Cardinality(X)
  BY <1>4, <1>5, FS_Bijection, Fun_ExistsBij
<1> QED
  BY <1>6 DEF P

\* A set of positions that holds with each one all before it.
LEMMA InitialPositions ==
  ASSUME NEW n \in Nat, NEW P \in SUBSET (1 .. n), \A j \in P, i \in 1 .. n : i < j => i \in P
  PROVE  P = 1 .. Cardinality(P) /\ Cardinality(P) \in 0 .. n
<1> DEFINE C == (1 .. n + 1) \ P
<1>1. C \in SUBSET Nat /\ n + 1 \in C
  OBVIOUS
<1>2. PICK c \in C : \A d \in C : c <= d
  BY <1>1, LeastElement
<1>3. P = 1 .. c - 1
  <2>1. c \in 1 .. n + 1
    BY <1>2
  <2>2. ASSUME NEW j \in 1 .. n
        PROVE  j \in P <=> j < c
    <3>1. CASE j < c
      BY <1>2, <2>1, <3>1
    <3>2. CASE ~(j < c)
      <4>1. c \notin P /\ (j \in P => j # c)
        BY <1>2
      <4>2. j \in P => c \in 1 .. n /\ c < j
        BY <2>1, <3>2, <4>1
      <4> QED
        BY <3>2, <4>1, <4>2
    <3> QED
      BY <3>1, <3>2
  <2>3. \A j \in P : j \in 1 .. n
    OBVIOUS
  <2> HIDE DEF C
  <2>4. \A j \in P : j \in 1 .. c - 1
    BY <2>1, <2>2, <2>3
  <2>5. \A j \in 1 .. c - 1 : j \in P
    BY <2>1, <2>2
  <2> QED
    BY <2>4, <2>5
<1>4. Cardinality(P) = c - 1
  BY <1>2, <1>3, FS_Interval
<1> QED
  BY <1>2, <1>3, <1>4

\* How many rows are below a threshold, and how many attacks among them.
LEMMA PositionsAre ==
  ASSUME NEW batch \in Seq(ScoredRows), NEW t \in Int
  PROVE  LET sorted == SortedRows(batch)
             n      == Boundary(sorted, t)
         IN  /\ n = Len(batch) - Cardinality(Flagged(batch, t))
             /\ AttacksBelow(sorted, n) = Cardinality(Attacks(batch) \ Flagged(batch, t))
             /\ Len(sorted) = Len(batch)
             /\ AttacksBelow(sorted, Len(sorted)) = Cardinality(Attacks(batch))
<1> DEFINE D == DOMAIN batch
           order == ByScore(batch)
           sorted == SortedRows(batch)
           F == Flagged(batch, t)
           A == Attacks(batch)
           P == {j \in D : sorted[j].score < t}
           n == Len(batch)
<1>1. /\ D = 1 .. n /\ n \in Nat /\ IsFiniteSet(D)
      /\ \A i \in D : batch[i].score \in Int /\ batch[i].attack \in BOOLEAN
  BY ScoresAreProbabilities, OneAssumption
<1>2. /\ order \in [D -> D]
      /\ \A x \in D : \E k \in D : order[k] = x
      /\ \A i \in D, j \in D : order[i] = order[j] => i = j
      /\ \A i \in D, j \in D : i < j => batch[order[i]].score <= batch[order[j]].score
  BY SortedRowsAre
<1>3. /\ sorted = [k \in D |-> batch[order[k]]]
      /\ F = {i \in D : batch[i].score >= t} /\ A = {i \in D : batch[i].attack}
  BY DEF SortedRows, Flagged, Attacks
<1>4. Len(sorted) = n
  <2>1. sorted \in [1 .. n -> ScoredRows]
    <3>1. \A k \in D : batch[order[k]] \in ScoredRows
      BY <1>1, <1>2
    <3> HIDE DEF D, sorted, order, n
    <3> QED
      BY <1>1, <1>3, <3>1
  <2> HIDE DEF sorted, n
  <2>2. sorted \in Seq(ScoredRows)
    BY <1>1, <2>1, SeqDef
  <2>3. 1 .. n = 1 .. Len(sorted) /\ Len(sorted) \in Nat
    BY <2>1, <2>2
  <2> QED
    BY <1>1, <2>3
<1>5. Boundary(sorted, t) = Cardinality(P)
  BY <1>3 DEF Boundary
<1> HIDE DEF D, order, sorted, F, A, n
<1>6. Rearranges(order, D)
  BY <1>2 DEF Rearranges
<1>7. P = {k \in D : order[k] \in D \ F}
  <2> SUFFICES ASSUME NEW k \in D
               PROVE  sorted[k].score < t <=> order[k] \notin F
    BY <1>2
  <2>1. order[k] \in D /\ sorted[k].score = batch[order[k]].score /\ batch[order[k]].score \in Int
    BY <1>1, <1>2, <1>3
  <2> QED
    BY <1>3, <2>1
<1>8. Cardinality(D \ F) = n - Cardinality(F) /\ Cardinality(F) \in Nat
  <2>1. F \in SUBSET D
    BY <1>3
  <2>2. F = D \cap F
    BY <2>1
  <2>3. IsFiniteSet(F)
    BY <1>1, <2>1, FS_Subset
  <2>4. Cardinality(F) \in Nat
    BY <2>3, FS_CardinalityType
  <2>5. Cardinality(D \ F) = Cardinality(D) - Cardinality(D \cap F)
    BY <1>1, FS_Difference
  <2>6. Cardinality(1 .. n) = n
    BY <1>1, FS_Interval
  <2> QED
    BY <1>1, <2>2, <2>4, <2>5, <2>6
<1>9. Cardinality(P) = n - Cardinality(F)
  <2>1. D \ F \in SUBSET D
    OBVIOUS
  <2>2. Cardinality(P) = Cardinality(D \ F)
    <3>1. P = PlacesOf(D \ F, order, D)
      BY <1>7 DEF PlacesOf
    <3> HIDE DEF P
    <3> QED
      BY <1>1, <1>6, <2>1, <3>1, CountedAlike
  <2> QED
    BY <1>8, <2>2
<1>10. P = 1 .. Cardinality(P)
  <2>1. P \in SUBSET (1 .. n)
    BY <1>1
  <2>2. \A j \in P, i \in 1 .. n : i < j => i \in P
    <3> SUFFICES ASSUME NEW j \in P, NEW i \in 1 .. n, i < j
                 PROVE  sorted[i].score < t
      BY <1>1
    <3>1. i \in D /\ j \in D /\ sorted[j].score < t
      BY <1>1
    <3>2. sorted[i].score = batch[order[i]].score /\ sorted[j].score = batch[order[j]].score
      BY <1>3, <3>1
    <3>3. batch[order[i]].score <= batch[order[j]].score
      BY <1>2, <3>1
    <3>4. batch[order[i]].score \in Int /\ batch[order[j]].score \in Int
      BY <1>1, <1>2, <3>1
    <3> QED
      BY <3>1, <3>2, <3>3, <3>4
  <2> HIDE DEF P
  <2> QED
    BY <1>1, <2>1, <2>2, InitialPositions
<1>11. AttacksBelow(sorted, Cardinality(P)) = Cardinality(A \ F)
  <2> DEFINE Q == {j \in 1 .. Cardinality(P) : sorted[j].attack}
             X == A \ F
  <2>1. Q = {j \in P : sorted[j].attack}
    BY <1>10
  <2>2. \A j \in D : j \in P /\ sorted[j].attack <=> order[j] \in X
    <3> SUFFICES ASSUME NEW j \in D
                 PROVE  j \in P /\ sorted[j].attack <=> order[j] \in X
      OBVIOUS
    <3>1. j \in P <=> order[j] \in D \ F
      BY <1>7
    <3>2. sorted[j].attack <=> order[j] \in A
      BY <1>2, <1>3
    <3> QED
      BY <1>2, <3>1, <3>2
  <2>3. Q = PlacesOf(X, order, D)
    BY <2>1, <2>2 DEF PlacesOf
  <2>4. X \in SUBSET D
    BY <1>3
  <2>5. AttacksBelow(sorted, Cardinality(P)) = Cardinality(Q)
    BY DEF AttacksBelow
  <2> HIDE DEF Q, X
  <2>6. Cardinality(Q) = Cardinality(X)
    BY <1>1, <1>6, <2>3, <2>4, CountedAlike
  <2> QED
    BY <2>5, <2>6 DEF X
<1>12. AttacksBelow(sorted, n) = Cardinality(A)
  <2> DEFINE Q == {j \in 1 .. n : sorted[j].attack}
  <2>1. Q = PlacesOf(A, order, D) /\ A \in SUBSET D
    BY <1>1, <1>2, <1>3 DEF PlacesOf
  <2>2. AttacksBelow(sorted, n) = Cardinality(Q)
    BY DEF AttacksBelow
  <2> HIDE DEF Q
  <2> QED
    BY <1>1, <1>6, <2>1, <2>2, CountedAlike
<1> HIDE DEF P
<1>13. /\ Boundary(sorted, t) = n - Cardinality(F)
       /\ AttacksBelow(sorted, Boundary(sorted, t)) = Cardinality(A \ F)
       /\ Len(sorted) = n
       /\ AttacksBelow(sorted, Len(sorted)) = Cardinality(A)
  BY <1>4, <1>5, <1>9, <1>11, <1>12
<1> QED
  BY <1>13 DEF sorted, F, A, n

Missed(batch, stopped) == Cardinality(Attacks(batch) \ stopped)

Blocked(batch, denied) == Cardinality(denied \ Attacks(batch))

Caught(batch, denied) == Cardinality(denied \cap Attacks(batch))

Between(stopped, denied) == Cardinality(stopped) - Cardinality(denied)

\* What is measured of a pair of thresholds, by the rows that each of them flags.
MeasuredBy(outcome, batch, costs, stopped, denied) ==
    /\ outcome.falsePositive = Blocked(batch, denied)
    /\ outcome.truePositive = Caught(batch, denied)
    /\ outcome.review = Between(stopped, denied)
    /\ outcome.cost = Missed(batch, stopped) * costs.falseNegative
                      + Blocked(batch, denied) * costs.falsePositive
                      + Between(stopped, denied) * costs.review

LEMMA MeasuresAreTyped ==
  ASSUME NEW batch \in Seq(ScoredRows), NEW s, NEW t
  PROVE  /\ Missed(batch, Flagged(batch, s)) \in Nat
         /\ Blocked(batch, Flagged(batch, s)) \in Nat
         /\ Caught(batch, Flagged(batch, s)) \in Nat
         /\ Cardinality(Flagged(batch, s)) \in Nat
         /\ Between(Flagged(batch, s), Flagged(batch, t)) \in Int
         /\ Caught(batch, Flagged(batch, s))
              = Cardinality(Attacks(batch)) - Missed(batch, Flagged(batch, s))
         /\ Blocked(batch, Flagged(batch, s))
              = Cardinality(Flagged(batch, s)) - Caught(batch, Flagged(batch, s))
         /\ Cardinality(Attacks(batch)) \in Nat
<1> DEFINE F == Flagged(batch, s)
           G == Flagged(batch, t)
           A == Attacks(batch)
<1>1. F \in SUBSET (DOMAIN batch) /\ G \in SUBSET (DOMAIN batch) /\ A \in SUBSET (DOMAIN batch)
  BY DEF Flagged, Attacks
<1>2. IsFiniteSet(DOMAIN batch)
  BY ScoresAreProbabilities
<1> HIDE DEF F, G, A
<1>3. IsFiniteSet(F) /\ IsFiniteSet(G) /\ IsFiniteSet(A)
  BY <1>1, <1>2, FS_Subset
<1>4. /\ IsFiniteSet(A \ F) /\ Cardinality(A \ F) = Cardinality(A) - Cardinality(A \cap F)
      /\ IsFiniteSet(F \ A) /\ Cardinality(F \ A) = Cardinality(F) - Cardinality(F \cap A)
  BY <1>3, FS_Difference
<1>5. IsFiniteSet(F \cap A) /\ F \cap A = A \cap F
  BY <1>3, FS_Intersection
<1>6. /\ Cardinality(F) \in Nat /\ Cardinality(G) \in Nat /\ Cardinality(A) \in Nat
      /\ Cardinality(A \ F) \in Nat /\ Cardinality(F \ A) \in Nat /\ Cardinality(F \cap A) \in Nat
  BY <1>3, <1>4, <1>5, FS_CardinalityType
<1>7. /\ Missed(batch, F) \in Nat /\ Blocked(batch, F) \in Nat /\ Caught(batch, F) \in Nat
      /\ Between(F, G) \in Int
      /\ Caught(batch, F) = Cardinality(A) - Missed(batch, F)
      /\ Blocked(batch, F) = Cardinality(F) - Caught(batch, F)
  <2>1. Missed(batch, F) = Cardinality(A \ F) /\ Blocked(batch, F) = Cardinality(F \ A) /\ Caught(batch, F) = Cardinality(F \cap A)
    BY DEF Missed, Blocked, Caught, A
  <2>2. Between(F, G) \in Int
    BY <1>6 DEF Between
  <2>3. Cardinality(F \cap A) = Cardinality(A) - Cardinality(A \ F)
    <3>1. \A x \in Nat, y \in Nat, z \in Nat : z = y - x => x = y - z
      OBVIOUS
    <3>2. Cardinality(A \ F) = Cardinality(A) - Cardinality(F \cap A)
      BY <1>4, <1>5
    <3> QED
      BY <1>6, <3>1, <3>2
  <2>4. Cardinality(F \ A) = Cardinality(F) - Cardinality(F \cap A)
    BY <1>4
  <2> QED
    BY <1>6, <2>1, <2>2, <2>3, <2>4
<1> QED
  BY <1>6, <1>7 DEF F, G, A

\* The sweep prices a pair by the rows that its thresholds flag, in order or not.
LEMMA PricedIs ==
  ASSUME NEW batch \in Seq(ScoredRows), NEW costs, NEW l \in Int, NEW u \in Int
  PROVE  LET entry == Priced(SortedRows(batch), costs, l, u)
         IN  /\ MeasuredBy(entry, batch, costs, Flagged(batch, l), Flagged(batch, u))
             /\ entry.lower = l /\ entry.upper = u
<1> DEFINE sorted == SortedRows(batch)
           entry == Priced(sorted, costs, l, u)
           n == Len(batch)
           F == Flagged(batch, l)
           G == Flagged(batch, u)
           below == Boundary(sorted, l)
           over == Boundary(sorted, u)
           all == AttacksBelow(sorted, Len(sorted))
           denied == all - AttacksBelow(sorted, over)
<1>1. /\ entry.lower = l /\ entry.upper = u
      /\ entry.review = over - below
      /\ entry.truePositive = denied
      /\ entry.falsePositive = Len(sorted) - over - denied
      /\ entry.cost = AttacksBelow(sorted, below) * costs.falseNegative
                      + (Len(sorted) - over - denied) * costs.falsePositive + (over - below) * costs.review
  BY DEF Priced
<1>2. /\ below = n - Cardinality(F) /\ over = n - Cardinality(G) /\ n \in Nat /\ Len(sorted) = n
      /\ AttacksBelow(sorted, below) = Missed(batch, F) /\ AttacksBelow(sorted, over) = Missed(batch, G)
      /\ all = Cardinality(Attacks(batch))
  BY PositionsAre, ScoresAreProbabilities DEF Missed
<1>3. /\ Cardinality(F) \in Nat /\ Cardinality(G) \in Nat /\ Missed(batch, G) \in Nat
      /\ Cardinality(Attacks(batch)) \in Nat
      /\ Caught(batch, G) = Cardinality(Attacks(batch)) - Missed(batch, G)
      /\ Blocked(batch, G) = Cardinality(G) - Caught(batch, G)
      /\ Between(F, G) = Cardinality(F) - Cardinality(G)
  BY MeasuresAreTyped DEF Between
<1> HIDE DEF sorted, entry, n, F, G, below, over, all
<1>4. denied = Caught(batch, G)
  BY <1>2, <1>3
<1>5. Len(sorted) - over - denied = Blocked(batch, G) /\ over - below = Between(F, G)
  <2>1. Caught(batch, G) \in Int
    BY <1>3
  <2> HIDE DEF denied
  <2> QED
    BY <1>2, <1>3, <1>4, <2>1
<1> HIDE DEF denied
<1>6. MeasuredBy(entry, batch, costs, F, G)
  BY <1>1, <1>2, <1>4, <1>5 DEF MeasuredBy
<1> QED
  BY <1>1, <1>6 DEF entry, sorted, F, G

\* The evaluation of a band measures the same, if its thresholds are in order.
LEMMA EvaluatedIs ==
  ASSUME NEW batch \in Seq(ScoredRows), NEW costs, NEW b, b.lower \in Int, b.upper \in Int,
         b.lower <= b.upper
  PROVE  MeasuredBy(EvaluateBand(batch, b, costs), batch, costs,
                    Flagged(batch, b.lower), Flagged(batch, b.upper))
<1> DEFINE l == b.lower
           u == b.upper
           outcome == EvaluateBand(batch, b, costs)
           F == Flagged(batch, l)
           G == Flagged(batch, u)
           A == Attacks(batch)
           between == F \ G
           Rows(decision, attack) == Cardinality(Decided(batch, b, decision, attack))
<1>1. b.lower = l /\ b.upper = u /\ l \in Int /\ u \in Int /\ l <= u
  OBVIOUS
<1>2. /\ outcome.truePositive = Rows("deny", TRUE) /\ outcome.falsePositive = Rows("deny", FALSE)
      /\ outcome.review = Rows("review", TRUE) + Rows("review", FALSE)
      /\ outcome.cost = Rows("allow", TRUE) * costs.falseNegative + Rows("deny", FALSE) * costs.falsePositive
                        + (Rows("review", TRUE) + Rows("review", FALSE)) * costs.review
  BY DEF EvaluateBand, Decided
<1> HIDE DEF l, u
<1>3. /\ Decided(batch, b, "allow", TRUE) = A \ F
      /\ Decided(batch, b, "deny", FALSE) = G \cap Legitimate(batch)
      /\ Decided(batch, b, "review", TRUE) = (F \ G) \cap A
      /\ Decided(batch, b, "review", FALSE) = (F \ G) \ A
  BY <1>1, DecisionsOfBand
<1>4. /\ G \subseteq F /\ F \in SUBSET (DOMAIN batch)
      /\ G \cap Legitimate(batch) = G \ A
  <2>1. \A i \in DOMAIN batch : batch[i].score \in Int
    BY ScoresAreProbabilities, OneAssumption
  <2> QED
    BY <1>1, <2>1 DEF Flagged, Legitimate
<1>5. Decided(batch, b, "deny", TRUE) = G \cap A
  <2> SUFFICES ASSUME NEW i \in DOMAIN batch
               PROVE  BandDecision(batch[i].score, b) = "deny" <=> batch[i].score >= u
    <3>1. \A i \in DOMAIN batch : batch[i].attack \in BOOLEAN
      BY ScoresAreProbabilities
    <3> QED
      BY <3>1 DEF Decided, Flagged, Attacks
  <2>1. CASE batch[i].score >= u
    BY <1>1, <2>1 DEF BandDecision
  <2>2. CASE ~(batch[i].score >= u) /\ batch[i].score >= l
    BY <1>1, <2>2 DEF BandDecision
  <2>3. CASE ~(batch[i].score >= u) /\ ~(batch[i].score >= l)
    BY <1>1, <2>3 DEF BandDecision
  <2> QED
    BY <2>1, <2>2, <2>3
<1> HIDE DEF outcome, F, G, A
<1>6. /\ Rows("allow", TRUE) = Missed(batch, F) /\ Rows("deny", FALSE) = Blocked(batch, G)
      /\ Rows("deny", TRUE) = Caught(batch, G)
  BY <1>3, <1>4, <1>5 DEF Missed, Blocked, Caught, A
<1>7. Rows("review", TRUE) + Rows("review", FALSE) = Between(F, G)
  <2>1. IsFiniteSet(F)
    BY <1>4, ScoresAreProbabilities, FS_Subset
  <2>2. IsFiniteSet(F \ G) /\ Cardinality(F \ G) = Cardinality(F) - Cardinality(F \cap G)
    BY <2>1, FS_Difference
  <2>3. F \cap G = G
    BY <1>4
  <2> DEFINE S == F \ G
  <2>4. IsFiniteSet(S \cap A) /\ IsFiniteSet(S) /\ Cardinality(S \ A) = Cardinality(S) - Cardinality(S \cap A)
    <3>1. IsFiniteSet(S)
      BY <2>2
    <3> HIDE DEF S
    <3> QED
      BY <3>1, FS_Difference, FS_Intersection
  <2>5. Cardinality(S) \in Nat /\ Cardinality(S \cap A) \in Nat
    BY <2>4, FS_CardinalityType
  <2>6. Rows("review", TRUE) = Cardinality(S \cap A) /\ Rows("review", FALSE) = Cardinality(S \ A)
    BY <1>3
  <2>7. Cardinality(S) = Between(F, G)
    BY <2>2, <2>3 DEF Between
  <2> HIDE DEF S, Rows
  <2>8. \A x \in Nat, y \in Nat : \A z : z = x - y => y + z = x
    OBVIOUS
  <2>9. Cardinality(S \cap A) + Cardinality(S \ A) = Cardinality(S)
    BY <2>4, <2>5, <2>8
  <2> QED
    BY <2>6, <2>7, <2>9
<1>8. MeasuredBy(outcome, batch, costs, F, G)
  BY <1>2, <1>6, <1>7 DEF MeasuredBy
<1> QED
  BY <1>8 DEF outcome, F, G, l, u

--------------------------------------------------------------------------------
(* The candidates and the pair that is selected.                              *)

\* A quotient is within the bounds that the dividend keeps to.
LEMMA QuotientBound ==
  ASSUME NEW a \in Nat, NEW d \in Nat \ {0}, NEW m \in Nat, a <= d * m
  PROVE  a \div d \in 0 .. m
<1> DEFINE q == a \div d
<1>1. q \in Nat /\ d * q <= a
  <2>1. \A x \in Nat, y \in Nat \ {0} : x \div y \in Nat /\ y * (x \div y) <= x
    OBVIOUS
  <2> QED
    BY <2>1
<1> HIDE DEF q
<1>2. ASSUME m + 1 <= q
      PROVE  FALSE
  <2>1. \A x \in Nat, y \in Nat, z \in Nat : x <= y => z * x <= z * y
    OBVIOUS
  <2>2. d * (m + 1) <= d * q
    BY <1>1, <1>2, <2>1
  <2>3. d * (m + 1) = d * m + d
    OBVIOUS
  <2>4. d * m \in Nat /\ d * q \in Nat
    BY <1>1
  <2> QED
    BY <1>1, <2>2, <2>3, <2>4
<1> QED
  BY <1>1, <1>2 DEF q

\* The candidates are thresholds, the incumbent one of them, and all that is
\* worth trying when nothing is thinned out.
LEMMA CandidatesAre ==
  ASSUME NEW batch \in Seq(ScoredRows), NEW g \in Nat \ {0, 1}, NEW t \in 0 .. One
  PROVE  LET candidates == SweepCandidates(batch, g, {t})
             K == ToSet(candidates)
         IN  /\ candidates \in [1 .. Cardinality(K) -> K]
             /\ Cardinality(K) \in Nat
             /\ K \subseteq 0 .. One /\ t \in K
             /\ Cardinality(Tried(batch)) <= g => Tried(batch) \subseteq K
<1> DEFINE S == Tried(batch)
           observed == Ascending(S)
           total == Len(observed)
           n == Cardinality(S)
           thinned == {observed[1 + (i * (total - 1)) \div (g - 1)] : i \in 0 .. g - 1}
           kept == IF total > g THEN thinned ELSE ToSet(observed)
           K == kept \cup {t}
<1>1. SweepCandidates(batch, g, {t}) = Ascending(K)
  BY DEF SweepCandidates, Tried
<1>2. S \subseteq 0 .. One /\ IsFiniteSet(S) /\ S # {}
  BY ScoresAreProbabilities
<1> HIDE DEF S
<1>3. n \in Nat /\ observed \in [1 .. n -> S] /\ ToSet(observed) = S
  <2>1. S \in SUBSET Int
    BY <1>2
  <2> QED
    BY <1>2, <2>1, AscendingIs
<1> HIDE DEF observed, n
<1>4. total = n
  <2>1. observed \in Seq(S)
    BY <1>3, SeqDef
  <2>2. 1 .. n = 1 .. Len(observed) /\ Len(observed) \in Nat
    BY <1>3, <2>1
  <2> QED
    BY <1>3, <2>2
<1>5. n > 0
  <2>1. n # 0
    BY <1>2, FS_EmptySet DEF n
  <2> QED
    BY <1>3, <2>1
<1> HIDE DEF total
<1>6. thinned \subseteq S
  <2> SUFFICES ASSUME NEW i \in 0 .. g - 1
               PROVE  observed[1 + (i * (total - 1)) \div (g - 1)] \in S
    OBVIOUS
  <2> DEFINE a == i * (total - 1)
             d == g - 1
             m == total - 1
  <2>1. i \in Nat /\ d \in Nat \ {0} /\ m \in Nat /\ i <= d
    BY <1>3, <1>4, <1>5
  <2>2. a \in Nat /\ a <= d * m
    <3> HIDE DEF d, m
    <3>1. \A x \in Nat, y \in Nat, z \in Nat : x <= y => x * z \in Nat /\ x * z <= y * z
      OBVIOUS
    <3> QED
      BY <2>1, <3>1 DEF m
  <2> HIDE DEF a, d, m
  <2>3. a \div d \in 0 .. m
    BY <2>1, <2>2, QuotientBound
  <2>4. 1 + (a \div d) \in 1 .. n
    BY <1>3, <1>4, <2>3 DEF m
  <2> QED
    BY <1>3, <2>4 DEF a, d
<1>7. kept \subseteq S /\ (n <= g => kept = S)
  <2> HIDE DEF thinned
  <2>1. CASE total > g
    BY <1>3, <1>4, <1>6, <2>1
  <2>2. CASE ~(total > g)
    BY <1>3, <2>2
  <2> QED
    BY <2>1, <2>2
<1> HIDE DEF kept
<1>8. K \subseteq 0 .. One /\ t \in K /\ IsFiniteSet(K) /\ K \in SUBSET Int
  <2>1. IsFiniteSet(kept)
    BY <1>2, <1>7, FS_Subset
  <2>2. IsFiniteSet(K)
    BY <2>1, FS_AddElement
  <2> QED
    BY <1>2, <1>7, <2>2
<1> HIDE DEF K
<1>9. Cardinality(K) \in Nat /\ Ascending(K) \in [1 .. Cardinality(K) -> K] /\ ToSet(Ascending(K)) = K
  BY <1>8, AscendingIs
<1>10. n <= g => S \subseteq K
  BY <1>7 DEF K
<1> QED
  BY <1>1, <1>8, <1>9, <1>10 DEF S, n

CostUnits == [falseNegative : Nat, falsePositive : Nat, review : Nat]

EntryOf(batch, costs, lower, upper) == Priced(SortedRows(batch), costs, lower, upper)

\* The part of the tie-break order that the thresholds and their outcome decide.
OutcomeKey(outcome, lower, upper) ==
    <<outcome.cost, outcome.falsePositive, -outcome.truePositive, outcome.review, -upper, -lower>>

Measures(outcome) ==
    /\ outcome.cost \in Int /\ outcome.falsePositive \in Int
    /\ outcome.truePositive \in Int /\ outcome.review \in Int

\* What is measured are integers.
LEMMA MeasuredAreIntegers ==
  ASSUME NEW batch \in Seq(ScoredRows), NEW costs \in CostUnits, NEW x, NEW y, NEW outcome,
         MeasuredBy(outcome, batch, costs, Flagged(batch, x), Flagged(batch, y))
  PROVE  Measures(outcome)
<1> DEFINE a == Missed(batch, Flagged(batch, x))
           b == Blocked(batch, Flagged(batch, y))
           c == Caught(batch, Flagged(batch, y))
           r == Between(Flagged(batch, x), Flagged(batch, y))
<1>1. a \in Int /\ b \in Int /\ c \in Int /\ r \in Int
  BY MeasuresAreTyped
<1>2. costs.falseNegative \in Int /\ costs.falsePositive \in Int /\ costs.review \in Int
  BY DEF CostUnits
<1>3. /\ outcome.falsePositive = b /\ outcome.truePositive = c /\ outcome.review = r
      /\ outcome.cost = a * costs.falseNegative + b * costs.falsePositive + r * costs.review
  BY DEF MeasuredBy
<1> DEFINE fn == costs.falseNegative
           fp == costs.falsePositive
           rv == costs.review
<1> HIDE DEF a, b, c, r, fn, fp, rv
<1>4. a * fn \in Int /\ b * fp \in Int /\ r * rv \in Int
  BY <1>1, <1>2 DEF fn, fp, rv
<1>5. outcome.cost = a * fn + b * fp + r * rv
  BY <1>3 DEF fn, fp, rv
<1> QED
  BY <1>1, <1>3, <1>4, <1>5 DEF Measures

\* The keys of an entry.
LEMMA EntryKeys ==
  ASSUME NEW entry, Measures(entry), NEW l \in Int, NEW u \in Int, entry.lower = l, entry.upper = u,
         NEW i \in Int, NEW j \in Int
  PROVE  /\ TieBreakKey(entry, i, j) \in Keys(8)
         /\ OutcomeKey(entry, l, u) \in Keys(6)
         /\ \A k \in 1 .. 6 : TieBreakKey(entry, i, j)[k] = OutcomeKey(entry, l, u)[k]
<1> DEFINE a == TieBreakKey(entry, i, j)
           b == OutcomeKey(entry, l, u)
<1>1. a = <<entry.cost, entry.falsePositive, -entry.truePositive, entry.review, -u, -l, i, j>>
  BY DEF TieBreakKey
<1>2. b = <<entry.cost, entry.falsePositive, -entry.truePositive, entry.review, -u, -l>>
  BY DEF OutcomeKey
<1> HIDE DEF a, b
<1>3. a \in Keys(8)
  BY <1>1 DEF Measures, Keys
<1>4. b \in Keys(6)
  BY <1>2 DEF Measures, Keys
<1>5. \A k \in 1 .. 6 : a[k] = b[k]
  <2>1. a[1] = b[1] /\ a[2] = b[2] /\ a[3] = b[3] /\ a[4] = b[4] /\ a[5] = b[5] /\ a[6] = b[6]
    BY <1>1, <1>2
  <2>2. \A k \in 1 .. 6 : k = 1 \/ k = 2 \/ k = 3 \/ k = 4 \/ k = 5 \/ k = 6
    OBVIOUS
  <2> QED
    BY <2>1, <2>2
<1> QED
  BY <1>3, <1>4, <1>5 DEF a, b

\* Of two pairs that measure the same, the one with the higher upper threshold comes first.
LEMMA HigherComesFirst ==
  ASSUME NEW e, NEW f, Measures(e), Measures(f),
         e.cost = f.cost, e.falsePositive = f.falsePositive, e.truePositive = f.truePositive,
         e.review = f.review, e.upper \in Int, f.upper \in Int, e.upper > f.upper,
         NEW i, NEW j, NEW k, NEW l
  PROVE  Precedes(TieBreakKey(e, i, j), TieBreakKey(f, k, l))
<1> DEFINE a == TieBreakKey(e, i, j)
           b == TieBreakKey(f, k, l)
<1>1. /\ a[1] = b[1] /\ a[2] = b[2] /\ a[3] = b[3] /\ a[4] = b[4] /\ a[5] = -e.upper /\ b[5] = -f.upper
      /\ DOMAIN a = 1 .. 8
  BY DEF TieBreakKey
<1> HIDE DEF a, b
<1>2. \A n \in 1 .. 5 - 1 : a[n] = b[n]
  <2>1. \A n \in 1 .. 5 - 1 : n = 1 \/ n = 2 \/ n = 3 \/ n = 4
    OBVIOUS
  <2> QED
    BY <1>1, <2>1
<1>3. a[5] < b[5] /\ 5 \in DOMAIN a
  BY <1>1
<1>4. Precedes(a, b)
  BY <1>2, <1>3 DEF Precedes
<1> QED
  BY <1>4 DEF a, b

\* The pair that is selected: its thresholds are candidates and in order, and no
\* candidates that do not flag less from below come before it.
LEMMA SelectedBandIs ==
  ASSUME NEW batch \in Seq(ScoredRows), NEW costs \in CostUnits, NEW g \in Nat \ {0, 1},
         NEW t \in 0 .. One
  PROVE  LET K == ToSet(SweepCandidates(batch, g, {t}))
             fit == SelectBand(batch, costs, g, {t})
         IN  /\ fit.lower \in K /\ fit.upper \in K /\ fit.lower <= fit.upper
             /\ MeasuredBy(fit, batch, costs, Flagged(batch, fit.lower), Flagged(batch, fit.upper))
             /\ \A x \in K, y \in K : Between(Flagged(batch, x), Flagged(batch, y)) >= 0 =>
                  ~Precedes(OutcomeKey(EntryOf(batch, costs, x, y), x, y),
                            OutcomeKey(fit, fit.lower, fit.upper))
<1> DEFINE c == SweepCandidates(batch, g, {t})
           K == ToSet(c)
           n == Cardinality(K)
           fit == SelectBand(batch, costs, g, {t})
           At(p) == EntryOf(batch, costs, c[p[1]], c[p[2]])
           pairs == {p \in (DOMAIN c) \X (DOMAIN c) : At(p).review >= 0}
           key == [p \in pairs |-> TieBreakKey(At(p), p[1], p[2])]
           best == First(key)
<1>1. fit = At(best)
  BY DEF SelectBand, EntryOf
<1>2. c \in [1 .. n -> K] /\ n \in Nat /\ K \subseteq 0 .. One /\ t \in K
  BY CandidatesAre
<1>3. \A x \in K : \E k \in 1 .. n : c[k] = x
  <2> HIDE DEF c, n
  <2> QED
    BY <1>2 DEF ToSet
<1> HIDE DEF c, K, n, fit
<1>4. ASSUME NEW x \in K, NEW y \in K
      PROVE  LET e == EntryOf(batch, costs, x, y)
             IN  /\ x \in Int /\ y \in Int /\ e.lower = x /\ e.upper = y /\ Measures(e)
                 /\ MeasuredBy(e, batch, costs, Flagged(batch, x), Flagged(batch, y))
  <2>1. x \in Int /\ y \in Int
    BY <1>2, OneAssumption
  <2> DEFINE e == EntryOf(batch, costs, x, y)
  <2>2. /\ e.lower = x /\ e.upper = y
        /\ MeasuredBy(e, batch, costs, Flagged(batch, x), Flagged(batch, y))
    BY <2>1, PricedIs DEF EntryOf
  <2> HIDE DEF e
  <2>3. Measures(e)
    BY <2>2, MeasuredAreIntegers
  <2> QED
    BY <2>1, <2>2, <2>3 DEF e
<1>5. ASSUME NEW p \in (1 .. n) \X (1 .. n)
      PROVE  /\ c[p[1]] \in K /\ c[p[2]] \in K /\ p[1] \in Int /\ p[2] \in Int
             /\ At(p).lower = c[p[1]] /\ At(p).upper = c[p[2]] /\ Measures(At(p))
             /\ MeasuredBy(At(p), batch, costs, Flagged(batch, c[p[1]]), Flagged(batch, c[p[2]]))
  <2>1. p[1] \in 1 .. n /\ p[2] \in 1 .. n
    OBVIOUS
  <2>2. c[p[1]] \in K /\ c[p[2]] \in K
    BY <1>2, <2>1
  <2> QED
    BY <1>4, <2>1, <2>2
<1>6. DOMAIN c = 1 .. n
  BY <1>2
<1>7. IsFiniteSet(pairs)
  <2>1. IsFiniteSet(1 .. n)
    BY <1>2, FS_Interval
  <2>2. IsFiniteSet((1 .. n) \X (1 .. n))
    BY <2>1, FS_Product
  <2>3. pairs \in SUBSET ((1 .. n) \X (1 .. n))
    BY <1>6
  <2> HIDE DEF pairs
  <2> QED
    BY <2>2, <2>3, FS_Subset
<1> HIDE DEF At
<1>8. key \in [pairs -> Keys(8)]
  <2> SUFFICES ASSUME NEW p \in pairs
               PROVE  TieBreakKey(At(p), p[1], p[2]) \in Keys(8)
    OBVIOUS
  <2>1. p \in (1 .. n) \X (1 .. n)
    BY <1>6
  <2>2. /\ c[p[1]] \in Int /\ c[p[2]] \in Int
    BY <1>4, <1>5, <2>1
  <2> QED
    BY <1>5, <2>1, <2>2, EntryKeys
<1>9. ASSUME NEW i \in 1 .. n
      PROVE  <<i, i>> \in pairs
  <2> DEFINE p == <<i, i>>
  <2>1. p \in (1 .. n) \X (1 .. n) /\ p[1] = i /\ p[2] = i
    OBVIOUS
  <2> HIDE DEF p
  <2>2. At(p).review = Between(Flagged(batch, c[i]), Flagged(batch, c[i]))
    BY <1>5, <2>1 DEF MeasuredBy
  <2>3. Cardinality(Flagged(batch, c[i])) \in Nat
    BY MeasuresAreTyped
  <2>4. At(p).review >= 0
    BY <2>2, <2>3 DEF Between
  <2> QED
    BY <1>6, <2>1, <2>4 DEF p
<1>10. best \in pairs /\ \A p \in pairs : ~Precedes(key[p], key[best])
  <2>1. pairs # {}
    BY <1>2, <1>3, <1>9
  <2> HIDE DEF pairs, key
  <2>2. 8 \in Nat
    OBVIOUS
  <2> QED
    BY <1>7, <1>8, <2>1, <2>2, FirstComesFirst
<1> DEFINE l == c[best[1]]
           u == c[best[2]]
           F == Flagged(batch, l)
           G == Flagged(batch, u)
<1>11. best \in (1 .. n) \X (1 .. n) /\ At(best).review >= 0
  BY <1>6, <1>10
<1> HIDE DEF best
<1>12. /\ l \in K /\ u \in K /\ l \in Int /\ u \in Int
       /\ fit.lower = l /\ fit.upper = u /\ Measures(fit) /\ fit.review >= 0
       /\ MeasuredBy(fit, batch, costs, F, G)
  BY <1>1, <1>4, <1>5, <1>11
<1>13. ASSUME u < l
       PROVE  FALSE
  <2> DEFINE p == <<best[1], best[1]>>
  <2>1. best[1] \in 1 .. n
    BY <1>11
  <2>2. p \in pairs /\ p[1] = best[1] /\ p[2] = best[1]
    BY <1>9, <2>1
  <2>3. p \in (1 .. n) \X (1 .. n)
    BY <2>1
  <2> HIDE DEF p, pairs
  <2>4. At(p).upper = l /\ Measures(At(p)) /\ MeasuredBy(At(p), batch, costs, F, F)
    BY <1>5, <2>2, <2>3
  <2>5. F = G
    <3>1. \A i \in DOMAIN batch : batch[i].score \in Int
      BY ScoresAreProbabilities, OneAssumption
    <3>2. F \subseteq G
      BY <1>12, <1>13, <3>1 DEF Flagged
    <3>3. IsFiniteSet(G)
      <4>1. G \in SUBSET (DOMAIN batch)
        BY DEF Flagged
      <4> HIDE DEF G
      <4> QED
        BY <4>1, ScoresAreProbabilities, FS_Subset
    <3>4. Cardinality(F) >= Cardinality(G)
      <4>1. Cardinality(F) \in Nat /\ Cardinality(G) \in Nat
        BY MeasuresAreTyped
      <4> QED
        BY <1>12, <4>1 DEF MeasuredBy, Between
    <3> HIDE DEF F, G
    <3>5. IsFiniteSet(F) /\ Cardinality(F) <= Cardinality(G) /\ (Cardinality(F) = Cardinality(G) => F = G)
      BY <3>2, <3>3, FS_Subset
    <3>6. Cardinality(F) \in Nat /\ Cardinality(G) \in Nat
      BY <3>3, <3>5, FS_CardinalityType
    <3> QED
      BY <3>4, <3>5, <3>6
  <2>6. /\ At(p).cost = fit.cost /\ At(p).falsePositive = fit.falsePositive
        /\ At(p).truePositive = fit.truePositive /\ At(p).review = fit.review
    <3> HIDE DEF F, G
    <3> QED
      BY <1>12, <2>4, <2>5 DEF MeasuredBy
  <2>7. Precedes(TieBreakKey(At(p), p[1], p[2]), TieBreakKey(fit, best[1], best[2]))
    BY <1>12, <1>13, <2>4, <2>6, HigherComesFirst
  <2> QED
    BY <1>1, <1>10, <2>2, <2>7
<1>14. ASSUME NEW x \in K, NEW y \in K, Between(Flagged(batch, x), Flagged(batch, y)) >= 0
       PROVE  ~Precedes(OutcomeKey(EntryOf(batch, costs, x, y), x, y), OutcomeKey(fit, l, u))
  <2>1. PICK i \in 1 .. n : c[i] = x
    BY <1>3
  <2>2. PICK j \in 1 .. n : c[j] = y
    BY <1>3
  <2> DEFINE p == <<i, j>>
             e == EntryOf(batch, costs, x, y)
  <2>3. At(p) = e /\ p \in (1 .. n) \X (1 .. n) /\ p[1] = i /\ p[2] = j
    BY <2>1, <2>2 DEF At
  <2> HIDE DEF p, e
  <2>4. /\ x \in Int /\ y \in Int /\ e.lower = x /\ e.upper = y /\ Measures(e)
        /\ MeasuredBy(e, batch, costs, Flagged(batch, x), Flagged(batch, y))
    BY <1>4 DEF e
  <2>5. p \in pairs
    BY <1>6, <1>14, <2>3, <2>4 DEF MeasuredBy
  <2>6. ~Precedes(TieBreakKey(e, i, j), TieBreakKey(fit, best[1], best[2]))
    BY <1>1, <1>10, <2>3, <2>5
  <2>7. i \in Int /\ j \in Int /\ best[1] \in Int /\ best[2] \in Int
    BY <1>5, <1>11
  <2> HIDE DEF l, u
  <2> DEFINE a == TieBreakKey(e, i, j)
             b == TieBreakKey(fit, best[1], best[2])
             r == OutcomeKey(e, x, y)
             s == OutcomeKey(fit, l, u)
  <2>8. a \in Keys(8) /\ r \in Keys(6) /\ \A k \in 1 .. 6 : a[k] = r[k]
    BY <2>4, <2>7, EntryKeys
  <2>9. b \in Keys(8) /\ s \in Keys(6) /\ \A k \in 1 .. 6 : b[k] = s[k]
    <3>1. l \in Int /\ u \in Int /\ fit.lower = l /\ fit.upper = u /\ Measures(fit)
      BY <1>12
    <3> DEFINE first == best[1]
               second == best[2]
    <3>2. first \in Int /\ second \in Int
      BY <2>7
    <3> HIDE DEF first, second
    <3>3. /\ TieBreakKey(fit, first, second) \in Keys(8)
          /\ OutcomeKey(fit, l, u) \in Keys(6)
          /\ \A k \in 1 .. 6 : TieBreakKey(fit, first, second)[k] = OutcomeKey(fit, l, u)[k]
      BY <3>1, <3>2, EntryKeys
    <3> QED
      BY <3>3 DEF first, second
  <2>10. ~Precedes(a, b)
    BY <2>6
  <2> HIDE DEF a, b, r, s
  <2>11. 8 \in Nat /\ 6 \in 0 .. 8
    OBVIOUS
  <2>12. BeginsWith(a, r, 6) /\ BeginsWith(b, s, 6)
    BY <2>8, <2>9 DEF BeginsWith
  <2>13. ~Precedes(r, s)
    BY <2>8, <2>9, <2>10, <2>11, <2>12, PrefixPrecedes
  <2> QED
    BY <2>13 DEF r, s, e
<1>15. l <= u
  BY <1>12, <1>13
<1>16. /\ fit.lower \in K /\ fit.upper \in K /\ fit.lower <= fit.upper
       /\ MeasuredBy(fit, batch, costs, Flagged(batch, fit.lower), Flagged(batch, fit.upper))
       /\ \A x \in K, y \in K : Between(Flagged(batch, x), Flagged(batch, y)) >= 0 =>
            ~Precedes(OutcomeKey(EntryOf(batch, costs, x, y), x, y), OutcomeKey(fit, fit.lower, fit.upper))
  <2> HIDE DEF l, u
  <2>1. \A x \in K, y \in K : Between(Flagged(batch, x), Flagged(batch, y)) >= 0 =>
            ~Precedes(OutcomeKey(EntryOf(batch, costs, x, y), x, y), OutcomeKey(fit, l, u))
    BY <1>14
  <2> QED
    BY <1>12, <1>15, <2>1
<1> QED
  BY <1>16 DEF fit, K, c

\* What is measured by the same rows is the same.
LEMMA MeasuredAlike ==
  ASSUME NEW d, NEW e, NEW batch, NEW costs, NEW stopped, NEW denied,
         MeasuredBy(d, batch, costs, stopped, denied), MeasuredBy(e, batch, costs, stopped, denied)
  PROVE  /\ d.cost = e.cost
         /\ \A l, u : OutcomeKey(d, l, u) = OutcomeKey(e, l, u)
BY DEF MeasuredBy, OutcomeKey

\* The band that is selected is valid, costs what was said, no more than the
\* incumbent, and comes first among the candidates.
LEMMA SelectedIsBest ==
  ASSUME NEW batch \in Seq(ScoredRows), NEW costs \in CostUnits, NEW g \in Nat \ {0, 1},
         NEW t \in 0 .. One
  PROVE  LET K == ToSet(SweepCandidates(batch, g, {t}))
             fit == SelectBand(batch, costs, g, {t})
             Key(l, u) == OutcomeKey(EvaluateBand(batch, [lower |-> l, upper |-> u], costs), l, u)
         IN  /\ ValidBand(fit)
             /\ EvaluateBand(batch, fit, costs).cost = fit.cost
             /\ EvaluateBand(batch, fit, costs).cost
                  <= EvaluateBand(batch, SingleThreshold(t), costs).cost
             /\ \A l \in K, u \in K : l <= u => ~Precedes(Key(l, u), Key(fit.lower, fit.upper))
             /\ t \in K
             /\ Cardinality(Tried(batch)) <= g =>
                  \A l \in 0 .. One, u \in 0 .. One : l <= u =>
                    Key(l, u)[1] >= Key(fit.lower, fit.upper)[1]
<1> DEFINE K == ToSet(SweepCandidates(batch, g, {t}))
           fit == SelectBand(batch, costs, g, {t})
           fl == fit.lower
           fu == fit.upper
           Outcome(l, u) == EvaluateBand(batch, [lower |-> l, upper |-> u], costs)
           Key(l, u) == OutcomeKey(Outcome(l, u), l, u)
           Rows(l) == Flagged(batch, l)
<1>1. K \subseteq 0 .. One /\ t \in K /\ (Cardinality(Tried(batch)) <= g => Tried(batch) \subseteq K)
  BY CandidatesAre
<1>2. /\ fl \in K /\ fu \in K /\ fl <= fu
      /\ MeasuredBy(fit, batch, costs, Rows(fl), Rows(fu))
      /\ \A x \in K, y \in K : Between(Rows(x), Rows(y)) >= 0 =>
           ~Precedes(OutcomeKey(EntryOf(batch, costs, x, y), x, y), OutcomeKey(fit, fl, fu))
  BY SelectedBandIs
<1> HIDE DEF K, fit
<1>3. ASSUME NEW l \in 0 .. One, NEW u \in 0 .. One, l <= u
      PROVE  /\ MeasuredBy(Outcome(l, u), batch, costs, Rows(l), Rows(u))
             /\ MeasuredBy(EntryOf(batch, costs, l, u), batch, costs, Rows(l), Rows(u))
             /\ Between(Rows(l), Rows(u)) >= 0
             /\ Key(l, u)[1] = Outcome(l, u).cost /\ Outcome(l, u).cost \in Int
  <2>1. l \in Int /\ u \in Int
    BY OneAssumption
  <2>2. MeasuredBy(Outcome(l, u), batch, costs, Rows(l), Rows(u))
    <3> DEFINE b == [lower |-> l, upper |-> u]
    <3>1. b.lower = l /\ b.upper = u
      OBVIOUS
    <3> HIDE DEF b
    <3>2. MeasuredBy(EvaluateBand(batch, b, costs), batch, costs, Flagged(batch, b.lower), Flagged(batch, b.upper))
      BY <1>3, <2>1, <3>1, EvaluatedIs
    <3> QED
      BY <3>1, <3>2 DEF b
  <2>3. MeasuredBy(EntryOf(batch, costs, l, u), batch, costs, Rows(l), Rows(u))
    BY <2>1, PricedIs DEF EntryOf
  <2>4. Between(Rows(l), Rows(u)) >= 0
    <3>1. \A i \in DOMAIN batch : batch[i].score \in Int
      BY ScoresAreProbabilities, OneAssumption
    <3>2. Rows(u) \in SUBSET Rows(l)
      BY <1>3, <2>1, <3>1 DEF Flagged
    <3>3. IsFiniteSet(Rows(l))
      <4>1. Rows(l) \in SUBSET (DOMAIN batch)
        BY DEF Flagged
      <4> HIDE DEF Rows
      <4> QED
        BY <4>1, ScoresAreProbabilities, FS_Subset
    <3>4. Cardinality(Rows(u)) \in Nat /\ Cardinality(Rows(l)) \in Nat
      BY MeasuresAreTyped
    <3> HIDE DEF Rows
    <3>5. Cardinality(Rows(u)) <= Cardinality(Rows(l))
      BY <3>2, <3>3, FS_Subset
    <3> QED
      BY <3>4, <3>5 DEF Between
  <2>5. Measures(Outcome(l, u))
    <3> HIDE DEF Outcome
    <3> QED
      BY <2>2, MeasuredAreIntegers
  <2>6. Key(l, u)[1] = Outcome(l, u).cost
    BY DEF OutcomeKey
  <2> QED
    BY <2>2, <2>3, <2>4, <2>5, <2>6 DEF Measures
<1> HIDE DEF Outcome
<1>4. ASSUME NEW l \in K, NEW u \in K, l <= u
      PROVE  ~Precedes(Key(l, u), OutcomeKey(fit, fl, fu))
  <2>1. l \in 0 .. One /\ u \in 0 .. One
    BY <1>1
  <2>2. /\ MeasuredBy(Outcome(l, u), batch, costs, Rows(l), Rows(u))
        /\ MeasuredBy(EntryOf(batch, costs, l, u), batch, costs, Rows(l), Rows(u))
        /\ Between(Rows(l), Rows(u)) >= 0
    BY <1>3, <1>4, <2>1
  <2>3. Key(l, u) = OutcomeKey(EntryOf(batch, costs, l, u), l, u)
    BY <2>2, MeasuredAlike
  <2> QED
    BY <1>2, <2>2, <2>3
<1>5. /\ fl \in 0 .. One /\ fu \in 0 .. One
      /\ Key(fl, fu) = OutcomeKey(fit, fl, fu) /\ Outcome(fl, fu).cost = fit.cost
  <2>1. fl \in 0 .. One /\ fu \in 0 .. One
    BY <1>1, <1>2
  <2>2. MeasuredBy(Outcome(fl, fu), batch, costs, Rows(fl), Rows(fu))
    BY <1>2, <1>3, <2>1
  <2> QED
    BY <1>2, <2>1, <2>2, MeasuredAlike
<1>6. ValidBand(fit)
  BY <1>2, <1>5 DEF ValidBand
<1>7. EvaluateBand(batch, fit, costs).cost = fit.cost
  <2>1. fit.lower \in Int /\ fit.upper \in Int /\ fit.lower <= fit.upper
    BY <1>2, <1>5, OneAssumption
  <2>2. MeasuredBy(EvaluateBand(batch, fit, costs), batch, costs, Rows(fl), Rows(fu))
    BY <2>1, EvaluatedIs
  <2> QED
    BY <1>2, <2>2, MeasuredAlike
\* A pair of candidates does not cost less.
<1>8. ASSUME NEW l \in K, NEW u \in K, l <= u
      PROVE  Outcome(l, u).cost >= fit.cost
  <2>1. ~Precedes(Key(l, u), Key(fl, fu))
    BY <1>4, <1>5, <1>8
  <2>2. l \in 0 .. One /\ u \in 0 .. One
    BY <1>1
  <2>3. Key(l, u)[1] = Outcome(l, u).cost /\ Outcome(l, u).cost \in Int
    BY <1>3, <1>8, <2>2
  <2>4. Key(fl, fu)[1] = Outcome(fl, fu).cost /\ Outcome(fl, fu).cost \in Int
    BY <1>2, <1>3, <1>5
  <2>5. DOMAIN Key(l, u) = 1 .. 6
    BY DEF OutcomeKey
  <2> DEFINE a == Key(l, u)
             b == Key(fl, fu)
  <2> HIDE DEF a, b
  <2>6. ~(a[1] < b[1])
    <3>1. ~Precedes(a, b) /\ DOMAIN a = 1 .. 6
      BY <2>1, <2>5 DEF a, b
    <3>2. 1 \in DOMAIN a /\ \A j \in 1 .. 1 - 1 : a[j] = b[j]
      BY <3>1
    <3> QED
      BY <3>1, <3>2 DEF Precedes
  <2> QED
    BY <1>5, <2>3, <2>4, <2>6 DEF a, b
<1>9. EvaluateBand(batch, fit, costs).cost <= EvaluateBand(batch, SingleThreshold(t), costs).cost
  <2>1. EvaluateBand(batch, SingleThreshold(t), costs) = Outcome(t, t)
    BY DEF SingleThreshold, Outcome
  <2>2. t <= t /\ Outcome(t, t).cost >= fit.cost
    BY <1>1, <1>8
  <2>3. Outcome(t, t).cost \in Int /\ fit.cost \in Int
    BY <1>2, <1>3, <1>5, <2>2
  <2> QED
    BY <1>7, <2>1, <2>2, <2>3
<1>10. ASSUME Cardinality(Tried(batch)) <= g, NEW l \in 0 .. One, NEW u \in 0 .. One, l <= u
       PROVE  Key(l, u)[1] >= Key(fl, fu)[1]
  <2>1. PICK x \in Tried(batch) : Rows(x) = Rows(l)
    BY TriedDecidesAlike
  <2>2. PICK y \in Tried(batch) : Rows(y) = Rows(u)
    BY TriedDecidesAlike
  <2>3. x \in K /\ y \in K
    BY <1>1, <1>10, <2>1, <2>2
  <2>4. Between(Rows(x), Rows(y)) >= 0
    BY <1>3, <1>10, <2>1, <2>2
  <2> DEFINE e == EntryOf(batch, costs, x, y)
  <2>5. MeasuredBy(e, batch, costs, Rows(x), Rows(y))
    <3>1. x \in Int /\ y \in Int
      BY <1>1, <2>3, OneAssumption
    <3> QED
      BY <3>1, PricedIs DEF EntryOf
  <2>6. ~Precedes(OutcomeKey(e, x, y), OutcomeKey(fit, fl, fu))
    BY <1>2, <2>3, <2>4
  <2>7. /\ MeasuredBy(Outcome(l, u), batch, costs, Rows(l), Rows(u))
        /\ Key(l, u)[1] = Outcome(l, u).cost /\ Outcome(l, u).cost \in Int
    BY <1>3, <1>10
  <2>8. e.cost = Outcome(l, u).cost
    <3>1. MeasuredBy(e, batch, costs, Rows(l), Rows(u))
      BY <2>1, <2>2, <2>5
    <3> QED
      BY <2>7, <3>1, MeasuredAlike
  <2> DEFINE a == OutcomeKey(e, x, y)
             b == OutcomeKey(fit, fl, fu)
  <2>9. a[1] = e.cost /\ b[1] = fit.cost /\ DOMAIN a = 1 .. 6
    BY DEF OutcomeKey
  <2> HIDE DEF a, b
  <2>10. ~(a[1] < b[1])
    <3>1. ~Precedes(a, b)
      BY <2>6 DEF a, b
    <3>2. 1 \in DOMAIN a /\ \A j \in 1 .. 1 - 1 : a[j] = b[j]
      BY <2>9
    <3> QED
      BY <3>1, <3>2 DEF Precedes
  <2>11. Key(fl, fu)[1] = Outcome(fl, fu).cost /\ Outcome(fl, fu).cost \in Int
    BY <1>2, <1>3, <1>5
  <2> HIDE DEF e
  <2> QED
    BY <1>5, <2>7, <2>8, <2>9, <2>10, <2>11
<1> HIDE DEF Key
<1>11. \A l \in K, u \in K : l <= u => ~Precedes(Key(l, u), Key(fl, fu))
  BY <1>4, <1>5
<1>12. Cardinality(Tried(batch)) <= g =>
         \A l \in 0 .. One, u \in 0 .. One : l <= u => Key(l, u)[1] >= Key(fl, fu)[1]
  BY <1>10
<1> QED
  BY <1>1, <1>6, <1>7, <1>9, <1>11, <1>12 DEF Key, Outcome, K, fit


\* Rounding and clipping leave rows scored.
LEMMA PortableScoresAre ==
  ASSUME NEW batch \in Seq(ScoredRows), NEW error, \A i \in DOMAIN batch : error[i] \in Int
  PROVE  PortableScores(batch, error) \in Seq(ScoredRows)
<1> DEFINE clipped(i) == Max({Epsilon, Min({One - Epsilon, batch[i].score + error[i]})})
<1>1. /\ DOMAIN batch = 1 .. Len(batch) /\ Len(batch) \in Nat
      /\ \A i \in DOMAIN batch : batch[i] \in ScoredRows /\ batch[i].score \in 0 .. One
  BY ScoresAreProbabilities
<1>2. Epsilon \in 1 .. One - 1 /\ One \in Nat
  BY SelectionAssumption, OneAssumption
<1>3. ASSUME NEW i \in DOMAIN batch
      PROVE  clipped(i) \in 0 .. One
  <2> DEFINE x == One - Epsilon
             y == batch[i].score + error[i]
             z == Min({x, y})
  <2>1. x \in Int /\ y \in Int
    BY <1>1, <1>2
  <2> HIDE DEF x, y
  <2>2. z \in {x, y} /\ z <= x
    <3>1. \E v \in {x, y} : \A w \in {x, y} : v <= w
      BY <2>1
    <3> QED
      BY <3>1 DEF Min
  <2> HIDE DEF z
  <2>3. z \in Int
    BY <2>1, <2>2
  <2>4. Max({Epsilon, z}) \in {Epsilon, z} /\ Max({Epsilon, z}) >= Epsilon
    <3>1. Epsilon \in Int
      BY <1>2
    <3>2. \E v \in {Epsilon, z} : \A w \in {Epsilon, z} : v >= w
      BY <2>3, <3>1
    <3> QED
      BY <3>2 DEF Max
  <2>5. Max({Epsilon, z}) \in 0 .. One
    BY <1>2, <2>2, <2>3, <2>4 DEF x
  <2> QED
    BY <2>5 DEF x, y, z
<1> HIDE DEF clipped
<1>4. PortableScores(batch, error) = [i \in DOMAIN batch |-> [batch[i] EXCEPT !.score = clipped(i)]]
  BY DEF PortableScores, clipped
<1>5. \A i \in DOMAIN batch : [batch[i] EXCEPT !.score = clipped(i)] \in ScoredRows
  BY <1>1, <1>3 DEF ScoredRows
<1> DEFINE row(i) == [batch[i] EXCEPT !.score = clipped(i)]
           n == Len(batch)
<1>6. DOMAIN batch = 1 .. n /\ n \in Nat /\ \A i \in DOMAIN batch : row(i) \in ScoredRows
  BY <1>1, <1>5
<1> HIDE DEF row, n
<1>7. [i \in DOMAIN batch |-> row(i)] \in [1 .. n -> ScoredRows]
  BY <1>6
<1>8. [i \in DOMAIN batch |-> row(i)] \in Seq(ScoredRows)
  BY <1>6, <1>7, SeqDef
<1> QED
  BY <1>4, <1>8 DEF row

--------------------------------------------------------------------------------
(* Sums.                                                                      *)

\* What every step up to n passes on holds at n.
LEMMA PassedOn ==
  ASSUME NEW n \in Nat, NEW holds \in [0 .. n -> BOOLEAN], holds[0],
         \A m \in 1 .. n : holds[m - 1] => holds[m]
  PROVE  holds[n]
<1> SUFFICES ASSUME ~holds[n] PROVE FALSE
  OBVIOUS
<1> DEFINE lost == {m \in 0 .. n : ~holds[m]}
<1>1. lost \subseteq Nat /\ lost # {}
  OBVIOUS
<1>2. PICK m \in lost : \A k \in lost : m <= k
  <2> HIDE DEF lost
  <2> QED
    BY <1>1, LeastElement
<1>3. m \in 1 .. n /\ m - 1 \in 0 .. n /\ ~(m <= m - 1)
  BY <1>2
<1> QED
  BY <1>2, <1>3

\* How MapThenSumSet adds up: one arbitrary element after the other.
OneOf(s) == CHOOSE x \in s : TRUE

Adds(f, F, T) ==
    f = [s \in SUBSET T |-> IF s = {} THEN 0 ELSE F[OneOf(s)] + f[s \ {OneOf(s)}]]

SumOver(F, T) == (CHOOSE f : Adds(f, F, T))[T]

Smaller(T, m) == {s \in SUBSET T : Cardinality(s) <= m}

AddsUpTo(f, F, T, m) ==
    f = [s \in Smaller(T, m) |-> IF s = {} THEN 0 ELSE F[OneOf(s)] + f[s \ {OneOf(s)}]]

LEMMA TotalIs == ASSUME NEW f PROVE Total(f) = SumOver(f, DOMAIN f)
BY DEF Total, MapThenSumSet, MapThenFoldSet, SumOver, Adds, OneOf

\* A set without the element that is taken next.
LEMMA OneLess ==
  ASSUME NEW T, IsFiniteSet(T), NEW s \in SUBSET T, s # {}
  PROVE  /\ OneOf(s) \in s /\ s \ {OneOf(s)} \in SUBSET T /\ IsFiniteSet(s)
         /\ Cardinality(s) \in Nat /\ Cardinality(s \ {OneOf(s)}) = Cardinality(s) - 1
<1>1. OneOf(s) \in s
  BY DEF OneOf
<1>2. IsFiniteSet(s)
  BY FS_Subset
<1> QED
  BY <1>1, <1>2, FS_RemoveElement, FS_CardinalityType

\* There is such a function on the subsets of a finite set.
LEMMA AddsExists ==
  ASSUME NEW T, IsFiniteSet(T), NEW F
  PROVE  \E f : Adds(f, F, T)
<1> DEFINE n == Cardinality(T)
         holds == [m \in 0 .. n |-> \E f : AddsUpTo(f, F, T, m)]
<1>1. n \in Nat
  BY FS_CardinalityType
<1>2. \A s \in SUBSET T : IsFiniteSet(s) /\ Cardinality(s) \in Nat /\ Cardinality(s) <= n
  BY FS_Subset, FS_CardinalityType
<1>3. holds[0]
  <2> DEFINE f == [s \in Smaller(T, 0) |-> 0]
  <2>1. \A s \in Smaller(T, 0) : s = {}
    BY <1>2, FS_EmptySet DEF Smaller
  <2>2. AddsUpTo(f, F, T, 0)
    BY <2>1 DEF AddsUpTo
  <2> HIDE DEF f
  <2> QED
    BY <1>1, <2>2
<1>4. ASSUME NEW m \in 1 .. n, holds[m - 1]
      PROVE  holds[m]
  <2>1. PICK g : AddsUpTo(g, F, T, m - 1)
    BY <1>1, <1>4
  <2> DEFINE Value(h, s) == IF s = {} THEN 0 ELSE F[OneOf(s)] + h[s \ {OneOf(s)}]
           f == [s \in Smaller(T, m) |-> Value(g, s)]
  <2>2. \A s \in Smaller(T, m) : s # {} => s \ {OneOf(s)} \in Smaller(T, m - 1)
    BY OneLess, <1>2 DEF Smaller
  <2>3. \A s \in Smaller(T, m - 1) : s \in Smaller(T, m) /\ g[s] = Value(g, s)
    <3>1. \A s \in Smaller(T, m - 1) : s \in Smaller(T, m)
      BY <1>2 DEF Smaller
    <3>2. g = [s \in Smaller(T, m - 1) |-> Value(g, s)]
      BY <2>1 DEF AddsUpTo
    <3> HIDE DEF Value
    <3>3. \A s \in Smaller(T, m - 1) : g[s] = Value(g, s)
      BY <3>2
    <3> QED
      BY <3>1, <3>3
  <2>4. \A s \in Smaller(T, m - 1) : f[s] = g[s]
    BY <2>3
  <2>5. \A s \in Smaller(T, m) : Value(g, s) = Value(f, s)
    <3> HIDE DEF f
    <3> QED
      BY <2>2, <2>4
  <2>6. f = [s \in Smaller(T, m) |-> Value(f, s)]
    <3> HIDE DEF Value
    <3> QED
      BY <2>5
  <2>7. AddsUpTo(f, F, T, m)
    <3> HIDE DEF f
    <3> QED
      BY <2>6 DEF AddsUpTo
  <2> HIDE DEF f
  <2> QED
    BY <1>1, <2>7
<1>5. holds \in [0 .. n -> BOOLEAN]
  OBVIOUS
<1>6. holds[n]
  <2> HIDE DEF holds, n
  <2> QED
    BY <1>1, <1>3, <1>4, <1>5, PassedOn
<1>7. PICK f : AddsUpTo(f, F, T, n)
  BY <1>1, <1>6
<1>8. Smaller(T, n) = SUBSET T
  BY <1>2 DEF Smaller
<1> QED
  BY <1>7, <1>8 DEF Adds, AddsUpTo

\* Two such functions agree on what they have in common.
LEMMA AddsAgree ==
  ASSUME NEW S, IsFiniteSet(S), NEW T, NEW F, NEW f, NEW g, Adds(f, F, S), Adds(g, F, T),
         NEW s, s \subseteq S, s \subseteq T
  PROVE  f[s] = g[s]
<1> DEFINE Agree(m) == \A u \in SUBSET S : u \subseteq T /\ Cardinality(u) <= m => f[u] = g[u]
         n == Cardinality(s)
         holds == [m \in 0 .. n |-> Agree(m)]
<1>1. \A u \in SUBSET S : IsFiniteSet(u) /\ Cardinality(u) \in Nat
  BY FS_Subset, FS_CardinalityType
<1>2. n \in Nat
  BY <1>1
<1>3. /\ \A u \in SUBSET S : f[u] = IF u = {} THEN 0 ELSE F[OneOf(u)] + f[u \ {OneOf(u)}]
      /\ \A u \in SUBSET T : g[u] = IF u = {} THEN 0 ELSE F[OneOf(u)] + g[u \ {OneOf(u)}]
  <2> DEFINE Value(h, u) == IF u = {} THEN 0 ELSE F[OneOf(u)] + h[u \ {OneOf(u)}]
  <2>1. f = [u \in SUBSET S |-> Value(f, u)] /\ g = [u \in SUBSET T |-> Value(g, u)]
    BY DEF Adds
  <2> HIDE DEF Value
  <2>2. /\ \A u \in SUBSET S : f[u] = Value(f, u)
        /\ \A u \in SUBSET T : g[u] = Value(g, u)
    BY <2>1
  <2> QED
    BY <2>2 DEF Value
<1>4. Agree(0)
  <2> SUFFICES ASSUME NEW u \in SUBSET S, u \subseteq T, Cardinality(u) <= 0
             PROVE  f[u] = g[u]
    OBVIOUS
  <2>1. u = {}
    BY <1>1, FS_EmptySet
  <2> QED
    BY <1>3, <2>1
<1>5. ASSUME NEW m \in 1 .. n, Agree(m - 1)
      PROVE  Agree(m)
  <2> SUFFICES ASSUME NEW u \in SUBSET S, u \subseteq T, Cardinality(u) <= m
             PROVE  f[u] = g[u]
    OBVIOUS
  <2>1. CASE u = {}
    BY <1>3, <2>1
  <2>2. CASE u # {}
    <3>1. u \ {OneOf(u)} \in SUBSET S /\ Cardinality(u \ {OneOf(u)}) <= m - 1
      BY <1>1, <2>2, OneLess
    <3>2. f[u \ {OneOf(u)}] = g[u \ {OneOf(u)}]
      BY <1>5, <3>1
    <3> QED
      BY <1>3, <2>2, <3>2
  <2> QED
    BY <2>1, <2>2
<1>6. holds \in [0 .. n -> BOOLEAN] /\ \A m \in 0 .. n : holds[m] <=> Agree(m)
  OBVIOUS
<1> HIDE DEF holds, Agree, n
<1>7. holds[0] /\ \A m \in 1 .. n : holds[m - 1] => holds[m]
  BY <1>2, <1>4, <1>5, <1>6
<1>8. Agree(n)
  BY <1>2, <1>6, <1>7, PassedOn
<1> QED
  BY <1>2, <1>8 DEF Agree, n

\* The sum over a set takes out one arbitrary element, then the others.
LEMMA SumStep ==
  ASSUME NEW T, IsFiniteSet(T), NEW F
  PROVE  /\ T = {} => SumOver(F, T) = 0
         /\ T # {} => SumOver(F, T) = F[OneOf(T)] + SumOver(F, T \ {OneOf(T)})
<1> DEFINE f == CHOOSE h : Adds(h, F, T)
         rest == T \ {OneOf(T)}
         g == CHOOSE h : Adds(h, F, rest)
<1>1. IsFiniteSet(rest)
  BY FS_RemoveElement
<1>2. Adds(f, F, T)
  BY AddsExists
<1>3. Adds(g, F, rest)
  BY <1>1, AddsExists
<1>4. SumOver(F, T) = f[T] /\ SumOver(F, rest) = g[rest]
  BY DEF SumOver
<1>5. f[T] = IF T = {} THEN 0 ELSE F[OneOf(T)] + f[rest]
  <2> HIDE DEF f
  <2> QED
    BY <1>2 DEF Adds
<1>6. f[rest] = g[rest]
  <2>1. rest \subseteq T /\ rest \subseteq rest
    OBVIOUS
  <2> HIDE DEF f, g, rest
  <2> QED
    BY <1>2, <1>3, <2>1, AddsAgree
<1> QED
  BY <1>4, <1>5, <1>6

\* Any element may be taken out first.
LEMMA SumWithout ==
  ASSUME NEW T, IsFiniteSet(T), NEW F, \A x \in T : F[x] \in Int, NEW x \in T
  PROVE  /\ SumOver(F, T) \in Int
         /\ SumOver(F, T) = F[x] + SumOver(F, T \ {x})
<1> DEFINE Fine(m) == \A s \in SUBSET T : Cardinality(s) <= m =>
                      /\ SumOver(F, s) \in Int
                      /\ \A y \in s : SumOver(F, s) = F[y] + SumOver(F, s \ {y})
         n == Cardinality(T)
         holds == [m \in 0 .. n |-> Fine(m)]
<1>1. \A s \in SUBSET T : IsFiniteSet(s) /\ Cardinality(s) \in Nat
  BY FS_Subset, FS_CardinalityType
<1>2. n \in Nat
  BY <1>1
<1>3. Fine(0)
  <2> SUFFICES ASSUME NEW s \in SUBSET T, Cardinality(s) <= 0
             PROVE  SumOver(F, s) \in Int /\ s = {}
    OBVIOUS
  <2>1. s = {}
    BY <1>1, FS_EmptySet
  <2> QED
    BY <1>1, <2>1, SumStep
<1>4. ASSUME NEW m \in 1 .. n, Fine(m - 1)
      PROVE  Fine(m)
  <2> SUFFICES ASSUME NEW s \in SUBSET T, Cardinality(s) <= m
             PROVE  /\ SumOver(F, s) \in Int
                    /\ \A y \in s : SumOver(F, s) = F[y] + SumOver(F, s \ {y})
    OBVIOUS
  <2>1. CASE s = {}
    BY <1>1, <2>1, SumStep
  <2>2. CASE s # {}
    <3> DEFINE p == OneOf(s)
    <3>1. p \in s /\ \A y \in s : /\ s \ {y} \in SUBSET T
                               /\ Cardinality(s \ {y}) <= m - 1
      <4>1. p \in s
        BY <2>2 DEF OneOf
      <4>2. \A y \in s : Cardinality(s \ {y}) = Cardinality(s) - 1
        BY <1>1, FS_RemoveElement
      <4> QED
        BY <1>1, <4>1, <4>2
    <3>2. SumOver(F, s) = F[p] + SumOver(F, s \ {p})
      BY <1>1, <2>2, SumStep
    <3> HIDE DEF p
    <3>3. /\ SumOver(F, s \ {p}) \in Int
          /\ \A y \in s \ {p} : SumOver(F, s \ {p}) = F[y] + SumOver(F, (s \ {p}) \ {y})
      BY <1>4, <3>1
    <3>4. ASSUME NEW y \in s, y # p
          PROVE  SumOver(F, s) = F[y] + SumOver(F, s \ {y})
      <4>1. SumOver(F, s \ {p}) = F[y] + SumOver(F, (s \ {p}) \ {y})
        BY <3>3, <3>4
      <4>2. /\ SumOver(F, s \ {y}) \in Int
          /\ SumOver(F, s \ {y}) = F[p] + SumOver(F, (s \ {y}) \ {p})
        BY <1>4, <3>1, <3>4
      <4>3. (s \ {p}) \ {y} = (s \ {y}) \ {p}
        OBVIOUS
      <4> DEFINE rest == SumOver(F, (s \ {p}) \ {y})
      <4>4. rest \in Int
        <5>1. (s \ {p}) \ {y} \in SUBSET T /\ Cardinality((s \ {p}) \ {y}) <= m - 1
          <6>1. IsFiniteSet(s \ {p}) /\ Cardinality(s \ {p}) <= m - 1 /\ y \in s \ {p}
          BY <1>1, <3>1, <3>4
          <6>2. Cardinality((s \ {p}) \ {y}) = Cardinality(s \ {p}) - 1 /\ Cardinality(s \ {p}) \in Nat
          BY <6>1, FS_RemoveElement, FS_CardinalityType
          <6> QED
          BY <6>1, <6>2
        <5> QED
          BY <1>4, <5>1
      <4>5. F[p] \in Int /\ F[y] \in Int
        BY <3>1
      <4>6. SumOver(F, s \ {p}) = F[y] + rest /\ SumOver(F, s \ {y}) = F[p] + rest
        BY <4>1, <4>2, <4>3
      <4> HIDE DEF rest
      <4> QED
        BY <3>2, <4>4, <4>5, <4>6
    <3>5. SumOver(F, s) \in Int
      BY <3>1, <3>2, <3>3
    <3> QED
      BY <3>2, <3>4, <3>5
  <2> QED
    BY <2>1, <2>2
<1>5. holds \in [0 .. n -> BOOLEAN] /\ \A m \in 0 .. n : holds[m] <=> Fine(m)
  OBVIOUS
<1> HIDE DEF holds, Fine, n
<1>6. holds[0] /\ \A m \in 1 .. n : holds[m - 1] => holds[m]
  BY <1>2, <1>3, <1>4, <1>5
<1>7. Fine(n)
  BY <1>2, <1>5, <1>6, PassedOn
<1> QED
  BY <1>2, <1>7 DEF Fine, n

\* Whatever grows with every element like the sum does is the sum.
LEMMA SumIs ==
  ASSUME NEW T, IsFiniteSet(T), NEW F, NEW g, Adds(g, F, T)
  PROVE  SumOver(F, T) = g[T]
<1> DEFINE f == CHOOSE h : Adds(h, F, T)
<1>1. Adds(f, F, T)
  BY AddsExists
<1>2. SumOver(F, T) = f[T]
  BY DEF SumOver
<1> HIDE DEF f
<1> QED
  BY <1>1, <1>2, AddsAgree

PartsIn(S, part, s) == {x \in S : part[x] \in s}

Divides(part, S, C) == IsFiniteSet(S) /\ IsFiniteSet(C) /\ \A x \in S : part[x] \in C

Counts(F, part, S, C) == DOMAIN F = C /\ \A c \in C : F[c] = Cardinality(PartsIn(S, part, {c}))

\* The sizes of the parts of a set add up to its size.
LEMMA SizesOfParts ==
  ASSUME NEW S, NEW C, NEW part, Divides(part, S, C), NEW F, Counts(F, part, S, C)
  PROVE  Total(F) = Cardinality(S)
<1> USE DEF Divides, Counts
<1> DEFINE g == [s \in SUBSET C |-> Cardinality(PartsIn(S, part, s))]
           Value(s) == IF s = {} THEN 0 ELSE F[OneOf(s)] + g[s \ {OneOf(s)}]
<1>1. ASSUME NEW s \in SUBSET C
      PROVE  Cardinality(PartsIn(S, part, s)) = Value(s)
  <2>1. CASE s = {}
    <3>1. PartsIn(S, part, s) = {}
      BY <2>1 DEF PartsIn
    <3> QED
      BY <2>1, <3>1, FS_EmptySet
  <2>2. CASE s # {}
    <3> DEFINE c == OneOf(s)
               rest == s \ {c}
               A == PartsIn(S, part, {c})
               B == PartsIn(S, part, rest)
    <3>1. c \in s /\ c \in C /\ rest \in SUBSET C
      BY <2>2 DEF OneOf
    <3>2. IsFiniteSet(A) /\ IsFiniteSet(B)
      <4>1. A \subseteq S /\ B \subseteq S
        BY DEF PartsIn
      <4> QED
        BY <4>1, FS_Subset
    <3>3. A \cap B = {} /\ A \cup B = PartsIn(S, part, s)
      BY <3>1 DEF PartsIn
    <3>4. Cardinality(A \cup B) = Cardinality(A) + Cardinality(B)
      <4>1. Cardinality(A \cap B) = 0
        BY <3>3, FS_EmptySet
      <4>2. Cardinality(A \cup B) = Cardinality(A) + Cardinality(B) - Cardinality(A \cap B)
        BY <3>2, FS_Union
      <4>3. Cardinality(A) \in Nat /\ Cardinality(B) \in Nat
        BY <3>2, FS_CardinalityType
      <4> HIDE DEF A, B
      <4> QED
        BY <4>1, <4>2, <4>3
    <3>5. g[rest] = Cardinality(B) /\ F[c] = Cardinality(A)
      BY <3>1
    <3> QED
      BY <2>2, <3>3, <3>4, <3>5
  <2> QED
    BY <2>1, <2>2
<1>2. Adds(g, F, C)
  <2>1. g = [s \in SUBSET C |-> Value(s)]
    <3> HIDE DEF Value
    <3> QED
      BY <1>1
  <2> QED
    BY <2>1 DEF Adds
<1>3. g[C] = Cardinality(S)
  <2>1. PartsIn(S, part, C) = S
    BY DEF PartsIn
  <2> QED
    BY <2>1
<1> HIDE DEF g
<1> QED
  BY <1>2, <1>3, SumIs, TotalIs

MappedInto(T, h, s) == {t \in T : h[t] \in s}

\* A sum over the places of a one-to-one map, the other places adding nothing.
LEMMA SumMapped ==
  ASSUME NEW T, IsFiniteSet(T), NEW U, IsFiniteSet(U), NEW h, \A t \in T : h[t] \in U,
         \A t \in T, v \in T : h[t] = h[v] => t = v,
         NEW F, \A t \in T : F[t] \in Int,
         NEW G, \A t \in T : G[h[t]] = F[t], \A u \in U : (\A t \in T : h[t] # u) => G[u] = 0
  PROVE  SumOver(G, U) = SumOver(F, T)
<1> DEFINE g == [s \in SUBSET U |-> SumOver(F, MappedInto(T, h, s))]
           Value(s) == IF s = {} THEN 0 ELSE G[OneOf(s)] + g[s \ {OneOf(s)}]
<1>1. \A s : MappedInto(T, h, s) \subseteq T /\ IsFiniteSet(MappedInto(T, h, s))
  <2>1. \A s : MappedInto(T, h, s) \subseteq T
    BY DEF MappedInto
  <2> QED
    BY <2>1, FS_Subset
<1>2. \A s : SumOver(F, MappedInto(T, h, s)) \in Int
  <2> SUFFICES ASSUME NEW s PROVE SumOver(F, MappedInto(T, h, s)) \in Int
    OBVIOUS
  <2> DEFINE M == MappedInto(T, h, s)
  <2>1. IsFiniteSet(M) /\ \A t \in M : F[t] \in Int
    BY <1>1
  <2> HIDE DEF M
  <2> SUFFICES SumOver(F, M) \in Int
    BY DEF M
  <2>2. CASE M = {}
    BY <2>1, <2>2, SumStep
  <2>3. CASE M # {}
    <3>1. PICK t \in M : TRUE
      BY <2>3
    <3> QED
      BY <2>1, <3>1, SumWithout
  <2> QED
    BY <2>2, <2>3
<1>3. ASSUME NEW s \in SUBSET U
      PROVE  SumOver(F, MappedInto(T, h, s)) = Value(s)
  <2>1. CASE s = {}
    <3>1. MappedInto(T, h, s) = {}
      BY <2>1 DEF MappedInto
    <3> QED
      BY <1>1, <2>1, <3>1, SumStep
  <2>2. CASE s # {}
    <3> DEFINE u == OneOf(s)
               rest == s \ {u}
               M == MappedInto(T, h, s)
               N == MappedInto(T, h, rest)
    <3>1. u \in s /\ u \in U /\ rest \in SUBSET U
      BY <2>2 DEF OneOf
    <3>2. g[rest] = SumOver(F, N)
      BY <3>1
    <3>3. CASE \A t \in T : h[t] # u
      <4>1. M = N
        BY <3>3 DEF MappedInto
      <4>2. G[u] = 0
        BY <3>1, <3>3
      <4>3. SumOver(F, M) = G[u] + SumOver(F, N)
        <5>1. SumOver(F, N) \in Int
          BY <1>2
        <5> HIDE DEF M, N, u
        <5> QED
          BY <4>1, <4>2, <5>1
      <4> QED
        BY <2>2, <3>2, <4>3
    <3>4. CASE \E t \in T : h[t] = u
      <4>1. PICK t \in T : h[t] = u
        BY <3>4
      <4>2. t \in M /\ M \ {t} = N
        BY <3>1, <4>1 DEF MappedInto
      <4>3. SumOver(F, M) = F[t] + SumOver(F, M \ {t})
        <5>1. IsFiniteSet(M) /\ \A x \in M : F[x] \in Int
          BY <1>1
        <5> HIDE DEF M
        <5> QED
          BY <4>2, <5>1, SumWithout
      <4>4. G[u] = F[t]
        BY <4>1
      <4> QED
        BY <2>2, <3>2, <4>2, <4>3, <4>4
    <3> QED
      BY <3>3, <3>4
  <2> QED
    BY <2>1, <2>2
<1>4. Adds(g, G, U)
  <2>1. g = [s \in SUBSET U |-> Value(s)]
    <3> HIDE DEF Value
    <3> QED
      BY <1>3
  <2> QED
    BY <2>1 DEF Adds
<1>5. g[U] = SumOver(F, T)
  <2>1. MappedInto(T, h, U) = T
    BY DEF MappedInto
  <2> QED
    BY <2>1
<1> HIDE DEF g
<1> QED
  BY <1>4, <1>5, SumIs

--------------------------------------------------------------------------------
(* The reports.                                                               *)

\* Rows that were let through are a sequence of labelled scores in order of time.
LEMMA RowsAre ==
  ASSUME NEW rows, ReportedRows(rows)
  PROVE  /\ Len(rows) \in Nat /\ DOMAIN rows = 1 .. Len(rows)
         /\ IsFiniteSet(DOMAIN rows) /\ Cardinality(DOMAIN rows) = Len(rows)
         /\ \A i \in DOMAIN rows :
              /\ rows[i].attack \in BOOLEAN /\ rows[i].score \in 0 .. One /\ rows[i].at \in Int
              /\ rows[i].attack => rows[i].campaign # NoCampaign
              /\ ~rows[i].attack => rows[i].scenario \in LegitimateScenarios
         /\ \A i \in DOMAIN rows, j \in DOMAIN rows : i < j => rows[i].at <= rows[j].at
<1>1. rows \in Seq(ToSet(rows))
  BY DEF ReportedRows
<1>2. Len(rows) \in Nat /\ DOMAIN rows = 1 .. Len(rows)
  <2> DEFINE S == ToSet(rows)
  <2>1. rows \in Seq(S)
    BY <1>1
  <2> HIDE DEF S
  <2> QED
    BY <2>1
<1>3. IsFiniteSet(DOMAIN rows) /\ Cardinality(DOMAIN rows) = Len(rows)
  <2>1. \A n \in Nat : IsFiniteSet(1 .. n) /\ Cardinality(1 .. n) = n
    BY FS_Interval
  <2> QED
    BY <1>2, <2>1
<1> QED
  BY <1>2, <1>3 DEF ReportedRows

LEMMA TimesGrow ==
  ASSUME NEW a \in Int, NEW b \in Int, NEW k \in Nat, a <= b
  PROVE  a * k <= b * k
<1>1. \A c \in Nat : c * k >= 0
  OBVIOUS
<1>2. (b - a) * k >= 0
  BY <1>1
<1>3. (b - a) * k = b * k - a * k
  OBVIOUS
<1> QED
  BY <1>2, <1>3

\* Every score is in exactly one of the bins.
LEMMA OneBin ==
  ASSUME NEW score \in 0 .. One
  PROVE  Cardinality({b \in 0 .. Bins - 1 : InBin(score, b)}) = 1
<1> DEFINE n == score * Bins
           q == n \div One
           bin == IF score = One THEN Bins - 1 ELSE q
<1>1. One \in Nat \ {0} /\ Bins \in Nat \ {0, 1} /\ n \in Nat
  BY OneAssumption, SelectionAssumption
<1>2. bin \in 0 .. Bins - 1 /\ InBin(score, bin)
  <2>1. CASE score = One
    <3>1. (Bins - 1) * One <= Bins * One
      BY <1>1, TimesGrow
    <3>2. n = Bins * One
      BY <1>1, <2>1
    <3> QED
      BY <1>1, <2>1, <3>1, <3>2 DEF InBin
  <2>2. CASE score # One
    <3>1. q \in Nat /\ q * One <= n /\ n < (q + 1) * One
      <4>1. \A x \in Nat, y \in Nat \ {0} :
              x \div y \in Nat /\ y * (x \div y) <= x /\ x < y * (x \div y) + y
        OBVIOUS
      <4>2. q \in Nat /\ One * q <= n /\ n < One * q + One
        BY <1>1, <4>1
      <4> HIDE DEF q
      <4>3. One * q = q * One /\ (q + 1) * One = q * One + One
        BY <1>1, <4>2
      <4> QED
        BY <4>2, <4>3
    <3>2. q <= Bins - 1
      <4> SUFFICES ASSUME Bins <= q PROVE FALSE
        BY <1>1, <3>1
      <4>1. Bins * One <= q * One
        BY <1>1, <3>1, TimesGrow
      <4>2. (score + 1) * Bins <= One * Bins
        BY <1>1, <2>2, TimesGrow
      <4>3. (score + 1) * Bins = n + Bins /\ One * Bins = Bins * One
        BY <1>1
      <4>4. Bins * One \in Int /\ q * One \in Int
        BY <1>1, <3>1
      <4> HIDE DEF n, q
      <4> QED
        BY <1>1, <3>1, <4>1, <4>2, <4>3, <4>4
    <3>3. bin = q /\ score < One
      BY <1>1, <2>2
    <3> HIDE DEF q
    <3> QED
      BY <1>1, <3>1, <3>2, <3>3 DEF InBin
  <2> QED
    BY <2>1, <2>2
<1>3. ASSUME NEW b \in 0 .. Bins - 1, NEW c \in 0 .. Bins - 1, b < c, InBin(score, b), InBin(score, c)
      PROVE  FALSE
  <2>1. n < (b + 1) * One /\ c * One <= n
    BY <1>1, <1>3 DEF InBin
  <2>2. (b + 1) * One <= c * One
    BY <1>1, <1>3, TimesGrow
  <2>3. (b + 1) * One \in Int /\ c * One \in Int
    BY <1>1
  <2> HIDE DEF n
  <2> QED
    BY <1>1, <2>1, <2>2, <2>3
<1> HIDE DEF n, q, bin
<1>4. \A b \in 0 .. Bins - 1 : InBin(score, b) => b = bin
  <2> SUFFICES ASSUME NEW b \in 0 .. Bins - 1, InBin(score, b), b # bin
               PROVE  FALSE
    OBVIOUS
  <2>1. b < bin \/ bin < b
    BY <1>1, <1>2
  <2> QED
    BY <1>2, <1>3, <2>1
<1>5. {b \in 0 .. Bins - 1 : InBin(score, b)} = {bin}
  BY <1>2, <1>4
<1> QED
  BY <1>5, FS_Singleton

LEMMA SmallerPrecedes ==
  ASSUME NEW x \in Int, NEW y \in Int, x < y
  PROVE  Precedes(<<x>>, <<y>>)
<1>1. 1 \in DOMAIN <<x>> /\ <<x>>[1] = x /\ <<y>>[1] = y /\ 1 .. 1 - 1 = {}
  OBVIOUS
<1> QED
  BY <1>1 DEF Precedes

Measurable(M) == M \in SUBSET Int /\ M # {} /\ IsFiniteSet(M)

\* A finite set of integers has a least element, which Min gives.
LEMMA MinIs ==
  ASSUME NEW M, Measurable(M)
  PROVE  Min(M) \in M /\ \A m \in M : Min(M) <= m
<1>1. \E x \in M : \A y \in M : x <= y
  <2> DEFINE key == [x \in M |-> <<x>>]
  <2>1. key \in [M -> Keys(1)]
    BY DEF Measurable, Keys
  <2>2. First(key) \in M /\ \A y \in M : ~Precedes(key[y], key[First(key)])
    BY <2>1, FirstComesFirst DEF Measurable
  <2>3. \A x \in M, y \in M : ~Precedes(key[y], key[x]) => x <= y
    <3> SUFFICES ASSUME NEW x \in M, NEW y \in M, y < x PROVE Precedes(<<y>>, <<x>>)
      BY DEF Measurable
    <3> QED
      BY SmallerPrecedes DEF Measurable
  <2> HIDE DEF key
  <2> QED
    BY <2>2, <2>3
<1> QED
  BY <1>1 DEF Min

\* The slices of hard negatives are the parts of the false positives.
LEMMA SlicesAddUp ==
  ASSUME NEW rows, ReportedRows(rows), NEW t
  PROVE  Total([s \in LegitimateScenarios |-> Cardinality(HardNegatives(rows, t)[s])])
           = ThresholdMetrics(rows, t).falsePositive
<1> DEFINE S == {i \in Flagged(rows, t) : ~rows[i].attack}
           C == LegitimateScenarios
           part == [i \in S |-> rows[i].scenario]
           F == [s \in C |-> Cardinality(HardNegatives(rows, t)[s])]
<1>1. \A i \in DOMAIN rows : rows[i].attack \in BOOLEAN /\ (~rows[i].attack => rows[i].scenario \in C)
  BY RowsAre
<1>2. S \subseteq DOMAIN rows /\ \A i \in S : part[i] \in C
  BY <1>1 DEF Flagged
<1>3. IsFiniteSet(S)
  BY <1>2, RowsAre, FS_Subset
<1>4. IsFiniteSet(C)
  <2>1. C = ((({"flash_sale"} \cup {"legitimate_failure"}) \cup {"legitimate_retry"}) \cup {"normal"})
            \cup {"shared_infrastructure"}
    BY DEF LegitimateScenarios
  <2> HIDE DEF C
  <2> QED
    <3>1. IsFiniteSet({"flash_sale"} \cup {"legitimate_failure"})
      BY FS_Singleton, FS_AddElement
    <3>2. IsFiniteSet(({"flash_sale"} \cup {"legitimate_failure"}) \cup {"legitimate_retry"})
      BY <3>1, FS_AddElement
    <3>3. IsFiniteSet((({"flash_sale"} \cup {"legitimate_failure"}) \cup {"legitimate_retry"}) \cup {"normal"})
      BY <3>2, FS_AddElement
    <3> QED
      BY <2>1, <3>3, FS_AddElement
<1>5. \A c \in C : F[c] = Cardinality(PartsIn(S, part, {c}))
  <2> SUFFICES ASSUME NEW c \in C PROVE HardNegatives(rows, t)[c] = PartsIn(S, part, {c})
    OBVIOUS
  <2> QED
    BY DEF HardNegatives, PartsIn
<1>6. ThresholdMetrics(rows, t).falsePositive = Cardinality(S)
  <2>1. {i \in DOMAIN rows : (rows[i].score >= t) = TRUE /\ rows[i].attack = FALSE} = S
    BY <1>1 DEF Flagged
  <2> HIDE DEF S
  <2> QED
    BY <2>1 DEF ThresholdMetrics
<1>7. DOMAIN F = C
  OBVIOUS
<1> SUFFICES Total(F) = Cardinality(S)
  BY <1>6
<1> HIDE DEF F, S, C, part
<1>8. Divides(part, S, C) /\ Counts(F, part, S, C)
  BY <1>2, <1>3, <1>4, <1>5, <1>7 DEF Divides, Counts
<1> QED
  BY <1>8, SizesOfParts

\* The campaigns are the parts of the true positives.
LEMMA CampaignsAddUp ==
  ASSUME NEW rows, ReportedRows(rows), NEW t
  PROVE  Total([c \in Campaigns(rows) |-> CampaignMetrics(rows, t).flagged[c]])
           = ThresholdMetrics(rows, t).truePositive
<1> DEFINE S == {i \in Flagged(rows, t) : rows[i].attack}
           A == {i \in DOMAIN rows : rows[i].attack}
           C == Campaigns(rows)
           part == [i \in S |-> rows[i].campaign]
           F == [c \in C |-> CampaignMetrics(rows, t).flagged[c]]
<1>1. \A i \in DOMAIN rows : rows[i].attack \in BOOLEAN /\ (rows[i].attack => rows[i].campaign # NoCampaign)
  BY RowsAre
<1>2. S \subseteq DOMAIN rows /\ \A i \in S : part[i] \in C
  BY <1>1 DEF Flagged, Campaigns
<1>3. IsFiniteSet(S) /\ IsFiniteSet(A)
  BY <1>2, RowsAre, FS_Subset
<1>4. IsFiniteSet(C)
  <2> DEFINE f == [i \in A |-> rows[i].campaign]
  <2>1. f \in Surjection(A, {rows[i].campaign : i \in A})
    BY DEF Surjection
  <2>2. IsFiniteSet({rows[i].campaign : i \in A})
    BY <1>3, <2>1, FS_Surjection
  <2>3. C \subseteq {rows[i].campaign : i \in A}
    BY DEF Campaigns
  <2> HIDE DEF C, A
  <2> QED
    BY <2>2, <2>3, FS_Subset
<1>5. \A c \in C : F[c] = Cardinality(PartsIn(S, part, {c}))
  <2> SUFFICES ASSUME NEW c \in C PROVE F[c] = Cardinality(PartsIn(S, part, {c}))
    OBVIOUS
  <2>1. F[c] = Cardinality(CampaignRows(rows, c) \cap Flagged(rows, t))
    BY DEF CampaignMetrics
  <2>2. CampaignRows(rows, c) \cap Flagged(rows, t) = PartsIn(S, part, {c})
    BY DEF CampaignRows, PartsIn, Flagged
  <2> QED
    BY <2>1, <2>2
<1>6. ThresholdMetrics(rows, t).truePositive = Cardinality(S)
  <2>1. {i \in DOMAIN rows : (rows[i].score >= t) = TRUE /\ rows[i].attack = TRUE} = S
    BY <1>1 DEF Flagged
  <2> HIDE DEF S
  <2> QED
    BY <2>1 DEF ThresholdMetrics
<1>7. DOMAIN F = C
  OBVIOUS
<1> SUFFICES Total(F) = Cardinality(S)
  BY <1>6
<1>8. IsFiniteSet(S) /\ IsFiniteSet(C) /\ \A i \in S : part[i] \in C
  BY <1>2, <1>3, <1>4
<1> HIDE DEF F, S, C, part, A
<1>9. Divides(part, S, C) /\ Counts(F, part, S, C)
  BY <1>5, <1>7, <1>8 DEF Divides, Counts
<1> QED
  BY <1>9, SizesOfParts

\* A higher percentile of the same values is no lower.
LEMMA PercentilesGrow ==
  ASSUME NEW values, IsFiniteSet(DOMAIN values), \A d \in DOMAIN values : values[d] \in Int,
         values = [d \in DOMAIN values |-> values[d]],
         NEW p \in 0 .. 100, NEW q \in p .. 100
  PROVE  Percentile(values, p) <= Percentile(values, q)
<1> DEFINE D == DOMAIN values
           upto(d) == {e \in D : values[e] <= values[d]}
           M(percent) == {values[c] : c \in {d \in D :
                            100 * Cardinality(upto(d)) >= percent * Cardinality(D)}}
<1>1. CASE values = <<>>
  BY <1>1 DEF Percentile
<1>2. CASE values # <<>>
  <2>1. D # {}
    BY <1>2
  <2>2. Cardinality(D) \in Nat /\ \A d \in D : Cardinality(upto(d)) \in Nat
    <3>1. \A d \in D : upto(d) \subseteq D
      OBVIOUS
    <3> HIDE DEF upto
    <3> QED
      BY <3>1, FS_Subset, FS_CardinalityType
  <2>3. M(q) \subseteq M(p)
    <3> SUFFICES ASSUME NEW d \in D, 100 * Cardinality(upto(d)) >= q * Cardinality(D)
                 PROVE  100 * Cardinality(upto(d)) >= p * Cardinality(D)
      OBVIOUS
    <3>1. ASSUME NEW k \in Nat PROVE p * k <= q * k
      <4>1. p \in Int /\ q \in Int /\ p <= q
        OBVIOUS
      <4> QED
        BY <4>1, TimesGrow
    <3>2. p * Cardinality(D) \in Int /\ q * Cardinality(D) \in Int /\ 100 * Cardinality(upto(d)) \in Int
      BY <2>2
    <3> QED
      BY <2>2, <3>1, <3>2
  <2>4. \A percent : M(percent) \in SUBSET Int /\ IsFiniteSet(M(percent))
    <3> SUFFICES ASSUME NEW percent PROVE M(percent) \in SUBSET Int /\ IsFiniteSet(M(percent))
      OBVIOUS
    <3> DEFINE K == {d \in D : 100 * Cardinality(upto(d)) >= percent * Cardinality(D)}
               f == [d \in K |-> values[d]]
    <3>1. f \in Surjection(K, M(percent))
      BY DEF Surjection
    <3>2. IsFiniteSet(K)
      <4>1. K \subseteq D
        OBVIOUS
      <4> HIDE DEF K
      <4> QED
        BY <4>1, FS_Subset
    <3>3. M(percent) \in SUBSET Int
      OBVIOUS
    <3> HIDE DEF K, M, f
    <3> QED
      BY <3>1, <3>2, <3>3, FS_Surjection
  <2>5. M(q) # {}
    <3> DEFINE key == [d \in D |-> <<-values[d]>>]
    <3>1. key \in [D -> Keys(1)]
      BY DEF Keys
    <3>2. PICK d \in D : \A e \in D : ~Precedes(key[e], key[d])
      <4> HIDE DEF key, D
      <4> QED
        BY <2>1, <3>1, FirstComesFirst DEF D
    <3>3. \A e \in D : ~Precedes(<<-values[e]>>, <<-values[d]>>)
      BY <3>2
    <3>4. \A e \in D : values[e] <= values[d]
      <4> SUFFICES ASSUME NEW e \in D, ~(values[e] <= values[d]) PROVE FALSE
        OBVIOUS
      <4>1. -values[e] \in Int /\ -values[d] \in Int /\ -values[e] < -values[d]
        OBVIOUS
      <4>2. Precedes(<<-values[e]>>, <<-values[d]>>)
        BY <4>1, SmallerPrecedes
      <4> QED
        BY <3>3, <4>2
    <3>5. upto(d) = D
      BY <3>4
    <3>6. q * Cardinality(D) <= 100 * Cardinality(D)
      <4>1. ASSUME NEW k \in Nat PROVE q * k <= 100 * k
        BY TimesGrow
      <4> QED
        BY <2>2, <4>1
    <3>7. values[d] \in M(q)
      BY <2>2, <3>5, <3>6
    <3> QED
      BY <3>7
  <2>6. Percentile(values, p) = Min(M(p)) /\ Percentile(values, q) = Min(M(q))
    BY <1>2 DEF Percentile
  <2> HIDE DEF M
  <2>7. Measurable(M(p)) /\ Measurable(M(q))
    BY <2>3, <2>4, <2>5 DEF Measurable
  <2>8. Min(M(q)) \in M(p) /\ \A m \in M(p) : Min(M(p)) <= m
    BY <2>3, <2>7, MinIs
  <2> QED
    BY <2>6, <2>8
<1> QED
  BY <1>1, <1>2

\* The delay of a detected campaign is the time between two of its rows, the second
\* of which is not earlier.
LEMMA DelaysAre ==
  ASSUME NEW rows, ReportedRows(rows), NEW t
  PROVE  LET m == CampaignMetrics(rows, t)
         IN  /\ \A c \in m.detected : m.delay[c] \in Nat
             /\ m.median <= m.p95
<1> DEFINE hits(c) == CampaignRows(rows, c) \cap Flagged(rows, t)
           detected == {c \in Campaigns(rows) : hits(c) # {}}
           delay == [c \in detected |-> rows[Min(hits(c))].at - rows[Min(CampaignRows(rows, c))].at]
           m == CampaignMetrics(rows, t)
<1>1. /\ m.detected = detected /\ m.delay = delay
      /\ m.median = Percentile(delay, 50) /\ m.p95 = Percentile(delay, 95)
  BY DEF CampaignMetrics
<1>2. \A i \in DOMAIN rows : rows[i].at \in Int
  BY RowsAre
<1>3. \A i \in DOMAIN rows, j \in DOMAIN rows : i < j => rows[i].at <= rows[j].at
  BY RowsAre
<1>4. DOMAIN rows \subseteq Int /\ IsFiniteSet(DOMAIN rows)
  BY RowsAre
<1>5. ASSUME NEW c \in detected
      PROVE  delay[c] \in Nat
  <2> DEFINE H == hits(c)
             A == CampaignRows(rows, c)
  <2>1. H \subseteq A /\ A \subseteq DOMAIN rows /\ H # {}
    BY DEF CampaignRows
  <2>2. Measurable(H) /\ Measurable(A)
    <3> HIDE DEF H, A
    <3> QED
      BY <1>4, <2>1, FS_Subset DEF Measurable
  <2>3. delay[c] = rows[Min(H)].at - rows[Min(A)].at
    OBVIOUS
  <2> HIDE DEF H, A, delay
  <2>4. Min(H) \in H /\ Min(A) \in A /\ Min(A) <= Min(H)
    <3>1. Min(H) \in H /\ Min(A) \in A /\ \A x \in A : Min(A) <= x
      BY <2>2, MinIs
    <3> QED
      BY <2>1, <3>1
  <2> DEFINE i == Min(A)
             j == Min(H)
  <2>5. i \in DOMAIN rows /\ j \in DOMAIN rows /\ i <= j
    BY <2>1, <2>4
  <2> HIDE DEF i, j
  <2>6. rows[i].at <= rows[j].at
    <3>1. CASE i = j
      BY <1>2, <2>5, <3>1
    <3>2. CASE i # j
      <4>1. i < j
        BY <1>4, <2>5, <3>2
      <4> QED
        BY <1>3, <2>5, <4>1
    <3> QED
      BY <3>1, <3>2
  <2> QED
    BY <1>2, <2>3, <2>5, <2>6 DEF i, j
<1>6. IsFiniteSet(detected)
  <2> DEFINE A == {i \in DOMAIN rows : rows[i].attack}
             f == [i \in A |-> rows[i].campaign]
             N == {rows[i].campaign : i \in A}
  <2>1. f \in Surjection(A, N)
    BY DEF Surjection
  <2>2. IsFiniteSet(A)
    <3>1. A \subseteq DOMAIN rows
      OBVIOUS
    <3> HIDE DEF A
    <3> QED
      BY <1>4, <3>1, FS_Subset
  <2>3. IsFiniteSet(N)
    <3> HIDE DEF A, N, f
    <3> QED
      BY <2>1, <2>2, FS_Surjection
  <2>4. detected \subseteq N
    BY DEF Campaigns
  <2> HIDE DEF detected, N
  <2> QED
    BY <2>3, <2>4, FS_Subset
<1>7. Percentile(delay, 50) <= Percentile(delay, 95)
  <2>1. DOMAIN delay = detected /\ delay = [c \in DOMAIN delay |-> delay[c]]
    OBVIOUS
  <2> HIDE DEF delay, detected
  <2> QED
    BY <1>5, <1>6, <2>1, PercentilesGrow
<1> QED
  BY <1>1, <1>5, <1>7

\* The report counts every row once (metrics.py:102-229).
LEMMA ReportAddsUp ==
  ASSUME NEW rows, ReportedRows(rows), NEW t
  PROVE  AddsUp(rows, EvaluationReport(rows, t))
<1> DEFINE report == EvaluationReport(rows, t)
<1>1. /\ report.bins = ReliabilityBins(rows)
      /\ report.slices = HardNegatives(rows, t)
      /\ report.threshold = ThresholdMetrics(rows, t)
      /\ report.campaigns = CampaignMetrics(rows, t)
  BY DEF EvaluationReport
<1> HIDE DEF report
<1>2. ASSUME NEW i \in DOMAIN rows
      PROVE  Cardinality({b \in DOMAIN report.bins : i \in report.bins[b]}) = 1
  <2>1. {b \in DOMAIN report.bins : i \in report.bins[b]} = {b \in 0 .. Bins - 1 : InBin(rows[i].score, b)}
    BY <1>1 DEF ReliabilityBins
  <2>2. rows[i].score \in 0 .. One
    BY RowsAre
  <2>3. Cardinality({b \in 0 .. Bins - 1 : InBin(rows[i].score, b)}) = 1
    BY <2>2, OneBin
  <2> QED
    BY <2>1, <2>3
<1>3. Total([s \in LegitimateScenarios |-> Cardinality(report.slices[s])]) = report.threshold.falsePositive
  BY <1>1, SlicesAddUp
<1>4. Total([c \in Campaigns(rows) |-> report.campaigns.flagged[c]]) = report.threshold.truePositive
  BY <1>1, CampaignsAddUp
<1>5. /\ \A c \in report.campaigns.detected : report.campaigns.delay[c] >= 0
      /\ report.campaigns.median <= report.campaigns.p95
  BY <1>1, DelaysAre
<1> QED
  BY <1>2, <1>3, <1>4, <1>5 DEF AddsUp, report

--------------------------------------------------------------------------------
(* Average precision.                                                         *)

\* Positions listed in an order are rearranged by it.
LEMMA ArrangedInOrder ==
  ASSUME NEW n \in Nat, NEW R, Orders(R, 1 .. n)
  PROVE  LET order == InOrder(1 .. n, R)
         IN  /\ Rearranges(order, 1 .. n)
             /\ \A i \in 1 .. n, j \in 1 .. n : <<order[i], order[j]>> \in R <=> i < j
<1> DEFINE D == 1 .. n
           order == InOrder(D, R)
<1>1. IsFiniteSet(D) /\ Cardinality(D) = n
  BY FS_Interval
<1> DEFINE size == Cardinality(D)
<1>2. D = 1 .. size
  BY <1>1
<1>3. Orders(R, D)
  OBVIOUS
<1>4. \A i \in D : i \in Int
  OBVIOUS
<1> HIDE DEF D, order, size
<1>5. Lists(order, R, D)
  BY <1>1, <1>3, InOrderLists DEF order
<1>6. /\ \A x \in D : \E k \in D : order[k] = x
      /\ \A i \in D, j \in D : <<order[i], order[j]>> \in R <=> i < j
  <2>1. /\ \A x \in D : \E k \in 1 .. size : order[k] = x
        /\ \A i \in 1 .. size, j \in 1 .. size : <<order[i], order[j]>> \in R <=> i < j
    BY <1>1, <1>3, <1>5, ListedIs DEF size
  <2> QED
    BY <1>2, <2>1
<1>7. order \in [D -> D]
  BY <1>2, <1>5 DEF Lists, size
<1>8. ASSUME NEW i \in D, NEW j \in D, order[i] = order[j]
      PROVE  i = j
  <2>1. ~(i < j) /\ ~(j < i)
    BY <1>3, <1>6, <1>7, <1>8 DEF Orders
  <2> QED
    BY <1>4, <2>1
<1>9. Rearranges(order, D)
  BY <1>6, <1>7, <1>8 DEF Rearranges
<1> QED
  BY <1>6, <1>9 DEF D, order

Distinct(rows) == \A i \in DOMAIN rows, j \in DOMAIN rows : rows[i].score = rows[j].score => i = j

\* As many scores as rows: no two rows have the same.
LEMMA DistinctScores ==
  ASSUME NEW rows, ReportedRows(rows), Cardinality(ScoresOf(rows)) = Len(rows)
  PROVE  Distinct(rows)
<1> DEFINE D == DOMAIN rows
           f == [i \in D |-> rows[i].score]
<1>1. IsFiniteSet(D) /\ Cardinality(D) = Len(rows)
  BY RowsAre
<1>2. f \in Surjection(D, ScoresOf(rows))
  BY DEF Surjection, ScoresOf
<1>3. f \in Injection(D, ScoresOf(rows))
  <2> HIDE DEF f, D
  <2> QED
    BY <1>1, <1>2, FS_Surjection
<1>4. \A i \in D, j \in D : f[i] = f[j] => i = j
  <2> HIDE DEF f, D
  <2> QED
    BY <1>3 DEF Injection, IsInjective
<1> QED
  BY <1>4 DEF Distinct

\* The ranks of rows of different scores: the rows of the first k ranks are those of
\* at least the score at the k-th.
LEMMA RankedRows ==
  ASSUME NEW rows, ReportedRows(rows), Distinct(rows)
  PROVE  LET D == DOMAIN rows
             order == InOrder(D, RankOrder(rows))
         IN  /\ Rearranges(order, D)
             /\ \A k \in D, i \in D : rows[order[i]].score >= rows[order[k]].score <=> i <= k
<1> DEFINE D == DOMAIN rows
           n == Len(rows)
           R == RankOrder(rows)
           order == InOrder(D, R)
           Before(i, j) == rows[i].score > rows[j].score \/ (rows[i].score = rows[j].score /\ i < j)
<1>1. n \in Nat /\ D = 1 .. n /\ \A i \in D : i \in Int /\ rows[i].score \in Int
  BY RowsAre, OneAssumption
<1>2. \A i \in D, j \in D : <<i, j>> \in R <=> Before(i, j)
  BY DEF RankOrder
<1>3. \A i \in D, j \in D : rows[i].score = rows[j].score => i = j
  BY DEF Distinct
<1> HIDE DEF D, R, n
<1>4. Orders(R, D)
  <2>1. \A x \in D : <<x, x>> \notin R
    BY <1>1, <1>2
  <2>2. ASSUME NEW x \in D, NEW y \in D, NEW z \in D, <<x, y>> \in R, <<y, z>> \in R
        PROVE  <<x, z>> \in R
    <3>1. Before(x, y) /\ Before(y, z)
      BY <1>2, <2>2
    <3>2. /\ x \in Int /\ y \in Int /\ z \in Int
          /\ rows[x].score \in Int /\ rows[y].score \in Int /\ rows[z].score \in Int
      BY <1>1
    <3>3. Before(x, z)
      BY <3>1, <3>2
    <3> QED
      BY <1>2, <3>3
  <2>3. ASSUME NEW x \in D, NEW y \in D, x # y
        PROVE  <<x, y>> \in R \/ <<y, x>> \in R
    <3>1. x \in Int /\ y \in Int /\ rows[x].score \in Int /\ rows[y].score \in Int
      BY <1>1
    <3>2. Before(x, y) \/ Before(y, x)
      BY <2>3, <3>1
    <3> QED
      BY <1>2, <3>2
  <2> QED
    BY <2>1, <2>2, <2>3 DEF Orders
<1>5. /\ Rearranges(order, D)
      /\ \A i \in D, j \in D : <<order[i], order[j]>> \in R <=> i < j
  BY <1>1, <1>4, ArrangedInOrder
<1> HIDE DEF order
<1>6. ASSUME NEW k \in D, NEW i \in D
      PROVE  rows[order[i]].score >= rows[order[k]].score <=> i <= k
  <2>1. /\ order[i] \in D /\ order[k] \in D
        /\ rows[order[i]].score \in Int /\ rows[order[k]].score \in Int
    BY <1>1, <1>5 DEF Rearranges
  <2>2. order[i] = order[k] <=> i = k
    BY <1>5 DEF Rearranges
  <2>3. i < k <=> Before(order[i], order[k])
    BY <1>2, <1>5, <2>1
  <2>4. rows[order[i]].score = rows[order[k]].score <=> i = k
    BY <1>3, <2>1, <2>2
  <2> QED
    BY <1>1, <2>1, <2>2, <2>3, <2>4
<1> QED
  BY <1>5, <1>6 DEF D, R, order

HitsUpTo(ranked, k) == Cardinality({j \in 1 .. k : ranked[j].attack})

PrecisionAt(rows, s) ==
    LET above == Flagged(rows, s)
    IN  Cardinality({i \in above : rows[i].attack /\ rows[i].score = s})
        * Rate(Cardinality({i \in above : rows[i].attack}), Cardinality(above))

\* Counting by ranks and counting by scores are the same.
LEMMA RanksCountLikeScores ==
  ASSUME NEW rows, ReportedRows(rows), Distinct(rows), NEW order, Rearranges(order, DOMAIN rows),
         NEW k \in DOMAIN rows,
         \A i \in DOMAIN rows : rows[order[i]].score >= rows[order[k]].score <=> i <= k
  PROVE  LET ranked == [j \in DOMAIN rows |-> rows[order[j]]]
             s == ranked[k].score
             above == Flagged(rows, s)
         IN  /\ Cardinality(above) = k
             /\ Cardinality({i \in above : rows[i].attack}) = HitsUpTo(ranked, k)
             /\ {i \in above : rows[i].attack /\ rows[i].score = s} = {x \in {order[k]} : rows[x].attack}
<1> DEFINE D == DOMAIN rows
           n == Len(rows)
           ranked == [j \in D |-> rows[order[j]]]
           s == rows[order[k]].score
           above == Flagged(rows, s)
           attacks == {i \in above : rows[i].attack}
<1>1. n \in Nat /\ D = 1 .. n /\ IsFiniteSet(D)
  BY RowsAre
<1>2. above \in SUBSET D /\ attacks \in SUBSET D
  BY DEF Flagged
<1>3. PlacesOf(above, order, D) = 1 .. k
  <2>1. \A i \in D : order[i] \in above <=> i <= k
    BY DEF Flagged, Rearranges
  <2>2. PlacesOf(above, order, D) = {i \in D : i <= k}
    BY <2>1 DEF PlacesOf
  <2>3. {i \in D : i <= k} = 1 .. k
    BY <1>1
  <2> QED
    BY <2>2, <2>3
<1>4. PlacesOf(attacks, order, D) = {j \in 1 .. k : ranked[j].attack}
  <2>1. PlacesOf(attacks, order, D) = {j \in PlacesOf(above, order, D) : rows[order[j]].attack}
    BY DEF PlacesOf
  <2>2. \A j \in 1 .. k : j \in D
    BY <1>1
  <2>3. \A j \in 1 .. k : ranked[j] = rows[order[j]]
    BY <2>2
  <2> HIDE DEF ranked
  <2> QED
    BY <1>3, <2>1, <2>3
<1>5. \A X \in SUBSET D : Cardinality(PlacesOf(X, order, D)) = Cardinality(X)
  BY <1>1, CountedAlike
<1>6. Cardinality(1 .. k) = k
  BY <1>1, FS_Interval
<1>7. {i \in above : rows[i].attack /\ rows[i].score = s} = {x \in {order[k]} : rows[x].attack}
  <2>1. order[k] \in D /\ order[k] \in above
    <3>1. order[k] \in D /\ k <= k
      BY <1>1 DEF Rearranges
    <3> QED
      BY <3>1 DEF Flagged
  <2>2. \A i \in D : rows[i].score = s => i = order[k]
    BY <2>1 DEF Distinct
  <2> QED
    BY <1>2, <2>1, <2>2
<1>8. ranked[k].score = s
  OBVIOUS
<1>9. Cardinality(above) = k /\ Cardinality(attacks) = HitsUpTo(ranked, k)
  BY <1>2, <1>3, <1>4, <1>5, <1>6 DEF HitsUpTo
<1> QED
  BY <1>7, <1>8, <1>9

\* Without ties, precision summed over the ranks of the attacks is precision summed
\* over the scores.
LEMMA AveragePrecisionsAgree ==
  ASSUME NEW rows, ReportedRows(rows), Distinct(rows)
  PROVE  AveragePrecision(rows) = GroupedAveragePrecision(rows)
<1> DEFINE D == DOMAIN rows
           order == InOrder(D, RankOrder(rows))
           ranked == [k \in D |-> rows[order[k]]]
           T == {k \in D : ranked[k].attack}
           F == [k \in T |-> Rate(HitsUpTo(ranked, k), k)]
           U == ScoresOf(rows)
           h == [k \in T |-> ranked[k].score]
           G == [s \in U |-> PrecisionAt(rows, s)]
<1>1. AveragePrecision(rows) = Total(F)
  <2>1. DOMAIN ranked = D
    OBVIOUS
  <2> QED
    BY <2>1 DEF AveragePrecision, HitsUpTo
<1>2. GroupedAveragePrecision(rows) = Total(G)
  BY DEF GroupedAveragePrecision, PrecisionAt
<1>3. DOMAIN F = T /\ DOMAIN G = U
  OBVIOUS
<1>4. /\ Len(rows) \in Nat /\ D = 1 .. Len(rows) /\ IsFiniteSet(D)
      /\ \A i \in D : rows[i].attack \in BOOLEAN /\ rows[i].score \in Int
  BY RowsAre, OneAssumption
<1>5. /\ Rearranges(order, D)
      /\ \A k \in D, i \in D : rows[order[i]].score >= rows[order[k]].score <=> i <= k
  BY RankedRows
<1> HIDE DEF order
<1>6. \A k \in D : order[k] \in D /\ ranked[k] = rows[order[k]]
  BY <1>5 DEF Rearranges
<1>7. IsFiniteSet(T) /\ T \subseteq D
  BY <1>4, FS_Subset
<1>8. IsFiniteSet(U)
  <2> DEFINE f == [i \in D |-> rows[i].score]
  <2>1. f \in Surjection(D, U)
    BY DEF Surjection, ScoresOf
  <2> HIDE DEF f, D, U
  <2> QED
    BY <1>4, <2>1, FS_Surjection
<1>9. \A k \in T : h[k] \in U
  BY <1>6 DEF ScoresOf
<1>10. ASSUME NEW k \in T, NEW l \in T, h[k] = h[l]
       PROVE  k = l
  <2>1. rows[order[k]].score = rows[order[l]].score /\ order[k] \in D /\ order[l] \in D
    BY <1>6, <1>10
  <2>2. order[k] = order[l]
    BY <2>1 DEF Distinct
  <2> QED
    BY <1>5, <2>2 DEF Rearranges
<1>11. ASSUME NEW k \in T
       PROVE  F[k] \in Int /\ G[h[k]] = F[k]
  <2> DEFINE s == ranked[k].score
             above == Flagged(rows, s)
             own == {i \in above : rows[i].attack /\ rows[i].score = s}
             caught == {i \in above : rows[i].attack}
  <2>1. k \in D /\ rows[order[k]].attack = TRUE /\ \A i \in D : rows[order[i]].score >= rows[order[k]].score <=> i <= k
    BY <1>4, <1>5, <1>6
  <2>2. /\ Cardinality(above) = k
        /\ Cardinality(caught) = HitsUpTo(ranked, k)
        /\ own = {x \in {order[k]} : rows[x].attack}
    BY <1>5, <2>1, RanksCountLikeScores
  <2>3. own = {order[k]}
    BY <2>1, <2>2
  <2>4. Cardinality(own) = 1
    <3> HIDE DEF own
    <3> QED
      BY <2>3, FS_Singleton
  <2>5. HitsUpTo(ranked, k) \in Nat /\ k \in Nat
    <3>1. IsFiniteSet(caught)
      <4>1. caught \subseteq D
        BY DEF Flagged
      <4> HIDE DEF caught, D
      <4> QED
        BY <1>4, <4>1, FS_Subset
    <3>2. Cardinality(caught) \in Nat
      <4> HIDE DEF caught
      <4> QED
        BY <3>1, FS_CardinalityType
    <3>3. k \in Nat
      BY <1>4
    <3> QED
      BY <2>2, <3>2, <3>3
  <2>6. Rate(HitsUpTo(ranked, k), k) \in Nat
    BY <2>5, RateType
  <2>7. F[k] = Rate(HitsUpTo(ranked, k), k)
    OBVIOUS
  <2>8. G[h[k]] = Cardinality(own) * Rate(Cardinality(caught), Cardinality(above))
    <3>1. h[k] \in U /\ h[k] = s
      BY <1>9
    <3> HIDE DEF h, U, s
    <3> QED
      BY <3>1 DEF PrecisionAt
  <2> HIDE DEF own, caught, above, F, G, h
  <2> QED
    BY <2>2, <2>4, <2>6, <2>7, <2>8
<1>12. ASSUME NEW u \in U, \A k \in T : h[k] # u
       PROVE  G[u] = 0
  <2> DEFINE above == Flagged(rows, u)
             own == {i \in above : rows[i].attack /\ rows[i].score = u}
             caught == {i \in above : rows[i].attack}
  <2>1. own = {}
    <3> SUFFICES ASSUME NEW i \in D, rows[i].attack, rows[i].score = u
                 PROVE  FALSE
      BY DEF Flagged
    <3>1. PICK k \in D : order[k] = i
      BY <1>5 DEF Rearranges
    <3>2. k \in T /\ h[k] = u
      BY <1>6, <3>1
    <3> QED
      BY <1>12, <3>2
  <2>2. Cardinality(own) = 0
    BY <2>1, FS_EmptySet
  <2>3. IsFiniteSet(above) /\ IsFiniteSet(caught)
    <3>1. above \subseteq D /\ caught \subseteq D
      BY DEF Flagged
    <3> HIDE DEF above, caught, D
    <3> QED
      BY <1>4, <3>1, FS_Subset
  <2>4. Cardinality(above) \in Nat /\ Cardinality(caught) \in Nat
    <3> HIDE DEF above, caught
    <3> QED
      BY <2>3, FS_CardinalityType
  <2>5. Rate(Cardinality(caught), Cardinality(above)) \in Nat
    BY <2>4, RateType
  <2>6. G[u] = Cardinality(own) * Rate(Cardinality(caught), Cardinality(above))
    BY DEF PrecisionAt
  <2> HIDE DEF own, caught, above, G
  <2> QED
    BY <2>2, <2>5, <2>6
<1> HIDE DEF T, U, F, G, h
<1>13. SumOver(G, U) = SumOver(F, T)
  BY <1>7, <1>8, <1>9, <1>10, <1>11, <1>12, SumMapped
<1> QED
  BY <1>1, <1>2, <1>3, <1>13, TotalIs

\* The stress analysis measures what the report measures
\* (adversarial_stress.py:85-198).
LEMMA StressMeasuresAlike ==
  ASSUME NEW rows, ReportedRows(rows), NEW t
  PROVE  MeasuresAlike(rows, EvaluationReport(rows, t), ScoreVariant(rows, t))
<1> DEFINE report == EvaluationReport(rows, t)
           measured == ScoreVariant(rows, t)
           m == ThresholdMetrics(rows, t)
           D == DOMAIN rows
           flagged == Flagged(rows, t)
           attacks == {i \in D : rows[i].attack}
           Where(f, a) == {i \in D : (rows[i].score >= t) = f /\ rows[i].attack = a}
<1>1. report.threshold = m /\ report.campaigns = CampaignMetrics(rows, t)
  BY DEF EvaluationReport
<1>2. \A i \in D : rows[i].attack \in BOOLEAN
  BY RowsAre
<1>3. \A i \in D : (rows[i].attack = TRUE <=> rows[i].attack) /\ (rows[i].attack = FALSE <=> ~rows[i].attack)
  BY <1>2
<1>4. /\ Where(TRUE, TRUE) = flagged \cap attacks
      /\ Where(TRUE, FALSE) = flagged \ attacks
      /\ Where(FALSE, TRUE) = attacks \ flagged
      /\ Where(FALSE, FALSE) = D \ (flagged \cup attacks)
  BY <1>3 DEF Flagged
<1>5. /\ m.truePositive = Cardinality(Where(TRUE, TRUE))
      /\ m.falsePositive = Cardinality(Where(TRUE, FALSE))
      /\ m.falseNegative = Cardinality(Where(FALSE, TRUE))
      /\ m.trueNegative = Cardinality(Where(FALSE, FALSE))
      /\ m.cost = Cardinality(Where(TRUE, FALSE)) * 1 + Cardinality(Where(FALSE, TRUE)) * 25
  BY DEF ThresholdMetrics, LockedCosts
<1>6. /\ measured.truePositive = Cardinality(flagged \cap attacks)
      /\ measured.falsePositive = Cardinality(flagged \ attacks)
      /\ measured.falseNegative = Cardinality(attacks \ flagged)
      /\ measured.trueNegative = Cardinality(D \ (flagged \cup attacks))
      /\ measured.cost = 25 * Cardinality(attacks \ flagged) + Cardinality(flagged \ attacks)
      /\ measured.detected = {rows[i].campaign : i \in flagged \cap attacks} \ {NoCampaign}
      /\ measured.total = {rows[i].campaign : i \in attacks} \ {NoCampaign}
      /\ measured.averagePrecision = AveragePrecision(rows)
  BY DEF ScoreVariant
<1>7. Cardinality(flagged \ attacks) \in Nat /\ Cardinality(attacks \ flagged) \in Nat
  <2>1. IsFiniteSet(D) /\ flagged \ attacks \subseteq D /\ attacks \ flagged \subseteq D
    BY RowsAre DEF Flagged
  <2> HIDE DEF D, flagged, attacks
  <2> QED
    BY <2>1, FS_Subset, FS_CardinalityType
<1>8. measured.detected = CampaignMetrics(rows, t).detected
  <2>1. CampaignMetrics(rows, t).detected = {c \in Campaigns(rows) : CampaignRows(rows, c) \cap flagged # {}}
    BY DEF CampaignMetrics
  <2>2. {rows[i].campaign : i \in flagged \cap attacks} \ {NoCampaign}
           = {c \in Campaigns(rows) : CampaignRows(rows, c) \cap flagged # {}}
    BY DEF Campaigns, CampaignRows, Flagged
  <2> QED
    BY <1>6, <2>1, <2>2
<1>9. measured.total = Campaigns(rows)
  BY <1>6 DEF Campaigns
<1>10. Cardinality(ScoresOf(rows)) = Len(rows) => measured.averagePrecision = GroupedAveragePrecision(rows)
  BY <1>6, DistinctScores, AveragePrecisionsAgree
<1> HIDE DEF Where, flagged, attacks, D, measured, m, report
<1>11. measured.cost = m.cost
  <2> DEFINE x == Cardinality(attacks \ flagged)
             y == Cardinality(flagged \ attacks)
  <2>1. x \in Nat /\ y \in Nat /\ measured.cost = 25 * x + y
    BY <1>6, <1>7
  <2>2. m.cost = y * 1 + x * 25
    BY <1>4, <1>5
  <2> HIDE DEF x, y
  <2> QED
    BY <2>1, <2>2
<1>12. /\ measured.truePositive = m.truePositive /\ measured.falsePositive = m.falsePositive
       /\ measured.trueNegative = m.trueNegative /\ measured.falseNegative = m.falseNegative
  BY <1>4, <1>5, <1>6
<1>13. MeasuresAlike(rows, report, measured)
  BY <1>1, <1>8, <1>9, <1>10, <1>11, <1>12 DEF MeasuresAlike
<1> QED
  BY <1>13 DEF report, measured

--------------------------------------------------------------------------------
(* Iteration.                                                                 *)

Iterates(f, a, next) == f = [k \in Nat |-> IF k = 0 THEN a ELSE next[f[k - 1]]]

IteratesUpTo(g, a, next, D, n) ==
    g \in [0 .. n -> D] /\ g[0] = a /\ \A k \in 1 .. n : g[k] = next[g[k - 1]]

\* Two iterations agree as far as both go.
LEMMA IterationsAgree ==
  ASSUME NEW D, NEW a, NEW next, NEW n \in Nat, NEW m \in 0 .. n, NEW g, NEW h,
         IteratesUpTo(g, a, next, D, n), IteratesUpTo(h, a, next, D, m), NEW k \in 0 .. m
  PROVE  g[k] = h[k]
<1> SUFFICES ASSUME g[k] # h[k] PROVE FALSE
  OBVIOUS
<1> DEFINE differ == {i \in 0 .. m : g[i] # h[i]}
<1>1. differ \in SUBSET Nat /\ k \in differ
  OBVIOUS
<1>2. PICK i \in differ : \A j \in differ : i <= j
  <2> HIDE DEF differ
  <2> QED
    BY <1>1, LeastElement
<1>3. i # 0
  BY <1>2 DEF IteratesUpTo
<1>4. i \in 1 .. m /\ i \in 1 .. n /\ i - 1 \in 0 .. m /\ ~(i <= i - 1)
  BY <1>2, <1>3
<1>5. g[i - 1] = h[i - 1]
  BY <1>2, <1>4
<1> QED
  BY <1>2, <1>4, <1>5 DEF IteratesUpTo

\* A sequence of values never leaves a set that its steps do not leave.
LEMMA StaysIn ==
  ASSUME NEW D, NEW f, f[0] \in D, \A k \in Nat \ {0} : f[k - 1] \in D => f[k] \in D
  PROVE  \A k \in Nat : f[k] \in D
<1> SUFFICES ASSUME NEW n \in Nat, f[n] \notin D PROVE FALSE
  OBVIOUS
<1> DEFINE out == {k \in Nat : f[k] \notin D}
<1>1. out \in SUBSET Nat /\ out # {}
  OBVIOUS
<1>2. PICK k \in out : \A j \in out : k <= j
  <2> HIDE DEF out
  <2> QED
    BY <1>1, LeastElement
<1>3. k \in Nat \ {0} /\ k - 1 \in Nat /\ ~(k <= k - 1)
  BY <1>2
<1>4. f[k - 1] \in D
  BY <1>2, <1>3
<1> QED
  BY <1>2, <1>3, <1>4

\* A function on a set can be iterated from any of its elements.
LEMMA IterationExists ==
  ASSUME NEW D, NEW a \in D, NEW next \in [D -> D]
  PROVE  \E f : Iterates(f, a, next)
<1> DEFINE Upto(g, n) == IteratesUpTo(g, a, next, D, n)
           part(n) == CHOOSE g : Upto(g, n)
           f == [n \in Nat |-> part(n)[n]]
<1>1. ASSUME NEW n \in Nat
      PROVE  \E g : Upto(g, n)
  <2> DEFINE holds == [m \in 0 .. n |-> \E g : Upto(g, m)]
  <2>1. \E g : Upto(g, 0)
    <3>1. Upto([k \in 0 .. 0 |-> a], 0)
      BY DEF IteratesUpTo
    <3> QED
      BY <3>1
  <2>2. ASSUME NEW m \in 1 .. n, NEW g, Upto(g, m - 1)
        PROVE  \E h : Upto(h, m)
    <3> DEFINE h == [k \in 0 .. m |-> IF k = m THEN next[g[m - 1]] ELSE g[k]]
    <3>1. g \in [0 .. m - 1 -> D] /\ g[0] = a /\ \A k \in 1 .. m - 1 : g[k] = next[g[k - 1]]
      BY <2>2 DEF IteratesUpTo
    <3>2. m - 1 \in 0 .. m - 1 /\ \A k \in 0 .. m : k = m \/ k \in 0 .. m - 1
      OBVIOUS
    <3>3. h \in [0 .. m -> D]
      BY <3>1, <3>2
    <3>4. h[0] = a
      BY <3>1
    <3>5. \A k \in 1 .. m : h[k] = next[h[k - 1]]
      BY <3>1
    <3>6. Upto(h, m)
      <4> HIDE DEF h
      <4> QED
        BY <3>3, <3>4, <3>5 DEF IteratesUpTo
    <3> HIDE DEF h
    <3> QED
      BY <3>6
  <2>3. /\ holds \in [0 .. n -> BOOLEAN] /\ holds[0]
        /\ \A m \in 1 .. n : holds[m - 1] => holds[m]
    <3>1. \A m \in 0 .. n : holds[m] <=> \E g : Upto(g, m)
      OBVIOUS
    <3>2. holds \in [0 .. n -> BOOLEAN]
      OBVIOUS
    <3>3. \A m \in 1 .. n : m - 1 \in 0 .. n /\ m \in 0 .. n
      OBVIOUS
    <3> HIDE DEF holds, Upto
    <3> QED
      BY <2>1, <2>2, <3>1, <3>2, <3>3
  <2>4. holds[n]
    <3> HIDE DEF holds
    <3> QED
      BY <2>3, PassedOn
  <2> QED
    BY <2>4
<1>2. \A n \in Nat : Upto(part(n), n)
  <2> SUFFICES ASSUME NEW n \in Nat PROVE Upto(part(n), n)
    OBVIOUS
  <2>1. PICK g : Upto(g, n)
    BY <1>1
  <2> HIDE DEF Upto
  <2> QED
    BY <2>1
<1>3. f[0] = a
  BY <1>2 DEF IteratesUpTo
<1>4. ASSUME NEW n \in Nat, n # 0
      PROVE  f[n] = next[f[n - 1]]
  <2>1. Upto(part(n), n) /\ Upto(part(n - 1), n - 1) /\ n - 1 \in Nat /\ n - 1 \in 0 .. n
    BY <1>2, <1>4
  <2>2. n - 1 \in 0 .. n - 1
    BY <2>1
  <2>3. part(n)[n - 1] = part(n - 1)[n - 1]
    <3> HIDE DEF part
    <3> QED
      BY <2>1, <2>2, IterationsAgree
  <2>4. part(n)[n] = next[part(n)[n - 1]]
    <3>1. n \in 1 .. n
      BY <1>4
    <3> HIDE DEF part
    <3> QED
      BY <2>1, <3>1 DEF IteratesUpTo
  <2>5. f[n] = part(n)[n] /\ f[n - 1] = part(n - 1)[n - 1]
    BY <2>1
  <2> QED
    BY <2>3, <2>4, <2>5
<1>5. f = [k \in Nat |-> IF k = 0 THEN a ELSE next[f[k - 1]]]
  <2>1. f = [k \in Nat |-> f[k]]
    OBVIOUS
  <2>2. \A k \in Nat : f[k] = IF k = 0 THEN a ELSE next[f[k - 1]]
    BY <1>3, <1>4
  <2> HIDE DEF f
  <2> QED
    BY <2>1, <2>2
<1> HIDE DEF f
<1> QED
  BY <1>5 DEF Iterates

--------------------------------------------------------------------------------
(* The validation of a tree.                                                  *)

Frames == [node : Int, exiting : BOOLEAN]

SearchStates == [stack : Seq(Frames), active : SUBSET Int, visited : SUBSET Int]

Begin == [stack |-> <<Entering(0)>>, active |-> {}, visited |-> {}]

\* The arrays have an integer for every node.
LEMMA TreeIs ==
  ASSUME NEW tree, TreeArrays(tree)
  PROVE  LET size == Cardinality(Nodes(tree))
         IN  /\ size \in Nat \ {0} /\ Nodes(tree) = 0 .. size - 1 /\ IsFiniteSet(Nodes(tree))
             /\ \A n \in Nodes(tree) : /\ n \in Nat /\ tree.left[n] \in Int /\ tree.right[n] \in Int
                                       /\ tree.feature[n] \in Int
<1> DEFINE size == Cardinality(Nodes(tree))
<1>1. size \in Nat \ {0} /\ tree.left \in [0 .. size - 1 -> Int]
      /\ tree.right \in [0 .. size - 1 -> Int] /\ tree.feature \in [0 .. size - 1 -> Int]
  BY DEF TreeArrays
<1> HIDE DEF size
<1>2. Nodes(tree) = 0 .. size - 1
  BY <1>1 DEF Nodes
<1>3. IsFiniteSet(0 .. size - 1)
  BY <1>1, FS_Interval
<1> QED
  BY <1>1, <1>2, <1>3 DEF size

\* A round leads from a search to a search.
LEMMA RoundIsTyped ==
  ASSUME NEW tree, TreeArrays(tree), NEW s \in SearchStates
  PROVE  Round(tree, s) \in SearchStates
<1> DEFINE node == Head(s.stack).node
           rest == Tail(s.stack)
           children == IF IsLeaf(tree, node) THEN <<>>
                       ELSE <<Entering(tree.left[node]), Entering(tree.right[node])>>
<1>1. s.stack \in Seq(Frames) /\ s.active \in SUBSET Int /\ s.visited \in SUBSET Int
  BY DEF SearchStates
<1>2. CASE s.stack = <<>>
  BY <1>2 DEF Round
<1>3. CASE s.stack # <<>>
  <2>1. Head(s.stack) \in Frames /\ rest \in Seq(Frames)
    BY <1>1, <1>3
  <2>2. node \in Int
    BY <2>1 DEF Frames
  <2>3. CASE Head(s.stack).exiting
    <3>1. Round(tree, s) = [stack |-> rest, active |-> s.active \ {node}, visited |-> s.visited \cup {node}]
      BY <1>3, <2>3 DEF Round
    <3> HIDE DEF node, rest
    <3> QED
      BY <1>1, <2>1, <2>2, <3>1 DEF SearchStates
  <2>4. CASE ~Head(s.stack).exiting /\ Enterable(tree, s, node)
    <3>1. Round(tree, s) = [stack |-> children \o <<Exiting(node)>> \o rest,
                            active |-> s.active \cup {node}, visited |-> s.visited]
      BY <1>3, <2>4 DEF Round
    <3>2. children \in Seq(Frames)
      <4>1. node \in Nodes(tree)
        BY <2>4 DEF Enterable
      <4>2. tree.left[node] \in Int /\ tree.right[node] \in Int
        BY <4>1, TreeIs
      <4>3. Entering(tree.left[node]) \in Frames /\ Entering(tree.right[node]) \in Frames
        BY <4>2 DEF Entering, Frames
      <4> HIDE DEF node
      <4> QED
        BY <4>3
    <3>3. Exiting(node) \in Frames
      BY <2>2 DEF Exiting, Frames
    <3> HIDE DEF node, rest, children
    <3>4. children \o <<Exiting(node)>> \o rest \in Seq(Frames)
      BY <2>1, <3>2, <3>3
    <3> QED
      BY <1>1, <2>2, <3>1, <3>4 DEF SearchStates
  <2>5. CASE ~Head(s.stack).exiting /\ ~Enterable(tree, s, node)
    BY <1>3, <2>5 DEF Round
  <2> QED
    BY <2>3, <2>4, <2>5
<1> QED
  BY <1>2, <1>3

\* The search is the iteration of its rounds.
LEMMA SearchIs ==
  ASSUME NEW tree, TreeArrays(tree)
  PROVE  /\ Search(tree)[0] = Begin
         /\ \A k \in Nat : Search(tree)[k + 1] = Round(tree, Search(tree)[k])
<1> DEFINE next == [s \in SearchStates |-> Round(tree, s)]
           Searches(f) == f = [k \in Nat |-> IF k = 0 THEN Begin ELSE Round(tree, f[k - 1])]
<1>1. Begin \in SearchStates
  <2>1. Entering(0) \in Frames
    BY DEF Entering, Frames
  <2> QED
    BY <2>1 DEF Begin, SearchStates
<1>2. next \in [SearchStates -> SearchStates]
  BY RoundIsTyped
<1>3. PICK f : Iterates(f, Begin, next)
  <2> HIDE DEF next
  <2> QED
    BY <1>1, <1>2, IterationExists
<1>4. \A k \in Nat : f[k] = IF k = 0 THEN Begin ELSE next[f[k - 1]]
  <2> HIDE DEF next
  <2> QED
    BY <1>3 DEF Iterates
<1>5. \A k \in Nat : f[k] \in SearchStates
  <2>1. f[0] \in SearchStates
    <3> HIDE DEF next
    <3> QED
      BY <1>1, <1>4
  <2>2. ASSUME NEW k \in Nat \ {0}, f[k - 1] \in SearchStates
        PROVE  f[k] \in SearchStates
    <3>1. f[k] = next[f[k - 1]]
      BY <1>4
    <3> HIDE DEF next
    <3> QED
      BY <1>2, <2>2, <3>1
  <2> HIDE DEF next
  <2> QED
    BY <2>1, <2>2, StaysIn
<1>6. Searches(f)
  <2>1. \A k \in Nat : k # 0 => k - 1 \in Nat
    OBVIOUS
  <2>2. \A k \in Nat : f[k] = IF k = 0 THEN Begin ELSE Round(tree, f[k - 1])
    BY <1>4, <1>5, <2>1
  <2>3. f = [k \in Nat |-> f[k]]
    <3> HIDE DEF next
    <3> QED
      BY <1>3 DEF Iterates
  <2> QED
    BY <2>2, <2>3
<1>7. Search(tree) = CHOOSE g : Searches(g)
  BY DEF Search, Begin
<1>8. Searches(Search(tree))
  <2> HIDE DEF Searches
  <2> QED
    BY <1>6, <1>7
<1>9. \A k \in Nat : Search(tree)[k] = IF k = 0 THEN Begin ELSE Round(tree, Search(tree)[k - 1])
  <2> DEFINE g == Search(tree)
  <2>1. Searches(g)
    BY <1>8
  <2> HIDE DEF g
  <2>2. \A k \in Nat : g[k] = IF k = 0 THEN Begin ELSE Round(tree, g[k - 1])
    BY <2>1
  <2> QED
    BY <2>2 DEF g
<1>10. \A k \in Nat : k + 1 \in Nat /\ k + 1 # 0 /\ (k + 1) - 1 = k
  OBVIOUS
<1> QED
  BY <1>9, <1>10

\* How often a frame is on the stack.
Count(stack, x) == Cardinality({i \in DOMAIN stack : stack[i] = x})

\* Nothing is on an empty stack.
LEMMA CountEmpty ==
  ASSUME NEW x
  PROVE  Count(<<>>, x) = 0
<1>1. {i \in DOMAIN <<>> : <<>>[i] = x} = {}
  OBVIOUS
<1> QED
  BY <1>1, FS_EmptySet DEF Count

\* What is on the stack is counted.
LEMMA CountIs ==
  ASSUME NEW S, NEW t \in Seq(S), NEW x
  PROVE  /\ Count(t, x) \in Nat
         /\ \A i \in DOMAIN t : t[i] = x => Count(t, x) > 0
<1> DEFINE at == {i \in DOMAIN t : t[i] = x}
<1>1. at \subseteq 1 .. Len(t) /\ Len(t) \in Nat
  OBVIOUS
<1>2. IsFiniteSet(1 .. Len(t))
  BY <1>1, FS_Interval
<1>3. IsFiniteSet(at)
  BY <1>1, <1>2, FS_Subset
<1>4. Cardinality(at) \in Nat /\ (at # {} => Cardinality(at) # 0)
  <2> HIDE DEF at
  <2> QED
    BY <1>3, FS_CardinalityType, FS_EmptySet
<1>5. Count(t, x) = Cardinality(at)
  BY DEF Count
<1>6. \A i \in DOMAIN t : t[i] = x => at # {}
  OBVIOUS
<1> HIDE DEF at
<1> QED
  BY <1>4, <1>5, <1>6

Pushed(a, t) == <<a>> \o t

\* A frame is pushed.
LEMMA CountPushed ==
  ASSUME NEW S, NEW a \in S, NEW t \in Seq(S), NEW x
  PROVE  /\ Pushed(a, t) \in Seq(S)
         /\ Count(Pushed(a, t), x) = Count(t, x) + IF a = x THEN 1 ELSE 0
<1> DEFINE s == Pushed(a, t)
           old == {i \in DOMAIN t : t[i] = x}
           moved == {i \in 2 .. Len(t) + 1 : t[i - 1] = x}
           new == {i \in DOMAIN s : s[i] = x}
           f == [i \in old |-> i + 1]
<1>0. s \in Seq(S)
  BY ConcatProperties DEF Pushed
<1>1. Len(t) \in Nat /\ DOMAIN t = 1 .. Len(t)
  OBVIOUS
<1>2. /\ DOMAIN s = 1 .. Len(t) + 1 /\ s[1] = a
      /\ \A i \in 2 .. Len(t) + 1 : s[i] = t[i - 1]
  BY <1>1 DEF Pushed
<1>3. IsFiniteSet(old)
  <2>1. IsFiniteSet(1 .. Len(t)) /\ old \subseteq 1 .. Len(t)
    BY <1>1, FS_Interval
  <2> QED
    BY <2>1, FS_Subset
<1>4. f \in Bijection(old, moved)
  <2>1. f \in [old -> moved]
    BY <1>1
  <2>2. \A i, j \in old : f[i] = f[j] => i = j
    BY <1>1
  <2>3. ASSUME NEW k \in moved
        PROVE  \E i \in old : f[i] = k
    <3>1. k - 1 \in old /\ f[k - 1] = k
      BY <1>1, <2>3
    <3> QED
      BY <3>1
  <2> HIDE DEF f, old, moved
  <2> QED
    BY <2>1, <2>2, <2>3 DEF Bijection, Injection, Surjection, IsInjective
<1>5. IsFiniteSet(moved) /\ Cardinality(moved) = Cardinality(old) /\ Cardinality(old) \in Nat
  <2> HIDE DEF f, old, moved
  <2> QED
    BY <1>3, <1>4, FS_Bijection, FS_CardinalityType DEF ExistsBijection
<1>6. new = IF a = x THEN moved \cup {1} ELSE moved
  <2>1. \A i \in 1 .. Len(t) + 1 : i = 1 \/ i \in 2 .. Len(t) + 1
    BY <1>1
  <2>2. \A i \in 2 .. Len(t) + 1 : i \in 1 .. Len(t) + 1
    BY <1>1
  <2>3. 1 \in 1 .. Len(t) + 1
    BY <1>1
  <2> HIDE DEF s
  <2> QED
    BY <1>2, <2>1, <2>2, <2>3
<1>7. 1 \notin moved
  OBVIOUS
<1>8. Cardinality(new) = Cardinality(old) + IF a = x THEN 1 ELSE 0
  <2> HIDE DEF new, moved, old
  <2>1. Cardinality(moved \cup {1}) = Cardinality(moved) + 1
    BY <1>5, <1>7, FS_AddElement
  <2> QED
    BY <1>5, <1>6, <2>1
<1>9. Count(s, x) = Cardinality(new) /\ Count(t, x) = Cardinality(old)
  BY DEF Count
<1> HIDE DEF new, old
<1> QED
  BY <1>0, <1>8, <1>9

\* The stack with and without its head.
LEMMA CountHead ==
  ASSUME NEW S, NEW s \in Seq(S), s # <<>>, NEW x
  PROVE  /\ Tail(s) \in Seq(S) /\ Head(s) \in S
         /\ Count(s, x) = Count(Tail(s), x) + IF Head(s) = x THEN 1 ELSE 0
<1>1. Tail(s) \in Seq(S) /\ Head(s) \in S
  OBVIOUS
<1>2. s = Pushed(Head(s), Tail(s))
  BY DEF Pushed
<1>3. \A h \in S, t \in Seq(S) : s = Pushed(h, t) =>
        Count(s, x) = Count(t, x) + IF h = x THEN 1 ELSE 0
  BY CountPushed
<1> QED
  BY <1>1, <1>2, <1>3

\* A node's two children and its own end are pushed.
LEMMA CountThree ==
  ASSUME NEW S, NEW a \in S, NEW b \in S, NEW c \in S, NEW t \in Seq(S), NEW x
  PROVE  Count(<<a, b>> \o <<c>> \o t, x) =
           Count(t, x) + (IF a = x THEN 1 ELSE 0) + (IF b = x THEN 1 ELSE 0) + (IF c = x THEN 1 ELSE 0)
<1> DEFINE u == Pushed(c, t)
           v == Pushed(b, u)
           w == Pushed(a, v)
<1>1. u \in Seq(S) /\ v \in Seq(S)
  BY CountPushed
<1>2. <<a, b>> \o <<c>> \o t = w
  <2>1. <<a, b>> \in Seq(S) /\ <<a>> \in Seq(S) /\ <<b>> \in Seq(S) /\ <<c>> \in Seq(S)
    OBVIOUS
  <2>2. <<a, b>> = <<a>> \o <<b>>
    <3>1. Len(<<a, b>>) = 2 /\ Len(<<a>>) = 1 /\ Len(<<b>>) = 1
      OBVIOUS
    <3>2. /\ Len(<<a>> \o <<b>>) = 2 /\ <<a>> \o <<b>> \in Seq(S)
          /\ \A i \in 1 .. 2 : (<<a>> \o <<b>>)[i] = IF i <= 1 THEN <<a>>[i] ELSE <<b>>[i - 1]
      BY <2>1, <3>1, ConcatProperties
    <3>3. \A i \in 1 .. 2 : <<a, b>>[i] = (<<a>> \o <<b>>)[i]
      BY <3>2
    <3> QED
      BY <2>1, <3>1, <3>2, <3>3, SeqEqual
  <2>3. (<<a, b>> \o <<c>>) \o t = <<a, b>> \o u
    BY <2>1, ConcatAssociative DEF Pushed
  <2>4. (<<a>> \o <<b>>) \o u = <<a>> \o (<<b>> \o u)
    <3> HIDE DEF u
    <3> QED
      BY <1>1, <2>1, ConcatAssociative
  <2> QED
    BY <2>2, <2>3, <2>4 DEF Pushed
<1>3. Count(u, x) = Count(t, x) + IF c = x THEN 1 ELSE 0
  BY CountPushed
<1>4. Count(v, x) = Count(u, x) + IF b = x THEN 1 ELSE 0
  <2> HIDE DEF u
  <2> QED
    BY <1>1, CountPushed
<1>5. Count(w, x) = Count(v, x) + IF a = x THEN 1 ELSE 0
  <2> HIDE DEF v
  <2> QED
    BY <1>1, CountPushed
<1>6. Count(t, x) \in Nat
  BY CountIs
<1>7. Count(<<a, b>> \o <<c>> \o t, x) = Count(w, x)
  BY <1>2
<1>8. Count(w, x) = Count(t, x) + (IF a = x THEN 1 ELSE 0) + (IF b = x THEN 1 ELSE 0) + (IF c = x THEN 1 ELSE 0)
  <2> HIDE DEF u, v, w
  <2> QED
    BY <1>3, <1>4, <1>5, <1>6
<1> QED
  BY <1>7, <1>8

\* The frames.
LEMMA FramesAre ==
  /\ \A m \in Int : Entering(m) \in Frames /\ Exiting(m) \in Frames
  /\ \A m, n \in Int : /\ Entering(m) = Entering(n) <=> m = n
                       /\ Exiting(m) = Exiting(n) <=> m = n
                       /\ Entering(m) # Exiting(n) /\ Exiting(n) # Entering(m)
  /\ \A f \in Frames : f.node \in Int /\ f = IF f.exiting THEN Exiting(f.node) ELSE Entering(f.node)
<1>1. \A m \in Int : Entering(m) \in Frames /\ Exiting(m) \in Frames
  BY DEF Entering, Exiting, Frames
<1>2. \A m, n \in Int : /\ Entering(m) = Entering(n) <=> m = n
                        /\ Exiting(m) = Exiting(n) <=> m = n
                        /\ Entering(m) # Exiting(n) /\ Exiting(n) # Entering(m)
  BY DEF Entering, Exiting
<1>3. \A f \in Frames : f.node \in Int /\ f = IF f.exiting THEN Exiting(f.node) ELSE Entering(f.node)
  BY DEF Entering, Exiting, Frames
<1> QED
  BY <1>1, <1>2, <1>3

Bit(b) == IF b THEN 1 ELSE 0

Entered(s) == s.active \cup s.visited

\* What is checked of a node that is entered.
Marked(tree, n) == IF IsLeaf(tree, n) THEN tree.feature[n] = LeafMarker ELSE SplitOk(tree, n)

IsChild(tree, m, p) == ~IsLeaf(tree, p) /\ (m = tree.left[p] \/ m = tree.right[p])

ParentsIn(tree, E, m) == {p \in E : IsChild(tree, m, p)}

\* A node is on the stack to be left as often as it is active, once at most, and to
\* be entered as often as it has a parent that was entered before it.
SearchInv(tree, s) ==
    /\ s \in SearchStates
    /\ Entered(s) \subseteq Nodes(tree) /\ s.active \cap s.visited = {}
    /\ \A n \in Entered(s) : Marked(tree, n)
    /\ \A m \in Int : Count(s.stack, Exiting(m)) = Bit(m \in s.active)
    /\ \A m \in Int : Cardinality(ParentsIn(tree, Entered(s), m)) + Bit(m = 0)
                        = Count(s.stack, Entering(m)) + Bit(m \in Entered(s))

\* One more node is one more parent of its children.
LEMMA ParentsGrow ==
  ASSUME NEW tree, NEW E, IsFiniteSet(E), NEW n, n \notin E, NEW m
  PROVE  /\ Cardinality(ParentsIn(tree, E, m)) \in Nat
         /\ Cardinality(ParentsIn(tree, E \cup {n}, m))
              = Cardinality(ParentsIn(tree, E, m)) + Bit(IsChild(tree, m, n))
<1> DEFINE old == ParentsIn(tree, E, m)
           new == ParentsIn(tree, E \cup {n}, m)
<1>1. old \subseteq E /\ n \notin old
  BY DEF ParentsIn
<1>2. IsFiniteSet(old)
  BY <1>1, FS_Subset
<1>3. new = IF IsChild(tree, m, n) THEN old \cup {n} ELSE old
  BY DEF ParentsIn
<1>4. Cardinality(old) \in Nat
  BY <1>2, FS_CardinalityType
<1>5. Cardinality(old \cup {n}) = Cardinality(old) + 1
  <2> HIDE DEF old
  <2> QED
    BY <1>1, <1>2, FS_AddElement
<1>6. Cardinality(new) = Cardinality(old) + Bit(IsChild(tree, m, n))
  <2> HIDE DEF old, new
  <2> QED
    BY <1>3, <1>4, <1>5 DEF Bit
<1> QED
  BY <1>4, <1>6

\* The search begins so.
LEMMA SearchBegins ==
  ASSUME NEW tree
  PROVE  SearchInv(tree, Begin)
<1>1. Begin.stack = <<Entering(0)>> /\ Begin.active = {} /\ Begin.visited = {} /\ Begin \in SearchStates
  <2>1. Entering(0) \in Frames
    BY FramesAre
  <2> QED
    BY <2>1 DEF Begin, SearchStates
<1>2. Entered(Begin) = {}
  BY <1>1 DEF Entered
<1>3. \A x : Count(<<Entering(0)>>, x) = Bit(Entering(0) = x)
  <2> TAKE x
  <2>1. Entering(0) \in Frames /\ <<>> \in Seq(Frames)
    BY FramesAre
  <2>2. <<Entering(0)>> = Pushed(Entering(0), <<>>)
    <3> DEFINE a == Entering(0)
    <3>1. a \in Frames /\ <<a>> \in Seq(Frames)
      BY <2>1
    <3>2. <<a>> \o <<>> = <<a>>
      <4> HIDE DEF a
      <4> QED
        BY <3>1, ConcatEmptySeq
    <3> QED
      BY <3>2 DEF Pushed
  <2>3. Count(Pushed(Entering(0), <<>>), x) = Count(<<>>, x) + IF Entering(0) = x THEN 1 ELSE 0
    <3> DEFINE a == Entering(0)
               t == <<>>
    <3>1. a \in Frames /\ t \in Seq(Frames)
      BY <2>1
    <3> HIDE DEF a, t
    <3>2. Count(Pushed(a, t), x) = Count(t, x) + IF a = x THEN 1 ELSE 0
      BY <3>1, CountPushed
    <3> QED
      BY <3>2 DEF a, t
  <2> QED
    BY <2>2, <2>3, CountEmpty DEF Bit
<1>4. \A m \in Int : ParentsIn(tree, {}, m) = {}
  BY DEF ParentsIn
<1>5. \A m \in Int : Count(Begin.stack, Exiting(m)) = Bit(m \in Begin.active)
  BY <1>1, <1>3, FramesAre DEF Bit
<1>6. \A m \in Int : Cardinality(ParentsIn(tree, Entered(Begin), m)) + Bit(m = 0)
                       = Count(Begin.stack, Entering(m)) + Bit(m \in Entered(Begin))
  <2> TAKE m \in Int
  <2>1. Cardinality(ParentsIn(tree, Entered(Begin), m)) = 0
    BY <1>2, <1>4, FS_EmptySet
  <2>2. Count(Begin.stack, Entering(m)) = Bit(m = 0)
    BY <1>1, <1>3, FramesAre DEF Bit
  <2>3. Bit(m \in Entered(Begin)) = 0
    BY <1>2 DEF Bit
  <2> QED
    BY <2>1, <2>2, <2>3 DEF Bit
<1> QED
  BY <1>1, <1>2, <1>5, <1>6 DEF SearchInv

\* What a round does.
LEMMA RoundIs ==
  ASSUME NEW tree, TreeArrays(tree), NEW s \in SearchStates, s.stack # <<>>
  PROVE  LET node == Head(s.stack).node
             r == Round(tree, s)
         IN  /\ node \in Int /\ Head(s.stack) \in Frames /\ Tail(s.stack) \in Seq(Frames)
             /\ Head(s.stack).exiting =>
                  /\ Head(s.stack) = Exiting(node)
                  /\ r.stack = Tail(s.stack) /\ r.active = s.active \ {node}
                  /\ r.visited = s.visited \cup {node}
             /\ ~Head(s.stack).exiting /\ Enterable(tree, s, node) =>
                  /\ Head(s.stack) = Entering(node)
                  /\ node \in Nodes(tree) /\ node \notin Entered(s) /\ Marked(tree, node)
                  /\ r.stack = IF IsLeaf(tree, node) THEN Pushed(Exiting(node), Tail(s.stack))
                               ELSE <<Entering(tree.left[node]), Entering(tree.right[node])>>
                                      \o <<Exiting(node)>> \o Tail(s.stack)
                  /\ r.active = s.active \cup {node} /\ r.visited = s.visited
             /\ ~Head(s.stack).exiting /\ ~Enterable(tree, s, node) =>
                  Head(s.stack) = Entering(node) /\ r = s
<1> DEFINE node == Head(s.stack).node
           rest == Tail(s.stack)
           r == Round(tree, s)
           pushed == IF IsLeaf(tree, node) THEN Pushed(Exiting(node), rest)
                     ELSE <<Entering(tree.left[node]), Entering(tree.right[node])>>
                            \o <<Exiting(node)>> \o rest
<1>1. s.stack \in Seq(Frames) /\ s.active \in SUBSET Int /\ s.visited \in SUBSET Int
  BY DEF SearchStates
<1>2. Head(s.stack) \in Frames /\ rest \in Seq(Frames)
  BY <1>1, HeadTailProperties
<1>3. node \in Int /\ Head(s.stack) = IF Head(s.stack).exiting THEN Exiting(node) ELSE Entering(node)
  BY <1>2, FramesAre
<1>4. Head(s.stack).exiting =>
        r = [stack |-> rest, active |-> s.active \ {node}, visited |-> s.visited \cup {node}]
  BY DEF Round
<1>5. ASSUME ~Head(s.stack).exiting, Enterable(tree, s, node)
      PROVE  r = [stack |-> pushed, active |-> s.active \cup {node}, visited |-> s.visited]
  <2>1. CASE IsLeaf(tree, node)
    <3>1. r = [stack |-> <<>> \o <<Exiting(node)>> \o rest, active |-> s.active \cup {node}, visited |-> s.visited]
      BY <1>5, <2>1 DEF Round
    <3>2. <<>> \o <<Exiting(node)>> = <<Exiting(node)>>
      <4> DEFINE a == Exiting(node)
      <4>1. a \in Frames /\ <<a>> \in Seq(Frames)
        BY <1>3, FramesAre
      <4> HIDE DEF a
      <4>2. <<>> \o <<a>> = <<a>>
        BY <4>1, ConcatEmptySeq
      <4> QED
        BY <4>2 DEF a
    <3> QED
      BY <2>1, <3>1, <3>2 DEF Pushed
  <2>2. CASE ~IsLeaf(tree, node)
    BY <1>5, <2>2 DEF Round
  <2> QED
    BY <2>1, <2>2
<1>6. ~Head(s.stack).exiting /\ ~Enterable(tree, s, node) => r = s
  BY DEF Round
<1>7. Enterable(tree, s, node) => node \in Nodes(tree) /\ node \notin Entered(s) /\ Marked(tree, node)
  BY DEF Enterable, Entered, Marked
<1> HIDE DEF node, rest, r, pushed
<1>8. Head(s.stack).exiting =>
        /\ Head(s.stack) = Exiting(node)
        /\ r.stack = rest /\ r.active = s.active \ {node} /\ r.visited = s.visited \cup {node}
  BY <1>3, <1>4
<1>9. ~Head(s.stack).exiting /\ Enterable(tree, s, node) =>
        /\ Head(s.stack) = Entering(node)
        /\ r.stack = pushed /\ r.active = s.active \cup {node} /\ r.visited = s.visited
  BY <1>3, <1>5
<1>10. ~Head(s.stack).exiting /\ ~Enterable(tree, s, node) => Head(s.stack) = Entering(node) /\ r = s
  BY <1>3, <1>6
<1> QED
  BY <1>2, <1>3, <1>7, <1>8, <1>9, <1>10 DEF node, rest, r, pushed

\* A node is left.
LEMMA LeavingKeeps ==
  ASSUME NEW tree, TreeArrays(tree), NEW s, SearchInv(tree, s), s.stack # <<>>, Head(s.stack).exiting
  PROVE  /\ SearchInv(tree, Round(tree, s)) /\ Head(s.stack).node \in s.active
         /\ Entered(Round(tree, s)) = Entered(s)
<1> DEFINE node == Head(s.stack).node
           rest == Tail(s.stack)
           r == Round(tree, s)
<1>1. s \in SearchStates /\ s.stack \in Seq(Frames)
  BY DEF SearchInv, SearchStates
<1>2. /\ node \in Int /\ rest \in Seq(Frames) /\ Head(s.stack) = Exiting(node)
      /\ r.stack = rest /\ r.active = s.active \ {node} /\ r.visited = s.visited \cup {node}
  BY <1>1, RoundIs
<1>3. r \in SearchStates
  BY <1>1, RoundIsTyped
<1>4. \A x : /\ Count(s.stack, x) = Count(rest, x) + Bit(Head(s.stack) = x)
             /\ Count(rest, x) \in Nat
  <2> TAKE x
  <2>1. Count(s.stack, x) = Count(Tail(s.stack), x) + IF Head(s.stack) = x THEN 1 ELSE 0
    BY <1>1, CountHead
  <2>2. Count(rest, x) \in Nat
    <3> HIDE DEF rest
    <3> QED
      BY <1>2, CountIs
  <2> QED
    BY <2>1, <2>2 DEF Bit
<1> HIDE DEF node, rest, r
<1>5. node \in s.active
  <2>1. Count(s.stack, Exiting(node)) = Bit(node \in s.active)
    BY <1>2 DEF SearchInv
  <2>2. Count(s.stack, Exiting(node)) = Count(rest, Exiting(node)) + 1
    BY <1>2, <1>4 DEF Bit
  <2> QED
    BY <1>4, <2>1, <2>2 DEF Bit
<1>6. Entered(r) = Entered(s) /\ r.active \cap r.visited = {}
  BY <1>2, <1>5 DEF Entered, SearchInv
<1>7. ASSUME NEW m \in Int
      PROVE  Count(r.stack, Exiting(m)) = Bit(m \in r.active)
  <2>1. Count(s.stack, Exiting(m)) = Bit(m \in s.active)
    BY DEF SearchInv
  <2>2. Count(s.stack, Exiting(m)) = Count(rest, Exiting(m)) + Bit(node = m)
    BY <1>2, <1>4, FramesAre DEF Bit
  <2>3. Count(rest, Exiting(m)) \in Nat
    BY <1>4
  <2>4. m \in r.active <=> m \in s.active /\ m # node
    BY <1>2
  <2> QED
    BY <1>2, <1>5, <2>1, <2>2, <2>3, <2>4 DEF Bit
<1>8. ASSUME NEW m \in Int
      PROVE  Cardinality(ParentsIn(tree, Entered(r), m)) + Bit(m = 0)
               = Count(r.stack, Entering(m)) + Bit(m \in Entered(r))
  <2>1. Cardinality(ParentsIn(tree, Entered(s), m)) + Bit(m = 0)
          = Count(s.stack, Entering(m)) + Bit(m \in Entered(s))
    BY DEF SearchInv
  <2>2. Count(s.stack, Entering(m)) = Count(rest, Entering(m))
    BY <1>2, <1>4, FramesAre DEF Bit
  <2> QED
    BY <1>2, <1>6, <2>1, <2>2
<1>9. SearchInv(tree, r)
  BY <1>3, <1>6, <1>7, <1>8 DEF SearchInv
<1> QED
  BY <1>5, <1>6, <1>9 DEF node, r

\* A node is entered.
LEMMA EnteringKeeps ==
  ASSUME NEW tree, TreeArrays(tree), NEW s, SearchInv(tree, s), s.stack # <<>>,
         ~Head(s.stack).exiting, Enterable(tree, s, Head(s.stack).node)
  PROVE  /\ SearchInv(tree, Round(tree, s)) /\ Head(s.stack).node \notin Entered(s)
         /\ Entered(Round(tree, s)) = Entered(s) \cup {Head(s.stack).node}
<1> DEFINE node == Head(s.stack).node
           rest == Tail(s.stack)
           r == Round(tree, s)
           L == tree.left[node]
           R == tree.right[node]
<1>1. s \in SearchStates /\ s.stack \in Seq(Frames)
  BY DEF SearchInv, SearchStates
<1>2. /\ node \in Int /\ rest \in Seq(Frames) /\ Head(s.stack) = Entering(node)
      /\ node \in Nodes(tree) /\ node \notin Entered(s) /\ Marked(tree, node)
      /\ r.stack = IF IsLeaf(tree, node) THEN Pushed(Exiting(node), rest)
                   ELSE <<Entering(L), Entering(R)>> \o <<Exiting(node)>> \o rest
      /\ r.active = s.active \cup {node} /\ r.visited = s.visited
  BY <1>1, RoundIs
<1>3. r \in SearchStates
  BY <1>1, RoundIsTyped
<1>4. \A x : /\ Count(s.stack, x) = Count(rest, x) + Bit(Head(s.stack) = x)
             /\ Count(rest, x) \in Nat
  <2> TAKE x
  <2>1. Count(s.stack, x) = Count(Tail(s.stack), x) + IF Head(s.stack) = x THEN 1 ELSE 0
    BY <1>1, CountHead
  <2>2. Count(rest, x) \in Nat
    <3> HIDE DEF rest
    <3> QED
      BY <1>2, CountIs
  <2> QED
    BY <2>1, <2>2 DEF Bit
<1>5. L \in Int /\ R \in Int /\ (~IsLeaf(tree, node) => L # R)
  <2>1. L \in Int /\ R \in Int
    <3> HIDE DEF node
    <3> QED
      BY <1>2, TreeIs
  <2>2. ~IsLeaf(tree, node) => L # R
    BY <1>2 DEF Marked, SplitOk
  <2> QED
    BY <2>1, <2>2
<1>6. \A m : IsChild(tree, m, node) <=> ~IsLeaf(tree, node) /\ (m = L \/ m = R)
  BY DEF IsChild
<1> HIDE DEF node, rest, r, L, R
<1>7. \A x : Count(r.stack, x) = Count(rest, x) + Bit(Exiting(node) = x)
              + IF IsLeaf(tree, node) THEN 0 ELSE Bit(Entering(L) = x) + Bit(Entering(R) = x)
  <2> TAKE x
  <2>1. Exiting(node) \in Frames /\ Entering(L) \in Frames /\ Entering(R) \in Frames
    BY <1>2, <1>5, FramesAre
  <2>2. CASE IsLeaf(tree, node)
    <3>1. Count(Pushed(Exiting(node), rest), x) = Count(rest, x) + Bit(Exiting(node) = x)
      BY <1>2, <2>1, CountPushed DEF Bit
    <3>2. Bit(Exiting(node) = x) \in Nat
      BY DEF Bit
    <3> QED
      BY <1>2, <1>4, <2>2, <3>1, <3>2
  <2>3. CASE ~IsLeaf(tree, node)
    <3> DEFINE a == Entering(L)
               b == Entering(R)
               c == Exiting(node)
    <3>1. a \in Frames /\ b \in Frames /\ c \in Frames
      BY <2>1
    <3>2. r.stack = <<a, b>> \o <<c>> \o rest
      BY <1>2, <2>3
    <3> HIDE DEF a, b, c
    <3>3. Count(<<a, b>> \o <<c>> \o rest, x) =
            Count(rest, x) + (IF a = x THEN 1 ELSE 0) + (IF b = x THEN 1 ELSE 0) + (IF c = x THEN 1 ELSE 0)
      BY <1>2, <3>1, CountThree
    <3>4. Count(r.stack, x) = Count(rest, x) + Bit(c = x) + (Bit(a = x) + Bit(b = x))
      BY <1>4, <3>2, <3>3 DEF Bit
    <3> QED
      BY <2>3, <3>4 DEF a, b, c
  <2> QED
    BY <2>2, <2>3
<1>8. Entered(r) = Entered(s) \cup {node} /\ r.active \cap r.visited = {}
  BY <1>2 DEF Entered, SearchInv
<1>9. ASSUME NEW m \in Int
      PROVE  Count(r.stack, Exiting(m)) = Bit(m \in r.active)
  <2>1. Count(s.stack, Exiting(m)) = Bit(m \in s.active)
    BY DEF SearchInv
  <2>2. Count(s.stack, Exiting(m)) = Count(rest, Exiting(m))
    BY <1>2, <1>4, FramesAre DEF Bit
  <2>3. Count(r.stack, Exiting(m)) = Count(rest, Exiting(m)) + Bit(node = m)
    <3>1. /\ Bit(Exiting(node) = Exiting(m)) = Bit(node = m)
          /\ Bit(Entering(L) = Exiting(m)) = 0 /\ Bit(Entering(R) = Exiting(m)) = 0
      BY <1>2, <1>5, FramesAre DEF Bit
    <3>2. Count(rest, Exiting(m)) \in Nat /\ Bit(node = m) \in Nat
      BY <1>4 DEF Bit
    <3>3. Count(r.stack, Exiting(m)) = Count(rest, Exiting(m)) + Bit(node = m)
            + IF IsLeaf(tree, node) THEN 0 ELSE 0
      BY <1>7, <3>1
    <3> QED
      BY <3>2, <3>3
  <2>4. Count(rest, Exiting(m)) \in Nat
    BY <1>4
  <2>5. (m \in r.active <=> m \in s.active \/ m = node) /\ node \notin s.active
    BY <1>2 DEF Entered
  <2> QED
    BY <2>1, <2>2, <2>3, <2>4, <2>5 DEF Bit
<1>10. ASSUME NEW m \in Int
      PROVE  Cardinality(ParentsIn(tree, Entered(r), m)) + Bit(m = 0)
               = Count(r.stack, Entering(m)) + Bit(m \in Entered(r))
  <2>1. Cardinality(ParentsIn(tree, Entered(s), m)) + Bit(m = 0)
          = Count(s.stack, Entering(m)) + Bit(m \in Entered(s))
    BY DEF SearchInv
  <2>2. Count(s.stack, Entering(m)) = Count(rest, Entering(m)) + Bit(node = m)
    BY <1>2, <1>4, FramesAre DEF Bit
  <2>3. Count(r.stack, Entering(m)) = Count(rest, Entering(m)) + Bit(IsChild(tree, m, node))
    <3>1. /\ Bit(Exiting(node) = Entering(m)) = 0
          /\ Bit(Entering(L) = Entering(m)) = Bit(L = m) /\ Bit(Entering(R) = Entering(m)) = Bit(R = m)
      BY <1>2, <1>5, FramesAre DEF Bit
    <3>2. Count(r.stack, Entering(m)) = Count(rest, Entering(m))
            + IF IsLeaf(tree, node) THEN 0 ELSE Bit(L = m) + Bit(R = m)
      BY <1>4, <1>7, <3>1
    <3> QED
      BY <1>4, <1>5, <1>6, <3>2 DEF Bit
  <2>4. Count(rest, Entering(m)) \in Nat
    BY <1>4
  <2>5. IsFiniteSet(Entered(s))
    BY TreeIs, FS_Subset DEF SearchInv
  <2>6. /\ Cardinality(ParentsIn(tree, Entered(s), m)) \in Nat
        /\ Cardinality(ParentsIn(tree, Entered(s) \cup {node}, m))
             = Cardinality(ParentsIn(tree, Entered(s), m)) + Bit(IsChild(tree, m, node))
    BY <1>2, <2>5, ParentsGrow
  <2>7. Bit(m \in Entered(r)) = Bit(m \in Entered(s)) + Bit(node = m)
    BY <1>2, <1>8 DEF Bit
  <2>8. /\ Bit(m = 0) \in Nat /\ Bit(m \in Entered(s)) \in Nat
        /\ Bit(node = m) \in Nat /\ Bit(IsChild(tree, m, node)) \in Nat
    BY DEF Bit
  <2>9. Cardinality(ParentsIn(tree, Entered(r), m)) + Bit(m = 0)
           = (Cardinality(ParentsIn(tree, Entered(s), m)) + Bit(IsChild(tree, m, node))) + Bit(m = 0)
    BY <1>8, <2>6
  <2>10. Cardinality(ParentsIn(tree, Entered(s), m)) + Bit(m = 0)
           = (Count(rest, Entering(m)) + Bit(node = m)) + Bit(m \in Entered(s))
    BY <2>1, <2>2
  <2>11. (Cardinality(ParentsIn(tree, Entered(s), m)) + Bit(IsChild(tree, m, node))) + Bit(m = 0)
           = (Count(rest, Entering(m)) + Bit(IsChild(tree, m, node))) + (Bit(m \in Entered(s)) + Bit(node = m))
    <3> DEFINE c == Cardinality(ParentsIn(tree, Entered(s), m))
               z == Bit(m = 0)
               q == Count(rest, Entering(m))
               e == Bit(m \in Entered(s))
               n == Bit(node = m)
               k == Bit(IsChild(tree, m, node))
    <3>1. c \in Int /\ z \in Int /\ q \in Int /\ e \in Int /\ n \in Int /\ k \in Int
      BY <2>4, <2>6, <2>8
    <3>2. c + z = (q + n) + e
      BY <2>10
    <3> HIDE DEF c, z, q, e, n, k
    <3>3. (c + k) + z = (q + k) + (e + n)
      BY <3>1, <3>2
    <3> QED
      BY <3>3 DEF c, z, q, e, n, k
  <2> QED
    BY <2>3, <2>7, <2>9, <2>11
<1>11. Entered(r) \subseteq Nodes(tree) /\ \A n \in Entered(r) : Marked(tree, n)
  BY <1>2, <1>8 DEF SearchInv
<1>12. SearchInv(tree, r)
  BY <1>3, <1>8, <1>9, <1>10, <1>11 DEF SearchInv
<1> QED
  BY <1>2, <1>8, <1>12 DEF node, r

\* Every state of the search satisfies the invariant.
LEMMA SearchInvariant ==
  ASSUME NEW tree, TreeArrays(tree), NEW k \in Nat
  PROVE  SearchInv(tree, Search(tree)[k])
<1> DEFINE D == {s \in SearchStates : SearchInv(tree, s)}
           f == Search(tree)
<1>1. f[0] \in D
  BY SearchIs, SearchBegins DEF SearchInv
<1>2. ASSUME NEW i \in Nat \ {0}, f[i - 1] \in D
      PROVE  f[i] \in D
  <2> DEFINE s == f[i - 1]
  <2>1. SearchInv(tree, s) /\ s \in SearchStates
    BY <1>2
  <2>2. f[i] = Round(tree, s)
    <3>1. i - 1 \in Nat /\ (i - 1) + 1 = i
      OBVIOUS
    <3> QED
      BY <3>1, SearchIs
  <2> HIDE DEF s
  <2>3. CASE s.stack = <<>>
    BY <2>1, <2>2, <2>3 DEF Round
  <2>4. CASE s.stack # <<>> /\ Head(s.stack).exiting
    BY <2>1, <2>2, <2>4, LeavingKeeps DEF SearchInv
  <2>5. CASE s.stack # <<>> /\ ~Head(s.stack).exiting /\ Enterable(tree, s, Head(s.stack).node)
    BY <2>1, <2>2, <2>5, EnteringKeeps DEF SearchInv
  <2>6. CASE s.stack # <<>> /\ ~Head(s.stack).exiting /\ ~Enterable(tree, s, Head(s.stack).node)
    BY <2>1, <2>2, <2>6 DEF Round
  <2> QED
    BY <2>3, <2>4, <2>5, <2>6
<1>3. \A i \in Nat : f[i] \in D
  <2> HIDE DEF D, f
  <2> QED
    BY <1>1, <1>2, StaysIn
<1> QED
  BY <1>3

\* How far a search has come: a node counts once it is entered and again once it is left.
Effort(s) == Cardinality(s.active) + 2 * Cardinality(s.visited)

Stuck(tree, s) == ~Head(s.stack).exiting /\ ~Enterable(tree, s, Head(s.stack).node)

\* A round that is not stuck enters a node or leaves one.
LEMMA RoundAdvances ==
  ASSUME NEW tree, TreeArrays(tree), NEW s, SearchInv(tree, s), s.stack # <<>>, ~Stuck(tree, s)
  PROVE  /\ Effort(s) \in Nat
         /\ Effort(Round(tree, s)) = Effort(s) + 1
<1> DEFINE node == Head(s.stack).node
           r == Round(tree, s)
<1>1. s \in SearchStates /\ s.active \subseteq Nodes(tree) /\ s.visited \subseteq Nodes(tree)
  BY DEF SearchInv, Entered
<1>2. IsFiniteSet(s.active) /\ IsFiniteSet(s.visited)
  BY <1>1, TreeIs, FS_Subset
<1>3. Cardinality(s.active) \in Nat /\ Cardinality(s.visited) \in Nat
  BY <1>2, FS_CardinalityType
<1>4. CASE Head(s.stack).exiting
  <2>1. r.active = s.active \ {node} /\ r.visited = s.visited \cup {node}
    BY <1>1, <1>4, RoundIs
  <2>2. node \in s.active
    BY <1>4, LeavingKeeps
  <2>3. node \notin s.visited
    BY <2>2 DEF SearchInv
  <2> HIDE DEF node, r
  <2>4. /\ Cardinality(s.active \ {node}) = Cardinality(s.active) - 1
        /\ Cardinality(s.visited \cup {node}) = Cardinality(s.visited) + 1
    BY <1>2, <2>2, <2>3, FS_RemoveElement, FS_AddElement
  <2>5. Effort(r) = Effort(s) + 1 /\ Effort(s) \in Nat
    BY <1>3, <2>1, <2>4 DEF Effort
  <2> QED
    BY <2>5 DEF r
<1>5. CASE ~Head(s.stack).exiting /\ Enterable(tree, s, node)
  <2>1. r.active = s.active \cup {node} /\ r.visited = s.visited
    BY <1>1, <1>5, RoundIs
  <2>2. node \notin s.active
    BY <1>5 DEF Enterable
  <2> HIDE DEF node, r
  <2>4. Cardinality(s.active \cup {node}) = Cardinality(s.active) + 1
    BY <1>2, <2>2, FS_AddElement
  <2>5. Effort(r) = Effort(s) + 1 /\ Effort(s) \in Nat
    BY <1>3, <2>1, <2>4 DEF Effort
  <2> QED
    BY <2>5 DEF r
<1> QED
  BY <1>4, <1>5 DEF Stuck

\* A search that has neither ended nor failed has advanced in every round.
LEMMA SearchAdvances ==
  ASSUME NEW tree, TreeArrays(tree), NEW k \in Nat
  PROVE  LET s == Search(tree)[k]
         IN  s.stack = <<>> \/ Stuck(tree, s) \/ Effort(s) = k
<1> DEFINE f == Search(tree)
           over(i) == f[i].stack = <<>> \/ Stuck(tree, f[i])
           ok(i) == over(i) \/ Effort(f[i]) = i
           holds == [i \in Nat |-> IF ok(i) THEN 1 ELSE 0]
<1>1. ok(0)
  <2>1. f[0].active = {} /\ f[0].visited = {}
    BY SearchIs DEF Begin
  <2> HIDE DEF f
  <2>2. Effort(f[0]) = 0
    BY <2>1, FS_EmptySet DEF Effort
  <2> QED
    BY <2>2
<1>2. ASSUME NEW i \in Nat \ {0}, ok(i - 1)
      PROVE  ok(i)
  <2>1. i - 1 \in Nat /\ (i - 1) + 1 = i
    OBVIOUS
  <2>2. f[i] = Round(tree, f[i - 1]) /\ SearchInv(tree, f[i - 1])
    BY <2>1, SearchIs, SearchInvariant
  <2> HIDE DEF f
  <2>3. CASE over(i - 1)
    <3> DEFINE s == f[i - 1]
    <3>1. f[i] = Round(tree, s) /\ (s.stack = <<>> \/ Stuck(tree, s))
      BY <2>2, <2>3
    <3> HIDE DEF s
    <3>2. Round(tree, s) = s
      <4> HIDE DEF over, ok, holds
      <4> QED
        BY <3>1 DEF Stuck, Round
    <3>3. f[i].stack = <<>> \/ Stuck(tree, f[i])
      <4> HIDE DEF over, ok, holds
      <4> QED
        BY <3>1, <3>2
    <3> QED
      BY <3>3
  <2>4. CASE ~over(i - 1)
    <3>1. Effort(f[i - 1]) = i - 1
      BY <1>2, <2>4
    <3>2. f[i - 1].stack # <<>> /\ ~Stuck(tree, f[i - 1])
      BY <2>4
    <3>3. Effort(f[i]) = i
      BY <2>1, <2>2, <3>1, <3>2, RoundAdvances
    <3> QED
      BY <3>3
  <2> QED
    BY <2>3, <2>4
<1> HIDE DEF ok
<1>3. holds[0] \in {1}
  BY <1>1
<1>4. \A i \in Nat \ {0} : holds[i - 1] \in {1} => holds[i] \in {1}
  <2> TAKE i \in Nat \ {0}
  <2>1. i - 1 \in Nat /\ i \in Nat
    OBVIOUS
  <2>2. ok(i - 1) => ok(i)
    BY <1>2
  <2> QED
    BY <2>1, <2>2
<1>5. holds[k] \in {1}
  <2> DEFINE D == {1}
  <2>1. holds[0] \in D /\ \A i \in Nat \ {0} : holds[i - 1] \in D => holds[i] \in D
    BY <1>3, <1>4
  <2> HIDE DEF holds, D
  <2>2. \A i \in Nat : holds[i] \in D
    BY <2>1, StaysIn
  <2> QED
    BY <2>2 DEF D
<1>6. ok(k)
  BY <1>5
<1> QED
  BY <1>6 DEF ok

\* The parents among some of the nodes.
LEMMA ParentsAre ==
  ASSUME NEW tree, TreeArrays(tree), NEW E \in SUBSET Nodes(tree), NEW m
  PROVE  /\ Cardinality(ParentsIn(tree, E, m)) \in Nat
         /\ Cardinality(ParentsIn(tree, E, m)) = 0 <=> ParentsIn(tree, E, m) = {}
         /\ Cardinality(ParentsIn(tree, E, m)) <= Cardinality(ParentsIn(tree, Nodes(tree), m))
         /\ m \in Nodes(tree) => Parents(tree, m) = ParentsIn(tree, Nodes(tree), m)
<1> DEFINE some == ParentsIn(tree, E, m)
           all == ParentsIn(tree, Nodes(tree), m)
<1>1. some \subseteq all /\ all \subseteq Nodes(tree)
  BY DEF ParentsIn
<1>2. IsFiniteSet(Nodes(tree))
  BY TreeIs
<1>3. m \in Nodes(tree) => Parents(tree, m) = all
  <2> SUFFICES ASSUME m \in Nodes(tree) PROVE Parents(tree, m) = all
    OBVIOUS
  <2>1. m # Nil
    BY TreeIs DEF Nil
  <2> QED
    BY <2>1 DEF Parents, ParentsIn, IsChild, IsLeaf
<1> HIDE DEF some, all
<1>4. IsFiniteSet(all) /\ IsFiniteSet(some)
  BY <1>1, <1>2, FS_Subset
<1>5. Cardinality(some) \in Nat /\ Cardinality(some) <= Cardinality(all) /\ (Cardinality(some) = 0 <=> some = {})
  BY <1>1, <1>4, FS_CardinalityType, FS_Subset, FS_EmptySet
<1> QED
  BY <1>3, <1>5 DEF some, all

\* A node that waits to be entered is the root or has a parent that was entered.
LEMMA PendingIs ==
  ASSUME NEW tree, TreeArrays(tree), NEW s, SearchInv(tree, s), s.stack # <<>>, ~Head(s.stack).exiting
  PROVE  LET node == Head(s.stack).node
         IN  /\ node = 0 \/ \E p \in Entered(s) : IsChild(tree, node, p)
             /\ Cardinality(ParentsIn(tree, Entered(s), node)) + Bit(node = 0) >= 1 + Bit(node \in Entered(s))
<1> DEFINE node == Head(s.stack).node
<1>1. s \in SearchStates /\ s.stack \in Seq(Frames) /\ Entered(s) \subseteq Nodes(tree)
  BY DEF SearchInv, SearchStates
<1>2. Head(s.stack) = Entering(node) /\ node \in Int /\ Head(s.stack) \in Frames
  BY <1>1, HeadTailProperties, FramesAre
<1>3. Count(s.stack, Entering(node)) \in Nat /\ Count(s.stack, Entering(node)) >= 1
  <2>1. 1 \in DOMAIN s.stack /\ s.stack[1] = Head(s.stack)
    BY <1>1
  <2> HIDE DEF node
  <2>2. Count(s.stack, Entering(node)) \in Nat /\ Count(s.stack, Entering(node)) > 0
    BY <1>1, <1>2, <2>1, CountIs
  <2> QED
    BY <2>2
<1> HIDE DEF node
<1>4. Cardinality(ParentsIn(tree, Entered(s), node)) + Bit(node = 0)
        = Count(s.stack, Entering(node)) + Bit(node \in Entered(s))
  BY <1>2 DEF SearchInv
<1>5. /\ Cardinality(ParentsIn(tree, Entered(s), node)) \in Nat
      /\ Cardinality(ParentsIn(tree, Entered(s), node)) = 0 <=> ParentsIn(tree, Entered(s), node) = {}
  BY <1>1, ParentsAre
<1>6. Bit(node = 0) \in Nat /\ Bit(node \in Entered(s)) \in Nat /\ (node # 0 => Bit(node = 0) = 0)
  BY DEF Bit
<1>7. Cardinality(ParentsIn(tree, Entered(s), node)) + Bit(node = 0) >= 1 + Bit(node \in Entered(s))
  BY <1>3, <1>4, <1>5, <1>6
<1>8. node # 0 => ParentsIn(tree, Entered(s), node) # {}
  BY <1>5, <1>6, <1>7
<1>9. node = 0 \/ \E p \in Entered(s) : IsChild(tree, node, p)
  BY <1>8 DEF ParentsIn
<1> QED
  BY <1>7, <1>9 DEF node

\* What is accepted is a tree.
LEMMA AcceptedIsTree ==
  ASSUME NEW tree, TreeArrays(tree), Accepts(tree)
  PROVE  IsTree(tree)
<1> DEFINE s == Search(tree)[2 * Cardinality(Nodes(tree))]
<1>1. 2 * Cardinality(Nodes(tree)) \in Nat /\ IsFiniteSet(Nodes(tree))
  BY TreeIs
<1>2. SearchInv(tree, s) /\ s.stack = <<>> /\ s.visited = Nodes(tree)
  BY <1>1, SearchInvariant DEF Accepts
<1> HIDE DEF s
<1>3. \A x : Count(s.stack, x) = 0
  BY <1>2, CountEmpty
<1>4. s.active = {} /\ Entered(s) = Nodes(tree)
  <2>1. s.active \in SUBSET Int
    BY <1>2 DEF SearchInv, SearchStates
  <2>2. \A m \in Int : Bit(m \in s.active) = 0
    BY <1>2, <1>3 DEF SearchInv
  <2>3. s.active = {}
    BY <2>1, <2>2 DEF Bit
  <2> QED
    BY <1>2, <2>3 DEF Entered
<1>5. \A m \in Int : /\ Cardinality(ParentsIn(tree, Nodes(tree), m)) \in Nat
                     /\ Cardinality(ParentsIn(tree, Nodes(tree), m)) + Bit(m = 0) = Bit(m \in Nodes(tree))
  <2> TAKE m \in Int
  <2>1. Cardinality(ParentsIn(tree, Nodes(tree), m)) \in Nat
    BY ParentsAre
  <2>2. Cardinality(ParentsIn(tree, Nodes(tree), m)) + Bit(m = 0) = 0 + Bit(m \in Nodes(tree))
    BY <1>2, <1>3, <1>4 DEF SearchInv
  <2>3. Bit(m \in Nodes(tree)) \in Nat
    BY DEF Bit
  <2> QED
    BY <2>1, <2>2, <2>3
<1>6. ASSUME NEW n \in Nodes(tree)
      PROVE  ShapeOk(tree, n)
  <2>1. Marked(tree, n) /\ tree.left[n] \in Int /\ tree.right[n] \in Int
    BY <1>2, <1>4, TreeIs DEF SearchInv
  <2>2. CASE IsLeaf(tree, n)
    BY <2>1, <2>2 DEF Marked, ShapeOk
  <2>3. CASE ~IsLeaf(tree, n)
    <3>1. ASSUME NEW m \in Int, IsChild(tree, m, n)
          PROVE  m \in Nodes(tree)
      <4>1. ParentsIn(tree, Nodes(tree), m) # {}
        BY <3>1 DEF ParentsIn
      <4>2. Cardinality(ParentsIn(tree, Nodes(tree), m)) # 0
        BY <4>1, ParentsAre
      <4>3. Bit(m \in Nodes(tree)) # 0
        BY <1>5, <4>2 DEF Bit
      <4> QED
        BY <4>3 DEF Bit
    <3>2. tree.left[n] \in Nodes(tree) /\ tree.right[n] \in Nodes(tree)
      BY <2>1, <2>3, <3>1 DEF IsChild
    <3> QED
      BY <2>1, <2>3, <3>2 DEF Marked, SplitOk, ShapeOk
  <2> QED
    BY <2>2, <2>3
<1>7. ASSUME NEW n \in Nodes(tree)
      PROVE  Cardinality(Parents(tree, n)) = IF n = 0 THEN 0 ELSE 1
  <2>1. n \in Int
    BY TreeIs
  <2>2. Parents(tree, n) = ParentsIn(tree, Nodes(tree), n)
    <3> DEFINE E == Nodes(tree)
    <3>1. E \in SUBSET Nodes(tree)
      OBVIOUS
    <3> QED
      BY <3>1, ParentsAre
  <2> QED
    BY <1>5, <2>1, <2>2 DEF Bit
<1>8. ASSUME NEW S \in SUBSET Nodes(tree), ClosedDownwards(tree, S)
      PROVE  S = Nodes(tree)
  <2> DEFINE D == {t \in SearchStates : SearchInv(tree, t) /\ Entered(t) \subseteq S}
             f == Search(tree)
  <2>1. f[0] \in D
    <3>1. f[0] \in SearchStates /\ SearchInv(tree, f[0])
      BY SearchInvariant DEF SearchInv
    <3>2. Entered(f[0]) = {}
      BY SearchIs DEF Entered, Begin
    <3> HIDE DEF f
    <3> QED
      BY <3>1, <3>2
  <2>2. ASSUME NEW i \in Nat \ {0}, f[i - 1] \in D
        PROVE  f[i] \in D
    <3> DEFINE t == f[i - 1]
               node == Head(t.stack).node
    <3>1. SearchInv(tree, t) /\ t \in SearchStates /\ Entered(t) \subseteq S
      BY <2>2
    <3>2. f[i] = Round(tree, t) /\ SearchInv(tree, f[i]) /\ f[i] \in SearchStates
      <4>1. i - 1 \in Nat /\ (i - 1) + 1 = i /\ i \in Nat
        OBVIOUS
      <4> QED
        BY <4>1, SearchIs, SearchInvariant DEF SearchInv
    <3> HIDE DEF f, t
    <3>3. CASE t.stack = <<>>
      BY <3>1, <3>2, <3>3 DEF Round
    <3>4. CASE t.stack # <<>> /\ Head(t.stack).exiting
      BY <3>1, <3>2, <3>4, LeavingKeeps
    <3>5. CASE t.stack # <<>> /\ ~Head(t.stack).exiting /\ Enterable(tree, t, node)
      <4>1. node = 0 \/ \E p \in Entered(t) : IsChild(tree, node, p)
        BY <3>1, <3>5, PendingIs
      <4>2. node \in Nodes(tree)
        BY <3>5 DEF Enterable
      <4>3. node \in S
        BY <1>8, <3>1, <4>1, <4>2 DEF ClosedDownwards, IsChild
      <4>4. Entered(f[i]) = Entered(t) \cup {node}
        BY <3>1, <3>2, <3>5, EnteringKeeps
      <4> HIDE DEF node
      <4> QED
        BY <3>1, <3>2, <4>3, <4>4
    <3>6. CASE t.stack # <<>> /\ ~Head(t.stack).exiting /\ ~Enterable(tree, t, node)
      BY <3>1, <3>2, <3>6 DEF Round
    <3> QED
      BY <3>3, <3>4, <3>5, <3>6
  <2>3. \A i \in Nat : f[i] \in D
    <3> HIDE DEF D, f
    <3> QED
      BY <2>1, <2>2, StaysIn
  <2>4. Entered(s) \subseteq S
    BY <1>1, <2>3 DEF s
  <2> QED
    BY <1>4, <2>4
<1> QED
  BY <1>6, <1>7, <1>8 DEF IsTree

\* The search of a tree never fails.
LEMMA TreeNeverSticks ==
  ASSUME NEW tree, TreeArrays(tree), IsTree(tree), NEW s, SearchInv(tree, s), s.stack # <<>>
  PROVE  ~Stuck(tree, s)
<1> SUFFICES ASSUME ~Head(s.stack).exiting
             PROVE  Enterable(tree, s, Head(s.stack).node)
  BY DEF Stuck
<1> DEFINE node == Head(s.stack).node
<1>1. /\ node = 0 \/ \E p \in Entered(s) : IsChild(tree, node, p)
      /\ Cardinality(ParentsIn(tree, Entered(s), node)) + Bit(node = 0) >= 1 + Bit(node \in Entered(s))
  BY PendingIs
<1>2. Entered(s) \subseteq Nodes(tree)
  BY DEF SearchInv
<1> HIDE DEF node
<1>3. node \in Nodes(tree)
  <2>1. CASE node = 0
    BY <2>1, TreeIs
  <2>2. CASE \E p \in Entered(s) : IsChild(tree, node, p)
    <3>1. PICK p \in Entered(s) : IsChild(tree, node, p)
      BY <2>2
    <3>2. ShapeOk(tree, p)
      BY <1>2 DEF IsTree
    <3> QED
      BY <3>1, <3>2 DEF ShapeOk, IsChild
  <2> QED
    BY <1>1, <2>1, <2>2
<1>4. node \notin Entered(s)
  <2>1. Cardinality(ParentsIn(tree, Nodes(tree), node)) = IF node = 0 THEN 0 ELSE 1
    BY <1>3, ParentsAre DEF IsTree
  <2>2. /\ Cardinality(ParentsIn(tree, Entered(s), node)) \in Nat
        /\ Cardinality(ParentsIn(tree, Entered(s), node)) <= Cardinality(ParentsIn(tree, Nodes(tree), node))
    BY <1>2, ParentsAre
  <2>3. Bit(node \in Entered(s)) = 0
    <3>1. Bit(node \in Entered(s)) \in Nat /\ Bit(node = 0) = IF node = 0 THEN 1 ELSE 0
      BY DEF Bit
    <3> QED
      BY <1>1, <2>1, <2>2, <3>1
  <2> QED
    BY <2>3 DEF Bit
<1>5. IF IsLeaf(tree, node) THEN tree.feature[node] = LeafMarker ELSE SplitOk(tree, node)
  <2>1. ShapeOk(tree, node) /\ Nil \notin Nodes(tree)
    BY <1>3, TreeIs DEF IsTree, Nil
  <2> QED
    BY <2>1 DEF ShapeOk, IsLeaf, SplitOk
<1> QED
  BY <1>3, <1>4, <1>5 DEF Enterable, Entered, node

\* validate_tree comes to an end, whatever the arrays: after two rounds for every node
\* it has emptied its stack or raised an error (model.py:77-100).
THEOREM SearchEnds ==
  ASSUME NEW tree, TreeArrays(tree)
  PROVE  LET s == Search(tree)[2 * Cardinality(Nodes(tree))]
         IN  s.stack = <<>> \/ Stuck(tree, s)
<1> DEFINE size == Cardinality(Nodes(tree))
           s == Search(tree)[2 * size]
<1>1. size \in Nat \ {0} /\ 2 * size \in Nat /\ IsFiniteSet(Nodes(tree))
  BY TreeIs
<1>2. SearchInv(tree, s) /\ (s.stack = <<>> \/ Stuck(tree, s) \/ Effort(s) = 2 * size)
  <2> HIDE DEF size
  <2> QED
    BY <1>1, SearchInvariant, SearchAdvances
<1> HIDE DEF size, s
<1>3. s.active \subseteq Nodes(tree) /\ s.visited \subseteq Nodes(tree) /\ s.active \cap s.visited = {}
  BY <1>2 DEF SearchInv, Entered
<1>4. s.stack = <<>> \/ Stuck(tree, s)
  <2> SUFFICES ASSUME s.stack # <<>>, ~Stuck(tree, s) PROVE FALSE
    OBVIOUS
  <2>1. Effort(s) = 2 * size
    BY <1>2
  <2>2. IsFiniteSet(s.active) /\ IsFiniteSet(s.visited)
    BY <1>1, <1>3, FS_Subset
  <2>3. Cardinality(s.active) \in Nat /\ Cardinality(s.visited) \in Nat
    BY <2>2, FS_CardinalityType
  <2>4. Cardinality(s.active \cup s.visited) = Cardinality(s.active) + Cardinality(s.visited)
    <3>1. Cardinality(s.active \cup s.visited)
            = Cardinality(s.active) + Cardinality(s.visited) - Cardinality(s.active \cap s.visited)
      BY <2>2, FS_Union
    <3>2. Cardinality(s.active \cap s.visited) = 0
      BY <1>3, FS_EmptySet
    <3> QED
      BY <2>3, <3>1, <3>2
  <2>5. Cardinality(s.active \cup s.visited) <= size /\ Cardinality(s.visited) <= size
    <3>1. s.active \cup s.visited \in SUBSET Nodes(tree) /\ s.visited \in SUBSET Nodes(tree)
      BY <1>3
    <3> QED
      BY <1>1, <3>1, FS_Subset DEF size
  <2>6. Cardinality(s.visited) = size /\ Cardinality(s.active) = 0
    BY <1>1, <2>1, <2>3, <2>4, <2>5 DEF Effort
  <2>7. s.visited = Nodes(tree) /\ s.active = {}
    <3>1. s.active = {}
      BY <2>2, <2>6, FS_EmptySet
    <3>2. s.visited = Nodes(tree)
      BY <1>1, <1>3, <2>6, FS_Subset DEF size
    <3> QED
      BY <3>1, <3>2
  <2>8. CASE Head(s.stack).exiting
    BY <1>2, <2>7, <2>8, LeavingKeeps
  <2>9. CASE ~Head(s.stack).exiting
    BY <2>7, <2>9 DEF Stuck, Enterable
  <2> QED
    BY <2>8, <2>9
<1> QED
  BY <1>4 DEF s, size

\* A tree is accepted.
LEMMA TreeIsAccepted ==
  ASSUME NEW tree, TreeArrays(tree), IsTree(tree)
  PROVE  Accepts(tree)
<1> DEFINE size == Cardinality(Nodes(tree))
           s == Search(tree)[2 * size]
<1>1. size \in Nat \ {0} /\ 2 * size \in Nat /\ IsFiniteSet(Nodes(tree))
  BY TreeIs
<1>2. SearchInv(tree, s) /\ (s.stack = <<>> \/ Stuck(tree, s))
  <2>1. SearchInv(tree, s)
    <3> HIDE DEF size
    <3> QED
      BY <1>1, SearchInvariant
  <2> QED
    BY <2>1, SearchEnds
<1> HIDE DEF size, s
<1>3. s.active \subseteq Nodes(tree) /\ s.visited \subseteq Nodes(tree) /\ s.active \cap s.visited = {}
  BY <1>2 DEF SearchInv, Entered
<1>4. s.stack = <<>>
  BY <1>2, TreeNeverSticks
<1>5. \A x : Count(s.stack, x) = 0
  BY <1>4, CountEmpty
<1>6. Entered(s) = s.visited
  <2>1. s.active \in SUBSET Int
    BY <1>2 DEF SearchInv, SearchStates
  <2>2. \A m \in Int : Bit(m \in s.active) = 0
    BY <1>2, <1>5 DEF SearchInv
  <2>3. s.active = {}
    BY <2>1, <2>2 DEF Bit
  <2> QED
    BY <2>3 DEF Entered
<1>7. ASSUME NEW m \in Nodes(tree), m = 0 \/ ParentsIn(tree, s.visited, m) # {}
      PROVE  m \in s.visited
  <2>1. m \in Int
    BY TreeIs
  <2>2. Cardinality(ParentsIn(tree, s.visited, m)) + Bit(m = 0) = 0 + Bit(m \in s.visited)
    BY <1>2, <1>5, <1>6, <2>1 DEF SearchInv
  <2>3. /\ Cardinality(ParentsIn(tree, s.visited, m)) \in Nat
        /\ ParentsIn(tree, s.visited, m) # {} => Cardinality(ParentsIn(tree, s.visited, m)) # 0
    BY <1>3, ParentsAre
  <2>4. Bit(m \in s.visited) # 0
    BY <1>7, <2>2, <2>3 DEF Bit
  <2> QED
    BY <2>4 DEF Bit
<1>8. ClosedDownwards(tree, s.visited)
  <2>1. 0 \in s.visited
    BY <1>7, TreeIs
  <2>2. ASSUME NEW p \in s.visited, NEW m \in {tree.left[p], tree.right[p]} \cap Nodes(tree)
        PROVE  m \in s.visited
    <3>1. m # Nil
      BY TreeIs DEF Nil
    <3>2. p \in ParentsIn(tree, s.visited, m)
      BY <3>1 DEF ParentsIn, IsChild, IsLeaf
    <3> QED
      BY <1>7, <3>2
  <2> QED
    BY <2>1, <2>2 DEF ClosedDownwards
<1>9. s.visited = Nodes(tree)
  BY <1>3, <1>8 DEF IsTree
<1> QED
  BY <1>4, <1>9 DEF Accepts, s, size

--------------------------------------------------------------------------------
(* The walk of a row.                                                         *)

\* The walk is the iteration of its steps, and the steps stay among the nodes of a tree.
LEMMA WalkIs ==
  ASSUME NEW tree, TreeArrays(tree), NEW above
  PROVE  /\ Walk(tree, above)[0] = 0
         /\ \A k \in Nat : Walk(tree, above)[k + 1] = Descend(tree, above, Walk(tree, above)[k])
<1> DEFINE next == [n \in Int |-> Descend(tree, above, n)]
           Walks(f) == f = [k \in Nat |-> IF k = 0 THEN 0 ELSE Descend(tree, above, f[k - 1])]
<1>1. 0 \in Int
  OBVIOUS
<1>2. next \in [Int -> Int]
  <2>1. \A n \in Int : Descend(tree, above, n) \in Int
    BY TreeIs DEF Descend
  <2> QED
    BY <2>1
<1>3. PICK f : Iterates(f, 0, next)
  <2> HIDE DEF next
  <2> QED
    BY <1>1, <1>2, IterationExists
<1>4. \A k \in Nat : f[k] = IF k = 0 THEN 0 ELSE next[f[k - 1]]
  <2> HIDE DEF next
  <2> QED
    BY <1>3 DEF Iterates
<1>5. \A k \in Nat : f[k] \in Int
  <2> HIDE DEF next
  <2>1. f[0] \in Int
    BY <1>4
  <2>2. ASSUME NEW k \in Nat \ {0}, f[k - 1] \in Int
        PROVE  f[k] \in Int
    <3>1. f[k] = next[f[k - 1]]
      BY <1>4
    <3> QED
      BY <1>2, <2>2, <3>1
  <2> QED
    BY <2>1, <2>2, StaysIn
<1>6. Walks(f)
  <2>1. \A k \in Nat : k # 0 => k - 1 \in Nat
    OBVIOUS
  <2>2. \A k \in Nat : f[k] = IF k = 0 THEN 0 ELSE Descend(tree, above, f[k - 1])
    BY <1>4, <1>5, <2>1
  <2>3. f = [k \in Nat |-> f[k]]
    <3> HIDE DEF next
    <3> QED
      BY <1>3 DEF Iterates
  <2> QED
    BY <2>2, <2>3
<1>7. Walk(tree, above) = CHOOSE g : Walks(g)
  BY DEF Walk
<1>8. Walks(Walk(tree, above))
  <2> HIDE DEF Walks
  <2> QED
    BY <1>6, <1>7
<1>9. \A k \in Nat : Walk(tree, above)[k] = IF k = 0 THEN 0 ELSE Descend(tree, above, Walk(tree, above)[k - 1])
  <2> DEFINE g == Walk(tree, above)
  <2>1. Walks(g)
    BY <1>8
  <2> HIDE DEF g
  <2>2. \A k \in Nat : g[k] = IF k = 0 THEN 0 ELSE Descend(tree, above, g[k - 1])
    BY <2>1
  <2> QED
    BY <2>2 DEF g
<1>10. \A k \in Nat : k + 1 \in Nat /\ k + 1 # 0 /\ (k + 1) - 1 = k
  OBVIOUS
<1> QED
  BY <1>9, <1>10

\* A step ends in a leaf, or goes to a child.
LEMMA DescendIs ==
  ASSUME NEW tree, TreeArrays(tree), IsTree(tree), NEW above, NEW n \in Nodes(tree)
  PROVE  LET m == Descend(tree, above, n)
         IN  /\ m \in Nodes(tree)
             /\ IsLeaf(tree, n) => m = n
             /\ ~IsLeaf(tree, n) => n \in Parents(tree, m)
<1>1. ShapeOk(tree, n) /\ Nil \notin Nodes(tree)
  BY TreeIs DEF IsTree, Nil
<1>2. CASE IsLeaf(tree, n)
  BY <1>2 DEF Descend, IsLeaf
<1>3. CASE ~IsLeaf(tree, n)
  <2>1. tree.left[n] \in Nodes(tree) /\ tree.right[n] \in Nodes(tree)
    BY <1>1, <1>3 DEF ShapeOk
  <2>2. Descend(tree, above, n) \in {tree.left[n], tree.right[n]}
    BY <1>1, <2>1 DEF Descend
  <2> QED
    BY <1>3, <2>1, <2>2 DEF Parents
<1> QED
  BY <1>2, <1>3

\* The steps of a walk.
LEMMA WalkStaysInTree ==
  ASSUME NEW tree, TreeArrays(tree), IsTree(tree), NEW above
  PROVE  \A k \in Nat : /\ Walk(tree, above)[k] \in Nodes(tree)
                        /\ Walk(tree, above)[k + 1] = Descend(tree, above, Walk(tree, above)[k])
<1> DEFINE w == Walk(tree, above)
<1>1. w[0] = 0 /\ 0 \in Nodes(tree) /\ \A k \in Nat : w[k + 1] = Descend(tree, above, w[k])
  BY WalkIs, TreeIs
<1> HIDE DEF w
<1>2. ASSUME NEW k \in Nat \ {0}, w[k - 1] \in Nodes(tree)
      PROVE  w[k] \in Nodes(tree)
  <2>1. k - 1 \in Nat /\ (k - 1) + 1 = k
    OBVIOUS
  <2>2. w[k] = Descend(tree, above, w[k - 1])
    BY <1>1, <2>1
  <2> QED
    BY <1>2, <2>2, DescendIs
<1>3. \A k \in Nat : w[k] \in Nodes(tree)
  BY <1>1, <1>2, StaysIn
<1> QED
  BY <1>1, <1>3 DEF w

\* A walk that has found no leaf has not met a node twice.
LEMMA WalkMeetsNoNodeTwice ==
  ASSUME NEW tree, TreeArrays(tree), IsTree(tree), NEW above, NEW n \in Nat,
         \A k \in 0 .. n : ~IsLeaf(tree, Walk(tree, above)[k]),
         NEW i \in 0 .. n, NEW j \in 0 .. n, i < j
  PROVE  Walk(tree, above)[i] # Walk(tree, above)[j]
<1> DEFINE w == Walk(tree, above)
<1>1. /\ w[0] = 0
      /\ \A k \in Nat : w[k] \in Nodes(tree) /\ w[k + 1] = Descend(tree, above, w[k])
  BY WalkIs, WalkStaysInTree
<1>2. \A k \in 0 .. n : ~IsLeaf(tree, w[k])
  OBVIOUS
<1> HIDE DEF w
<1>3. ASSUME NEW k \in 1 .. n
      PROVE  k - 1 \in 0 .. n /\ w[k - 1] \in Parents(tree, w[k])
  <2>1. k - 1 \in Nat /\ k - 1 \in 0 .. n /\ (k - 1) + 1 = k
    OBVIOUS
  <2> QED
    BY <1>1, <1>2, <2>1, DescendIs
<1>4. \A m \in Nodes(tree) : /\ m = 0 => Parents(tree, m) = {}
                             /\ m # 0 => \E p : Parents(tree, m) = {p}
  <2> TAKE m \in Nodes(tree)
  <2>1. Cardinality(Parents(tree, m)) = IF m = 0 THEN 0 ELSE 1
    BY DEF IsTree
  <2>2. IsFiniteSet(Parents(tree, m))
    BY TreeIs, FS_Subset DEF Parents
  <2> QED
    BY <2>1, <2>2, FS_EmptySet, FS_Singleton
<1> DEFINE again == {k \in 0 .. n : \E l \in 0 .. n : k < l /\ w[k] = w[l]}
<1>5. again = {}
  <2> SUFFICES ASSUME again # {} PROVE FALSE
    OBVIOUS
  <2>1. PICK k \in again : \A l \in again : k <= l
    <3>1. again \in SUBSET Nat
      OBVIOUS
    <3> HIDE DEF again
    <3> QED
      BY <3>1, LeastElement
  <2>2. PICK l \in 0 .. n : k < l /\ w[k] = w[l]
    BY <2>1
  <2>3. k \in Nat /\ k \in 0 .. n /\ l \in 1 .. n
    BY <2>1, <2>2
  <2>4. w[l - 1] \in Parents(tree, w[l]) /\ l - 1 \in 0 .. n
    BY <1>3, <2>3
  <2>5. CASE k = 0
    <3>1. w[l] = 0 /\ w[l] \in Nodes(tree)
      BY <1>1, <2>2, <2>3, <2>5
    <3> QED
      BY <1>4, <2>4, <3>1
  <2>6. CASE k # 0
    <3>1. k \in 1 .. n /\ k - 1 < l - 1 /\ ~(k <= k - 1)
      BY <2>2, <2>3, <2>6
    <3>2. w[k - 1] \in Parents(tree, w[l]) /\ k - 1 \in 0 .. n
      BY <1>3, <2>2, <3>1
    <3>3. w[l] \in Nodes(tree)
      BY <1>1, <2>3
    <3>4. w[k - 1] = w[l - 1]
      BY <1>4, <2>4, <3>2, <3>3
    <3>5. k - 1 \in again
      BY <2>4, <3>1, <3>2, <3>4
    <3> HIDE DEF again
    <3> QED
      BY <2>1, <3>1, <3>5
  <2> QED
    BY <2>5, <2>6
<1>6. w[i] # w[j]
  BY <1>5
<1> QED
  BY <1>6 DEF w

\* A walk that has found a leaf stays there.
LEMMA WalkStaysInLeaf ==
  ASSUME NEW tree, TreeArrays(tree), IsTree(tree), NEW above, NEW n \in Nat, NEW k \in 0 .. n,
         IsLeaf(tree, Walk(tree, above)[k])
  PROVE  IsLeaf(tree, Walk(tree, above)[n])
<1> DEFINE w == Walk(tree, above)
           D == {m \in Nodes(tree) : IsLeaf(tree, m)}
           f == [i \in Nat |-> w[k + i]]
<1>1. \A i \in Nat : w[i] \in Nodes(tree) /\ w[i + 1] = Descend(tree, above, w[i])
  BY WalkStaysInTree
<1>2. f[0] \in D
  <2>1. f[0] = w[k] /\ k \in Nat
    OBVIOUS
  <2> QED
    BY <1>1, <2>1
<1> HIDE DEF w
<1>3. ASSUME NEW i \in Nat \ {0}, f[i - 1] \in D
      PROVE  f[i] \in D
  <2>1. i - 1 \in Nat /\ k + (i - 1) \in Nat /\ (k + (i - 1)) + 1 = k + i
    OBVIOUS
  <2>2. f[i] = Descend(tree, above, f[i - 1])
    BY <1>1, <2>1
  <2> HIDE DEF f
  <2> QED
    BY <1>3, <2>2, DescendIs
<1>4. \A i \in Nat : f[i] \in D
  <2> HIDE DEF f, D
  <2> QED
    BY <1>2, <1>3, StaysIn
<1>5. f[n - k] = w[n] /\ n - k \in Nat
  OBVIOUS
<1> HIDE DEF f
<1>6. IsLeaf(tree, w[n])
  BY <1>4, <1>5
<1> QED
  BY <1>6 DEF w

\* Every walk through a tree ends in a leaf.
LEMMA WalkEndsInLeaf ==
  ASSUME NEW tree, TreeArrays(tree), IsTree(tree), NEW above
  PROVE  LeafOf(tree, above) \in Nodes(tree) /\ IsLeaf(tree, LeafOf(tree, above))
<1> DEFINE w == Walk(tree, above)
           size == Cardinality(Nodes(tree))
<1>1. size \in Nat /\ IsFiniteSet(Nodes(tree))
  BY TreeIs
<1>2. \A k \in Nat : w[k] \in Nodes(tree)
  BY WalkStaysInTree
<1>3. LeafOf(tree, above) = w[size]
  BY DEF LeafOf
<1>4. IsLeaf(tree, w[size])
  <2> SUFFICES ASSUME ~IsLeaf(tree, w[size]) PROVE FALSE
    OBVIOUS
  <2> DEFINE f == [k \in 0 .. size |-> w[k]]
  <2> HIDE DEF size
  <2>1. \A k \in 0 .. size : ~IsLeaf(tree, w[k])
    BY <1>1, WalkStaysInLeaf
  <2>2. \A i, j \in 0 .. size : i < j => w[i] # w[j]
    BY <1>1, <2>1, WalkMeetsNoNodeTwice
  <2> HIDE DEF w
  <2>3. f \in [0 .. size -> Nodes(tree)]
    BY <1>2
  <2>4. IsFiniteSet(0 .. size) /\ Cardinality(0 .. size) = size + 1
    BY <1>1, FS_Interval
  <2>5. Cardinality(Nodes(tree)) < Cardinality(0 .. size)
    BY <1>1, <2>4 DEF size
  <2>6. \E i, j \in 0 .. size : i # j /\ f[i] = f[j]
    <3> HIDE DEF f
    <3> QED
      BY <1>1, <2>3, <2>4, <2>5, FS_PigeonHole
  <2>7. PICK i \in 0 .. size, j \in 0 .. size : i # j /\ w[i] = w[j]
    BY <2>6
  <2>8. i < j \/ j < i
    BY <1>1, <2>7
  <2> QED
    BY <2>2, <2>7, <2>8
<1> QED
  BY <1>1, <1>2, <1>3, <1>4

--------------------------------------------------------------------------------
(* The invariant and the theorems.                                            *)

\* The model directory holds what training put there, and a band that was
\* published is one.
PolicyInv ==
    /\ data \in Cases /\ policy \in Policies
    /\ model # None =>
         /\ model.config \in DOMAIN data.fitted
         /\ model.threshold \in 0 .. One
         /\ model.portable \in Seq(ScoredRows)
    /\ band # None => ValidBand(band)
    /\ LockedThresholdIsBest
    /\ SweepFindsBestBand
    /\ ApprovalIsEarned

\* The partitions of the files on disk are scored rows.
LEMMA LockedCases ==
  ASSUME data \in Cases, NEW config \in DOMAIN data.fitted
  PROVE  data.fitted[config] \in [Candidates -> Seq(ScoredRows)]
BY PolicyAssumption

\* Training locks the threshold of the winner.
LEMMA TrainStep ==
  ASSUME PolicyInv, NEW config, Train(config)
  PROVE  PolicyInv'
<1>1. /\ config \in DOMAIN data.fitted /\ data' = data /\ policy' = policy /\ band' = band
      /\ comparison' = comparison /\ sweepError' = sweepError
  BY DEF Train
<1> DEFINE fitted == data.fitted[config]
           w == SelectCandidate(fitted)
           own == fitted[w.name]
<1>2. model'.config = config /\ model'.name = w.name /\ model'.threshold = w.metrics.threshold
  BY DEF Train
<1>3. fitted \in [Candidates -> Seq(ScoredRows)]
  BY <1>1, LockedCases DEF PolicyInv
<1>4. w.name \in Candidates /\ w.metrics = SelectThreshold(own) /\ own \in Seq(ScoredRows)
  BY <1>3, SelectedCandidate
<1>5. w.metrics = ThresholdMetrics(own, w.metrics.threshold) /\ w.metrics.threshold \in 0 .. One
  BY <1>4, SelectedThreshold, MetricsAreTyped
<1>6. \A c \in Candidates, t \in 0 .. One :
        ~Precedes(Costs(ThresholdMetrics(fitted[c], t)), Costs(ThresholdMetrics(own, w.metrics.threshold)))
  BY <1>3, <1>5, WinnerCostsLeast
<1>7. \A t \in ScoresOf(own) \cup {One} :
        Flagged(own, t) = Flagged(own, w.metrics.threshold) => t <= w.metrics.threshold
  BY <1>4, HighestIsLocked DEF Tried
<1>8. LockedThresholdIsBest'
  <2>1. /\ model'.config = config /\ data'.fitted[model'.config] = fitted
        /\ fitted[model'.name] = own /\ model'.threshold = w.metrics.threshold
    BY <1>1, <1>2
  <2>2. SUFFICES
          /\ \A c \in Candidates, t \in 0 .. One :
               ~Precedes(Costs(ThresholdMetrics(data'.fitted[model'.config][c], t)),
                         Costs(ThresholdMetrics(data'.fitted[model'.config][model'.name], model'.threshold)))
          /\ \A t \in ScoresOf(data'.fitted[model'.config][model'.name]) \cup {One} :
               Flagged(data'.fitted[model'.config][model'.name], t)
                 = Flagged(data'.fitted[model'.config][model'.name], model'.threshold)
               => t <= model'.threshold
    BY DEF LockedThresholdIsBest, Costs
  <2> HIDE DEF fitted, own, w
  <2> QED
    BY <1>6, <1>7, <2>1
<1>9. ApprovalIsEarned' /\ SweepFindsBestBand'
  BY <1>1 DEF PolicyInv, ApprovalIsEarned, SweepFindsBestBand
<1>10. model'.portable \in Seq(ScoredRows)
  <2>1. PICK error \in Roundings : model'.portable = PortableScores(own, error)
    BY DEF Train
  <2>2. \A i \in DOMAIN own : error[i] \in Int
    BY <1>1, <1>4, PolicyAssumption DEF PolicyInv
  <2> HIDE DEF own
  <2> QED
    BY <1>4, <2>1, <2>2, PortableScoresAre
<1> QED
  BY <1>1, <1>2, <1>5, <1>8, <1>9, <1>10 DEF PolicyInv

\* A band is fitted over the rows that the model gave, under the policy of the moment.
LEMMA FitStep ==
  ASSUME PolicyInv, FitPolicyBand
  PROVE  PolicyInv'
<1> DEFINE batch == model.portable
           costs == policy.costs
           g == policy.gridSize
           t == model.threshold
           fit == SelectBand(batch, costs, g, {t})
           outcome == EvaluateBand(batch, fit, costs)
           incumbent == EvaluateBand(batch, SingleThreshold(t), costs)
           published == [lower |-> fit.lower, upper |-> fit.upper, outcome |-> outcome,
                         incumbent |-> incumbent, model |-> model, policy |-> policy]
<1>1. /\ UNCHANGED <<data, policy, model, comparison>> /\ model # None
      /\ sweepError' = ~(ValidBand(fit) /\ outcome.cost = fit.cost)
      /\ band' = IF sweepError' THEN None ELSE published
  BY DEF FitPolicyBand
<1>2. batch \in Seq(ScoredRows) /\ costs \in CostUnits /\ g \in Nat \ {0, 1} /\ t \in 0 .. One
  BY <1>1, PolicyAssumption DEF PolicyInv, CostUnits
<1> DEFINE K == ToSet(SweepCandidates(batch, g, {t}))
           Key(l, u) == OutcomeKey(EvaluateBand(batch, [lower |-> l, upper |-> u], costs), l, u)
<1> HIDE DEF batch, costs, g, t
<1>3. /\ ValidBand(fit)
      /\ outcome.cost = fit.cost
      /\ outcome.cost <= incumbent.cost
      /\ \A l \in K, u \in K : l <= u => ~Precedes(Key(l, u), Key(fit.lower, fit.upper))
      /\ t \in K
      /\ Cardinality(Tried(batch)) <= g =>
           \A l \in 0 .. One, u \in 0 .. One : l <= u => Key(l, u)[1] >= Key(fit.lower, fit.upper)[1]
  BY <1>2, SelectedIsBest
<1> HIDE DEF fit, outcome, incumbent
<1>4. sweepError' = FALSE /\ band' = published
  BY <1>1, <1>3
<1>5. /\ band'.lower = fit.lower /\ band'.upper = fit.upper /\ band'.outcome = outcome
      /\ band'.incumbent = incumbent /\ band'.model = model /\ band'.policy = policy
  BY <1>4
<1>6. /\ band'.model.portable = batch /\ band'.model.threshold = t
      /\ band'.policy.costs = costs /\ band'.policy.gridSize = g
  BY <1>5 DEF batch, costs, g, t
<1>7. K \cup {t} = K
  BY <1>3
<1> HIDE DEF published, K
<1>8. SweepFindsBestBand'
  <2> DEFINE nb == band'.model.portable
             nc == band'.policy.costs
             ng == band'.policy.gridSize
             nt == band'.model.threshold
             nl == band'.lower
             nu == band'.upper
             NKey(l, u) == OutcomeKey(EvaluateBand(nb, [lower |-> l, upper |-> u], nc), l, u)
             grid == ToSet(SweepCandidates(nb, ng, {nt})) \cup {nt}
  <2>1. SUFFICES
          /\ ~sweepError'
          /\ \A l \in grid, u \in grid : l <= u => ~Precedes(NKey(l, u), NKey(nl, nu))
          /\ band'.outcome.cost <= band'.incumbent.cost
          /\ Cardinality(Tried(nb)) <= ng =>
               \A l \in 0 .. One, u \in 0 .. One : l <= u => NKey(l, u)[1] >= NKey(nl, nu)[1]
    BY DEF SweepFindsBestBand, FirstOfItsCandidates, OutcomeKey, Tried
  <2>2. nb = batch /\ nc = costs /\ ng = g /\ nt = t /\ nl = fit.lower /\ nu = fit.upper
    BY <1>5, <1>6
  <2>3. grid = K
    BY <1>7, <2>2 DEF K
  <2>4. \A l, u : NKey(l, u) = Key(l, u)
    BY <2>2
  <2> HIDE DEF NKey, Key, grid, nb, ng, nl, nu
  <2> QED
    BY <1>3, <1>4, <1>5, <2>2, <2>3, <2>4
<1>9. ValidBand(band')
  BY <1>3, <1>5 DEF ValidBand
<1>10. LockedThresholdIsBest' /\ ApprovalIsEarned'
  BY <1>1 DEF PolicyInv, LockedThresholdIsBest, ApprovalIsEarned
<1> QED
  BY <1>1, <1>8, <1>9, <1>10 DEF PolicyInv, ValidBand

\* An approval is granted by the band that loads, under the policy of the moment.
LEMMA ValidateStep ==
  ASSUME PolicyInv, NEW batch \in Batches, NEW shared, NEW approve \in BOOLEAN,
         ValidatePolicy(batch, shared, approve)
  PROVE  PolicyInv'
<1>1. /\ UNCHANGED <<data, policy, model, band, sweepError>> /\ model # None /\ band # None
      /\ band.policy = policy /\ band.model = model /\ shared = {}
  BY DEF ValidatePolicy, BandLoads, FreshBatch
<1> DEFINE incumbent == EvaluateBand(batch, SingleThreshold(model.threshold), policy.costs)
           banded == EvaluateBand(batch, [lower |-> band.lower, upper |-> band.upper], policy.costs)
           failed == FailedGates(incumbent, banded, policy)
<1>2. comparison' = [batch |-> batch, shared |-> shared, policy |-> policy, model |-> model,
                     band |-> band, failed |-> failed, granted |-> approve /\ failed = {}]
  BY DEF ValidatePolicy
<1> HIDE DEF incumbent, banded, failed
<1>3. /\ comparison'.batch = batch /\ comparison'.shared = {} /\ comparison'.policy = policy
      /\ comparison'.model = model /\ comparison'.band = band
      /\ comparison'.granted => failed = {}
  BY <1>1, <1>2
<1>4. /\ batch \in Seq(ScoredRows) /\ policy \in PolicyType /\ model.threshold \in Int
      /\ band.lower \in Int /\ band.upper \in Int /\ band.lower <= band.upper
  BY <1>1, PolicyAssumption DEF PolicyInv, PolicyType, ValidBand
<1>5. ASSUME failed = {}
      PROVE  EarnedOn(batch, policy, model.threshold, band.lower, band.upper)
  <2>1. PassesGates(batch, policy, model.threshold, band.lower, band.upper)
    BY <1>5 DEF PassesGates, failed, incumbent, banded
  <2> QED
    BY <1>4, <2>1, GatesAreEarned
<1>6. \A b, t : DeniedLive(b, t) = Flagged(b, t) /\ AtLeast(b, t) = Flagged(b, t)
  BY DEF Flagged, Classify, DeniedLive, AtLeast
<1>7. ApprovalIsEarned'
  <2> SUFFICES ASSUME comparison'.granted
               PROVE  LET c == comparison'
                      IN  /\ c.band.policy = c.policy /\ c.band.model = c.model /\ c.shared = {}
                          /\ EarnedOn(c.batch, c.policy, c.model.threshold, c.band.lower, c.band.upper)
    <3> DEFINE cb == comparison'.batch
               ct == comparison'.model.threshold
               cl == comparison'.band.lower
               cu == comparison'.band.upper
               cp == comparison'.policy
    <3>1. DeniedLive(cb, ct) = Flagged(cb, ct) /\ AtLeast(cb, cl) = Flagged(cb, cl) /\ AtLeast(cb, cu) = Flagged(cb, cu)
      BY <1>6
    <3>2. ASSUME EarnedOn(cb, cp, ct, cl, cu)
          PROVE  /\ CostOf(cb, cp.costs, AtLeast(cb, cl), AtLeast(cb, cu))
                      < CostOf(cb, cp.costs, DeniedLive(cb, ct), DeniedLive(cb, ct))
                 /\ 20000 * Cardinality(AtLeast(cb, cu) \cap Legitimate(cb))
                      < (2 * cp.ceiling + 1) * Cardinality(Legitimate(cb))
                 /\ Len(cb) >= cp.minimumRows /\ Cardinality(Attacks(cb)) >= cp.minimumAttacks
      <4> HIDE DEF cb, ct, cl, cu, cp
      <4> QED
        BY <3>1, <3>2 DEF EarnedOn
    <3> QED
      BY <3>2 DEF ApprovalIsEarned
  <2>1. failed = {}
    BY <1>3
  <2> QED
    BY <1>1, <1>3, <1>5, <2>1
<1>8. LockedThresholdIsBest' /\ SweepFindsBestBand'
  BY <1>1 DEF PolicyInv, LockedThresholdIsBest, SweepFindsBestBand
<1> QED
  BY <1>1, <1>7, <1>8 DEF PolicyInv, ValidBand

\* A step that leaves the model, the band and the comparison as they are or removes them.
LEMMA KeptOrRemoved ==
  ASSUME PolicyInv, data' = data, policy' \in Policies, sweepError' = sweepError,
         model' = model \/ model' = None, band' = band \/ band' = None,
         comparison' = comparison \/ comparison' = None
  PROVE  PolicyInv'
<1>1. LockedThresholdIsBest'
  <2>1. CASE model' = None
    BY <2>1 DEF LockedThresholdIsBest
  <2>2. CASE model' = model
    BY <2>2 DEF PolicyInv, LockedThresholdIsBest
  <2> QED
    BY <2>1, <2>2
<1>2. SweepFindsBestBand'
  BY DEF PolicyInv, SweepFindsBestBand
<1>3. ApprovalIsEarned'
  <2>1. CASE comparison' = None
    BY <2>1 DEF ApprovalIsEarned
  <2>2. CASE comparison' = comparison
    BY <2>2 DEF PolicyInv, ApprovalIsEarned
  <2> QED
    BY <2>1, <2>2
<1>4. /\ model' # None =>
           /\ model'.config \in DOMAIN data'.fitted
           /\ model'.threshold \in 0 .. One
           /\ model'.portable \in Seq(ScoredRows)
      /\ band' # None => ValidBand(band')
      /\ data' \in Cases /\ policy' \in Policies
  BY DEF PolicyInv
<1> QED
  BY <1>1, <1>2, <1>3, <1>4 DEF PolicyInv, ValidBand

\* Every step keeps the invariant.
LEMMA PolicyStep ==
  ASSUME PolicyInv, [Next]_vars
  PROVE  PolicyInv'
<1>1. CASE RemoveDirectory
  BY <1>1, KeptOrRemoved DEF RemoveDirectory, PolicyInv
<1>2. CASE EditPolicy
  BY <1>2, KeptOrRemoved DEF EditPolicy
<1>3. CASE \E config \in ModelingConfigs : Train(config)
  BY <1>3, TrainStep
<1>4. CASE Evaluate
  BY <1>4, KeptOrRemoved DEF Evaluate, PolicyInv
<1>5. CASE FitPolicyBand
  BY <1>5, FitStep
<1>6. CASE \E batch \in Batches, shared \in SUBSET Identities, approve \in BOOLEAN :
             ValidatePolicy(batch, shared, approve)
  BY <1>6, ValidateStep
<1>7. CASE UNCHANGED vars
  BY <1>7, KeptOrRemoved DEF vars, PolicyInv
<1> QED
  BY <1>1, <1>2, <1>3, <1>4, <1>5, <1>6, <1>7 DEF Next

\* What the model, the band and the comparison show holds in every state.
THEOREM PolicyInvariantHolds == Spec => []PolicyInv
<1>1. Init => PolicyInv
  BY DEF Init, PolicyInv, LockedThresholdIsBest, SweepFindsBestBand,
          ApprovalIsEarned
<1>2. PolicyInv /\ [Next]_vars => PolicyInv'
  BY PolicyStep
<1> QED
  BY <1>1, <1>2, PTL DEF Spec

\* A granted approval belongs to the model and the policy of the band it was granted
\* to, and the band costs less than the live rule within the ceiling, on any batch
\* and under any policy (policy_ops.py:165-251).
THEOREM ApprovalsAreEarned == Spec => []ApprovalIsEarned
<1>1. PolicyInv => ApprovalIsEarned
  BY DEF PolicyInv
<1> QED
  BY <1>1, PolicyInvariantHolds, PTL

\* The locked threshold is the cheapest of both candidates', over every partition
\* and every threshold between 0 and 1 (metrics.py:74-99).
THEOREM LockedIsBest == Spec => []LockedThresholdIsBest
<1>1. PolicyInv => LockedThresholdIsBest
  BY DEF PolicyInv
<1> QED
  BY <1>1, PolicyInvariantHolds, PTL

\* The sweep over prefix sums never contradicts the evaluation of a band, finds the
\* first pair of candidates in the tie-break order, the incumbent among them, and
\* when nothing is thinned out no band at all costs less, on any rows and under any
\* policy (bands.py:236-351, policy_ops.py:92-93).
THEOREM SweepIsRight == Spec => []SweepFindsBestBand
<1>1. PolicyInv => SweepFindsBestBand
  BY DEF PolicyInv
<1> QED
  BY <1>1, PolicyInvariantHolds, PTL

\* The reports are those of the model that is there.
ReportsOfModel ==
    /\ evaluation # None =>
         model # None /\ evaluation = EvaluationReport(data.heldOut, model.threshold)
    /\ stress # None =>
         /\ model # None /\ evaluation = EvaluationReport(data.heldOut, model.threshold)
         /\ stress = ScoreVariant(data.heldOut, model.threshold)

\* A model is replaced only after its reports have gone.
LEMMA ReportsStep ==
  ASSUME ReportsOfModel, [Next]_vars
  PROVE  ReportsOfModel'
<1>1. CASE RemoveDirectory
  BY <1>1 DEF RemoveDirectory, ReportsOfModel
<1>2. CASE EditPolicy
  BY <1>2 DEF EditPolicy, ReportsOfModel
<1>3. CASE \E config \in ModelingConfigs : Train(config)
  BY <1>3 DEF Train, ReportsOfModel
<1>4. CASE Evaluate
  BY <1>4 DEF Evaluate, ReportsOfModel
<1>5. CASE FitPolicyBand
  BY <1>5 DEF FitPolicyBand, ReportsOfModel
<1>6. CASE \E batch \in Batches, shared \in SUBSET Identities, approve \in BOOLEAN :
             ValidatePolicy(batch, shared, approve)
  BY <1>6 DEF ValidatePolicy, ReportsOfModel
<1>7. CASE UNCHANGED vars
  BY <1>7 DEF vars, ReportsOfModel
<1> QED
  BY <1>1, <1>2, <1>3, <1>4, <1>5, <1>6, <1>7 DEF Next

\* Every row is counted once in each part of the held-out report, and the stress
\* analysis measures the same rows alike, for all rows, models and numbers of bins
\* (metrics.py:102-229, adversarial_stress.py:85-198).
THEOREM ReportsAreConsistent == Spec => []ReportsAgree
<1>1. Init => ReportsOfModel
  BY DEF Init, ReportsOfModel
<1>2. ReportsOfModel /\ [Next]_vars => ReportsOfModel'
  BY ReportsStep
<1>3. PolicyInv /\ ReportsOfModel => ReportsAgree
  <2> SUFFICES ASSUME PolicyInv, ReportsOfModel
               PROVE  ReportsAgree
    OBVIOUS
  <2>1. ReportedRows(data.heldOut)
    BY PolicyAssumption DEF PolicyInv
  <2>2. AddsUp(data.heldOut, EvaluationReport(data.heldOut, model.threshold))
    BY <2>1, ReportAddsUp
  <2>3. MeasuresAlike(data.heldOut, EvaluationReport(data.heldOut, model.threshold),
                      ScoreVariant(data.heldOut, model.threshold))
    BY <2>1, StressMeasuresAlike
  <2> QED
    BY <2>2, <2>3 DEF ReportsOfModel, ReportsAgree
<1> QED
  BY <1>1, <1>2, <1>3, PolicyInvariantHolds, PTL DEF Spec

\* validate_tree accepts the trees and nothing else, and a row that walks through one
\* of them ends in a leaf, for all arrays and all rows (model.py:54-103 and 331-343).
THEOREM ValidTreesAreWalkable == Spec => []TreesAreWalkable
<1>1. PolicyInv => TreesAreWalkable
  <2> SUFFICES ASSUME PolicyInv PROVE TreesAreWalkable
    OBVIOUS
  <2>1. TreeArrays(data.tree)
    BY PolicyAssumption DEF PolicyInv
  <2>2. Accepts(data.tree) <=> IsTree(data.tree)
    BY <2>1, AcceptedIsTree, TreeIsAccepted
  <2>3. ASSUME Accepts(data.tree), NEW above \in SUBSET (0 .. Features - 1)
        PROVE  LeafOf(data.tree, above) \in Nodes(data.tree) /\ IsLeaf(data.tree, LeafOf(data.tree, above))
    BY <2>1, <2>2, <2>3, WalkEndsInLeaf
  <2> QED
    BY <2>2, <2>3 DEF TreesAreWalkable
<1> QED
  BY <1>1, PolicyInvariantHolds, PTL
================================================================================
