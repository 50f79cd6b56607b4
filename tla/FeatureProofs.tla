------------------------------ MODULE FeatureProofs ------------------------------
(*****************************************************************************)
(* Proofs about the feature engine: its counters agree with a recount, its   *)
(* features are causal and a failed call leaves no trace, for any windows,   *)
(* any attempts and any number of events.                                    *)
(*****************************************************************************)
EXTENDS FeatureInvariant, FiniteSetTheorems, SequenceTheorems, WellFoundedInduction, TLAPS

-----------------------------------------------------------------------------
(* Numbers, sequences, finite sets.                                          *)

\* A set of natural numbers has a least element: what an induction over the
\* observations that enter or leave a deque comes down to.
LEMMA LeastOf ==
  ASSUME NEW S, S \subseteq Nat, S # {}
  PROVE  \E n \in S : \A m \in S : n <= m
<1> DEFINE below == {0 .. n : n \in S}
           R == StrictSubsetOrdering(Nat)
<1>1. \A n \in S : 0 .. n \in SUBSET Nat /\ IsFiniteSet(0 .. n)
  BY FS_Interval
<1>2. below \subseteq FiniteSubsetsOf(Nat) /\ below # {}
  BY <1>1 DEF FiniteSubsetsOf
<1> HIDE DEF R
<1>3. PICK B \in below : \A C \in below : ~(<<C, B>> \in R)
  <2> HIDE DEF below
  <2> QED
    BY <1>2, FS_StrictSubsetOrderingWellFounded, WFMin DEF R
<1>4. PICK n \in S : B = 0 .. n
  OBVIOUS
<1>5. ASSUME NEW m \in S, m < n
      PROVE  FALSE
  <2>1. 0 .. m \subseteq 0 .. n /\ n \in 0 .. n /\ n \notin 0 .. m
    BY <1>5
  <2>2. <<0 .. m, 0 .. n>> \in R
    BY <1>1, <2>1 DEF R, StrictSubsetOrdering
  <2> QED
    BY <1>3, <1>4, <2>2
<1> QED
  BY <1>5

\* What goes on at every step up to n holds at n.
LEMMA NoFirstFailure ==
  ASSUME NEW n \in Nat, NEW holds \in [0 .. n -> BOOLEAN], holds[0],
         \A m \in 1 .. n : holds[m - 1] => holds[m]
  PROVE  \A m \in 0 .. n : holds[m]
<1> DEFINE fails == {m \in 0 .. n : ~holds[m]}
<1> SUFFICES ASSUME fails # {} PROVE FALSE
  OBVIOUS
<1>1. fails \subseteq Nat
  OBVIOUS
<1>2. PICK m \in fails : \A k \in fails : m <= k
  <2> HIDE DEF fails
  <2> QED
    BY <1>1, LeastOf
<1>3. m \in 1 .. n /\ m - 1 \in 0 .. n
  BY <1>2
<1>4. holds[m - 1]
  BY <1>2, <1>3
<1> QED
  BY <1>2, <1>3, <1>4

\* The greatest of finitely many numbers, at least one, is one of them.
LEMMA MaxOf ==
  ASSUME NEW S, IsFiniteSet(S), S # {}, S \subseteq Nat
  PROVE  Max(S) \in S /\ \A x \in S : x <= Max(S)
<1> DEFINE above == [x \in S |-> {y \in S : x < y}]
           aboves == {above[x] : x \in S}
           R == StrictSubsetOrdering(S)
<1>1. aboves \subseteq FiniteSubsetsOf(S) /\ aboves # {}
  <2>1. \A x \in S : above[x] \in SUBSET S
    OBVIOUS
  <2>2. \A x \in S : IsFiniteSet(above[x])
    BY <2>1, FS_Subset
  <2> QED
    BY <2>1, <2>2 DEF FiniteSubsetsOf
<1>2. PICK B \in aboves : \A C \in aboves : ~(<<C, B>> \in R)
  <2> HIDE DEF aboves, R
  <2> QED
    BY <1>1, FS_StrictSubsetOrderingWellFounded, WFMin DEF R
<1>3. PICK x \in S : B = above[x]
  OBVIOUS
<1>4. ASSUME NEW y \in S, x < y
      PROVE  FALSE
  <2>1. above[y] \in SUBSET above[x] /\ y \in above[x] /\ y \notin above[y]
    <3>1. (\A z \in S : y < z => x < z) /\ ~(y < y)
      BY <1>4
    <3>2. above[x] = {z \in S : x < z} /\ above[y] = {z \in S : y < z}
      OBVIOUS
    <3> HIDE DEF above
    <3> QED
      BY <1>4, <3>1, <3>2
  <2>2. <<above[y], above[x]>> \in R
    BY <1>1, <2>1 DEF R, StrictSubsetOrdering
  <2> QED
    BY <1>2, <1>3, <2>2
<1>5. \A y \in S : y <= x
  BY <1>4
<1> QED
  BY <1>5 DEF Max

\* The greatest number is found where nothing greater is.
LEMMA MaxIs ==
  ASSUME NEW S, S \subseteq Nat, NEW x \in S, \A y \in S : y <= x
  PROVE  Max(S) = x
<1>1. \E m \in S : \A y \in S : m >= y
  OBVIOUS
<1>2. Max(S) \in S /\ Max(S) >= x
  BY <1>1 DEF Max
<1>3. x >= Max(S) /\ x \in Nat /\ Max(S) \in Nat
  BY <1>2
<1> QED
  BY <1>2, <1>3

-----------------------------------------------------------------------------
(* One observation more, or one less.                                        *)

\* The number of times a token occurs, in a tally or outside it.
LEMMA TallyOf ==
  ASSUME NEW s, NEW K, IsFiniteSet(K), NEW r, NEW v
  PROVE  LET n == Cardinality(Occurring(s, K, r, v))
         IN  /\ IsFiniteSet(Occurring(s, K, r, v)) /\ n \in Nat
             /\ v # None => (v \in DOMAIN Tally(s, K, r) <=> n > 0)
             /\ v \in DOMAIN Tally(s, K, r) => v # None /\ Tally(s, K, r)[v] = n
<1> DEFINE those == Occurring(s, K, r, v)
<1>1. those \in SUBSET K
  BY DEF Occurring
<1>2. IsFiniteSet(those) /\ Cardinality(those) \in Nat
  BY <1>1, FS_Subset, FS_CardinalityType
<1>3. Cardinality(those) = 0 <=> those = {}
  BY <1>2, FS_EmptySet
<1>4. v # None => (v \in DOMAIN Tally(s, K, r) <=> those # {})
  BY DEF Tally, Occurring
<1>5. v \in DOMAIN Tally(s, K, r) => v # None /\ Tally(s, K, r)[v] = Cardinality(those)
  BY DEF Tally
<1> QED
  BY <1>2, <1>3, <1>4, <1>5

\* A tally is a function, and its domain grows with the positions.
LEMMA TallyShape ==
  ASSUME NEW s, NEW K, NEW L, NEW r
  PROVE  /\ Tally(s, K, r) = [v \in DOMAIN Tally(s, K, r) |-> Tally(s, K, r)[v]]
         /\ DOMAIN Tally(s, K \cup L, r) = DOMAIN Tally(s, K, r) \cup DOMAIN Tally(s, L, r)
         /\ K \subseteq L => DOMAIN Tally(s, K, r) \subseteq DOMAIN Tally(s, L, r)
BY DEF Tally

\* An occurrence, as a bag.
LEMMA OccurrenceShape ==
  ASSUME NEW v
  PROVE  /\ DOMAIN Occurrence(v) = {v} \ {None}
         /\ \A u \in DOMAIN Occurrence(v) : Occurrence(v)[u] = 1
BY DEF Occurrence, SetToBag, EmptyBag

\* The tally after one more observation.
LEMMA TallyWith ==
  ASSUME NEW s, NEW K, IsFiniteSet(K), NEW k, k \notin K, NEW r
  PROVE  Tally(s, K, r) (+) Occurrence(s[k].relations[r]) = Tally(s, K \cup {k}, r)
<1> DEFINE v == s[k].relations[r]
           L == K \cup {k}
           old == Tally(s, K, r)
           new == Tally(s, L, r)
           o == Occurrence(v)
<1>1. IsFiniteSet(L)
  BY FS_AddElement
<1>2. DOMAIN new = DOMAIN old \cup DOMAIN o
  <2>1. DOMAIN new = {s[j].relations[r] : j \in L} \ {None} /\ DOMAIN old = {s[j].relations[r] : j \in K} \ {None}
    BY DEF Tally
  <2>2. DOMAIN o = {v} \ {None}
    BY OccurrenceShape
  <2>3. {s[j].relations[r] : j \in L} = {s[j].relations[r] : j \in K} \cup {v}
    OBVIOUS
  <2> HIDE DEF old, new, o, v, L
  <2> QED
    BY <2>1, <2>2, <2>3
<1>3. \A u : u # v => Occurring(s, L, r, u) = Occurring(s, K, r, u)
  BY DEF Occurring
<1>4. Occurring(s, L, r, v) = Occurring(s, K, r, v) \cup {k} /\ k \notin Occurring(s, K, r, v)
  BY DEF Occurring
<1>5. \A u \in DOMAIN new : new[u] = Cardinality(Occurring(s, L, r, u)) /\ u # None
  BY <1>1, TallyOf
<1>6. \A u \in DOMAIN old : old[u] = Cardinality(Occurring(s, K, r, u)) /\ old[u] \in Nat
  BY TallyOf
<1>7. DOMAIN o = {v} \ {None} /\ \A u \in DOMAIN o : o[u] = 1
  BY OccurrenceShape
<1>8. old (+) o = [u \in DOMAIN old \cup DOMAIN o |->
                    (IF u \in DOMAIN old THEN old[u] ELSE 0) + (IF u \in DOMAIN o THEN o[u] ELSE 0)]
  BY DEF (+)
<1>9. Cardinality(Occurring(s, L, r, v)) = Cardinality(Occurring(s, K, r, v)) + 1
  <2>1. IsFiniteSet(Occurring(s, K, r, v))
    BY TallyOf
  <2> HIDE DEF v, L
  <2> QED
    BY <2>1, <1>4, FS_AddElement
<1>10. v # None => Cardinality(Occurring(s, K, r, v)) = IF v \in DOMAIN old THEN old[v] ELSE 0
  <2>1. Cardinality(Occurring(s, K, r, v)) \in Nat
        /\ (v # None => (v \in DOMAIN old <=> Cardinality(Occurring(s, K, r, v)) > 0))
    BY TallyOf
  <2> QED
    BY <2>1, <1>6
<1> HIDE DEF old, new, o, v, L
<1>11. ASSUME NEW u \in DOMAIN new
       PROVE  new[u] = (IF u \in DOMAIN old THEN old[u] ELSE 0) + (IF u \in DOMAIN o THEN o[u] ELSE 0)
  <2>1. CASE u # v
    <3>1. u \in DOMAIN old /\ u \notin DOMAIN o
      BY <2>1, <1>2, <1>7
    <3>2. new[u] = old[u] /\ old[u] \in Nat
      BY <2>1, <3>1, <1>3, <1>5, <1>6
    <3> QED
      BY <3>1, <3>2
  <2>2. CASE u = v
    <3>1. v # None /\ v \in DOMAIN o /\ o[v] = 1
      BY <2>2, <1>5, <1>7
    <3> QED
      BY <2>2, <3>1, <1>5, <1>9, <1>10
  <2> QED
    BY <2>1, <2>2
<1>12. new = [u \in DOMAIN new |-> new[u]]
  BY DEF Tally, new
<1> QED
  BY <1>2, <1>8, <1>11, <1>12 DEF old, new, o, v, L

\* The tally after one observation was taken out.
LEMMA TallyWithout ==
  ASSUME NEW s, NEW K, IsFiniteSet(K), NEW k \in K, NEW r
  PROVE  Tally(s, K, r) (-) Occurrence(s[k].relations[r]) = Tally(s, K \ {k}, r)
<1> DEFINE v == s[k].relations[r]
           L == K \ {k}
           old == Tally(s, K, r)
           new == Tally(s, L, r)
           o == Occurrence(v)
<1>1. IsFiniteSet(L) /\ L \subseteq K
  BY FS_RemoveElement
<1>2. DOMAIN o = {v} \ {None} /\ \A u \in DOMAIN o : o[u] = 1
  BY OccurrenceShape
<1>3. \A u \in DOMAIN old : old[u] = Cardinality(Occurring(s, K, r, u)) /\ old[u] \in Nat /\ u # None
  BY TallyOf
<1>4. \A u : u # None => (u \in DOMAIN new <=> Cardinality(Occurring(s, L, r, u)) > 0)
  BY <1>1, TallyOf
<1>5. \A u \in DOMAIN new : new[u] = Cardinality(Occurring(s, L, r, u)) /\ u # None
  BY <1>1, TallyOf
<1>6. \A u : u # v => Occurring(s, L, r, u) = Occurring(s, K, r, u)
  BY DEF Occurring
<1>7. Cardinality(Occurring(s, L, r, v)) = Cardinality(Occurring(s, K, r, v)) - 1
  <2>1. Occurring(s, L, r, v) = Occurring(s, K, r, v) \ {k} /\ k \in Occurring(s, K, r, v)
    BY DEF Occurring
  <2>2. IsFiniteSet(Occurring(s, K, r, v))
    BY TallyOf
  <2> HIDE DEF v, L
  <2> QED
    BY <2>1, <2>2, FS_RemoveElement
<1> DEFINE rest == [u \in DOMAIN old |-> IF u \in DOMAIN o THEN old[u] - o[u] ELSE old[u]]
<1>8. old (-) o = [u \in {d \in DOMAIN rest : rest[d] > 0} |-> rest[u]]
  BY DEF (-)
<1>9. DOMAIN new \subseteq DOMAIN old
  BY <1>1, TallyShape
<1>10. new = [u \in DOMAIN new |-> new[u]]
  BY TallyShape
<1> HIDE DEF old, new, o, v, L
<1>11. \A u \in DOMAIN old : rest[u] = Cardinality(Occurring(s, L, r, u))
  <2> SUFFICES ASSUME NEW u \in DOMAIN old PROVE rest[u] = Cardinality(Occurring(s, L, r, u))
    OBVIOUS
  <2>1. CASE u # v
    BY <2>1, <1>2, <1>3, <1>6
  <2>2. CASE u = v
    <3>1. u \in DOMAIN o /\ o[u] = 1
      BY <2>2, <1>2, <1>3
    <3> QED
      BY <2>2, <3>1, <1>3, <1>7
  <2> QED
    BY <2>1, <2>2
<1>12. DOMAIN rest = DOMAIN old
  OBVIOUS
<1> HIDE DEF rest
<1>13. {d \in DOMAIN rest : rest[d] > 0} = DOMAIN new
  BY <1>3, <1>4, <1>9, <1>11, <1>12
<1>14. \A u \in DOMAIN new : rest[u] = new[u]
  BY <1>5, <1>9, <1>11
<1> QED
  BY <1>8, <1>10, <1>13, <1>14 DEF old, new, L, o, v

\* The failures after one more observation, and without one.
LEMMA FailuresOf ==
  ASSUME NEW s, NEW K, IsFiniteSet(K), NEW k
  PROVE  /\ Cardinality(Failing(s, K)) \in Nat
         /\ k \notin K => Cardinality(Failing(s, K \cup {k})) = Cardinality(Failing(s, K)) + One(s[k].failed)
         /\ k \in K => Cardinality(Failing(s, K \ {k})) = Cardinality(Failing(s, K)) - One(s[k].failed)
<1> DEFINE F == Failing(s, K)
<1>1. F \in SUBSET K
  BY DEF Failing
<1>2. IsFiniteSet(F) /\ Cardinality(F) \in Nat
  BY <1>1, FS_Subset, FS_CardinalityType
<1>3. CASE s[k].failed
  <2>1. Failing(s, K \cup {k}) = F \cup {k} /\ (k \in F <=> k \in K)
    BY <1>3 DEF Failing
  <2>2. Failing(s, K \ {k}) = F \ {k}
    BY <1>3 DEF Failing
  <2>3. One(s[k].failed) = 1
    BY <1>3 DEF One
  <2> HIDE DEF F
  <2> QED
    BY <2>1, <2>2, <2>3, <1>2, FS_AddElement, FS_RemoveElement, ZenonT(60) DEF F
<1>4. CASE ~s[k].failed
  <2>1. Failing(s, K \cup {k}) = F /\ Failing(s, K \ {k}) = F
    BY <1>4 DEF Failing
  <2>2. One(s[k].failed) = 0
    BY <1>4 DEF One
  <2> QED
    BY <2>1, <2>2, <1>2
<1> QED
  BY <1>3, <1>4

\* Counting one observation more.
LEMMA CountedIs ==
  ASSUME NEW s, NEW K, IsFiniteSet(K), NEW k, k \notin K, NEW R, NEW at
  PROVE  Counted(Counting(s, K, R, at), s[k]) = Counting(s, K \cup {k}, R, at)
<1> DEFINE a == Counting(s, K, R, at)
           related == [r \in R |-> Tally(s, K, r)]
           more == [r \in R |-> Tally(s, K \cup {k}, r)]
<1>1. Counted(a, s[k]) =
        [attempts |-> Cardinality(K) + 1,
         failures |-> Cardinality(Failing(s, K)) + One(s[k].failed),
         related |-> [r \in DOMAIN related |-> related[r] (+) Occurrence(s[k].relations[r])],
         last |-> at]
  BY DEF Counted, Counting
<1>2. [r \in DOMAIN related |-> related[r] (+) Occurrence(s[k].relations[r])] = more
  <2>1. \A r \in R : related[r] (+) Occurrence(s[k].relations[r]) = more[r]
    BY TallyWith
  <2> QED
    BY <2>1
<1>3. Cardinality(K \cup {k}) = Cardinality(K) + 1
  BY FS_AddElement
<1>4. Cardinality(Failing(s, K \cup {k})) = Cardinality(Failing(s, K)) + One(s[k].failed)
  BY FailuresOf
<1> QED
  BY <1>1, <1>2, <1>3, <1>4 DEF Counting

\* Counting one observation less.
LEMMA UncountedIs ==
  ASSUME NEW s, NEW K, IsFiniteSet(K), NEW k \in K, NEW R, NEW at
  PROVE  Uncounted(Counting(s, K, R, at), s[k]) = Counting(s, K \ {k}, R, at)
<1> DEFINE a == Counting(s, K, R, at)
           related == [r \in R |-> Tally(s, K, r)]
           less == [r \in R |-> Tally(s, K \ {k}, r)]
<1>1. Uncounted(a, s[k]) =
        [attempts |-> Cardinality(K) - 1,
         failures |-> Cardinality(Failing(s, K)) - One(s[k].failed),
         related |-> [r \in DOMAIN related |-> related[r] (-) Occurrence(s[k].relations[r])],
         last |-> at]
  BY DEF Uncounted, Counting
<1>2. [r \in DOMAIN related |-> related[r] (-) Occurrence(s[k].relations[r])] = less
  <2>1. \A r \in R : related[r] (-) Occurrence(s[k].relations[r]) = less[r]
    BY TallyWithout
  <2> QED
    BY <2>1
<1>3. Cardinality(K \ {k}) = Cardinality(K) - 1
  BY FS_RemoveElement
<1>4. Cardinality(Failing(s, K \ {k})) = Cardinality(Failing(s, K)) - One(s[k].failed)
  BY FailuresOf
<1> QED
  BY <1>1, <1>2, <1>3, <1>4 DEF Counting

\* What a new token starts with counts nothing.
LEMMA FreshIs ==
  ASSUME NEW s, NEW R, NEW at
  PROVE  Fresh(R, at) = Counting(s, {}, R, at)
<1>1. \A r : Tally(s, {}, r) = EmptyBag
  BY DEF Tally, EmptyBag, SetToBag
<1>2. Cardinality({}) = 0 /\ Failing(s, {}) = {}
  BY FS_EmptySet DEF Failing
<1> QED
  BY <1>1, <1>2 DEF Fresh, Counting

-----------------------------------------------------------------------------
(* The summary after one observation more, or one less.                      *)

\* The counters of one token, and its time, in the summary.
LEMMA SummaryWith ==
  ASSUME NEW s, NEW K, NEW k, NEW R
  PROVE  LET t == s[k].primary
         IN  Put(Summary(s, K, R), t, Aggregate(s, Concerning(s, K \cup {k}, t), R))
                = Summary(s, K \cup {k}, R)
<1> DEFINE t == s[k].primary
           L == K \cup {k}
           old == Summary(s, K, R)
           new == Summary(s, L, R)
<1>1. DOMAIN old = {s[j].primary : j \in K} /\ DOMAIN new = {s[j].primary : j \in L}
  BY DEF Summary
<1>2. DOMAIN new = DOMAIN old \cup {t}
  BY <1>1
<1>3. \A u : u # t => Concerning(s, L, u) = Concerning(s, K, u)
  BY DEF Concerning
<1>4. \A u \in DOMAIN new : new[u] = Aggregate(s, Concerning(s, L, u), R)
  BY DEF Summary
<1>5. \A u \in DOMAIN old : old[u] = Aggregate(s, Concerning(s, K, u), R)
  BY DEF Summary
<1>6. new = [u \in DOMAIN new |-> new[u]]
  BY DEF Summary
<1>7. Put(old, t, Aggregate(s, Concerning(s, L, t), R)) =
        [u \in DOMAIN old \cup {t} |-> IF u = t THEN Aggregate(s, Concerning(s, L, t), R) ELSE old[u]]
  BY DEF Put
<1> HIDE DEF old, new, L, t
<1>8. \A u \in DOMAIN new : new[u] = IF u = t THEN Aggregate(s, Concerning(s, L, t), R) ELSE old[u]
  BY <1>2, <1>3, <1>4, <1>5
<1> QED
  BY <1>2, <1>6, <1>7, <1>8 DEF old, new, L, t

-----------------------------------------------------------------------------
(* What the methods of an index do to a summary.                             *)

Timed(s, K) == IsFiniteSet(K) /\ \A k \in K : s[k].at \in Nat

\* The time of the last of some observations is the time of one of them.
LEMMA LatestOf ==
  ASSUME NEW s, NEW K, Timed(s, K), K # {}
  PROVE  /\ Latest(s, K) \in Nat
         /\ \E k \in K : s[k].at = Latest(s, K)
         /\ \A k \in K : s[k].at <= Latest(s, K)
<1> DEFINE f == [k \in K |-> s[k].at]
           T == {s[k].at : k \in K}
<1>1. f \in Surjection(K, T)
  BY DEF Surjection
<1>2. IsFiniteSet(T) /\ T # {} /\ T \subseteq Nat
  <2>1. IsFiniteSet(K)
    BY DEF Timed
  <2>2. T # {} /\ T \subseteq Nat
    BY DEF Timed
  <2> HIDE DEF f, T
  <2> QED
    BY <1>1, <2>1, <2>2, FS_Surjection
<1>3. Max(T) \in T /\ \A x \in T : x <= Max(T)
  <2> HIDE DEF T
  <2> QED
    BY <1>2, MaxOf
<1> QED
  BY <1>2, <1>3 DEF Latest

\* It is found where no other is later.
LEMMA LatestIs ==
  ASSUME NEW s, NEW K, Timed(s, K), NEW k \in K, \A j \in K : s[j].at <= s[k].at
  PROVE  Latest(s, K) = s[k].at
<1>1. Latest(s, K) \in Nat /\ s[k].at \in Nat /\ s[k].at <= Latest(s, K)
  BY LatestOf DEF Timed
<1>2. PICK j \in K : s[j].at = Latest(s, K)
  BY LatestOf
<1> QED
  BY <1>1, <1>2

\* The greater of two numbers.
LEMMA MaxOfTwo ==
  ASSUME NEW a \in Nat, NEW b \in Nat
  PROVE  Max({a, b}) = IF a <= b THEN b ELSE a
<1>1. CASE a <= b
  BY <1>1, MaxIs
<1>2. CASE ~(a <= b)
  BY <1>2, MaxIs
<1> QED
  BY <1>1, <1>2

\* One observation more makes the last one later, or not.
LEMMA LatestWith ==
  ASSUME NEW s, NEW K, NEW k, Timed(s, K \cup {k})
  PROVE  /\ Latest(s, {k}) = s[k].at
         /\ K # {} => Latest(s, K \cup {k}) = Max({Latest(s, K), s[k].at})
<1>1. s[k].at \in Nat /\ IsFiniteSet({k}) /\ Timed(s, {k})
  BY FS_Singleton DEF Timed
<1>2. Latest(s, {k}) = s[k].at
  BY <1>1, LatestIs
<1>3. ASSUME K # {}
      PROVE  Latest(s, K \cup {k}) = Max({Latest(s, K), s[k].at})
  <2>1. Timed(s, K)
    <3>1. K \in SUBSET (K \cup {k})
      OBVIOUS
    <3> QED
      BY <3>1, FS_Subset DEF Timed
  <2>2. PICK j \in K : s[j].at = Latest(s, K)
    BY <1>3, <2>1, LatestOf
  <2>3. Latest(s, K) \in Nat /\ \A i \in K : s[i].at <= Latest(s, K) /\ s[i].at \in Nat
    BY <1>3, <2>1, LatestOf DEF Timed
  <2>4. Max({Latest(s, K), s[k].at}) = IF Latest(s, K) <= s[k].at THEN s[k].at ELSE Latest(s, K)
    BY <1>1, <2>3, MaxOfTwo
  <2>5. CASE Latest(s, K) <= s[k].at
    <3>1. \A i \in K \cup {k} : s[i].at <= s[k].at
      BY <2>5, <2>3, <1>1
    <3>2. Latest(s, K \cup {k}) = s[k].at
      BY <3>1, LatestIs
    <3> QED
      BY <3>2, <2>4, <2>5
  <2>6. CASE ~(Latest(s, K) <= s[k].at)
    <3>1. \A i \in K \cup {k} : s[i].at <= s[j].at
      BY <2>6, <2>2, <2>3, <1>1
    <3>2. Latest(s, K \cup {k}) = s[j].at
      BY <3>1, LatestIs
    <3> QED
      BY <3>2, <2>2, <2>4, <2>6
  <2> QED
    BY <2>5, <2>6
<1> QED
  BY <1>2, <1>3

\* The counters of a token, in the summary or outside it.
LEMMA CountersOf ==
  ASSUME NEW s, NEW K, NEW R, NEW t, NEW at
  PROVE  LET those == Concerning(s, K, t)
         IN  /\ t \in DOMAIN Summary(s, K, R) <=> those # {}
             /\ those # {} => Summary(s, K, R)[t] = Counting(s, those, R, Latest(s, those))
             /\ Counters(Summary(s, K, R), t, R, at) =
                  IF those = {} THEN Counting(s, {}, R, at)
                                ELSE Counting(s, those, R, Latest(s, those))
<1> DEFINE those == Concerning(s, K, t)
           a == Summary(s, K, R)
<1>1. t \in DOMAIN a <=> those # {}
  BY DEF Summary, Concerning
<1>2. t \in DOMAIN a => a[t] = Counting(s, those, R, Latest(s, those))
  BY DEF Summary, Aggregate
<1>3. Counters(a, t, R, at) = IF t \in DOMAIN a THEN a[t] ELSE Counting(s, {}, R, at)
  BY FreshIs DEF Counters
<1> QED
  BY <1>1, <1>2, <1>3

\* Counters with another time.
LEMMA CountingAt ==
  ASSUME NEW s, NEW K, NEW R, NEW at, NEW x
  PROVE  /\ [Counting(s, K, R, at) EXCEPT !.last = x] = Counting(s, K, R, x)
         /\ Counting(s, K, R, at).last = at
<1> DEFINE n == Cardinality(K)
           m == Cardinality(Failing(s, K))
           b == [r \in R |-> Tally(s, K, r)]
<1>1. \A y : Counting(s, K, R, y) = [attempts |-> n, failures |-> m, related |-> b, last |-> y]
  BY DEF Counting
<1> HIDE DEF n, m, b
<1>2. [[attempts |-> n, failures |-> m, related |-> b, last |-> at] EXCEPT !.last = x]
        = [attempts |-> n, failures |-> m, related |-> b, last |-> x]
  OBVIOUS
<1> QED
  BY <1>1, <1>2

\* An observation that is put back is counted, and its time kept if it is the last.
LEMMA ReadmittedIs ==
  ASSUME NEW s, NEW K, NEW k, k \notin K, NEW R, Timed(s, K \cup {k})
  PROVE  Readmitted(Summary(s, K, R), s[k], R) = Summary(s, K \cup {k}, R)
<1> DEFINE t == s[k].primary
           at == s[k].at
           C == Concerning(s, K, t)
           D == Concerning(s, K \cup {k}, t)
           a == Summary(s, K, R)
           before == Counters(a, t, R, at)
<1>1. D = C \cup {k} /\ k \notin C
  BY DEF Concerning
<1>2. Timed(s, D) /\ Timed(s, C) /\ Timed(s, {k}) /\ IsFiniteSet(C) /\ at \in Nat
  <2>1. C \in SUBSET (K \cup {k}) /\ D \in SUBSET (K \cup {k})
    BY DEF Concerning
  <2> QED
    BY <2>1, FS_Subset, FS_Singleton DEF Timed
<1>3. [Counted(before, s[k]) EXCEPT !.last = Max({Counted(before, s[k]).last, at})] = Aggregate(s, D, R)
  <2>1. CASE C = {}
    <3>1. before = Counting(s, {}, R, at)
      BY <2>1, CountersOf
    <3>2. Counted(before, s[k]) = Counting(s, {k}, R, at)
      <4>1. {} \cup {k} = {k} /\ k \notin {} /\ IsFiniteSet({})
        BY FS_EmptySet
      <4> QED
        BY <3>1, <4>1, CountedIs
    <3>3. Max({at, at}) = at /\ Latest(s, {k}) = at
      BY <1>2, MaxOfTwo, LatestIs
    <3>4. D = {k}
      BY <1>1, <2>1
    <3> HIDE DEF at, before, D
    <3> QED
      BY <3>2, <3>3, <3>4, CountingAt, SMTT(30) DEF Aggregate
  <2>2. CASE C # {}
    <3>1. before = Counting(s, C, R, Latest(s, C))
      BY <2>2, CountersOf
    <3> HIDE DEF before, D, C
    <3>2. Counted(before, s[k]) = Counting(s, D, R, Latest(s, C))
      BY <1>1, <1>2, <3>1, CountedIs
    <3>3. Latest(s, D) = Max({Latest(s, C), at})
      BY <1>1, <1>2, <2>2, LatestWith
    <3> HIDE DEF at
    <3> QED
      BY <3>2, <3>3, CountingAt DEF Aggregate
  <2> QED
    BY <2>1, <2>2
<1>4. Readmitted(a, s[k], R) =
        Put(a, t, [Counted(before, s[k]) EXCEPT !.last = Max({Counted(before, s[k]).last, at})])
  BY DEF Readmitted
<1> QED
  BY <1>3, <1>4, SummaryWith

\* An observation that is not earlier than the others is counted with its time.
LEMMA ObservedIs ==
  ASSUME NEW s, NEW K, NEW k, k \notin K, NEW R, Timed(s, K \cup {k}),
         \A j \in K : s[j].at <= s[k].at
  PROVE  LET before == Counters(Summary(s, K, R), s[k].primary, R, s[k].at)
         IN  Put(Summary(s, K, R), s[k].primary, [Counted(before, s[k]) EXCEPT !.last = s[k].at])
               = Summary(s, K \cup {k}, R)
<1> DEFINE t == s[k].primary
           at == s[k].at
           C == Concerning(s, K, t)
           D == Concerning(s, K \cup {k}, t)
           a == Summary(s, K, R)
           before == Counters(a, t, R, at)
<1>1. D = C \cup {k} /\ k \notin C
  BY DEF Concerning
<1>2. Timed(s, D) /\ IsFiniteSet(C) /\ at \in Nat
  <2>1. C \in SUBSET (K \cup {k}) /\ D \in SUBSET (K \cup {k})
    BY DEF Concerning
  <2> QED
    BY <2>1, FS_Subset DEF Timed
<1>3. \E x : before = Counting(s, C, R, x)
  <2>1. before = IF C = {} THEN Counting(s, {}, R, at) ELSE Counting(s, C, R, Latest(s, C))
    BY CountersOf
  <2> HIDE DEF before, C
  <2> QED
    BY <2>1
<1>4. \E x : Counted(before, s[k]) = Counting(s, D, R, x)
  <2> HIDE DEF before, C, D
  <2> QED
    BY <1>1, <1>2, <1>3, CountedIs
<1>5. [Counted(before, s[k]) EXCEPT !.last = at] = Counting(s, D, R, at)
  <2> HIDE DEF at, before, D
  <2> QED
    BY <1>4, CountingAt
<1>6. Latest(s, D) = at
  <2>1. k \in D /\ \A j \in D : s[j].at <= s[k].at
    BY <1>1, <1>2 DEF Concerning
  <2> QED
    BY <1>2, <2>1, LatestIs
<1>7. Put(a, t, Aggregate(s, D, R)) = Summary(s, K \cup {k}, R)
  BY SummaryWith
<1>8. Put(a, t, [Counted(before, s[k]) EXCEPT !.last = at]) = Summary(s, K \cup {k}, R)
  <2> HIDE DEF before, D, at, a, t
  <2> QED
    BY <1>5, <1>6, <1>7 DEF Aggregate
<1> QED
  BY <1>8

\* Observation k gone, L is left, and the time of the last one is the previous, if
\* that is put back, and the same otherwise.
Leaves(s, K, k, L, back) ==
    LET left == Concerning(s, L, s[k].primary)
    IN  /\ L = K \ {k}
        /\ left # {} => Latest(s, left) = IF back THEN s[k].previous
                                          ELSE Latest(s, Concerning(s, K, s[k].primary))

\* What is left of the counters when an observation is taken out.
LEMMA RemovedIs ==
  ASSUME NEW s, NEW K, NEW k \in K, NEW L, NEW R, IsFiniteSet(K),
         NEW back \in BOOLEAN, Leaves(s, K, k, L, back)
  PROVE  RemoveReference(Summary(s, K, R), s[k], back) = Summary(s, L, R)
<1> DEFINE t == s[k].primary
           C == Concerning(s, K, t)
           left == Concerning(s, L, t)
           a == Summary(s, K, R)
           less == Uncounted(a[t], s[k])
<1>0. L = K \ {k} /\ L \in SUBSET K /\ k \notin L
  BY DEF Leaves
<1>1. left = C \ {k} /\ k \in C /\ IsFiniteSet(C) /\ IsFiniteSet(left) /\ C # {}
  <2>1. C \in SUBSET K /\ left \in SUBSET K
    BY <1>0 DEF Concerning
  <2>2. left = C \ {k} /\ k \in C
    BY <1>0 DEF Concerning
  <2> QED
    BY <2>1, <2>2, FS_Subset
<1>2. a[t] = Counting(s, C, R, Latest(s, C))
  BY <1>1 DEF Summary, Aggregate, Concerning
\* A token of which nothing is left goes; another one keeps what is left.
<1>3. Summary(s, L, R) = IF left = {} THEN Restrict(a, DOMAIN a \ {t})
                         ELSE Put(a, t, Aggregate(s, left, R))
  <2> DEFINE new == Summary(s, L, R)
  <2>1. DOMAIN a = {s[j].primary : j \in K} /\ DOMAIN new = {s[j].primary : j \in L}
    BY DEF Summary
  <2>2. t \in DOMAIN a /\ (t \in DOMAIN new <=> left # {})
    BY <1>0, <2>1 DEF Concerning
  <2>3. DOMAIN a = DOMAIN new \cup {t}
    BY <1>0, <2>1
  <2>4. \A u : u # t => Concerning(s, L, u) = Concerning(s, K, u)
    BY <1>0 DEF Concerning
  <2>5. \A u \in DOMAIN new : new[u] = Aggregate(s, Concerning(s, L, u), R)
    BY DEF Summary
  <2>6. \A u \in DOMAIN a : a[u] = Aggregate(s, Concerning(s, K, u), R)
    BY DEF Summary
  <2>7. new = [u \in DOMAIN new |-> new[u]]
    BY DEF Summary
  <2>8. \A u \in DOMAIN new : u # t => new[u] = a[u]
    BY <2>3, <2>4, <2>5, <2>6
  <2>9. /\ Restrict(a, DOMAIN a \ {t}) = [u \in DOMAIN a \ {t} |-> a[u]]
        /\ Put(a, t, Aggregate(s, left, R)) =
             [u \in DOMAIN a \cup {t} |-> IF u = t THEN Aggregate(s, left, R) ELSE a[u]]
    BY DEF Restrict, Put
  <2>10. left # {} => new[t] = Aggregate(s, left, R)
    BY <2>2, <2>5
  <2> HIDE DEF a, new, t, left
  <2>11. CASE left = {}
    <3>1. DOMAIN new = DOMAIN a \ {t}
      BY <2>2, <2>3, <2>11
    <3> QED
      BY <3>1, <2>7, <2>8, <2>9, <2>11 DEF new
  <2>12. CASE left # {}
    <3>1. DOMAIN new = DOMAIN a \cup {t}
      BY <2>2, <2>3, <2>12
    <3>2. \A u \in DOMAIN new : new[u] = IF u = t THEN Aggregate(s, left, R) ELSE a[u]
      BY <2>8, <2>10, <2>12
    <3> QED
      BY <3>1, <3>2, <2>7, <2>9, <2>12 DEF new
  <2> QED
    BY <2>11, <2>12
<1>4. less = Counting(s, left, R, Latest(s, C))
  <2> HIDE DEF C, left, a
  <2> QED
    BY <1>1, <1>2, UncountedIs
<1>5. less.attempts = Cardinality(left)
  <2> HIDE DEF less, left
  <2> QED
    BY <1>4 DEF Counting
<1>6. less.attempts = 0 <=> left = {}
  BY <1>1, <1>5, FS_EmptySet
<1>7. RemoveReference(a, s[k], back) =
        IF less.attempts = 0 THEN Restrict(a, DOMAIN a \ {t})
        ELSE Put(a, t, IF back THEN [less EXCEPT !.last = s[k].previous] ELSE less)
  BY DEF RemoveReference
<1>8. CASE left = {}
  <2> HIDE DEF less, left, a, t
  <2> QED
    BY <1>3, <1>6, <1>7, <1>8 DEF a
<1>9. CASE left # {}
  <2>0. Latest(s, left) = IF back THEN s[k].previous ELSE Latest(s, C)
    BY <1>9 DEF Leaves
  <2> HIDE DEF less, left, C
  <2>1. [less EXCEPT !.last = s[k].previous] = Counting(s, left, R, s[k].previous)
    BY <1>4, CountingAt
  <2>2. (IF back THEN [less EXCEPT !.last = s[k].previous] ELSE less) = Aggregate(s, left, R)
    <3>1. CASE back
      BY <3>1, <2>0, <2>1 DEF Aggregate
    <3>2. CASE ~back
      BY <3>2, <2>0, <1>4 DEF Aggregate
    <3> QED
      BY <3>1, <3>2
  <2> HIDE DEF a, t
  <2> QED
    BY <1>3, <1>6, <1>7, <1>9, <2>2 DEF a
<1> QED
  BY <1>8, <1>9

-----------------------------------------------------------------------------
(* The same observations at other positions.                                 *)

\* f pairs the elements of K with those of L.
Pairs(f, K, L) ==
    /\ f \in [K -> L]
    /\ \A j, k \in K : f[j] = f[k] => j = k
    /\ \A l \in L : \E k \in K : f[k] = l

\* Two sets that are paired have as many elements.
LEMMA CardinalityMoved ==
  ASSUME NEW K, IsFiniteSet(K), NEW L, NEW f, Pairs(f, K, L),
         NEW A \in SUBSET K, NEW B \in SUBSET L, \A k \in K : k \in A <=> f[k] \in B
  PROVE  IsFiniteSet(A) /\ IsFiniteSet(B) /\ Cardinality(A) = Cardinality(B)
<1> DEFINE g == [k \in A |-> f[k]]
<1>1. f \in [K -> L] /\ (\A j, k \in K : f[j] = f[k] => j = k) /\ (\A l \in L : \E k \in K : f[k] = l)
  BY DEF Pairs
<1>2. g \in [A -> B]
  BY <1>1
<1>3. \A j, k \in A : g[j] = g[k] => j = k
  BY <1>1
<1>4. \A l \in B : \E k \in A : g[k] = l
  BY <1>1
<1>5. g \in Bijection(A, B)
  <2> HIDE DEF g
  <2> QED
    BY <1>2, <1>3, <1>4 DEF Bijection, Injection, Surjection, IsInjective
<1>6. IsFiniteSet(A)
  BY FS_Subset
<1> HIDE DEF g
<1> QED
  BY <1>5, <1>6, FS_Bijection DEF ExistsBijection

\* The observations of s at K are those of w at L.
Moved(s, K, w, L, f) == Pairs(f, K, L) /\ \A k \in K : s[k] = w[f[k]]

\* The counters do not depend on where the observations are.
LEMMA SummaryMoved ==
  ASSUME NEW s, NEW w, NEW K, IsFiniteSet(K), NEW L, NEW f, Moved(s, K, w, L, f), NEW R
  PROVE  Summary(s, K, R) = Summary(w, L, R)
<1>0. Pairs(f, K, L) /\ \A k \in K : s[k] = w[f[k]]
  BY DEF Moved
<1>1. f \in [K -> L] /\ (\A j, k \in K : f[j] = f[k] => j = k) /\ (\A l \in L : \E k \in K : f[k] = l)
  BY <1>0 DEF Pairs
<1>2. {s[k].primary : k \in K} = {w[l].primary : l \in L}
  BY <1>0, <1>1
<1>3. ASSUME NEW t
      PROVE  Aggregate(s, Concerning(s, K, t), R) = Aggregate(w, Concerning(w, L, t), R)
  <2> DEFINE A == Concerning(s, K, t)
             B == Concerning(w, L, t)
  <2>1. A \in SUBSET K /\ B \in SUBSET L /\ \A k \in K : k \in A <=> f[k] \in B
    BY <1>0, <1>1 DEF Concerning
  <2>2. IsFiniteSet(A) /\ Cardinality(A) = Cardinality(B)
    <3> HIDE DEF A, B
    <3> QED
      BY <1>0, <2>1, CardinalityMoved
  <2>3. (\A l \in B : \E k \in A : f[k] = l) /\ (\A k \in A : f[k] \in B)
    BY <1>1, <2>1
  <2> HIDE DEF A, B
  <2>4. {s[k].at : k \in A} = {w[l].at : l \in B}
    BY <1>0, <2>1, <2>3
  <2>5. Cardinality(Failing(s, A)) = Cardinality(Failing(w, B))
    <3>1. Failing(s, A) \in SUBSET K /\ Failing(w, B) \in SUBSET L
          /\ \A k \in K : k \in Failing(s, A) <=> f[k] \in Failing(w, B)
      BY <1>0, <1>1, <2>1 DEF Failing
    <3> QED
      BY <1>0, <3>1, CardinalityMoved
  <2>6. ASSUME NEW r
        PROVE  Tally(s, A, r) = Tally(w, B, r)
    <3>1. {s[k].relations[r] : k \in A} = {w[l].relations[r] : l \in B}
      BY <1>0, <2>1, <2>3
    <3>2. ASSUME NEW v
          PROVE  Cardinality(Occurring(s, A, r, v)) = Cardinality(Occurring(w, B, r, v))
      <4>1. Occurring(s, A, r, v) \in SUBSET K /\ Occurring(w, B, r, v) \in SUBSET L
            /\ \A k \in K : k \in Occurring(s, A, r, v) <=> f[k] \in Occurring(w, B, r, v)
        BY <1>0, <1>1, <2>1 DEF Occurring
      <4> QED
        BY <1>0, <4>1, CardinalityMoved
    <3> DEFINE V == {s[k].relations[r] : k \in A}
               W == {w[l].relations[r] : l \in B}
    <3>3. Tally(s, A, r) = [v \in V \ {None} |-> Cardinality(Occurring(s, A, r, v))]
      BY DEF Tally
    <3>4. Tally(w, B, r) = [v \in W \ {None} |-> Cardinality(Occurring(w, B, r, v))]
      BY DEF Tally
    <3>5. V = W
      BY <3>1
    <3> HIDE DEF V, W
    <3> QED
      BY <3>2, <3>3, <3>4, <3>5
  <2>7. [r \in R |-> Tally(s, A, r)] = [r \in R |-> Tally(w, B, r)]
    BY <2>6
  <2>8. Latest(s, A) = Latest(w, B)
    BY <2>4 DEF Latest
  <2>9. Aggregate(s, A, R) = Aggregate(w, B, R)
    BY <2>2, <2>5, <2>7, <2>8 DEF Aggregate, Counting
  <2> QED
    BY <2>9 DEF A, B
<1> DEFINE V == {s[k].primary : k \in K}
           W == {w[l].primary : l \in L}
<1>4. Summary(s, K, R) = [t \in V |-> Aggregate(s, Concerning(s, K, t), R)]
  BY DEF Summary
<1>5. Summary(w, L, R) = [t \in W |-> Aggregate(w, Concerning(w, L, t), R)]
  BY DEF Summary
<1> HIDE DEF V, W
<1>6. V = W
  BY <1>2 DEF V, W
<1> QED
  BY <1>3, <1>4, <1>5, <1>6

-----------------------------------------------------------------------------
(* What leaves the window, and what comes back to it.                        *)

\* The counters after every step of an eviction are those that g lists.
LEMMA WithoutIs ==
  ASSUME NEW gone, Len(gone) \in Nat, NEW g, DOMAIN g = 0 .. Len(gone),
         g = [n \in DOMAIN g |-> g[n]],
         \A n \in 1 .. Len(gone) : RemoveReference(g[n - 1], gone[n], FALSE) = g[n]
  PROVE  Without(g[0], gone) = g[Len(gone)]
<1> DEFINE L == Len(gone)
           Body(f) == [n \in 0 .. L |-> IF n = 0 THEN g[0] ELSE RemoveReference(f[n - 1], gone[n], FALSE)]
<1>1. g = Body(g)
  <2>1. \A n \in DOMAIN g : g[n] = IF n = 0 THEN g[0] ELSE RemoveReference(g[n - 1], gone[n], FALSE)
    OBVIOUS
  <2> QED
    BY <2>1
<1>2. PICK f : f = Body(f) /\ Without(g[0], gone) = f[L]
  <2> DEFINE after == CHOOSE f : f = Body(f)
  <2>1. after = Body(after)
    <3> HIDE DEF Body
    <3> QED
      BY <1>1
  <2>2. Without(g[0], gone) = after[L]
    BY DEF Without
  <2> HIDE DEF after, Body
  <2> QED
    BY <2>1, <2>2
<1>3. \A n \in 0 .. L : f[n] = IF n = 0 THEN g[0] ELSE RemoveReference(f[n - 1], gone[n], FALSE)
  BY <1>2
<1> DEFINE holds == [m \in 0 .. L |-> f[m] = g[m]]
<1>4. holds[0]
  BY <1>3
<1>5. ASSUME NEW m \in 1 .. L, f[m - 1] = g[m - 1]
      PROVE  f[m] = g[m]
  <2>1. m \in 0 .. L /\ m # 0
    OBVIOUS
  <2>2. f[m] = RemoveReference(f[m - 1], gone[m], FALSE)
    BY <1>3, <2>1
  <2>3. g[m] = RemoveReference(g[m - 1], gone[m], FALSE)
    OBVIOUS
  <2> QED
    BY <1>5, <2>2, <2>3
<1>6. \A m \in 1 .. L : holds[m - 1] => holds[m]
  <2> SUFFICES ASSUME NEW m \in 1 .. L, holds[m - 1] PROVE holds[m]
    OBVIOUS
  <2>1. m \in 0 .. L /\ m - 1 \in 0 .. L
    OBVIOUS
  <2>2. f[m - 1] = g[m - 1]
    BY <2>1
  <2>3. f[m] = g[m]
    BY <2>2, <1>5
  <2> QED
    BY <2>1, <2>3
<1>7. holds[L]
  <2>1. holds \in [0 .. L -> BOOLEAN] /\ L \in 0 .. L
    OBVIOUS
  <2> HIDE DEF holds, L
  <2> QED
    BY <2>1, <1>4, <1>6, NoFirstFailure
<1>8. f[L] = g[L]
  BY <1>7
<1> QED
  BY <1>2, <1>8

\* The counters after every step of a restore are those that g lists.
LEMMA WithIs ==
  ASSUME NEW gone, Len(gone) \in Nat, NEW R, NEW g, DOMAIN g = 0 .. Len(gone),
         g = [n \in DOMAIN g |-> g[n]],
         \A n \in 1 .. Len(gone) : Readmitted(g[n - 1], gone[n], R) = g[n]
  PROVE  With(g[0], gone, R) = g[Len(gone)]
<1> DEFINE L == Len(gone)
           Body(f) == [n \in 0 .. L |-> IF n = 0 THEN g[0] ELSE Readmitted(f[n - 1], gone[n], R)]
<1>1. g = Body(g)
  <2>1. \A n \in DOMAIN g : g[n] = IF n = 0 THEN g[0] ELSE Readmitted(g[n - 1], gone[n], R)
    OBVIOUS
  <2> QED
    BY <2>1
<1>2. PICK f : f = Body(f) /\ With(g[0], gone, R) = f[L]
  <2> DEFINE after == CHOOSE f : f = Body(f)
  <2>1. after = Body(after)
    <3> HIDE DEF Body
    <3> QED
      BY <1>1
  <2>2. With(g[0], gone, R) = after[L]
    BY DEF With
  <2> HIDE DEF after, Body
  <2> QED
    BY <2>1, <2>2
<1>3. \A n \in 0 .. L : f[n] = IF n = 0 THEN g[0] ELSE Readmitted(f[n - 1], gone[n], R)
  BY <1>2
<1> DEFINE holds == [m \in 0 .. L |-> f[m] = g[m]]
<1>4. holds[0]
  BY <1>3
<1>5. ASSUME NEW m \in 1 .. L, f[m - 1] = g[m - 1]
      PROVE  f[m] = g[m]
  <2>1. m \in 0 .. L /\ m # 0
    OBVIOUS
  <2>2. f[m] = Readmitted(f[m - 1], gone[m], R)
    BY <1>3, <2>1
  <2>3. g[m] = Readmitted(g[m - 1], gone[m], R)
    OBVIOUS
  <2> QED
    BY <1>5, <2>2, <2>3
<1>6. \A m \in 1 .. L : holds[m - 1] => holds[m]
  <2> SUFFICES ASSUME NEW m \in 1 .. L, holds[m - 1] PROVE holds[m]
    OBVIOUS
  <2>1. m \in 0 .. L /\ m - 1 \in 0 .. L
    OBVIOUS
  <2>2. f[m - 1] = g[m - 1]
    BY <2>1
  <2>3. f[m] = g[m]
    BY <2>2, <1>5
  <2> QED
    BY <2>1, <2>3
<1>7. holds[L]
  <2>1. holds \in [0 .. L -> BOOLEAN] /\ L \in 0 .. L
    OBVIOUS
  <2> HIDE DEF holds, L
  <2> QED
    BY <2>1, <1>4, <1>6, NoFirstFailure
<1>8. f[L] = g[L]
  BY <1>7
<1> QED
  BY <1>2, <1>8

\* What the observations of a deque have.
LEMMA DequeShape ==
  ASSUME NEW s, Deque(s)
  PROVE  /\ Len(s) \in Nat /\ DOMAIN s = 1 .. Len(s)
         /\ \A k \in DOMAIN s : s[k] \in Observations /\ s[k].at \in Nat
         /\ \A j, k \in DOMAIN s : j <= k => s[j].at <= s[k].at
         /\ \A K \in SUBSET DOMAIN s : Timed(s, K)
<1>1. s \in Seq(Observations) /\ \A j, k \in DOMAIN s : j <= k => s[j].at <= s[k].at
  BY DEF Deque
<1>2. Len(s) \in Nat /\ DOMAIN s = 1 .. Len(s) /\ \A k \in DOMAIN s : s[k] \in Observations
  BY <1>1
<1>3. \A o \in Observations : o.at \in Nat
  BY EngineAssumption DEF Observations
<1>4. IsFiniteSet(1 .. Len(s))
  BY <1>2, FS_Interval
<1>5. \A K \in SUBSET DOMAIN s : IsFiniteSet(K)
  BY <1>2, <1>4, FS_Subset
<1> QED
  BY <1>1, <1>2, <1>3, <1>5 DEF Timed

\* The rest of a deque counts what the deque counts from there on.
LEMMA RestIs ==
  ASSUME NEW s, Deque(s), NEW e \in 0 .. Len(s), NEW R
  PROVE  LET rest == SubSeq(s, e + 1, Len(s))
         IN  Summary(rest, DOMAIN rest, R) = Summary(s, (e + 1) .. Len(s), R)
<1> DEFINE L == Len(s)
           rest == SubSeq(s, e + 1, L)
           f == [k \in 1 .. (L - e) |-> k + e]
<1>1. L \in Nat /\ DOMAIN s = 1 .. L /\ s \in Seq(Observations)
  BY DequeShape DEF Deque
<1>2. DOMAIN rest = 1 .. (L - e) /\ \A k \in 1 .. (L - e) : rest[k] = s[k + e]
  <2>1. e + 1 \in 1 .. (L + 1) /\ e \in Nat
    BY <1>1
  <2>2. rest = [k \in 1 .. (L - e) |-> s[k + e]]
    BY <1>1, <2>1
  <2> QED
    BY <2>2
<1>3. Pairs(f, 1 .. (L - e), (e + 1) .. L)
  <2>1. \A k \in 1 .. (L - e) : k + e \in (e + 1) .. L
    BY <1>1
  <2>2. \A l \in (e + 1) .. L : l - e \in 1 .. (L - e) /\ (l - e) + e = l
    BY <1>1
  <2>3. \A j, k \in 1 .. (L - e) : j + e = k + e => j = k
    BY <1>1
  <2> QED
    BY <2>1, <2>2, <2>3 DEF Pairs
<1>4. \A k \in 1 .. (L - e) : rest[k] = s[f[k]]
  BY <1>2
<1>5. IsFiniteSet(1 .. (L - e))
  BY <1>1, FS_Interval
<1>6. Moved(rest, 1 .. (L - e), s, (e + 1) .. L, f)
  BY <1>3, <1>4 DEF Moved
<1> HIDE DEF f, rest, L
<1>7. Summary(rest, 1 .. (L - e), R) = Summary(s, (e + 1) .. L, R)
  BY <1>5, <1>6, SummaryMoved
<1> QED
  BY <1>2, <1>7 DEF rest, L

\* An eviction leaves the counters of the rest.
LEMMA EvictedIs ==
  ASSUME NEW s, Deque(s), NEW e \in 0 .. Len(s), NEW R
  PROVE  LET rest == SubSeq(s, e + 1, Len(s))
         IN  Without(Summary(s, DOMAIN s, R), SubSeq(s, 1, e)) = Summary(rest, DOMAIN rest, R)
<1> DEFINE L == Len(s)
           gone == SubSeq(s, 1, e)
           g == [n \in 0 .. e |-> Summary(s, (n + 1) .. L, R)]
<1>1. L \in Nat /\ DOMAIN s = 1 .. L /\ s \in Seq(Observations)
  BY DequeShape DEF Deque
<1>2. Len(gone) = e /\ \A n \in 1 .. e : gone[n] = s[n]
  BY <1>1
<1>3. ASSUME NEW n \in 1 .. e
      PROVE  RemoveReference(Summary(s, n .. L, R), s[n], FALSE) = Summary(s, (n + 1) .. L, R)
  <2> DEFINE K == n .. L
             C == Concerning(s, K, s[n].primary)
             left == Concerning(s, K \ {n}, s[n].primary)
  <2>1. n \in K /\ K \in SUBSET DOMAIN s /\ K \ {n} = (n + 1) .. L
    BY <1>1
  <2>2. Timed(s, K) /\ Timed(s, C) /\ Timed(s, left) /\ IsFiniteSet(K)
    <3>1. C \in SUBSET DOMAIN s /\ left \in SUBSET DOMAIN s
      BY <2>1 DEF Concerning
    <3> HIDE DEF C, left, K
    <3> QED
      BY <2>1, <3>1, DequeShape DEF Timed
  <2>3. C = left \cup {n}
    BY <2>1 DEF Concerning
  <2>4. ASSUME left # {}
        PROVE  Latest(s, left) = Latest(s, C)
    <3> HIDE DEF left, C
    <3>1. PICK j \in left : s[j].at = Latest(s, left) /\ \A k \in left : s[k].at <= s[j].at
      BY <2>2, <2>4, LatestOf
    <3>2. s[n].at <= s[j].at
      <4>1. j \in K /\ n \in K
        BY <2>1, <3>1 DEF left, Concerning
      <4>2. n <= j /\ n \in DOMAIN s /\ j \in DOMAIN s
        BY <1>1, <4>1
      <4> QED
        BY <4>2, DequeShape
    <3>3. j \in C /\ \A k \in C : s[k].at <= s[j].at
      BY <2>3, <3>1, <3>2
    <3>4. Latest(s, C) = s[j].at
      BY <2>2, <3>3, LatestIs
    <3> QED
      BY <3>1, <3>4
  <2>5. Leaves(s, K, n, (n + 1) .. L, FALSE)
    BY <2>1, <2>4 DEF Leaves
  <2>6. RemoveReference(Summary(s, K, R), s[n], FALSE) = Summary(s, (n + 1) .. L, R)
    <3> DEFINE after == (n + 1) .. L
    <3>1. Leaves(s, K, n, after, FALSE) /\ n \in K /\ IsFiniteSet(K)
      BY <2>1, <2>2, <2>5
    <3> HIDE DEF K, after
    <3>2. RemoveReference(Summary(s, K, R), s[n], FALSE) = Summary(s, after, R)
      BY <3>1, RemovedIs, ZenonT(60)
    <3> QED
      BY <3>2 DEF after
  <2> QED
    BY <2>6
<1>4. \A n \in 1 .. e : RemoveReference(g[n - 1], gone[n], FALSE) = g[n]
  <2> SUFFICES ASSUME NEW n \in 1 .. e PROVE RemoveReference(g[n - 1], gone[n], FALSE) = g[n]
    OBVIOUS
  <2>1. n \in 0 .. e /\ n - 1 \in 0 .. e /\ (n - 1) + 1 = n
    BY <1>1
  <2>2. g[n - 1] = Summary(s, n .. L, R) /\ g[n] = Summary(s, (n + 1) .. L, R)
    BY <2>1
  <2> HIDE DEF g, gone
  <2> QED
    BY <2>2, <1>2, <1>3
<1>5. g[0] = Summary(s, DOMAIN s, R) /\ g[e] = Summary(s, (e + 1) .. L, R)
  <2>1. 0 \in 0 .. e /\ e \in 0 .. e /\ 0 + 1 = 1
    BY <1>1
  <2> QED
    BY <1>1, <2>1
<1>6. DOMAIN g = 0 .. e /\ g = [n \in DOMAIN g |-> g[n]]
  OBVIOUS
<1>7. Without(g[0], gone) = g[e]
  <2> HIDE DEF g, gone, L
  <2> QED
    BY <1>1, <1>2, <1>4, <1>6, WithoutIs
<1> HIDE DEF g, gone, L
<1>8. Without(Summary(s, DOMAIN s, R), gone) = Summary(s, (e + 1) .. L, R)
  BY <1>5, <1>7
<1> QED
  BY <1>8, RestIs DEF gone, L

\* What was evicted, put back, makes the counters what they were.
LEMMA RestoredIs ==
  ASSUME NEW s, Deque(s), NEW e \in 0 .. Len(s), NEW R
  PROVE  LET rest == SubSeq(s, e + 1, Len(s))
         IN  With(Summary(rest, DOMAIN rest, R), SubSeq(s, 1, e), R) = Summary(s, DOMAIN s, R)
<1> DEFINE L == Len(s)
           gone == SubSeq(s, 1, e)
           kept == (e + 1) .. L
           g == [n \in 0 .. e |-> Summary(s, kept \cup (1 .. n), R)]
<1>1. L \in Nat /\ DOMAIN s = 1 .. L /\ s \in Seq(Observations)
  BY DequeShape DEF Deque
<1>2. Len(gone) = e /\ \A n \in 1 .. e : gone[n] = s[n]
  BY <1>1
<1>3. ASSUME NEW n \in 1 .. e
      PROVE  Readmitted(Summary(s, kept \cup (1 .. (n - 1)), R), s[n], R)
               = Summary(s, kept \cup (1 .. n), R)
  <2> DEFINE K == kept \cup (1 .. (n - 1))
  <2>1. n \notin K /\ K \cup {n} \in SUBSET DOMAIN s /\ K \cup {n} = kept \cup (1 .. n)
    BY <1>1
  <2> HIDE DEF K
  <2>2. Timed(s, K \cup {n})
    BY <2>1, DequeShape
  <2>3. Readmitted(Summary(s, K, R), s[n], R) = Summary(s, K \cup {n}, R)
    BY <2>1, <2>2, ReadmittedIs
  <2> QED
    BY <2>1, <2>3 DEF K
<1>4. \A n \in 1 .. e : Readmitted(g[n - 1], gone[n], R) = g[n]
  <2> SUFFICES ASSUME NEW n \in 1 .. e PROVE Readmitted(g[n - 1], gone[n], R) = g[n]
    OBVIOUS
  <2>1. n \in 0 .. e /\ n - 1 \in 0 .. e
    BY <1>1
  <2>2. g[n - 1] = Summary(s, kept \cup (1 .. (n - 1)), R) /\ g[n] = Summary(s, kept \cup (1 .. n), R)
    BY <2>1
  <2> HIDE DEF g, gone, kept
  <2> QED
    BY <2>2, <1>2, <1>3
<1>5. g[0] = Summary(s, kept, R) /\ g[e] = Summary(s, DOMAIN s, R)
  <2>1. 0 \in 0 .. e /\ e \in 0 .. e
    BY <1>1
  <2>2. kept \cup (1 .. 0) = kept /\ kept \cup (1 .. e) = 1 .. L
    BY <1>1
  <2>3. g[0] = Summary(s, kept \cup (1 .. 0), R) /\ g[e] = Summary(s, kept \cup (1 .. e), R)
    BY <2>1
  <2> HIDE DEF g, kept
  <2> QED
    BY <1>1, <2>2, <2>3
<1>6. DOMAIN g = 0 .. e /\ g = [n \in DOMAIN g |-> g[n]]
  OBVIOUS
<1>7. With(g[0], gone, R) = g[e]
  <2> HIDE DEF g, gone, L
  <2> QED
    BY <1>1, <1>2, <1>4, <1>6, WithIs
<1> HIDE DEF g, gone
<1>8. With(Summary(s, kept, R), gone, R) = Summary(s, DOMAIN s, R)
  BY <1>5, <1>7
<1> QED
  BY <1>8, RestIs DEF gone

-----------------------------------------------------------------------------
(* The methods of an index.                                                  *)

\* The fields of an index.
LEMMA IndexShape ==
  ASSUME NEW s, NEW g, NEW a, NEW b
  PROVE  LET index == Index(s, g, a, b)
         IN  /\ index.observations = s /\ index.aggregates = g
             /\ index.peakObservations = a /\ index.peakEntities = b
BY DEF Index

\* An observation is expired where its time has left the window, and these are first.
LEMMA ExpiredIs ==
  ASSUME NEW index, Deque(index.observations), NEW now \in Nat, NEW window \in Nat
  PROVE  LET s == index.observations
             e == Expired(index, now, window)
         IN  e \in 0 .. Len(s) /\ \A k \in DOMAIN s : k <= e <=> s[k].at <= now - window
<1> DEFINE s == index.observations
           L == Len(s)
           E == {n \in 0 .. L : \A k \in 1 .. n : s[k].at <= now - window}
           e == Max(E)
<1>1. L \in Nat /\ DOMAIN s = 1 .. L /\ (\A k \in DOMAIN s : s[k].at \in Nat)
      /\ (\A j, k \in DOMAIN s : j <= k => s[j].at <= s[k].at)
  BY DequeShape
<1>2. Expired(index, now, window) = e
  BY DEF Expired
<1> HIDE DEF s, L
<1>3. IsFiniteSet(0 .. L) /\ E \in SUBSET (0 .. L) /\ E \subseteq Nat
  BY <1>1, FS_Interval
<1>4. 0 \in E
  BY <1>1
<1>5. e \in E /\ \A n \in E : n <= e
  <2>1. IsFiniteSet(E) /\ E # {}
    BY <1>3, <1>4, FS_Subset
  <2> HIDE DEF E
  <2> QED
    BY <1>3, <2>1, MaxOf
<1>6. ASSUME NEW k \in DOMAIN s, s[k].at <= now - window
      PROVE  k \in E
  <2>1. \A j \in 1 .. k : j \in DOMAIN s /\ s[j].at <= s[k].at
    BY <1>1
  <2>2. \A j \in 1 .. k : s[j].at <= now - window
    <3> SUFFICES ASSUME NEW j \in 1 .. k PROVE s[j].at <= now - window
      OBVIOUS
    <3>1. s[j].at <= s[k].at /\ s[j].at \in Nat /\ s[k].at \in Nat
      BY <1>1, <2>1
    <3> QED
      BY <1>6, <3>1
  <2> QED
    BY <1>1, <2>2
<1>7. \A k \in DOMAIN s : k <= e <=> s[k].at <= now - window
  <2> SUFFICES ASSUME NEW k \in DOMAIN s PROVE k <= e <=> s[k].at <= now - window
    OBVIOUS
  <2>1. k <= e => s[k].at <= now - window
    BY <1>1, <1>5
  <2>2. s[k].at <= now - window => k <= e
    BY <1>5, <1>6
  <2> QED
    BY <2>1, <2>2
<1> QED
  BY <1>2, <1>5, <1>7 DEF s, L

\* The rest of a deque is a deque, and what was before it makes it whole.
LEMMA RestShape ==
  ASSUME NEW s, Deque(s), NEW e \in 0 .. Len(s)
  PROVE  LET rest == SubSeq(s, e + 1, Len(s))
             gone == SubSeq(s, 1, e)
         IN  /\ Deque(rest) /\ Len(gone) = e /\ gone \o rest = s
             /\ DOMAIN rest = 1 .. (Len(s) - e) /\ \A k \in DOMAIN rest : rest[k] = s[k + e]
<1> DEFINE L == Len(s)
           rest == SubSeq(s, e + 1, L)
           gone == SubSeq(s, 1, e)
<1>1. L \in Nat /\ DOMAIN s = 1 .. L /\ s \in Seq(Observations)
      /\ (\A j, k \in DOMAIN s : j <= k => s[j].at <= s[k].at)
  BY DequeShape DEF Deque
<1>2. rest \in Seq(Observations) /\ Len(rest) = L - e /\ \A k \in 1 .. (L - e) : rest[k] = s[k + e]
  <2>1. e + 1 \in Int /\ L \in Int /\ \A k \in (e + 1) .. L : s[k] \in Observations
    BY <1>1
  <2>2. /\ rest \in Seq(Observations)
        /\ Len(rest) = IF e + 1 <= L THEN L - (e + 1) + 1 ELSE 0
        /\ \A k \in 1 .. L - (e + 1) + 1 : rest[k] = s[e + 1 + k - 1]
    BY <2>1, SubSeqProperties
  <2>3. L \in Nat /\ e \in 0 .. L
    BY <1>1
  <2> HIDE DEF rest, L
  <2>4. (IF e + 1 <= L THEN L - (e + 1) + 1 ELSE 0) = L - e /\ L - (e + 1) + 1 = L - e
    BY <2>3
  <2>5. \A k \in 1 .. (L - e) : e + 1 + k - 1 = k + e
    BY <2>3
  <2> QED
    BY <2>2, <2>4, <2>5
<1>3. Len(gone) = e
  BY <1>1
<1>4. Deque(rest)
  <2> HIDE DEF rest
  <2>1. \A k \in DOMAIN rest : k \in 1 .. (L - e) /\ k + e \in DOMAIN s /\ k \in Int
    BY <1>1, <1>2
  <2>2. ASSUME NEW j \in DOMAIN rest, NEW k \in DOMAIN rest, j <= k
        PROVE  rest[j].at <= rest[k].at
    <3>1. j + e <= k + e /\ j + e \in DOMAIN s /\ k + e \in DOMAIN s
      BY <2>1, <2>2
    <3>2. rest[j] = s[j + e] /\ rest[k] = s[k + e]
      BY <1>2, <2>1, Zenon
    <3> QED
      BY <1>1, <3>1, <3>2
  <2> QED
    BY <1>2, <2>2 DEF Deque
<1>5. gone \o rest = s
  <2>1. SubSeq(s, 1, e) \o SubSeq(s, e + 1, L) = SubSeq(s, 1, L)
    <3>1. 1 \in 1 .. Len(s) + 1 /\ e \in 1 - 1 .. Len(s) /\ L \in e .. Len(s)
      BY <1>1
    <3> QED
      BY <1>1, <3>1, ConcatAdjacentSubSeq, Zenon
  <2>2. SubSeq(s, 1, L) = s
    BY <1>1
  <2>3. gone \o rest = SubSeq(s, 1, L)
    BY <2>1, Zenon
  <2> HIDE DEF gone, rest, L
  <2> QED
    BY <2>2, <2>3
<1>6. DOMAIN rest = 1 .. (L - e)
  <2> HIDE DEF rest
  <2> QED
    BY <1>1, <1>2
<1> QED
  BY <1>2, <1>3, <1>4, <1>5, <1>6

\* An eviction leaves a sound index of the rest, and restoring undoes it.
LEMMA EvictIs ==
  ASSUME NEW s, Deque(s), NEW i, NEW a, NEW b, NEW now \in Nat, NEW window \in Nat
  PROVE  LET index == IndexOf(s, i, a, b)
             e == Expired(index, now, window)
             rest == SubSeq(s, e + 1, Len(s))
         IN  /\ Evicted(index, now, window) = SubSeq(s, 1, e)
             /\ Evict(index, now, window) = IndexOf(rest, i, a, b)
             /\ RestoreEvicted(IndexOf(rest, i, a, b), SubSeq(s, 1, e), RelationsOf(i)) = index
<1> DEFINE index == IndexOf(s, i, a, b)
           e == Expired(index, now, window)
           rest == SubSeq(s, e + 1, Len(s))
           gone == SubSeq(s, 1, e)
           R == RelationsOf(i)
<1>1. index.observations = s /\ index.aggregates = Summary(s, DOMAIN s, R)
  BY DEF IndexOf, Index
<1>2. e \in 0 .. Len(s)
  <2>1. Deque(index.observations)
    BY <1>1
  <2> QED
    BY <1>1, <2>1, ExpiredIs
<1>3. Len(gone) = e /\ gone \o rest = s
  BY <1>2, RestShape
<1>4. Without(Summary(s, DOMAIN s, R), gone) = Summary(rest, DOMAIN rest, R)
  BY <1>2, EvictedIs
<1>5. With(Summary(rest, DOMAIN rest, R), gone, R) = Summary(s, DOMAIN s, R)
  BY <1>2, RestoredIs
<1>6. Evicted(index, now, window) = gone
  BY <1>1 DEF Evicted
<1>7. Evict(index, now, window) =
        [index EXCEPT !.observations = SubSeq(index.observations, Len(gone) + 1, Len(index.observations)),
                      !.aggregates = Without(index.aggregates, gone)]
  BY <1>6 DEF Evict
<1>8. RestoreEvicted(IndexOf(rest, i, a, b), gone, R) =
        [IndexOf(rest, i, a, b) EXCEPT
            !.observations = gone \o IndexOf(rest, i, a, b).observations,
            !.aggregates = With(IndexOf(rest, i, a, b).aggregates, gone, R)]
  BY DEF RestoreEvicted
<1>9. SubSeq(index.observations, Len(gone) + 1, Len(index.observations)) = rest
  BY <1>1, <1>3
<1>10. IndexOf(rest, i, a, b).observations = rest
       /\ IndexOf(rest, i, a, b).aggregates = Summary(rest, DOMAIN rest, R)
  BY DEF IndexOf, Index
<1> HIDE DEF gone, rest, R
<1>11. Evict(index, now, window) =
         [index EXCEPT !.observations = rest, !.aggregates = Summary(rest, DOMAIN rest, R)]
  BY <1>1, <1>4, <1>7, <1>9
<1>12. RestoreEvicted(IndexOf(rest, i, a, b), gone, R) =
         [IndexOf(rest, i, a, b) EXCEPT !.observations = s, !.aggregates = Summary(s, DOMAIN s, R)]
  BY <1>3, <1>5, <1>8, <1>10
<1> DEFINE m == Summary(s, DOMAIN s, R)
           n == Summary(rest, DOMAIN rest, R)
<1>13. index = Index(s, m, a, b) /\ IndexOf(rest, i, a, b) = Index(rest, n, a, b)
  BY DEF IndexOf, R
<1> HIDE DEF m, n, index
<1>14. Evict(index, now, window) = IndexOf(rest, i, a, b)
  <2>1. Evict(index, now, window) = [index EXCEPT !.observations = rest, !.aggregates = n]
    BY <1>11 DEF n
  <2>2. [Index(s, m, a, b) EXCEPT !.observations = rest] = Index(rest, m, a, b)
    BY DEF Index
  <2>3. [Index(rest, m, a, b) EXCEPT !.aggregates = n] = Index(rest, n, a, b)
    BY DEF Index
  <2> QED
    BY <2>1, <2>2, <2>3, <1>13
<1>15. RestoreEvicted(IndexOf(rest, i, a, b), gone, R) = index
  <2>1. RestoreEvicted(IndexOf(rest, i, a, b), gone, R) =
          [IndexOf(rest, i, a, b) EXCEPT !.observations = s, !.aggregates = m]
    BY <1>12 DEF m
  <2>2. [Index(rest, n, a, b) EXCEPT !.observations = s] = Index(s, n, a, b)
    BY DEF Index
  <2>3. [Index(s, n, a, b) EXCEPT !.aggregates = m] = Index(s, m, a, b)
    BY DEF Index
  <2> QED
    BY <2>1, <2>2, <2>3, <1>13
<1> QED
  BY <1>6, <1>14, <1>15 DEF gone, rest, R, index

\* One observation at the end of a deque.
LEMMA AppendShape ==
  ASSUME NEW s, Deque(s), NEW o \in Observations, \A k \in DOMAIN s : s[k].at <= o.at
  PROVE  LET w == Append(s, o)
             n == Len(s) + 1
         IN  /\ Deque(w) /\ Len(w) = n /\ DOMAIN w = DOMAIN s \cup {n} /\ n \notin DOMAIN s
             /\ w[n] = o /\ \A k \in DOMAIN s : w[k] = s[k]
             /\ Front(w) = s /\ Last(w) = o
<1> DEFINE w == Append(s, o)
           n == Len(s) + 1
<1>1. Len(s) \in Nat /\ DOMAIN s = 1 .. Len(s) /\ s \in Seq(Observations)
      /\ (\A k \in DOMAIN s : s[k].at \in Nat)
      /\ (\A j, k \in DOMAIN s : j <= k => s[j].at <= s[k].at)
  BY DequeShape DEF Deque
<1>2. w \in Seq(Observations) /\ Len(w) = n /\ w[n] = o /\ \A k \in 1 .. Len(s) : w[k] = s[k]
  BY <1>1, AppendProperties
<1>3. DOMAIN w = 1 .. n
  <2> HIDE DEF w
  <2> QED
    BY <1>1, <1>2
<1>4. 1 .. n = 1 .. Len(s) \cup {n} /\ n \notin 1 .. Len(s)
  BY <1>1
<1> HIDE DEF w
<1>5. o.at \in Nat
  BY EngineAssumption DEF Observations
<1>6. Deque(w)
  <2>1. ASSUME NEW j \in DOMAIN w, NEW k \in DOMAIN w, j <= k
        PROVE  w[j].at <= w[k].at
    <3>1. CASE k \in DOMAIN s /\ j \in DOMAIN s
      BY <3>1, <2>1, <1>1, <1>2
    <3>2. CASE k = n /\ j \in DOMAIN s
      BY <3>2, <1>1, <1>2
    <3>3. CASE k = n /\ j = n
      BY <3>3, <1>2, <1>5
    <3>4. CASE k \in DOMAIN s /\ j = n
      BY <3>4, <2>1, <1>1
    <3> QED
      BY <1>1, <1>3, <1>4, <3>1, <3>2, <3>3, <3>4
  <2> QED
    BY <1>2, <2>1 DEF Deque
<1>7. Front(w) = s /\ Last(w) = o
  <2>1. Last(w) = o
    BY <1>2 DEF Last
  <2>2. n - 1 = Len(s)
    BY <1>1
  <2>3. Front(w) = SubSeq(w, 1, Len(s))
    BY <1>2, <2>2 DEF Front
  <2>4. SubSeq(w, 1, Len(s)) = [k \in 1 .. Len(s) |-> w[k]]
    BY <1>1, <1>2
  <2>5. s = [k \in 1 .. Len(s) |-> s[k]]
    BY <1>1
  <2> QED
    BY <1>2, <2>1, <2>3, <2>4, <2>5
<1> QED
  BY <1>1, <1>2, <1>3, <1>4, <1>6, <1>7 DEF w

\* The counters of the observations before the last.
LEMMA SummaryBefore ==
  ASSUME NEW s, Deque(s), NEW w, \A k \in DOMAIN s : w[k] = s[k], NEW R
  PROVE  Summary(w, DOMAIN s, R) = Summary(s, DOMAIN s, R)
<1> DEFINE K == DOMAIN s
           f == [k \in K |-> k]
<1>1. IsFiniteSet(K)
  BY DequeShape DEF Timed
<1>2. Moved(w, K, s, K, f)
  BY DEF Moved, Pairs
<1> HIDE DEF K, f
<1>3. Summary(w, K, R) = Summary(s, K, R)
  BY <1>1, <1>2, SummaryMoved
<1> QED
  BY <1>3 DEF K

\* No observation of s is later than some time.
NotLater(s, at) == \A k \in DOMAIN s : s[k].at <= at

\* What the token of observation o was last seen at, before it.
PreviousOf(s, o) ==
    LET those == Concerning(s, DOMAIN s, o.primary)
    IN  IF those = {} THEN None ELSE Latest(s, those)

\* An attempt that has a token, and what index i is told of it.
Attempted(i, at, token, failed, related) ==
    /\ at \in Times /\ token \in AllTokens /\ token # None /\ failed \in BOOLEAN
    /\ RelationsOf(i) \in SUBSET Entities /\ related \in [RelationsOf(i) -> AllTokens]

\* The observation that an attempt makes after those of s.
Records(s, o, at, token, failed, related) ==
    /\ o \in Observations
    /\ o.at = at /\ o.primary = token /\ o.failed = failed /\ o.relations = related
    /\ o.previous = PreviousOf(s, o)

\* An attempt that is observed enters the deque and is counted.
LEMMA ObserveIs ==
  ASSUME NEW s, Deque(s), NEW i, NEW a, NEW b, NEW at, NEW token, NEW failed, NEW related,
         Attempted(i, at, token, failed, related), NotLater(s, at)
  PROVE  \E o : /\ Records(s, o, at, token, failed, related)
                /\ Observe(IndexOf(s, i, a, b), at, token, failed, related)
                     = IndexOf(Append(s, o), i, a, b)
<1> DEFINE R == RelationsOf(i)
           index == IndexOf(s, i, a, b)
           m == Summary(s, DOMAIN s, R)
           C == Concerning(s, DOMAIN s, token)
           before == Counters(m, token, R, at)
           previous == IF token \in DOMAIN m THEN before.last ELSE None
           o == [at |-> at, primary |-> token, failed |-> failed, relations |-> related,
                 previous |-> previous]
           w == Append(s, o)
           n == Len(s) + 1
           p == Summary(w, DOMAIN w, R)
<1>0. /\ at \in Times /\ token \in AllTokens /\ token # None /\ failed \in BOOLEAN
      /\ R \in SUBSET Entities /\ related \in [R -> AllTokens]
  BY DEF Attempted
<1>1. /\ token \in DOMAIN m <=> C # {}
      /\ before = IF C = {} THEN Counting(s, {}, R, at) ELSE Counting(s, C, R, Latest(s, C))
  BY CountersOf
<1>2. previous = IF C = {} THEN None ELSE Latest(s, C)
  <2>1. Counting(s, C, R, Latest(s, C)).last = Latest(s, C)
    BY DEF Counting
  <2> HIDE DEF C, m, before
  <2> QED
    BY <1>1, <2>1
<1>3. previous \in Times \cup {None}
  <2>1. CASE C = {}
    BY <2>1, <1>2
  <2>2. CASE C # {}
    <3>1. C \in SUBSET DOMAIN s
      BY DEF Concerning
    <3>2. Timed(s, C)
      BY <3>1, DequeShape
    <3>3. PICK k \in C : s[k].at = Latest(s, C)
      BY <2>2, <3>2, LatestOf
    <3>4. s[k] \in Observations
      BY <3>1, DequeShape
    <3>5. s[k].at \in Times
      BY <3>4 DEF Observations
    <3> QED
      BY <2>2, <1>2, <3>3, <3>5
  <2> QED
    BY <2>1, <2>2
<1>4. o \in Observations
  <2>1. related \in UNION {[Q -> AllTokens] : Q \in SUBSET Entities}
    BY <1>0
  <2> HIDE DEF previous
  <2> QED
    BY <1>0, <1>3, <2>1 DEF Observations
<1>5. o.at = at /\ o.primary = token /\ o.failed = failed /\ o.relations = related /\ o.previous = previous
  <2> HIDE DEF previous
  <2> QED
    OBVIOUS
<1>6. PreviousOf(s, o) = previous
  <2> HIDE DEF o, previous
  <2> QED
    BY <1>2, <1>5 DEF PreviousOf
<1>7. Observe(index, at, token, failed, related) =
        [index EXCEPT !.observations = Append(index.observations, o),
                      !.aggregates = Put(index.aggregates, token, [Counted(before, o) EXCEPT !.last = at])]
  <2>1. index.aggregates = m /\ DOMAIN related = R
    BY <1>0 DEF IndexOf, Index
  <2>2. Observe(index, at, token, failed, related) =
          LET before0 == Counters(index.aggregates, token, DOMAIN related, at)
              o0 == [at |-> at, primary |-> token, failed |-> failed, relations |-> related,
                     previous |-> IF token \in DOMAIN index.aggregates THEN before0.last ELSE None]
          IN  [index EXCEPT !.observations = Append(index.observations, o0),
                            !.aggregates = Put(index.aggregates, token, [Counted(before0, o0) EXCEPT !.last = at])]
    BY <1>0 DEF Observe
  <2> HIDE DEF index, m, R
  <2> QED
    BY <2>1, <2>2
<1>8. p = Put(m, token, [Counted(before, o) EXCEPT !.last = at])
  <2> HIDE DEF o
  <2>1. /\ Deque(w) /\ DOMAIN w = DOMAIN s \cup {n} /\ n \notin DOMAIN s
        /\ w[n] = o /\ \A k \in DOMAIN s : w[k] = s[k]
    BY <1>4, <1>5, AppendShape DEF NotLater
  <2> HIDE DEF w, n
  <2>2. Summary(w, DOMAIN s, R) = m
    BY <2>1, SummaryBefore
  <2>3. Timed(w, DOMAIN s \cup {n})
    BY <2>1, DequeShape
  <2>4. \A k \in DOMAIN s : w[k].at <= w[n].at
    BY <2>1, <1>5 DEF NotLater
  <2> DEFINE K == DOMAIN s
  <2> HIDE DEF K, R
  <2>5. LET bef == Counters(Summary(w, K, R), w[n].primary, R, w[n].at)
        IN  Put(Summary(w, K, R), w[n].primary, [Counted(bef, w[n]) EXCEPT !.last = w[n].at])
              = Summary(w, K \cup {n}, R)
    BY <2>1, <2>3, <2>4, ObservedIs DEF K
  <2>6. w[n].primary = token /\ w[n].at = at /\ w[n] = o /\ Summary(w, K, R) = m /\ K \cup {n} = DOMAIN w
    BY <2>1, <2>2, <1>5 DEF K
  <2> HIDE DEF m
  <2> QED
    BY <2>5, <2>6
<1>9. Observe(index, at, token, failed, related) = IndexOf(w, i, a, b)
  <2> HIDE DEF o
  <2>1. index = Index(s, m, a, b) /\ IndexOf(w, i, a, b) = Index(w, p, a, b)
    BY DEF IndexOf
  <2>2. index.observations = s /\ index.aggregates = m
    BY DEF IndexOf, Index
  <2> HIDE DEF index, m, p, w, before
  <2>3. Observe(index, at, token, failed, related) = [index EXCEPT !.observations = w, !.aggregates = p]
    BY <1>7, <1>8, <2>2 DEF w
  <2>4. [Index(s, m, a, b) EXCEPT !.observations = w] = Index(w, m, a, b)
    BY DEF Index
  <2>5. [Index(w, m, a, b) EXCEPT !.aggregates = p] = Index(w, p, a, b)
    BY DEF Index
  <2> QED
    BY <2>1, <2>3, <2>4, <2>5
<1> HIDE DEF o, previous
<1> QED
  BY <1>4, <1>5, <1>6, <1>9 DEF Records

\* Taking the last observation back leaves the index as it was before.
LEMMA RollbackIs ==
  ASSUME NEW s, Deque(s), NEW i, NEW a, NEW b, NEW o \in Observations,
         \A k \in DOMAIN s : s[k].at <= o.at, o.previous = PreviousOf(s, o)
  PROVE  RollbackTo(IndexOf(Append(s, o), i, a, b), Len(s)) = IndexOf(s, i, a, b)
<1> DEFINE R == RelationsOf(i)
           w == Append(s, o)
           n == Len(s) + 1
           K == DOMAIN w
           L == DOMAIN s
           index == IndexOf(w, i, a, b)
           p == Summary(w, K, R)
           m == Summary(s, L, R)
<1>1. /\ Deque(w) /\ Len(w) = n /\ K = L \cup {n} /\ n \notin L
      /\ w[n] = o /\ (\A k \in L : w[k] = s[k]) /\ Front(w) = s /\ Last(w) = o
  BY AppendShape
<1>2. index.observations = w /\ index.aggregates = p
  BY DEF IndexOf, Index
<1>3. Len(s) \in Nat /\ n # Len(s)
  BY DequeShape
<1> HIDE DEF w, n
<1>4. Timed(w, K) /\ IsFiniteSet(K)
  BY <1>1, DequeShape DEF Timed
<1>5. Leaves(w, K, n, L, TRUE)
  <2>1. L = K \ {n}
    BY <1>1
  <2>2. Concerning(w, L, o.primary) = Concerning(s, L, o.primary)
    BY <1>1 DEF Concerning
  <2> DEFINE C == Concerning(s, L, o.primary)
  <2>3. {w[k].at : k \in C} = {s[k].at : k \in C}
    BY <1>1 DEF Concerning
  <2>4. Latest(w, C) = Latest(s, C)
    BY <2>3 DEF Latest
  <2>5. C # {} => o.previous = Latest(s, C)
    BY DEF PreviousOf
  <2> HIDE DEF C, L, K
  <2> QED
    BY <1>1, <2>1, <2>2, <2>4, <2>5 DEF Leaves, C
<1>6. RemoveReference(p, o, TRUE) = m
  <2> HIDE DEF K, L, R
  <2>1. RemoveReference(Summary(w, K, R), w[n], TRUE) = Summary(w, L, R)
    <3>1. n \in K /\ IsFiniteSet(K) /\ Leaves(w, K, n, L, TRUE)
      BY <1>1, <1>4, <1>5
    <3> QED
      BY <3>1, RemovedIs, ZenonT(60)
  <2>2. Summary(w, L, R) = m
    BY <1>1, SummaryBefore DEF L
  <2> QED
    BY <1>1, <2>1, <2>2
<1>7. RollbackTo(index, Len(s)) =
        [index EXCEPT !.observations = s, !.aggregates = m]
  <2>1. RollbackTo(index, Len(s)) =
          [index EXCEPT !.observations = Front(index.observations),
                        !.aggregates = RemoveReference(index.aggregates, Last(index.observations), TRUE)]
    <3> HIDE DEF index
    <3> QED
      BY <1>1, <1>2, <1>3 DEF RollbackTo
  <2> HIDE DEF index, p, m
  <2> QED
    BY <1>1, <1>2, <1>6, <2>1
<1>8. index = Index(w, p, a, b) /\ IndexOf(s, i, a, b) = Index(s, m, a, b)
  BY DEF IndexOf
<1> HIDE DEF index, p, m
<1>9. [Index(w, p, a, b) EXCEPT !.observations = s] = Index(s, p, a, b)
  BY DEF Index
<1>10. [Index(s, p, a, b) EXCEPT !.aggregates = m] = Index(s, m, a, b)
  BY DEF Index
<1> QED
  BY <1>7, <1>8, <1>9, <1>10 DEF index, w

-----------------------------------------------------------------------------
(* The events of the window.                                                 *)

\* What the indexes are.
LEMMA IndexesAre ==
  /\ \A i \in Indexes : /\ i[1] \in Entities /\ i[2] \in Nat /\ i[2] > 0 /\ i[2] <= Long
                        /\ RelationsOf(i) \in SUBSET Entities
  /\ <<"checkout", Long>> \in Indexes
  /\ \A x \in Entities \ {"checkout"} : <<x, Medium>> \in Indexes
<1>1. Indexes = {<<"merchant", Short>>, <<"device", Short>>, <<"network", Short>>,
                 <<"merchant", Medium>>, <<"device", Medium>>, <<"network", Medium>>,
                 <<"merchant", Long>>, <<"device", Long>>, <<"network", Long>>,
                 <<"instrument", Medium>>, <<"instrument", Long>>,
                 <<"session", Short>>, <<"session", Medium>>, <<"checkout", Long>>}
  BY DEF Indexes, Order, ToSet
<1>2. Short \in Nat /\ Medium \in Nat /\ Long \in Nat
      /\ Short > 0 /\ Medium > 0 /\ Long > 0 /\ Short <= Long /\ Medium <= Long
  BY EngineAssumption
<1>3. \A i \in Indexes : i[1] \in Entities /\ i[2] \in {Short, Medium, Long}
  BY <1>1 DEF Entities
<1>4. \A i : i[1] \in Entities => RelationsOf(i) \in SUBSET Entities
  BY DEF Entities, RelationsOf
<1>5. <<"checkout", Long>> \in Indexes
  BY <1>1
<1>6. \A x \in Entities \ {"checkout"} : <<x, Medium>> \in Indexes
  BY <1>1 DEF Entities
<1> QED
  BY <1>2, <1>3, <1>4, <1>5, <1>6

\* The events of a window, by their positions.
LEMMA WithinShape ==
  ASSUME NEW events \in Seq(EventsAt), NEW i \in Indexes, NEW now \in Nat
  PROVE  /\ Within(events, i, now) \in SUBSET DOMAIN events
         /\ DOMAIN events = 1 .. Len(events) /\ Len(events) \in Nat
         /\ IsFiniteSet(Within(events, i, now))
         /\ \A p \in DOMAIN events : events[p] \in EventsAt /\ events[p].at \in Nat
         /\ \A p \in DOMAIN events : p \in Within(events, i, now) <=>
                events[p].at > now - i[2] /\ events[p].attempt[i[1]] # None
<1>1. DOMAIN events = 1 .. Len(events) /\ Len(events) \in Nat
      /\ \A p \in DOMAIN events : events[p] \in EventsAt
  OBVIOUS
<1>2. \A e \in EventsAt : e.at \in Nat
  BY EngineAssumption DEF EventsAt
<1>3. Within(events, i, now) \in SUBSET DOMAIN events
  BY DEF Within
<1>4. IsFiniteSet(1 .. Len(events))
  BY <1>1, FS_Interval
<1>5. IsFiniteSet(Within(events, i, now))
  BY <1>1, <1>3, <1>4, FS_Subset
<1>6. \A p \in DOMAIN events : p \in Within(events, i, now) <=>
          events[p].at > now - i[2] /\ events[p].attempt[i[1]] # None
  BY DEF Within
<1> QED
  BY <1>1, <1>2, <1>3, <1>5, <1>6

\* The deque without what expired lists the events of the later window.
LEMMA ListsRest ==
  ASSUME NEW s, Deque(s), NEW events \in Seq(EventsAt), NEW i \in Indexes,
         NEW earlier \in Nat, NEW now \in Nat, earlier <= now, Lists(s, events, i, earlier),
         NEW e \in 0 .. Len(s), \A k \in DOMAIN s : k <= e <=> s[k].at <= now - i[2]
  PROVE  Lists(SubSeq(s, e + 1, Len(s)), events, i, now)
<1> DEFINE rest == SubSeq(s, e + 1, Len(s))
           old == Within(events, i, earlier)
           new == Within(events, i, now)
<1>1. DOMAIN rest = 1 .. (Len(s) - e) /\ \A k \in DOMAIN rest : rest[k] = s[k + e]
  BY RestShape
<1>2. Len(s) \in Nat /\ DOMAIN s = 1 .. Len(s) /\ \A k \in DOMAIN s : s[k].at \in Nat
  BY DequeShape
<1>3. i[2] \in Nat
  BY IndexesAre
<1>4. PICK f \in [DOMAIN s -> old] :
        /\ \A p \in old : \E k \in DOMAIN s : f[k] = p
        /\ \A j, k \in DOMAIN s : j < k => f[j] < f[k]
        /\ \A k \in DOMAIN s :
            /\ s[k].at = events[f[k]].at
            /\ s[k].primary = events[f[k]].attempt[i[1]]
            /\ s[k].failed = events[f[k]].attempt.failed
            /\ \A r \in RelationsOf(i) : s[k].relations[r] = events[f[k]].attempt[r]
  BY DEF Lists
<1> DEFINE g == [k \in DOMAIN rest |-> f[k + e]]
<1> HIDE DEF rest, old, new
<1>5. \A k \in DOMAIN rest : k + e \in DOMAIN s /\ ~(k + e <= e) /\ k \in Int
  BY <1>1, <1>2
<1>6. \A p \in old : p \in DOMAIN events /\ events[p].attempt[i[1]] # None
  BY WithinShape DEF old
<1>7. g \in [DOMAIN rest -> new]
  <2> SUFFICES ASSUME NEW k \in DOMAIN rest PROVE f[k + e] \in new
    OBVIOUS
  <2>1. f[k + e] \in old /\ k + e \in DOMAIN s /\ s[k + e].at = events[f[k + e]].at
    BY <1>4, <1>5
  <2>2. ~(s[k + e].at <= now - i[2]) /\ s[k + e].at \in Nat
    BY <1>2, <1>5
  <2>3. events[f[k + e]].at > now - i[2]
    BY <2>1, <2>2, <1>3
  <2> QED
    BY <2>1, <2>3, <1>6, WithinShape DEF new
<1>8. \A p \in new : \E k \in DOMAIN rest : g[k] = p
  <2> SUFFICES ASSUME NEW p \in new PROVE \E k \in DOMAIN rest : g[k] = p
    OBVIOUS
  <2>1. p \in DOMAIN events /\ events[p].at > now - i[2] /\ events[p].attempt[i[1]] # None
        /\ events[p].at \in Nat
    BY WithinShape DEF new
  <2>2. events[p].at > earlier - i[2]
    BY <2>1, <1>3
  <2>3. p \in old
    BY <2>1, <2>2, WithinShape DEF old
  <2>4. PICK k \in DOMAIN s : f[k] = p
    BY <2>3, <1>4
  <2>5. s[k].at > now - i[2] /\ s[k].at \in Nat
    BY <2>1, <2>4, <1>2, <1>4
  <2>6. ~(k <= e) /\ k \in 1 .. Len(s)
    BY <2>5, <1>2, <1>3
  <2>7. k - e \in DOMAIN rest /\ (k - e) + e = k
    BY <2>6, <1>1, <1>2
  <2>8. g[k - e] = p
    BY <2>4, <2>7
  <2> QED
    BY <2>7, <2>8
<1>9. \A j, k \in DOMAIN rest : j < k => g[j] < g[k]
  <2> SUFFICES ASSUME NEW j \in DOMAIN rest, NEW k \in DOMAIN rest, j < k PROVE g[j] < g[k]
    OBVIOUS
  <2>1. j + e < k + e /\ j + e \in DOMAIN s /\ k + e \in DOMAIN s
    BY <1>5
  <2> QED
    BY <2>1, <1>4
<1>10. \A k \in DOMAIN rest :
         /\ rest[k].at = events[g[k]].at
         /\ rest[k].primary = events[g[k]].attempt[i[1]]
         /\ rest[k].failed = events[g[k]].attempt.failed
         /\ \A r \in RelationsOf(i) : rest[k].relations[r] = events[g[k]].attempt[r]
  BY <1>1, <1>4, <1>5
<1> HIDE DEF g
<1> QED
  BY <1>7, <1>8, <1>9, <1>10 DEF Lists, rest, new

\* The window after one more event has that event, unless its token is missing.
LEMMA WithinAppend ==
  ASSUME NEW events \in Seq(EventsAt), NEW e \in EventsAt, NEW i \in Indexes
  PROVE  LET n == Len(events) + 1
             longer == Append(events, e)
         IN  /\ Within(longer, i, e.at) =
                  IF e.attempt[i[1]] = None THEN Within(events, i, e.at)
                                            ELSE Within(events, i, e.at) \cup {n}
             /\ longer \in Seq(EventsAt) /\ longer[n] = e /\ n \notin DOMAIN events
             /\ \A p \in DOMAIN events : longer[p] = events[p] /\ p < n
<1> DEFINE n == Len(events) + 1
           longer == Append(events, e)
           old == Within(events, i, e.at)
<1>1. e.at \in Nat /\ i[2] \in Nat /\ i[2] > 0
  BY EngineAssumption, IndexesAre DEF EventsAt
<1>2. /\ old \in SUBSET DOMAIN events /\ DOMAIN events = 1 .. Len(events) /\ Len(events) \in Nat
      /\ \A p \in DOMAIN events : p \in old <=>
            events[p].at > e.at - i[2] /\ events[p].attempt[i[1]] # None
  BY <1>1, WithinShape
<1>3. longer \in Seq(EventsAt) /\ Len(longer) = n /\ longer[n] = e
      /\ \A p \in 1 .. Len(events) : longer[p] = events[p]
  BY <1>2, AppendProperties
<1> HIDE DEF longer, old
<1>4. DOMAIN longer = DOMAIN events \cup {n} /\ n \notin DOMAIN events
      /\ \A p \in DOMAIN events : p < n
  BY <1>2, <1>3
<1>5. \A p \in DOMAIN longer : p \in Within(longer, i, e.at) <=>
          longer[p].at > e.at - i[2] /\ longer[p].attempt[i[1]] # None
  BY DEF Within
<1>6. Within(longer, i, e.at) \in SUBSET DOMAIN longer
  BY DEF Within
<1>7. \A p \in DOMAIN events : p \in Within(longer, i, e.at) <=> p \in old
  BY <1>2, <1>3, <1>4, <1>5
<1>8. n \in Within(longer, i, e.at) <=> e.attempt[i[1]] # None
  BY <1>1, <1>3, <1>4, <1>5
<1>9. Within(longer, i, e.at) = IF e.attempt[i[1]] = None THEN old ELSE old \cup {n}
  <2> DEFINE new == Within(longer, i, e.at)
  <2>1. new \subseteq DOMAIN events \cup {n} /\ old \subseteq DOMAIN events /\ n \notin DOMAIN events
    BY <1>2, <1>4, <1>6
  <2>2. (\A p \in DOMAIN events : p \in new <=> p \in old) /\ (n \in new <=> e.attempt[i[1]] # None)
    BY <1>7, <1>8
  <2> HIDE DEF new, n
  <2>3. e.attempt[i[1]] = None => new = old
    BY <2>1, <2>2
  <2>4. e.attempt[i[1]] # None => new = old \cup {n}
    BY <2>1, <2>2
  <2> QED
    BY <2>3, <2>4 DEF new
<1> QED
  BY <1>2, <1>3, <1>4, <1>9 DEF longer, old

\* An event that has no token of the index is not in its window.
LEMMA ListsSkip ==
  ASSUME NEW s, NEW events \in Seq(EventsAt), NEW e \in EventsAt, NEW i \in Indexes,
         Lists(s, events, i, e.at), e.attempt[i[1]] = None
  PROVE  Lists(s, Append(events, e), i, e.at)
<1> DEFINE longer == Append(events, e)
           old == Within(events, i, e.at)
<1>1. Within(longer, i, e.at) = old
  BY WithinAppend
<1>2. \A p \in old : longer[p] = events[p]
  <2>1. \A p \in old : p \in DOMAIN events
    BY DEF Within
  <2> QED
    BY <2>1, WithinAppend
<1> HIDE DEF longer, old
<1>3. PICK f \in [DOMAIN s -> old] :
        /\ \A p \in old : \E k \in DOMAIN s : f[k] = p
        /\ \A j, k \in DOMAIN s : j < k => f[j] < f[k]
        /\ \A k \in DOMAIN s :
            /\ s[k].at = events[f[k]].at
            /\ s[k].primary = events[f[k]].attempt[i[1]]
            /\ s[k].failed = events[f[k]].attempt.failed
            /\ \A r \in RelationsOf(i) : s[k].relations[r] = events[f[k]].attempt[r]
  BY DEF Lists, old
<1>4. \A k \in DOMAIN s : longer[f[k]] = events[f[k]]
  BY <1>2, <1>3
<1> DEFINE new == Within(longer, i, e.at)
<1>5. old = new
  BY <1>1 DEF longer
<1> HIDE DEF new
<1>6. f \in [DOMAIN s -> new] /\ \A p \in new : \E k \in DOMAIN s : f[k] = p
  BY <1>3, <1>5
<1>7. \A k \in DOMAIN s :
        /\ s[k].at = longer[f[k]].at
        /\ s[k].primary = longer[f[k]].attempt[i[1]]
        /\ s[k].failed = longer[f[k]].attempt.failed
        /\ \A r \in RelationsOf(i) : s[k].relations[r] = longer[f[k]].attempt[r]
  BY <1>3, <1>4
<1> QED
  BY <1>3, <1>6, <1>7 DEF Lists, longer, new

\* The observation of an event joins the deque as the event joins the window.
LEMMA ListsAppend ==
  ASSUME NEW s, Deque(s), NEW events \in Seq(EventsAt), NEW e \in EventsAt, NEW i \in Indexes,
         Lists(s, events, i, e.at), e.attempt[i[1]] # None,
         NEW o \in Observations, \A k \in DOMAIN s : s[k].at <= o.at,
         o.at = e.at, o.primary = e.attempt[i[1]], o.failed = e.attempt.failed,
         \A r \in RelationsOf(i) : o.relations[r] = e.attempt[r]
  PROVE  Lists(Append(s, o), Append(events, e), i, e.at)
<1> DEFINE w == Append(s, o)
           m == Len(s) + 1
           n == Len(events) + 1
           longer == Append(events, e)
           old == Within(events, i, e.at)
           new == Within(longer, i, e.at)
<1>1. DOMAIN w = DOMAIN s \cup {m} /\ m \notin DOMAIN s /\ w[m] = o /\ \A k \in DOMAIN s : w[k] = s[k] /\ k < m
  <2>1. DOMAIN w = DOMAIN s \cup {m} /\ m \notin DOMAIN s /\ w[m] = o /\ \A k \in DOMAIN s : w[k] = s[k]
    BY AppendShape
  <2>2. \A k \in DOMAIN s : k < m
    BY DequeShape
  <2> QED
    BY <2>1, <2>2
<1>2. new = old \cup {n} /\ longer[n] = e /\ n \notin DOMAIN events
      /\ \A p \in DOMAIN events : longer[p] = events[p] /\ p < n
  BY WithinAppend
<1>3. \A p \in old : p \in DOMAIN events
  BY DEF Within
<1> HIDE DEF w, longer, old, new
<1>4. PICK f \in [DOMAIN s -> old] :
        /\ \A p \in old : \E k \in DOMAIN s : f[k] = p
        /\ \A j, k \in DOMAIN s : j < k => f[j] < f[k]
        /\ \A k \in DOMAIN s :
            /\ s[k].at = events[f[k]].at
            /\ s[k].primary = events[f[k]].attempt[i[1]]
            /\ s[k].failed = events[f[k]].attempt.failed
            /\ \A r \in RelationsOf(i) : s[k].relations[r] = events[f[k]].attempt[r]
  BY DEF Lists, old
<1> DEFINE g == [k \in DOMAIN w |-> IF k = m THEN n ELSE f[k]]
<1>5. g[m] = n /\ \A k \in DOMAIN s : g[k] = f[k]
  BY <1>1
<1>6. g \in [DOMAIN w -> new]
  <2>1. \A k \in DOMAIN w : g[k] \in new
    BY <1>1, <1>2, <1>4, <1>5
  <2> QED
    BY <2>1
<1>7. DOMAIN g = DOMAIN w
  OBVIOUS
<1> HIDE DEF g
<1>8. \A p \in new : \E k \in DOMAIN w : g[k] = p
  BY <1>1, <1>2, <1>4, <1>5
<1>9. \A j, k \in DOMAIN w : j < k => g[j] < g[k]
  <2> SUFFICES ASSUME NEW j \in DOMAIN w, NEW k \in DOMAIN w, j < k PROVE g[j] < g[k]
    OBVIOUS
  <2>1. CASE j \in DOMAIN s /\ k \in DOMAIN s
    BY <2>1, <1>4, <1>5
  <2>2. CASE j \in DOMAIN s /\ k = m
    BY <2>2, <1>2, <1>3, <1>4, <1>5
  <2>3. CASE j = m
    <3>1. k < m \/ k = m
      BY <1>1
    <3>2. m \in Int /\ k \in Int
      BY <1>1, DequeShape
    <3> QED
      BY <2>3, <3>1, <3>2
  <2> QED
    BY <1>1, <2>1, <2>2, <2>3
<1>10. ASSUME NEW k \in DOMAIN w
       PROVE  /\ w[k].at = longer[g[k]].at
              /\ w[k].primary = longer[g[k]].attempt[i[1]]
              /\ w[k].failed = longer[g[k]].attempt.failed
              /\ \A r \in RelationsOf(i) : w[k].relations[r] = longer[g[k]].attempt[r]
  <2>1. CASE k = m
    BY <2>1, <1>1, <1>2, <1>5
  <2>2. CASE k \in DOMAIN s
    <3>1. w[k] = s[k] /\ g[k] = f[k] /\ f[k] \in old /\ longer[f[k]] = events[f[k]]
      BY <2>2, <1>1, <1>2, <1>3, <1>4, <1>5
    <3> QED
      BY <2>2, <3>1, <1>4
  <2> QED
    BY <1>1, <2>1, <2>2
<1> QED
  BY <1>6, <1>8, <1>9, <1>10 DEF Lists, w, longer, new

-----------------------------------------------------------------------------
(* What an index reports is the truth.                                       *)

\* The observations of a token in the deque are its events in the window.
LEMMA ListedPairs ==
  ASSUME NEW s, Deque(s), NEW events \in Seq(EventsAt), NEW i \in Indexes, NEW now \in Nat,
         Lists(s, events, i, now), NEW t
  PROVE  \E f : /\ Pairs(f, DOMAIN s, Within(events, i, now))
                /\ \A k \in DOMAIN s :
                    /\ s[k].at = events[f[k]].at
                    /\ s[k].primary = events[f[k]].attempt[i[1]]
                    /\ s[k].failed = events[f[k]].attempt.failed
                    /\ \A r \in RelationsOf(i) : s[k].relations[r] = events[f[k]].attempt[r]
<1> DEFINE W == Within(events, i, now)
<1>1. PICK f \in [DOMAIN s -> W] :
        /\ \A p \in W : \E k \in DOMAIN s : f[k] = p
        /\ \A j, k \in DOMAIN s : j < k => f[j] < f[k]
        /\ \A k \in DOMAIN s :
            /\ s[k].at = events[f[k]].at
            /\ s[k].primary = events[f[k]].attempt[i[1]]
            /\ s[k].failed = events[f[k]].attempt.failed
            /\ \A r \in RelationsOf(i) : s[k].relations[r] = events[f[k]].attempt[r]
  BY DEF Lists
<1>2. \A p \in W : p \in Int
  BY WithinShape
<1>3. \A k \in DOMAIN s : k \in Int
  BY DequeShape
<1> HIDE DEF W
<1>4. \A j, k \in DOMAIN s : f[j] = f[k] => j = k
  <2> SUFFICES ASSUME NEW j \in DOMAIN s, NEW k \in DOMAIN s, f[j] = f[k], j # k PROVE FALSE
    OBVIOUS
  <2>1. f[j] \in Int /\ f[k] \in Int /\ j \in Int /\ k \in Int
    BY <1>1, <1>2, <1>3
  <2>2. (j < k => f[j] < f[k]) /\ (k < j => f[k] < f[j])
    BY <1>1
  <2> QED
    BY <2>1, <2>2
<1>5. Pairs(f, DOMAIN s, W)
  BY <1>1, <1>4 DEF Pairs
<1> QED
  BY <1>1, <1>5 DEF W

\* A sound index that lists the window reports the truth of every token.
LEMMA SnapshotIs ==
  ASSUME NEW s, Deque(s), NEW events \in Seq(EventsAt), NEW i \in Indexes, NEW now \in Nat,
         Lists(s, events, i, now), NEW a, NEW b, NEW t
  PROVE  Snapshot(IndexOf(s, i, a, b), t, RelationsOf(i)) = Truth(events, i, t, now)
<1> DEFINE K == DOMAIN s
           W == Within(events, i, now)
           R == RelationsOf(i)
           C == Concerning(s, K, t)
           mine == {p \in W : events[p].attempt[i[1]] = t}
           index == IndexOf(s, i, a, b)
           m == Summary(s, K, R)
           failing == {p \in mine : events[p].attempt.failed}
           distinct == [r \in R |-> Cardinality(Tokens(events, mine, r))]
<1>1. PICK f : /\ Pairs(f, K, W)
               /\ \A k \in K :
                   /\ s[k].at = events[f[k]].at
                   /\ s[k].primary = events[f[k]].attempt[i[1]]
                   /\ s[k].failed = events[f[k]].attempt.failed
                   /\ \A r \in R : s[k].relations[r] = events[f[k]].attempt[r]
  BY ListedPairs
<1>2. f \in [K -> W] /\ (\A p \in W : \E k \in K : f[k] = p) /\ IsFiniteSet(K)
  BY <1>1, DequeShape DEF Pairs, Timed
<1>3. C \in SUBSET K /\ mine \in SUBSET W /\ \A k \in K : k \in C <=> f[k] \in mine
  <2> HIDE DEF K, W
  <2> QED
    BY <1>1, <1>2 DEF Concerning
<1>4. IsFiniteSet(C) /\ Cardinality(C) = Cardinality(mine)
  <2> HIDE DEF K, W, C, mine
  <2> QED
    BY <1>1, <1>2, <1>3, CardinalityMoved, SMTT(30)
<1>5. Cardinality(Failing(s, C)) = Cardinality(failing)
  <2> HIDE DEF K, W, C, mine
  <2>1. Failing(s, C) \in SUBSET K /\ failing \in SUBSET W
        /\ \A k \in K : k \in Failing(s, C) <=> f[k] \in failing
    BY <1>1, <1>2, <1>3 DEF Failing
  <2> HIDE DEF failing
  <2> QED
    BY <1>1, <1>2, <2>1, CardinalityMoved
<1>6. (\A k \in C : f[k] \in mine) /\ (\A p \in mine : \E k \in C : f[k] = p) /\ \A k \in C : k \in K
  <2> HIDE DEF K, W, C, mine
  <2> QED
    BY <1>2, <1>3
<1>7. C = {} <=> mine = {}
  <2> HIDE DEF C, mine
  <2> QED
    BY <1>6
<1>8. ASSUME NEW r \in R
      PROVE  BagToSet(Tally(s, C, r)) = Tokens(events, mine, r)
  <2> HIDE DEF K, C, mine, R
  <2>1. \A k \in C : s[k].relations[r] = events[f[k]].attempt[r]
    BY <1>1, <1>6
  <2>2. {s[k].relations[r] : k \in C} = {events[p].attempt[r] : p \in mine}
    BY <1>6, <2>1
  <2> QED
    BY <2>2 DEF BagToSet, Tally, Tokens
<1>9. Latest(s, C) = Max({events[p].at : p \in mine})
  <2> HIDE DEF K, C, mine, R
  <2>1. {s[k].at : k \in C} = {events[p].at : p \in mine}
    BY <1>1, <1>6
  <2> QED
    BY <2>1 DEF Latest
<1>10. Truth(events, i, t, now) =
         [attempts |-> Cardinality(mine), failures |-> Cardinality(failing), distinct |-> distinct,
          last |-> IF mine = {} THEN None ELSE Max({events[p].at : p \in mine})]
  BY DEF Truth
<1>11. index.aggregates = m
  BY DEF IndexOf, Index
<1>12. t \in DOMAIN m <=> C # {}
  BY DEF Summary, Concerning
<1>13. CASE C # {}
  <2>1. m[t] = [attempts |-> Cardinality(C), failures |-> Cardinality(Failing(s, C)),
                related |-> [r \in R |-> Tally(s, C, r)], last |-> Latest(s, C)]
    BY <1>12, <1>13 DEF Summary, Aggregate, Counting
  <2> DEFINE related == [r \in R |-> Tally(s, C, r)]
             counts == [r \in R |-> Cardinality(BagToSet(related[r]))]
  <2>2. counts = distinct
    <3>1. \A r \in R : related[r] = Tally(s, C, r)
      OBVIOUS
    <3>2. \A r \in R : Cardinality(BagToSet(related[r])) = Cardinality(Tokens(events, mine, r))
      BY <1>8, <3>1
    <3> QED
      BY <3>2
  <2>3. Snapshot(index, t, R) =
          [attempts |-> m[t].attempts, failures |-> m[t].failures,
           distinct |-> [r \in R |-> Cardinality(BagToSet(m[t].related[r]))], last |-> m[t].last]
    <3> HIDE DEF index, m, R
    <3> QED
      BY <1>11, <1>12, <1>13 DEF Snapshot
  <2>4. m[t].attempts = Cardinality(C) /\ m[t].failures = Cardinality(Failing(s, C))
        /\ m[t].related = related /\ m[t].last = Latest(s, C)
    <3> HIDE DEF m, C, R, related
    <3> QED
      BY <2>1 DEF related
  <2>5. mine # {}
    BY <1>7, <1>13
  <2> HIDE DEF m, C, R, mine, related, distinct, failing, index
  <2>6. [r \in R |-> Cardinality(BagToSet(m[t].related[r]))] = distinct
    BY <2>2, <2>4
  <2>7. Snapshot(index, t, R) = Truth(events, i, t, now)
    BY <1>4, <1>5, <1>9, <1>10, <2>3, <2>4, <2>5, <2>6
  <2> QED
    BY <2>7 DEF index, R
<1>14. CASE C = {}
  <2>1. mine = {} /\ Cardinality(mine) = 0
    BY <1>7, <1>14, FS_EmptySet
  <2>2. failing = {} /\ Cardinality(failing) = 0
    BY <2>1, FS_EmptySet
  <2>3. \A r : Tokens(events, mine, r) = {}
    BY <2>1 DEF Tokens
  <2>4. distinct = [r \in R |-> 0]
    BY <2>3, FS_EmptySet
  <2>5. Snapshot(index, t, R) =
          [attempts |-> 0, failures |-> 0, distinct |-> [r \in R |-> 0], last |-> None]
    <3> HIDE DEF index, m, R
    <3> QED
      BY <1>11, <1>12, <1>14 DEF Snapshot
  <2> HIDE DEF m, C, R, mine, distinct, failing, index
  <2>6. Snapshot(index, t, R) = Truth(events, i, t, now)
    BY <1>10, <2>1, <2>2, <2>4, <2>5
  <2> QED
    BY <2>6 DEF index, R
<1> QED
  BY <1>13, <1>14

\* The events of a token in a window.
Mine(events, i, t, now) == {p \in Within(events, i, now) : events[p].attempt[i[1]] = t}

Failures(events, positions) == {p \in positions : events[p].attempt.failed}

TimeOfLast(events, positions) ==
    IF positions = {} THEN None ELSE Max({events[p].at : p \in positions})

\* Truth, by its parts.
LEMMA TruthShape ==
  ASSUME NEW events, NEW i, NEW t, NEW now
  PROVE  LET truth == Truth(events, i, t, now)
             mine == Mine(events, i, t, now)
         IN  /\ truth.attempts = Cardinality(mine)
             /\ truth.failures = Cardinality(Failures(events, mine))
             /\ \A r \in RelationsOf(i) : truth.distinct[r] = Cardinality(Tokens(events, mine, r))
             /\ truth.last = TimeOfLast(events, mine)
<1> DEFINE mine == Mine(events, i, t, now)
           failures == Cardinality(Failures(events, mine))
           distinct == [r \in RelationsOf(i) |-> Cardinality(Tokens(events, mine, r))]
           last == TimeOfLast(events, mine)
<1>1. Truth(events, i, t, now) =
        [attempts |-> Cardinality(mine), failures |-> failures, distinct |-> distinct, last |-> last]
  BY DEF Truth, Mine, Failures, TimeOfLast
<1>2. \A r \in RelationsOf(i) : distinct[r] = Cardinality(Tokens(events, mine, r))
  OBVIOUS
<1> HIDE DEF mine, failures, distinct, last
<1>3. LET truth == Truth(events, i, t, now)
      IN  truth.attempts = Cardinality(mine) /\ truth.failures = failures
          /\ truth.distinct = distinct /\ truth.last = last
  BY <1>1
<1> QED
  BY <1>2, <1>3 DEF mine, failures, last

\* There are no more tokens than events.
LEMMA TokensBounded ==
  ASSUME NEW events, NEW P, IsFiniteSet(P), NEW r
  PROVE  /\ IsFiniteSet(Tokens(events, P, r))
         /\ Cardinality(Tokens(events, P, r)) <= Cardinality(P)
<1> DEFINE g == [p \in P |-> events[p].attempt[r]]
           T == {events[p].attempt[r] : p \in P}
<1>1. g \in Surjection(P, T)
  BY DEF Surjection
<1>2. IsFiniteSet(T) /\ Cardinality(T) <= Cardinality(P)
  <2> HIDE DEF g, T
  <2> QED
    BY <1>1, FS_Surjection
<1>3. Tokens(events, P, r) \in SUBSET T
  BY DEF Tokens
<1> HIDE DEF T
<1>4. IsFiniteSet(Tokens(events, P, r)) /\ Cardinality(Tokens(events, P, r)) <= Cardinality(T)
  BY <1>2, <1>3, FS_Subset
<1>5. Cardinality(Tokens(events, P, r)) \in Nat /\ Cardinality(T) \in Nat /\ Cardinality(P) \in Nat
  BY <1>2, <1>4, FS_CardinalityType
<1> QED
  BY <1>2, <1>4, <1>5

\* What is reported of a token is bounded by its attempts, and its age by the window.
LEMMA TruthBounded ==
  ASSUME NEW events \in Seq(EventsAt), NEW i \in Indexes, NEW t, NEW now \in Nat,
         \A p \in DOMAIN events : events[p].at <= now
  PROVE  LET truth == Truth(events, i, t, now)
         IN  /\ truth.failures <= truth.attempts
             /\ \A r \in RelationsOf(i) : truth.distinct[r] <= truth.attempts
             /\ t = None => truth.attempts = 0
             /\ truth.attempts = 0 => truth.last = None
             /\ truth.last # None => now - truth.last \in 0 .. (i[2] - 1)
<1> DEFINE truth == Truth(events, i, t, now)
           W == Within(events, i, now)
           mine == Mine(events, i, t, now)
           F == Failures(events, mine)
           T == {events[p].at : p \in mine}
           g == [p \in mine |-> events[p].at]
<1>1. /\ truth.attempts = Cardinality(mine) /\ truth.failures = Cardinality(F)
      /\ \A r \in RelationsOf(i) : truth.distinct[r] = Cardinality(Tokens(events, mine, r))
      /\ truth.last = TimeOfLast(events, mine)
  BY TruthShape
<1>2. /\ W \in SUBSET DOMAIN events /\ IsFiniteSet(W)
      /\ \A p \in W : events[p].at \in Nat /\ events[p].at > now - i[2] /\ events[p].at <= now
                      /\ events[p].attempt[i[1]] # None
  BY WithinShape
<1>3. mine \in SUBSET W /\ F \in SUBSET mine /\ \A p \in mine : events[p].attempt[i[1]] = t
  BY DEF Mine, Failures
<1>0. TimeOfLast(events, mine) = IF mine = {} THEN None ELSE Max(T)
  BY DEF TimeOfLast
<1> HIDE DEF truth, W, mine, F
<1>4. IsFiniteSet(mine) /\ Cardinality(F) <= Cardinality(mine)
  BY <1>2, <1>3, FS_Subset
<1>5. \A r \in RelationsOf(i) : truth.distinct[r] <= truth.attempts
  BY <1>1, <1>4, TokensBounded
<1>6. t = None => mine = {}
  BY <1>2, <1>3
<1>7. Cardinality(mine) = 0 <=> mine = {}
  BY <1>4, FS_EmptySet
<1>8. ASSUME mine # {}
      PROVE  now - Max(T) \in 0 .. (i[2] - 1)
  <2>1. g \in Surjection(mine, T)
    BY DEF Surjection
  <2>2. T # {} /\ T \subseteq Nat
    BY <1>2, <1>3, <1>8
  <2>3. \A x \in T : x > now - i[2] /\ x <= now
    BY <1>2, <1>3
  <2> HIDE DEF g, T
  <2>4. IsFiniteSet(T)
    BY <1>4, <2>1, FS_Surjection
  <2>5. Max(T) \in T
    BY <2>2, <2>4, MaxOf
  <2>6. Max(T) \in Nat /\ Max(T) > now - i[2] /\ Max(T) <= now /\ i[2] \in Nat
    BY <2>2, <2>3, <2>5, IndexesAre
  <2> QED
    BY <2>6
<1> HIDE DEF T
<1> QED
  BY <1>0, <1>1, <1>4, <1>5, <1>6, <1>7, <1>8 DEF truth

\* A longer window of the same entity has at least as much.
LEMMA TruthNested ==
  ASSUME NEW events \in Seq(EventsAt), NEW i \in Indexes, NEW j \in Indexes,
         i[1] = j[1], i[2] < j[2], NEW t, NEW now \in Nat
  PROVE  LET truth == Truth(events, i, t, now)
             longer == Truth(events, j, t, now)
         IN  /\ truth.attempts <= longer.attempts
             /\ truth.failures <= longer.failures
             /\ \A r \in RelationsOf(i) : truth.distinct[r] <= longer.distinct[r]
<1> DEFINE truth == Truth(events, i, t, now)
           longer == Truth(events, j, t, now)
           A == Mine(events, i, t, now)
           B == Mine(events, j, t, now)
<1>1. i[2] \in Nat /\ j[2] \in Nat
  BY IndexesAre
<1>2. A \in SUBSET B
  <2>1. \A p \in DOMAIN events : events[p].at \in Nat
    BY WithinShape
  <2>2. \A p \in Within(events, i, now) : p \in Within(events, j, now)
    BY <1>1, <2>1 DEF Within
  <2> QED
    BY <2>2 DEF Mine
<1>3. IsFiniteSet(B)
  <2>1. B \in SUBSET Within(events, j, now) /\ IsFiniteSet(Within(events, j, now))
    BY WithinShape DEF Mine
  <2> QED
    BY <2>1, FS_Subset
<1>4. RelationsOf(i) = RelationsOf(j)
  BY DEF RelationsOf
<1>5. /\ truth.attempts = Cardinality(A) /\ longer.attempts = Cardinality(B)
      /\ truth.failures = Cardinality(Failures(events, A))
      /\ longer.failures = Cardinality(Failures(events, B))
      /\ \A r \in RelationsOf(i) : truth.distinct[r] = Cardinality(Tokens(events, A, r))
      /\ \A r \in RelationsOf(j) : longer.distinct[r] = Cardinality(Tokens(events, B, r))
  BY TruthShape
<1> HIDE DEF truth, longer, A, B
<1>6. Cardinality(A) <= Cardinality(B)
  BY <1>2, <1>3, FS_Subset
<1>7. Cardinality(Failures(events, A)) <= Cardinality(Failures(events, B))
  <2>1. Failures(events, B) \in SUBSET B /\ Failures(events, A) \in SUBSET Failures(events, B)
    BY <1>2 DEF Failures
  <2>2. IsFiniteSet(Failures(events, B))
    BY <1>3, <2>1, FS_Subset
  <2> QED
    BY <2>1, <2>2, FS_Subset
<1>8. ASSUME NEW r
      PROVE  Cardinality(Tokens(events, A, r)) <= Cardinality(Tokens(events, B, r))
  <2>1. Tokens(events, A, r) \in SUBSET Tokens(events, B, r)
    BY <1>2 DEF Tokens
  <2>2. IsFiniteSet(Tokens(events, B, r))
    BY <1>3, TokensBounded
  <2> QED
    BY <2>1, <2>2, FS_Subset
<1> QED
  BY <1>4, <1>5, <1>6, <1>7, <1>8 DEF truth, longer

-----------------------------------------------------------------------------
(* One event at the engine.                                                  *)

\* What an attempt tells the indexes.
LEMMA AttemptsAre ==
  ASSUME NEW e \in EventsAt, NEW i \in Indexes
  PROVE  /\ e.at \in Times /\ e.at \in Nat /\ e.id \in Ids /\ e.attempt \in Attempts
         /\ e.attempt.failed \in BOOLEAN /\ e.attempt[i[1]] \in AllTokens
         /\ [r \in RelationsOf(i) |-> e.attempt[r]] \in [RelationsOf(i) -> AllTokens]
<1>1. e.at \in Times /\ e.id \in Ids /\ e.attempt \in Attempts
  BY DEF EventsAt
<1>2. e.at \in Nat /\ e.attempt.failed \in BOOLEAN
  BY <1>1, EngineAssumption
<1>3. \A x \in Entities : e.attempt[x] \in AllTokens
  BY <1>1 DEF AllTokens
<1>4. i[1] \in Entities /\ RelationsOf(i) \in SUBSET Entities
  BY IndexesAre
<1> QED
  BY <1>1, <1>2, <1>3, <1>4

\* An event that is accepted is not earlier than those before it.
LEMMA InTime ==
  ASSUME InOrder, NEW e \in EventsAt, After(e, lastKey)
  PROVE  /\ history \in Seq(EventsAt) /\ Now \in Nat /\ Now <= e.at
         /\ \A p \in DOMAIN history : history[p].at <= e.at
<1>1. /\ history \in Seq(EventsAt)
      /\ \A j, k \in DOMAIN history : j <= k => history[j].at <= history[k].at
      /\ history = <<>> => lastKey = None
      /\ history # <<>> => lastKey = [at |-> Last(history).at, id |-> Last(history).id]
  BY DEF InOrder
<1>2. \A x \in EventsAt : x.at \in Nat /\ x.at \in Times /\ x.id \in Ids /\ x.id \in Nat
  BY EngineAssumption DEF EventsAt
<1>3. CASE history = <<>>
  BY <1>1, <1>2, <1>3 DEF Now
<1>4. CASE history # <<>>
  <2> DEFINE n == Len(history)
             last == history[n]
  <2>1. n \in Nat /\ n \in DOMAIN history /\ DOMAIN history = 1 .. n
        /\ \A p \in DOMAIN history : history[p] \in EventsAt
    BY <1>1, <1>4
  <2>2. last \in EventsAt /\ Last(history) = last
    BY <2>1 DEF Last
  <2>3. lastKey = [at |-> last.at, id |-> last.id]
    BY <1>1, <1>4, <2>2
  <2> HIDE DEF last, n
  <2>4. lastKey \in [at : Times, id : Ids] /\ lastKey.at = last.at
    BY <1>2, <2>2, <2>3
  <2>5. lastKey # None
    BY <2>4, EngineAssumption
  <2>6. last.at <= e.at
    <3>1. e.at > lastKey.at \/ e.at = lastKey.at
      BY <2>5 DEF After
    <3> QED
      BY <3>1, <2>2, <2>4, <1>2
  <2>7. Now = last.at
    BY <2>4, <2>5 DEF Now
  <2>8. \A p \in DOMAIN history : history[p].at <= last.at
    BY <1>1, <2>1 DEF last
  <2>9. \A p \in DOMAIN history : history[p].at \in Nat /\ last.at \in Nat /\ e.at \in Nat
    BY <1>2, <2>1, <2>2
  <2> QED
    BY <1>1, <1>2, <2>2, <2>6, <2>7, <2>8, <2>9
<1> QED
  BY <1>3, <1>4

\* An index after the eviction, and what undoes it.
LEMMA EvictedIndex ==
  ASSUME EngineInv, NEW e \in EventsAt, After(e, lastKey), NEW i \in Indexes
  PROVE  \E rest, a, b, gone :
            /\ Deque(rest) /\ Lists(rest, history, i, e.at)
            /\ \A k \in DOMAIN rest : rest[k].at <= e.at
            /\ EvictAll(indexes, e.at)[i] = IndexOf(rest, i, a, b)
            /\ Evicted(indexes[i], e.at, i[2]) = gone
            /\ RestoreEvicted(IndexOf(rest, i, a, b), gone, RelationsOf(i)) = indexes[i]
<1> DEFINE s == indexes[i].observations
           a == indexes[i].peakObservations
           b == indexes[i].peakEntities
           x == Expired(indexes[i], e.at, i[2])
           rest == SubSeq(s, x + 1, Len(s))
           gone == SubSeq(s, 1, x)
<1>1. Deque(s) /\ indexes[i] = IndexOf(s, i, a, b) /\ Lists(s, history, i, Now)
  BY DEF EngineInv, Sound
<1>2. history \in Seq(EventsAt) /\ Now \in Nat /\ Now <= e.at
      /\ \A p \in DOMAIN history : history[p].at <= e.at
  BY InTime DEF EngineInv
<1>3. e.at \in Nat /\ i[2] \in Nat
  BY AttemptsAre, IndexesAre
<1>4. x \in 0 .. Len(s) /\ \A k \in DOMAIN s : k <= x <=> s[k].at <= e.at - i[2]
  <2>1. Deque(indexes[i].observations)
    BY <1>1
  <2> QED
    BY <1>3, <2>1, ExpiredIs
<1>5. Lists(rest, history, i, e.at)
  <2> HIDE DEF s, x
  <2> QED
    BY <1>1, <1>2, <1>3, <1>4, ListsRest
<1>6. Deque(rest)
  <2> HIDE DEF s, x
  <2> QED
    BY <1>1, <1>4, RestShape
<1>7. /\ Evicted(IndexOf(s, i, a, b), e.at, i[2]) = SubSeq(s, 1, Expired(IndexOf(s, i, a, b), e.at, i[2]))
      /\ Evict(IndexOf(s, i, a, b), e.at, i[2]) =
           IndexOf(SubSeq(s, Expired(IndexOf(s, i, a, b), e.at, i[2]) + 1, Len(s)), i, a, b)
      /\ RestoreEvicted(IndexOf(SubSeq(s, Expired(IndexOf(s, i, a, b), e.at, i[2]) + 1, Len(s)), i, a, b),
                        SubSeq(s, 1, Expired(IndexOf(s, i, a, b), e.at, i[2])), RelationsOf(i))
           = IndexOf(s, i, a, b)
  <2> HIDE DEF s, x, a, b
  <2> QED
    BY <1>1, <1>3, EvictIs
<1> HIDE DEF s, a, b
<1>8. /\ Evicted(indexes[i], e.at, i[2]) = gone
      /\ Evict(indexes[i], e.at, i[2]) = IndexOf(rest, i, a, b)
      /\ RestoreEvicted(IndexOf(rest, i, a, b), gone, RelationsOf(i)) = indexes[i]
  BY <1>1, <1>7
<1>9. EvictAll(indexes, e.at)[i] = IndexOf(rest, i, a, b)
  BY <1>8 DEF EvictAll
<1> HIDE DEF rest, gone
<1>10. \A k \in DOMAIN rest : rest[k].at <= e.at
  <2>1. PICK f : Pairs(f, DOMAIN rest, Within(history, i, e.at))
                 /\ \A k \in DOMAIN rest : rest[k].at = history[f[k]].at
    BY <1>2, <1>3, <1>5, <1>6, ListedPairs
  <2>2. \A k \in DOMAIN rest : f[k] \in DOMAIN history
    BY <2>1 DEF Pairs, Within
  <2> QED
    BY <1>2, <2>1, <2>2
<1> QED
  BY <1>5, <1>6, <1>8, <1>9, <1>10

\* An index after the event was observed, and what undoes that.
LEMMA ObservedIndex ==
  ASSUME NEW events \in Seq(EventsAt), NEW e \in EventsAt, NEW i \in Indexes,
         NEW rest, Deque(rest), Lists(rest, events, i, e.at),
         \A k \in DOMAIN rest : rest[k].at <= e.at, NEW a, NEW b
  PROVE  \E w : /\ Deque(w) /\ Lists(w, Append(events, e), i, e.at)
                /\ Observe(IndexOf(rest, i, a, b), e.at, e.attempt[i[1]], e.attempt.failed,
                           [r \in RelationsOf(i) |-> e.attempt[r]]) = IndexOf(w, i, a, b)
                /\ \A c, d : RollbackTo(IndexOf(w, i, c, d), Len(rest)) = IndexOf(rest, i, c, d)
<1> DEFINE token == e.attempt[i[1]]
           failed == e.attempt.failed
           related == [r \in RelationsOf(i) |-> e.attempt[r]]
<1>1. /\ e.at \in Times /\ token \in AllTokens /\ failed \in BOOLEAN
      /\ related \in [RelationsOf(i) -> AllTokens] /\ RelationsOf(i) \in SUBSET Entities
  BY AttemptsAre, IndexesAre
<1>2. \A r \in RelationsOf(i) : related[r] = e.attempt[r]
  OBVIOUS
<1> HIDE DEF related
<1>3. CASE token = None
  <2>1. Observe(IndexOf(rest, i, a, b), e.at, token, failed, related) = IndexOf(rest, i, a, b)
    BY <1>3 DEF Observe
  <2>2. Lists(rest, Append(events, e), i, e.at)
    BY <1>3, ListsSkip
  <2>3. ASSUME NEW c, NEW d
        PROVE  RollbackTo(IndexOf(rest, i, c, d), Len(rest)) = IndexOf(rest, i, c, d)
    <3>1. IndexOf(rest, i, c, d).observations = rest
      BY DEF IndexOf, Index
    <3> QED
      BY <3>1 DEF RollbackTo
  <2> QED
    BY <2>1, <2>2, <2>3 DEF related
<1>4. CASE token # None
  <2>0. NotLater(rest, e.at)
    BY DEF NotLater
  <2>8. Attempted(i, e.at, token, failed, related)
    BY <1>1, <1>4 DEF Attempted
  <2> HIDE DEF token, failed
  <2>9. PICK o : /\ Records(rest, o, e.at, token, failed, related)
                 /\ Observe(IndexOf(rest, i, a, b), e.at, token, failed, related)
                      = IndexOf(Append(rest, o), i, a, b)
    BY <2>0, <2>8, ObserveIs
  <2>1. /\ o \in Observations /\ o.at = e.at /\ o.primary = token /\ o.failed = failed
        /\ o.relations = related /\ o.previous = PreviousOf(rest, o)
    BY <2>9 DEF Records
  <2>2. \A k \in DOMAIN rest : rest[k].at <= o.at
    BY <2>1
  <2>3. \A r \in RelationsOf(i) : o.relations[r] = e.attempt[r]
    BY <1>2, <2>1
  <2>4. Deque(Append(rest, o))
    BY <2>1, <2>2, AppendShape
  <2>5. Lists(Append(rest, o), Append(events, e), i, e.at)
    BY <1>4, <2>1, <2>2, <2>3, ListsAppend DEF token, failed
  <2>6. \A c, d : RollbackTo(IndexOf(Append(rest, o), i, c, d), Len(rest)) = IndexOf(rest, i, c, d)
    BY <2>1, <2>2, RollbackIs
  <2> QED
    BY <2>9, <2>4, <2>5, <2>6 DEF related, token, failed
<1> QED
  BY <1>3, <1>4

\* The peaks are all that a commit of the diagnostics changes.
LEMMA CommitIs ==
  ASSUME NEW w, NEW i, NEW a, NEW b
  PROVE  \E c, d : CommitDiagnostics(IndexOf(w, i, a, b)) = IndexOf(w, i, c, d)
<1> DEFINE m == Summary(w, DOMAIN w, RelationsOf(i))
           index == IndexOf(w, i, a, b)
           c == Max({index.peakObservations, Len(index.observations)})
           d == Max({index.peakEntities, Cardinality(DOMAIN index.aggregates)})
<1>1. index = Index(w, m, a, b) /\ \A x, y : IndexOf(w, i, x, y) = Index(w, m, x, y)
  BY DEF IndexOf
<1>2. CommitDiagnostics(index) = [index EXCEPT !.peakObservations = c, !.peakEntities = d]
  BY DEF CommitDiagnostics
<1> HIDE DEF m, index, c, d
<1>3. [Index(w, m, a, b) EXCEPT !.peakObservations = c] = Index(w, m, c, b)
  BY DEF Index
<1>4. [Index(w, m, c, b) EXCEPT !.peakEntities = d] = Index(w, m, c, d)
  BY DEF Index
<1>5. CommitDiagnostics(index) = IndexOf(w, i, c, d)
  BY <1>1, <1>2, <1>3, <1>4
<1> QED
  BY <1>5 DEF index

\* A call that fails anywhere leaves every index as it was.
LEMMA FailureUndone ==
  ASSUME EngineInv, NEW e \in EventsAt, NEW p, ProcessFails(e, p)
  PROVE  indexes' = indexes
<1> DEFINE evicted == EvictAll(indexes, e.at)
           observing == IF p < Len(Order) THEN p ELSE Len(Order)
           observed == Observed(evicted, e, observing)
           partial == Committed(observed, p - observing)
           rolledBack == RolledBack(partial, evicted)
<1>1. After(e, lastKey) /\ indexes' = Restored(rolledBack, e.at)
  BY DEF ProcessFails
<1>2. ASSUME NEW i \in Indexes
      PROVE  Restored(rolledBack, e.at)[i] = indexes[i]
  <2>1. PICK rest, a, b, gone :
          /\ Deque(rest) /\ Lists(rest, history, i, e.at)
          /\ \A k \in DOMAIN rest : rest[k].at <= e.at
          /\ evicted[i] = IndexOf(rest, i, a, b)
          /\ Evicted(indexes[i], e.at, i[2]) = gone
          /\ RestoreEvicted(IndexOf(rest, i, a, b), gone, RelationsOf(i)) = indexes[i]
    BY <1>1, EvictedIndex
  <2>2. history \in Seq(EventsAt)
    BY DEF EngineInv, InOrder
  <2>3. PICK w : /\ Observe(IndexOf(rest, i, a, b), e.at, e.attempt[i[1]], e.attempt.failed,
                            [r \in RelationsOf(i) |-> e.attempt[r]]) = IndexOf(w, i, a, b)
                 /\ \A c, d : RollbackTo(IndexOf(w, i, c, d), Len(rest)) = IndexOf(rest, i, c, d)
    BY <2>1, <2>2, ObservedIndex
  <2>4. \A c, d : RollbackTo(IndexOf(rest, i, c, d), Len(rest)) = IndexOf(rest, i, c, d)
    <3> SUFFICES ASSUME NEW c, NEW d
                 PROVE  RollbackTo(IndexOf(rest, i, c, d), Len(rest)) = IndexOf(rest, i, c, d)
      OBVIOUS
    <3>1. IndexOf(rest, i, c, d).observations = rest
      BY DEF IndexOf, Index
    <3> QED
      BY <3>1 DEF RollbackTo
  <2> HIDE DEF evicted, observing
  <2>5. \/ observed[i] = evicted[i]
        \/ observed[i] = Observe(evicted[i], e.at, e.attempt[i[1]], e.attempt.failed,
                                 [r \in RelationsOf(i) |-> e.attempt[r]])
    BY DEF Observed
  <2>6. PICK v : /\ observed[i] = IndexOf(v, i, a, b)
                 /\ \A c, d : RollbackTo(IndexOf(v, i, c, d), Len(rest)) = IndexOf(rest, i, c, d)
    <3>1. CASE observed[i] = evicted[i]
      BY <3>1, <2>1, <2>4
    <3>2. CASE observed[i] = Observe(evicted[i], e.at, e.attempt[i[1]], e.attempt.failed,
                                     [r \in RelationsOf(i) |-> e.attempt[r]])
      <4>1. observed[i] = IndexOf(w, i, a, b)
        BY <3>2, <2>1, <2>3
      <4> QED
        BY <4>1, <2>3
    <3> QED
      BY <2>5, <3>1, <3>2
  <2> HIDE DEF observed
  <2>7. partial[i] = observed[i] \/ partial[i] = CommitDiagnostics(observed[i])
    BY DEF Committed
  <2>8. PICK c, d : partial[i] = IndexOf(v, i, c, d)
    <3>1. \E c, d : CommitDiagnostics(IndexOf(v, i, a, b)) = IndexOf(v, i, c, d)
      BY CommitIs
    <3> QED
      BY <2>6, <2>7, <3>1
  <2> HIDE DEF partial
  <2>9. RollbackTo(partial[i], Len(evicted[i].observations)) = IndexOf(rest, i, c, d)
    <3>1. evicted[i].observations = rest
      BY <2>1 DEF IndexOf, Index
    <3> QED
      BY <2>6, <2>8, <3>1
  <2> DEFINE m == Summary(rest, DOMAIN rest, RelationsOf(i))
  <2>10. IndexOf(rest, i, c, d) = Index(rest, m, c, d) /\ evicted[i] = Index(rest, m, a, b)
    BY <2>1 DEF IndexOf
  <2> HIDE DEF m
  <2>11. evicted[i].peakObservations = a /\ evicted[i].peakEntities = b
    BY <2>10 DEF Index
  <2>12. rolledBack[i] = [Index(rest, m, c, d) EXCEPT !.peakObservations = a, !.peakEntities = b]
    BY <2>9, <2>10, <2>11 DEF RolledBack
  <2> HIDE DEF rolledBack
  <2>13. [Index(rest, m, c, d) EXCEPT !.peakObservations = a] = Index(rest, m, a, d)
    BY DEF Index
  <2>14. [Index(rest, m, a, d) EXCEPT !.peakEntities = b] = Index(rest, m, a, b)
    BY DEF Index
  <2>15. rolledBack[i] = evicted[i]
    BY <2>10, <2>12, <2>13, <2>14
  <2>16. Restored(rolledBack, e.at)[i]
           = RestoreEvicted(rolledBack[i], Evicted(indexes[i], e.at, i[2]), RelationsOf(i))
    BY DEF Restored
  <2> QED
    BY <2>1, <2>15, <2>16
<1>3. Restored(rolledBack, e.at) = [i \in Indexes |-> Restored(rolledBack, e.at)[i]]
  BY DEF Restored
<1>4. indexes = [i \in Indexes |-> indexes[i]]
  BY DEF EngineInv
<1> HIDE DEF rolledBack
<1> QED
  BY <1>1, <1>2, <1>3, <1>4

\* An index after an accepted event: what was reported of the event's token before it,
\* and what the index is then.
LEMMA ProcessedIndex ==
  ASSUME EngineInv, NEW e \in EventsAt, Process(e), NEW i \in Indexes
  PROVE  /\ Sound(indexes'[i], i) /\ Lists(indexes'[i].observations, history', i, e.at)
         /\ record'.seen[i] = Truth(history, i, e.attempt[i[1]], e.at)
<1> DEFINE evicted == EvictAll(indexes, e.at)
           observed == Observed(evicted, e, Len(Order))
           updated == Committed(observed, Len(Order))
           token == e.attempt[i[1]]
<1>1. After(e, lastKey) /\ indexes' = updated /\ record' = Compute(evicted, e) /\ history' = Append(history, e)
  BY DEF Process
<1>2. PICK rest, a, b :
        /\ Deque(rest) /\ Lists(rest, history, i, e.at)
        /\ \A k \in DOMAIN rest : rest[k].at <= e.at
        /\ evicted[i] = IndexOf(rest, i, a, b)
  BY <1>1, EvictedIndex, SMTT(30)
<1>3. history \in Seq(EventsAt) /\ e.at \in Nat
  BY AttemptsAre DEF EngineInv, InOrder
<1>4. PICK w : /\ Deque(w) /\ Lists(w, Append(history, e), i, e.at)
               /\ Observe(IndexOf(rest, i, a, b), e.at, token, e.attempt.failed,
                          [r \in RelationsOf(i) |-> e.attempt[r]]) = IndexOf(w, i, a, b)
  BY <1>2, <1>3, ObservedIndex
<1>5. \E k \in 1 .. Len(Order) : Order[k] = i
  BY DEF Indexes, ToSet, Order
<1> HIDE DEF evicted
<1>6. observed[i] = IndexOf(w, i, a, b)
  <2>1. observed[i] = Observe(evicted[i], e.at, token, e.attempt.failed,
                              [r \in RelationsOf(i) |-> e.attempt[r]])
    BY <1>5 DEF Observed
  <2> QED
    BY <2>1, <1>2, <1>4
<1> HIDE DEF observed
<1>7. updated[i] = CommitDiagnostics(observed[i])
  BY <1>5 DEF Committed
<1>8. PICK c, d : CommitDiagnostics(IndexOf(w, i, a, b)) = IndexOf(w, i, c, d)
  BY CommitIs
<1> HIDE DEF updated
<1>9. indexes'[i] = IndexOf(w, i, c, d)
  BY <1>1, <1>6, <1>7, <1>8
<1>10. Sound(indexes'[i], i) /\ indexes'[i].observations = w
  <2>1. /\ IndexOf(w, i, c, d).observations = w /\ IndexOf(w, i, c, d).peakObservations = c
        /\ IndexOf(w, i, c, d).peakEntities = d
    BY DEF IndexOf, Index
  <2> QED
    BY <1>4, <1>9, <2>1 DEF Sound
<1>11. record'.seen[i] = Snapshot(evicted[i], token, RelationsOf(i))
  BY <1>1 DEF Compute
<1>12. Snapshot(IndexOf(rest, i, a, b), token, RelationsOf(i)) = Truth(history, i, token, e.at)
  BY <1>2, <1>3, SnapshotIs
<1> QED
  BY <1>1, <1>2, <1>4, <1>10, <1>11, <1>12

LEMMA TimesAre ==
  ASSUME NEW e \in EventsAt
  PROVE  e.at \in Times /\ e.at \in Nat /\ e.id \in Ids
<1>1. e.at \in Times /\ e.id \in Ids
  BY DEF EventsAt
<1> QED
  BY <1>1, EngineAssumption

\* Every index reports of an accepted event what the earlier events say.
LEMMA RecordIs ==
  ASSUME EngineInv, NEW e \in EventsAt, Process(e)
  PROVE  FeaturesAreCausal'
<1> DEFINE truth(i) == Truth(history, i, e.attempt[i[1]], e.at)
<1>1. After(e, lastKey) /\ record' = Compute(EvictAll(indexes, e.at), e) /\ history' = Append(history, e)
  BY DEF Process
<1>2. history \in Seq(EventsAt) /\ e.at \in Nat /\ \A p \in DOMAIN history : history[p].at <= e.at
  <2>1. InOrder
    BY DEF EngineInv
  <2> QED
    BY <1>1, <2>1, InTime, TimesAre
<1>3. history' # <<>> /\ Front(history') = history /\ Last(history') = e
  BY <1>1, <1>2 DEF Front, Last
<1>4. \A i \in Indexes : record'.seen[i] = truth(i)
  BY ProcessedIndex
<1>5. record'.age = IF record'.seen[<<"checkout", Long>>].last = None
                    THEN 0 ELSE e.at - record'.seen[<<"checkout", Long>>].last
  BY <1>1 DEF Compute
<1>6. ASSUME NEW i \in Indexes
      PROVE  /\ truth(i).failures <= truth(i).attempts
             /\ \A r \in RelationsOf(i) : truth(i).distinct[r] <= truth(i).attempts
             /\ e.attempt[i[1]] = None => truth(i).attempts = 0
             /\ truth(i).attempts = 0 => truth(i).last = None
             /\ truth(i).last # None => e.at - truth(i).last \in 0 .. (i[2] - 1)
  BY <1>2, TruthBounded
<1>7. ASSUME NEW i \in Indexes, NEW j \in Indexes, i[1] = j[1], i[2] < j[2]
      PROVE  /\ truth(i).attempts <= truth(j).attempts
             /\ truth(i).failures <= truth(j).failures
             /\ \A r \in RelationsOf(i) : truth(i).distinct[r] <= truth(j).distinct[r]
  BY <1>2, <1>7, TruthNested
<1> HIDE DEF truth
<1>8. /\ record'.age \in 0 .. (Long - 1)
      /\ record'.seen[<<"checkout", Long>>].attempts = 0 => record'.age = 0
  <2> DEFINE c == <<"checkout", Long>>
  <2>1. c \in Indexes /\ c[2] = Long
    BY IndexesAre
  <2> HIDE DEF c
  <2>2. /\ truth(c).attempts = 0 => truth(c).last = None
        /\ truth(c).last # None => e.at - truth(c).last \in 0 .. (Long - 1)
    BY <2>1, <1>6
  <2>3. record'.seen[c] = truth(c)
    BY <2>1, <1>4
  <2>4. record'.age = IF truth(c).last = None THEN 0 ELSE e.at - truth(c).last
    BY <1>5, <2>3 DEF c
  <2>5. Long \in Nat /\ Long > 0
    BY EngineAssumption
  <2>6. record'.age \in 0 .. (Long - 1) /\ (record'.seen[c].attempts = 0 => record'.age = 0)
    BY <2>2, <2>3, <2>4, <2>5
  <2> QED
    BY <2>6 DEF c
<1>9. RecordsValidate'
  BY <1>3, <1>4, <1>6, <1>7, <1>8 DEF RecordsValidate
<1>10. (\A i \in Indexes : record.seen[i] = Truth(Front(history), i, Last(history).attempt[i[1]], Last(history).at))'
  BY <1>3, <1>4 DEF truth
<1> QED
  BY <1>9, <1>10 DEF FeaturesAreCausal

\* An accepted event keeps the events in their order.
LEMMA OrderKept ==
  ASSUME InOrder, NEW e \in EventsAt, Process(e)
  PROVE  InOrder' /\ Now' = e.at /\ history' # <<>>
<1>1. After(e, lastKey) /\ history' = Append(history, e) /\ lastKey' = [at |-> e.at, id |-> e.id]
  BY DEF Process
<1>2. history \in Seq(EventsAt) /\ \A p \in DOMAIN history : history[p].at <= e.at
  BY <1>1, InTime
<1>3. e.at \in Nat /\ \A p \in DOMAIN history : history[p].at \in Nat
  <2>1. \A p \in DOMAIN history : history[p] \in EventsAt
    BY <1>2
  <2> QED
    BY <2>1, TimesAre
<1>4. /\ history' \in Seq(EventsAt) /\ history' # <<>> /\ Last(history') = e
      /\ DOMAIN history' = 1 .. (Len(history) + 1) /\ history'[Len(history) + 1] = e
      /\ \A p \in DOMAIN history : history'[p] = history[p]
  BY <1>1, <1>2 DEF Last
<1>5. \A j, k \in DOMAIN history : j <= k => history[j].at <= history[k].at
  BY DEF InOrder
<1>6. ASSUME NEW j \in DOMAIN history', NEW k \in DOMAIN history', j <= k
      PROVE  history'[j].at <= history'[k].at
  <2>1. Len(history) \in Nat /\ DOMAIN history = 1 .. Len(history)
    BY <1>2
  <2>2. CASE k \in DOMAIN history
    <3>1. j \in DOMAIN history
      BY <1>4, <1>6, <2>1, <2>2
    <3> QED
      BY <1>4, <1>5, <1>6, <2>2, <3>1
  <2>3. CASE k \notin DOMAIN history
    <3>1. history'[k] = e
      BY <1>4, <2>1, <2>3
    <3>2. CASE j \in DOMAIN history
      BY <1>2, <1>4, <3>1, <3>2
    <3>3. CASE j \notin DOMAIN history
      <4>1. history'[j] = e
        BY <1>4, <2>1, <3>3
      <4> QED
        BY <1>3, <3>1, <4>1
    <3> QED
      BY <3>2, <3>3
  <2> QED
    BY <2>2, <2>3
<1>7. lastKey' \in [at : Times, id : Ids] /\ lastKey' # None
  BY <1>1, EngineAssumption DEF EventsAt
<1> QED
  BY <1>1, <1>4, <1>6, <1>7 DEF InOrder, Now

LEMMA ProcessStep ==
  ASSUME EngineInv, NEW e \in EventsAt, Process(e)
  PROVE  EngineInv'
<1>1. InOrder' /\ Now' = e.at /\ history' # <<>>
  BY OrderKept DEF EngineInv
<1>2. FeaturesAreCausal'
  BY RecordIs
<1>3. indexes' = [i \in Indexes |-> indexes'[i]]
  <2>1. indexes' = Committed(Observed(EvictAll(indexes, e.at), e, Len(Order)), Len(Order))
    BY DEF Process
  <2> QED
    BY <2>1 DEF Committed
<1>4. \A i \in Indexes : Sound(indexes'[i], i) /\ Lists(indexes'[i].observations, history', i, Now')
  BY <1>1, ProcessedIndex
<1> QED
  BY <1>1, <1>2, <1>3, <1>4 DEF EngineInv

LEMMA FailsStep ==
  ASSUME EngineInv, NEW e \in EventsAt, NEW p, ProcessFails(e, p)
  PROVE  UNCHANGED vars
<1>1. indexes' = indexes
  BY FailureUndone
<1>2. UNCHANGED <<peaks, lastKey, record, history>>
  BY DEF ProcessFails
<1> QED
  BY <1>1, <1>2 DEF vars

\* Nothing was counted and nothing happened.
LEMMA InitStep == Init => EngineInv
<1> SUFFICES ASSUME Init PROVE EngineInv
  OBVIOUS
<1>1. history = <<>> /\ lastKey = None /\ record = None /\ \A i \in Indexes : indexes[i] = EmptyIndex
  BY DEF Init
<1>2. InOrder
  BY <1>1 DEF InOrder
<1>3. indexes = [i \in Indexes |-> indexes[i]]
  BY DEF Init
<1>4. ASSUME NEW i \in Indexes
      PROVE  Sound(EmptyIndex, i) /\ Lists(<<>>, <<>>, i, 0)
  <2>1. Deque(<<>>)
    BY DEF Deque
  <2>2. Summary(<<>>, DOMAIN <<>>, RelationsOf(i)) = <<>>
    BY DEF Summary
  <2> DEFINE m == Summary(<<>>, DOMAIN <<>>, RelationsOf(i))
  <2>3. EmptyIndex = Index(<<>>, <<>>, 0, 0) /\ Index(<<>>, m, 0, 0) = IndexOf(<<>>, i, 0, 0)
    BY DEF EmptyIndex, Index, IndexOf
  <2> HIDE DEF m
  <2>4. EmptyIndex = IndexOf(<<>>, i, 0, 0)
    BY <2>2, <2>3 DEF m
  <2>5. /\ EmptyIndex.observations = <<>> /\ EmptyIndex.peakObservations = 0
        /\ EmptyIndex.peakEntities = 0
    BY DEF EmptyIndex
  <2>6. Lists(<<>>, <<>>, i, 0)
    <3>1. Within(<<>>, i, 0) = {}
      BY DEF Within
    <3>2. DOMAIN <<>> = {} /\ <<>> \in [DOMAIN <<>> -> Within(<<>>, i, 0)]
      OBVIOUS
    <3> QED
      BY <3>1, <3>2 DEF Lists
  <2> QED
    BY <2>1, <2>4, <2>5, <2>6 DEF Sound
<1>5. Now = 0
  BY <1>1 DEF Now
<1>6. \A i \in Indexes : Sound(indexes[i], i) /\ Lists(indexes[i].observations, history, i, Now)
  BY <1>1, <1>4, <1>5 DEF EmptyIndex
<1>7. FeaturesAreCausal
  BY <1>1 DEF FeaturesAreCausal, RecordsValidate
<1> QED
  BY <1>1, <1>2, <1>3, <1>6, <1>7 DEF EngineInv

\* What a sound index counts is what a recount of the accepted events gives.
LEMMA CountersAre ==
  ASSUME EngineInv
  PROVE  CountersMatchEvents
<1> SUFFICES ASSUME lastKey # None, NEW i \in Indexes
             PROVE  /\ ListsTheWindow(indexes[i].observations, history, i, lastKey.at)
                    /\ DOMAIN indexes[i].aggregates
                         = Tokens(history, Within(history, i, lastKey.at), i[1])
                    /\ \A t \in DOMAIN indexes[i].aggregates :
                         Snapshot(indexes[i], t, RelationsOf(i)) = Truth(history, i, t, lastKey.at)
  BY DEF CountersMatchEvents
<1>1. history \in Seq(EventsAt) /\ Now = lastKey.at /\ lastKey.at \in Nat
  <2>1. history # <<>> /\ history \in Seq(EventsAt)
    BY DEF EngineInv, InOrder
  <2>2. lastKey.at = Last(history).at /\ Last(history) \in EventsAt
    BY <2>1 DEF EngineInv, InOrder, Last
  <2> QED
    BY <2>1, <2>2, TimesAre DEF Now
<1> DEFINE s == indexes[i].observations
           now == lastKey.at
           a == indexes[i].peakObservations
           b == indexes[i].peakEntities
<1>2. Deque(s) /\ indexes[i] = IndexOf(s, i, a, b) /\ Lists(s, history, i, now)
  BY <1>1 DEF EngineInv, Sound
<1>3. indexes[i].aggregates = Summary(s, DOMAIN s, RelationsOf(i))
  <2>1. IndexOf(s, i, a, b).aggregates = Summary(s, DOMAIN s, RelationsOf(i))
    BY DEF IndexOf, Index
  <2> QED
    BY <1>2, <2>1
<1> HIDE DEF s, now, a, b
<1>4. ListsTheWindow(s, history, i, now)
  BY <1>2 DEF Lists, ListsTheWindow
<1>5. DOMAIN indexes[i].aggregates = Tokens(history, Within(history, i, now), i[1])
  <2>1. DOMAIN indexes[i].aggregates = {s[k].primary : k \in DOMAIN s}
    BY <1>3 DEF Summary
  <2>2. PICK f : /\ Pairs(f, DOMAIN s, Within(history, i, now))
                 /\ \A k \in DOMAIN s : s[k].primary = history[f[k]].attempt[i[1]]
    <3>1. now \in Nat
      BY <1>1 DEF now
    <3> QED
      BY <1>1, <1>2, <3>1, ListedPairs
  <2>3. \A p \in Within(history, i, now) : history[p].attempt[i[1]] # None
    BY DEF Within
  <2>4. /\ \A k \in DOMAIN s : f[k] \in Within(history, i, now)
        /\ \A p \in Within(history, i, now) : \E k \in DOMAIN s : f[k] = p
    BY <2>2 DEF Pairs
  <2> QED
    BY <2>1, <2>2, <2>3, <2>4 DEF Tokens
<1>6. \A t : Snapshot(indexes[i], t, RelationsOf(i)) = Truth(history, i, t, now)
  <2>1. now \in Nat
    BY <1>1 DEF now
  <2> SUFFICES ASSUME NEW t
               PROVE  Snapshot(indexes[i], t, RelationsOf(i)) = Truth(history, i, t, now)
    OBVIOUS
  <2>2. Snapshot(IndexOf(s, i, a, b), t, RelationsOf(i)) = Truth(history, i, t, now)
    BY <1>1, <1>2, <2>1, SnapshotIs
  <2> QED
    BY <1>2, <2>2
<1> QED
  BY <1>4, <1>5, <1>6 DEF s, now

\* What the summary of some observations counts of any one of them, it can do without.
LEMMA RemovableIs ==
  ASSUME NEW s, NEW K, IsFiniteSet(K), NEW k \in K, NEW R
  PROVE  Removable(Summary(s, K, R), s[k])
<1> DEFINE t == s[k].primary
           C == Concerning(s, K, t)
           rest == C \ {k}
           at == Latest(s, C)
           before == Summary(s, K, R)[t]
           left == Uncounted(before, s[k])
<1>1. k \in C /\ IsFiniteSet(C) /\ IsFiniteSet(rest)
  <2>1. k \in C /\ C \in SUBSET K /\ rest \in SUBSET K
    BY DEF Concerning
  <2> QED
    BY <2>1, FS_Subset
<1>2. t \in DOMAIN Summary(s, K, R) /\ before = Counting(s, C, R, at)
  BY <1>1, CountersOf, SMTT(30)
<1> HIDE DEF C, at, before
<1>3. left = Counting(s, rest, R, at)
  BY <1>1, <1>2, UncountedIs
<1> HIDE DEF rest, left
<1>4. /\ before.attempts = Cardinality(C) /\ before.failures = Cardinality(Failing(s, C))
      /\ before.related = [r \in R |-> Tally(s, C, r)]
  BY <1>2 DEF Counting
<1>5. /\ left.attempts = Cardinality(rest) /\ left.failures = Cardinality(Failing(s, rest))
      /\ left.related = [r \in R |-> Tally(s, rest, r)]
  BY <1>3 DEF Counting
<1>6. before.attempts > 0
  BY <1>1, <1>4, FS_EmptySet, FS_CardinalityType
<1>7. s[k].failed => before.failures > 0
  <2>1. /\ Cardinality(Failing(s, rest)) \in Nat
        /\ Cardinality(Failing(s, rest)) = Cardinality(Failing(s, C)) - One(s[k].failed)
        /\ Cardinality(Failing(s, C)) \in Nat
    BY <1>1, FailuresOf DEF rest
  <2> QED
    BY <1>4, <2>1 DEF One
<1>8. ASSUME NEW r \in DOMAIN before.related, s[k].relations[r] # None
      PROVE  /\ s[k].relations[r] \in DOMAIN before.related[r]
             /\ before.related[r][s[k].relations[r]] > 0
  <2> DEFINE v == s[k].relations[r]
             n == Cardinality(Occurring(s, C, r, v))
  <2>1. before.related[r] = Tally(s, C, r)
    BY <1>4, <1>8
  <2>2. /\ IsFiniteSet(Occurring(s, C, r, v)) /\ n \in Nat
        /\ v # None => (v \in DOMAIN Tally(s, C, r) <=> n > 0)
        /\ v \in DOMAIN Tally(s, C, r) => Tally(s, C, r)[v] = n
    BY <1>1, TallyOf
  <2>3. k \in Occurring(s, C, r, v)
    BY <1>1 DEF Occurring
  <2>4. n > 0
    BY <2>2, <2>3, FS_EmptySet
  <2> QED
    BY <1>8, <2>1, <2>2, <2>4
<1>9. ASSUME left.attempts = 0
      PROVE  left.failures = 0 /\ \A r \in DOMAIN before.related : DOMAIN left.related[r] = {}
  <2>1. rest = {}
    BY <1>1, <1>5, <1>9, FS_EmptySet
  <2>2. Failing(s, rest) = {} /\ \A r : DOMAIN Tally(s, rest, r) = {}
    BY <2>1 DEF Failing, Tally
  <2> QED
    BY <1>4, <1>5, <2>2, FS_EmptySet
<1> QED
  BY <1>2, <1>6, <1>7, <1>8, <1>9 DEF Removable, before, left

\* No prefix of a deque is more than was counted.
LEMMA RemovalsAre ==
  ASSUME EngineInv
  PROVE  RemovalsSucceed
<1> SUFFICES ASSUME NEW i \in Indexes, NEW n \in DOMAIN indexes[i].observations
             PROVE  Removable(Without(indexes[i].aggregates,
                                      SubSeq(indexes[i].observations, 1, n - 1)),
                              indexes[i].observations[n])
  BY DEF RemovalsSucceed
<1> DEFINE s == indexes[i].observations
           R == RelationsOf(i)
           rest == SubSeq(s, n, Len(s))
           gone == SubSeq(s, 1, n - 1)
           K == DOMAIN rest
<1>1. Deque(s) /\ indexes[i].aggregates = Summary(s, DOMAIN s, R)
  <2>1. Deque(s) /\ indexes[i] = IndexOf(s, i, indexes[i].peakObservations, indexes[i].peakEntities)
    BY DEF EngineInv, Sound
  <2>2. \A a, b : IndexOf(s, i, a, b).aggregates = Summary(s, DOMAIN s, R)
    BY DEF IndexOf, Index
  <2> HIDE DEF s, R
  <2> QED
    BY <2>1, <2>2
<1> HIDE DEF s, R
<1>2. Len(s) \in Nat /\ n \in 1 .. Len(s)
  BY <1>1, DequeShape DEF s
<1>3. n - 1 \in 0 .. Len(s) /\ (n - 1) + 1 = n
  BY <1>2
<1>4. Without(Summary(s, DOMAIN s, R), gone) = Summary(rest, K, R)
  <2>1. Without(Summary(s, DOMAIN s, R), SubSeq(s, 1, n - 1))
          = Summary(SubSeq(s, (n - 1) + 1, Len(s)), DOMAIN SubSeq(s, (n - 1) + 1, Len(s)), R)
    BY <1>1, <1>3, EvictedIs
  <2> QED
    BY <1>3, <2>1
<1>5. K = 1 .. (Len(s) - (n - 1)) /\ rest[1] = s[n] /\ 1 \in K
  <2>1. \A e \in 0 .. Len(s) : /\ DOMAIN SubSeq(s, e + 1, Len(s)) = 1 .. (Len(s) - e)
                               /\ \A k \in DOMAIN SubSeq(s, e + 1, Len(s)) :
                                    SubSeq(s, e + 1, Len(s))[k] = s[k + e]
    BY <1>1, RestShape
  <2>2. K = 1 .. (Len(s) - (n - 1)) /\ \A k \in K : rest[k] = s[k + (n - 1)]
    BY <1>3, <2>1
  <2> HIDE DEF K, rest
  <2>3. 1 \in K /\ 1 + (n - 1) = n
    BY <1>2, <2>2
  <2> QED
    BY <2>2, <2>3
<1> HIDE DEF rest, gone, K
<1>6. IsFiniteSet(K)
  BY <1>2, <1>5, FS_Interval
<1>7. Removable(Summary(rest, K, R), rest[1])
  BY <1>5, <1>6, RemovableIs
<1> QED
  BY <1>1, <1>4, <1>5, <1>7 DEF s, gone

-----------------------------------------------------------------------------
(* The theorems.                                                           *)

\* Accepted events came in order; every index is a deque that lists the events of its
\* window, and the counters of the deque.
THEOREM EngineInvariantHolds == Spec => []EngineInv
<1>1. Init => EngineInv
  BY InitStep
<1>2. EngineInv /\ [Next]_vars => EngineInv'
  <2> SUFFICES ASSUME EngineInv, [Next]_vars PROVE EngineInv'
    OBVIOUS
  <2>1. ASSUME NEW e \in EventsAt, Process(e) PROVE EngineInv'
    BY <2>1, ProcessStep
  <2>2. CASE UNCHANGED vars
    BY <2>2 DEF EngineInv, InOrder, Now, FeaturesAreCausal, RecordsValidate, vars
  <2>3. ASSUME NEW e \in EventsAt, NEW p, ProcessFails(e, p) PROVE EngineInv'
    BY <2>2, <2>3, FailsStep
  <2> QED
    BY <2>1, <2>2, <2>3 DEF Next
<1> QED
  BY <1>1, <1>2, PTL DEF Spec

\* However many events came in, left a window, were refused or failed half-way, every
\* deque holds the events of its window and every counter is what a recount of them
\* gives (features/state.py).
THEOREM CountersAgree == Spec => []CountersMatchEvents
<1>1. EngineInv => CountersMatchEvents
  BY CountersAre
<1> QED
  BY <1>1, EngineInvariantHolds, PTL

\* The checks of _remove_aggregate_reference (rolling_index_*_inconsistent) never raise
\* during an eviction, whatever it evicts.
THEOREM EvictionsSucceed == Spec => []RemovalsSucceed
<1>1. EngineInv => RemovalsSucceed
  BY RemovalsAre
<1> QED
  BY <1>1, EngineInvariantHolds, PTL

\* The features of an event are those of the events before it, and the validator of
\* FeatureVector accepts them (features/engine.py, features/schema.py).
THEOREM FeaturesCausal == Spec => []FeaturesAreCausal
<1>1. EngineInv => FeaturesAreCausal
  BY DEF EngineInv
<1> QED
  BY <1>1, EngineInvariantHolds, PTL

\* A call that fails between any two of its updates puts back exactly what it had evicted and
\* takes out exactly what it had added, counters, times and peaks included.
THEOREM FailuresLeaveNoTrace == Spec => FailureLeavesNoTrace
<1>1. EngineInv /\ [Next]_vars => [history' = history => UNCHANGED indexes]_vars
  <2> SUFFICES ASSUME EngineInv, Next, history' = history
               PROVE  UNCHANGED indexes
    OBVIOUS
  <2>1. ASSUME NEW e \in EventsAt, Process(e) PROVE FALSE
    <3>1. history \in Seq(EventsAt) /\ history' = Append(history, e)
      BY <2>1 DEF EngineInv, InOrder, Process
    <3>2. Len(Append(history, e)) = Len(history) + 1 /\ Len(history) \in Nat
      BY <3>1
    <3> QED
      BY <3>1, <3>2
  <2>2. ASSUME NEW e \in EventsAt, NEW p, ProcessFails(e, p) PROVE indexes' = indexes
    BY <2>2, FailureUndone
  <2> QED
    BY <2>1, <2>2 DEF Next
<1> QED
  BY <1>1, EngineInvariantHolds, PTL DEF Spec, FailureLeavesNoTrace

=============================================================================
