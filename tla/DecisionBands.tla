----------------------------- MODULE DecisionBands -----------------------------
(******************************************************************************)
(* policy/bands.py and the gates of policy/comparison.py: a band of two       *)
(* thresholds, the sweep that fits one to a scored batch, and what a band     *)
(* must show to be approved. A batch is a sequence of rows with an attack     *)
(* flag and a score; probabilities are the integers 0 .. One, a grid on which *)
(* all comparisons of the code can be told apart.                             *)
(******************************************************************************)
EXTENDS Integers, FiniteSets, Sequences, FiniteSetsExt, SequencesExt

CONSTANT One  \* the probability 1.0

ASSUME OneAssumption == One \in Nat \ {0}

ScoredRows == [attack : BOOLEAN, score : 0 .. One]

ScoresOf(batch) == {batch[i].score : i \in DOMAIN batch}

\* The order of Python tuples, and the entry whose key comes first in it.
Precedes(a, b) ==
    \E i \in DOMAIN a : a[i] < b[i] /\ \A j \in 1 .. i - 1 : a[j] = b[j]

First(key) == CHOOSE x \in DOMAIN key : \A y \in DOMAIN key : ~Precedes(key[y], key[x])

\* The elements of S in an order, a set of pairs, that is strict and total on it.
\* (SortSeq says nothing of a sequence with entries that are neither equal nor ordered.)
InOrder(S, before) ==
    [k \in 1 .. Cardinality(S) |-> CHOOSE x \in S : Cardinality({y \in S : <<y, x>> \in before}) = k - 1]

Ascending(S) == InOrder(S, {e \in S \X S : e[1] < e[2]})

ScoreOrder(batch) ==
    {e \in (DOMAIN batch) \X (DOMAIN batch) :
        \/ batch[e[1]].score < batch[e[2]].score
        \/ batch[e[1]].score = batch[e[2]].score /\ e[1] < e[2]}

\* A stable argsort of the rows by score.
ByScore(batch) == InOrder(DOMAIN batch, ScoreOrder(batch))

SortedRows(batch) == [k \in DOMAIN batch |-> batch[ByScore(batch)[k]]]

--------------------------------------------------------------------------------
BandDecision(score, band) ==
    IF score >= band.upper THEN "deny"
    ELSE IF score >= band.lower THEN "review" ELSE "allow"

\* What the fields and the validator of BandPolicy accept.
ValidBand(band) == band.lower \in 0 .. One /\ band.upper \in 0 .. One /\ band.lower <= band.upper

SingleThreshold(threshold) == [lower |-> threshold, upper |-> threshold]

EvaluateBand(batch, band, costs) ==
    LET Count(decision, attack) ==
            Cardinality({i \in DOMAIN batch :
                /\ BandDecision(batch[i].score, band) = decision
                /\ batch[i].attack = attack})
        review == Count("review", TRUE) + Count("review", FALSE)
    IN  [rows          |-> Len(batch),
         attacks       |-> Cardinality({i \in DOMAIN batch : batch[i].attack}),
         review        |-> review,
         truePositive  |-> Count("deny", TRUE),
         falsePositive |-> Count("deny", FALSE),
         trueNegative  |-> Count("allow", FALSE),
         falseNegative |-> Count("allow", TRUE),
         cost          |-> Count("allow", TRUE) * costs.falseNegative
                           + Count("deny", FALSE) * costs.falsePositive
                           + review * costs.review]

--------------------------------------------------------------------------------
(* The sweep.                                                                 *)

\* Mutant: the incumbent's threshold is thinned out like any other.
SweepCandidatesWithoutRequired(batch, gridSize, required) ==
    LET observed == Ascending(ScoresOf(batch) \cup required \cup {0, One})
        total    == Len(observed)
        kept     == IF total > gridSize
                    THEN {observed[1 + (i * (total - 1)) \div (gridSize - 1)] : i \in 0 .. gridSize - 1}
                    ELSE ToSet(observed)
    IN  Ascending(kept)

\* Thresholds worth trying: the observed scores and both ends, thinned by evenly
\* spaced index when there are too many, and whatever is required.
SweepCandidates(batch, gridSize, required) ==
    LET observed == Ascending(ScoresOf(batch) \cup {0, One})
        total    == Len(observed)
        kept     == IF total > gridSize
                    THEN {observed[1 + (i * (total - 1)) \div (gridSize - 1)] : i \in 0 .. gridSize - 1}
                    ELSE ToSet(observed)
    IN  Ascending(kept \cup required)

Boundary(sorted, threshold) ==
    Cardinality({j \in DOMAIN sorted : sorted[j].score < threshold})

AttacksBelow(sorted, n) == Cardinality({j \in 1 .. n : sorted[j].attack})

\* A pair of thresholds, priced by their positions among the sorted rows.
Priced(sorted, costs, lower, upper) ==
    LET below    == Boundary(sorted, lower)
        over     == Boundary(sorted, upper)
        review   == over - below
        denied   == AttacksBelow(sorted, Len(sorted)) - AttacksBelow(sorted, over)
        falsePos == Len(sorted) - over - denied
    IN  [cost          |-> AttacksBelow(sorted, below) * costs.falseNegative
                           + falsePos * costs.falsePositive + review * costs.review,
         falsePositive |-> falsePos,
         truePositive  |-> denied,
         review        |-> review,
         lower         |-> lower,
         upper         |-> upper]

TieBreakKey(entry, low, high) ==
    <<entry.cost, entry.falsePositive, -entry.truePositive, entry.review,
      -entry.upper, -entry.lower, low, high>>

\* Every pair of candidates is priced over the rows sorted by score. A pair is
\* admitted by the positions of its thresholds among the rows, not by their values.
SelectBand(batch, costs, gridSize, required) ==
    LET candidates == SweepCandidates(batch, gridSize, required)
        sorted     == SortedRows(batch)
        Entry(low, high) == Priced(sorted, costs, candidates[low], candidates[high])
        pairs      == {p \in (DOMAIN candidates) \X (DOMAIN candidates) : Entry(p[1], p[2]).review >= 0}
        best       == First([p \in pairs |-> TieBreakKey(Entry(p[1], p[2]), p[1], p[2])])
    IN  Entry(best[1], best[2])

--------------------------------------------------------------------------------
(* Gates.                                                                     *)

\* Integer basis points, rounded half up.
BasisPoints(numerator, denominator) ==
    (numerator * 20000 + denominator) \div (2 * denominator)

WithinCeiling(outcome, ceiling) ==
    LET legitimate == outcome.rows - outcome.attacks
    IN  legitimate > 0 /\ BasisPoints(outcome.falsePositive, legitimate) <= ceiling

FailedGates(incumbent, banded, policy) ==
    (IF banded.cost < incumbent.cost THEN {} ELSE {"cost_not_improved"})
    \cup (IF WithinCeiling(banded, policy.ceiling) THEN {} ELSE {"false_positive_ceiling"})
    \cup (IF banded.rows >= policy.minimumRows /\ banded.attacks >= policy.minimumAttacks
          THEN {} ELSE {"batch_too_small"})
================================================================================
