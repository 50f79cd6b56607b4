---------------------------- MODULE ModelSelection ----------------------------
(******************************************************************************)
(* The offline side of the model: the threshold that is locked with it        *)
(* (modeling/metrics.py, modeling/training.py), its portable form             *)
(* (modeling/model.py), the held-out report, and the stress analysis          *)
(* (analysis/adversarial_stress.py) that measures the same quantities again.  *)
(******************************************************************************)
EXTENDS DecisionBands

CONSTANTS
    Epsilon,    \* probability_clip_epsilon
    Tolerance,  \* parity_absolute_tolerance
    ParityRows, \* parity_sample_rows
    Bins        \* reliability_bin_count

ASSUME SelectionAssumption ==
    /\ Epsilon \in 1 .. One - 1 /\ Tolerance \in Nat
    /\ ParityRows \in Nat \ {0, 1} /\ Bins \in Nat \ {0, 1}

\* modeling/config.py accepts no other weights.
LockedCosts == [falseNegative |-> 25, falsePositive |-> 1, review |-> 0]

Candidates == {"gradient_boosting", "logistic_regression"}

NameOrder == [gradient_boosting |-> 1, logistic_regression |-> 2]

--------------------------------------------------------------------------------
(* Threshold selection.                                                       *)

\* A fraction as an integer, exact for batches of at most six rows; 0 for none.
Rate(numerator, denominator) ==
    IF denominator = 0 THEN 0 ELSE (numerator * 60) \div denominator

ThresholdMetrics(batch, threshold) ==
    LET Count(flagged, attack) ==
            Cardinality({i \in DOMAIN batch :
                (batch[i].score >= threshold) = flagged /\ batch[i].attack = attack})
    IN  [threshold |-> threshold,
         truePositive  |-> Count(TRUE, TRUE),  falsePositive |-> Count(TRUE, FALSE),
         falseNegative |-> Count(FALSE, TRUE), trueNegative  |-> Count(FALSE, FALSE),
         precision |-> Rate(Count(TRUE, TRUE), Count(TRUE, TRUE) + Count(TRUE, FALSE)),
         cost |-> Count(TRUE, FALSE) * LockedCosts.falsePositive
                  + Count(FALSE, TRUE) * LockedCosts.falseNegative]

\* Mutant: of two thresholds that decide alike, the lower one is taken.
ThresholdKeyLowest(m) == <<m.cost, m.falsePositive, -m.truePositive, -m.precision, m.threshold>>

ThresholdKey(m) == <<m.cost, m.falsePositive, -m.truePositive, -m.precision, -m.threshold>>

SelectThreshold(batch) ==
    First([m \in {ThresholdMetrics(batch, t) : t \in ScoresOf(batch) \cup {0, One}} |-> ThresholdKey(m)])

RankingKey(entry) == ThresholdKey(entry.metrics) \o <<NameOrder[entry.name]>>

\* `fitted` gives, for each candidate, the partition scored by it.
SelectCandidate(fitted) ==
    First([e \in {[name |-> c, metrics |-> SelectThreshold(fitted[c])] : c \in Candidates} |-> RankingKey(e)])

--------------------------------------------------------------------------------
(* The portable model.                                                        *)

\* Rows, counted from 1, on which parity is checked.
SampleRows(total) ==
    LET count == Min({total, ParityRows})
    IN  IF count = total THEN 1 .. total
        ELSE {1 + (i * (total - 1)) \div (count - 1) : i \in 0 .. count - 1}

\* Portable inference scores like the fitted estimator up to rounding (`error`),
\* and clips.
PortableScores(batch, error) ==
    [i \in DOMAIN batch |->
        [batch[i] EXCEPT !.score = Max({Epsilon, Min({One - Epsilon, batch[i].score + error[i]})})]]

ParityHolds(fitted, portable) ==
    \A i \in SampleRows(Len(fitted)) :
        fitted[i].score - portable[i].score \in -Tolerance .. Tolerance

\* Mutant: only scores above the threshold are flagged.
FlaggedStrict(batch, threshold) == {i \in DOMAIN batch : batch[i].score > threshold}

Flagged(batch, threshold) == {i \in DOMAIN batch : batch[i].score >= threshold}

\* The live rule is the offline rule for one row.
Classify(score, threshold) == IF score >= threshold THEN "deny" ELSE "allow"

--------------------------------------------------------------------------------
(* The held-out report. Rows also have a scenario, a campaign (or NoCampaign) *)
(* and a time.                                                                *)

NoCampaign == "none"

LegitimateScenarios == {"flash_sale", "legitimate_failure", "legitimate_retry", "normal", "shared_infrastructure"}

InBin(score, index) ==
    /\ score * Bins >= index * One
    /\ IF index = Bins - 1 THEN score <= One ELSE score * Bins < (index + 1) * One

ReliabilityBins(batch) ==
    [index \in 0 .. Bins - 1 |-> {i \in DOMAIN batch : InBin(batch[i].score, index)}]

HardNegatives(batch, threshold) ==
    [s \in LegitimateScenarios |->
        {i \in Flagged(batch, threshold) : ~batch[i].attack /\ batch[i].scenario = s}]

CampaignRows(batch, c) == {i \in DOMAIN batch : batch[i].attack /\ batch[i].campaign = c}

Campaigns(batch) == {batch[i].campaign : i \in {j \in DOMAIN batch : batch[j].attack}} \ {NoCampaign}

\* The smallest of the values of a function that at least `percent` of them do not
\* exceed: the entry of their sorted list at that rank.
Percentile(values, percent) ==
    IF values = <<>> THEN 0
    ELSE Min({values[c] : c \in {d \in DOMAIN values :
             100 * Cardinality({e \in DOMAIN values : values[e] <= values[d]})
                 >= percent * Cardinality(DOMAIN values)}})

CampaignMetrics(batch, threshold) ==
    LET hits(c)  == CampaignRows(batch, c) \cap Flagged(batch, threshold)
        detected == {c \in Campaigns(batch) : hits(c) # {}}
        delay    == [c \in detected |-> batch[Min(hits(c))].at - batch[Min(CampaignRows(batch, c))].at]
    IN  [flagged  |-> [c \in Campaigns(batch) |-> Cardinality(hits(c))],
         detected |-> detected,
         delay    |-> delay,
         median   |-> Percentile(delay, 50),
         p95      |-> Percentile(delay, 95)]

EvaluationReport(batch, threshold) ==
    [threshold |-> ThresholdMetrics(batch, threshold),
     bins      |-> ReliabilityBins(batch),
     slices    |-> HardNegatives(batch, threshold),
     campaigns |-> CampaignMetrics(batch, threshold)]

--------------------------------------------------------------------------------
(* The stress analysis of the test split of one variant.                      *)

RankOrder(batch) ==
    {e \in (DOMAIN batch) \X (DOMAIN batch) :
        \/ batch[e[1]].score > batch[e[2]].score
        \/ batch[e[1]].score = batch[e[2]].score /\ e[1] < e[2]}

Total(f) == MapThenSumSet(LAMBDA x : f[x], DOMAIN f)

\* Precision summed over the attacks, scores descending, ties in file order.
AveragePrecision(batch) ==
    LET order    == InOrder(DOMAIN batch, RankOrder(batch))
        ranked   == [k \in DOMAIN batch |-> batch[order[k]]]
        hits(k)  == Cardinality({j \in 1 .. k : ranked[j].attack})
        attacks  == {k \in DOMAIN ranked : ranked[k].attack}
    IN  Total([k \in attacks |-> Rate(hits(k), k)])

ScoreVariant(batch, threshold) ==
    LET flagged == Flagged(batch, threshold)
        attacks == {i \in DOMAIN batch : batch[i].attack}
    IN  [truePositive     |-> Cardinality(flagged \cap attacks),
         falseNegative    |-> Cardinality(attacks \ flagged),
         falsePositive    |-> Cardinality(flagged \ attacks),
         trueNegative     |-> Cardinality((DOMAIN batch) \ (flagged \cup attacks)),
         cost             |-> 25 * Cardinality(attacks \ flagged) + Cardinality(flagged \ attacks),
         total            |-> {batch[i].campaign : i \in attacks} \ {NoCampaign},
         detected         |-> {batch[i].campaign : i \in flagged \cap attacks} \ {NoCampaign},
         averagePrecision |-> AveragePrecision(batch)]
================================================================================
