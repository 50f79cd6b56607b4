---------------------------- MODULE PolicyLifecycle ----------------------------
(******************************************************************************)
(* The offline programs that lock a model and fit, compare and approve a band *)
(* over it: train-model, evaluate-test, the stress analysis, fit-policy-band  *)
(* and validate-policy (modeling/training.py, evaluation.py, policy_ops.py).  *)
(* Each is one step: it reads published directories, computes, and publishes. *)
(* Between two of them an operator may retrain under another configuration or *)
(* edit the policy file.                                                      *)
(******************************************************************************)
EXTENDS ModelSelection, PortableTrees

CONSTANTS
    Cases,           \* partitions to explore: [fitted, heldOut, tree]; fitted[c] is the
                     \* policy-selection partition scored by each candidate under configuration c
    ModelingConfigs, \* modeling configurations
    Policies,        \* policy configurations: costs, gridSize, ceiling, minimumRows, minimumAttacks
    Roundings,       \* portable inference errors, one function per way of rounding
    Batches,         \* validation batches as the locked model scores them
    Identities,      \* what names a dataset: ids and hashes
    None

\* What load_evaluation_data lets through: labels that are consistent and rows in the
\* order of their times.
ReportedRows(rows) ==
    /\ rows \in Seq(ToSet(rows))
    /\ \A i \in DOMAIN rows :
         /\ rows[i].attack \in BOOLEAN /\ rows[i].score \in 0 .. One /\ rows[i].at \in Int
         /\ IF rows[i].attack THEN rows[i].campaign # NoCampaign
            ELSE rows[i].scenario \in LegitimateScenarios
    /\ \A i, j \in DOMAIN rows : i < j => rows[i].at <= rows[j].at

\* Arrays of one length, at least one.
TreeArrays(tree) ==
    LET size == Cardinality(Nodes(tree))
    IN  /\ size \in Nat \ {0}
        /\ {tree.left, tree.right, tree.feature} \subseteq [0 .. size - 1 -> Int]

ASSUME PolicyAssumption ==
    /\ \A case \in Cases : \A config \in DOMAIN case.fitted :
         /\ case.fitted[config] \in [Candidates -> Seq(ScoredRows)]
         /\ \A c \in Candidates, error \in Roundings :
              \A i \in DOMAIN case.fitted[config][c] : error[i] \in Int
    /\ \A case \in Cases : ReportedRows(case.heldOut) /\ TreeArrays(case.tree)
    /\ Batches \subseteq Seq(ScoredRows)
    /\ Policies \subseteq [costs : [falseNegative : Nat, falsePositive : Nat, review : Nat],
                           gridSize : Nat \ {0, 1}, ceiling : Nat, minimumRows : Nat, minimumAttacks : Nat]

VARIABLES
    data,       \* the case: the files on disk that no program writes
    policy,     \* the policy configuration file
    model,      \* the locked model directory
    evaluation, \* the held-out report
    stress,     \* the stress report on the same rows
    band,       \* the band directory
    sweepError, \* fit-policy-band has raised policy_band_sweep_inconsistent or built no valid band
    comparison  \* the last comparison

vars == <<data, policy, model, evaluation, stress, band, sweepError, comparison>>

Init ==
    /\ data \in Cases
    /\ policy \in Policies
    /\ model = None /\ evaluation = None /\ stress = None
    /\ band = None /\ comparison = None /\ sweepError = FALSE

\* Nothing is overwritten: an operator removes a directory before he publishes
\* another one in its place.
RemoveDirectory ==
    /\ \/ model # None /\ model' = None /\ UNCHANGED band
       \/ band # None /\ band' = None /\ UNCHANGED model
    /\ evaluation' = None /\ stress' = None /\ comparison' = None
    /\ UNCHANGED <<data, policy, sweepError>>

EditPolicy ==
    /\ policy' \in Policies \ {policy}
    /\ UNCHANGED <<data, model, evaluation, stress, band, sweepError, comparison>>

\* Every case is trained under every configuration; the winner is exported, and
\* published unless its portable form strays from the estimator.
Train(config) ==
    /\ model = None
    /\ config \in DOMAIN data.fitted
    /\ Accepts(data.tree)
    /\ \E winner \in {SelectCandidate(data.fitted[config])} :
         \E portable \in {PortableScores(data.fitted[config][winner.name], error) : error \in Roundings} :
            /\ ParityHolds(data.fitted[config][winner.name], portable)
            /\ model' = [config |-> config, name |-> winner.name,
                         threshold |-> winner.metrics.threshold, portable |-> portable]
    /\ UNCHANGED <<data, policy, evaluation, stress, band, sweepError, comparison>>

\* evaluate-test, and the stress analysis put to the same rows. Every program after
\* train-model refuses a model of another modeling configuration, so the
\* configuration is the model's from here on.
Evaluate ==
    /\ model # None /\ evaluation = None
    /\ data.heldOut # <<>>
    /\ evaluation' = EvaluationReport(data.heldOut, model.threshold)
    /\ stress' = ScoreVariant(data.heldOut, model.threshold)
    /\ UNCHANGED <<data, policy, model, band, sweepError, comparison>>

FitPolicyBand ==
    /\ model # None /\ band = None
    /\ \E fit \in {SelectBand(model.portable, policy.costs, policy.gridSize, {model.threshold})} :
         \E outcome \in {EvaluateBand(model.portable, fit, policy.costs)} :
            /\ sweepError' = ~(ValidBand(fit) /\ outcome.cost = fit.cost)
            /\ band' = IF sweepError' THEN None
                       ELSE [lower |-> fit.lower, upper |-> fit.upper, outcome |-> outcome,
                             incumbent |-> EvaluateBand(model.portable, SingleThreshold(model.threshold), policy.costs),
                             model |-> model, policy |-> policy]
    /\ UNCHANGED <<data, policy, model, evaluation, stress, comparison>>

\* Mutant: a band is used whatever policy it was fitted under.
BandLoadsAnyPolicy == band # None /\ band.model = model

\* load_locked_band, and the model check of validate_policy. A band names the
\* model by an id that hashes the model and its configuration.
BandLoads == band # None /\ band.policy = policy /\ band.model = model

\* load_policy_validation_data refuses a batch that shares any identity with the
\* development data; `shared` are the identities it shares.
FreshBatch(batch, shared) ==
    /\ shared = {}
    /\ {batch[i].attack : i \in DOMAIN batch} = BOOLEAN

ValidatePolicy(batch, shared, approve) ==
    /\ model # None /\ comparison = None
    /\ BandLoads
    /\ FreshBatch(batch, shared)
    /\ \E incumbent \in {EvaluateBand(batch, SingleThreshold(model.threshold), policy.costs)},
          banded \in {EvaluateBand(batch, [lower |-> band.lower, upper |-> band.upper], policy.costs)} :
         \E failed \in {FailedGates(incumbent, banded, policy)} :
            comparison' = [batch |-> batch, shared |-> shared, policy |-> policy, model |-> model,
                           band |-> band, failed |-> failed, granted |-> approve /\ failed = {}]
    /\ UNCHANGED <<data, policy, model, evaluation, stress, band, sweepError>>

Next ==
    \/ RemoveDirectory
    \/ EditPolicy
    \/ \E config \in ModelingConfigs : Train(config)
    \/ Evaluate
    \/ FitPolicyBand
    \/ \E batch \in Batches, shared \in SUBSET Identities, approve \in BOOLEAN :
         ValidatePolicy(batch, shared, approve)

Spec == Init /\ [][Next]_vars

--------------------------------------------------------------------------------
(* Properties.                                                                *)

\* A fitted band, its key among those of all pairs of candidates, and its cost.
FirstOfItsCandidates(fitted) ==
    LET batch == fitted.model.portable
        costs == fitted.policy.costs
        grid  == ToSet(SweepCandidates(batch, fitted.policy.gridSize, {fitted.model.threshold}))
                   \cup {fitted.model.threshold}
        Key(l, u) == LET o == EvaluateBand(batch, [lower |-> l, upper |-> u], costs)
                     IN  <<o.cost, o.falsePositive, -o.truePositive, o.review, -u, -l>>
        best  == Key(fitted.lower, fitted.upper)
    IN  /\ \A l, u \in grid : l <= u => ~Precedes(Key(l, u), best)
        /\ fitted.outcome.cost <= fitted.incumbent.cost
        /\ Cardinality(ScoresOf(batch) \cup {0, One}) <= fitted.policy.gridSize =>
             \A l, u \in 0 .. One : l <= u => Key(l, u)[1] >= best[1]

\* The vectorised sweep, which prices pairs by prefix sums and admits them by
\* position, agrees with the band evaluation that is used everywhere else
\* (bands.py:281-351): it never fails its own check, never selects thresholds in
\* the wrong order, and finds the first band of the tie-break order among all
\* pairs of candidates. However coarse the grid, the incumbent threshold is one of
\* them, although it stems from the estimator's own scores and need not be a score
\* of the portable model (policy_ops.py:92-93), so the band never costs more. When
\* no candidate was thinned out, no band at all does better.
SweepFindsBestBand == ~sweepError /\ (band # None => FirstOfItsCandidates(band))

\* No candidate has a threshold of lower cost, with fewer false positives at equal
\* cost or more true positives at equal both, and among the thresholds that decide
\* every row alike the highest is locked (metrics.py:74-99, training.py:95-107).
LockedThresholdIsBest ==
    model # None =>
      LET Key(c, t) == LET m == ThresholdMetrics(data.fitted[model.config][c], t)
                       IN  <<m.cost, m.falsePositive, -m.truePositive>>
          own == data.fitted[model.config][model.name]
      IN  /\ \A c \in Candidates, t \in 0 .. One :
                ~Precedes(Key(c, t), Key(model.name, model.threshold))
          /\ \A t \in ScoresOf(own) \cup {One} :
                Flagged(own, t) = Flagged(own, model.threshold) => t <= model.threshold

Attacks(batch) == {i \in DOMAIN batch : batch[i].attack}

Legitimate(batch) == (DOMAIN batch) \ Attacks(batch)

AtLeast(batch, threshold) == {i \in DOMAIN batch : batch[i].score >= threshold}

DeniedLive(batch, threshold) == {i \in DOMAIN batch : Classify(batch[i].score, threshold) = "deny"}

\* What it costs to stop some rows, and to deny some of these without a review.
CostOf(batch, costs, stopped, denied) ==
    costs.falseNegative * Cardinality(Attacks(batch) \ stopped)
    + costs.falsePositive * Cardinality(denied \cap Legitimate(batch))
    + costs.review * Cardinality(stopped \ denied)

\* An approval was granted to a band fitted for this very model under this very
\* policy, on rows that are not the development data, where it costs less than the
\* live rule of the checkout and denies at most the ceiling of the legitimate rows,
\* up to the half basis point of the rounding (policy_ops.py:165-251,
\* decisions.py:24-35). The band, the model and the policy may all have been
\* replaced since they were first used.
ApprovalIsEarned ==
    comparison # None /\ comparison.granted =>
      LET c      == comparison
          live   == DeniedLive(c.batch, c.model.threshold)
          denied == AtLeast(c.batch, c.band.upper)
      IN  /\ c.band.policy = c.policy /\ c.band.model = c.model /\ c.shared = {}
          /\ CostOf(c.batch, c.policy.costs, AtLeast(c.batch, c.band.lower), denied)
               < CostOf(c.batch, c.policy.costs, live, live)
          /\ 20000 * Cardinality(denied \cap Legitimate(c.batch))
               < (2 * c.policy.ceiling + 1) * Cardinality(Legitimate(c.batch))
          /\ Len(c.batch) >= c.policy.minimumRows
          /\ Cardinality(Attacks(c.batch)) >= c.policy.minimumAttacks

\* Every row is in exactly one reliability bin, the slices of hard negatives add up
\* to the false positives and the campaigns to the true positives.
AddsUp(rows, report) ==
    /\ \A i \in DOMAIN rows : Cardinality({b \in DOMAIN report.bins : i \in report.bins[b]}) = 1
    /\ Total([s \in LegitimateScenarios |-> Cardinality(report.slices[s])]) = report.threshold.falsePositive
    /\ Total([c \in Campaigns(rows) |-> report.campaigns.flagged[c]]) = report.threshold.truePositive
    /\ \A c \in report.campaigns.detected : report.campaigns.delay[c] >= 0
    /\ report.campaigns.median <= report.campaigns.p95

\* Precision summed over groups of equal scores, as scikit-learn's
\* average_precision_score does in the held-out report.
GroupedAveragePrecision(batch) ==
    Total([s \in ScoresOf(batch) |->
        LET above == Flagged(batch, s)
        IN  Cardinality({i \in above : batch[i].attack /\ batch[i].score = s})
            * Rate(Cardinality({i \in above : batch[i].attack}), Cardinality(above))])

\* The same confusion, the same detected campaigns and, where no two rows have the
\* same score, the same average precision.
MeasuresAlike(rows, report, measured) ==
    LET t == report.threshold
    IN  /\ <<measured.truePositive, measured.falsePositive, measured.trueNegative,
             measured.falseNegative, measured.cost>>
            = <<t.truePositive, t.falsePositive, t.trueNegative, t.falseNegative, t.cost>>
        /\ measured.detected = report.campaigns.detected /\ measured.total = Campaigns(rows)
        /\ Cardinality(ScoresOf(rows)) = Len(rows) =>
             measured.averagePrecision = GroupedAveragePrecision(rows)

\* The parts of the held-out report count the same rows (metrics.py:102-229), and the
\* stress analysis measures like the held-out report does
\* (adversarial_stress.py:85-198).
ReportsAgree ==
    /\ evaluation # None => AddsUp(data.heldOut, evaluation)
    /\ stress # None => MeasuresAlike(data.heldOut, evaluation, stress)

ShapeOk(tree, n) ==
    \/ IsLeaf(tree, n) /\ tree.feature[n] = LeafMarker
    \/ /\ {tree.left[n], tree.right[n]} \subseteq Nodes(tree)
       /\ tree.left[n] # tree.right[n]
       /\ tree.feature[n] \in 0 .. Features - 1

Parents(tree, n) == {p \in Nodes(tree) : n \in {tree.left[p], tree.right[p]}}

\* The root and, with a node, its children.
ClosedDownwards(tree, S) ==
    0 \in S /\ \A p \in S : {tree.left[p], tree.right[p]} \cap Nodes(tree) \subseteq S

IsTree(tree) ==
    /\ \A n \in Nodes(tree) :
         ShapeOk(tree, n) /\ Cardinality(Parents(tree, n)) = IF n = 0 THEN 0 ELSE 1
    /\ \A S \in SUBSET Nodes(tree) : ClosedDownwards(tree, S) => S = Nodes(tree)

\* validate_tree accepts exactly the trees: children in range, every node but the
\* root the child of one node, all of them below the root, leaves and splits marked
\* as such. Hence every row ends in a leaf (model.py:54-103 and 331-343).
TreesAreWalkable ==
    /\ Accepts(data.tree) <=> IsTree(data.tree)
    /\ Accepts(data.tree) =>
         \A above \in SUBSET (0 .. Features - 1) :
           LeafOf(data.tree, above) \in Nodes(data.tree) /\ IsLeaf(data.tree, LeafOf(data.tree, above))
================================================================================
