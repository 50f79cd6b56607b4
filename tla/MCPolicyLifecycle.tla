--------------------------- MODULE MCPolicyLifecycle ---------------------------
EXTENDS PolicyLifecycle

\* Development data: three rows scored by the estimators on even numbers, so that
\* rounding by one can neither join nor swap two of them.
Scored(attacks, scores) == [i \in DOMAIN scores |-> [attack |-> attacks[i], score |-> scores[i]]]

Labels == {<<FALSE, TRUE, TRUE>>, <<TRUE, FALSE, FALSE>>}

Fitted(attacks, boosting, logistic) ==
    [gradient_boosting |-> Scored(attacks, boosting), logistic_regression |-> Scored(attacks, logistic)]

Stump == [left |-> [n \in 0 .. 2 |-> IF n = 0 THEN 1 ELSE -1],
          right |-> [n \in 0 .. 2 |-> IF n = 0 THEN 2 ELSE -1],
          feature |-> [n \in 0 .. 2 |-> IF n = 0 THEN 0 ELSE -2]]

SelectionCases ==
    {[fitted |-> [a |-> Fitted(labels, boosting, logistic), b |-> Fitted(labels, <<2, 2, 6>>, <<4, 4, 4>>)],
      heldOut |-> <<>>, tree |-> Stump] :
        labels \in Labels, boosting \in [1 .. 3 -> {2, 4, 6}], logistic \in {<<2, 2, 4>>, <<0, 6, 4>>}}

\* A model whose portable form is the same under every rounding.
OneModel == [a |-> Fitted(<<FALSE, TRUE, TRUE>>, <<0, 6, 4>>, <<2, 2, 2>>)]

\* Held-out rows: scores on, between and at the ends of the bins, in ties or not. The
\* two campaigns are interchangeable, the two scenarios without attack too: the one
\* named first occurs first.
HeldOutRows ==
    {[attack |-> k[1], scenario |-> k[2], campaign |-> k[3], score |-> s] :
        k \in {<<TRUE, "card_testing", "k1">>, <<TRUE, "card_testing", "k2">>,
               <<FALSE, "normal", NoCampaign>>, <<FALSE, "legitimate_retry", NoCampaign>>},
        s \in {2, 4, 5}}

HeldOutCases ==
    {[fitted |-> OneModel, heldOut |-> [i \in 1 .. 3 |-> rows[i] @@ [at |-> i]], tree |-> Stump] :
        rows \in {r \in [1 .. 3 -> HeldOutRows] :
                    /\ {r[i].attack : i \in 1 .. 3} = BOOLEAN
                    /\ \A i \in 1 .. 3 : r[i].campaign = "k2" => \E j \in 1 .. i - 1 : r[j].campaign = "k1"
                    /\ \A i \in 1 .. 3 :
                         r[i].scenario = "legitimate_retry" => \E j \in 1 .. i - 1 : r[j].scenario = "normal"}}

\* All arrays of up to three nodes, with children and features in and out of range;
\* the last of three nodes is marked as a leaf.
Arrays(n, children, features) ==
    {[left |-> l, right |-> r, feature |-> f] :
        l \in [0 .. n - 1 -> children], r \in [0 .. n - 1 -> children],
        f \in {g \in [0 .. n - 1 -> features] : n = 3 => g[2] = -2}}

TreeCases ==
    {[fitted |-> OneModel, heldOut |-> <<>>, tree |-> t] :
        t \in Arrays(1, {-1, 0, 1}, {-2, 0}) \cup Arrays(2, -1 .. 2, {-2, 0})
              \cup Arrays(3, {-1, 1, 2}, {-2, 0, 2})}

MCCases == SelectionCases \cup HeldOutCases \cup TreeCases

\* The two shipped cost scales, the grid reduced to three thresholds or left whole,
\* and ceilings met exactly or missed by rounding.
MCPolicies ==
    {[costs |-> [falseNegative |-> 25, falsePositive |-> 1, review |-> 3],
      gridSize |-> 8, ceiling |-> 3333, minimumRows |-> 4, minimumAttacks |-> 1],
     [costs |-> [falseNegative |-> 250, falsePositive |-> 10, review |-> 3],
      gridSize |-> 3, ceiling |-> 3332, minimumRows |-> 4, minimumAttacks |-> 1]}

MCRoundings ==
    {[i \in 1 .. 3 |-> 0], [i \in 1 .. 3 |-> IF i = 1 THEN 1 ELSE 0],
     [i \in 1 .. 3 |-> IF i = 2 THEN -1 ELSE 0], [i \in 1 .. 3 |-> IF i = 3 THEN 2 ELSE 0]}

MCBatches ==
    {Scored(<<TRUE, FALSE, FALSE, FALSE>>, <<5, 5, 3, 1>>), Scored(<<TRUE, FALSE, FALSE, FALSE>>, <<3, 5, 1, 1>>),
     Scored(<<TRUE, TRUE, FALSE, FALSE>>, <<4, 2, 3, 1>>), Scored(<<TRUE, FALSE, FALSE, FALSE>>, <<3, 2, 2, 1>>),
     Scored(<<TRUE, TRUE, TRUE, TRUE>>, <<3, 5, 1, 1>>), Scored(<<TRUE, FALSE, FALSE>>, <<3, 5, 1>>)}
================================================================================
