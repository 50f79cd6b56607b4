--------------------------- MODULE MCExplanations ---------------------------
\* Two decisions of one entity, one of them requested twice.
EXTENDS ExplanationsInvariant

CONSTANTS r1, r2, r3, d1, d2, card

TwoDecisions == {d1, d2}
OneEntity == [x \in TwoDecisions |-> card]

TripleRequests == {r1, r2, r3}
TwoDecisionsOf == [r \in TripleRequests |-> IF r = r3 THEN d2 ELSE d1]

PairRequests == {r1, r2}
PairDecisionOf == [r \in PairRequests |-> d1]
=============================================================================
