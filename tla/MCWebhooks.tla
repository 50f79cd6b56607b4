----------------------------- MODULE MCWebhooks -----------------------------
\* An event delivered twice beside a second event, each of any kind.
EXTENDS Webhooks

CONSTANTS d1, d2, d3, first, second

BothEvents == {first, second}
ThreeDeliveries == {d1, d2, d3}
FirstTwice == [d \in ThreeDeliveries |-> IF d = d3 THEN second ELSE first]

TwoDeliveries == {d1, d2}
FirstOnly == [d \in TwoDeliveries |-> first]

\* Every check alone, and two that answer differently from each other.
UpToTwoDefects == {{}, {"signature", "envelope"}} \cup {{c} : c \in Defects}
=============================================================================
