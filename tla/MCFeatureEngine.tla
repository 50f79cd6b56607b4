--------------------------- MODULE MCFeatureEngine ---------------------------
\* Three accepted events and every failed call between them.  The attempts
\* share their merchant and session and differ in outcome, device, instrument
\* and in what is missing.
EXTENDS FeatureEngine

Ordinary == [checkout |-> "c", merchant |-> "m", device |-> "d", network |-> "n",
             instrument |-> "i", session |-> "s", failed |-> FALSE]

FourAttempts == {
    Ordinary,
    [Ordinary EXCEPT !.failed = TRUE],
    [Ordinary EXCEPT !.checkout = "c2", !.device = "d2"],
    [Ordinary EXCEPT !.device = None, !.network = None, !.instrument = "i2", !.failed = TRUE]}

\* Nothing done, some and all indexes observed, some and all peaks committed.
FivePoints == {0, 5, 14, 20, 28}
=============================================================================
