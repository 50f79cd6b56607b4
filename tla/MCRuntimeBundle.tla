--------------------------- MODULE MCRuntimeBundle ---------------------------
\* Every tree: each member absent, installed or in conflict. Every kind of archive
\* that passes all checks but one, and some that are no archives at all.
EXTENDS BundleDelivery

CONSTANTS first, second

AllDisks == [BundleMembers -> Contents]

Forged == Content(2, Members, {"model"}, TRUE, TRUE)
Misdeclared == Content(2, Members, {"model"}, FALSE, TRUE)
Renamed == Content(2, Members \cup {"unknown"}, {}, TRUE, TRUE)
Incomplete == Content(2, Members \ {"model"}, {}, TRUE, TRUE)
Oversized == Content(3, Members, {}, TRUE, TRUE)

MCServed == {Pinned, Forged, Truncated(0), Oversized}
MCReplacements == {Pinned, Forged, Misdeclared, Renamed, Incomplete, Truncated(1)}
=============================================================================
