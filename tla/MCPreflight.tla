----------------------------- MODULE MCPreflight -----------------------------
\* Two events; the first is requested twice, as a race or as a retry.
EXTENDS PreflightInvariant

CONSTANTS a, b, c

MCRequests == {a, b, c}
MCEventOf == [r \in MCRequests |-> IF r = c THEN 2 ELSE 1]

\* One event requested twice, for the runs that need no third request.
PairRequests == {a, b}
PairEventOf == [r \in PairRequests |-> 1]
=============================================================================
