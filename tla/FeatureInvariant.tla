---------------------------- MODULE FeatureInvariant ----------------------------
(*****************************************************************************)
(* Why counters that are only ever increased and decreased agree with a      *)
(* recount: they are a function of the deque, its summary, whatever entered, *)
(* left or came back; and the deque lists the events of the window.          *)
(*****************************************************************************)
EXTENDS FeatureEngine

-----------------------------------------------------------------------------
(* The summary of the observations of a deque s at the positions K.          *)

\* The positions that concern a token.
Concerning(s, K, token) == {k \in K : s[k].primary = token}

\* Those in which token v occurs in relation r, and those that failed.
Occurring(s, K, r, v) == {k \in K : s[k].relations[r] = v}

Failing(s, K) == {k \in K : s[k].failed}

\* How often each token of relation r occurs.
Tally(s, K, r) ==
    [v \in {s[k].relations[r] : k \in K} \ {None} |-> Cardinality(Occurring(s, K, r, v))]

Latest(s, K) == Max({s[k].at : k \in K})

\* The counters that the observations at K make, with some time of the last one.
Counting(s, K, relations, at) ==
    [attempts |-> Cardinality(K),
     failures |-> Cardinality(Failing(s, K)),
     related |-> [r \in relations |-> Tally(s, K, r)],
     last |-> at]

Aggregate(s, K, relations) == Counting(s, K, relations, Latest(s, K))

Summary(s, K, relations) ==
    [t \in {s[k].primary : k \in K} |-> Aggregate(s, Concerning(s, K, t), relations)]

-----------------------------------------------------------------------------
(* An index, and the engine.                                                 *)

AllTokens == UNION {{a[x] : x \in Entities} : a \in Attempts}

Observations ==
    [at : Times, primary : AllTokens, failed : BOOLEAN,
     relations : UNION {[R -> AllTokens] : R \in SUBSET Entities},
     previous : Times \cup {None}]

\* Observations in their order.
Deque(s) ==
    /\ s \in Seq(Observations)
    /\ \A j, k \in DOMAIN s : j <= k => s[j].at <= s[k].at

\* The deque lists the events of the window with all that is counted of them.
Lists(deque, events, i, now) ==
    \E f \in [DOMAIN deque -> Within(events, i, now)] :
        /\ \A p \in Within(events, i, now) : \E k \in DOMAIN deque : f[k] = p
        /\ \A j, k \in DOMAIN deque : j < k => f[j] < f[k]
        /\ \A k \in DOMAIN deque :
            /\ deque[k].at = events[f[k]].at
            /\ deque[k].primary = events[f[k]].attempt[i[1]]
            /\ deque[k].failed = events[f[k]].attempt.failed
            /\ \A r \in RelationsOf(i) : deque[k].relations[r] = events[f[k]].attempt[r]

Index(s, aggregates, ofObservations, ofEntities) ==
    [observations |-> s, aggregates |-> aggregates,
     peakObservations |-> ofObservations, peakEntities |-> ofEntities]

\* An index whose counters are the summary of its deque.
IndexOf(s, i, ofObservations, ofEntities) ==
    Index(s, Summary(s, DOMAIN s, RelationsOf(i)), ofObservations, ofEntities)

Sound(index, i) ==
    /\ Deque(index.observations)
    /\ index = IndexOf(index.observations, i, index.peakObservations, index.peakEntities)

Now == IF lastKey = None THEN 0 ELSE lastKey.at

\* Events were accepted in order, and the last of them made the key.
InOrder ==
    /\ history \in Seq(EventsAt)
    /\ \A j, k \in DOMAIN history : j <= k => history[j].at <= history[k].at
    /\ history = <<>> => lastKey = None
    /\ history # <<>> => lastKey = [at |-> Last(history).at, id |-> Last(history).id]

\* What _remove_aggregate_reference demands of the counters before it takes an
\* observation out of them (features/state.py:140-155), and of what is left.
Removable(aggregates, o) ==
    /\ o.primary \in DOMAIN aggregates
    /\ LET before == aggregates[o.primary]
           left == Uncounted(before, o)
       IN  /\ before.attempts > 0
           /\ o.failed => before.failures > 0
           /\ \A r \in DOMAIN before.related : o.relations[r] # None =>
                /\ o.relations[r] \in DOMAIN before.related[r]
                /\ before.related[r][o.relations[r]] > 0
           /\ left.attempts = 0 =>
                left.failures = 0 /\ \A r \in DOMAIN before.related : DOMAIN left.related[r] = {}

\* However many observations an eviction takes out of an index, one by one, it meets
\* each of them counted: none of the code's checks ever raises.
RemovalsSucceed == \A i \in Indexes : \A n \in DOMAIN indexes[i].observations :
    Removable(Without(indexes[i].aggregates, SubSeq(indexes[i].observations, 1, n - 1)),
              indexes[i].observations[n])

EngineInv ==
    /\ InOrder
    /\ indexes = [i \in Indexes |-> indexes[i]]
    /\ \A i \in Indexes : Sound(indexes[i], i) /\ Lists(indexes[i].observations, history, i, Now)
    /\ history = <<>> => record = None
    /\ FeaturesAreCausal

=============================================================================
