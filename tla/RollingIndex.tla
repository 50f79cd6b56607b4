---------------------------- MODULE RollingIndex ----------------------------
(***************************************************************************)
(* One rolling index of features/state.py: the attempts of the last window *)
(* seconds in a deque, and per token of the indexed entity the counters    *)
(* that are kept up to date as observations enter and leave the deque.     *)
(* The operators return the index as a method of RollingIndex leaves it.   *)
(***************************************************************************)
EXTENDS Integers, Sequences, FiniteSets, Bags, SequencesExt

CONSTANT None   \* an absent token, or no earlier attempt

EmptyIndex == [observations |-> <<>>, aggregates |-> <<>>,
               peakObservations |-> 0, peakEntities |-> 0]

\* The counters of a token before its first observation; related holds the
\* tokens of the other entities with the number of observations they occur in.
Fresh(relations, at) ==
    [attempts |-> 0, failures |-> 0,
     related |-> [r \in relations |-> EmptyBag], last |-> at]

Counters(aggregates, token, relations, at) ==
    IF token \in DOMAIN aggregates THEN aggregates[token] ELSE Fresh(relations, at)

Put(aggregates, token, aggregate) ==
    [t \in DOMAIN aggregates \cup {token} |-> IF t = token THEN aggregate ELSE aggregates[t]]

\* A missing token is not counted.
Occurrence(token) == IF token = None THEN EmptyBag ELSE SetToBag({token})

One(condition) == IF condition THEN 1 ELSE 0

Counted(aggregate, o) ==
    [attempts |-> aggregate.attempts + 1,
     failures |-> aggregate.failures + One(o.failed),
     related |-> [r \in DOMAIN aggregate.related |->
                    aggregate.related[r] (+) Occurrence(o.relations[r])],
     last |-> aggregate.last]

\* Mutant: the related tokens of an evicted attempt stay counted.
UncountedKeepsRelated(aggregate, o) == [aggregate EXCEPT
    !.attempts = @ - 1,
    !.failures = @ - One(o.failed)]

Uncounted(aggregate, o) ==
    [attempts |-> aggregate.attempts - 1,
     failures |-> aggregate.failures - One(o.failed),
     related |-> [r \in DOMAIN aggregate.related |->
                    aggregate.related[r] (-) Occurrence(o.relations[r])],
     last |-> aggregate.last]

\* _remove_aggregate_reference
RemoveReference(aggregates, o, restorePreviousLast) ==
    LET left == Uncounted(aggregates[o.primary], o)
    IN  IF left.attempts = 0
        THEN Restrict(aggregates, DOMAIN aggregates \ {o.primary})
        ELSE Put(aggregates, o.primary,
                 IF restorePreviousLast THEN [left EXCEPT !.last = o.previous] ELSE left)

-----------------------------------------------------------------------------

\* How many observations at the head of the deque have left the window.
Expired(index, now, window) ==
    Max({n \in 0..Len(index.observations) :
            \A k \in 1..n : index.observations[k].at <= now - window})

Evicted(index, now, window) ==
    SubSeq(index.observations, 1, Expired(index, now, window))

\* The counters once the observations that are gone were taken out, one by one.
Without(aggregates, gone) ==
    LET after[n \in 0..Len(gone)] ==
            IF n = 0 THEN aggregates ELSE RemoveReference(after[n - 1], gone[n], FALSE)
    IN  after[Len(gone)]

Evict(index, now, window) ==
    LET gone == Evicted(index, now, window)
    IN  [index EXCEPT
            !.observations = SubSeq(@, Len(gone) + 1, Len(@)),
            !.aggregates = Without(@, gone)]

\* One observation back: the time of the last attempt is the later one.
Readmitted(aggregates, o, relations) ==
    LET counted == Counted(Counters(aggregates, o.primary, relations, o.at), o)
    IN  Put(aggregates, o.primary, [counted EXCEPT !.last = Max({@, o.at})])

\* The counters once they were put back, one by one.
With(aggregates, gone, relations) ==
    LET after[n \in 0..Len(gone)] ==
            IF n = 0 THEN aggregates ELSE Readmitted(after[n - 1], gone[n], relations)
    IN  after[Len(gone)]

RestoreEvicted(index, gone, relations) ==
    [index EXCEPT
        !.observations = gone \o @,
        !.aggregates = With(@, gone, relations)]

Snapshot(index, token, relations) ==
    IF token \in DOMAIN index.aggregates
    THEN LET aggregate == index.aggregates[token]
         IN  [attempts |-> aggregate.attempts, failures |-> aggregate.failures,
              distinct |-> [r \in relations |-> Cardinality(BagToSet(aggregate.related[r]))],
              last |-> aggregate.last]
    ELSE [attempts |-> 0, failures |-> 0,
          distinct |-> [r \in relations |-> 0], last |-> None]

\* related maps each relation of the index to the attempt's token or None.
Observe(index, at, token, failed, related) ==
    IF token = None THEN index ELSE
    LET before == Counters(index.aggregates, token, DOMAIN related, at)
        known == token \in DOMAIN index.aggregates
        o == [at |-> at, primary |-> token, failed |-> failed, relations |-> related,
              previous |-> IF known THEN before.last ELSE None]
    IN  [index EXCEPT
            !.observations = Append(@, o),
            !.aggregates = Put(@, token, [Counted(before, o) EXCEPT !.last = at])]

\* Mutant: the time of the last attempt is not put back.
RollbackToKeepsLast(index, count) ==
    IF Len(index.observations) = count THEN index ELSE
    [index EXCEPT
        !.observations = Front(@),
        !.aggregates = RemoveReference(@, Last(index.observations), FALSE)]

\* rollback_to_observation_count, after at most one observation.
RollbackTo(index, count) ==
    IF Len(index.observations) = count THEN index ELSE
    [index EXCEPT
        !.observations = Front(@),
        !.aggregates = RemoveReference(@, Last(index.observations), TRUE)]

CommitDiagnostics(index) == [index EXCEPT
    !.peakObservations = Max({@, Len(index.observations)}),
    !.peakEntities = Max({@, Cardinality(DOMAIN index.aggregates)})]

=============================================================================
