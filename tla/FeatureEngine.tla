---------------------------- MODULE FeatureEngine ----------------------------
(***************************************************************************)
(* The causal feature engine: FeatureState with its fourteen rolling       *)
(* indexes (features/state.py) and the compute-before-update transaction   *)
(* of FeatureEngine.process (features/engine.py).  An event is processed   *)
(* without suspension, under the engine host's lock, so one call is one    *)
(* step; a call may fail at any point between two statements of it.        *)
(***************************************************************************)
EXTENDS RollingIndex

CONSTANTS
    Short, Medium, Long,    \* the windows of 60, 300 and 3600 seconds
    Times,                  \* event times
    Ids,                    \* event ids, as their rank in string order
    Attempts,               \* the tokens and outcome of a checkout attempt
    Faults,                 \* points of process at which a call may fail
    MaxEvents               \* bound on accepted events

Entities == {"checkout", "merchant", "device", "network", "instrument", "session"}

\* The order in which observe updates the indexes.
Order ==
    << <<"merchant", Short>>, <<"device", Short>>, <<"network", Short>>,
       <<"merchant", Medium>>, <<"device", Medium>>, <<"network", Medium>>,
       <<"merchant", Long>>, <<"device", Long>>, <<"network", Long>>,
       <<"instrument", Medium>>, <<"instrument", Long>>,
       <<"session", Short>>, <<"session", Medium>>,
       <<"checkout", Long>> >>

Indexes == ToSet(Order)

RelationsOf(i) ==
    CASE i[1] = "merchant" -> {"instrument", "device", "network"}
      [] i[1] = "device" -> {"instrument", "session"}
      [] i[1] = "network" -> {"instrument", "device", "session"}
      [] i[1] = "instrument" -> {"device", "network", "merchant"}
      [] i[1] = "session" -> {"instrument"}
      [] i[1] = "checkout" -> {}

\* A point of process: so many indexes observed, then so many peaks committed.
Points == 0..(2 * Len(Order))

ASSUME EngineAssumption ==
    /\ Short \in Nat /\ Medium \in Nat /\ Long \in Nat
    /\ 0 < Short /\ Short < Medium /\ Medium < Long
    /\ Times \subseteq Nat /\ Ids \subseteq Nat
    /\ None \notin [at : Times, id : Ids]
    /\ \A a \in Attempts : /\ DOMAIN a = Entities \cup {"failed"}
                           /\ a.failed \in BOOLEAN
                           /\ \A x \in Entities \ {"device", "network"} : a[x] # None
    /\ Faults \subseteq Points
    /\ MaxEvents \in Nat

VARIABLES
    indexes,    \* FeatureState._indexes
    peaks,      \* its peaks over all indexes
    lastKey,    \* FeatureEngine._last_key
    record,     \* the features of the last accepted event
    history     \* the accepted events (history variable)

vars == <<indexes, peaks, lastKey, record, history>>

\* An event is an attempt with its time and id.
EventsAt == [at : Times, id : Ids, attempt : Attempts]

\* current_key > last_key, compared as tuples.
After(e, key) ==
    key # None => e.at > key.at \/ (e.at = key.at /\ e.id > key.id)

Rate(s) == IF s.attempts = 0 THEN 0 ELSE (s.failures * 10000) \div s.attempts

Init ==
    /\ indexes = [i \in Indexes |-> EmptyIndex]
    /\ peaks = [observations |-> 0, entities |-> 0]
    /\ lastKey = None /\ record = None
    /\ history = <<>>

-----------------------------------------------------------------------------
(* The parts of process.                                                   *)

EvictAll(state, now) == [i \in Indexes |-> Evict(state[i], now, i[2])]

\* _compute_record
Compute(state, e) ==
    LET seen == [i \in Indexes |-> Snapshot(state[i], e.attempt[i[1]], RelationsOf(i))]
        earlier == seen[<<"checkout", Long>>].last
    IN  [seen |-> seen,
         age |-> IF earlier = None THEN 0 ELSE e.at - earlier,
         rates |-> [x \in Entities \ {"checkout"} |-> Rate(seen[<<x, Medium>>])]]

Observed(state, e, upTo) == [i \in Indexes |->
    IF \E k \in 1..upTo : Order[k] = i
    THEN Observe(state[i], e.at, e.attempt[i[1]], e.attempt.failed,
                 [r \in RelationsOf(i) |-> e.attempt[r]])
    ELSE state[i]]

Committed(state, upTo) == [i \in Indexes |->
    IF \E k \in 1..upTo : Order[k] = i THEN CommitDiagnostics(state[i]) ELSE state[i]]

NewPeaks(state) ==
    [observations |-> Max({peaks.observations,
                           MapThenSumSet(LAMBDA i : Len(state[i].observations), Indexes)}),
     entities |-> Max({peaks.entities,
                       MapThenSumSet(LAMBDA i : Cardinality(DOMAIN state[i].aggregates), Indexes)})]

\* The except branches: observe undoes its updates, process its eviction.
RolledBack(state, evicted) == [i \in Indexes |->
    [RollbackTo(state[i], Len(evicted[i].observations)) EXCEPT
        !.peakObservations = evicted[i].peakObservations,
        !.peakEntities = evicted[i].peakEntities]]

Restored(state, now) == [i \in Indexes |->
    RestoreEvicted(state[i], Evicted(indexes[i], now, i[2]), RelationsOf(i))]

-----------------------------------------------------------------------------
(* FeatureEngine.process.                                                  *)

\* Mutant: the state is updated before the features are computed.
ProcessUpdatesFirst(e) ==
    /\ Len(history) < MaxEvents
    /\ After(e, lastKey)
    /\ LET evicted == EvictAll(indexes, e.at)
           updated == Committed(Observed(evicted, e, Len(Order)), Len(Order))
       IN  /\ indexes' = updated
           /\ peaks' = NewPeaks(updated)
           /\ record' = Compute(updated, e)
    /\ lastKey' = [at |-> e.at, id |-> e.id]
    /\ history' = Append(history, e)

Process(e) ==
    /\ Len(history) < MaxEvents
    /\ After(e, lastKey)
    /\ LET evicted == EvictAll(indexes, e.at)
           updated == Committed(Observed(evicted, e, Len(Order)), Len(Order))
       IN  /\ record' = Compute(evicted, e)
           /\ indexes' = updated
           /\ peaks' = NewPeaks(updated)
    /\ lastKey' = [at |-> e.at, id |-> e.id]
    /\ history' = Append(history, e)

\* The call fails once the first p updates were made: of the indexes, then of
\* their peaks.
ProcessFails(e, p) ==
    /\ After(e, lastKey)
    /\ LET observing == IF p < Len(Order) THEN p ELSE Len(Order)
           evicted == EvictAll(indexes, e.at)
           partial == Committed(Observed(evicted, e, observing), p - observing)
       IN  indexes' = Restored(RolledBack(partial, evicted), e.at)
    /\ UNCHANGED <<peaks, lastKey, record, history>>

Next == \E e \in EventsAt : Process(e) \/ \E p \in Faults : ProcessFails(e, p)

Spec == Init /\ [][Next]_vars

-----------------------------------------------------------------------------
(* What the engine promises.                                               *)

\* The accepted events, by their positions, of the window of index i that ends at
\* time now; an event exactly one window old is outside, and so is a missing token.
Within(events, i, now) ==
    {p \in DOMAIN events : events[p].at > now - i[2] /\ events[p].attempt[i[1]] # None}

\* The distinct tokens of entity x among the events at some positions.
Tokens(events, positions, x) == {events[p].attempt[x] : p \in positions} \ {None}

\* What index i should report of a token, computed from the events themselves.
Truth(events, i, token, now) ==
    LET mine == {p \in Within(events, i, now) : events[p].attempt[i[1]] = token}
    IN  [attempts |-> Cardinality(mine),
         failures |-> Cardinality({p \in mine : events[p].attempt.failed}),
         distinct |-> [r \in RelationsOf(i) |-> Cardinality(Tokens(events, mine, r))],
         last |-> IF mine = {} THEN None ELSE Max({events[p].at : p \in mine})]

\* FeatureVector's validator never refuses what the engine computes: counts
\* are nested by window and bounded by attempts, the age is within its window,
\* and a missing token has no history.
RecordsValidate == record # None =>
    /\ record.age \in 0..(Long - 1)
    /\ record.seen[<<"checkout", Long>>].attempts = 0 => record.age = 0
    /\ \A i \in Indexes :
        LET s == record.seen[i]
        IN  /\ s.failures <= s.attempts
            /\ \A r \in RelationsOf(i) : s.distinct[r] <= s.attempts
            /\ Last(history).attempt[i[1]] = None => s.attempts = 0
            /\ \A j \in Indexes : i[1] = j[1] /\ i[2] < j[2] =>
                /\ s.attempts <= record.seen[j].attempts
                /\ s.failures <= record.seen[j].failures
                /\ \A r \in RelationsOf(i) : s.distinct[r] <= record.seen[j].distinct[r]

\* The observations of index i are the accepted events of its window, each once
\* and in their order.
ListsTheWindow(deque, events, i, now) ==
    \E f \in [DOMAIN deque -> Within(events, i, now)] :
        /\ \A p \in Within(events, i, now) : \E k \in DOMAIN deque : f[k] = p
        /\ \A j, k \in DOMAIN deque : j < k => f[j] < f[k]
        /\ \A k \in DOMAIN deque :
            /\ deque[k].at = events[f[k]].at
            /\ deque[k].primary = events[f[k]].attempt[i[1]]

\* The deque of every index holds exactly the accepted events of its window, and
\* its counters agree with them, so no counter is ever taken below zero and none
\* is left behind, over any sequence of events, evictions, failures and restores.
CountersMatchEvents == lastKey # None => \A i \in Indexes :
    /\ ListsTheWindow(indexes[i].observations, history, i, lastKey.at)
    /\ DOMAIN indexes[i].aggregates = Tokens(history, Within(history, i, lastKey.at), i[1])
    /\ \A t \in DOMAIN indexes[i].aggregates :
        Snapshot(indexes[i], t, RelationsOf(i)) = Truth(history, i, t, lastKey.at)

\* The features of an event are those of the events before it, and of nothing
\* else: neither the event itself nor events that left the window count. They
\* always pass the validator of FeatureVector (features/schema.py).
FeaturesAreCausal ==
    /\ RecordsValidate
    /\ history # <<>> =>
        LET e == Last(history)
        IN  \A i \in Indexes :
                record.seen[i] = Truth(Front(history), i, e.attempt[i[1]], e.at)

\* A call that fails, wherever it does, leaves the engine as it found it: the
\* evicted observations are back, the partial updates and peaks are gone.
FailureLeavesNoTrace == [][history' = history => UNCHANGED indexes]_vars

=============================================================================
