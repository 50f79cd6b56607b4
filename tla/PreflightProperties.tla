------------------------- MODULE PreflightProperties -------------------------
(***************************************************************************)
(* What the preflight service promises: its type invariant, its safety     *)
(* and liveness properties, and the claims of the documentation that the   *)
(* code does not keep.                                                     *)
(***************************************************************************)
EXTENDS Preflight

Final(e) == ledger[e].status = "final"
Answered(r) == reply[r].code = 200
SameEvent(r, s) == EventOf[r] = EventOf[s]

\* Every variable stays in its type; pc names a suspension point of the route.
TypeOK ==
    /\ ledger \in [Events -> Rows]
    /\ reviewItems \subseteq Events
    /\ dangling \subseteq Requests
    /\ wire \subseteq Requests
    /\ upstream \subseteq Requests
    /\ bundle \in Models
    /\ attempted \in 0..BudgetLimit
    /\ lastOccurred \in Nat
    /\ lastKey \in Nat \X Nat
    /\ pc \in [Requests -> Waiting \cup {"new", "done", "lost"}]
    /\ decision \in [Requests -> Decisions]
    /\ reply \in [Requests -> Replies]
    /\ logged \subseteq Requests
    /\ claims \subseteq Requests
    /\ restarts \in 0..MaxRestarts

-----------------------------------------------------------------------------
(* Safety.                                                                 *)

\* However an event is retried, raced, timed out or cut by a crash, Razorpay
\* never holds two orders for it, counting the POSTs it may still process
\* (evaluate_preflight claims the event before anything else).
OneOrderPerEvent ==
    \A r, s \in upstream \cup wire : SameEvent(r, s) => r = s

\* The rolling feature state is advanced at most once per event, restarts
\* included: no retry is scored again (the claim precedes engine.process).
ScoredOncePerEvent ==
    \A r, s \in Requests :
        SameEvent(r, s) /\ decision[r].at # 0 /\ decision[s].at # 0 => r = s

\* OrderBudget caps the POSTs of each process, failed attempts included, so
\* orders in existence or on their way are bounded by the number of processes.
OrdersWithinBudget ==
    Cardinality(wire \cup upstream) <= BudgetLimit * (restarts + 1)

\* An order at Razorpay belongs to an event the model allowed, and its row is
\* unfinished, names that order, or records order_creation_failed: none ever
\* stands behind DENY, a scoring failure or an exhausted budget (_act).
OrdersOnlyForAllow ==
    \A r \in wire \cup upstream :
        LET row == RowOf(r) IN
        \/ row.status = "pending"
        \/ /\ row.status = "final"
           /\ row.outcome.risk = "allow"
           /\ \/ row.outcome.action = "allow" /\ row.outcome.order = r
              \/ row.outcome.reason = "order_creation_failed"

\* A final ALLOW row names an order that exists and was made for its event; a
\* row of another action names none.
AllowIsBackedByOrder ==
    \A e \in Events : Final(e) =>
        LET o == ledger[e].outcome IN
        IF o.action = "allow"
        THEN o.order \in upstream /\ EventOf[o.order] = e
        ELSE o.order = NoOrder

\* Every 200 answer for an event repeats the outcome of its final row, so the
\* original answer, every duplicate and the ledger agree, and at most one
\* answer claims to be the original: nothing unrecorded is presented as final.
AnswersMatchLedger ==
    /\ \A r \in Requests : Answered(r) =>
            /\ Final(EventOf[r])
            /\ reply[r].outcome = RowOf(r).outcome
            /\ reply[r].model = RowOf(r).model
    /\ \A r, s \in Requests :
            /\ Answered(r) /\ Answered(s) /\ SameEvent(r, s)
            /\ ~reply[r].duplicate /\ ~reply[s].duplicate
            => r = s

\* The review queue holds exactly the events finalised with REVIEW: the item
\* is written in the transaction that finalises the row (_finalise_ledger).
ReviewQueueIsExact ==
    reviewItems = {e \in Events : Final(e) /\ ledger[e].outcome.action = "review"}

\* Whatever the wall clock says, stepping back or standing still, the timestamp
\* the host would assign next is one the engine accepts (_next_timestamp).
TimestampsNeverRejected ==
    \A now \in Clock, e \in Events : Accepts(NextTimestamp(now), e)

\* Rows go from absent to pending to final, once, and a final row is never
\* re-decided or deleted, whichever request or late COMMIT writes next.
RowsAdvanceOnce ==
    [][\A e \in Events :
        \/ ledger'[e] = ledger[e]
        \/ ledger[e].status = "none" /\ ledger'[e].status = "pending"
        \/ /\ ledger[e].status = "pending" /\ ledger'[e].status = "final"
           /\ ledger'[e].model = ledger[e].model]_vars

\* The service implements DecisionLedger: each step of a handler, of Razorpay or
\* of a late COMMIT is a step of the abstract ledger or leaves it unchanged.
Ledger == INSTANCE DecisionLedger WITH
    OrderIds <- Requests,
    Outcomes <- Decisions,
    Unset <- Undecided,
    row <- [e \in Events |-> [status |-> ledger[e].status,
                             outcome |-> ledger[e].outcome]],
    orders <- {<<EventOf[r], r>> : r \in upstream},
    answers <- {<<EventOf[r], reply[r].outcome>> : r \in {s \in Requests : Answered(s)}}

ImplementsDecisionLedger == Ledger!Spec

-----------------------------------------------------------------------------
(* Liveness, under Fairness.                                               *)

\* No request waits for Razorpay for ever, and if the database answers what it is
\* asked, every request is answered or dies with its process, also one that
\* finds a row which never becomes final.  Without that hypothesis it need not
\* end: no timeout fires on a frozen database (measured: checkout.py:56-64).  A
\* request arrives once, so it has ended when it is in flight no more.
RequestsEndUnlessFrozen ==
    /\ \A r \in Requests : []<>(pc[r] # "ordering")
    /\ DatabaseAnswers => \A r \in Requests : []<>~InFlight(r)

-----------------------------------------------------------------------------
(* Claims of the documentation that the code does not keep.                *)

\* docs/ARCHITECTURE.md: when the final ledger write fails after an order was
\* created, the service answers 503 and logs preflight_ledger_write_failed
\* with the order's id.
OrphanOrdersAreLogged ==
    \A r \in Requests :
        /\ decision[r].order = r
        /\ reply[r].code = 503
        /\ RowOf(r).status = "pending"
        => r \in logged

\* docs/ARCHITECTURE.md: DENY, REVIEW and every fail-safe create no order.
ReviewCreatesNoOrder ==
    \A r \in upstream :
        Final(EventOf[r]) => RowOf(r).outcome.action = "allow"

=============================================================================
