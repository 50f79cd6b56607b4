-------------------------- MODULE PreflightInvariant --------------------------
(***************************************************************************)
(* The inductive invariant behind the safety properties of the preflight   *)
(* service: which request owns an event's row, and what is known of its    *)
(* decision and its order at each suspension point.                        *)
(***************************************************************************)
EXTENDS PreflightProperties

\* A decision that may be recorded: ALLOW with the order it was given, REVIEW
\* after a failed order, or an outcome for which no POST was ever sent.
Recordable(r) ==
    LET d == decision[r] IN
    \/ /\ d.action = "allow" /\ d.risk = "allow" /\ d.order = r
       /\ r \in upstream
    \/ /\ d.action = "review" /\ d.risk = "allow" /\ d.order = NoOrder
       /\ d.reason = "order_creation_failed"
    \/ /\ d.action \in {"review", "deny"} /\ d.order = NoOrder
       /\ r \notin wire \cup upstream

\* An event's row exists exactly when one request owns it.
Ownership ==
    /\ \A r, s \in claims : SameEvent(r, s) => r = s
    /\ \A r \in claims : RowOf(r).status # "none"
    /\ \A e \in Events : ledger[e].status # "none" => \E r \in claims : EventOf[r] = e
    /\ \A r \in Requests \ claims : decision[r] = Undecided /\ r \notin wire \cup upstream

\* The owner's row and decision at each suspension point.
Stage(r) ==
    /\ pc[r] \in {"new", "claiming", "reading"} => r \notin claims
    /\ pc[r] = "claimed" =>
        /\ r \in claims /\ RowOf(r).status = "pending"
        /\ decision[r] = Undecided /\ r \notin wire \cup upstream
    /\ pc[r] = "ordering" =>
        /\ r \in claims /\ RowOf(r).status = "pending"
        /\ decision[r].risk = "allow" /\ decision[r].action = "allow"
        /\ decision[r].order = NoOrder
    /\ pc[r] = "finalising" =>
        r \in claims /\ RowOf(r).status = "pending" /\ Recordable(r)
    /\ pc[r] = "committed" => r \in claims /\ RowOf(r).status = "final"
    /\ pc[r] # "done" => reply[r].code = 0

Stages == \A r \in Requests : Stage(r)

\* What a COMMIT processed late would still write.
Dangling ==
    \A r \in dangling :
        /\ pc[r] = "done"
        /\ r \in claims => RowOf(r).status = "pending" /\ Recordable(r)

\* A final row holds its owner's decision.
FinalRows ==
    \A r \in claims : RowOf(r).status = "final" =>
        RowOf(r).outcome = decision[r] /\ Recordable(r)

\* Orders are made for requests the model allowed, one POST each.
OrderOrigin ==
    /\ wire \cap upstream = {}
    /\ \A r \in wire \cup upstream :
        /\ decision[r].risk = "allow"
        /\ decision[r].action = "allow" \/ decision[r].reason = "order_creation_failed"

\* An original answer was given by the owner of the row.
Answers ==
    \A r \in Requests : Answered(r) =>
        /\ Final(EventOf[r])
        /\ reply[r].outcome = RowOf(r).outcome
        /\ reply[r].model = RowOf(r).model
        /\ ~reply[r].duplicate => r \in claims

EngineBehindHost == lastKey[1] <= lastOccurred

BudgetSpent ==
    Cardinality(wire \cup upstream) <= BudgetLimit * restarts + attempted

Core ==
    /\ Ownership
    /\ Stages
    /\ Dangling
    /\ FinalRows
    /\ OrderOrigin
    /\ Answers
    /\ ReviewQueueIsExact
    /\ EngineBehindHost

\* The inductive invariant: it holds initially, every step preserves it, and it
\* implies the safety properties.
IInv == TypeOK /\ Core /\ BudgetSpent
=============================================================================
