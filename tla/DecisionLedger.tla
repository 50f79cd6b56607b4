---------------------------- MODULE DecisionLedger ----------------------------
(***************************************************************************)
(* What the preflight service promises for each checkout event, with no    *)
(* processes, requests or failures in it: the event is claimed, at most    *)
(* one order is created for it, it is decided once, and from then on the   *)
(* recorded outcome is the only answer anyone is given.                    *)
(***************************************************************************)

CONSTANTS
    Events,
    OrderIds,
    Outcomes,       \* records with at least risk, action, reason and order
    Unset           \* the outcome of a row that has none yet

VARIABLES
    row,            \* event -> [status, outcome]
    orders,         \* pairs <<event, order id>> that exist at Razorpay
    answers         \* pairs <<event, outcome>> some caller was told

vars == <<row, orders, answers>>

Init ==
    /\ row = [e \in Events |-> [status |-> "none", outcome |-> Unset]]
    /\ orders = {}
    /\ answers = {}

HasOrder(e) == \E p \in orders : p[1] = e

Claim(e) ==
    /\ row[e].status = "none"
    /\ row' = [row EXCEPT ![e] = [status |-> "pending", outcome |-> Unset]]
    /\ UNCHANGED <<orders, answers>>

\* An order is created while the event is being decided; one that the service
\* gave up on (order_creation_failed) may still appear after the decision.
CreateOrder(e, id) ==
    /\ ~HasOrder(e)
    /\ \/ row[e].status = "pending"
       \/ row[e].status = "final" /\ row[e].outcome.reason = "order_creation_failed"
    /\ orders' = orders \cup {<<e, id>>}
    /\ UNCHANGED <<row, answers>>

\* ALLOW needs its order; every other outcome but order_creation_failed needs
\* that there be none.
Supported(e, o) ==
    \/ o.action = "allow" /\ <<e, o.order>> \in orders
    \/ o.action = "review" /\ o.reason = "order_creation_failed"
    \/ o.action \in {"review", "deny"} /\ ~HasOrder(e)

Finalise(e) ==
    LET o == row'[e].outcome IN
    /\ row[e].status = "pending"
    /\ o \in Outcomes
    /\ Supported(e, o)
    /\ row' = [row EXCEPT ![e] = [status |-> "final", outcome |-> o]]
    /\ UNCHANGED <<orders, answers>>

Answer(e) ==
    /\ row[e].status = "final"
    /\ answers' = answers \cup {<<e, row[e].outcome>>}
    /\ UNCHANGED <<row, orders>>

Next ==
    \E e \in Events :
        \/ Claim(e)
        \/ \E id \in OrderIds : CreateOrder(e, id)
        \/ Finalise(e)
        \/ Answer(e)

Spec == Init /\ [][Next]_vars

=============================================================================
