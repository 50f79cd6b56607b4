------------------------------ MODULE Preflight ------------------------------
(***************************************************************************)
(* Live checkout preflight: the route of api/routes/checkout.py, the       *)
(* orchestration of services/preflight.py, the engine host of              *)
(* serving/engine_host.py and the ledger rows of db/models, with           *)
(* PostgreSQL and Razorpay around them.                                    *)
(*                                                                         *)
(* The service is one asyncio process.  A step of a request runs from one  *)
(* suspension point (a database round trip or the Razorpay POST) to the    *)
(* next, and steps of different requests interleave: pc "claimed" and      *)
(* "committed" mean that the server has committed and the handler awaits,  *)
(* or has just received, the acknowledgement.  A retry is another request  *)
(* for the same event.  A process crash loses what the process holds in    *)
(* memory; the ledger and the orders at Razorpay survive it.               *)
(***************************************************************************)
EXTENDS Naturals, FiniteSets

CONSTANTS
    Events,         \* event ids; numbers, because the engine's key orders them
    Requests,       \* HTTP requests, retries included
    EventOf,        \* the event id each request carries
    Models,         \* serving bundles a process may be started with
    Clock,          \* readings of the wall clock, in milliseconds
    BudgetLimit,    \* razorpay_max_orders_per_process
    MaxRestarts,    \* bound on process crashes
    NoOrder         \* razorpay_order_id is null

ASSUME ConstantsAssumption ==
    /\ Events \subseteq Nat
    /\ EventOf \in [Requests -> Events]
    /\ Models # {}
    /\ Clock \subseteq Nat \ {0}
    /\ BudgetLimit \in Nat
    /\ MaxRestarts \in Nat
    /\ NoOrder \notin Requests

ASSUME RequestsFinite == IsFiniteSet(Requests)

VARIABLES
    \* PostgreSQL
    ledger,         \* risk_decisions, by event id
    reviewItems,    \* events whose row has a review_items row
    dangling,       \* requests whose COMMIT is still on a socket nobody reads
    \* Razorpay
    wire,           \* requests whose POST /v1/orders may still be processed
    upstream,       \* requests whose order exists; it also names the order
    \* memory of the process
    bundle,         \* the ServingBundle loaded at startup
    attempted,      \* OrderBudget.attempted
    lastOccurred,   \* OnlineFeatureEngine._last_occurred_at, 0 for None
    lastKey,        \* FeatureEngine._last_key
    pc,             \* where each request's handler is suspended
    decision,       \* the decision each handler holds
    \* what callers and operators see
    reply,          \* the HTTP response of each request
    logged,         \* requests with a preflight_ledger_write_failed line
    \* history
    claims,         \* requests whose claim was committed
    restarts        \* crashes so far

storageVars == <<ledger, reviewItems, dangling>>
razorpayVars == <<wire, upstream>>
engineVars == <<lastOccurred, lastKey>>
processVars == <<bundle, attempted, lastOccurred, lastKey>>
vars == <<ledger, reviewItems, dangling, wire, upstream, bundle, attempted,
          lastOccurred, lastKey, pc, decision, reply, logged, claims, restarts>>

-----------------------------------------------------------------------------
(* Rows, decisions and responses.                                          *)

Orders == Requests \cup {NoOrder}
Risks == {"allow", "deny", "null"}
Actions == {"allow", "deny", "review", "null"}
Reasons == {"feature_computation_failed", "scoring_failed",
            "order_creation_failed", "order_budget_exhausted", "null"}

Decisions == [risk : Risks, action : Actions, reason : Reasons,
              order : Orders, at : Nat]

Undecided == [risk |-> "null", action |-> "null", reason |-> "null",
              order |-> NoOrder, at |-> 0]

Rows == [status : {"none", "pending", "final"}, model : Models,
         outcome : Decisions]

Replies == [code : {0, 200, 409, 503}, duplicate : BOOLEAN, model : Models,
            threshold : Models, outcome : Decisions]

SomeModel == CHOOSE m \in Models : TRUE

NoReply == [code |-> 0, duplicate |-> FALSE, model |-> SomeModel,
            threshold |-> SomeModel, outcome |-> Undecided]

Refusal(code) == [NoReply EXCEPT !.code = code]

\* at = 0 stands for occurred_at None: the row then carries created_at.
Decide(verdict, at) ==
    [risk |-> verdict, action |-> verdict, reason |-> "null",
     order |-> NoOrder, at |-> at]

FailSafe(why, risk, at) ==
    [risk |-> risk, action |-> "review", reason |-> why,
     order |-> NoOrder, at |-> at]

RowOf(r) == ledger[EventOf[r]]

Waiting == {"claiming", "claimed", "reading", "ordering", "finalising", "committed"}
InFlight(r) == pc[r] \in Waiting

-----------------------------------------------------------------------------
Init ==
    /\ bundle \in Models
    /\ ledger = [e \in Events |-> [status |-> "none", model |-> bundle,
                                   outcome |-> Undecided]]
    /\ reviewItems = {} /\ dangling = {}
    /\ wire = {} /\ upstream = {}
    /\ attempted = 0 /\ lastOccurred = 0 /\ lastKey = <<0, 0>>
    /\ pc = [r \in Requests |-> "new"]
    /\ decision = [r \in Requests |-> Undecided]
    /\ reply = [r \in Requests |-> NoReply]
    /\ logged = {} /\ claims = {} /\ restarts = 0

Goto(r, where) == pc' = [pc EXCEPT ![r] = where]

Answer(r, code, duplicate, row) ==
    /\ Goto(r, "done")
    /\ reply' = [reply EXCEPT ![r] =
            [code |-> code, duplicate |-> duplicate, model |-> row.model,
             threshold |-> bundle, outcome |-> row.outcome]]

Refuse(r, code) ==
    /\ Goto(r, "done")
    /\ reply' = [reply EXCEPT ![r] = Refusal(code)]

-----------------------------------------------------------------------------
(* The claim.                                                              *)

Arrive(r) ==
    /\ pc[r] = "new"
    /\ Goto(r, "claiming")
    /\ UNCHANGED <<storageVars, razorpayVars, processVars, decision, reply,
                   logged, claims, restarts>>

\* Mutant: ON CONFLICT DO UPDATE, which re-opens a row that exists.
InsertClaimAsUpsert(r) ==
    /\ ledger' = [ledger EXCEPT ![EventOf[r]] =
            [status |-> "pending", model |-> bundle, outcome |-> Undecided]]
    /\ claims' = claims \cup {r}
    /\ UNCHANGED reviewItems

\* The INSERT ... ON CONFLICT DO NOTHING of _claim, committed.
InsertClaim(r) ==
    /\ RowOf(r).status = "none"
    /\ ledger' = [ledger EXCEPT ![EventOf[r]] =
            [status |-> "pending", model |-> bundle, outcome |-> Undecided]]
    /\ claims' = claims \cup {r}
    /\ UNCHANGED reviewItems

Claim(r) ==
    /\ pc[r] = "claiming"
    /\ InsertClaim(r)
    /\ Goto(r, "claimed")
    /\ UNCHANGED <<dangling, razorpayVars, processVars, decision, reply,
                   logged, restarts>>

\* Mutant: a pending row left by another request is taken over and scored.
ClaimConflictTakesOver(r) ==
    /\ pc[r] = "claiming"
    /\ RowOf(r).status # "none"
    /\ Goto(r, IF RowOf(r).status = "pending" THEN "claimed" ELSE "reading")
    /\ UNCHANGED <<storageVars, razorpayVars, processVars, decision, reply,
                   logged, claims, restarts>>

ClaimConflict(r) ==
    /\ pc[r] = "claiming"
    /\ RowOf(r).status # "none"
    /\ Goto(r, "reading")
    /\ UNCHANGED <<storageVars, razorpayVars, processVars, decision, reply,
                   logged, claims, restarts>>

\* Mutant: the duplicate waits for the row to become final.
ReadExistingWaits(r) ==
    /\ pc[r] = "reading"
    /\ RowOf(r).status = "final"
    /\ Answer(r, 200, TRUE, RowOf(r))
    /\ UNCHANGED <<storageVars, razorpayVars, processVars, decision, logged,
                   claims, restarts>>

\* _existing, then the stored answer or PreflightPendingError.
ReadExisting(r) ==
    /\ pc[r] = "reading"
    /\ \/ /\ RowOf(r).status = "final"
          /\ Answer(r, 200, TRUE, RowOf(r))
       \/ /\ RowOf(r).status # "final"
          /\ Refuse(r, 409)
    /\ UNCHANGED <<storageVars, razorpayVars, processVars, decision, logged,
                   claims, restarts>>

-----------------------------------------------------------------------------
(* Scoring and the decision, up to the POST: no suspension point between.  *)

\* Mutant: two requests in the same millisecond share a timestamp.
NextTimestampNotStrict(now) == IF now < lastOccurred THEN lastOccurred + 1 ELSE now

NextTimestamp(now) == IF now <= lastOccurred THEN lastOccurred + 1 ELSE now

Accepts(at, e) ==
    \/ lastKey[1] < at
    \/ lastKey[1] = at /\ lastKey[2] < e

\* engine.process raised: the host's clock has moved, the engine's key has not.
FeatureFailure(r) ==
    /\ pc[r] = "claimed"
    /\ \E now \in Clock : lastOccurred' = NextTimestamp(now)
    /\ decision' = [decision EXCEPT ![r] =
            FailSafe("feature_computation_failed", "null", 0)]
    /\ Goto(r, "finalising")
    /\ UNCHANGED <<storageVars, razorpayVars, bundle, attempted, lastKey,
                   reply, logged, claims, restarts>>

\* engine.process accepted the event and advanced its state.
Advance(r, at) ==
    /\ pc[r] = "claimed"
    /\ Accepts(at, EventOf[r])
    /\ lastOccurred' = at
    /\ lastKey' = <<at, EventOf[r]>>

Decided(r, d) ==
    /\ decision' = [decision EXCEPT ![r] = d]
    /\ Goto(r, "finalising")
    /\ UNCHANGED <<storageVars, razorpayVars, bundle, attempted, reply,
                   logged, claims, restarts>>

ScoringFailure(r) == \E now \in Clock :
    LET at == NextTimestamp(now) IN
    /\ Advance(r, at)
    /\ Decided(r, FailSafe("scoring_failed", "null", at))

Deny(r) == \E now \in Clock :
    LET at == NextTimestamp(now) IN
    /\ Advance(r, at)
    /\ Decided(r, Decide("deny", at))

AllowBudgetExhausted(r) == \E now \in Clock :
    LET at == NextTimestamp(now) IN
    /\ attempted >= BudgetLimit
    /\ Advance(r, at)
    /\ Decided(r, FailSafe("order_budget_exhausted", "allow", at))

\* Mutant: the limit itself may still be taken.
TakeOneTooMany ==
    /\ attempted <= BudgetLimit
    /\ attempted' = attempted + 1

\* OrderBudget.take, granted.
Take ==
    /\ attempted < BudgetLimit
    /\ attempted' = attempted + 1

AllowReserved(r) == \E now \in Clock :
    LET at == NextTimestamp(now) IN
    /\ Advance(r, at)
    /\ Take
    /\ decision' = [decision EXCEPT ![r] = Decide("allow", at)]
    /\ wire' = wire \cup {r}
    /\ Goto(r, "ordering")
    /\ UNCHANGED <<storageVars, upstream, bundle, reply, logged, claims,
                   restarts>>

-----------------------------------------------------------------------------
(* Order creation.                                                         *)

\* Razorpay processes the POST, whether or not the client still waits for it.
RazorpayCreates(r) ==
    /\ r \in wire
    /\ wire' = wire \ {r}
    /\ upstream' = upstream \cup {r}
    /\ UNCHANGED <<storageVars, processVars, pc, decision, reply, logged,
                   claims, restarts>>

OrderReturned(r) ==
    /\ pc[r] = "ordering"
    /\ r \in upstream
    /\ decision' = [decision EXCEPT ![r].order = r]
    /\ Goto(r, "finalising")
    /\ UNCHANGED <<storageVars, razorpayVars, processVars, reply, logged,
                   claims, restarts>>

\* Mutant: an upstream error leaves the ALLOW standing.
OrderFailsOpen(r) ==
    /\ pc[r] = "ordering"
    /\ Goto(r, "finalising")
    /\ UNCHANGED <<storageVars, razorpayVars, processVars, decision, reply,
                   logged, claims, restarts>>

\* RazorpayOrdersError: rejected or unreachable (the order never exists), or
\* timed out or answered with an unreadable body (it exists or may yet).
OrderFails(r) ==
    /\ pc[r] = "ordering"
    /\ wire' \in {wire, wire \ {r}}
    /\ decision' = [decision EXCEPT ![r] =
            FailSafe("order_creation_failed", @.risk, @.at)]
    /\ Goto(r, "finalising")
    /\ UNCHANGED <<storageVars, upstream, processVars, reply, logged, claims,
                   restarts>>

-----------------------------------------------------------------------------
(* The single pending -> final transition and the answer.                  *)

\* Mutant: the review item is left to a transaction of its own.
WriteFinalWithoutReview(r) ==
    /\ ledger' = [ledger EXCEPT ![EventOf[r]] =
            [status |-> "final", model |-> RowOf(r).model, outcome |-> decision[r]]]
    /\ UNCHANGED <<reviewItems, claims>>

\* The transaction of _finalise_ledger, committed.
WriteFinal(r) ==
    /\ ledger' = [ledger EXCEPT ![EventOf[r]] =
            [status |-> "final", model |-> RowOf(r).model, outcome |-> decision[r]]]
    /\ reviewItems' = IF decision[r].action = "review"
                      THEN reviewItems \cup {EventOf[r]} ELSE reviewItems
    /\ UNCHANGED claims

Finalise(r) ==
    /\ pc[r] = "finalising"
    /\ WriteFinal(r)
    /\ Goto(r, "committed")
    /\ UNCHANGED <<dangling, razorpayVars, processVars, decision, reply,
                   logged, restarts>>

\* Mutant: the caller is answered before the row is final.
RespondBeforeFinalise(r) ==
    /\ pc[r] = "finalising"
    /\ Answer(r, 200, FALSE, [RowOf(r) EXCEPT !.outcome = decision[r]])
    /\ UNCHANGED <<storageVars, razorpayVars, processVars, decision, logged,
                   claims, restarts>>

Respond(r) ==
    /\ pc[r] = "committed"
    /\ Answer(r, 200, FALSE, [RowOf(r) EXCEPT !.outcome = decision[r]])
    /\ UNCHANGED <<storageVars, razorpayVars, processVars, decision, logged,
                   claims, restarts>>

-----------------------------------------------------------------------------
(* Storage trouble, the wall-clock bound, and crashes.                     *)

Writing == {"claiming", "finalising"}

\* A write that failed on the client may have been lost, or may still sit in
\* the server's socket and be committed later.
LeaveWrite(r) ==
    \/ UNCHANGED dangling
    \/ pc[r] \in Writing /\ dangling' = dangling \cup {r}

\* SQLAlchemyError.  From "claimed" and "committed" the write was committed and
\* only its acknowledgement was lost.
StorageError(r) ==
    /\ pc[r] \in Waiting \ {"ordering"}
    /\ Refuse(r, 503)
    /\ logged' = IF pc[r] \in {"finalising", "committed"}
                 THEN logged \cup {r} ELSE logged
    /\ LeaveWrite(r)
    /\ UNCHANGED <<ledger, reviewItems, razorpayVars, processVars, decision,
                   claims, restarts>>

\* A bare TimeoutError or OSError of the driver, or the cancellation that
\* asyncio.timeout delivers: the route answers 503, evaluate_preflight logs
\* nothing.
Unwind(r) ==
    /\ InFlight(r)
    /\ Refuse(r, 503)
    /\ LeaveWrite(r)
    /\ UNCHANGED <<ledger, reviewItems, razorpayVars, processVars, decision,
                   logged, claims, restarts>>

LateCommit(r) ==
    /\ r \in dangling
    /\ dangling' = dangling \ {r}
    /\ \/ r \in claims /\ WriteFinal(r)
       \/ r \notin claims /\ InsertClaim(r)
    /\ UNCHANGED <<razorpayVars, processVars, pc, decision, reply, logged,
                   restarts>>

\* The process dies and is started again, perhaps with other artifacts.
Crash ==
    /\ restarts < MaxRestarts
    /\ restarts' = restarts + 1
    /\ pc' = [r \in Requests |-> IF InFlight(r) THEN "lost" ELSE pc[r]]
    /\ bundle' \in Models
    /\ attempted' = 0 /\ lastOccurred' = 0 /\ lastKey' = <<0, 0>>
    /\ UNCHANGED <<storageVars, razorpayVars, decision, reply, logged, claims>>

-----------------------------------------------------------------------------
Score(r) ==
    \/ FeatureFailure(r) \/ ScoringFailure(r) \/ Deny(r)
    \/ AllowBudgetExhausted(r) \/ AllowReserved(r)

\* What a handler does once PostgreSQL has answered its statement.
OnDatabase(r) ==
    \/ Claim(r) \/ ClaimConflict(r) \/ ReadExisting(r) \/ Score(r)
    \/ Finalise(r) \/ Respond(r)

\* What it does once the POST has ended.
OnRazorpay(r) == OrderReturned(r) \/ OrderFails(r)

Handle(r) == OnDatabase(r) \/ OnRazorpay(r)

Trouble(r) == StorageError(r) \/ Unwind(r) \/ LateCommit(r)

Environment(r) == Arrive(r) \/ RazorpayCreates(r)

Next ==
    \/ \E r \in Requests : Handle(r) \/ Trouble(r) \/ Environment(r)
    \/ Crash

Spec == Init /\ [][Next]_vars

\* The POST ends, because httpx has a timeout, and the event loop runs what is
\* ready.  PostgreSQL owes no answer: a frozen server keeps its socket open, and
\* neither the command timeout of the driver nor asyncio.timeout ends the wait.
\* Callers, failures, Razorpay's side of a POST and crashes owe nothing either.
Fairness == \A r \in Requests : WF_vars(OnRazorpay(r))

\* Every statement a handler awaits is answered in the end: what Fairness leaves
\* open, and liveness has to assume.
DatabaseAnswers == \A r \in Requests : WF_vars(OnDatabase(r))

FairSpec == Spec /\ Fairness

=============================================================================
