---------------------------- MODULE Explanations ----------------------------
(***************************************************************************)
(* Generated explanations of denied decisions: the routes of               *)
(* api/routes/explanations.py, the orchestration of                        *)
(* services/explanations.py, the Gemini adapter of explanations/client.py  *)
(* and the attempt rows of db/models/risk_decision_explanation.py, with    *)
(* PostgreSQL, Gemini and the decision ledger around them.                 *)
(*                                                                         *)
(* A handler runs from one suspension point (a database round trip or the  *)
(* POST to Gemini) to the next.  Here "claimed" means that the server has  *)
(* committed the claim and the handler awaits the acknowledgement.         *)
(***************************************************************************)
EXTENDS Naturals, FiniteSets

CONSTANTS
    Decisions,      \* rows of risk_decisions
    EntityOf,       \* an entity token on each of them
    Requests,       \* HTTP requests on the two routes
    DecisionOf,     \* the decision id each request names
    MaxAttempts,    \* MAX_ATTEMPTS_PER_DECISION
    BudgetLimit,    \* gemini_max_calls_per_process
    MaxRestarts     \* bound on process crashes

ASSUME ConstantsAssumption ==
    /\ DecisionOf \in [Requests -> Decisions]
    /\ MaxAttempts \in Nat
    /\ BudgetLimit \in Nat
    /\ MaxRestarts \in Nat

ASSUME RequestsFinite == IsFiniteSet(Requests)

VARIABLES
    \* PostgreSQL
    ledger,         \* the verdict of each decision's row
    attempts,       \* risk_decision_explanations.status, by decision and number
    dangling,       \* requests whose COMMIT is still on a socket nobody reads
    \* memory of the process
    configured,     \* app.state.explanation_client is not None
    attempted,      \* ExplanationBudget.attempted
    pc,             \* where each request's handler is suspended
    number,         \* the attempt number each handler is about to claim
    facts,          \* other denied decisions counted in the facts it sends
    outcome,        \* the status it writes to its attempt
    \* what callers see
    reply,
    \* history
    prior,          \* decisions that were settled before each decision was
    claimed,        \* requests whose claim was committed
    called,         \* requests that posted to Gemini
    inherited,      \* called, when this process started
    restarts

memoryVars == <<configured, attempted>>
handlerVars == <<number, facts, outcome>>
ledgerVars == <<ledger, prior>>
historyVars == <<claimed, called, inherited, restarts>>
vars == <<ledger, attempts, dangling, configured, attempted, pc, number, facts,
          outcome, reply, prior, claimed, called, inherited, restarts>>

-----------------------------------------------------------------------------
Verdicts == {"none", "pending", "deny", "other"}
Unsuccessful == {"failed", "rejected"}
Statuses == {"none", "pending", "ready"} \cup Unsuccessful
Numbers == 1..MaxAttempts
Keys == Decisions \X Numbers

Codes == {0, 200, 201, 202, 404, 409, 422, 429, 500, 503}
Replies == [code : Codes, status : Statuses]
Refusal(code) == [code |-> code, status |-> "none"]

\* The attempt a handler claims, and the attempts of a decision that exist.
Key(r) == <<DecisionOf[r], number[r]>>
Existing(d) == {n \in Numbers : attempts[<<d, n>>] # "none"}
StatusesOf(d) == {attempts[<<d, n>>] : n \in Existing(d)}

Waiting == {"decision", "attempts", "context", "claiming", "claimed", "calling",
            "finalising", "viewing", "looking"}
Writing == {"claiming", "finalising"}
InFlight(r) == pc[r] \in Waiting

Init ==
    /\ ledger = [d \in Decisions |-> "none"]
    /\ attempts = [k \in Keys |-> "none"]
    /\ dangling = {}
    /\ configured \in BOOLEAN
    /\ attempted = 0
    /\ pc = [r \in Requests |-> "new"]
    /\ number = [r \in Requests |-> 0]
    /\ facts = [r \in Requests |-> {}]
    /\ outcome = [r \in Requests |-> "none"]
    /\ reply = [r \in Requests |-> Refusal(0)]
    /\ prior = [d \in Decisions |-> {}]
    /\ claimed = {} /\ called = {} /\ inherited = {} /\ restarts = 0

Goto(r, where) == pc' = [pc EXCEPT ![r] = where]

Refuse(r, code) ==
    /\ Goto(r, "done")
    /\ reply' = [reply EXCEPT ![r] = Refusal(code)]

\* The view of latest: a ready attempt if there is one, else the last one.
ViewStatus(d) ==
    IF "ready" \in StatusesOf(d) THEN "ready"
    ELSE attempts[<<d, CHOOSE n \in Existing(d) : \A m \in Existing(d) : m <= n>>]

\* The route answers 202 for a stored failure, 201 otherwise.
AnswerView(r) ==
    LET status == ViewStatus(DecisionOf[r]) IN
    /\ Goto(r, "done")
    /\ reply' = [reply EXCEPT ![r] =
            [code |-> IF status \in Unsuccessful THEN 202 ELSE 201,
             status |-> status]]

-----------------------------------------------------------------------------
(* The ledger: preflight records a decision and settles it once.           *)

Record(d) ==
    /\ ledger[d] = "none"
    /\ ledger' = [ledger EXCEPT ![d] = "pending"]
    /\ UNCHANGED <<prior, attempts, dangling, memoryVars, pc, handlerVars,
                   reply, historyVars>>

Settle(d) ==
    /\ ledger[d] = "pending"
    /\ \E verdict \in {"deny", "other"} :
            ledger' = [ledger EXCEPT ![d] = verdict]
    /\ prior' = [prior EXCEPT ![d] =
            {e \in Decisions : ledger[e] \in {"deny", "other"}}]
    /\ UNCHANGED <<attempts, dangling, memoryVars, pc, handlerVars, reply,
                   historyVars>>

-----------------------------------------------------------------------------
(* Reads and refusals.                                                     *)

\* A POST starts with the decision, a GET with the attempts.
Arrive(r) ==
    /\ pc[r] = "new"
    /\ \E where \in {"decision", "looking"} : Goto(r, where)
    /\ UNCHANGED <<ledgerVars, attempts, dangling, memoryVars, handlerVars,
                   reply, historyVars>>

Look(r) ==
    /\ pc[r] = "looking"
    /\ \/ /\ Existing(DecisionOf[r]) = {}
          /\ Refuse(r, 404)
       \/ /\ Existing(DecisionOf[r]) # {}
          /\ Goto(r, "done")
          /\ reply' = [reply EXCEPT ![r] =
                [code |-> 200, status |-> ViewStatus(DecisionOf[r])]]
    /\ UNCHANGED <<ledgerVars, attempts, dangling, memoryVars, handlerVars,
                   historyVars>>

ReadDecision(r) ==
    LET verdict == ledger[DecisionOf[r]] IN
    /\ pc[r] = "decision"
    /\ \/ verdict = "none" /\ Refuse(r, 404)
       \/ verdict \in {"pending", "other"} /\ Refuse(r, 422)
       \/ verdict = "deny" /\ Goto(r, "attempts") /\ UNCHANGED reply
    /\ UNCHANGED <<ledgerVars, attempts, dangling, memoryVars, handlerVars,
                   historyVars>>

\* Mutant: a pending attempt no longer refuses the next request.
ReadAttemptsIgnoresPending(r) ==
    LET seen == StatusesOf(DecisionOf[r])
        used == Cardinality(Existing(DecisionOf[r])) IN
    /\ pc[r] = "attempts"
    /\ \/ "ready" \in seen /\ AnswerView(r) /\ UNCHANGED number
       \/ /\ "ready" \notin seen /\ used >= MaxAttempts
          /\ Refuse(r, 409) /\ UNCHANGED number
       \/ /\ "ready" \notin seen /\ used < MaxAttempts
          /\ number' = [number EXCEPT ![r] = used + 1]
          /\ Goto(r, "context") /\ UNCHANGED reply
    /\ UNCHANGED <<ledgerVars, attempts, dangling, memoryVars, facts, outcome,
                   historyVars>>

\* Mutant: a ready attempt no longer ends the matter.
ReadAttemptsIgnoresReady(r) ==
    LET seen == StatusesOf(DecisionOf[r])
        used == Cardinality(Existing(DecisionOf[r])) IN
    /\ pc[r] = "attempts"
    /\ \/ ("pending" \in seen \/ used >= MaxAttempts)
          /\ Refuse(r, 409) /\ UNCHANGED number
       \/ /\ "pending" \notin seen /\ used < MaxAttempts
          /\ number' = [number EXCEPT ![r] = used + 1]
          /\ Goto(r, "context") /\ UNCHANGED reply
    /\ UNCHANGED <<ledgerVars, attempts, dangling, memoryVars, facts, outcome,
                   historyVars>>

\* Mutant: a request waits for the pending attempt of another one.
ReadAttemptsWaits(r) ==
    LET seen == StatusesOf(DecisionOf[r])
        used == Cardinality(Existing(DecisionOf[r])) IN
    /\ pc[r] = "attempts"
    /\ "pending" \notin seen
    /\ \/ "ready" \in seen /\ AnswerView(r) /\ UNCHANGED number
       \/ /\ seen \subseteq Unsuccessful /\ (used >= MaxAttempts \/ ~configured)
          /\ Refuse(r, 409) /\ UNCHANGED number
       \/ /\ seen \subseteq Unsuccessful /\ used < MaxAttempts /\ configured
          /\ number' = [number EXCEPT ![r] = used + 1]
          /\ Goto(r, "context") /\ UNCHANGED reply
    /\ UNCHANGED <<ledgerVars, attempts, dangling, memoryVars, facts, outcome,
                   historyVars>>

\* _attempts and the four early exits that depend on it.
ReadAttempts(r) ==
    LET seen == StatusesOf(DecisionOf[r])
        used == Cardinality(Existing(DecisionOf[r])) IN
    /\ pc[r] = "attempts"
    /\ \/ "pending" \in seen /\ Refuse(r, 409) /\ UNCHANGED number
       \/ /\ "pending" \notin seen /\ "ready" \in seen
          /\ AnswerView(r) /\ UNCHANGED number
       \/ /\ seen \subseteq Unsuccessful /\ used >= MaxAttempts
          /\ Refuse(r, 409) /\ UNCHANGED number
       \/ /\ seen \subseteq Unsuccessful /\ used < MaxAttempts /\ ~configured
          /\ Refuse(r, 503) /\ UNCHANGED number
       \/ /\ seen \subseteq Unsuccessful /\ used < MaxAttempts /\ configured
          /\ number' = [number EXCEPT ![r] = used + 1]
          /\ Goto(r, "context") /\ UNCHANGED reply
    /\ UNCHANGED <<ledgerVars, attempts, dangling, memoryVars, facts, outcome,
                   historyVars>>

\* entity_context_for with EXCLUDE_SELF: every denied row of the entity except
\* the decision's own, whenever it was settled.
ReadContext(r) ==
    LET d == DecisionOf[r] IN
    /\ pc[r] = "context"
    /\ facts' = [facts EXCEPT ![r] =
            {e \in Decisions \ {d} : EntityOf[e] = EntityOf[d] /\ ledger[e] = "deny"}]
    /\ Goto(r, "claiming")
    /\ UNCHANGED <<ledgerVars, attempts, dangling, memoryVars, number, outcome,
                   reply, historyVars>>

-----------------------------------------------------------------------------
(* The claim, the budget and the call.                                     *)

\* Mutant: the number is not unique, a second claim re-opens the attempt.
InsertClaimNotUnique(r) ==
    /\ attempts' = [attempts EXCEPT ![Key(r)] = "pending"]
    /\ claimed' = claimed \cup {r}

\* INSERT under the unique (risk_decision_id, attempt_number), committed.
InsertClaim(r) ==
    /\ attempts[Key(r)] = "none"
    /\ attempts' = [attempts EXCEPT ![Key(r)] = "pending"]
    /\ claimed' = claimed \cup {r}

Claim(r) ==
    /\ pc[r] = "claiming"
    /\ InsertClaim(r)
    /\ Goto(r, "claimed")
    /\ UNCHANGED <<ledgerVars, dangling, memoryVars, handlerVars, reply, called,
                   inherited, restarts>>

\* Mutant: the budget unit was taken before the claim.
ClaimConflictSpends(r) ==
    /\ pc[r] = "claiming"
    /\ attempts[Key(r)] # "none"
    /\ attempted' = IF attempted < BudgetLimit THEN attempted + 1 ELSE attempted
    /\ Refuse(r, 409)
    /\ UNCHANGED <<ledgerVars, attempts, dangling, configured, handlerVars,
                   historyVars>>

ClaimConflict(r) ==
    /\ pc[r] = "claiming"
    /\ attempts[Key(r)] # "none"
    /\ Refuse(r, 409)
    /\ UNCHANGED <<ledgerVars, attempts, dangling, memoryVars, handlerVars,
                   historyVars>>

\* ExplanationBudget.take, granted.
Take ==
    /\ attempted < BudgetLimit
    /\ attempted' = attempted + 1

StartCall(r) ==
    /\ pc[r] = "claimed"
    /\ Take
    /\ called' = called \cup {r}
    /\ Goto(r, "calling")
    /\ UNCHANGED <<ledgerVars, attempts, dangling, configured, handlerVars,
                   reply, claimed, inherited, restarts>>

\* Mutant: the refusal leaves the claim open.
BudgetExhaustedKeepsClaim(r) ==
    /\ pc[r] = "claimed"
    /\ attempted >= BudgetLimit
    /\ Refuse(r, 429)
    /\ UNCHANGED <<ledgerVars, attempts, dangling, memoryVars, handlerVars,
                   historyVars>>

BudgetExhausted(r) ==
    /\ pc[r] = "claimed"
    /\ attempted >= BudgetLimit
    /\ outcome' = [outcome EXCEPT ![r] = "failed"]
    /\ Goto(r, "finalising")
    /\ UNCHANGED <<ledgerVars, attempts, dangling, memoryVars, number, facts,
                   reply, historyVars>>

\* The one POST returned: verified, refused by verify, or a GeminiError.
CallReturns(r) ==
    /\ pc[r] = "calling"
    /\ \E status \in {"ready"} \cup Unsuccessful :
            outcome' = [outcome EXCEPT ![r] = status]
    /\ Goto(r, "finalising")
    /\ UNCHANGED <<ledgerVars, attempts, dangling, memoryVars, number, facts,
                   reply, historyVars>>

-----------------------------------------------------------------------------
(* The single pending -> terminal transition and the answer.               *)

\* The transaction of _finalise, committed.
WriteOutcome(r) == attempts' = [attempts EXCEPT ![Key(r)] = outcome[r]]

\* The budget refusal was raised after _finalise, so it answers at once.
Finalise(r) ==
    /\ pc[r] = "finalising"
    /\ WriteOutcome(r)
    /\ \/ r \in called /\ Goto(r, "viewing") /\ UNCHANGED reply
       \/ r \notin called /\ Refuse(r, 429)
    /\ UNCHANGED <<ledgerVars, dangling, memoryVars, handlerVars, historyVars>>

View(r) ==
    /\ pc[r] = "viewing"
    /\ AnswerView(r)
    /\ UNCHANGED <<ledgerVars, attempts, dangling, memoryVars, handlerVars,
                   historyVars>>

-----------------------------------------------------------------------------
(* Storage trouble and crashes.                                            *)

\* An exception generate does not handle, such as a driver error or timeout:
\* the app answers 500.  A write may be lost, or committed later by the server.
UnhandledError(r) ==
    /\ InFlight(r)
    /\ Refuse(r, 500)
    /\ \/ UNCHANGED dangling
       \/ pc[r] \in Writing /\ dangling' = dangling \cup {r}
    /\ UNCHANGED <<ledgerVars, attempts, memoryVars, handlerVars, historyVars>>

LateCommit(r) ==
    /\ r \in dangling
    /\ dangling' = dangling \ {r}
    /\ \/ r \in claimed /\ WriteOutcome(r) /\ UNCHANGED claimed
       \/ r \notin claimed /\ InsertClaim(r)
    /\ UNCHANGED <<ledgerVars, memoryVars, pc, handlerVars, reply, called,
                   inherited, restarts>>

\* The process dies and is started again, with or without an API key.
Crash ==
    /\ restarts < MaxRestarts
    /\ restarts' = restarts + 1
    /\ \E sent \in SUBSET {r \in Requests : pc[r] \in Writing} :
            dangling' = dangling \cup sent
    /\ pc' = [r \in Requests |-> IF InFlight(r) THEN "lost" ELSE pc[r]]
    /\ configured' \in BOOLEAN
    /\ attempted' = 0
    /\ inherited' = called
    /\ UNCHANGED <<ledgerVars, attempts, handlerVars, reply, claimed, called>>

-----------------------------------------------------------------------------
Handle(r) ==
    \/ Look(r) \/ ReadDecision(r) \/ ReadAttempts(r) \/ ReadContext(r)
    \/ Claim(r) \/ ClaimConflict(r) \/ StartCall(r) \/ BudgetExhausted(r)
    \/ CallReturns(r) \/ Finalise(r) \/ View(r)

Next ==
    \/ \E r \in Requests : Arrive(r) \/ Handle(r) \/ UnhandledError(r) \/ LateCommit(r)
    \/ \E d \in Decisions : Record(d) \/ Settle(d)
    \/ Crash

Spec == Init /\ [][Next]_vars

\* A suspended handler is resumed: httpx answers or times out, the event loop
\* runs whatever is ready, and every database call that is awaited ends.  The
\* last is assumed: on the preflight route the timeouts were measured not to
\* fire for a frozen database (docs/BUILD_LOG.md:759-765).
Fairness == \A r \in Requests : WF_vars(Handle(r))

FairSpec == Spec /\ Fairness

=============================================================================
