----------------------- MODULE ExplanationsProperties -----------------------
\* What the explanation routes promise.
EXTENDS Explanations

\* Types of the state.
TypeOK ==
    /\ ledger \in [Decisions -> Verdicts]
    /\ attempts \in [Keys -> Statuses]
    /\ dangling \subseteq Requests
    /\ configured \in BOOLEAN
    /\ attempted \in 0..BudgetLimit
    /\ pc \in [Requests -> Waiting \cup {"new", "done", "lost"}]
    /\ number \in [Requests -> 0..MaxAttempts]
    /\ facts \in [Requests -> SUBSET Decisions]
    /\ outcome \in [Requests -> Statuses]
    /\ reply \in [Requests -> Replies]
    /\ prior \in [Decisions -> SUBSET Decisions]
    /\ claimed \subseteq Requests
    /\ called \subseteq claimed
    /\ inherited \subseteq called
    /\ restarts \in 0..MaxRestarts

-----------------------------------------------------------------------------
(* Safety.                                                                 *)

\* However requests race, no two handlers await Gemini for the same decision:
\* the claim of generate refuses the duplicate before it calls.  A call that a
\* handler gave up on, by its timeout or in a crash, may still be at work.
OneCallAtATime == \A r, s \in Requests :
    pc[r] = "calling" /\ pc[s] = "calling" /\ DecisionOf[r] = DecisionOf[s] => r = s

\* The attempt cap bounds what is spent on one decision for good: restarts,
\* lost acknowledgements and budget refusals add no call beyond it.
CallsPerDecision == \A d \in Decisions :
    Cardinality({r \in called : DecisionOf[r] = d}) <= MaxAttempts

\* The process budget counts exactly the calls of this process: it is never
\* exceeded, and a refused duplicate has spent nothing.
BudgetCountsCalls ==
    /\ attempted <= BudgetLimit
    /\ attempted = Cardinality(called \ inherited)

\* The attempts of a decision form a chain: every attempt before another one
\* ended without success, so at most the last is pending or ready.
AttemptChain == \A d \in Decisions : \A m, n \in Numbers :
    m < n /\ attempts[<<d, n>>] # "none" => attempts[<<d, m>>] \in Unsuccessful

\* The request of an attempt works on it, or was cut off.
Owned(k) == \E r \in claimed :
    /\ Key(r) = k
    /\ InFlight(r) \/ pc[r] = "lost" \/ reply[r].code = 500

\* An attempt is left pending only while its request works on it, or after that
\* request was cut off: no regular answer, a refusal for the budget included,
\* leaves the decision blocked behind a pending attempt.
PendingHasOwner == \A k \in Keys : attempts[k] = "pending" => Owned(k)

\* Only a decision whose final verdict is deny ever gets an attempt, although
\* eligibility is read several round trips before the claim.
OnlyDeniesExplained == \A d \in Decisions : \A n \in Numbers :
    attempts[<<d, n>>] # "none" => ledger[d] = "deny"

-----------------------------------------------------------------------------
(* Actions.                                                                *)

\* Once an explanation is ready, no further call is made for its decision, by
\* requests that read the attempts before it was ready either.
NoCallAfterReady == [][\A r \in called' \ called :
    "ready" \notin StatusesOf(DecisionOf[r])]_vars

-----------------------------------------------------------------------------
(* Liveness.                                                               *)

\* Every request that reaches a route is answered, unless the process dies, if the
\* database calls it awaits end; a request that finds a pending attempt is refused
\* and does not wait for it. A request arrives once, so it has ended when it is in
\* flight no more.
EveryRequestEnds == \A r \in Requests : []<>~InFlight(r)

-----------------------------------------------------------------------------
(* What comments claim and the code does not do.                           *)

\* services/dashboard.py:157 and 164 of EXCLUDE_SELF: evidence about an event
\* is drawn only from what happened before it, strictly prior history.
EvidenceIsPrior == \A r \in Requests : facts[r] \subseteq prior[DecisionOf[r]]

=============================================================================
