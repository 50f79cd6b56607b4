---------------------------- MODULE PreflightProofs ----------------------------
(***************************************************************************)
(* Proofs about the preflight service, for any events, requests, clock,    *)
(* budget and number of restarts.                                          *)
(***************************************************************************)
EXTENDS PreflightInvariant, FiniteSetTheorems, TLAPS

LEMMA ModelExists == SomeModel \in Models
  BY ConstantsAssumption DEF ConstantsAssumption, SomeModel

LEMMA NoReplyType ==
    /\ NoReply \in Replies
    /\ \A code \in {0, 409, 503} : Refusal(code) \in Replies
  BY ZenonT(30), ModelExists DEF NoReply, Refusal, Replies, Undecided, Decisions, Orders, Risks,
     Actions, Reasons

LEMMA UndecidedType == Undecided \in Decisions
  BY DEF Undecided, Decisions, Orders, Risks, Actions, Reasons

\* NextTimestamp is a number past the last one, whatever the clock reads.
LEMMA TimestampAdvances ==
    ASSUME lastOccurred \in Nat, NEW now \in Clock
    PROVE  NextTimestamp(now) \in Nat /\ NextTimestamp(now) > lastOccurred
  BY ConstantsAssumption DEF NextTimestamp, ConstantsAssumption

LEMMA DecisionTypes ==
    /\ \A why \in Reasons, risk \in Risks, at \in Nat : FailSafe(why, risk, at) \in Decisions
    /\ \A verdict \in {"allow", "deny"}, at \in Nat : Decide(verdict, at) \in Decisions
  BY DEF FailSafe, Decide, Decisions, Orders, Risks, Actions, Reasons

LEMMA RowType ==
    ASSUME TypeOK, NEW r \in Requests
    PROVE  RowOf(r) \in Rows
  BY ConstantsAssumption DEF ConstantsAssumption, TypeOK, RowOf

\* A 200 answer built from a row is a well-formed response.
LEMMA AnswerType ==
    ASSUME TypeOK, NEW r \in Requests, NEW row \in Rows, NEW duplicate \in BOOLEAN,
           Answer(r, 200, duplicate, row)
    PROVE  reply' \in [Requests -> Replies]
<1>1. row.model \in Models /\ row.outcome \in Decisions /\ bundle \in Models
  BY DEF Rows, TypeOK
<1>2. [code |-> 200, duplicate |-> duplicate, model |-> row.model,
       threshold |-> bundle, outcome |-> row.outcome] \in Replies
  BY <1>1 DEF Replies
<1> QED
  BY <1>2 DEF Answer, TypeOK

-----------------------------------------------------------------------------
(* Type correctness.                                                       *)

LEMMA TypeInit == Init => TypeOK
  BY ConstantsAssumption, NoReplyType, UndecidedType
  DEF Init, TypeOK, ConstantsAssumption, Rows, Waiting

LEMMA TypeStep == TypeOK /\ [Next]_vars => TypeOK'
<1> SUFFICES ASSUME TypeOK, [Next]_vars PROVE TypeOK'
  OBVIOUS
<1> USE ConstantsAssumption DEF ConstantsAssumption, TypeOK
<1>1. ASSUME NEW r \in Requests, Arrive(r) PROVE TypeOK'
  BY <1>1 DEF Arrive, Goto, storageVars, razorpayVars, processVars, Waiting
<1>2. ASSUME NEW r \in Requests, Claim(r) PROVE TypeOK'
  BY <1>2, UndecidedType DEF Claim, InsertClaim, RowOf, Rows, Goto,
     razorpayVars, processVars, Waiting
<1>3. ASSUME NEW r \in Requests, ClaimConflict(r) PROVE TypeOK'
  BY <1>3 DEF ClaimConflict, Goto, storageVars, razorpayVars, processVars, Waiting
<1>4. ASSUME NEW r \in Requests, ReadExisting(r) PROVE TypeOK'
  <2>1. reply' \in [Requests -> Replies]
    <3>1. CASE RowOf(r).status = "final"
      BY <1>4, <3>1, AnswerType, RowType DEF ReadExisting
    <3>2. CASE RowOf(r).status # "final"
      <4>1. reply' = [reply EXCEPT ![r] = Refusal(409)]
        BY <1>4, <3>2 DEF ReadExisting, Refuse
      <4> QED
        BY <4>1, NoReplyType
    <3> QED
      BY <3>1, <3>2
  <2> QED
    BY <1>4, <2>1 DEF ReadExisting, Answer, Refuse, Goto, storageVars,
       razorpayVars, processVars
<1>5. ASSUME NEW r \in Requests, Score(r) PROVE TypeOK'
  <2> USE DEF storageVars, razorpayVars, Goto, Waiting
  <2>1. CASE FeatureFailure(r)
    BY <2>1, TimestampAdvances, DecisionTypes DEF FeatureFailure, Risks, Reasons
  <2>2. CASE ScoringFailure(r)
    <3>1. PICK now \in Clock : LET at == NextTimestamp(now) IN
             Advance(r, at) /\ Decided(r, FailSafe("scoring_failed", "null", at))
      BY <2>2 DEF ScoringFailure
    <3> QED
      BY <3>1, TimestampAdvances, DecisionTypes DEF Advance, Decided, Risks, Reasons
  <2>3. CASE Deny(r)
    <3>1. PICK now \in Clock : LET at == NextTimestamp(now) IN
             Advance(r, at) /\ Decided(r, Decide("deny", at))
      BY <2>3 DEF Deny
    <3> QED
      BY <3>1, TimestampAdvances, DecisionTypes DEF Advance, Decided
  <2>4. CASE AllowBudgetExhausted(r)
    <3>1. PICK now \in Clock : LET at == NextTimestamp(now) IN
             /\ Advance(r, at)
             /\ Decided(r, FailSafe("order_budget_exhausted", "allow", at))
      BY <2>4 DEF AllowBudgetExhausted
    <3> QED
      BY <3>1, TimestampAdvances, DecisionTypes DEF Advance, Decided, Risks, Reasons
  <2>5. CASE AllowReserved(r)
    <3>1. PICK now \in Clock : LET at == NextTimestamp(now) IN
             /\ Advance(r, at)
             /\ decision' = [decision EXCEPT ![r] = Decide("allow", at)]
      BY <2>5 DEF AllowReserved
    <3>2. attempted' \in 0..BudgetLimit
      BY <2>5 DEF AllowReserved, Take
    <3>3. lastOccurred' \in Nat /\ lastKey' \in Nat \X Nat /\ decision' \in [Requests -> Decisions]
      BY <3>1, TimestampAdvances, DecisionTypes DEF Advance
    <3> QED
      BY <2>5, <3>2, <3>3 DEF AllowReserved
  <2> QED
    BY <1>5, <2>1, <2>2, <2>3, <2>4, <2>5 DEF Score
<1>6. ASSUME NEW r \in Requests, OrderReturned(r) PROVE TypeOK'
  BY <1>6 DEF OrderReturned, Decisions, Orders, Goto, storageVars, razorpayVars,
     processVars, Waiting
<1>7. ASSUME NEW r \in Requests, OrderFails(r) PROVE TypeOK'
  <2>1. FailSafe("order_creation_failed", decision[r].risk, decision[r].at) \in Decisions
    <3>1. decision[r].risk \in Risks /\ decision[r].at \in Nat
      BY DEF Decisions
    <3> QED
      BY <3>1, DecisionTypes DEF Reasons
  <2> QED
    BY <1>7, <2>1 DEF OrderFails, Goto, storageVars, processVars, Waiting
<1>8. ASSUME NEW r \in Requests, Finalise(r) PROVE TypeOK'
  BY <1>8, RowType DEF Finalise, WriteFinal, Rows, Goto, razorpayVars,
     processVars, Waiting
<1>9. ASSUME NEW r \in Requests, Respond(r) PROVE TypeOK'
  <2>1. [RowOf(r) EXCEPT !.outcome = decision[r]] \in Rows
    BY RowType DEF Rows
  <2>2. reply' \in [Requests -> Replies]
    BY <1>9, <2>1, AnswerType DEF Respond
  <2> QED
    BY <1>9, <2>2 DEF Respond, Answer, Goto, storageVars, razorpayVars, processVars
<1>10. ASSUME NEW r \in Requests, StorageError(r) PROVE TypeOK'
  BY <1>10, NoReplyType DEF StorageError, Refuse, LeaveWrite, Goto,
     razorpayVars, processVars
<1>11. ASSUME NEW r \in Requests, Unwind(r) PROVE TypeOK'
  BY <1>11, NoReplyType DEF Unwind, Refuse, LeaveWrite, Goto, razorpayVars,
     processVars
<1>12. ASSUME NEW r \in Requests, LateCommit(r) PROVE TypeOK'
  <2>1. CASE r \in claims /\ WriteFinal(r)
    BY <1>12, <2>1, RowType DEF LateCommit, WriteFinal, Rows, razorpayVars, processVars
  <2>2. CASE r \notin claims /\ InsertClaim(r)
    BY <1>12, <2>2, UndecidedType DEF LateCommit, InsertClaim, Rows, razorpayVars,
       processVars
  <2> QED
    BY <1>12, <2>1, <2>2 DEF LateCommit
<1>13. ASSUME NEW r \in Requests, RazorpayCreates(r) PROVE TypeOK'
  BY <1>13 DEF RazorpayCreates, storageVars, processVars
<1>14. CASE Crash
  BY <1>14 DEF Crash, InFlight, Waiting, storageVars, razorpayVars
<1>15. CASE UNCHANGED vars
  BY <1>15 DEF vars
<1> QED
  BY <1>1, <1>2, <1>3, <1>4, <1>5, <1>6, <1>7, <1>8, <1>9, <1>10, <1>11, <1>12,
     <1>13, <1>14, <1>15
     DEF Next, Handle, OnDatabase, OnRazorpay, Trouble, Environment

\* Every variable of the service stays in its type, for any number of requests,
\* events and restarts: in particular the budget counter never passes its limit.
THEOREM TypeCorrect == Spec => []TypeOK
<1> QED
  BY TypeInit, TypeStep, PTL DEF Spec

-----------------------------------------------------------------------------
(* The inductive invariant.  One lemma per action: the conjuncts the action *)
(* can disturb have a step each, the others share one.                      *)

LEMMA ArrivePreserves ==
    ASSUME IInv, TypeOK', NEW r \in Requests, Arrive(r)
    PROVE  Core'
<1> USE ConstantsAssumption DEF ConstantsAssumption, IInv, Core, TypeOK,
       RowOf, SameEvent, storageVars, razorpayVars, processVars, Arrive, Goto
<1>1. Stages'
  BY DEF Stages, Stage, Ownership, Waiting, Recordable, Dangling, Undecided
<1>2. Dangling'
  BY DEF Dangling, Stages, Stage, Ownership, Waiting, Recordable
<1>3. Ownership' /\ FinalRows' /\ OrderOrigin' /\ Answers' /\ ReviewQueueIsExact' /\ EngineBehindHost'
  BY DEF Ownership, FinalRows, Recordable, OrderOrigin, Answers, Answered,
     Final, ReviewQueueIsExact, EngineBehindHost
<1> QED
  BY <1>1, <1>2, <1>3

LEMMA ClaimPreserves ==
    ASSUME IInv, TypeOK', NEW r \in Requests, Claim(r)
    PROVE  Core'
<1> USE ConstantsAssumption DEF ConstantsAssumption, IInv, Core, TypeOK,
       RowOf, SameEvent, storageVars, razorpayVars, processVars, Claim,
       InsertClaim, Goto
<1>1. Ownership'
  BY DEF Ownership, Stages, Stage, Dangling, Undecided
<1>2. Stages'
  BY DEF Stages, Stage, Ownership, Waiting, Recordable, Dangling, Undecided
<1>3. Dangling'
  BY DEF Dangling, Stages, Stage, Ownership, Waiting, Recordable
<1>4. FinalRows'
  BY DEF FinalRows, Ownership, Stages, Stage, Dangling, Recordable, Undecided
<1>5. Answers'
  BY DEF Answers, Answered, Final, Ownership, FinalRows, Stages, Stage,
     Dangling
<1>6. ReviewQueueIsExact'
  BY DEF ReviewQueueIsExact, Final, Ownership, Stages, Stage, Dangling
<1>7. OrderOrigin' /\ EngineBehindHost'
  BY DEF OrderOrigin, EngineBehindHost
<1> QED
  BY <1>1, <1>2, <1>3, <1>4, <1>5, <1>6, <1>7

LEMMA ClaimConflictPreserves ==
    ASSUME IInv, TypeOK', NEW r \in Requests, ClaimConflict(r)
    PROVE  Core'
<1> USE ConstantsAssumption DEF ConstantsAssumption, IInv, Core, TypeOK,
       RowOf, SameEvent, storageVars, razorpayVars, processVars,
       ClaimConflict, Goto
<1>1. Stages'
  BY DEF Stages, Stage, Ownership, Waiting, Recordable, Dangling, Undecided
<1>2. Dangling'
  BY DEF Dangling, Stages, Stage, Ownership, Waiting, Recordable
<1>3. Ownership' /\ FinalRows' /\ OrderOrigin' /\ Answers' /\ ReviewQueueIsExact' /\ EngineBehindHost'
  BY DEF Ownership, FinalRows, Recordable, OrderOrigin, Answers, Answered,
     Final, ReviewQueueIsExact, EngineBehindHost
<1> QED
  BY <1>1, <1>2, <1>3

LEMMA ReadExistingPreserves ==
    ASSUME IInv, TypeOK', NEW r \in Requests, ReadExisting(r)
    PROVE  Core'
<1> USE ConstantsAssumption DEF ConstantsAssumption, IInv, Core, TypeOK,
       RowOf, SameEvent, storageVars, razorpayVars, processVars, ReadExisting,
       Answer, Refuse, Refusal, NoReply, Goto
<1>1. Stages'
  BY DEF Stages, Stage, Ownership, Waiting, Recordable, Dangling, Undecided
<1>2. Dangling'
  BY DEF Dangling, Stages, Stage, Ownership, Waiting, Recordable
<1>3. Answers'
  BY DEF Answers, Answered, Final, Ownership, FinalRows, Stages, Stage,
     Dangling
<1>4. Ownership' /\ FinalRows' /\ OrderOrigin' /\ ReviewQueueIsExact' /\ EngineBehindHost'
  BY DEF Ownership, FinalRows, Recordable, OrderOrigin, ReviewQueueIsExact,
     Final, EngineBehindHost
<1> QED
  BY <1>1, <1>2, <1>3, <1>4

LEMMA FeatureFailurePreserves ==
    ASSUME IInv, TypeOK', NEW r \in Requests, FeatureFailure(r)
    PROVE  Core'
<1> USE ConstantsAssumption DEF ConstantsAssumption, IInv, Core, TypeOK,
       RowOf, SameEvent, storageVars, razorpayVars, processVars,
       FeatureFailure, FailSafe, Goto
<1>1. Ownership'
  BY DEF Ownership, Stages, Stage, Dangling, Undecided
<1>2. Stages'
  BY DEF Stages, Stage, Ownership, Waiting, Recordable, Dangling, Undecided
<1>3. Dangling'
  BY DEF Dangling, Stages, Stage, Ownership, Waiting, Recordable
<1>4. FinalRows'
  BY DEF FinalRows, Ownership, Stages, Stage, Dangling, Recordable, Undecided
<1>5. OrderOrigin'
  BY DEF OrderOrigin, Stages, Stage, Ownership
<1>6. EngineBehindHost'
  BY TimestampAdvances DEF EngineBehindHost
<1>7. Answers' /\ ReviewQueueIsExact'
  BY DEF Answers, Answered, Final, ReviewQueueIsExact
<1> QED
  BY <1>1, <1>2, <1>3, <1>4, <1>5, <1>6, <1>7

LEMMA ScoringFailurePreserves ==
    ASSUME IInv, TypeOK', NEW r \in Requests, ScoringFailure(r)
    PROVE  Core'
<1> USE ConstantsAssumption DEF ConstantsAssumption, IInv, Core, TypeOK,
       RowOf, SameEvent, storageVars, razorpayVars, processVars,
       ScoringFailure, Advance, Decided, FailSafe, Goto
<1>1. Ownership'
  BY DEF Ownership, Stages, Stage, Dangling, Undecided
<1>2. Stages'
  BY DEF Stages, Stage, Ownership, Waiting, Recordable, Dangling, Undecided
<1>3. Dangling'
  BY DEF Dangling, Stages, Stage, Ownership, Waiting, Recordable
<1>4. FinalRows'
  BY DEF FinalRows, Ownership, Stages, Stage, Dangling, Recordable, Undecided
<1>5. OrderOrigin'
  BY DEF OrderOrigin, Stages, Stage, Ownership
<1>6. EngineBehindHost'
  BY TimestampAdvances DEF EngineBehindHost
<1>7. Answers' /\ ReviewQueueIsExact'
  BY DEF Answers, Answered, Final, ReviewQueueIsExact
<1> QED
  BY <1>1, <1>2, <1>3, <1>4, <1>5, <1>6, <1>7

LEMMA DenyPreserves ==
    ASSUME IInv, TypeOK', NEW r \in Requests, Deny(r)
    PROVE  Core'
<1> USE ConstantsAssumption DEF ConstantsAssumption, IInv, Core, TypeOK,
       RowOf, SameEvent, storageVars, razorpayVars, processVars, Deny,
       Advance, Decided, Decide, Goto
<1>1. Ownership'
  BY DEF Ownership, Stages, Stage, Dangling, Undecided
<1>2. Stages'
  BY DEF Stages, Stage, Ownership, Waiting, Recordable, Dangling, Undecided
<1>3. Dangling'
  BY DEF Dangling, Stages, Stage, Ownership, Waiting, Recordable
<1>4. FinalRows'
  BY DEF FinalRows, Ownership, Stages, Stage, Dangling, Recordable, Undecided
<1>5. OrderOrigin'
  BY DEF OrderOrigin, Stages, Stage, Ownership
<1>6. EngineBehindHost'
  BY TimestampAdvances DEF EngineBehindHost
<1>7. Answers' /\ ReviewQueueIsExact'
  BY DEF Answers, Answered, Final, ReviewQueueIsExact
<1> QED
  BY <1>1, <1>2, <1>3, <1>4, <1>5, <1>6, <1>7

LEMMA AllowBudgetExhaustedPreserves ==
    ASSUME IInv, TypeOK', NEW r \in Requests, AllowBudgetExhausted(r)
    PROVE  Core'
<1> USE ConstantsAssumption DEF ConstantsAssumption, IInv, Core, TypeOK,
       RowOf, SameEvent, storageVars, razorpayVars, processVars,
       AllowBudgetExhausted, Advance, Decided, FailSafe, Goto
<1>1. Ownership'
  BY DEF Ownership, Stages, Stage, Dangling, Undecided
<1>2. Stages'
  BY DEF Stages, Stage, Ownership, Waiting, Recordable, Dangling, Undecided
<1>3. Dangling'
  BY DEF Dangling, Stages, Stage, Ownership, Waiting, Recordable
<1>4. FinalRows'
  BY DEF FinalRows, Ownership, Stages, Stage, Dangling, Recordable, Undecided
<1>5. OrderOrigin'
  BY DEF OrderOrigin, Stages, Stage, Ownership
<1>6. EngineBehindHost'
  BY TimestampAdvances DEF EngineBehindHost
<1>7. Answers' /\ ReviewQueueIsExact'
  BY DEF Answers, Answered, Final, ReviewQueueIsExact
<1> QED
  BY <1>1, <1>2, <1>3, <1>4, <1>5, <1>6, <1>7

LEMMA AllowReservedPreserves ==
    ASSUME IInv, TypeOK', NEW r \in Requests, AllowReserved(r)
    PROVE  Core'
<1> USE ConstantsAssumption DEF ConstantsAssumption, IInv, Core, TypeOK,
       RowOf, SameEvent, storageVars, razorpayVars, processVars,
       AllowReserved, Take, Advance, Decide, Goto
<1>1. Ownership'
  BY DEF Ownership, Stages, Stage, Dangling, Undecided
<1>2. Stages'
  BY DEF Stages, Stage, Ownership, Waiting, Recordable, Dangling, Undecided
<1>3. Dangling'
  BY DEF Dangling, Stages, Stage, Ownership, Waiting, Recordable
<1>4. FinalRows'
  BY DEF FinalRows, Ownership, Stages, Stage, Dangling, Recordable, Undecided
<1>5. OrderOrigin'
  BY DEF OrderOrigin, Stages, Stage, Ownership
<1>6. EngineBehindHost'
  BY TimestampAdvances DEF EngineBehindHost
<1>7. Answers' /\ ReviewQueueIsExact'
  BY DEF Answers, Answered, Final, ReviewQueueIsExact
<1> QED
  BY <1>1, <1>2, <1>3, <1>4, <1>5, <1>6, <1>7

LEMMA OrderReturnedPreserves ==
    ASSUME IInv, TypeOK', NEW r \in Requests, OrderReturned(r)
    PROVE  Core'
<1> USE ConstantsAssumption DEF ConstantsAssumption, IInv, Core, TypeOK,
       RowOf, SameEvent, storageVars, razorpayVars, processVars,
       OrderReturned, Goto
<1>1. Ownership'
  BY DEF Ownership, Stages, Stage, Dangling, Undecided
<1>2. Stages'
  BY DEF Stages, Stage, Ownership, Waiting, Recordable, Dangling, Undecided
<1>3. Dangling'
  BY DEF Dangling, Stages, Stage, Ownership, Waiting, Recordable
<1>4. FinalRows'
  BY DEF FinalRows, Ownership, Stages, Stage, Dangling, Recordable, Undecided
<1>5. OrderOrigin'
  BY DEF OrderOrigin, Stages, Stage, Ownership
<1>6. Answers' /\ ReviewQueueIsExact' /\ EngineBehindHost'
  BY DEF Answers, Answered, Final, ReviewQueueIsExact, EngineBehindHost
<1> QED
  BY <1>1, <1>2, <1>3, <1>4, <1>5, <1>6

LEMMA OrderFailsPreserves ==
    ASSUME IInv, TypeOK', NEW r \in Requests, OrderFails(r)
    PROVE  Core'
<1> USE ConstantsAssumption DEF ConstantsAssumption, IInv, Core, TypeOK,
       RowOf, SameEvent, storageVars, razorpayVars, processVars, OrderFails,
       FailSafe, Goto
<1>1. Ownership'
  BY DEF Ownership, Stages, Stage, Dangling, Undecided
<1>2. Stages'
  BY DEF Stages, Stage, Ownership, Waiting, Recordable, Dangling, Undecided
<1>3. Dangling'
  BY DEF Dangling, Stages, Stage, Ownership, Waiting, Recordable
<1>4. FinalRows'
  BY DEF FinalRows, Ownership, Stages, Stage, Dangling, Recordable, Undecided
<1>5. OrderOrigin'
  BY DEF OrderOrigin, Stages, Stage, Ownership
<1>6. Answers' /\ ReviewQueueIsExact' /\ EngineBehindHost'
  BY DEF Answers, Answered, Final, ReviewQueueIsExact, EngineBehindHost
<1> QED
  BY <1>1, <1>2, <1>3, <1>4, <1>5, <1>6

LEMMA FinalisePreserves ==
    ASSUME IInv, TypeOK', NEW r \in Requests, Finalise(r)
    PROVE  Core'
<1> USE ConstantsAssumption DEF ConstantsAssumption, IInv, Core, TypeOK,
       RowOf, SameEvent, storageVars, razorpayVars, processVars, Finalise,
       WriteFinal, Goto
<1>1. Ownership'
  BY DEF Ownership, Stages, Stage
<1>2. Stages'
  BY DEF Stages, Stage, Ownership, Waiting, Recordable, Dangling, Undecided
<1>3. Dangling'
  BY DEF Dangling, Stages, Stage, Ownership, Waiting, Recordable
<1>4. FinalRows'
  BY DEF FinalRows, Ownership, Stages, Stage, Dangling, Recordable, Undecided
<1>5. Answers'
  BY DEF Answers, Answered, Final, Ownership, FinalRows, Stages, Stage,
     Dangling
<1>6. ReviewQueueIsExact'
  BY DEF ReviewQueueIsExact, Final, Ownership, Stages, Stage, Dangling
<1>7. OrderOrigin' /\ EngineBehindHost'
  BY DEF OrderOrigin, EngineBehindHost
<1> QED
  BY <1>1, <1>2, <1>3, <1>4, <1>5, <1>6, <1>7

LEMMA RespondPreserves ==
    ASSUME IInv, TypeOK', NEW r \in Requests, Respond(r)
    PROVE  Core'
<1> USE ConstantsAssumption DEF ConstantsAssumption, IInv, Core, TypeOK,
       RowOf, SameEvent, storageVars, razorpayVars, processVars, Respond,
       Answer, Goto
<1>1. Stages'
  BY DEF Stages, Stage, Ownership, Waiting, Recordable, Dangling, Undecided
<1>2. Dangling'
  BY DEF Dangling, Stages, Stage, Ownership, Waiting, Recordable
<1>3. Answers'
  BY DEF Answers, Answered, Final, Ownership, FinalRows, Stages, Stage,
     Dangling
<1>4. Ownership' /\ FinalRows' /\ OrderOrigin' /\ ReviewQueueIsExact' /\ EngineBehindHost'
  BY DEF Ownership, FinalRows, Recordable, OrderOrigin, ReviewQueueIsExact,
     Final, EngineBehindHost
<1> QED
  BY <1>1, <1>2, <1>3, <1>4

LEMMA StorageErrorPreserves ==
    ASSUME IInv, TypeOK', NEW r \in Requests, StorageError(r)
    PROVE  Core'
<1> USE ConstantsAssumption DEF ConstantsAssumption, IInv, Core, TypeOK,
       RowOf, SameEvent, storageVars, razorpayVars, processVars, StorageError,
       Refuse, Refusal, NoReply, LeaveWrite, Writing, Goto
<1>1. Stages'
  BY DEF Stages, Stage, Ownership, Waiting, Recordable, Dangling, Undecided
<1>2. Dangling'
  BY DEF Dangling, Stages, Stage, Ownership, Waiting, Recordable
<1>3. Answers'
  BY DEF Answers, Answered, Final, Ownership, FinalRows, Stages, Stage,
     Dangling
<1>4. Ownership' /\ FinalRows' /\ OrderOrigin' /\ ReviewQueueIsExact' /\ EngineBehindHost'
  BY DEF Ownership, FinalRows, Recordable, OrderOrigin, ReviewQueueIsExact,
     Final, EngineBehindHost
<1> QED
  BY <1>1, <1>2, <1>3, <1>4

LEMMA UnwindPreserves ==
    ASSUME IInv, TypeOK', NEW r \in Requests, Unwind(r)
    PROVE  Core'
<1> USE ConstantsAssumption DEF ConstantsAssumption, IInv, Core, TypeOK,
       RowOf, SameEvent, storageVars, razorpayVars, processVars, Unwind,
       Refuse, Refusal, NoReply, LeaveWrite, Writing, InFlight, Goto
<1>1. Stages'
  BY DEF Stages, Stage, Ownership, Waiting, Recordable, Dangling, Undecided
<1>2. Dangling'
  BY DEF Dangling, Stages, Stage, Ownership, Waiting, Recordable
<1>3. Answers'
  BY DEF Answers, Answered, Final, Ownership, FinalRows, Stages, Stage,
     Dangling
<1>4. Ownership' /\ FinalRows' /\ OrderOrigin' /\ ReviewQueueIsExact' /\ EngineBehindHost'
  BY DEF Ownership, FinalRows, Recordable, OrderOrigin, ReviewQueueIsExact,
     Final, EngineBehindHost
<1> QED
  BY <1>1, <1>2, <1>3, <1>4

LEMMA RazorpayCreatesPreserves ==
    ASSUME IInv, TypeOK', NEW r \in Requests, RazorpayCreates(r)
    PROVE  Core'
<1> USE ConstantsAssumption DEF ConstantsAssumption, IInv, Core, TypeOK,
       RowOf, SameEvent, storageVars, razorpayVars, processVars,
       RazorpayCreates
<1>1. Ownership'
  BY DEF Ownership, Stages, Stage, Dangling, Undecided
<1>2. Stages'
  BY DEF Stages, Stage, Ownership, Waiting, Recordable, Dangling, Undecided
<1>3. Dangling'
  BY DEF Dangling, Stages, Stage, Ownership, Waiting, Recordable
<1>4. FinalRows'
  BY DEF FinalRows, Ownership, Stages, Stage, Dangling, Recordable, Undecided
<1>5. OrderOrigin'
  BY DEF OrderOrigin, Stages, Stage, Ownership
<1>6. Answers' /\ ReviewQueueIsExact' /\ EngineBehindHost'
  BY DEF Answers, Answered, Final, ReviewQueueIsExact, EngineBehindHost
<1> QED
  BY <1>1, <1>2, <1>3, <1>4, <1>5, <1>6

LEMMA LateCommitPreserves ==
    ASSUME IInv, TypeOK', NEW r \in Requests, LateCommit(r)
    PROVE  Core'
<1> USE ConstantsAssumption DEF ConstantsAssumption, IInv, Core, TypeOK, RowOf,
       SameEvent, razorpayVars, processVars
<1>1. CASE r \in claims /\ WriteFinal(r)
  <2> USE <1>1 DEF LateCommit, WriteFinal
  <2>1. Ownership'
    BY DEF Ownership, Dangling
  <2>2. Stages'
    BY DEF Stages, Stage, Ownership, Dangling, Recordable
  <2>3. Dangling'
    BY DEF Dangling, Ownership, Recordable
  <2>4. FinalRows'
    BY DEF FinalRows, Ownership, Dangling, Recordable
  <2>5. Answers'
    BY DEF Answers, Answered, Final, Dangling
  <2>6. ReviewQueueIsExact'
    BY DEF ReviewQueueIsExact, Final, Dangling
  <2>7. OrderOrigin' /\ EngineBehindHost'
    BY DEF OrderOrigin, EngineBehindHost
  <2> QED
    BY <2>1, <2>2, <2>3, <2>4, <2>5, <2>6, <2>7
<1>2. CASE r \notin claims /\ InsertClaim(r)
  <2> USE <1>2 DEF LateCommit, InsertClaim
  <2>1. Ownership'
    BY DEF Ownership
  <2>2. Stages'
    BY DEF Stages, Stage, Ownership, Dangling, Recordable
  <2>3. Dangling'
    BY DEF Dangling, Ownership, Recordable
  <2>4. FinalRows'
    BY DEF FinalRows, Ownership, Recordable
  <2>5. Answers'
    BY DEF Answers, Answered, Final, Ownership
  <2>6. ReviewQueueIsExact'
    BY DEF ReviewQueueIsExact, Final
  <2>7. OrderOrigin' /\ EngineBehindHost'
    BY DEF OrderOrigin, EngineBehindHost
  <2> QED
    BY <2>1, <2>2, <2>3, <2>4, <2>5, <2>6, <2>7
<1> QED
  BY <1>1, <1>2 DEF LateCommit

LEMMA CrashPreserves ==
    ASSUME IInv, TypeOK', Crash
    PROVE  Core'
<1> USE DEF IInv, Core, TypeOK, Crash, RowOf, SameEvent, storageVars, razorpayVars
<1>1. Stages'
  BY DEF Stages, Stage, InFlight, Waiting, Recordable
<1>2. Dangling'
  BY DEF Dangling, InFlight, Waiting, Recordable
<1>3. Ownership' /\ FinalRows' /\ OrderOrigin' /\ Answers' /\ ReviewQueueIsExact'
  BY DEF Ownership, FinalRows, Recordable, OrderOrigin, Answers, Answered, Final,
     ReviewQueueIsExact
<1>4. EngineBehindHost'
  BY DEF EngineBehindHost
<1> QED
  BY <1>1, <1>2, <1>3, <1>4

-----------------------------------------------------------------------------
(* The order budget.                                                       *)

\* The POSTs of all processes so far never exceed what their budgets allowed:
\* only AllowReserved sends one, and it takes a unit first.
LEMMA BudgetStep ==
    ASSUME IInv, [Next]_vars
    PROVE  BudgetSpent'
<1> DEFINE Sent == wire \cup upstream
           Spent == BudgetLimit * restarts + attempted
<1>1. /\ IsFiniteSet(Sent) /\ Cardinality(Sent) \in Nat
      /\ Spent \in Int /\ Cardinality(Sent) <= Spent
  BY RequestsFinite, ConstantsAssumption, FS_Subset, FS_CardinalityType
  DEF ConstantsAssumption, IInv, TypeOK, BudgetSpent
<1>2. CASE UNCHANGED <<attempted, restarts>> /\ Sent' \subseteq Sent
  <2>1. Cardinality(Sent') <= Cardinality(Sent) /\ Cardinality(Sent') \in Nat
    BY <1>1, <1>2, FS_Subset, FS_CardinalityType
  <2>2. Spent' = Spent
    BY <1>2
  <2> QED
    BY <1>1, <2>1, <2>2 DEF BudgetSpent
<1>3. ASSUME NEW r \in Requests, AllowReserved(r) PROVE BudgetSpent'
  <2>1. Sent' = Sent \cup {r} /\ attempted' = attempted + 1 /\ restarts' = restarts
    BY <1>3 DEF AllowReserved, Take
  <2>2. Cardinality(Sent') <= Cardinality(Sent) + 1 /\ Cardinality(Sent') \in Nat
    <3>1. IsFiniteSet(Sent \cup {r}) /\ Cardinality(Sent \cup {r}) <= Cardinality(Sent) + 1
      BY <1>1, FS_AddElement
    <3>2. Cardinality(Sent \cup {r}) \in Nat
      BY <3>1, FS_CardinalityType
    <3> QED
      BY <2>1, <3>1, <3>2
  <2>3. BudgetLimit * restarts \in Int /\ attempted \in Int
    BY ConstantsAssumption DEF ConstantsAssumption, IInv, TypeOK
  <2>4. Spent' = Spent + 1
    BY <2>1, <2>3
  <2> QED
    BY <1>1, <2>2, <2>4 DEF BudgetSpent
<1>4. CASE Crash
  <2>1. Sent' = Sent /\ attempted' = 0 /\ restarts' = restarts + 1
    BY <1>4 DEF Crash, razorpayVars
  <2>2. BudgetLimit * (restarts + 1) = BudgetLimit * restarts + BudgetLimit
    BY ConstantsAssumption DEF ConstantsAssumption, IInv, TypeOK
  <2>3. attempted <= BudgetLimit /\ attempted \in Nat /\ BudgetLimit * restarts \in Nat
    BY ConstantsAssumption DEF ConstantsAssumption, IInv, TypeOK
  <2>4. Spent' = BudgetLimit * restarts + BudgetLimit
    BY <2>1, <2>2, ConstantsAssumption, <2>3 DEF ConstantsAssumption
  <2> QED
    <3>1. Cardinality(Sent) <= BudgetLimit * restarts + BudgetLimit
      BY <1>1, <2>3, ConstantsAssumption DEF ConstantsAssumption
    <3> QED
      BY <2>1, <2>4, <3>1 DEF BudgetSpent
<1>5. ASSUME NEW r \in Requests, RazorpayCreates(r) PROVE BudgetSpent'
  BY <1>2, <1>5 DEF RazorpayCreates, processVars
<1>6. ASSUME NEW r \in Requests, OrderFails(r) PROVE BudgetSpent'
  BY <1>2, <1>6 DEF OrderFails, processVars
<1>7. ASSUME UNCHANGED <<wire, upstream, attempted, restarts>> PROVE BudgetSpent'
  BY <1>2, <1>7
<1> QED
  <2> USE DEF razorpayVars, processVars
  <2>1. ASSUME NEW r \in Requests, Handle(r) PROVE BudgetSpent'
    <3>1. CASE Claim(r) \/ ClaimConflict(r) \/ ReadExisting(r)
      BY <1>7, <3>1 DEF Claim, ClaimConflict, ReadExisting
    <3>2. CASE Score(r)
      <4>1. CASE FeatureFailure(r) \/ ScoringFailure(r) \/ Deny(r) \/ AllowBudgetExhausted(r)
        BY <1>7, <4>1 DEF FeatureFailure, ScoringFailure, Deny,
           AllowBudgetExhausted, Decided
      <4> QED
        BY <1>3, <3>2, <4>1 DEF Score
    <3>3. CASE OrderReturned(r) \/ Finalise(r) \/ Respond(r)
      BY <1>7, <3>3 DEF OrderReturned, Finalise, Respond
    <3> QED
      BY <1>6, <2>1, <3>1, <3>2, <3>3 DEF Handle, OnDatabase, OnRazorpay
  <2>2. ASSUME NEW r \in Requests, Trouble(r) PROVE BudgetSpent'
    BY <1>7, <2>2 DEF Trouble, StorageError, Unwind, LateCommit
  <2>3. ASSUME NEW r \in Requests, Environment(r) PROVE BudgetSpent'
    BY <1>5, <1>7, <2>3 DEF Environment, Arrive
  <2> QED
    BY <1>4, <1>7, <2>1, <2>2, <2>3 DEF Next, vars

-----------------------------------------------------------------------------
(* The invariant holds, and the safety properties follow from it.          *)

LEMMA InvariantInit == Init => IInv
<1> SUFFICES ASSUME Init PROVE IInv
  OBVIOUS
<1>1. TypeOK
  BY TypeInit
<1>2. Core
  BY ConstantsAssumption
  DEF Init, Core, ConstantsAssumption, Ownership, Stages, Stage, Dangling, FinalRows,
      OrderOrigin, Answers, Answered, ReviewQueueIsExact, Final, EngineBehindHost,
      RowOf, NoReply, Undecided
<1>3. BudgetSpent
  <2>1. Cardinality(wire \cup upstream) = 0
    BY FS_EmptySet DEF Init
  <2> QED
    BY <2>1, ConstantsAssumption DEF Init, BudgetSpent, ConstantsAssumption
<1> QED
  BY <1>1, <1>2, <1>3 DEF IInv

LEMMA InvariantStep == IInv /\ [Next]_vars => IInv'
<1> SUFFICES ASSUME IInv, [Next]_vars PROVE IInv'
  OBVIOUS
<1>1. TypeOK'
  BY TypeStep DEF IInv
<1>2. BudgetSpent'
  BY BudgetStep
<1>3. Core'
  <2>1. ASSUME NEW r \in Requests, Handle(r) PROVE Core'
    <3>1. CASE Score(r)
      BY <1>1, <3>1, FeatureFailurePreserves, ScoringFailurePreserves, DenyPreserves,
         AllowBudgetExhaustedPreserves, AllowReservedPreserves DEF Score
    <3> QED
      BY <1>1, <2>1, <3>1, ClaimPreserves, ClaimConflictPreserves,
         ReadExistingPreserves, OrderReturnedPreserves, OrderFailsPreserves,
         FinalisePreserves, RespondPreserves DEF Handle, OnDatabase, OnRazorpay
  <2>2. ASSUME NEW r \in Requests, Trouble(r) PROVE Core'
    BY <1>1, <2>2, StorageErrorPreserves, UnwindPreserves, LateCommitPreserves DEF Trouble
  <2>3. ASSUME NEW r \in Requests, Environment(r) PROVE Core'
    BY <1>1, <2>3, ArrivePreserves, RazorpayCreatesPreserves DEF Environment
  <2>4. CASE Crash
    BY <1>1, <2>4, CrashPreserves
  <2>5. CASE UNCHANGED vars
    BY <2>5 DEF vars, IInv, Core, Ownership, Stages, Stage, Dangling, FinalRows,
       OrderOrigin, Answers, Answered, ReviewQueueIsExact, Final, EngineBehindHost,
       RowOf, SameEvent, Recordable
  <2> QED
    BY <2>1, <2>2, <2>3, <2>4, <2>5 DEF Next
<1> QED
  BY <1>1, <1>2, <1>3 DEF IInv

\* The invariant above holds of every behaviour of the service.
THEOREM Invariant == Spec => []IInv
<1> QED
  BY InvariantInit, InvariantStep, PTL DEF Spec

LEMMA InvariantImplies ==
    ASSUME IInv
    PROVE  /\ OneOrderPerEvent
           /\ ScoredOncePerEvent
           /\ OrdersWithinBudget
           /\ OrdersOnlyForAllow
           /\ AllowIsBackedByOrder
           /\ AnswersMatchLedger
           /\ TimestampsNeverRejected
<1> USE ConstantsAssumption DEF ConstantsAssumption, IInv, Core, TypeOK, RowOf,
       SameEvent, Ownership
<1>1. OneOrderPerEvent
  BY DEF OneOrderPerEvent
<1>2. ScoredOncePerEvent
  BY DEF ScoredOncePerEvent, Undecided
<1>3. OrdersWithinBudget
  <2>1. Cardinality(wire \cup upstream) \in Nat
    BY RequestsFinite, FS_Subset, FS_CardinalityType
  <2>2. BudgetLimit * (restarts + 1) = BudgetLimit * restarts + BudgetLimit
    OBVIOUS
  <2>3. attempted <= BudgetLimit /\ BudgetLimit * restarts \in Nat /\ attempted \in Nat
    OBVIOUS
  <2> QED
    BY <2>1, <2>2, <2>3 DEF OrdersWithinBudget, BudgetSpent
<1>4. OrdersOnlyForAllow
  <2> SUFFICES ASSUME NEW r \in wire \cup upstream, RowOf(r).status # "pending"
               PROVE  /\ RowOf(r).status = "final"
                      /\ RowOf(r).outcome.risk = "allow"
                      /\ \/ RowOf(r).outcome.action = "allow" /\ RowOf(r).outcome.order = r
                         \/ RowOf(r).outcome.reason = "order_creation_failed"
    BY DEF OrdersOnlyForAllow
  <2>1. r \in claims /\ RowOf(r).status = "final"
    BY RowType DEF Rows
  <2>2. RowOf(r).outcome = decision[r] /\ Recordable(r)
    BY <2>1 DEF FinalRows
  <2> QED
    BY <2>1, <2>2 DEF OrderOrigin, Recordable
<1>5. AllowIsBackedByOrder
  BY DEF AllowIsBackedByOrder, Final, FinalRows, Recordable
<1>6. AnswersMatchLedger
  BY DEF AnswersMatchLedger, Answers
<1>7. TimestampsNeverRejected
  <2> SUFFICES ASSUME NEW now \in Clock, NEW e \in Events
               PROVE  Accepts(NextTimestamp(now), e)
    BY DEF TimestampsNeverRejected
  <2>1. NextTimestamp(now) \in Nat /\ NextTimestamp(now) > lastOccurred
    BY TimestampAdvances
  <2>2. lastKey[1] \in Nat
    OBVIOUS
  <2> QED
    BY <2>1, <2>2 DEF EngineBehindHost, Accepts
<1> QED
  BY <1>1, <1>2, <1>3, <1>4, <1>5, <1>6, <1>7

\* Retries, races, lost acknowledgements, late commits and crashes never lead to
\* two orders for one event.
THEOREM OneOrder == Spec => []OneOrderPerEvent
<1>1. IInv => OneOrderPerEvent
  BY InvariantImplies
<1> QED
  BY <1>1, Invariant, PTL

\* No event advances the rolling feature state twice, across all restarts.
THEOREM ScoredOnce == Spec => []ScoredOncePerEvent
<1>1. IInv => ScoredOncePerEvent
  BY InvariantImplies
<1> QED
  BY <1>1, Invariant, PTL

\* The number of orders is bounded by the budgets of the processes so far.
THEOREM WithinBudget == Spec => []OrdersWithinBudget
<1>1. IInv => OrdersWithinBudget
  BY InvariantImplies
<1> QED
  BY <1>1, Invariant, PTL

\* An order stands behind an ALLOW, an unfinished row or order_creation_failed.
THEOREM OrdersBelongToAllow == Spec => []OrdersOnlyForAllow
<1>1. IInv => OrdersOnlyForAllow
  BY InvariantImplies
<1> QED
  BY <1>1, Invariant, PTL

\* A final ALLOW has its order, and only ALLOW names one.
THEOREM AllowBacked == Spec => []AllowIsBackedByOrder
<1>1. IInv => AllowIsBackedByOrder
  BY InvariantImplies
<1> QED
  BY <1>1, Invariant, PTL

\* Every completed answer for an event is the one its final row records.
THEOREM AnswersAgree == Spec => []AnswersMatchLedger
<1>1. IInv => AnswersMatchLedger
  BY InvariantImplies
<1> QED
  BY <1>1, Invariant, PTL

\* The review queue is the set of events finalised with REVIEW.
THEOREM ReviewQueue == Spec => []ReviewQueueIsExact
<1>1. IInv => ReviewQueueIsExact
  BY DEF IInv, Core
<1> QED
  BY <1>1, Invariant, PTL

\* No reading of the wall clock can make the engine reject an event.
THEOREM TimestampsAccepted == Spec => []TimestampsNeverRejected
<1>1. IInv => TimestampsNeverRejected
  BY InvariantImplies
<1> QED
  BY <1>1, Invariant, PTL

-----------------------------------------------------------------------------
(* How the steps move the rows, and the refinement of the decision ledger.   *)

\* The claim and the final write, as steps of the rows.
LEMMA ClaimRow ==
    ASSUME TypeOK, NEW r \in Requests, InsertClaim(r)
    PROVE  /\ ledger[EventOf[r]].status = "none"
           /\ ledger' = [ledger EXCEPT ![EventOf[r]] =
                [status |-> "pending", model |-> bundle, outcome |-> Undecided]]
  BY DEF InsertClaim, RowOf

LEMMA FinalRow ==
    ASSUME IInv, NEW r \in Requests, Finalise(r) \/ (LateCommit(r) /\ r \in claims)
    PROVE  /\ ledger[EventOf[r]].status = "pending"
           /\ Recordable(r)
           /\ ledger' = [ledger EXCEPT ![EventOf[r]] =
                [status |-> "final", model |-> ledger[EventOf[r]].model,
                 outcome |-> decision[r]]]
<1>1. CASE Finalise(r)
  BY <1>1 DEF Finalise, WriteFinal, RowOf, IInv, Core, Stages, Stage
<1>2. CASE LateCommit(r) /\ r \in claims
  BY <1>2 DEF LateCommit, WriteFinal, RowOf, IInv, Core, Dangling
<1> QED
  BY <1>1, <1>2

\* Only these steps touch the rows.
LEMMA LedgerSteps ==
    ASSUME [Next]_vars
    PROVE  \/ UNCHANGED ledger
           \/ \E r \in Requests : InsertClaim(r)
           \/ \E r \in Requests : Finalise(r) \/ (LateCommit(r) /\ r \in claims)
<1> USE DEF storageVars
<1>1. ASSUME NEW r \in Requests, Handle(r)
      PROVE  UNCHANGED ledger \/ InsertClaim(r) \/ Finalise(r)
  <2>1. CASE Score(r)
    BY <2>1 DEF Score, FeatureFailure, ScoringFailure, Deny, AllowBudgetExhausted,
       AllowReserved, Decided
  <2> QED
    BY <1>1, <2>1 DEF Handle, OnDatabase, OnRazorpay, Claim, ClaimConflict,
       ReadExisting, OrderReturned, OrderFails, Respond
<1>2. ASSUME NEW r \in Requests, Trouble(r)
      PROVE  UNCHANGED ledger \/ InsertClaim(r) \/ (LateCommit(r) /\ r \in claims)
  BY <1>2 DEF Trouble, StorageError, Unwind, LateCommit
<1>3. ASSUME NEW r \in Requests, Environment(r) PROVE UNCHANGED ledger
  BY <1>3 DEF Environment, Arrive, RazorpayCreates
<1>4. CASE Crash
  BY <1>4 DEF Crash
<1>5. CASE UNCHANGED vars
  BY <1>5 DEF vars
<1> QED
  BY <1>1, <1>2, <1>3, <1>4, <1>5 DEF Next

\* A row goes from absent to pending to final and no further.
THEOREM RowsAdvance == Spec => RowsAdvanceOnce
<1> DEFINE Advance1 == \A e \in Events :
        \/ ledger'[e] = ledger[e]
        \/ ledger[e].status = "none" /\ ledger'[e].status = "pending"
        \/ /\ ledger[e].status = "pending" /\ ledger'[e].status = "final"
           /\ ledger'[e].model = ledger[e].model
<1>1. ASSUME IInv, [Next]_vars PROVE Advance1
  <2>1. TypeOK
    BY <1>1 DEF IInv
  <2>2. CASE UNCHANGED ledger
    BY <2>2
  <2>3. ASSUME NEW r \in Requests, InsertClaim(r) PROVE Advance1
    BY <2>1, <2>3, ClaimRow, ConstantsAssumption DEF TypeOK, ConstantsAssumption
  <2>4. ASSUME NEW r \in Requests, Finalise(r) \/ (LateCommit(r) /\ r \in claims)
        PROVE  Advance1
    BY <1>1, <2>1, <2>4, FinalRow, ConstantsAssumption DEF TypeOK, ConstantsAssumption
  <2> QED
    BY <1>1, <2>2, <2>3, <2>4, LedgerSteps
<1>2. IInv /\ [Next]_vars => [Advance1]_vars
  BY <1>1
<1> QED
  BY <1>2, Invariant, PTL DEF Spec, RowsAdvanceOnce

-----------------------------------------------------------------------------
(* The refinement.                                                         *)

AbsRow == [e \in Events |-> [status |-> ledger[e].status, outcome |-> ledger[e].outcome]]
AbsOrders == {<<EventOf[r], r>> : r \in upstream}
AbsAnswers == {<<EventOf[r], reply[r].outcome>> : r \in {s \in Requests : Answered(s)}}

LEMMA RowUpdate ==
    ASSUME TypeOK, NEW e \in Events, NEW st, NEW m, NEW o,
           ledger' = [ledger EXCEPT ![e] = [status |-> st, model |-> m, outcome |-> o]]
    PROVE  AbsRow' = [AbsRow EXCEPT ![e] = [status |-> st, outcome |-> o]]
<1>1. /\ ledger'[e].status = st /\ ledger'[e].outcome = o
      /\ \A f \in Events \ {e} : ledger'[f] = ledger[f]
  BY DEF TypeOK
<1> QED
  BY <1>1 DEF AbsRow

LEMMA RefinementInit == Init => Ledger!Init
<1> SUFFICES ASSUME Init PROVE Ledger!Init
  OBVIOUS
<1>1. AbsRow = [e \in Events |-> [status |-> "none", outcome |-> Undecided]]
  BY DEF Init, AbsRow
<1>2. AbsOrders = {} /\ AbsAnswers = {}
  BY DEF Init, AbsOrders, AbsAnswers, Answered, NoReply
<1> QED
  BY <1>1, <1>2 DEF Ledger!Init, AbsRow, AbsOrders, AbsAnswers

\* A refusal adds no answer; a 200 adds the one it carries.
LEMMA RefusalAnswers ==
    ASSUME IInv, NEW r \in Requests, pc[r] # "done", NEW code \in {409, 503},
           Refuse(r, code)
    PROVE  AbsAnswers' = AbsAnswers
<1>1. ~Answered(r) /\ ~Answered(r)'
  BY DEF Answered, IInv, Core, Stages, Stage, TypeOK, Refuse, Refusal, NoReply
<1>2. \A s \in Requests \ {r} : reply'[s] = reply[s]
  BY DEF Refuse, IInv, TypeOK
<1> QED
  BY <1>1, <1>2 DEF AbsAnswers, Answered

LEMMA NewAnswer ==
    ASSUME IInv, NEW r \in Requests, pc[r] # "done", NEW duplicate, NEW row,
           Answer(r, 200, duplicate, row)
    PROVE  AbsAnswers' = AbsAnswers \cup {<<EventOf[r], row.outcome>>}
<1>1. ~Answered(r)
  BY DEF Answered, IInv, Core, Stages, Stage, TypeOK
<1>2. Answered(r)' /\ reply'[r].outcome = row.outcome
  BY DEF Answered, Answer, IInv, TypeOK
<1>3. \A s \in Requests \ {r} : reply'[s] = reply[s]
  BY DEF Answer, IInv, TypeOK
<1> QED
  BY <1>1, <1>2, <1>3 DEF AbsAnswers, Answered

\* The claim is Claim of the abstract ledger.
LEMMA ClaimRefines ==
    ASSUME IInv, NEW r \in Requests, InsertClaim(r), UNCHANGED <<upstream, reply>>
    PROVE  Ledger!Claim(EventOf[r])
<1>1. EventOf[r] \in Events /\ ledger[EventOf[r]].status = "none"
  BY ClaimRow, ConstantsAssumption DEF ConstantsAssumption, IInv
<1>2. AbsRow' = [AbsRow EXCEPT ![EventOf[r]] = [status |-> "pending", outcome |-> Undecided]]
  BY <1>1, ClaimRow, RowUpdate DEF IInv
<1>3. AbsRow[EventOf[r]].status = "none"
  BY <1>1 DEF AbsRow
<1>4. AbsOrders' = AbsOrders /\ AbsAnswers' = AbsAnswers
  BY DEF AbsOrders, AbsAnswers, Answered
<1> QED
  BY <1>2, <1>3, <1>4 DEF Ledger!Claim, AbsRow, AbsOrders, AbsAnswers

\* The final write, in time or late, is Finalise with the owner's decision.
LEMMA FinaliseRefines ==
    ASSUME IInv, NEW r \in Requests, Finalise(r) \/ (LateCommit(r) /\ r \in claims),
           UNCHANGED <<upstream, reply>>
    PROVE  Ledger!Finalise(EventOf[r])
<1> DEFINE e == EventOf[r]
           o == decision[r]
<1>1. e \in Events /\ o \in Decisions
  BY ConstantsAssumption DEF ConstantsAssumption, IInv, TypeOK
<1>2. ledger[e].status = "pending" /\ Recordable(r)
  BY FinalRow
<1>3. AbsRow' = [AbsRow EXCEPT ![e] = [status |-> "final", outcome |-> o]]
  <2>1. ledger' = [ledger EXCEPT ![e] = [status |-> "final",
              model |-> ledger[e].model, outcome |-> o]]
    BY FinalRow
  <2>2. TypeOK
    BY DEF IInv
  <2> QED
    BY <1>1, <2>1, <2>2, RowUpdate
<1>4. AbsRow[e].status = "pending" /\ AbsRow'[e].outcome = o
  BY <1>1, <1>2, <1>3 DEF AbsRow
<1>5. AbsOrders' = AbsOrders /\ AbsAnswers' = AbsAnswers
  BY DEF AbsOrders, AbsAnswers, Answered
<1>6. r \in claims
  BY DEF Finalise, IInv, Core, Stages, Stage
<1>7. Ledger!Supported(e, o)
  <2>1. CASE o.action = "allow" /\ o.order = r /\ r \in upstream
    BY <2>1 DEF Ledger!Supported
  <2>2. CASE o.action = "review" /\ o.reason = "order_creation_failed"
    BY <2>2 DEF Ledger!Supported
  <2>3. CASE o.action \in {"review", "deny"} /\ r \notin upstream
    <3>1. \A s \in upstream : EventOf[s] # e
      BY <1>6, <2>3 DEF IInv, Core, Ownership, SameEvent, TypeOK
    <3> QED
      BY <2>3, <3>1 DEF Ledger!Supported, Ledger!HasOrder
  <2> QED
    BY <1>2, <2>1, <2>2, <2>3 DEF Recordable
<1> QED
  BY <1>1, <1>3, <1>4, <1>5, <1>7 DEF Ledger!Finalise, AbsRow, AbsOrders, AbsAnswers

\* Razorpay's processing of a POST is CreateOrder.
LEMMA RazorpayRefines ==
    ASSUME IInv, NEW r \in Requests, RazorpayCreates(r)
    PROVE  Ledger!CreateOrder(EventOf[r], r)
<1>1. r \in claims /\ r \notin upstream /\ EventOf[r] \in Events
  BY ConstantsAssumption DEF ConstantsAssumption, RazorpayCreates, IInv, TypeOK, Core,
     Ownership, OrderOrigin
<1>2. \A s \in upstream : EventOf[s] # EventOf[r]
  BY <1>1 DEF IInv, Core, TypeOK, Ownership, SameEvent
<1>3. \/ RowOf(r).status = "pending"
      \/ RowOf(r).status = "final" /\ RowOf(r).outcome.reason = "order_creation_failed"
  <2>1. RowOf(r).status \in {"pending", "final"}
    BY <1>1, RowType DEF IInv, Core, Ownership, Rows
  <2>2. RowOf(r).status = "final" => RowOf(r).outcome = decision[r] /\ Recordable(r)
    BY <1>1 DEF IInv, Core, FinalRows
  <2> QED
    BY <1>1, <2>1, <2>2 DEF RazorpayCreates, IInv, Core, OrderOrigin, Recordable
<1>4. AbsOrders' = AbsOrders \cup {<<EventOf[r], r>>}
  BY DEF AbsOrders, RazorpayCreates
<1>5. AbsRow' = AbsRow /\ AbsAnswers' = AbsAnswers
  BY DEF AbsRow, AbsAnswers, Answered, RazorpayCreates, storageVars
<1>6. AbsRow[EventOf[r]] = [status |-> RowOf(r).status, outcome |-> RowOf(r).outcome]
  BY <1>1 DEF AbsRow, RowOf
<1> QED
  BY <1>2, <1>3, <1>4, <1>5, <1>6
  DEF Ledger!CreateOrder, Ledger!HasOrder, AbsRow, AbsOrders, AbsAnswers

\* A 200, original or duplicate, is Answer.
LEMMA AnswerRefines ==
    ASSUME IInv, NEW r \in Requests, NEW duplicate, NEW row, pc[r] # "done",
           RowOf(r).status = "final", row.outcome = RowOf(r).outcome,
           Answer(r, 200, duplicate, row), UNCHANGED <<ledger, upstream>>
    PROVE  Ledger!Answer(EventOf[r])
<1>1. AbsRow[EventOf[r]] = [status |-> RowOf(r).status, outcome |-> RowOf(r).outcome]
  BY ConstantsAssumption DEF ConstantsAssumption, AbsRow, RowOf
<1>2. AbsAnswers' = AbsAnswers \cup {<<EventOf[r], AbsRow[EventOf[r]].outcome>>}
  BY <1>1, NewAnswer
<1>3. AbsRow' = AbsRow /\ AbsOrders' = AbsOrders
  BY DEF AbsRow, AbsOrders
<1> QED
  BY <1>1, <1>2, <1>3 DEF Ledger!Answer, AbsRow, AbsOrders, AbsAnswers

\* Everything else leaves rows, orders and answers as they are.
LEMMA Stutters ==
    ASSUME UNCHANGED <<ledger, upstream>>, AbsAnswers' = AbsAnswers
    PROVE  UNCHANGED Ledger!vars
  BY DEF Ledger!vars, AbsRow, AbsOrders, AbsAnswers

LEMMA RefinementStep ==
    ASSUME IInv, [Next]_vars
    PROVE  [Ledger!Next]_(Ledger!vars)
<1> DEFINE Refined == Ledger!Next \/ UNCHANGED Ledger!vars
<1> USE DEF storageVars, razorpayVars
<1>1. ASSUME UNCHANGED <<ledger, upstream, reply>> PROVE Refined
  BY <1>1, Stutters DEF AbsAnswers, Answered
<1>2. ASSUME NEW r \in Requests, pc[r] # "done", NEW code \in {409, 503},
             Refuse(r, code), UNCHANGED <<ledger, upstream>>
      PROVE  Refined
  BY <1>2, RefusalAnswers, Stutters
<1>3. \A r \in Requests : EventOf[r] \in Events
  BY ConstantsAssumption DEF ConstantsAssumption
<1>4. ASSUME NEW r \in Requests, Handle(r) PROVE Refined
  <2>1. CASE Claim(r)
    BY <1>3, <2>1, ClaimRefines DEF Claim, Ledger!Next
  <2>2. CASE ClaimConflict(r)
    BY <1>1, <2>2 DEF ClaimConflict
  <2>3. CASE ReadExisting(r)
    <3>1. CASE RowOf(r).status = "final"
      <4>1. /\ pc[r] # "done" /\ UNCHANGED <<ledger, upstream>>
            /\ Answer(r, 200, TRUE, RowOf(r))
        BY <2>3, <3>1 DEF ReadExisting
      <4> QED
        BY <1>3, <3>1, <4>1, AnswerRefines DEF Ledger!Next
    <3>2. CASE RowOf(r).status # "final"
      BY <1>2, <2>3, <3>2 DEF ReadExisting
    <3> QED
      BY <3>1, <3>2
  <2>4. CASE Score(r)
    BY <1>1, <2>4 DEF Score, FeatureFailure, ScoringFailure, Deny,
       AllowBudgetExhausted, AllowReserved, Decided
  <2>5. CASE OrderReturned(r) \/ OrderFails(r)
    BY <1>1, <2>5 DEF OrderReturned, OrderFails
  <2>6. CASE Finalise(r)
    BY <1>3, <2>6, FinaliseRefines DEF Finalise, Ledger!Next
  <2>7. CASE Respond(r)
    <3> DEFINE answered == [RowOf(r) EXCEPT !.outcome = decision[r]]
    <3>1. r \in claims /\ RowOf(r).status = "final" /\ RowOf(r).outcome = decision[r]
      BY <2>7 DEF Respond, IInv, Core, Stages, Stage, FinalRows
    <3>2. answered.outcome = RowOf(r).outcome
      BY <3>1, RowType DEF IInv, Rows
    <3>3. pc[r] # "done" /\ Answer(r, 200, FALSE, answered) /\ UNCHANGED <<ledger, upstream>>
      BY <2>7 DEF Respond
    <3>4. Ledger!Answer(EventOf[r])
      BY <3>1, <3>2, <3>3, AnswerRefines
    <3> QED
      BY <1>3, <3>4 DEF Ledger!Next
  <2> QED
    BY <1>4, <2>1, <2>2, <2>3, <2>4, <2>5, <2>6, <2>7 DEF Handle, OnDatabase, OnRazorpay
<1>5. ASSUME NEW r \in Requests, Trouble(r) PROVE Refined
  <2>1. CASE StorageError(r)
    BY <1>2, <2>1 DEF StorageError, Waiting
  <2>2. CASE Unwind(r)
    BY <1>2, <2>2 DEF Unwind, InFlight, Waiting
  <2>3. CASE LateCommit(r)
    <3>1. CASE r \in claims
      BY <1>3, <2>3, <3>1, FinaliseRefines DEF LateCommit, Ledger!Next
    <3>2. CASE r \notin claims
      BY <1>3, <2>3, <3>2, ClaimRefines DEF LateCommit, Ledger!Next
    <3> QED
      BY <3>1, <3>2
  <2> QED
    BY <1>5, <2>1, <2>2, <2>3 DEF Trouble
<1>6. ASSUME NEW r \in Requests, Environment(r) PROVE Refined
  <2>1. CASE Arrive(r)
    BY <1>1, <2>1 DEF Arrive
  <2>2. CASE RazorpayCreates(r)
    BY <1>3, <2>2, RazorpayRefines DEF Ledger!Next
  <2> QED
    BY <1>6, <2>1, <2>2 DEF Environment
<1>7. CASE Crash
  BY <1>1, <1>7 DEF Crash
<1>8. CASE UNCHANGED vars
  BY <1>1, <1>8 DEF vars
<1> QED
  BY <1>4, <1>5, <1>6, <1>7, <1>8 DEF Next

\* The service, with all its failures, implements the abstract decision ledger:
\* one claim, at most one order, one decision, and answers that repeat it.
THEOREM Refinement == Spec => ImplementsDecisionLedger
<1>1. Init => Ledger!Init
  BY RefinementInit
<1>2. IInv /\ [Next]_vars => [Ledger!Next]_(Ledger!vars)
  BY RefinementStep
<1> QED
  BY <1>1, <1>2, Invariant, PTL DEF Spec, ImplementsDecisionLedger, Ledger!Spec

=============================================================================
