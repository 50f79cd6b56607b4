------------------------- MODULE ExplanationsProofs -------------------------
(***************************************************************************)
(* Proofs about the explanation routes, for any decisions, requests,       *)
(* attempt cap, budget and number of restarts.                             *)
(***************************************************************************)
EXTENDS ExplanationsInvariant, FiniteSetTheorems, TLAPS

\* A set of attempt numbers with no gap is an initial segment, so counting the
\* attempts of a decision gives the last number used.
LEMMA NoGap ==
    ASSUME NEW S \in SUBSET Numbers,
           \A n \in S : \A m \in Numbers : m < n => m \in S
    PROVE  /\ Cardinality(S) \in Nat
           /\ S = 1..Cardinality(S)
<1> USE ConstantsAssumption DEF ConstantsAssumption, Numbers
<1>1. IsFiniteSet(Numbers) /\ Cardinality(Numbers) \in Nat
  BY FS_Interval, FS_CardinalityType
<1>2. IsFiniteSet(S) /\ Cardinality(S) \in Nat
  BY <1>1, FS_Subset, FS_CardinalityType
<1>3. ASSUME NEW n \in S PROVE n <= Cardinality(S)
  <2>1. 1..n \subseteq S /\ n \in Nat /\ n >= 1
    BY <1>3
  <2>2. Cardinality(1..n) <= Cardinality(S)
    BY <1>2, <2>1, FS_Subset
  <2>3. Cardinality(1..n) = n
    BY <2>1, FS_Interval
  <2> QED
    BY <2>2, <2>3
<1>4. S \subseteq 1..Cardinality(S)
  BY <1>2, <1>3
<1>5. IsFiniteSet(1..Cardinality(S)) /\ Cardinality(1..Cardinality(S)) = Cardinality(S)
  BY <1>2, FS_Interval
<1>6. S = 1..Cardinality(S)
  BY <1>4, <1>5, FS_Subset
<1> QED
  BY <1>2, <1>6

\* What ReadAttempts concludes from the attempts it counted.
LEMMA NextNumber ==
    ASSUME TypeOK, AttemptChain, NEW d \in Decisions,
           StatusesOf(d) \subseteq Unsuccessful,
           Cardinality(Existing(d)) < MaxAttempts
    PROVE  /\ Cardinality(Existing(d)) + 1 \in Numbers
           /\ \A n \in Numbers : n < Cardinality(Existing(d)) + 1 =>
                attempts[<<d, n>>] \in Unsuccessful
<1>1. \A n \in Existing(d) : \A m \in Numbers : m < n => m \in Existing(d)
  BY DEF Existing, AttemptChain, Unsuccessful
<1>2. Existing(d) \in SUBSET Numbers
  BY DEF Existing
<1>3. Cardinality(Existing(d)) \in Nat /\ Existing(d) = 1..Cardinality(Existing(d))
  BY <1>1, <1>2, NoGap
<1>4. Cardinality(Existing(d)) + 1 \in Numbers
  BY <1>3, ConstantsAssumption DEF ConstantsAssumption, Numbers
<1>5. ASSUME NEW n \in Numbers, n < Cardinality(Existing(d)) + 1
      PROVE  attempts[<<d, n>>] \in Unsuccessful
  <2>1. n \in Existing(d)
    BY <1>3, <1>5, ConstantsAssumption DEF ConstantsAssumption, Numbers
  <2> QED
    BY <2>1 DEF StatusesOf
<1> QED
  BY <1>4, <1>5

\* A view shows the status of an attempt that exists.
LEMMA ViewType ==
    ASSUME TypeOK, NEW d \in Decisions, Existing(d) # {}, AttemptChain
    PROVE  ViewStatus(d) \in Statuses
<1>1. \A n \in Existing(d) : \A m \in Numbers : m < n => m \in Existing(d)
  BY DEF Existing, AttemptChain, Unsuccessful
<1>2. Existing(d) \in SUBSET Numbers
  BY DEF Existing
<1>3. Cardinality(Existing(d)) \in Nat /\ Existing(d) = 1..Cardinality(Existing(d))
  BY <1>1, <1>2, NoGap
<1>4. \E n \in Existing(d) : \A m \in Existing(d) : m <= n
  <2>1. Cardinality(Existing(d)) \in Existing(d)
    BY <1>3
  <2> QED
    BY <1>3, <2>1
<1> DEFINE n == CHOOSE n \in Existing(d) : \A m \in Existing(d) : m <= n
<1>5. n \in Existing(d)
  BY <1>4
<1>6. attempts[<<d, n>>] \in Statuses
  BY <1>2, <1>5 DEF TypeOK, Keys
<1> QED
  BY <1>6 DEF ViewStatus, Statuses


LEMMA KeyType ==
    /\ \A d \in Decisions, n \in Numbers : <<d, n>> \in Keys
    /\ \A r \in Requests : number[r] \in Numbers => Key(r) \in Keys
  BY ConstantsAssumption DEF ConstantsAssumption, Keys, Key

\* The effect of a write to the attempt of one request.
Wrote(r, status) ==
    /\ attempts'[Key(r)] = status
    /\ \A k \in Keys \ {Key(r)} : attempts'[k] = attempts[k]

-----------------------------------------------------------------------------
(* Type correctness.  A view needs the chain: its last attempt exists.      *)

LEMMA RefusalType ==
    \A code \in Codes : Refusal(code) \in Replies
  BY DEF Refusal, Replies, Statuses

LEMMA AnswerViewType ==
    ASSUME TypeOK, AttemptChain, NEW r \in Requests, Existing(DecisionOf[r]) # {},
           AnswerView(r)
    PROVE  reply' \in [Requests -> Replies] /\ pc' = [pc EXCEPT ![r] = "done"]
<1> DEFINE status == ViewStatus(DecisionOf[r])
           code == IF status \in Unsuccessful THEN 202 ELSE 201
<1>1. status \in Statuses /\ code \in Codes
  BY ViewType, ConstantsAssumption DEF ConstantsAssumption, Codes
<1>2. [code |-> code, status |-> status] \in Replies
  BY <1>1 DEF Replies
<1>3. reply' = [reply EXCEPT ![r] = [code |-> code, status |-> status]]
  BY DEF AnswerView
<1> HIDE DEF code, status
<1> QED
  BY <1>2, <1>3 DEF TypeOK, AnswerView, Goto

LEMMA TypeInit == Init => TypeOK
  BY ConstantsAssumption, RefusalType
  DEF Init, TypeOK, ConstantsAssumption, Verdicts, Statuses, Codes

LEMMA TypeStep ==
    ASSUME IInv, [Next]_vars
    PROVE  TypeOK'
<1> USE ConstantsAssumption DEF ConstantsAssumption, TypeOK, IInv
<1> USE DEF ledgerVars, memoryVars, handlerVars, historyVars, Goto, Waiting
<1>1. ASSUME NEW r \in Requests, Arrive(r) PROVE TypeOK'
  BY <1>1 DEF Arrive
<1>2. ASSUME NEW r \in Requests, Look(r) PROVE TypeOK'
  <2>1. CASE Existing(DecisionOf[r]) = {}
    BY <1>2, <2>1, RefusalType DEF Look, Refuse, Codes
  <2>2. CASE Existing(DecisionOf[r]) # {}
    <3>1. [code |-> 200, status |-> ViewStatus(DecisionOf[r])] \in Replies
      BY <2>2, ViewType DEF Replies, Codes, Core
    <3> QED
      BY <1>2, <2>2, <3>1 DEF Look
  <2> QED
    BY <2>1, <2>2
<1>3. ASSUME NEW r \in Requests, ReadDecision(r) PROVE TypeOK'
  BY <1>3, RefusalType DEF ReadDecision, Refuse, Codes
<1>4. ASSUME NEW r \in Requests, ReadAttempts(r) PROVE TypeOK'
  <2>1. CASE "ready" \in StatusesOf(DecisionOf[r]) /\ AnswerView(r) /\ UNCHANGED number
    <3>1. Existing(DecisionOf[r]) # {}
      BY <2>1 DEF StatusesOf
    <3> QED
      BY <1>4, <2>1, <3>1, AnswerViewType DEF ReadAttempts, Core
  <2>2. CASE \E code \in {409, 503} : Refuse(r, code) /\ UNCHANGED number
    BY <1>4, <2>2, RefusalType DEF ReadAttempts, Refuse, Codes
  <2>3. CASE /\ StatusesOf(DecisionOf[r]) \subseteq Unsuccessful
             /\ Cardinality(Existing(DecisionOf[r])) < MaxAttempts
             /\ number' = [number EXCEPT ![r] = Cardinality(Existing(DecisionOf[r])) + 1]
             /\ Goto(r, "context") /\ UNCHANGED reply
    <3>1. Cardinality(Existing(DecisionOf[r])) + 1 \in 0..MaxAttempts
      BY <2>3, NextNumber DEF Numbers, Core
    <3> QED
      BY <1>4, <2>3, <3>1 DEF ReadAttempts
  <2> QED
    BY <1>4, <2>1, <2>2, <2>3 DEF ReadAttempts
<1>5. ASSUME NEW r \in Requests, ReadContext(r) PROVE TypeOK'
  <2>1. {e \in Decisions \ {DecisionOf[r]} : EntityOf[e] = EntityOf[DecisionOf[r]]
             /\ ledger[e] = "deny"} \in SUBSET Decisions
    OBVIOUS
  <2> QED
    BY <1>5, <2>1 DEF ReadContext
<1>6. ASSUME NEW r \in Requests, Claim(r) PROVE TypeOK'
  BY <1>6 DEF Claim, InsertClaim, Statuses
<1>7. ASSUME NEW r \in Requests, ClaimConflict(r) PROVE TypeOK'
  BY <1>7, RefusalType DEF ClaimConflict, Refuse, Codes
<1>8. ASSUME NEW r \in Requests, StartCall(r) PROVE TypeOK'
  <2>1. r \in claimed
    BY <1>8 DEF StartCall, Core, Stages, Stage
  <2> QED
    BY <1>8, <2>1 DEF StartCall, Take
<1>9. ASSUME NEW r \in Requests, BudgetExhausted(r) PROVE TypeOK'
  BY <1>9 DEF BudgetExhausted, Statuses, Unsuccessful
<1>10. ASSUME NEW r \in Requests, CallReturns(r) PROVE TypeOK'
  BY <1>10 DEF CallReturns, Statuses, Unsuccessful
<1>11. ASSUME NEW r \in Requests, Finalise(r) PROVE TypeOK'
  <2>1. attempts' \in [Keys -> Statuses]
    BY <1>11 DEF Finalise, WriteOutcome
  <2>2. reply' \in [Requests -> Replies] /\ pc' \in [Requests -> Waiting \cup {"new", "done", "lost"}]
    BY <1>11, RefusalType DEF Finalise, Refuse, Codes
  <2> QED
    BY <1>11, <2>1, <2>2 DEF Finalise
<1>12. ASSUME NEW r \in Requests, View(r) PROVE TypeOK'
  <2>1. Existing(DecisionOf[r]) # {}
    BY <1>12 DEF View, Core, Stages, Stage, Existing, Ownership, Key
  <2> QED
    BY <1>12, <2>1, AnswerViewType DEF View, Core
<1>13. ASSUME NEW r \in Requests, UnhandledError(r) PROVE TypeOK'
  BY <1>13, RefusalType DEF UnhandledError, Refuse, Codes
<1>14. ASSUME NEW r \in Requests, LateCommit(r) PROVE TypeOK'
  BY <1>14 DEF LateCommit, WriteOutcome, InsertClaim, Statuses
<1>15. ASSUME NEW d \in Decisions, Record(d) PROVE TypeOK'
  BY <1>15 DEF Record, Verdicts
<1>16. ASSUME NEW d \in Decisions, Settle(d) PROVE TypeOK'
  <2>1. {e \in Decisions : ledger[e] \in {"deny", "other"}} \in SUBSET Decisions
    OBVIOUS
  <2> QED
    BY <1>16, <2>1 DEF Settle, Verdicts
<1>17. CASE Crash
  BY <1>17 DEF Crash, InFlight
<1>18. CASE UNCHANGED vars
  BY <1>18 DEF vars
<1> QED
  BY <1>1, <1>2, <1>3, <1>4, <1>5, <1>6, <1>7, <1>8, <1>9, <1>10, <1>11, <1>12,
     <1>13, <1>14, <1>15, <1>16, <1>17, <1>18 DEF Next, Handle

-----------------------------------------------------------------------------
(* The inductive invariant.  One lemma per action: the conjuncts the action *)
(* can disturb have a step each, the others share one.                      *)

LEMMA RecordPreserves ==
    ASSUME IInv, TypeOK', NEW d \in Decisions, Record(d)
    PROVE  Core'
<1> USE ConstantsAssumption DEF ConstantsAssumption, IInv, Core, TypeOK, Key,
       ledgerVars, memoryVars, handlerVars, historyVars, Record
<1>1. Stages'
  BY DEF Stages, Stage, MayClaim, Dangling, Ownership, Terminal, Unsuccessful
<1>2. Dangling'
  BY DEF Dangling, MayClaim, Stages, Stage, Ownership, Terminal, Unsuccessful
<1>3. PendingHasOwner'
  BY DEF PendingHasOwner, Owned, InFlight, Waiting, Stages, Stage, Dangling,
     Ownership, Terminal, Unsuccessful
<1>4. OnlyDeniesExplained'
  BY DEF OnlyDeniesExplained, Stages, Stage, MayClaim, Dangling, Ownership
<1>5. Ownership'
  BY DEF Ownership
<1>6. AttemptChain'
  BY DEF AttemptChain
<1>7. attempted' = Cardinality(called' \ inherited')
  OBVIOUS
<1> QED
  BY <1>1, <1>2, <1>3, <1>4, <1>5, <1>6, <1>7

LEMMA SettlePreserves ==
    ASSUME IInv, TypeOK', NEW d \in Decisions, Settle(d)
    PROVE  Core'
<1> USE ConstantsAssumption DEF ConstantsAssumption, IInv, Core, TypeOK, Key,
       ledgerVars, memoryVars, handlerVars, historyVars, Settle
<1>1. Stages'
  BY DEF Stages, Stage, MayClaim, Dangling, Ownership, Terminal, Unsuccessful
<1>2. Dangling'
  BY DEF Dangling, MayClaim, Stages, Stage, Ownership, Terminal, Unsuccessful
<1>3. PendingHasOwner'
  BY DEF PendingHasOwner, Owned, InFlight, Waiting, Stages, Stage, Dangling,
     Ownership, Terminal, Unsuccessful
<1>4. OnlyDeniesExplained'
  BY DEF OnlyDeniesExplained, Stages, Stage, MayClaim, Dangling, Ownership
<1>5. Ownership'
  BY DEF Ownership
<1>6. AttemptChain'
  BY DEF AttemptChain
<1>7. attempted' = Cardinality(called' \ inherited')
  OBVIOUS
<1> QED
  BY <1>1, <1>2, <1>3, <1>4, <1>5, <1>6, <1>7

LEMMA ArrivePreserves ==
    ASSUME IInv, TypeOK', NEW r \in Requests, Arrive(r)
    PROVE  Core'
<1> USE ConstantsAssumption DEF ConstantsAssumption, IInv, Core, TypeOK, Key,
       ledgerVars, memoryVars, handlerVars, historyVars, Arrive, Goto
<1>1. Stages'
  BY DEF Stages, Stage, MayClaim, Dangling, Ownership, Terminal, Unsuccessful
<1>2. Dangling'
  BY DEF Dangling, MayClaim, Stages, Stage, Ownership, Terminal, Unsuccessful
<1>3. PendingHasOwner'
  BY DEF PendingHasOwner, Owned, InFlight, Waiting, Stages, Stage, Dangling,
     Ownership, Terminal, Unsuccessful
<1>4. Ownership'
  BY DEF Ownership
<1>5. AttemptChain'
  BY DEF AttemptChain
<1>6. OnlyDeniesExplained'
  BY DEF OnlyDeniesExplained
<1>7. attempted' = Cardinality(called' \ inherited')
  OBVIOUS
<1> QED
  BY <1>1, <1>2, <1>3, <1>4, <1>5, <1>6, <1>7

LEMMA LookPreserves ==
    ASSUME IInv, TypeOK', NEW r \in Requests, Look(r)
    PROVE  Core'
<1> USE ConstantsAssumption DEF ConstantsAssumption, IInv, Core, TypeOK, Key,
       ledgerVars, memoryVars, handlerVars, historyVars, Look, Goto, Refuse,
       Refusal
<1>1. Stages'
  BY DEF Stages, Stage, MayClaim, Dangling, Ownership, Terminal, Unsuccessful
<1>2. Dangling'
  BY DEF Dangling, MayClaim, Stages, Stage, Ownership, Terminal, Unsuccessful
<1>3. PendingHasOwner'
  <2> SUFFICES ASSUME NEW k \in Keys, attempts'[k] = "pending"
               PROVE  Owned(k)'
    BY DEF PendingHasOwner
  <2>1. attempts[k] = "pending" /\ r \notin claimed
    BY DEF Stages, Stage
  <2>2. PICK s \in claimed :
         /\ Key(s) = k
         /\ InFlight(s) \/ pc[s] = "lost" \/ reply[s].code = 500
    BY <2>1 DEF PendingHasOwner, Owned
  <2>3. s # r /\ s \in Requests
    BY <2>1, <2>2
  <2> QED
    BY <2>2, <2>3 DEF Owned, InFlight
<1>4. Ownership'
  BY DEF Ownership
<1>5. AttemptChain'
  BY DEF AttemptChain
<1>6. OnlyDeniesExplained'
  BY DEF OnlyDeniesExplained
<1>7. attempted' = Cardinality(called' \ inherited')
  OBVIOUS
<1> QED
  BY <1>1, <1>2, <1>3, <1>4, <1>5, <1>6, <1>7

LEMMA ReadDecisionPreserves ==
    ASSUME IInv, TypeOK', NEW r \in Requests, ReadDecision(r)
    PROVE  Core'
<1> USE ConstantsAssumption DEF ConstantsAssumption, IInv, Core, TypeOK, Key,
       ledgerVars, memoryVars, handlerVars, historyVars, ReadDecision, Goto,
       Refuse, Refusal
<1>1. Stages'
  BY DEF Stages, Stage, MayClaim, Dangling, Ownership, Terminal, Unsuccessful
<1>2. Dangling'
  BY DEF Dangling, MayClaim, Stages, Stage, Ownership, Terminal, Unsuccessful
<1>3. PendingHasOwner'
  <2> SUFFICES ASSUME NEW k \in Keys, attempts'[k] = "pending"
               PROVE  Owned(k)'
    BY DEF PendingHasOwner
  <2>1. attempts[k] = "pending" /\ r \notin claimed
    BY DEF Stages, Stage
  <2>2. PICK s \in claimed :
         /\ Key(s) = k
         /\ InFlight(s) \/ pc[s] = "lost" \/ reply[s].code = 500
    BY <2>1 DEF PendingHasOwner, Owned
  <2>3. s # r /\ s \in Requests
    BY <2>1, <2>2
  <2> QED
    BY <2>2, <2>3 DEF Owned, InFlight
<1>4. Ownership'
  BY DEF Ownership
<1>5. AttemptChain'
  BY DEF AttemptChain
<1>6. OnlyDeniesExplained'
  BY DEF OnlyDeniesExplained
<1>7. attempted' = Cardinality(called' \ inherited')
  OBVIOUS
<1> QED
  BY <1>1, <1>2, <1>3, <1>4, <1>5, <1>6, <1>7

LEMMA ReadAttemptsPreserves ==
    ASSUME IInv, TypeOK', NEW r \in Requests, ReadAttempts(r)
    PROVE  Core'
<1> USE ConstantsAssumption DEF ConstantsAssumption, IInv, Core, TypeOK, Key,
       ledgerVars, memoryVars, handlerVars, historyVars, Goto, Refuse, Refusal,
       AnswerView
<1>1. CASE UNCHANGED number /\ pc' = [pc EXCEPT ![r] = "done"]
  <2>1. pc[r] = "attempts" /\ pc' = [pc EXCEPT ![r] = "done"]
    BY <1>1 DEF ReadAttempts
  <2> USE <1>1, <2>1 DEF ReadAttempts
  <2>2. Stages'
    BY DEF Stages, Stage, MayClaim
  <2>3. Dangling'
    BY DEF Dangling, MayClaim, Stages, Stage
  <2>4. PendingHasOwner'
    <3> SUFFICES ASSUME NEW k \in Keys, attempts'[k] = "pending"
                 PROVE  Owned(k)'
      BY DEF PendingHasOwner
    <3>1. attempts[k] = "pending" /\ r \notin claimed
      BY DEF Stages, Stage
    <3>2. PICK s \in claimed :
           /\ Key(s) = k
           /\ InFlight(s) \/ pc[s] = "lost" \/ reply[s].code = 500
      BY <3>1 DEF PendingHasOwner, Owned
    <3>3. s # r /\ s \in Requests
      BY <3>1, <3>2
    <3> QED
      BY <3>2, <3>3 DEF Owned, InFlight
  <2>5. Ownership'
    BY DEF Ownership
  <2>6. AttemptChain' /\ OnlyDeniesExplained'
    BY DEF AttemptChain, OnlyDeniesExplained
  <2>7. attempted' = Cardinality(called' \ inherited')
    OBVIOUS
  <2> QED
    BY <2>2, <2>3, <2>4, <2>5, <2>6, <2>7
<1>2. CASE number' = [number EXCEPT ![r] = Cardinality(Existing(DecisionOf[r])) + 1]
           /\ StatusesOf(DecisionOf[r]) \subseteq Unsuccessful
           /\ Cardinality(Existing(DecisionOf[r])) < MaxAttempts
           /\ pc' = [pc EXCEPT ![r] = "context"] /\ UNCHANGED reply
  <2> DEFINE free == Cardinality(Existing(DecisionOf[r])) + 1
  <2>1. /\ free \in Numbers
        /\ \A n \in Numbers : n < free => attempts[<<DecisionOf[r], n>>] \in Unsuccessful
    BY <1>2, NextNumber
  <2> HIDE DEF free
  <2>2. /\ number' = [number EXCEPT ![r] = free]
        /\ pc[r] = "attempts" /\ pc' = [pc EXCEPT ![r] = "context"]
        /\ UNCHANGED <<ledgerVars, attempts, dangling, memoryVars, facts, outcome,
                       historyVars, reply>>
    BY <1>2 DEF ReadAttempts, free
  <2>3. MayClaim(r)'
    BY ZenonT(40), <2>1, <2>2 DEF MayClaim, Stages, Stage
  <2>4. Stages'
    BY <2>2, <2>3 DEF Stages, Stage, MayClaim
  <2>5. Dangling'
    <3>1. r \notin dangling /\ \A q \in dangling : number'[q] = number[q]
      BY <2>2 DEF Stages, Stage
    <3> QED
      BY <2>2, <3>1 DEF Dangling, MayClaim
  <2>6. Ownership'
    <3>1. r \notin claimed /\ \A q \in claimed : number'[q] = number[q]
      BY <2>2 DEF Stages, Stage
    <3> QED
      BY <2>2, <3>1 DEF Ownership
  <2>7. PendingHasOwner'
    <3> USE <2>2
    <3> SUFFICES ASSUME NEW k \in Keys, attempts'[k] = "pending"
                 PROVE  Owned(k)'
      BY DEF PendingHasOwner
    <3>1. attempts[k] = "pending" /\ r \notin claimed
      BY DEF Stages, Stage
    <3>2. PICK s \in claimed :
           /\ Key(s) = k
           /\ InFlight(s) \/ pc[s] = "lost" \/ reply[s].code = 500
      BY <3>1 DEF PendingHasOwner, Owned
    <3>3. s # r /\ s \in Requests
      BY <3>1, <3>2
    <3> QED
      BY <3>2, <3>3 DEF Owned, InFlight
  <2>8. AttemptChain' /\ OnlyDeniesExplained'
    BY <2>2 DEF AttemptChain, OnlyDeniesExplained
  <2>9. attempted' = Cardinality(called' \ inherited')
    BY <2>2
  <2> QED
    BY <2>4, <2>5, <2>6, <2>7, <2>8, <2>9
<1> QED
  BY <1>1, <1>2 DEF ReadAttempts

LEMMA ReadContextPreserves ==
    ASSUME IInv, TypeOK', NEW r \in Requests, ReadContext(r)
    PROVE  Core'
<1> USE ConstantsAssumption DEF ConstantsAssumption, IInv, Core, TypeOK, Key,
       ledgerVars, memoryVars, handlerVars, historyVars, ReadContext, Goto
<1>1. Stages'
  BY DEF Stages, Stage, MayClaim, Dangling, Ownership, Terminal, Unsuccessful
<1>2. Dangling'
  BY DEF Dangling, MayClaim, Stages, Stage, Ownership, Terminal, Unsuccessful
<1>3. PendingHasOwner'
  BY DEF PendingHasOwner, Owned, InFlight, Waiting, Stages, Stage, Dangling,
     Ownership, Terminal, Unsuccessful
<1>4. Ownership'
  BY DEF Ownership
<1>5. AttemptChain'
  BY DEF AttemptChain
<1>6. OnlyDeniesExplained'
  BY DEF OnlyDeniesExplained
<1>7. attempted' = Cardinality(called' \ inherited')
  OBVIOUS
<1> QED
  BY <1>1, <1>2, <1>3, <1>4, <1>5, <1>6, <1>7

LEMMA ClaimPreserves ==
    ASSUME IInv, TypeOK', NEW r \in Requests, Claim(r)
    PROVE  Core'
<1> USE ConstantsAssumption DEF ConstantsAssumption, IInv, Core, TypeOK, Key,
       ledgerVars, memoryVars, handlerVars, historyVars, Claim, InsertClaim,
       Goto
<1>e. Wrote(r, "pending") /\ Key(r) \in Keys
  BY KeyType DEF Wrote, Stages, Stage, MayClaim, Ownership
<1>1. Stages'
  BY KeyType, <1>e DEF Wrote, Stages, Stage, MayClaim, Dangling, Ownership,
     Terminal, Unsuccessful
<1>2. Dangling'
  BY SMTT(30), KeyType, <1>e DEF Wrote, Dangling, MayClaim, Stages, Stage, Ownership,
     Terminal, Unsuccessful
<1>3. Ownership'
  <2>1. \A s \in claimed : Key(s) \in Keys /\ Key(s) # Key(r) /\ number[s] \in Numbers
    BY KeyType, <1>e DEF Ownership
  <2>2. number[r] \in Numbers /\ claimed' = claimed \cup {r} /\ number' = number
    BY DEF Stages, Stage, MayClaim
  <2> HIDE DEF Claim
  <2> QED
    BY <1>e, <2>1, <2>2 DEF Wrote, Ownership
<1>4. AttemptChain'
  BY KeyType, <1>e DEF Wrote, AttemptChain, Stages, Stage, MayClaim, Dangling,
     Unsuccessful
<1>5. PendingHasOwner'
  BY KeyType, <1>e DEF Wrote, PendingHasOwner, Owned, InFlight, Waiting,
     Stages, Stage, Dangling, Ownership, Terminal, Unsuccessful
<1>6. OnlyDeniesExplained'
  BY KeyType, <1>e DEF Wrote, OnlyDeniesExplained, Stages, Stage, MayClaim,
     Dangling, Ownership
<1>7. attempted' = Cardinality(called' \ inherited')
  OBVIOUS
<1> QED
  BY <1>1, <1>2, <1>3, <1>4, <1>5, <1>6, <1>7

LEMMA ClaimConflictPreserves ==
    ASSUME IInv, TypeOK', NEW r \in Requests, ClaimConflict(r)
    PROVE  Core'
<1> USE ConstantsAssumption DEF ConstantsAssumption, IInv, Core, TypeOK, Key,
       ledgerVars, memoryVars, handlerVars, historyVars, ClaimConflict, Goto,
       Refuse, Refusal
<1>1. Stages'
  BY DEF Stages, Stage, MayClaim, Dangling, Ownership, Terminal, Unsuccessful
<1>2. Dangling'
  BY DEF Dangling, MayClaim, Stages, Stage, Ownership, Terminal, Unsuccessful
<1>3. PendingHasOwner'
  <2> SUFFICES ASSUME NEW k \in Keys, attempts'[k] = "pending"
               PROVE  Owned(k)'
    BY DEF PendingHasOwner
  <2>1. attempts[k] = "pending" /\ r \notin claimed
    BY DEF Stages, Stage
  <2>2. PICK s \in claimed :
         /\ Key(s) = k
         /\ InFlight(s) \/ pc[s] = "lost" \/ reply[s].code = 500
    BY <2>1 DEF PendingHasOwner, Owned
  <2>3. s # r /\ s \in Requests
    BY <2>1, <2>2
  <2> QED
    BY <2>2, <2>3 DEF Owned, InFlight
<1>4. Ownership'
  BY DEF Ownership
<1>5. AttemptChain'
  BY DEF AttemptChain
<1>6. OnlyDeniesExplained'
  BY DEF OnlyDeniesExplained
<1>7. attempted' = Cardinality(called' \ inherited')
  OBVIOUS
<1> QED
  BY <1>1, <1>2, <1>3, <1>4, <1>5, <1>6, <1>7

LEMMA StartCallPreserves ==
    ASSUME IInv, TypeOK', NEW r \in Requests, StartCall(r)
    PROVE  Core'
<1> USE ConstantsAssumption DEF ConstantsAssumption, IInv, Core, TypeOK, Key,
       ledgerVars, memoryVars, handlerVars, historyVars, StartCall, Take, Goto
<1>1. Stages'
  BY DEF Stages, Stage, MayClaim
<1>2. Dangling'
  BY DEF Dangling, MayClaim, Stages, Stage
<1>3. PendingHasOwner'
  BY DEF PendingHasOwner, Owned, InFlight, Waiting, Stages, Stage
<1>4. Ownership' /\ AttemptChain'
  BY DEF Ownership, AttemptChain
<1>6. OnlyDeniesExplained'
  BY DEF OnlyDeniesExplained
<1>5. attempted' = Cardinality(called' \ inherited')
  <2> DEFINE mine == called \ inherited
  <2>1. IsFiniteSet(mine)
    <3>1. mine \in SUBSET Requests
      OBVIOUS
    <3> QED
      BY <3>1, RequestsFinite, FS_Subset
  <2>2. r \notin called /\ inherited' = inherited /\ called' = called \cup {r}
    BY DEF Stages, Stage
  <2>4. r \notin inherited
    BY <2>2
  <2>5. r \notin mine /\ called' \ inherited' = mine \cup {r}
    BY <2>2, <2>4
  <2>3. Cardinality(mine \cup {r}) = Cardinality(mine) + 1
    BY <2>1, <2>5, FS_AddElement
  <2> QED
    BY <2>3, <2>5
<1> QED
  BY <1>1, <1>2, <1>3, <1>4, <1>5, <1>6

LEMMA BudgetExhaustedPreserves ==
    ASSUME IInv, TypeOK', NEW r \in Requests, BudgetExhausted(r)
    PROVE  Core'
<1> USE ConstantsAssumption DEF ConstantsAssumption, IInv, Core, TypeOK, Key,
       ledgerVars, memoryVars, handlerVars, historyVars, BudgetExhausted, Goto
<1>1. Stages'
  BY DEF Stages, Stage, MayClaim, Dangling, Ownership, Terminal, Unsuccessful
<1>2. Dangling'
  BY DEF Dangling, MayClaim, Stages, Stage, Ownership, Terminal, Unsuccessful
<1>3. PendingHasOwner'
  BY DEF PendingHasOwner, Owned, InFlight, Waiting, Stages, Stage, Dangling,
     Ownership, Terminal, Unsuccessful
<1>4. Ownership'
  BY DEF Ownership
<1>5. AttemptChain'
  BY DEF AttemptChain
<1>6. OnlyDeniesExplained'
  BY DEF OnlyDeniesExplained
<1>7. attempted' = Cardinality(called' \ inherited')
  OBVIOUS
<1> QED
  BY <1>1, <1>2, <1>3, <1>4, <1>5, <1>6, <1>7

LEMMA CallReturnsPreserves ==
    ASSUME IInv, TypeOK', NEW r \in Requests, CallReturns(r)
    PROVE  Core'
<1> USE ConstantsAssumption DEF ConstantsAssumption, IInv, Core, TypeOK, Key,
       ledgerVars, memoryVars, handlerVars, historyVars, CallReturns, Goto
<1>1. Stages'
  BY DEF Stages, Stage, MayClaim, Dangling, Ownership, Terminal, Unsuccessful
<1>2. Dangling'
  BY DEF Dangling, MayClaim, Stages, Stage, Ownership, Terminal, Unsuccessful
<1>3. PendingHasOwner'
  BY DEF PendingHasOwner, Owned, InFlight, Waiting, Stages, Stage, Dangling,
     Ownership, Terminal, Unsuccessful
<1>4. Ownership'
  BY DEF Ownership
<1>5. AttemptChain'
  BY DEF AttemptChain
<1>6. OnlyDeniesExplained'
  BY DEF OnlyDeniesExplained
<1>7. attempted' = Cardinality(called' \ inherited')
  OBVIOUS
<1> QED
  BY <1>1, <1>2, <1>3, <1>4, <1>5, <1>6, <1>7

LEMMA FinalisePreserves ==
    ASSUME IInv, TypeOK', NEW r \in Requests, Finalise(r)
    PROVE  Core'
<1> USE ConstantsAssumption DEF ConstantsAssumption, IInv, Core, TypeOK, Key,
       ledgerVars, memoryVars, handlerVars, historyVars, Finalise,
       WriteOutcome, Goto, Refuse, Refusal
<1>e. Wrote(r, outcome[r]) /\ Key(r) \in Keys
  BY KeyType DEF Wrote, Stages, Stage, MayClaim, Ownership
<1>1. Stages'
  BY KeyType, <1>e DEF Wrote, Stages, Stage, MayClaim, Dangling, Ownership,
     Terminal, Unsuccessful
<1>2. Dangling'
  BY KeyType, <1>e DEF Wrote, Dangling, MayClaim, Stages, Stage, Ownership,
     Terminal, Unsuccessful
<1>3. Ownership'
  <2>1. \A s \in claimed : Key(s) \in Keys /\ number[s] \in Numbers
    BY KeyType DEF Ownership
  <2>2. outcome[r] # "none" /\ claimed' = claimed /\ number' = number
    BY DEF Stages, Stage, Terminal, Unsuccessful
  <2> HIDE DEF Finalise
  <2> QED
    BY <1>e, <2>1, <2>2 DEF Wrote, Ownership
<1>4. AttemptChain'
  BY KeyType, <1>e DEF Wrote, AttemptChain, Stages, Stage, MayClaim, Dangling,
     Unsuccessful
<1>5. PendingHasOwner'
  <2> SUFFICES ASSUME NEW k \in Keys, attempts'[k] = "pending"
               PROVE  Owned(k)'
    BY DEF PendingHasOwner
  <2>1. attempts[k] = "pending" /\ k # Key(r)
    BY <1>e DEF Wrote, Stages, Stage, Terminal, Unsuccessful
  <2>2. PICK s \in claimed :
         /\ Key(s) = k
         /\ InFlight(s) \/ pc[s] = "lost" \/ reply[s].code = 500
    BY <2>1 DEF PendingHasOwner, Owned
  <2>3. s # r /\ s \in Requests
    BY <2>1, <2>2
  <2> QED
    BY <2>2, <2>3 DEF Owned, InFlight
<1>6. OnlyDeniesExplained'
  BY KeyType, <1>e DEF Wrote, OnlyDeniesExplained, Stages, Stage, MayClaim,
     Dangling, Ownership
<1>7. attempted' = Cardinality(called' \ inherited')
  OBVIOUS
<1> QED
  BY <1>1, <1>2, <1>3, <1>4, <1>5, <1>6, <1>7

LEMMA ViewPreserves ==
    ASSUME IInv, TypeOK', NEW r \in Requests, View(r)
    PROVE  Core'
<1> USE ConstantsAssumption DEF ConstantsAssumption, IInv, Core, TypeOK, Key,
       ledgerVars, memoryVars, handlerVars, historyVars, View, AnswerView,
       Goto
<1>1. Stages'
  BY DEF Stages, Stage, MayClaim, Dangling, Ownership, Terminal, Unsuccessful
<1>2. Dangling'
  BY DEF Dangling, MayClaim, Stages, Stage, Ownership, Terminal, Unsuccessful
<1>3. PendingHasOwner'
  <2> SUFFICES ASSUME NEW k \in Keys, attempts'[k] = "pending"
               PROVE  Owned(k)'
    BY DEF PendingHasOwner
  <2>1. attempts[k] = "pending" /\ k # Key(r)
    BY DEF Stages, Stage, Terminal, Unsuccessful
  <2>2. PICK s \in claimed :
         /\ Key(s) = k
         /\ InFlight(s) \/ pc[s] = "lost" \/ reply[s].code = 500
    BY <2>1 DEF PendingHasOwner, Owned
  <2>3. s # r /\ s \in Requests
    BY <2>1, <2>2
  <2> QED
    BY <2>2, <2>3 DEF Owned, InFlight
<1>4. Ownership'
  BY DEF Ownership
<1>5. AttemptChain'
  BY DEF AttemptChain
<1>6. OnlyDeniesExplained'
  BY DEF OnlyDeniesExplained
<1>7. attempted' = Cardinality(called' \ inherited')
  OBVIOUS
<1> QED
  BY <1>1, <1>2, <1>3, <1>4, <1>5, <1>6, <1>7

LEMMA UnhandledErrorPreserves ==
    ASSUME IInv, TypeOK', NEW r \in Requests, UnhandledError(r)
    PROVE  Core'
<1> USE ConstantsAssumption DEF ConstantsAssumption, IInv, Core, TypeOK, Key,
       ledgerVars, memoryVars, handlerVars, historyVars, UnhandledError,
       InFlight, Refuse, Refusal, Writing, Waiting, Goto
<1>1. Stages'
  BY DEF Stages, Stage, MayClaim, Dangling, Ownership, Terminal, Unsuccessful
<1>2. Dangling'
  BY DEF Dangling, MayClaim, Stages, Stage, Ownership, Terminal, Unsuccessful
<1>3. PendingHasOwner'
  BY DEF PendingHasOwner, Owned, InFlight, Waiting, Stages, Stage, Dangling,
     Ownership, Terminal, Unsuccessful
<1>4. Ownership'
  BY DEF Ownership
<1>5. AttemptChain'
  BY DEF AttemptChain
<1>6. OnlyDeniesExplained'
  BY DEF OnlyDeniesExplained
<1>7. attempted' = Cardinality(called' \ inherited')
  OBVIOUS
<1> QED
  BY <1>1, <1>2, <1>3, <1>4, <1>5, <1>6, <1>7

LEMMA LateCommitPreserves ==
    ASSUME IInv, TypeOK', NEW r \in Requests, LateCommit(r)
    PROVE  Core'
<1> USE ConstantsAssumption DEF ConstantsAssumption, IInv, Core, TypeOK, Key,
       ledgerVars, memoryVars, handlerVars
<1>1. CASE r \in claimed /\ WriteOutcome(r) /\ UNCHANGED claimed
  <2>0. Key(r) \in Keys
    BY <1>1, KeyType DEF Ownership
  <2>1. /\ Wrote(r, outcome[r]) /\ Key(r) \in Keys
        /\ outcome[r] \in Terminal /\ attempts[Key(r)] = "pending"
    <3>1. Wrote(r, outcome[r])
      BY <1>1, <2>0 DEF Wrote, WriteOutcome
    <3>2. outcome[r] \in Terminal /\ attempts[Key(r)] = "pending"
      BY SMTT(30), <1>1 DEF LateCommit, Dangling
    <3> QED
      BY <2>0, <3>1, <3>2
  <2> USE <1>1, KeyType, <2>1 DEF LateCommit
  <2>2. Stages'
    BY DEF Wrote, Stages, Stage, MayClaim, Dangling, Ownership, Terminal, Unsuccessful
  <2>3. Dangling'
    BY DEF Wrote, Dangling, MayClaim, Ownership, Terminal, Unsuccessful
  <2>4. Ownership'
    BY DEF Wrote, Ownership, Terminal, Unsuccessful
  <2>5. AttemptChain'
    BY DEF Wrote, AttemptChain, Unsuccessful
  <2>6. PendingHasOwner'
    <3> SUFFICES ASSUME NEW k \in Keys, attempts'[k] = "pending"
                 PROVE  Owned(k)'
      BY DEF PendingHasOwner
    <3>1. attempts[k] = "pending"
      BY DEF Wrote, Terminal, Unsuccessful
    <3> QED
      BY <3>1 DEF PendingHasOwner, Owned, InFlight
  <2>7. OnlyDeniesExplained'
    BY DEF Wrote, OnlyDeniesExplained
  <2>8. attempted' = Cardinality(called' \ inherited')
    OBVIOUS
  <2> QED
    BY <2>2, <2>3, <2>4, <2>5, <2>6, <2>7, <2>8
<1>2. CASE r \notin claimed /\ InsertClaim(r)
  <2>1. /\ Wrote(r, "pending") /\ Key(r) \in Keys
        /\ MayClaim(r) /\ attempts[Key(r)] = "none"
    BY <1>2, KeyType DEF Wrote, InsertClaim, LateCommit, Dangling, MayClaim
  <2>2. claimed' = claimed \cup {r} /\ r \in Requests
    BY <1>2 DEF InsertClaim
  <2> USE <1>2, KeyType, <2>1, <2>2 DEF LateCommit
  <2>3. Stages'
    BY DEF Wrote, Stages, Stage, MayClaim, Dangling, Ownership, Terminal, Unsuccessful
  <2>4. Dangling'
    BY DEF Wrote, Dangling, MayClaim, Ownership, Terminal, Unsuccessful
  <2>5. Ownership'
    BY DEF Wrote, Ownership, MayClaim
  <2>6. AttemptChain'
    BY DEF Wrote, AttemptChain, MayClaim, Unsuccessful
  <2>7. PendingHasOwner'
    <3> SUFFICES ASSUME NEW k \in Keys, attempts'[k] = "pending"
                 PROVE  Owned(k)'
      BY DEF PendingHasOwner
    <3>1. CASE k = Key(r)
      BY <3>1 DEF Owned, Dangling
    <3>2. CASE k # Key(r)
      <4>1. attempts[k] = "pending"
        BY <3>2 DEF Wrote
      <4> QED
        BY <4>1 DEF PendingHasOwner, Owned, InFlight
    <3> QED
      BY <3>1, <3>2
  <2>8. OnlyDeniesExplained'
    BY DEF Wrote, OnlyDeniesExplained, MayClaim
  <2>9. attempted' = Cardinality(called' \ inherited')
    OBVIOUS
  <2> QED
    BY <2>3, <2>4, <2>5, <2>6, <2>7, <2>8, <2>9
<1> QED
  BY <1>1, <1>2 DEF LateCommit

LEMMA CrashPreserves ==
    ASSUME IInv, TypeOK', Crash
    PROVE  Core'
<1> USE DEF IInv, Core, TypeOK, Crash, Key, ledgerVars, handlerVars
<1>1. Stages'
  <2>1. \A r \in Requests : pc'[r] \notin Waiting
    BY DEF InFlight, Waiting
  <2>2. \A r \in Requests : pc'[r] = "new" => pc[r] = "new"
    BY DEF InFlight, Waiting
  <2>3. \A r \in Requests : pc'[r] = "new" => r \notin claimed /\ r \notin dangling'
    BY <2>2 DEF Stages, Stage, Writing
  <2>4. claimed' = claimed
    OBVIOUS
  <2> HIDE DEF Crash
  <2> QED
    BY <2>1, <2>3, <2>4 DEF Stages, Stage, Waiting
<1>2. Dangling'
  BY DEF Dangling, MayClaim, InFlight, Waiting, Writing, Stages, Stage
<1>3. PendingHasOwner'
  BY DEF PendingHasOwner, Owned, InFlight, Waiting
<1>4. Ownership' /\ AttemptChain'
  BY DEF Ownership, AttemptChain
<1>6. OnlyDeniesExplained'
  BY DEF OnlyDeniesExplained
<1>5. attempted' = Cardinality(called' \ inherited')
  <2>1. called' \ inherited' = {}
    OBVIOUS
  <2> QED
    BY <2>1, FS_EmptySet
<1> QED
  BY <1>1, <1>2, <1>3, <1>4, <1>5, <1>6

LEMMA InitInvariant == Init => IInv
<1> SUFFICES ASSUME Init PROVE IInv
  OBVIOUS
<1>1. TypeOK
  BY TypeInit
<1>2. Stages /\ Dangling /\ Ownership /\ AttemptChain /\ PendingHasOwner
  BY ConstantsAssumption DEF ConstantsAssumption, Init, Stages, Stage, Dangling,
     Ownership, AttemptChain, PendingHasOwner, Keys
<1>3. OnlyDeniesExplained
  BY DEF Init, OnlyDeniesExplained, Keys
<1>4. attempted = Cardinality(called \ inherited)
  <2>1. called \ inherited = {} /\ attempted = 0
    BY DEF Init
  <2> QED
    BY <2>1, FS_EmptySet
<1> QED
  BY <1>1, <1>2, <1>3, <1>4 DEF IInv, Core

LEMMA StepInvariant == IInv /\ [Next]_vars => IInv'
<1> SUFFICES ASSUME IInv, [Next]_vars PROVE IInv'
  OBVIOUS
<1>1. TypeOK'
  BY TypeStep
<1>2. CASE Next
  BY <1>1, <1>2, RecordPreserves, SettlePreserves, ArrivePreserves, LookPreserves,
     ReadDecisionPreserves, ReadAttemptsPreserves, ReadContextPreserves,
     ClaimPreserves, ClaimConflictPreserves, StartCallPreserves,
     BudgetExhaustedPreserves, CallReturnsPreserves, FinalisePreserves,
     ViewPreserves, UnhandledErrorPreserves, LateCommitPreserves, CrashPreserves
  DEF IInv, Next, Handle
<1>3. CASE UNCHANGED vars
  BY <1>1, <1>3 DEF vars, IInv, Core, Stages, Stage, MayClaim, Dangling, Ownership,
     AttemptChain, PendingHasOwner, Owned, InFlight, OnlyDeniesExplained, Key
<1> QED
  BY <1>2, <1>3

\* The inductive invariant holds for any number of decisions and requests.
THEOREM Invariant == Spec => []IInv
<1> QED
  BY InitInvariant, StepInvariant, PTL DEF Spec

-----------------------------------------------------------------------------
(* What follows from it.                                                   *)

\* Every variable stays in its type: no view is taken of a missing attempt, no
\* attempt number passes the cap and no unit the budget.
THEOREM TypeCorrect == Spec => []TypeOK
<1>1. IInv => TypeOK
  BY DEF IInv
<1> QED
  BY <1>1, Invariant, PTL

\* Two handlers that await Gemini for one decision would own two pending attempts
\* of a chain.
THEOREM OneCall == Spec => []OneCallAtATime
<1>1. ASSUME IInv PROVE OneCallAtATime
  <2> SUFFICES ASSUME NEW r \in Requests, NEW s \in Requests, pc[r] = "calling",
                      pc[s] = "calling", DecisionOf[r] = DecisionOf[s]
               PROVE  r = s
    BY DEF OneCallAtATime
  <2>1. /\ r \in claimed /\ s \in claimed
        /\ attempts[Key(r)] = "pending" /\ attempts[Key(s)] = "pending"
    BY <1>1 DEF IInv, Core, Stages, Stage
  <2>2. number[r] \in Numbers /\ number[s] \in Numbers /\ DecisionOf[r] \in Decisions
    BY <1>1, <2>1, ConstantsAssumption DEF ConstantsAssumption, IInv, Core, Ownership
  <2>3. number[r] = number[s]
    BY <1>1, <2>1, <2>2, ConstantsAssumption
    DEF ConstantsAssumption, IInv, Core, AttemptChain, Key, Unsuccessful, Numbers
  <2> QED
    BY <1>1, <2>1, <2>3 DEF IInv, Core, Ownership, Key
<1> QED
  BY <1>1, Invariant, PTL

\* The requests that called for one decision own different attempt numbers.
THEOREM CallsBounded == Spec => []CallsPerDecision
<1>1. ASSUME IInv PROVE CallsPerDecision
  <2> SUFFICES ASSUME NEW d \in Decisions
               PROVE  Cardinality({r \in called : DecisionOf[r] = d}) <= MaxAttempts
    BY DEF CallsPerDecision
  <2> DEFINE Q == {r \in called : DecisionOf[r] = d}
             f == [r \in Q |-> number[r]]
  <2>1. \A r \in Q : r \in claimed /\ number[r] \in Numbers
    BY <1>1 DEF IInv, Core, Ownership, TypeOK
  <2>2. f \in [Q -> Numbers]
    BY <2>1
  <2>3. \A r, s \in Q : f[r] = f[s] => r = s
    BY <1>1, <2>1 DEF IInv, Core, Ownership, Key
  <2>4. f \in Injection(Q, Numbers)
    BY <2>2, <2>3 DEF Injection, IsInjective
  <2>5. IsFiniteSet(Numbers) /\ Cardinality(Numbers) = MaxAttempts
    BY FS_Interval, ConstantsAssumption DEF ConstantsAssumption, Numbers
  <2> QED
    BY <2>4, <2>5, FS_Injection
<1> QED
  BY <1>1, Invariant, PTL

\* The process budget is exactly what this process has spent on calls.
THEOREM BudgetCounts == Spec => []BudgetCountsCalls
<1>1. IInv => BudgetCountsCalls
  BY ConstantsAssumption DEF ConstantsAssumption, IInv, TypeOK, Core, BudgetCountsCalls
<1> QED
  BY <1>1, Invariant, PTL

\* At most the last attempt of a decision is pending or ready.
THEOREM Chain == Spec => []AttemptChain
<1>1. IInv => AttemptChain
  BY DEF IInv, Core
<1> QED
  BY <1>1, Invariant, PTL

\* A regular answer never leaves a pending attempt behind.
THEOREM PendingOwned == Spec => []PendingHasOwner
<1>1. IInv => PendingHasOwner
  BY DEF IInv, Core
<1> QED
  BY <1>1, Invariant, PTL

\* Only denied decisions ever get an attempt.
THEOREM DeniesOnly == Spec => []OnlyDeniesExplained
<1>1. IInv => OnlyDeniesExplained
  BY DEF IInv, Core
<1> QED
  BY <1>1, Invariant, PTL

\* A request about to call owns a pending attempt, so nothing of its decision
\* can be ready.
THEOREM NoCallOnceReady == Spec => NoCallAfterReady
<1>1. ASSUME IInv, [Next]_vars
      PROVE  \A r \in called' \ called : "ready" \notin StatusesOf(DecisionOf[r])
  <2> SUFFICES ASSUME NEW r \in called' \ called
               PROVE  "ready" \notin StatusesOf(DecisionOf[r])
    OBVIOUS
  <2>1. r \in Requests /\ StartCall(r)
    BY <1>1 DEF Next, Handle, vars, ledgerVars, memoryVars, handlerVars, historyVars,
       Record, Settle, Arrive, Look, ReadDecision, ReadAttempts, ReadContext, Claim,
       ClaimConflict, StartCall, BudgetExhausted, CallReturns, Finalise, View,
       UnhandledError, LateCommit, Crash
  <2>2. r \in claimed /\ attempts[Key(r)] = "pending" /\ number[r] \in Numbers
    BY <1>1, <2>1 DEF StartCall, IInv, Core, Stages, Stage, Ownership
  <2>3. DecisionOf[r] \in Decisions
    BY <2>1, ConstantsAssumption DEF ConstantsAssumption
  <2>4. ASSUME NEW n \in Numbers, attempts[<<DecisionOf[r], n>>] = "ready" PROVE FALSE
    <3>1. n \in Int /\ number[r] \in Int
      BY <2>2, <2>4 DEF Numbers
    <3>2. CASE n < number[r]
      BY <1>1, <2>2, <2>3, <2>4, <3>2 DEF IInv, Core, AttemptChain, Key, Unsuccessful
    <3>3. CASE n > number[r]
      BY <1>1, <2>2, <2>3, <2>4, <3>3 DEF IInv, Core, AttemptChain, Key, Unsuccessful
    <3>4. CASE n = number[r]
      BY <2>2, <2>4, <3>4 DEF Key
    <3> QED
      BY <3>1, <3>2, <3>3, <3>4
  <2> QED
    BY <2>4 DEF StatusesOf, Existing
<1> QED
  BY <1>1, Invariant, PTL DEF Spec, NoCallAfterReady

=============================================================================
