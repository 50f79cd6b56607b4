--------------------------- MODULE WebhooksProofs ---------------------------
(***************************************************************************)
(* Proofs about the webhook intake, for any events, deliveries and number  *)
(* of restarts.                                                            *)
(***************************************************************************)
EXTENDS Webhooks, TLAPS

\* The first of the failed checks answers: without one, nothing failed.
LEMMA SomeFailureIsFirst ==
    ASSUME NEW failed \in SUBSET Defects, FirstFailure(failed) = {}
    PROVE  failed = {}
<1> USE DEF FirstFailure, Checks
<1>1. \A i \in 1..6 : Checks[i] \in failed => \E j \in 1..(i - 1) : Checks[j] \in failed
  OBVIOUS
<1>2. Checks[1] \notin failed
  BY <1>1
<1>3. Checks[2] \notin failed
  BY <1>1, <1>2
<1>4. Checks[3] \notin failed
  BY <1>1, <1>2, <1>3
<1>5. Checks[4] \notin failed
  BY <1>1, <1>2, <1>3, <1>4
<1>6. Checks[5] \notin failed
  BY <1>1, <1>2, <1>3, <1>4, <1>5
<1>7. Checks[6] \notin failed
  BY <1>1, <1>2, <1>3, <1>4, <1>5, <1>6
<1> QED
  BY <1>2, <1>3, <1>4, <1>5, <1>6, <1>7 DEF Defects

LEMMA ReplyType ==
    /\ \A c \in Defects : Refusal(CodeOf[c]) \in Replies
    /\ \A code \in {0, 400, 500, 503} : Refusal(code) \in Replies
    /\ \A b \in BOOLEAN : [code |-> 200, duplicate |-> b] \in Replies
    /\ \A c \in Defects : CodeOf[c] # 200
<1>1. \A c \in Defects : CodeOf[c] \in {400, 401, 413, 415}
  BY DEF CodeOf, Defects, Checks
<1> QED
  BY <1>1 DEF Refusal, Replies

\* What an arriving delivery changes.
LEMMA ReceiveEffect ==
    ASSUME IInv, NEW d \in Deliveries, Receive(d)
    PROVE  /\ pc[d] = "new"
           /\ UNCHANGED <<events, observations, tx, kind, troubled, restarts>>
           /\ \A e \in Deliveries \ {d} :
                pc'[e] = pc[e] /\ defects'[e] = defects[e] /\ reply'[e] = reply[e]
           /\ pc'[d] \in {"done", "inserting"}
           /\ pc'[d] = "inserting" => defects'[d] = {} /\ KindFor(d) # "invalid"
           /\ reply'[d].code # 200
           /\ pc' \in [Deliveries -> {"new", "inserting", "observing", "committing",
                                      "done", "lost"}]
           /\ defects' \in [Deliveries -> SUBSET Defects]
           /\ reply' \in [Deliveries -> Replies]
<1> USE DEF IInv, TypeOK, Stage
<1>1. PICK failed \in Failing :
        /\ pc[d] = "new"
        /\ defects' = [defects EXCEPT ![d] = failed]
        /\ \/ \E i \in FirstFailure(failed) : Answer(d, Refusal(CodeOf[Checks[i]]))
           \/ FirstFailure(failed) = {} /\ KindFor(d) = "invalid" /\ Answer(d, Refusal(400))
           \/ /\ FirstFailure(failed) = {} /\ KindFor(d) # "invalid"
              /\ Goto(d, "inserting") /\ UNCHANGED reply
        /\ UNCHANGED <<events, observations, tx, kind, troubled, restarts>>
  BY DEF Receive
<1>2. failed \in SUBSET Defects
  BY ConstantsAssumption DEF ConstantsAssumption
<1>3. CASE \E i \in FirstFailure(failed) : Answer(d, Refusal(CodeOf[Checks[i]]))
  <2>1. PICK i \in FirstFailure(failed) : Answer(d, Refusal(CodeOf[Checks[i]]))
    BY <1>3
  <2>2. Checks[i] \in Defects
    BY <1>2 DEF FirstFailure
  <2>3. Refusal(CodeOf[Checks[i]]) \in Replies /\ Refusal(CodeOf[Checks[i]]).code # 200
    BY <2>2, ReplyType DEF Refusal
  <2> QED
    BY <1>1, <1>2, <2>1, <2>3 DEF Answer, Goto
<1>4. CASE FirstFailure(failed) = {} /\ KindFor(d) = "invalid" /\ Answer(d, Refusal(400))
  <2>1. Refusal(400) \in Replies /\ Refusal(400).code # 200
    BY ReplyType DEF Refusal
  <2> QED
    BY <1>1, <1>2, <1>4, <2>1 DEF Answer, Goto
<1>5. CASE /\ FirstFailure(failed) = {} /\ KindFor(d) # "invalid"
           /\ Goto(d, "inserting") /\ UNCHANGED reply
  <2>1. failed = {}
    BY <1>2, <1>5, SomeFailureIsFirst
  <2> QED
    BY <1>1, <1>2, <1>5, <2>1 DEF Goto
<1> QED
  BY <1>1, <1>3, <1>4, <1>5

-----------------------------------------------------------------------------
\* Type correctness is preserved.
LEMMA TypeStep ==
    ASSUME IInv, [Next]_vars
    PROVE  TypeOK'
<1> USE ConstantsAssumption DEF ConstantsAssumption, IInv, TypeOK, Goto
<1>1. ASSUME NEW d \in Deliveries, Receive(d) PROVE TypeOK'
  BY <1>1, ReceiveEffect
<1>2. ASSUME NEW d \in Deliveries, InsertEvent(d) PROVE TypeOK'
  BY <1>2 DEF InsertEvent, Goto
<1>3. ASSUME NEW d \in Deliveries, Duplicate(d) PROVE TypeOK'
  BY <1>3, ReplyType DEF Duplicate, Goto, Answer
<1>4. ASSUME NEW d \in Deliveries, InsertObservation(d) PROVE TypeOK'
  BY <1>4, ReplyType DEF InsertObservation, Goto, Answer
<1>5. ASSUME NEW d \in Deliveries, AmountOutOfRange(d) PROVE TypeOK'
  BY <1>5, ReplyType DEF AmountOutOfRange, Goto, Answer
<1>6. ASSUME NEW d \in Deliveries, SendCommit(d) PROVE TypeOK'
  BY <1>6, ReplyType DEF SendCommit, Goto, Answer
<1>7. ASSUME NEW d \in Deliveries, Accept(d) PROVE TypeOK'
  BY <1>7, ReplyType DEF Accept, Goto, Answer
<1>8. ASSUME NEW d \in Deliveries, Commits(d) PROVE TypeOK'
  BY <1>8, ReplyType DEF Commits, Goto, Answer
<1>9. ASSUME NEW d \in Deliveries, RollsBack(d) PROVE TypeOK'
  BY <1>9, ReplyType DEF RollsBack, Goto, Answer
<1>10. ASSUME NEW d \in Deliveries, StorageError(d) PROVE TypeOK'
  BY <1>10, ReplyType DEF StorageError, Goto, Answer
<1>11. CASE Crash
  BY <1>11 DEF Crash, InFlight
<1>12. CASE UNCHANGED vars
  BY <1>12 DEF vars, InFlight
<1> QED
  BY <1>1, <1>2, <1>3, <1>4, <1>5, <1>6, <1>7, <1>8, <1>9, <1>10, <1>11, <1>12 DEF Next, Handle, Server

\* Stages are preserved: a COMMIT is sent only for a storable event.
LEMMA StageStep ==
    ASSUME IInv, [Next]_vars
    PROVE  \A e \in Deliveries : Stage(e)'
<1> USE ConstantsAssumption DEF ConstantsAssumption, IInv, TypeOK, Stage, KindFor
<1>1. ASSUME NEW d \in Deliveries, Receive(d) PROVE \A e \in Deliveries : Stage(e)'
  BY <1>1, ReceiveEffect DEF InFlight
<1>2. ASSUME NEW d \in Deliveries, InsertEvent(d) PROVE \A e \in Deliveries : Stage(e)'
  BY <1>2 DEF InsertEvent, Goto, Answer, Refusal, InFlight
<1>3. ASSUME NEW d \in Deliveries, Duplicate(d) PROVE \A e \in Deliveries : Stage(e)'
  BY <1>3 DEF Duplicate, Goto, Answer, Refusal, InFlight
<1>4. ASSUME NEW d \in Deliveries, InsertObservation(d) PROVE \A e \in Deliveries : Stage(e)'
  BY <1>4 DEF InsertObservation, Goto, Answer, Refusal, InFlight
<1>5. ASSUME NEW d \in Deliveries, AmountOutOfRange(d) PROVE \A e \in Deliveries : Stage(e)'
  BY <1>5 DEF AmountOutOfRange, Goto, Answer, Refusal, InFlight
<1>6. ASSUME NEW d \in Deliveries, SendCommit(d) PROVE \A e \in Deliveries : Stage(e)'
  BY <1>6 DEF SendCommit, Goto, Answer, Refusal, InFlight
<1>7. ASSUME NEW d \in Deliveries, Accept(d) PROVE \A e \in Deliveries : Stage(e)'
  BY <1>7 DEF Accept, Goto, Answer, Refusal, InFlight
<1>8. ASSUME NEW d \in Deliveries, Commits(d) PROVE \A e \in Deliveries : Stage(e)'
  BY <1>8 DEF Commits, Goto, Answer, Refusal, InFlight, KeyHeld, SameEvent, Locked
<1>9. ASSUME NEW d \in Deliveries, RollsBack(d) PROVE \A e \in Deliveries : Stage(e)'
  BY <1>9 DEF RollsBack, Goto, Answer, Refusal, InFlight
<1>10. ASSUME NEW d \in Deliveries, StorageError(d) PROVE \A e \in Deliveries : Stage(e)'
  BY <1>10 DEF StorageError, Goto, Answer, Refusal, InFlight
<1>11. CASE Crash
  BY <1>11 DEF Crash, InFlight
<1>12. CASE UNCHANGED vars
  BY <1>12 DEF vars, InFlight
<1> QED
  BY <1>1, <1>2, <1>3, <1>4, <1>5, <1>6, <1>7, <1>8, <1>9, <1>10, <1>11, <1>12 DEF Next, Handle, Server

\* The insert waits for the key, so one transaction holds it at a time.
LEMMA KeyStep ==
    ASSUME IInv, [Next]_vars
    PROVE  KeyHeld'
<1> USE ConstantsAssumption DEF ConstantsAssumption, IInv, TypeOK, KeyHeld, SameEvent
<1>1. ASSUME NEW d \in Deliveries, Receive(d) PROVE KeyHeld'
  BY <1>1, ReceiveEffect
<1>2. ASSUME NEW d \in Deliveries, InsertEvent(d) PROVE KeyHeld'
  BY <1>2 DEF InsertEvent, Locked, Stored, SameEvent
<1>3. ASSUME NEW d \in Deliveries, Duplicate(d) PROVE KeyHeld'
  BY <1>3 DEF Duplicate, Locked, Stored, SameEvent
<1>4. ASSUME NEW d \in Deliveries, InsertObservation(d) PROVE KeyHeld'
  BY <1>4 DEF InsertObservation, Locked, Stored, SameEvent
<1>5. ASSUME NEW d \in Deliveries, AmountOutOfRange(d) PROVE KeyHeld'
  BY <1>5 DEF AmountOutOfRange, Locked, Stored, SameEvent
<1>6. ASSUME NEW d \in Deliveries, SendCommit(d) PROVE KeyHeld'
  BY <1>6 DEF SendCommit, Locked, Stored, SameEvent
<1>7. ASSUME NEW d \in Deliveries, Accept(d) PROVE KeyHeld'
  BY <1>7 DEF Accept, Locked, Stored, SameEvent
<1>8. ASSUME NEW d \in Deliveries, Commits(d) PROVE KeyHeld'
  BY <1>8 DEF Commits, Locked, Stored, SameEvent
<1>9. ASSUME NEW d \in Deliveries, RollsBack(d) PROVE KeyHeld'
  BY <1>9 DEF RollsBack, Locked, Stored, SameEvent
<1>10. ASSUME NEW d \in Deliveries, StorageError(d) PROVE KeyHeld'
  BY <1>10 DEF StorageError, Locked, Stored, SameEvent
<1>11. CASE Crash
  BY <1>11 DEF Crash, InFlight
<1>12. CASE UNCHANGED vars
  BY <1>12 DEF vars, InFlight
<1> QED
  BY <1>1, <1>2, <1>3, <1>4, <1>5, <1>6, <1>7, <1>8, <1>9, <1>10, <1>11, <1>12 DEF Next, Handle, Server

\* The rows agree: a transaction is committed as a whole and for a free key.
LEMMA RowsStep ==
    ASSUME IInv, [Next]_vars
    PROVE  EventStoredOnce' /\ ObservationsMatchEvents'
<1> USE ConstantsAssumption DEF ConstantsAssumption, IInv, TypeOK, EventStoredOnce, ObservationsMatchEvents, KindFor
<1>1. ASSUME NEW d \in Deliveries, Receive(d) PROVE EventStoredOnce' /\ ObservationsMatchEvents'
  BY <1>1, ReceiveEffect
<1>2. ASSUME NEW d \in Deliveries, InsertEvent(d) PROVE EventStoredOnce' /\ ObservationsMatchEvents'
  BY <1>2 DEF InsertEvent
<1>3. ASSUME NEW d \in Deliveries, Duplicate(d) PROVE EventStoredOnce' /\ ObservationsMatchEvents'
  BY <1>3 DEF Duplicate
<1>4. ASSUME NEW d \in Deliveries, InsertObservation(d) PROVE EventStoredOnce' /\ ObservationsMatchEvents'
  BY <1>4 DEF InsertObservation
<1>5. ASSUME NEW d \in Deliveries, AmountOutOfRange(d) PROVE EventStoredOnce' /\ ObservationsMatchEvents'
  BY <1>5 DEF AmountOutOfRange
<1>6. ASSUME NEW d \in Deliveries, SendCommit(d) PROVE EventStoredOnce' /\ ObservationsMatchEvents'
  BY <1>6 DEF SendCommit
<1>7. ASSUME NEW d \in Deliveries, Accept(d) PROVE EventStoredOnce' /\ ObservationsMatchEvents'
  BY <1>7 DEF Accept
<1>8. ASSUME NEW d \in Deliveries, Commits(d) PROVE EventStoredOnce' /\ ObservationsMatchEvents'
  BY <1>8 DEF Commits, KeyHeld, SameEvent, Stage
<1>9. ASSUME NEW d \in Deliveries, RollsBack(d) PROVE EventStoredOnce' /\ ObservationsMatchEvents'
  BY <1>9 DEF RollsBack
<1>10. ASSUME NEW d \in Deliveries, StorageError(d) PROVE EventStoredOnce' /\ ObservationsMatchEvents'
  BY <1>10 DEF StorageError
<1>11. CASE Crash
  BY <1>11 DEF Crash, InFlight
<1>12. CASE UNCHANGED vars
  BY <1>12 DEF vars, InFlight
<1> QED
  BY <1>1, <1>2, <1>3, <1>4, <1>5, <1>6, <1>7, <1>8, <1>9, <1>10, <1>11, <1>12 DEF Next, Handle, Server

\* Answers stay true: rows are only added, and 200 is sent for a stored event.
LEMMA AnswersStep ==
    ASSUME IInv, [Next]_vars
    PROVE  AcceptedIsStored' /\ StoredIsAuthentic' /\ (\A e \in events : pc[e] # "new")'
<1> USE ConstantsAssumption DEF ConstantsAssumption, IInv, TypeOK, AcceptedIsStored, StoredIsAuthentic, Stored, KindFor
<1>1. ASSUME NEW d \in Deliveries, Receive(d) PROVE AcceptedIsStored' /\ StoredIsAuthentic' /\ (\A e \in events : pc[e] # "new")'
  BY <1>1, ReceiveEffect DEF SameEvent
<1>2. ASSUME NEW d \in Deliveries, InsertEvent(d) PROVE AcceptedIsStored' /\ StoredIsAuthentic' /\ (\A e \in events : pc[e] # "new")'
  BY <1>2 DEF InsertEvent, Goto, Answer, Refusal, Stage, InFlight, SameEvent
<1>3. ASSUME NEW d \in Deliveries, Duplicate(d) PROVE AcceptedIsStored' /\ StoredIsAuthentic' /\ (\A e \in events : pc[e] # "new")'
  BY <1>3 DEF Duplicate, Goto, Answer, Refusal, Stage, InFlight, SameEvent
<1>4. ASSUME NEW d \in Deliveries, InsertObservation(d) PROVE AcceptedIsStored' /\ StoredIsAuthentic' /\ (\A e \in events : pc[e] # "new")'
  BY <1>4 DEF InsertObservation, Goto, Answer, Refusal, Stage, InFlight, SameEvent
<1>5. ASSUME NEW d \in Deliveries, AmountOutOfRange(d) PROVE AcceptedIsStored' /\ StoredIsAuthentic' /\ (\A e \in events : pc[e] # "new")'
  BY <1>5 DEF AmountOutOfRange, Goto, Answer, Refusal, Stage, InFlight, SameEvent
<1>6. ASSUME NEW d \in Deliveries, SendCommit(d) PROVE AcceptedIsStored' /\ StoredIsAuthentic' /\ (\A e \in events : pc[e] # "new")'
  BY <1>6 DEF SendCommit, Goto, Answer, Refusal, Stage, InFlight, SameEvent
<1>7. ASSUME NEW d \in Deliveries, Accept(d) PROVE AcceptedIsStored' /\ StoredIsAuthentic' /\ (\A e \in events : pc[e] # "new")'
  BY <1>7 DEF Accept, Goto, Answer, Refusal, Stage, InFlight, SameEvent
<1>8. ASSUME NEW d \in Deliveries, Commits(d) PROVE AcceptedIsStored' /\ StoredIsAuthentic' /\ (\A e \in events : pc[e] # "new")'
  BY <1>8 DEF Commits, Goto, Answer, Refusal, Stage, InFlight, SameEvent
<1>9. ASSUME NEW d \in Deliveries, RollsBack(d) PROVE AcceptedIsStored' /\ StoredIsAuthentic' /\ (\A e \in events : pc[e] # "new")'
  BY <1>9 DEF RollsBack, Goto, Answer, Refusal, Stage, InFlight, SameEvent
<1>10. ASSUME NEW d \in Deliveries, StorageError(d) PROVE AcceptedIsStored' /\ StoredIsAuthentic' /\ (\A e \in events : pc[e] # "new")'
  BY <1>10 DEF StorageError, Goto, Answer, Refusal, Stage, InFlight, SameEvent
<1>11. CASE Crash
  BY <1>11 DEF Crash, InFlight
<1>12. CASE UNCHANGED vars
  BY <1>12 DEF vars, InFlight
<1> QED
  BY <1>1, <1>2, <1>3, <1>4, <1>5, <1>6, <1>7, <1>8, <1>9, <1>10, <1>11, <1>12 DEF Next, Handle, Server

-----------------------------------------------------------------------------
LEMMA InitInv == Init => IInv
  BY ConstantsAssumption, ReplyType
  DEF ConstantsAssumption, Init, IInv, TypeOK, KeyHeld, Stage, InFlight, EventStoredOnce,
      ObservationsMatchEvents, AcceptedIsStored, StoredIsAuthentic, Refusal

\* The inductive invariant of the intake.
THEOREM Invariant == Spec => []IInv
<1>1. IInv /\ [Next]_vars => IInv'
  BY TypeStep, StageStep, KeyStep, RowsStep, AnswersStep DEF IInv
<1> QED
  BY <1>1, InitInv, PTL DEF Spec

\* Type correctness of the intake.
THEOREM TypeCorrect == Spec => []TypeOK
<1>1. IInv => TypeOK
  BY DEF IInv
<1> QED
  BY <1>1, Invariant, PTL

\* A provider event is stored at most once, however it is delivered.
THEOREM StoredOnce == Spec => []EventStoredOnce
<1>1. IInv => EventStoredOnce
  BY DEF IInv
<1> QED
  BY <1>1, Invariant, PTL

\* Events and observations are never separated.
THEOREM RowsAgree == Spec => []ObservationsMatchEvents
<1>1. IInv => ObservationsMatchEvents
  BY DEF IInv
<1> QED
  BY <1>1, Invariant, PTL

\* An accepted delivery's event is stored, by this delivery or an earlier one.
THEOREM AcceptedStored == Spec => []AcceptedIsStored
<1>1. IInv => AcceptedIsStored
  BY DEF IInv
<1> QED
  BY <1>1, Invariant, PTL

\* Only checked deliveries of storable events leave a row.
THEOREM Authentic == Spec => []StoredIsAuthentic
<1>1. IInv => StoredIsAuthentic
  BY DEF IInv
<1> QED
  BY <1>1, Invariant, PTL

\* No step removes a row of the audit trail.
THEOREM AppendOnly == Spec => RowsAreAppendOnly
<1>1. [Next]_vars => events \subseteq events' /\ observations \subseteq observations'
  BY DEF Next, Handle, Server, vars, Receive, InsertEvent, Duplicate, InsertObservation,
         AmountOutOfRange, SendCommit, Accept, Commits, RollsBack, StorageError, Crash
<1> QED
  BY <1>1, PTL DEF Spec, RowsAreAppendOnly

=============================================================================
