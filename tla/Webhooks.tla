------------------------------ MODULE Webhooks ------------------------------
(***************************************************************************)
(* Razorpay webhook intake: the route of api/routes/webhooks.py and the    *)
(* transaction of services/webhook_ingestion.py, with the provider that    *)
(* delivers an event at least once and PostgreSQL around them.             *)
(*                                                                         *)
(* The server's side of a transaction is a variable of its own, because it *)
(* outlives the handler: a COMMIT may be processed after the handler was   *)
(* told that the statement failed, and a row that is inserted but not      *)
(* committed blocks the other inserts of its key.                          *)
(***************************************************************************)
EXTENDS Naturals, Sequences

CONSTANTS
    Events,         \* X-Razorpay-Event-Id
    Deliveries,     \* HTTP requests, redeliveries included
    EventOf,        \* the event id each delivery carries
    Failing,        \* the sets of checks that a delivery may fail together
    MaxRestarts     \* bound on process crashes

\* A supported payment event, another event, a supported event whose payment
\* entity does not validate, and one whose amount needs more than 32 bits.
Kinds == {"payment", "other", "invalid", "wide"}

\* The checks of the route, in its order.
Checks == <<"content_type", "size", "missing_signature", "signature",
            "event_id", "envelope">>

Defects == {Checks[i] : i \in DOMAIN Checks}

ASSUME ConstantsAssumption ==
    /\ EventOf \in [Deliveries -> Events]
    /\ Failing \subseteq SUBSET Defects
    /\ MaxRestarts \in Nat

VARIABLES
    \* PostgreSQL
    events,         \* deliveries whose webhook_events row is committed
    observations,   \* deliveries whose payment_observations row is committed
    tx,             \* the transaction of each delivery, as the server sees it
    \* the process
    pc,             \* where each delivery's handler is suspended
    \* the provider
    kind,           \* the body Razorpay sends with each event id
    defects,        \* checks of the route that each delivery fails
    reply,          \* the HTTP response to each delivery
    \* history
    troubled,       \* deliveries whose storage really failed
    restarts

vars == <<events, observations, tx, pc, kind, defects, reply, troubled, restarts>>

-----------------------------------------------------------------------------
(* What a failed check is answered.                                        *)

CodeOf == [c \in Defects |->
    CASE c = "content_type" -> 415
      [] c = "size" -> 413
      [] c \in {"missing_signature", "signature"} -> 401
      [] c \in {"event_id", "envelope"} -> 400]

Replies == [code : {0, 200, 400, 401, 413, 415, 500, 503}, duplicate : BOOLEAN]
Refusal(code) == [code |-> code, duplicate |-> FALSE]

KindFor(d) == kind[EventOf[d]]
SameEvent(d, e) == EventOf[d] = EventOf[e]

InFlight(d) == pc[d] \in {"inserting", "observing", "committing"}

\* An uncommitted row of the same key, or a committed one.
Locked(d) == \E e \in Deliveries : e # d /\ SameEvent(d, e) /\ tx[e] # "none"
Stored(d) == \E e \in events : SameEvent(d, e)

Init ==
    /\ events = {} /\ observations = {}
    /\ tx = [d \in Deliveries |-> "none"]
    /\ pc = [d \in Deliveries |-> "new"]
    /\ kind \in [Events -> Kinds]
    /\ defects = [d \in Deliveries |-> {}]
    /\ reply = [d \in Deliveries |-> Refusal(0)]
    /\ troubled = {} /\ restarts = 0

Goto(d, where) == pc' = [pc EXCEPT ![d] = where]

Answer(d, response) ==
    /\ Goto(d, "done")
    /\ reply' = [reply EXCEPT ![d] = response]

-----------------------------------------------------------------------------
(* The route.                                                              *)

\* The first check that fails, if one does.
FirstFailure(failed) ==
    {i \in DOMAIN Checks : /\ Checks[i] \in failed
                           /\ \A j \in 1..(i - 1) : Checks[j] \notin failed}

\* A delivery arrives and is checked; _payment_from_envelope runs before the
\* transaction begins.
Receive(d) == \E failed \in Failing :
    /\ pc[d] = "new"
    /\ defects' = [defects EXCEPT ![d] = failed]
    /\ \/ \E i \in FirstFailure(failed) : Answer(d, Refusal(CodeOf[Checks[i]]))
       \/ /\ FirstFailure(failed) = {} /\ KindFor(d) = "invalid"
          /\ Answer(d, Refusal(400))
       \/ /\ FirstFailure(failed) = {} /\ KindFor(d) # "invalid"
          /\ Goto(d, "inserting") /\ UNCHANGED reply
    /\ UNCHANGED <<events, observations, tx, kind, troubled, restarts>>

-----------------------------------------------------------------------------
(* The transaction.                                                        *)

\* Mutant: provider_event_id is looked up but not unique.
InsertEventNotUnique(d) ==
    /\ pc[d] = "inserting"
    /\ ~Stored(d)
    /\ tx' = [tx EXCEPT ![d] = "open"]
    /\ Goto(d, IF KindFor(d) = "other" THEN "committing" ELSE "observing")
    /\ UNCHANGED <<events, observations, kind, defects, reply, troubled, restarts>>

\* INSERT ... ON CONFLICT DO NOTHING waits for an uncommitted row of its key.
InsertEvent(d) ==
    /\ pc[d] = "inserting"
    /\ ~Locked(d) /\ ~Stored(d)
    /\ tx' = [tx EXCEPT ![d] = "open"]
    /\ Goto(d, IF KindFor(d) = "other" THEN "committing" ELSE "observing")
    /\ UNCHANGED <<events, observations, kind, defects, reply, troubled, restarts>>

\* Mutant: the redelivery is answered while the first insert may still roll back.
DuplicateOfUncommitted(d) ==
    /\ pc[d] = "inserting"
    /\ Locked(d) \/ Stored(d)
    /\ Answer(d, [code |-> 200, duplicate |-> TRUE])
    /\ UNCHANGED <<events, observations, tx, kind, defects, troubled, restarts>>

\* Mutant: the redelivery is left to the provider's next attempt.
DuplicateWaits(d) ==
    /\ pc[d] = "inserting"
    /\ ~Locked(d) /\ Stored(d)
    /\ UNCHANGED vars

Duplicate(d) ==
    /\ pc[d] = "inserting"
    /\ ~Locked(d) /\ Stored(d)
    /\ Answer(d, [code |-> 200, duplicate |-> TRUE])
    /\ UNCHANGED <<events, observations, tx, kind, defects, troubled, restarts>>

InsertObservation(d) ==
    /\ pc[d] = "observing"
    /\ KindFor(d) = "payment"
    /\ Goto(d, "committing")
    /\ UNCHANGED <<events, observations, tx, kind, defects, reply, troubled, restarts>>

\* The amount does not fit payment_observations.amount: the driver refuses the
\* statement, and the transaction is rolled back.
AmountOutOfRange(d) ==
    /\ pc[d] = "observing"
    /\ KindFor(d) = "wide"
    /\ tx' = [tx EXCEPT ![d] = "none"]
    /\ Answer(d, Refusal(503))
    /\ UNCHANGED <<events, observations, kind, defects, troubled, restarts>>

SendCommit(d) ==
    /\ pc[d] = "committing"
    /\ tx[d] = "open"
    /\ tx' = [tx EXCEPT ![d] = "commit"]
    /\ UNCHANGED <<events, observations, pc, kind, defects, reply, troubled, restarts>>

\* The handler learns that its COMMIT was processed.
Accept(d) ==
    /\ pc[d] = "committing"
    /\ tx[d] = "none"
    /\ Answer(d, [code |-> 200, duplicate |-> FALSE])
    /\ UNCHANGED <<events, observations, tx, kind, defects, troubled, restarts>>

-----------------------------------------------------------------------------
(* PostgreSQL.                                                             *)

\* Mutant: the observation has a transaction of its own, which may not come.
CommitsEventOnly(d) ==
    /\ tx[d] = "commit"
    /\ tx' = [tx EXCEPT ![d] = "none"]
    /\ events' = events \cup {d}
    /\ observations' \in {observations, observations \cup {d}}
    /\ UNCHANGED <<pc, kind, defects, reply, troubled, restarts>>

\* One transaction holds the event and, for a payment, its observation.
Commits(d) ==
    /\ tx[d] = "commit"
    /\ tx' = [tx EXCEPT ![d] = "none"]
    /\ events' = events \cup {d}
    /\ observations' = IF KindFor(d) = "payment"
                       THEN observations \cup {d} ELSE observations
    /\ UNCHANGED <<pc, kind, defects, reply, troubled, restarts>>

\* The server notices that nobody is there any more.
RollsBack(d) ==
    /\ tx[d] # "none" /\ ~InFlight(d)
    /\ tx' = [tx EXCEPT ![d] = "none"]
    /\ UNCHANGED <<events, observations, pc, kind, defects, reply, troubled, restarts>>

-----------------------------------------------------------------------------
(* Failures.                                                               *)

\* SQLAlchemyError is answered 503, any other exception of the driver 500; the
\* statement timeout ends a wait for another delivery's row this way too.
StorageError(d) ==
    /\ InFlight(d)
    /\ troubled' = troubled \cup {d}
    /\ \E code \in {500, 503} : Answer(d, Refusal(code))
    /\ UNCHANGED <<events, observations, tx, kind, defects, restarts>>

Crash ==
    /\ restarts < MaxRestarts
    /\ restarts' = restarts + 1
    /\ pc' = [d \in Deliveries |-> IF InFlight(d) THEN "lost" ELSE pc[d]]
    /\ UNCHANGED <<events, observations, tx, kind, defects, reply, troubled>>

-----------------------------------------------------------------------------
Handle(d) ==
    \/ InsertEvent(d) \/ Duplicate(d) \/ InsertObservation(d)
    \/ AmountOutOfRange(d) \/ SendCommit(d) \/ Accept(d)

Server(d) == Commits(d) \/ RollsBack(d)

Next ==
    \/ \E d \in Deliveries : Receive(d) \/ Handle(d) \/ Server(d) \/ StorageError(d)
    \/ Crash

Spec == Init /\ [][Next]_vars

\* A suspended handler is resumed and PostgreSQL works off what it was sent: it
\* commits, or notices that the connection is gone.  That PostgreSQL does so is
\* assumed: on the preflight route the timeouts were measured not to fire for a
\* frozen database (docs/BUILD_LOG.md:759-765).
Fairness == \A d \in Deliveries : WF_vars(Handle(d)) /\ WF_vars(Server(d))

FairSpec == Spec /\ Fairness

-----------------------------------------------------------------------------
(* What the intake promises.                                               *)

\* Types of the state.
TypeOK ==
    /\ events \subseteq Deliveries
    /\ observations \subseteq Deliveries
    /\ tx \in [Deliveries -> {"none", "open", "commit"}]
    /\ pc \in [Deliveries -> {"new", "inserting", "observing", "committing",
                              "done", "lost"}]
    /\ kind \in [Events -> Kinds]
    /\ defects \in [Deliveries -> SUBSET Defects]
    /\ reply \in [Deliveries -> Replies]
    /\ troubled \subseteq Deliveries
    /\ restarts \in 0..MaxRestarts

\* However often and however concurrently an event is delivered, it is stored
\* once: redeliveries have no second effect.
EventStoredOnce == \A d, e \in events : SameEvent(d, e) => d = e

\* A stored payment event has its observation, and nothing else has one, at
\* every instant: no failure or late commit separates the two rows.
ObservationsMatchEvents == observations = {d \in events : KindFor(d) = "payment"}

\* What the provider was told was accepted is stored: it will not deliver the
\* event again.  Only one delivery is told that it was the first.
AcceptedIsStored == \A d \in Deliveries : reply[d].code = 200 =>
    /\ Stored(d)
    /\ ~reply[d].duplicate => d \in events

\* Only deliveries that pass every check and can be processed leave a row.
StoredIsAuthentic == \A d \in events :
    defects[d] = {} /\ KindFor(d) \in {"payment", "other"}

\* The rows are append-only: a redelivery never replaces or removes one.
RowsAreAppendOnly ==
    [][events \subseteq events' /\ observations \subseteq observations']_vars

\* Every delivery that passes the checks is answered unless the process dies, if
\* the database does not freeze; none waits for ever behind another delivery's uncommitted row.
EveryDeliveryEnds == \A d \in Deliveries :
    InFlight(d) ~> pc[d] \in {"done", "lost"}

\* What a delivery's handler has established at each suspension point.
Stage(d) ==
    /\ tx[d] # "none" => pc[d] \notin {"new", "inserting"} /\ defects[d] = {}
    /\ tx[d] = "commit" => pc[d] # "observing" /\ KindFor(d) \in {"payment", "other"}
    /\ InFlight(d) => defects[d] = {} /\ KindFor(d) # "invalid"
    /\ pc[d] = "observing" => tx[d] = "open" /\ KindFor(d) # "other"
    /\ pc[d] = "committing" => KindFor(d) \in {"payment", "other"}
    /\ pc[d] = "committing" /\ tx[d] = "none" => d \in events
    /\ pc[d] = "new" => reply[d].code = 0

\* One open transaction holds the key of an event, and only before it is stored.
KeyHeld == \A d, e \in Deliveries : tx[d] # "none" /\ SameEvent(d, e) =>
    /\ e \notin events
    /\ tx[e] # "none" => d = e

\* The inductive invariant.
IInv ==
    /\ TypeOK
    /\ KeyHeld
    /\ \A d \in Deliveries : Stage(d)
    /\ \A d \in events : pc[d] # "new"
    /\ EventStoredOnce /\ ObservationsMatchEvents
    /\ AcceptedIsStored /\ StoredIsAuthentic

\* webhooks.py:92: 503 means that storage was unavailable, so that a later
\* delivery of the same event can succeed.
StorageErrorsAreTransient == \A d \in Deliveries :
    reply[d].code = 503 => d \in troubled

=============================================================================
