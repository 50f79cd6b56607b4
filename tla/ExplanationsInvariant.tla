------------------------ MODULE ExplanationsInvariant ------------------------
(***************************************************************************)
(* The inductive invariant behind the explanation routes: what a handler   *)
(* that has read the attempts may still rely on when it claims, and which  *)
(* request owns an attempt.                                                *)
(***************************************************************************)
EXTENDS ExplanationsProperties

\* The number a handler is about to claim was the first free one when it read
\* the attempts; all before it had failed, and failed attempts never change.
MayClaim(r) ==
    /\ number[r] \in Numbers
    /\ ledger[DecisionOf[r]] = "deny"
    /\ \A n \in Numbers :
        n < number[r] => attempts[<<DecisionOf[r], n>>] \in Unsuccessful

Terminal == {"ready"} \cup Unsuccessful

\* The owner's attempt at each suspension point.
Stage(r) ==
    /\ pc[r] \in {"new", "looking", "decision", "attempts", "context", "claiming"} =>
        r \notin claimed /\ r \notin dangling
    /\ pc[r] = "attempts" => ledger[DecisionOf[r]] = "deny"
    /\ pc[r] \in {"context", "claiming"} => MayClaim(r)
    /\ pc[r] \in {"claimed", "calling", "finalising"} =>
        r \in claimed /\ r \notin dangling /\ attempts[Key(r)] = "pending"
    /\ pc[r] = "claimed" => r \notin called
    /\ pc[r] = "calling" => r \in called
    /\ pc[r] = "finalising" => outcome[r] \in Terminal
    /\ pc[r] = "viewing" =>
        r \in claimed /\ r \notin dangling /\ attempts[Key(r)] \in Terminal

Stages == \A r \in Requests : Stage(r)

\* What a COMMIT processed late would still write.
Dangling == \A r \in dangling :
    /\ pc[r] = "lost" \/ (pc[r] = "done" /\ reply[r].code = 500)
    /\ r \notin claimed => MayClaim(r)
    /\ r \in claimed => attempts[Key(r)] = "pending" /\ outcome[r] \in Terminal

\* Requests own different attempts, each of which exists.
Ownership ==
    /\ \A r, s \in claimed : Key(r) = Key(s) => r = s
    /\ \A r \in claimed : number[r] \in Numbers /\ attempts[Key(r)] # "none"

Core ==
    /\ Stages
    /\ Dangling
    /\ Ownership
    /\ AttemptChain
    /\ PendingHasOwner
    /\ OnlyDeniesExplained
    /\ attempted = Cardinality(called \ inherited)

\* The inductive invariant: it holds initially, every step preserves it, and it
\* implies the safety properties.
IInv == TypeOK /\ Core
=============================================================================
