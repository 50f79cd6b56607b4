----------------------------- MODULE BundleProofs -----------------------------
(***************************************************************************)
(* Proofs about the runtime bundle: its archive, for any downloads, served *)
(* contents, replacements and limits, and its installer, for any initial   *)
(* tree and any number of failing and killed runs.                         *)
(***************************************************************************)
EXTENDS BundleInvariant, SequenceTheorems, TLAPS

-----------------------------------------------------------------------------
(* The archive.                                                            *)

\* At the start nobody has written.
LEMMA ArchiveInitial == ArchiveInit => ArchiveInv
<1> SUFFICES ASSUME ArchiveInit PROVE ArchiveInv
  OBVIOUS
<1> USE ArchiveAssumption DEF ArchiveAssumption, ArchiveInit, NoAttempt, Over
<1>1. Writers
  BY DEF Writers, File
<1>2. Untouched /\ ArchiveYieldsPinned
  BY DEF Untouched, ArchiveYieldsPinned
<1>3. WritersCleanUp
  BY DEF WritersCleanUp, File
<1> QED
  BY <1>1, <1>2, <1>3 DEF ArchiveInv

\* What a request changes.
LEMMA RequestEffect ==
    ASSUME ArchiveInv, NEW a \in Attempts, Request(a)
    PROVE  /\ attempt[a].step \in {"new", "redirected"}
           /\ attempt' \in [Attempts -> [step : {"new", "redirected", "answered", "streaming",
                                                 "cleaning"} \cup Over,
                                         requests : Nat, written : Nat,
                                         body : Served \cup {Nothing}]]
           /\ attempt'[a].step \in {"redirected", "answered", "failed"}
           /\ attempt'[a].step = "answered" => attempt'[a].body \in Served
           /\ \A b \in Attempts \ {a} : attempt'[b] = attempt[b]
           /\ UNCHANGED <<file, partial, build, reader, hashed, payload, occupied, refused>>
<1> DEFINE Attempt == [step : {"new", "redirected", "answered", "streaming",
                               "cleaning"} \cup Over,
                       requests : Nat, written : Nat, body : Served \cup {Nothing}]
<1>1. /\ attempt[a].step \in {"new", "redirected"} /\ attempt \in [Attempts -> Attempt]
      /\ UNCHANGED <<file, partial, build, reader, hashed, payload, occupied, refused>>
  BY DEF Request, ArchiveInv, Writers
<1>2. CASE End(a, "failed")
  BY <1>1, <1>2 DEF End, NoAttempt, Over
<1>3. CASE attempt' = [attempt EXCEPT ![a].step = "redirected", ![a].requests = @ + 1]
  <2>1. attempt' = [attempt EXCEPT ![a] = [attempt[a] EXCEPT !.step = "redirected",
                                               !.requests = attempt[a].requests + 1]]
    BY <1>1, <1>3
  <2>2. [attempt[a] EXCEPT !.step = "redirected", !.requests = attempt[a].requests + 1]
            \in Attempt
    <3>1. attempt[a] \in Attempt
      BY <1>1
    <3>2. \A t \in Attempt : t.requests + 1 \in Nat
      OBVIOUS
    <3>3. \A t \in Attempt : [t EXCEPT !.step = "redirected", !.requests = t.requests + 1]
                                \in Attempt
      BY <3>2
    <3> QED
      BY <3>1, <3>3
  <2> QED
    BY <1>1, <2>1, <2>2
<1>4. ASSUME NEW body \in Served,
             attempt' = [attempt EXCEPT ![a] = [NoAttempt EXCEPT !.step = "answered",
                                                                 !.body = body]]
      PROVE  /\ attempt' \in [Attempts -> Attempt]
             /\ attempt'[a].step = "answered" /\ attempt'[a].body \in Served
             /\ \A b \in Attempts \ {a} : attempt'[b] = attempt[b]
  <2>1. [NoAttempt EXCEPT !.step = "answered", !.body = body] \in Attempt
    BY DEF NoAttempt
  <2> QED
    BY <1>1, <1>4, <2>1 DEF NoAttempt
<1>5. CASE \E body \in Served :
                attempt' = [attempt EXCEPT ![a] = [NoAttempt EXCEPT !.step = "answered",
                                                                    !.body = body]]
  BY <1>1, <1>4, <1>5
<1> HIDE DEF Attempt
<1>6. CASE attempt' = [attempt EXCEPT ![a].step = "redirected", ![a].requests = @ + 1]
  BY <1>1, <1>3, <1>6
<1> QED
  BY <1>1, <1>2, <1>5, <1>6 DEF Request, Attempt

\* The writers' part of the invariant, under every step of the archive.
LEMMA WritersStep ==
    ASSUME ArchiveInv, ArchiveNext
    PROVE  Writers'
<1> USE ArchiveAssumption
    DEF ArchiveInv, Writers, Over, NoAttempt, Step, End, File, BuildUnchanged
<1>1. ASSUME NEW a \in Attempts, Request(a) PROVE Writers'
  BY <1>1, RequestEffect
<1>2. ASSUME NEW a \in Attempts, Create(a) PROVE Writers'
  BY <1>2 DEF Create
<1>3. ASSUME NEW a \in Attempts, Chunk(a) PROVE Writers'
  BY SMTT(30), <1>3 DEF Chunk
<1>4. ASSUME NEW a \in Attempts, StreamFails(a) PROVE Writers'
  BY <1>4 DEF StreamFails
<1>5. ASSUME NEW a \in Attempts, Streamed(a) PROVE Writers'
  BY <1>5 DEF Streamed
<1>6. ASSUME NEW a \in Attempts, CleanUp(a) PROVE Writers'
  BY <1>6 DEF CleanUp
<1>7. CASE StartBuild
  BY <1>7 DEF StartBuild
<1>8. CASE WritePartial
  BY <1>8 DEF WritePartial
<1>9. CASE CheckPartial
  BY <1>9 DEF CheckPartial
<1>10. CASE ReplaceOutput
  BY <1>10 DEF ReplaceOutput
<1>11. CASE CleanPartial
  BY <1>11 DEF CleanPartial
<1>12. CASE KillWriter
  BY <1>12 DEF KillWriter
<1>13. CASE Interfere
  BY <1>13 DEF Interfere
<1>14. CASE ReadAndHash
  BY <1>14 DEF ReadAndHash
<1>15. CASE ReadMembers
  BY <1>15 DEF ReadMembers
<1> QED
  BY <1>1, <1>2, <1>3, <1>4, <1>5, <1>6, <1>7, <1>8, <1>9, <1>10, <1>11, <1>12,
     <1>13, <1>14, <1>15 DEF ArchiveNext

\* A file that was found at the start is left alone until it is read.
LEMMA UntouchedStep ==
    ASSUME ArchiveInv, ArchiveNext
    PROVE  Untouched'
<1> USE ArchiveAssumption
    DEF ArchiveInv, Writers, Untouched, Over, NoAttempt, Step, End, BuildUnchanged
<1>1. ASSUME NEW a \in Attempts, Request(a) PROVE Untouched'
  BY <1>1, RequestEffect
<1>2. ASSUME NEW a \in Attempts, Create(a) PROVE Untouched'
  BY <1>2 DEF Create
<1>3. ASSUME NEW a \in Attempts, Chunk(a) PROVE Untouched'
  BY <1>3 DEF Chunk
<1>4. ASSUME NEW a \in Attempts, StreamFails(a) PROVE Untouched'
  BY <1>4 DEF StreamFails
<1>5. ASSUME NEW a \in Attempts, Streamed(a) PROVE Untouched'
  BY <1>5 DEF Streamed
<1>6. ASSUME NEW a \in Attempts, CleanUp(a) PROVE Untouched'
  BY <1>6 DEF CleanUp
<1>7. CASE StartBuild
  BY <1>7 DEF StartBuild
<1>8. CASE WritePartial
  BY <1>8 DEF WritePartial
<1>9. CASE CheckPartial
  BY <1>9 DEF CheckPartial
<1>10. CASE ReplaceOutput
  BY <1>10 DEF ReplaceOutput
<1>11. CASE CleanPartial
  BY <1>11 DEF CleanPartial
<1>12. CASE KillWriter
  BY <1>12 DEF KillWriter
<1>13. CASE Interfere
  BY <1>13 DEF Interfere
<1>14. CASE ReadAndHash
  BY <1>14 DEF ReadAndHash
<1>15. CASE ReadMembers
  BY <1>15 DEF ReadMembers
<1> QED
  BY <1>1, <1>2, <1>3, <1>4, <1>5, <1>6, <1>7, <1>8, <1>9, <1>10, <1>11, <1>12,
     <1>13, <1>14, <1>15 DEF ArchiveNext

\* Members are taken from the archive only when every one is the pinned one.
LEMMA YieldsPinnedStep ==
    ASSUME ArchiveInv, ArchiveNext
    PROVE  ArchiveYieldsPinned'
<1> USE DEF ArchiveInv, ArchiveYieldsPinned, BuildUnchanged
<1>1. ASSUME NEW a \in Attempts, Request(a) PROVE ArchiveYieldsPinned'
  BY <1>1 DEF Request
<1>2. ASSUME NEW a \in Attempts, Create(a) PROVE ArchiveYieldsPinned'
  BY <1>2 DEF Create
<1>3. ASSUME NEW a \in Attempts, Chunk(a) PROVE ArchiveYieldsPinned'
  BY <1>3 DEF Chunk
<1>4. ASSUME NEW a \in Attempts, StreamFails(a) PROVE ArchiveYieldsPinned'
  BY <1>4 DEF StreamFails
<1>5. ASSUME NEW a \in Attempts, Streamed(a) PROVE ArchiveYieldsPinned'
  BY <1>5 DEF Streamed
<1>6. ASSUME NEW a \in Attempts, CleanUp(a) PROVE ArchiveYieldsPinned'
  BY <1>6 DEF CleanUp
<1>7. CASE StartBuild
  BY <1>7 DEF StartBuild
<1>8. CASE WritePartial
  BY <1>8 DEF WritePartial
<1>9. CASE CheckPartial
  BY <1>9 DEF CheckPartial
<1>10. CASE ReplaceOutput
  BY <1>10 DEF ReplaceOutput
<1>11. CASE CleanPartial
  BY <1>11 DEF CleanPartial
<1>12. CASE KillWriter
  BY <1>12 DEF KillWriter
<1>13. CASE Interfere
  BY <1>13 DEF Interfere
<1>14. CASE ReadAndHash
  BY <1>14 DEF ReadAndHash
<1>15. CASE ReadMembers
  BY <1>15 DEF ReadMembers, MembersAsPinned
<1> QED
  BY <1>1, <1>2, <1>3, <1>4, <1>5, <1>6, <1>7, <1>8, <1>9, <1>10, <1>11, <1>12,
     <1>13, <1>14, <1>15 DEF ArchiveNext

\* Nobody leaves what is no archive.
LEMMA CleanUpStep ==
    ASSUME ArchiveInv, ArchiveNext
    PROVE  WritersCleanUp'
<1> USE ArchiveAssumption
    DEF ArchiveInv, Writers, Untouched, WritersCleanUp, Over, NoAttempt, Step, End, File,
        BuildUnchanged
<1>1. ASSUME NEW a \in Attempts, Request(a) PROVE WritersCleanUp'
  BY <1>1, RequestEffect
<1>2. ASSUME NEW a \in Attempts, Create(a) PROVE WritersCleanUp'
  BY <1>2 DEF Create
<1>3. ASSUME NEW a \in Attempts, Chunk(a) PROVE WritersCleanUp'
  BY <1>3 DEF Chunk
<1>4. ASSUME NEW a \in Attempts, StreamFails(a) PROVE WritersCleanUp'
  BY <1>4 DEF StreamFails
<1>5. ASSUME NEW a \in Attempts, Streamed(a) PROVE WritersCleanUp'
  BY <1>5 DEF Streamed
<1>6. ASSUME NEW a \in Attempts, CleanUp(a) PROVE WritersCleanUp'
  BY <1>6 DEF CleanUp
<1>7. CASE StartBuild
  BY <1>7 DEF StartBuild
<1>8. CASE WritePartial
  BY <1>8 DEF WritePartial
<1>9. CASE CheckPartial
  BY <1>9 DEF CheckPartial
<1>10. CASE ReplaceOutput
  BY <1>10 DEF ReplaceOutput
<1>11. CASE CleanPartial
  BY <1>11 DEF CleanPartial
<1>12. CASE KillWriter
  BY <1>12 DEF KillWriter
<1>13. CASE Interfere
  BY <1>13 DEF Interfere
<1>14. CASE ReadAndHash
  BY <1>14 DEF ReadAndHash
<1>15. CASE ReadMembers
  BY <1>15 DEF ReadMembers
<1> QED
  BY <1>1, <1>2, <1>3, <1>4, <1>5, <1>6, <1>7, <1>8, <1>9, <1>10, <1>11, <1>12,
     <1>13, <1>14, <1>15 DEF ArchiveNext

\* The archive's invariant holds in every step of the delivery: an installation
\* forgets the archive, and what it was given stays pinned.
LEMMA ArchiveStep ==
    ASSUME ArchiveInv, [DeliveryNext]_<<vars, archiveVars>>
    PROVE  ArchiveInv'
<1>1. CASE Deliver
  BY <1>1, WritersStep, UntouchedStep, YieldsPinnedStep, CleanUpStep DEF Deliver, ArchiveInv
<1>2. CASE Install
  <2>1. Writers'
    BY <1>2 DEF Install, Writers, NoAttempt, Over
  <2>2. Untouched' /\ ArchiveYieldsPinned' /\ WritersCleanUp'
    BY <1>2 DEF Install, ArchiveInv, Untouched, ArchiveYieldsPinned, WritersCleanUp
  <2> QED
    BY <2>1, <2>2 DEF ArchiveInv
<1>3. CASE UNCHANGED archiveVars
  BY <1>3 DEF archiveVars, ArchiveInv, Writers, Untouched, ArchiveYieldsPinned,
              WritersCleanUp
<1> QED
  BY <1>1, <1>2, <1>3 DEF DeliveryNext

\* Who writes the archive, and what has become of it, at every instant.
THEOREM ArchiveInvariantHolds == DeliverySpec => []ArchiveInv
<1>1. DeliveryInit => ArchiveInv
  <2> SUFFICES ASSUME DeliveryInit PROVE ArchiveInv
    OBVIOUS
  <2>1. CASE ArchiveInit
    BY <2>1, ArchiveInitial
  <2>2. CASE /\ payload = AllPinned /\ reader = "done" /\ file = Nothing /\ partial = Nothing
             /\ attempt = [a \in Attempts |-> NoAttempt] /\ build = "new"
             /\ hashed = Nothing /\ occupied = FALSE /\ refused = FALSE
    BY <2>2 DEF ArchiveInv, Writers, Untouched, ArchiveYieldsPinned, WritersCleanUp,
                AllPinned, NoAttempt, Over
  <2> QED
    BY <2>1, <2>2 DEF DeliveryInit
<1> QED
  BY <1>1, ArchiveStep, PTL DEF DeliverySpec

\* read_validated_archive: an installation is given the pinned bytes, whatever
\* replaces the archive between its hashing and the reading of its members.
THEOREM OnlyPinnedMembers == DeliverySpec => []ArchiveYieldsPinned
BY ArchiveInvariantHolds, PTL DEF ArchiveInv

\* download_archive and build_archive: what failed is cleaned up after, what is
\* moved into place is whole, and no file of somebody else is touched.
THEOREM WritersCleanUpAlways == DeliverySpec => []WritersCleanUp
BY ArchiveInvariantHolds, PTL DEF ArchiveInv

-----------------------------------------------------------------------------
(* The files and directories of a bundle.                                  *)

\* The members that the manifests name, and those that startup reads.
LEMMA TheMembers ==
    /\ BundleMembers = {"evaluation", "feature_manifest", "model", "training_report",
                        "model_manifest"}
    /\ StartupMembers = {"feature_manifest", "model", "training_report", "model_manifest"}
BY DEF BundleMembers, StartupMembers, Order, ToSet

\* Above every member there are three directories.
LEMMA TheDirectories ==
    /\ Directories = {"artifacts", "evaluations", "evaluations/development", "features",
                      "features/development", "models", "models/development"}
    /\ \A m \in BundleMembers :
        /\ ParentsOf(m)[1] \in Directories /\ ParentsOf(m)[2] \in Directories
        /\ ParentsOf(m)[3] \in Directories /\ Parent(m) = ParentsOf(m)[3]
        /\ ToSet(ParentsOf(m)) = {ParentsOf(m)[1], ParentsOf(m)[2], ParentsOf(m)[3]}
    /\ BundleMembers \cap Directories = {}
<1>1. \A m \in BundleMembers :
        /\ ParentsOf(m) \in
            {<<"artifacts", "evaluations", "evaluations/development">>,
             <<"artifacts", "features", "features/development">>,
             <<"artifacts", "models", "models/development">>}
        /\ ToSet(ParentsOf(m)) = {ParentsOf(m)[1], ParentsOf(m)[2], ParentsOf(m)[3]}
        /\ Parent(m) = ParentsOf(m)[3]
  BY DEF ParentsOf, ToSet, Parent, Last
<1>2. /\ ParentsOf("evaluation") = <<"artifacts", "evaluations", "evaluations/development">>
      /\ ParentsOf("feature_manifest") = <<"artifacts", "features", "features/development">>
      /\ ParentsOf("model") = <<"artifacts", "models", "models/development">>
  BY DEF ParentsOf
<1>3. Directories = {"artifacts", "evaluations", "evaluations/development", "features",
                     "features/development", "models", "models/development"}
  <2>1. \A m \in BundleMembers : ToSet(ParentsOf(m)) \in
            {{"artifacts", "evaluations", "evaluations/development"},
             {"artifacts", "features", "features/development"},
             {"artifacts", "models", "models/development"}}
    BY <1>1
  <2>2. /\ ToSet(ParentsOf("evaluation")) =
                {"artifacts", "evaluations", "evaluations/development"}
        /\ ToSet(ParentsOf("feature_manifest")) =
                {"artifacts", "features", "features/development"}
        /\ ToSet(ParentsOf("model")) = {"artifacts", "models", "models/development"}
    BY <1>1, <1>2, TheMembers
  <2> QED
    BY <2>1, <2>2, TheMembers DEF Directories
<1> QED
  BY <1>1, <1>3, TheMembers

\* What lies directly inside what.
LEMMA TheTree ==
    ASSUME NEW c, NEW d
    PROVE  Inside(c, d) <=>
            \/ d = "artifacts" /\ c \in {"evaluations", "features", "models"}
            \/ d = "evaluations" /\ c = "evaluations/development"
            \/ d = "features" /\ c = "features/development"
            \/ d = "models" /\ c = "models/development"
<1>1. /\ ParentsOf("evaluation") = <<"artifacts", "evaluations", "evaluations/development">>
      /\ ParentsOf("feature_manifest") = <<"artifacts", "features", "features/development">>
      /\ ParentsOf("model") = <<"artifacts", "models", "models/development">>
      /\ ParentsOf("model_manifest") = <<"artifacts", "models", "models/development">>
      /\ ParentsOf("training_report") = <<"artifacts", "models", "models/development">>
  BY DEF ParentsOf
<1>2. Inside(c, d) <=> \E m \in BundleMembers :
            \/ ParentsOf(m)[1] = d /\ ParentsOf(m)[2] = c
            \/ ParentsOf(m)[2] = d /\ ParentsOf(m)[3] = c
  BY DEF Inside
<1> QED
  BY <1>1, <1>2, TheMembers

\* The directories above a member lie inside each other and in no others.
LEMMA TheChain ==
    ASSUME NEW m \in BundleMembers
    PROVE  /\ Inside(ParentsOf(m)[2], ParentsOf(m)[1])
           /\ Inside(ParentsOf(m)[3], ParentsOf(m)[2])
           /\ \A d : ~Inside(ParentsOf(m)[1], d)
           /\ \A d : Inside(ParentsOf(m)[2], d) => d = ParentsOf(m)[1]
           /\ \A d : Inside(ParentsOf(m)[3], d) => d = ParentsOf(m)[2]
<1>1. ParentsOf(m) \in
        {<<"artifacts", "evaluations", "evaluations/development">>,
         <<"artifacts", "features", "features/development">>,
         <<"artifacts", "models", "models/development">>}
  BY DEF ParentsOf
<1> QED
  BY <1>1, TheTree

\* The files to install, in their order.
LEMMA TheOrder ==
    ASSUME NEW members, members \in {BundleMembers, StartupMembers}
    PROVE  /\ Wanted(members) \in Seq(members)
           /\ ToSet(Wanted(members)) = members
           /\ LastOf(Wanted(members))
<1>1. Order = <<"evaluation", "feature_manifest", "model", "training_report",
                "model_manifest">>
      /\ Tail(Order) = <<"feature_manifest", "model", "training_report", "model_manifest">>
  BY DEF Order
<1>2. CASE members = BundleMembers
  BY <1>1, <1>2, TheMembers DEF Wanted, ToSet, LastOf
<1>3. CASE members = StartupMembers
  <2>1. Wanted(members) = <<"feature_manifest", "model", "training_report", "model_manifest">>
    BY <1>1, <1>3, TheMembers DEF Wanted
  <2> QED
    BY <2>1, <1>3, TheMembers DEF ToSet, LastOf
<1> QED
  BY <1>2, <1>3

-----------------------------------------------------------------------------
(* Sequences.                                                              *)

\* What reversing a list does: the rollback goes through it from the end.
LEMMA ReverseOf ==
    ASSUME NEW S, NEW s \in Seq(S)
    PROVE  /\ Reverse(s) \in Seq(S) /\ Len(Reverse(s)) = Len(s)
           /\ \A i \in 1..Len(s) : Reverse(s)[i] = s[Len(s) - i + 1]
<1>1. Len(s) \in Nat /\ \A i \in 1..Len(s) : s[Len(s) - i + 1] \in S
  BY LenProperties, ElementOfSeq
<1>2. Reverse(s) \in [1..Len(s) -> S]
  BY <1>1 DEF Reverse
<1>3. Reverse(s) \in Seq(S)
  BY <1>1, <1>2, SeqDef
<1> QED
  BY <1>1, <1>2, <1>3, LenProperties DEF Reverse

\* One element less is left, and nothing that was not.
LEMMA TailOf ==
    ASSUME NEW S, NEW s \in Seq(S), s # <<>>
    PROVE  /\ Head(s) \in S /\ Head(s) = s[1] /\ Tail(s) \in Seq(S)
           /\ Len(s) \in Nat \ {0} /\ Len(Tail(s)) = Len(s) - 1
           /\ \A i \in 1..Len(Tail(s)) : Tail(s)[i] = s[i + 1]
           /\ ToSet(s) = {Head(s)} \cup ToSet(Tail(s))
<1>1. /\ Head(s) = s[1] /\ Tail(s) \in Seq(S)
      /\ Len(s) \in Nat \ {0} /\ Len(Tail(s)) = Len(s) - 1
      /\ \A i \in 1..Len(Tail(s)) : Tail(s)[i] = s[i + 1]
  BY HeadTailProperties, EmptySeq
<1>2. Head(s) \in S
  BY <1>1, ElementOfSeq
<1>3. DOMAIN s = 1..Len(s) /\ DOMAIN Tail(s) = 1..Len(Tail(s))
  BY <1>1, LenProperties
<1>4. ASSUME NEW x \in ToSet(s) PROVE x \in {Head(s)} \cup ToSet(Tail(s))
  <2>1. PICK i \in 1..Len(s) : s[i] = x
    BY <1>3 DEF ToSet
  <2>2. CASE i = 1
    BY <1>1, <2>1, <2>2
  <2>3. CASE i # 1
    <3>1. i - 1 \in 1..Len(Tail(s)) /\ Tail(s)[i - 1] = x
      BY <1>1, <2>1, <2>3
    <3> QED
      BY <1>3, <3>1 DEF ToSet
  <2> QED
    BY <2>2, <2>3
<1>5. ASSUME NEW x \in {Head(s)} \cup ToSet(Tail(s)) PROVE x \in ToSet(s)
  <2>1. CASE x = Head(s)
    BY <1>1, <1>3, <2>1 DEF ToSet
  <2>2. CASE x \in ToSet(Tail(s))
    <3>1. PICK i \in 1..Len(Tail(s)) : Tail(s)[i] = x
      BY <1>3, <2>2 DEF ToSet
    <3>2. i + 1 \in 1..Len(s) /\ s[i + 1] = x
      BY <1>1, <3>1
    <3> QED
      BY <1>3, <3>2 DEF ToSet
  <2> QED
    BY <1>5, <2>1, <2>2
<1> QED
  BY <1>1, <1>2, <1>4, <1>5

\* What appending to a list does to its places and its elements.
LEMMA AppendOf ==
    ASSUME NEW S, NEW s \in Seq(S), NEW e \in S
    PROVE  /\ Append(s, e) \in Seq(S) /\ Len(s) \in Nat /\ Len(Append(s, e)) = Len(s) + 1
           /\ Append(s, e)[Len(s) + 1] = e
           /\ \A i \in 1..Len(s) : Append(s, e)[i] = s[i]
           /\ ToSet(Append(s, e)) = ToSet(s) \cup {e}
<1>1. /\ Append(s, e) \in Seq(S) /\ Len(s) \in Nat /\ Len(Append(s, e)) = Len(s) + 1
      /\ Append(s, e)[Len(s) + 1] = e
      /\ \A i \in 1..Len(s) : Append(s, e)[i] = s[i]
  BY AppendProperties, LenProperties
<1>2. DOMAIN s = 1..Len(s) /\ DOMAIN Append(s, e) = 1..(Len(s) + 1)
  BY <1>1, LenProperties
<1> QED
  BY <1>1, <1>2 DEF ToSet

\* The elements of a list.
LEMMA ElementsOf ==
    ASSUME NEW S, NEW s \in Seq(S)
    PROVE  /\ ToSet(s) \subseteq S /\ ToSet(s) = {s[i] : i \in 1..Len(s)}
           /\ \A T : ToSet(s) \subseteq T => s \in Seq(T)
           /\ s = <<>> <=> ToSet(s) = {}
           /\ ToSet(<<>>) = {}
<1>1. Len(s) \in Nat /\ DOMAIN s = 1..Len(s) /\ \A i \in 1..Len(s) : s[i] \in S
  BY LenProperties, ElementOfSeq
<1>2. ASSUME NEW T, ToSet(s) \subseteq T PROVE s \in Seq(T)
  <2>1. s \in [1..Len(s) -> T]
    BY <1>1, <1>2, LenProperties DEF ToSet
  <2> QED
    BY <1>1, <2>1, SeqDef
<1>3. s = <<>> <=> ToSet(s) = {}
  <2>1. s # <<>> => s[1] \in ToSet(s)
    BY <1>1, EmptySeq DEF ToSet
  <2> QED
    BY <2>1 DEF ToSet
<1>4. ToSet(s) \subseteq S /\ ToSet(s) = {s[i] : i \in 1..Len(s)}
  BY <1>1 DEF ToSet
<1>5. ToSet(<<>>) = {}
  BY DEF ToSet
<1> QED
  BY <1>2, <1>3, <1>4, <1>5

\* What a rollback undoes: files, then directories, each list from its end.
LEMMA UndoListOf ==
    ASSUME NEW S, created \in Seq(S), made \in Seq(S)
    PROVE  /\ UndoList \in Seq(S)
           /\ Len(created) \in Nat /\ Len(made) \in Nat
           /\ Len(UndoList) = Len(created) + Len(made)
           /\ \A i \in 1..Len(created) : UndoList[i] = created[Len(created) - i + 1]
           /\ \A i \in 1..Len(made) :
                UndoList[Len(created) + i] = made[Len(made) - i + 1]
<1>1. /\ Reverse(created) \in Seq(S) /\ Len(Reverse(created)) = Len(created)
      /\ \A i \in 1..Len(created) : Reverse(created)[i] = created[Len(created) - i + 1]
  BY ReverseOf
<1>2. /\ Reverse(made) \in Seq(S) /\ Len(Reverse(made)) = Len(made)
      /\ \A i \in 1..Len(made) : Reverse(made)[i] = made[Len(made) - i + 1]
  BY ReverseOf
<1>3. Len(created) \in Nat /\ Len(made) \in Nat
  BY LenProperties
<1> DEFINE files == Reverse(created)
           dirs == Reverse(made)
<1>4. \A i \in 1..(Len(files) + Len(dirs)) : (files \o dirs)[i] =
            IF i <= Len(files) THEN files[i] ELSE dirs[i - Len(files)]
  <2> HIDE DEF files, dirs
  <2>1. files \in Seq(S) /\ dirs \in Seq(S)
    BY <1>1, <1>2 DEF files, dirs
  <2> QED
    BY <2>1, ConcatProperties
<1>5. files \o dirs \in Seq(S) /\ Len(files \o dirs) = Len(files) + Len(dirs)
  BY <1>1, <1>2, ConcatProperties
<1>6. \A i \in 1..Len(created) : UndoList[i] = created[Len(created) - i + 1]
  BY <1>1, <1>2, <1>3, <1>4 DEF UndoList
<1>7. \A i \in 1..Len(made) : UndoList[Len(created) + i] = made[Len(made) - i + 1]
  <2>1. ASSUME NEW i \in 1..Len(made)
        PROVE  UndoList[Len(created) + i] = made[Len(made) - i + 1]
    <3>1. Len(created) + i \in 1..(Len(files) + Len(dirs)) /\ ~(Len(created) + i <= Len(files))
      BY <1>1, <1>2, <1>3
    <3>2. (files \o dirs)[Len(created) + i] = dirs[Len(created) + i - Len(files)]
      BY <1>4, <3>1
    <3>3. Len(created) + i - Len(files) = i
      BY <1>1, <1>3
    <3> QED
      BY <1>2, <3>2, <3>3 DEF UndoList
  <2> QED
    BY <2>1
<1> QED
  BY <1>1, <1>2, <1>3, <1>5, <1>6, <1>7 DEF UndoList

\* What is handled last stays last.
LEMMA LastOfTail ==
    ASSUME NEW S, NEW s \in Seq(S), s # <<>>, LastOf(s)
    PROVE  /\ LastOf(Tail(s))
           /\ Head(s) = "model_manifest" => Tail(s) = <<>>
<1>1. /\ Head(s) = s[1] /\ Tail(s) \in Seq(S)
      /\ Len(s) \in Nat \ {0} /\ Len(Tail(s)) = Len(s) - 1
      /\ \A i \in 1..Len(Tail(s)) : Tail(s)[i] = s[i + 1]
  BY TailOf
<1>2. \A i \in 1..Len(s) : s[i] = "model_manifest" => i = Len(s)
  BY DEF LastOf
<1>3. LastOf(Tail(s))
  <2>1. ASSUME NEW i \in 1..Len(Tail(s)), Tail(s)[i] = "model_manifest"
        PROVE  i = Len(Tail(s))
    <3>1. i + 1 \in 1..Len(s) /\ s[i + 1] = "model_manifest"
      BY <1>1, <2>1
    <3>2. i + 1 = Len(s)
      BY <1>2, <3>1
    <3>3. i \in Nat /\ Len(s) \in Nat
      BY <1>1
    <3>4. Len(s) - 1 = i
      BY <3>2, <3>3
    <3> QED
      BY <1>1, <3>4
  <2> QED
    BY SMTT(30), <2>1 DEF LastOf
<1>4. ASSUME Head(s) = "model_manifest" PROVE Tail(s) = <<>>
  <2>1. s[1] = "model_manifest" /\ 1 \in 1..Len(s)
    BY <1>1, <1>4
  <2>2. Len(s) = 1
    BY <1>2, <2>1
  <2>3. Len(Tail(s)) = 0 /\ Tail(s) \in Seq(S)
    BY <1>1, <2>2
  <2> QED
    BY <2>3, EmptySeq
<1> QED
  BY <1>3, <1>4

\* A list without the manifest has it last, or still not, after one more element.
LEMMA LastOfAppend ==
    ASSUME NEW S, NEW s \in Seq(S), NEW e \in S, "model_manifest" \notin ToSet(s)
    PROVE  LastOf(Append(s, e))
<1>1. /\ Len(s) \in Nat /\ Len(Append(s, e)) = Len(s) + 1
      /\ \A i \in 1..Len(s) : Append(s, e)[i] = s[i]
  BY AppendOf
<1>2. \A i \in 1..Len(s) : s[i] # "model_manifest"
  BY ElementsOf
<1> QED
  BY <1>1, <1>2 DEF LastOf

-----------------------------------------------------------------------------
(* What the steps that write change.                                       *)

\* A directory is made inside directories that exist, and noted.
LEMMA MakeDirectoryEffect ==
    ASSUME InstallerInv, MakeDirectory
    PROVE  /\ pc = "publishing" /\ left # <<>>
           /\ \E d \in Directories \ directories :
                /\ directories' = directories \cup {d} /\ made' = Append(made, d)
                /\ \A e \in Directories : Inside(d, e) => e \in directories
           /\ UNCHANGED <<disk, stray, pc, wants, left, pending, created, undo, historyVars>>
<1>1. /\ pc = "publishing" /\ left # <<>>
      /\ UNCHANGED <<disk, stray, pc, wants, left, pending, created, undo, historyVars>>
  BY DEF MakeDirectory
<1>2. PICK i \in Missing(Head(left)) :
        /\ \A k \in Missing(Head(left)) : i <= k
        /\ directories' = directories \cup {ParentsOf(Head(left))[i]}
        /\ made' = Append(made, ParentsOf(Head(left))[i])
  BY DEF MakeDirectory
<1>3. Head(left) \in BundleMembers
  <2>1. left \in Seq(NewFiles)
    BY <1>1 DEF InstallerInv, Publishing
  <2>2. wants \subseteq BundleMembers
    BY TheMembers DEF InstallerInv, TypeOK
  <2> QED
    BY <1>1, <2>1, <2>2, TailOf DEF NewFiles
<1> DEFINE d == ParentsOf(Head(left))[i]
<1>4. i \in 1..3 /\ d \notin directories /\ d \in Directories
  BY <1>2, <1>3, TheDirectories DEF Missing
<1>5. \A k \in 1..3 : k < i => ParentsOf(Head(left))[k] \in directories
  BY <1>2, <1>4 DEF Missing
<1>6. ASSUME NEW e, Inside(d, e) PROVE e \in directories
  <2>1. CASE i = 1
    BY <1>3, <1>6, <2>1, TheChain
  <2>2. CASE i = 2
    <3>1. e = ParentsOf(Head(left))[1]
      BY <1>3, <1>6, <2>2, TheChain
    <3> QED
      BY <1>5, <2>2, <3>1
  <2>3. CASE i = 3
    <3>1. e = ParentsOf(Head(left))[2]
      BY <1>3, <1>6, <2>3, TheChain
    <3> QED
      BY <1>5, <2>3, <3>1
  <2> QED
    BY <1>4, <2>1, <2>2, <2>3
<1> QED
  BY <1>1, <1>2, <1>4, <1>6

\* The next file is new, its directory exists, and it becomes pinned.
LEMMA PublishEffect ==
    ASSUME InstallerInv, Publish
    PROVE  /\ pc = "publishing" /\ left # <<>>
           /\ \E m \in NewFiles :
                /\ m \in BundleMembers /\ m = left[1] /\ Parent(m) \in directories
                /\ disk' = [disk EXCEPT ![m] = "pinned"]
                /\ created' = Append(created, m) /\ left' = Tail(left)
                /\ ToSet(left) = {m} \cup ToSet(left')
           /\ UNCHANGED <<directories, stray, pc, wants, pending, made, undo, historyVars>>
<1>1. /\ pc = "publishing" /\ left # <<>>
      /\ UNCHANGED <<directories, stray, pc, wants, pending, made, undo, historyVars>>
      /\ Missing(Head(left)) = {}
      /\ disk' = [disk EXCEPT ![Head(left)] = "pinned"]
      /\ created' = Append(created, Head(left)) /\ left' = Tail(left)
  BY DEF Publish
<1>2. left \in Seq(NewFiles)
  BY <1>1 DEF InstallerInv, Publishing
<1>3. wants \subseteq BundleMembers
  BY TheMembers DEF InstallerInv, TypeOK
<1>4. /\ Head(left) \in NewFiles /\ Head(left) \in BundleMembers /\ Head(left) = left[1]
      /\ ToSet(left) = {Head(left)} \cup ToSet(left')
  BY <1>1, <1>2, <1>3, TailOf DEF NewFiles
<1>5. Parent(Head(left)) \in directories
  BY <1>1, <1>4, TheDirectories DEF Missing
<1> QED
  BY <1>1, <1>4, <1>5

\* A directory is empty when nothing that is there uses it.
LEMMA EmptyMeansUnused ==
    ASSUME NEW d \in Directories, InstallerInv
    PROVE  Empty(d) <=>
            /\ \A m \in BundleMembers : disk[m] # "absent" => Parent(m) # d
            /\ \A c \in directories : ~Inside(c, d)
            /\ stray => d # "models/development"
BY DEF Empty, Inside, Parent

\* A step of a rollback removes one file, one empty directory or nothing.
LEMMA UndoNextEffect ==
    ASSUME InstallerInv, UndoNext
    PROVE  /\ pc = "undoing" /\ undo # <<>>
           /\ \/ /\ undo[1] \in NewFiles /\ undo[1] \in BundleMembers
                 /\ disk' = [disk EXCEPT ![undo[1]] = "absent"]
                 /\ directories' = directories
              \/ /\ undo[1] \in NewDirectories /\ disk' = disk
                 /\ directories' = IF Empty(undo[1]) THEN directories \ {undo[1]}
                                   ELSE directories
           /\ undo' = Tail(undo) /\ ToSet(undo) = {undo[1]} \cup ToSet(undo')
           /\ UNCHANGED <<stray, pc, wants, left, pending, created, made, historyVars>>
<1>1. /\ pc = "undoing" /\ undo # <<>> /\ undo' = Tail(undo)
      /\ UNCHANGED <<stray, pc, wants, left, pending, created, made, historyVars>>
      /\ disk' = [m \in BundleMembers |-> IF m = Head(undo) THEN "absent" ELSE disk[m]]
      /\ directories' = IF Head(undo) \in Directories /\ Empty(Head(undo))
                        THEN directories \ {Head(undo)} ELSE directories
  BY DEF UndoNext
<1>2. undo \in Seq(NewFiles \cup NewDirectories)
  BY <1>1 DEF InstallerInv, Undoing
<1>3. /\ Head(undo) \in NewFiles \cup NewDirectories /\ Head(undo) = undo[1]
      /\ ToSet(undo) = {undo[1]} \cup ToSet(undo')
  BY <1>1, <1>2, TailOf
<1>4. NewFiles \subseteq BundleMembers /\ NewDirectories \subseteq Directories
  BY TheMembers DEF InstallerInv, TypeOK, NewFiles, NewDirectories
<1>5. disk \in [BundleMembers -> Contents]
  BY DEF InstallerInv, TypeOK
<1>6. CASE Head(undo) \in NewFiles
  <2>1. Head(undo) \in BundleMembers /\ Head(undo) \notin Directories
    BY <1>4, <1>6, TheDirectories
  <2>2. disk' = [disk EXCEPT ![Head(undo)] = "absent"]
    BY <1>1, <1>5
  <2> QED
    BY <1>1, <1>3, <1>6, <2>1, <2>2
<1>7. CASE Head(undo) \in NewDirectories
  <2>1. Head(undo) \in Directories /\ Head(undo) \notin BundleMembers
    BY <1>4, <1>7, TheDirectories
  <2>2. disk' = disk
    BY <1>1, <1>5, <2>1
  <2> QED
    BY <1>1, <1>3, <1>7, <2>1, <2>2
<1> QED
  BY <1>3, <1>6, <1>7

-----------------------------------------------------------------------------
(* Preservation.                                                           *)

\* Types, and the members that a run wants, are preserved.
LEMMA TypesStep ==
    ASSUME InstallerInv, [Next]_vars
    PROVE  TypeOK' /\ Run' /\ (original \in [BundleMembers -> Contents])'
<1> USE TheMembers DEF InstallerInv, TypeOK, Run, Contents, Phases, Outcomes
<1>1. CASE Start
  <2>1. /\ UNCHANGED <<fileVars, original, installed, blocked>>
        /\ wants' \in {BundleMembers, StartupMembers} /\ left' = Wanted(wants')
        /\ pending' = <<>> /\ created' = <<>> /\ made' = <<>> /\ undo' = <<>>
        /\ before' = <<disk, directories>> /\ faulty' = FALSE
        /\ pc' \in {"failed", "classifying"}
    BY <1>1 DEF Start
  <2>2. left' \in Seq(wants')
    BY <2>1, TheOrder
  <2>3. /\ pending' \in Seq(wants') /\ created' \in Seq(wants')
        /\ made' \in Seq(Directories) /\ undo' \in Seq(wants' \cup Directories)
    BY <2>1, EmptySeq
  <2> QED
    BY <2>1, <2>2, <2>3 DEF fileVars
<1>2. CASE Classify
  <2>1. /\ left # <<>> /\ left' = Tail(left)
        /\ pending' \in {pending, Append(pending, Head(left))}
        /\ UNCHANGED <<fileVars, pc, wants, created, made, undo, historyVars>>
    BY <1>2 DEF Classify
  <2>2. left' \in Seq(wants) /\ pending' \in Seq(wants)
    <3>1. left \in Seq(wants) /\ pending \in Seq(wants)
      OBVIOUS
    <3> HIDE DEF InstallerInv, TypeOK, Run, Contents, Phases, Outcomes
    <3>2. Tail(left) \in Seq(wants) /\ Head(left) \in wants
      BY <2>1, <3>1, TailOf
    <3>3. Append(pending, Head(left)) \in Seq(wants)
      BY <3>1, <3>2, AppendOf
    <3> QED
      BY <2>1, <3>1, <3>2, <3>3
  <2> QED
    BY <2>1, <2>2 DEF fileVars, historyVars
<1>3. CASE Conflict
  BY <1>3 DEF Conflict, fileVars, lists, historyVars
<1>4. CASE Classified
  BY <1>4 DEF Classified, fileVars, lists, historyVars
<1>5. CASE MakeDirectory
  <2>1. made' \in Seq(Directories) /\ directories' \subseteq Directories
    <3>1. PICK d \in Directories : directories' = directories \cup {d} /\ made' = Append(made, d)
      BY <1>5, MakeDirectoryEffect
    <3>2. Append(made, d) \in Seq(Directories)
      BY AppendOf
    <3> QED
      BY <3>1, <3>2
  <2> QED
    BY <1>5, <2>1, MakeDirectoryEffect DEF historyVars
<1>6. CASE Publish
  <2>1. PICK m \in NewFiles :
            /\ m \in BundleMembers /\ disk' = [disk EXCEPT ![m] = "pinned"]
            /\ created' = Append(created, m) /\ left' = Tail(left)
    BY <1>6, PublishEffect
  <2>2. left # <<>> /\ UNCHANGED <<directories, stray, pc, wants, pending, made, undo, historyVars>>
    BY <1>6, PublishEffect
  <2>3. left' \in Seq(wants) /\ created' \in Seq(wants)
    BY <2>1, <2>2, TailOf, AppendOf DEF NewFiles
  <2>4. disk' \in [BundleMembers -> Contents]
    BY <2>1
  <2> QED
    BY <2>2, <2>3, <2>4 DEF historyVars
<1>7. CASE Published
  <2>1. /\ pc = "publishing" /\ pc' = "verifying" /\ left' = Wanted(wants)
        /\ UNCHANGED <<fileVars, wants, pending, created, made, undo, historyVars>>
    BY <1>7 DEF Published
  <2>2. left' \in Seq(wants)
    BY <2>1, TheOrder
  <2> QED
    BY <2>1, <2>2 DEF fileVars, historyVars
<1>8. CASE VerifyMember
  <2>1. /\ left # <<>> /\ left' \in {left, Tail(left)}
        /\ pc = "verifying" /\ pc' \in {"verifying", "failed"}
        /\ UNCHANGED <<fileVars, wants, pending, created, made, undo, historyVars>>
    BY <1>8 DEF VerifyMember
  <2>2. left' \in Seq(wants)
    <3>1. left \in Seq(wants)
      OBVIOUS
    <3> HIDE DEF InstallerInv, TypeOK, Run, Contents, Phases, Outcomes
    <3> QED
      BY <2>1, <3>1, TailOf
  <2>3. TypeOK'
    BY <2>1, <2>2 DEF fileVars, historyVars
  <2>4. Run' /\ original' = original
    BY <2>1 DEF historyVars
  <2> QED
    BY <2>3, <2>4
<1>9. CASE Bind
  <2>1. /\ pc = "verifying" /\ pc' \in {"ok", "failed"}
        /\ installed' \in {installed, installed \cup wants}
        /\ UNCHANGED <<fileVars, wants, lists, original, before, faulty, blocked>>
    BY <1>9 DEF Bind
  <2>2. installed' \subseteq BundleMembers
    BY <2>1
  <2> QED
    BY <2>1, <2>2 DEF fileVars, lists
<1>10. CASE Fails
  <2>1. /\ pc' \in {"undoing", "failed"} /\ faulty' = TRUE
        /\ undo' \in {undo, UndoList \o UndoList} /\ pc \in Phases
        /\ UNCHANGED <<fileVars, wants, left, pending, created, made,
                       original, before, installed, blocked>>
    BY <1>10 DEF Fails
  <2>2. undo' \in Seq(wants \cup Directories)
    <3>1. created \in Seq(wants \cup Directories) /\ made \in Seq(wants \cup Directories)
      BY ElementsOf
    <3>2. UndoList \in Seq(wants \cup Directories)
      BY <3>1, UndoListOf
    <3> HIDE DEF InstallerInv, TypeOK, Run, Contents, Phases, Outcomes
    <3>3. UndoList \o UndoList \in Seq(wants \cup Directories)
      BY <3>2, ConcatProperties
    <3>4. undo \in Seq(wants \cup Directories)
      BY DEF InstallerInv, TypeOK
    <3> QED
      BY <2>1, <3>3, <3>4
  <2> QED
    BY <2>1, <2>2 DEF fileVars
<1>11. CASE UndoNext
  <2>1. /\ undo' = Tail(undo) /\ undo # <<>>
        /\ UNCHANGED <<stray, pc, wants, left, pending, created, made, historyVars>>
        /\ disk' \in [BundleMembers -> Contents] /\ directories' \subseteq directories
    BY <1>11, UndoNextEffect
  <2>2. undo' \in Seq(wants \cup Directories)
    BY <2>1, TailOf
  <2> QED
    BY <2>1, <2>2 DEF historyVars
<1>12. CASE UndoBlocked
  <2>1. /\ undo' = Tail(undo) /\ undo # <<>> /\ blocked' = TRUE
        /\ UNCHANGED <<fileVars, pc, wants, left, pending, created, made,
                       original, before, installed, faulty>>
    BY <1>12 DEF UndoBlocked
  <2>2. undo' \in Seq(wants \cup Directories)
    BY <2>1, TailOf
  <2> QED
    BY <2>1, <2>2 DEF fileVars
<1>13. CASE Undone
  BY <1>13 DEF Undone, fileVars, lists, historyVars
<1>14. CASE Killed
  BY <1>14 DEF Killed, fileVars, lists, historyVars
<1>15. CASE UNCHANGED vars
  BY <1>15 DEF vars, fileVars, lists, historyVars
<1> QED
  BY <1>1, <1>2, <1>3, <1>4, <1>5, <1>6, <1>7, <1>8, <1>9, <1>10, <1>11, <1>12,
     <1>13, <1>14, <1>15 DEF Next

\* What is there lies in a directory that is there.
LEMMA TreesStep ==
    ASSUME InstallerInv, [Next]_vars
    PROVE  Trees'
<1> USE DEF InstallerInv, TypeOK, Run, Trees, Tree
<1>1. CASE Start
  BY <1>1 DEF Start, fileVars, lists, historyVars, Outcomes
<1>2. CASE Classify
  BY <1>2 DEF Classify, fileVars, lists, historyVars
<1>3. CASE Conflict
  BY <1>3 DEF Conflict, fileVars, lists, historyVars
<1>4. CASE Classified
  BY <1>4 DEF Classified, fileVars, lists, historyVars
<1>5. CASE MakeDirectory
  <2>1. PICK d \in Directories \ directories :
            /\ directories' = directories \cup {d}
            /\ \A e \in Directories : Inside(d, e) => e \in directories
    BY <1>5, MakeDirectoryEffect
  <2> QED
    BY <1>5, <2>1, MakeDirectoryEffect DEF historyVars
<1>6. CASE Publish
  BY <1>6, PublishEffect DEF historyVars
<1>7. CASE Published
  BY <1>7 DEF Published, fileVars, lists, historyVars
<1>8. CASE VerifyMember
  BY <1>8 DEF VerifyMember, fileVars, lists, historyVars
<1>9. CASE Bind
  BY <1>9 DEF Bind, fileVars, lists, historyVars
<1>10. CASE Fails
  BY <1>10 DEF Fails, fileVars, lists, historyVars
<1>11. CASE UndoNext
  <2>1. UNCHANGED <<stray, pc, before>> /\ pc = "undoing"
    BY <1>11, UndoNextEffect DEF historyVars
  <2>2. CASE disk' = [disk EXCEPT ![undo[1]] = "absent"] /\ directories' = directories
    BY <2>1, <2>2
  <2>3. CASE disk' = disk /\ directories' = directories
    BY <2>1, <2>3
  <2>4. CASE /\ undo[1] \in NewDirectories /\ Empty(undo[1])
             /\ disk' = disk /\ directories' = directories \ {undo[1]}
    BY <2>1, <2>4, EmptyMeansUnused DEF NewDirectories
  <2> QED
    BY <1>11, <2>2, <2>3, <2>4, UndoNextEffect
<1>12. CASE UndoBlocked
  BY <1>12 DEF UndoBlocked, fileVars, lists, historyVars
<1>13. CASE Undone
  BY <1>13 DEF Undone, fileVars, lists, historyVars
<1>14. CASE Killed
  BY <1>14 DEF Killed, fileVars, lists, historyVars, Phases
<1>15. CASE UNCHANGED vars
  BY <1>15 DEF vars, fileVars, lists, historyVars
<1> QED
  BY <1>1, <1>2, <1>3, <1>4, <1>5, <1>6, <1>7, <1>8, <1>9, <1>10, <1>11, <1>12,
     <1>13, <1>14, <1>15 DEF Next

\* Only conflicts have other contents, and a run starts with a manifest only beside
\* what it describes.
LEMMA ContainedStep ==
    ASSUME InstallerInv, [Next]_vars
    PROVE  Contained' /\ ManifestWasLast'
<1> USE DEF InstallerInv, TypeOK, Run, Contained, ManifestWasLast
<1>1. CASE Start
  BY <1>1 DEF Start, fileVars, lists, historyVars, Outcomes, ManifestIsLast
<1>2. CASE Classify
  BY <1>2 DEF Classify, fileVars, lists, historyVars
<1>3. CASE Conflict
  BY <1>3 DEF Conflict, fileVars, lists, historyVars
<1>4. CASE Classified
  BY <1>4 DEF Classified, fileVars, lists, historyVars
<1>5. CASE MakeDirectory
  BY <1>5, MakeDirectoryEffect DEF historyVars
<1>6. CASE Publish
  BY <1>6, PublishEffect DEF historyVars
<1>7. CASE Published
  BY <1>7 DEF Published, fileVars, lists, historyVars
<1>8. CASE VerifyMember
  BY <1>8 DEF VerifyMember, fileVars, lists, historyVars
<1>9. CASE Bind
  BY <1>9 DEF Bind, fileVars, lists, historyVars
<1>10. CASE Fails
  BY <1>10 DEF Fails, fileVars, lists, historyVars
<1>11. CASE UndoNext
  BY <1>11, UndoNextEffect DEF historyVars
<1>12. CASE UndoBlocked
  BY <1>12 DEF UndoBlocked, fileVars, lists, historyVars
<1>13. CASE Undone
  BY <1>13 DEF Undone, fileVars, lists, historyVars
<1>14. CASE Killed
  BY <1>14 DEF Killed, fileVars, lists, historyVars, Phases
<1>15. CASE UNCHANGED vars
  BY <1>15 DEF vars, fileVars, lists, historyVars
<1> QED
  BY <1>1, <1>2, <1>3, <1>4, <1>5, <1>6, <1>7, <1>8, <1>9, <1>10, <1>11, <1>12,
     <1>13, <1>14, <1>15 DEF Next

\* Classification notes what is missing, the manifest last.
LEMMA ClassifyingStep ==
    ASSUME InstallerInv, [Next]_vars
    PROVE  Classifying'
<1> USE DEF InstallerInv, TypeOK, Run, Classifying
<1>1. CASE Start
  <2>1. /\ UNCHANGED <<fileVars, original, installed, blocked>>
        /\ wants' \in {BundleMembers, StartupMembers} /\ left' = Wanted(wants')
        /\ pending' = <<>> /\ created' = <<>> /\ made' = <<>>
        /\ before' = <<disk, directories>>
        /\ pc' = "classifying" => ~stray
    BY <1>1 DEF Start
  <2>2. LastOf(left') /\ ToSet(left') = wants'
    BY <2>1, TheOrder
  <2>3. /\ pending' \in Seq(NewFiles') /\ LastOf(pending')
        /\ "model_manifest" \notin ToSet(pending')
    BY <2>1, EmptySeq DEF LastOf, ToSet
  <2>4. UNCHANGED <<disk, directories, stray>>
    BY <2>1 DEF fileVars
  <2> QED
    BY <2>1, <2>2, <2>3, <2>4
<1>2. CASE Classify
  <2>1. /\ pc = "classifying" /\ left # <<>> /\ disk[Head(left)] # "other"
        /\ left' = Tail(left)
        /\ pending' = IF disk[Head(left)] = "pinned" THEN pending
                      ELSE Append(pending, Head(left))
        /\ UNCHANGED <<disk, directories, stray, pc, wants, created, made, original, before,
                       installed>>
    BY <1>2 DEF Classify, fileVars, historyVars
  <2>2. left \in Seq(wants) /\ wants \subseteq BundleMembers
    BY TheMembers
  <2>3. /\ Head(left) \in wants /\ Head(left) = left[1]
        /\ Len(left) \in Nat \ {0} /\ Len(left') = Len(left) - 1
        /\ \A i \in 1..Len(left') : left'[i] = left[i + 1]
        /\ ToSet(left) = {Head(left)} \cup ToSet(left') /\ left' \in Seq(wants)
    BY <2>1, <2>2, TailOf
  <2>4. LastOf(left') /\ (Head(left) = "model_manifest" => left' = <<>>)
    <3>1. LastOf(left)
      BY <2>1
    <3> QED
      BY <2>1, <2>2, <3>1, LastOfTail
  <2>5. "model_manifest" \notin ToSet(pending)
    BY <2>1
  <2>7. CASE disk[Head(left)] = "pinned"
    <3>1. pending' = pending /\ NewFiles' = NewFiles
      BY <2>1, <2>7 DEF NewFiles
    <3>2. LastOf(pending')
      BY <2>1, <3>1
    <3>3. \A m \in wants : \/ m \in ToSet(left') \/ disk[m] = "pinned"
                           \/ disk[m] = "absent" /\ m \in ToSet(pending)
      BY <2>1, <2>3, <2>7
    <3> QED
      BY <2>1, <2>4, <2>5, <3>1, <3>2, <3>3
  <2>8. CASE disk[Head(left)] # "pinned"
    <3>1. disk[Head(left)] = "absent" /\ pending' = Append(pending, Head(left))
      BY <2>1, <2>2, <2>3, <2>8 DEF Contents
    <3>2. Head(left) \in NewFiles /\ NewFiles' = NewFiles
      BY <2>1, <2>2, <2>3, <3>1 DEF NewFiles, FilesSurvive
    <3>3. /\ pending' \in Seq(NewFiles) /\ Len(pending) \in Nat
          /\ Len(pending') = Len(pending) + 1 /\ pending'[Len(pending) + 1] = Head(left)
          /\ \A i \in 1..Len(pending) : pending'[i] = pending[i]
          /\ ToSet(pending') = ToSet(pending) \cup {Head(left)}
      BY <2>1, <3>1, <3>2, AppendOf
    <3>5. LastOf(pending')
      BY <2>1, <2>5, <3>1, <3>2, LastOfAppend
    <3>6. "model_manifest" \in ToSet(pending') => left' = <<>>
      BY <2>4, <2>5, <3>3
    <3>7. \A m \in wants : \/ m \in ToSet(left') \/ disk[m] = "pinned"
                           \/ disk[m] = "absent" /\ m \in ToSet(pending')
      BY <2>1, <2>3, <3>1, <3>3
    <3> QED
      BY <2>1, <2>4, <3>2, <3>3, <3>5, <3>6, <3>7
  <2> QED
    BY <2>7, <2>8
<1>3. CASE Conflict
  BY <1>3 DEF Conflict, fileVars, lists, historyVars
<1>4. CASE Classified
  BY <1>4 DEF Classified, fileVars, lists, historyVars
<1>5. CASE MakeDirectory
  BY <1>5, MakeDirectoryEffect DEF historyVars
<1>6. CASE Publish
  BY <1>6, PublishEffect DEF historyVars
<1>7. CASE Published
  BY <1>7 DEF Published, fileVars, lists, historyVars
<1>8. CASE VerifyMember
  BY <1>8 DEF VerifyMember, fileVars, lists, historyVars
<1>9. CASE Bind
  BY <1>9 DEF Bind, fileVars, lists, historyVars
<1>10. CASE Fails
  BY <1>10 DEF Fails, fileVars, lists, historyVars
<1>11. CASE UndoNext
  BY <1>11, UndoNextEffect DEF historyVars
<1>12. CASE UndoBlocked
  BY <1>12 DEF UndoBlocked, fileVars, lists, historyVars
<1>13. CASE Undone
  BY <1>13 DEF Undone, fileVars, lists, historyVars
<1>14. CASE Killed
  BY <1>14 DEF Killed, fileVars, lists, historyVars
<1>15. CASE UNCHANGED vars
  BY <1>15 DEF vars, fileVars, lists, historyVars, NewFiles, LastOf
<1> QED
  BY <1>1, <1>2, <1>3, <1>4, <1>5, <1>6, <1>7, <1>8, <1>9, <1>10, <1>11, <1>12,
     <1>13, <1>14, <1>15 DEF Next

\* A publication notes what it changes, in the order in which things use each other.
LEMMA PublishingStep ==
    ASSUME InstallerInv, [Next]_vars
    PROVE  Publishing'
<1> USE DEF InstallerInv, TypeOK, Run, Publishing
<1>1. CASE Start
  BY <1>1 DEF Start, fileVars, lists, historyVars
<1>2. CASE Classify
  BY <1>2 DEF Classify, fileVars, lists, historyVars
<1>3. CASE Conflict
  BY <1>3 DEF Conflict, fileVars, lists, historyVars
<1>4. CASE Classified
  <2>1. /\ pc = "classifying" /\ left = <<>> /\ left' = pending
        /\ UNCHANGED <<disk, directories, stray, wants, created, made, original, before,
                       installed>>
    BY <1>4 DEF Classified, fileVars, historyVars
  <2>2. /\ NewFiles' = NewFiles /\ NewDirectories' = NewDirectories
        /\ Present' = Present /\ WasPresent' = WasPresent
    BY <2>1 DEF NewFiles, NewDirectories, Present, WasPresent
  <2>3. /\ created = <<>> /\ made = <<>> /\ pending \in Seq(NewFiles) /\ LastOf(pending)
        /\ before = <<disk, directories>>
        /\ \A m \in wants : m \in ToSet(pending) \/ disk[m] = "pinned"
    BY <2>1 DEF Classifying, ToSet
  <2>4. /\ created \in Seq(NewFiles) /\ made \in Seq(NewDirectories) /\ Len(made) = 0
        /\ ToSet(created) = {} /\ ToSet(made) = {} /\ LastOf(created)
    BY <2>3, EmptySeq DEF ToSet, LastOf
  <2>5. Present = WasPresent
    BY <2>3 DEF Present, WasPresent
  <2> QED
    BY <2>1, <2>2, <2>3, <2>4, <2>5
<1>5. CASE MakeDirectory
  <2>1. PICK d \in Directories \ directories :
            /\ directories' = directories \cup {d} /\ made' = Append(made, d)
            /\ \A e \in Directories : Inside(d, e) => e \in directories
    BY <1>5, MakeDirectoryEffect
  <2>2. /\ pc = "publishing"
        /\ UNCHANGED <<disk, pc, wants, left, created, original, before, installed>>
    BY <1>5, MakeDirectoryEffect DEF historyVars
  <2>3. /\ NewFiles' = NewFiles /\ NewDirectories' = NewDirectories
        /\ Present' = Present \cup {d} /\ WasPresent' = WasPresent
    BY <2>1, <2>2 DEF NewFiles, NewDirectories, Present, WasPresent, There
  <2>4. d \in NewDirectories
    <3>1. d \notin BundleMembers
      BY TheDirectories
    <3>2. d \notin Present
      BY <2>1, <3>1 DEF Present, There
    <3> QED
      BY <2>1, <2>2, <3>2 DEF NewDirectories, WasPresent, There
  <2>5. /\ made' \in Seq(NewDirectories) /\ Len(made) \in Nat /\ Len(made') = Len(made) + 1
        /\ made'[Len(made) + 1] = d /\ \A i \in 1..Len(made) : made'[i] = made[i]
        /\ ToSet(made') = ToSet(made) \cup {d}
    BY <2>1, <2>2, <2>4, AppendOf
  <2>6. \A i \in 1..Len(made) : made[i] \in directories
    BY <2>2, ElementsOf
  <2>7. \A i \in 1..Len(made) : ~Inside(made[i], d)
    BY <2>1, <2>6 DEF Trees, Tree
  <2>8. ~Inside(d, d)
    BY TheTree
  <2>9. ASSUME NEW i \in 1..Len(made'), NEW k \in 1..Len(made'), Inside(made'[i], made'[k])
        PROVE  k < i
    <3>1. CASE k = Len(made) + 1
      <4>1. made'[k] = d
        BY <2>5, <3>1
      <4>2. CASE i = Len(made) + 1
        BY <2>5, <2>8, <2>9, <4>1, <4>2
      <4>3. CASE i # Len(made) + 1
        <5>1. i \in 1..Len(made) /\ made'[i] = made[i]
          BY <2>5, <4>3
        <5> QED
          BY <2>7, <2>9, <4>1, <5>1
      <4> QED
        BY <4>2, <4>3
    <3>2. CASE k # Len(made) + 1 /\ i = Len(made) + 1
      BY <2>5, <3>2
    <3>3. CASE k # Len(made) + 1 /\ i # Len(made) + 1
      <4>1. i \in 1..Len(made) /\ k \in 1..Len(made)
        BY <2>5, <3>3
      <4>2. Inside(made[i], made[k])
        BY <2>5, <2>9, <4>1
      <4> QED
        BY <2>2, <4>1, <4>2
    <3> QED
      BY <3>1, <3>2, <3>3
  <2> QED
    BY <2>1, <2>2, <2>3, <2>5, <2>9
<1>6. CASE Publish
  <2>1. PICK m \in NewFiles :
            /\ m \in BundleMembers /\ disk' = [disk EXCEPT ![m] = "pinned"]
            /\ created' = Append(created, m) /\ left' = Tail(left) /\ m = left[1]
            /\ ToSet(left) = {m} \cup ToSet(left')
    BY <1>6, PublishEffect
  <2>2. /\ pc = "publishing" /\ left # <<>>
        /\ UNCHANGED <<directories, pc, wants, made, original, before, installed>>
    BY <1>6, PublishEffect DEF historyVars
  <2>3. /\ NewFiles' = NewFiles /\ NewDirectories' = NewDirectories
        /\ Present' = Present \cup {m} /\ WasPresent' = WasPresent
    BY <2>1, <2>2 DEF NewFiles, NewDirectories, Present, WasPresent, There
  <2>4. /\ left' \in Seq(NewFiles) /\ LastOf(left')
        /\ m = "model_manifest" => left' = <<>>
    BY <2>1, <2>2, TailOf, LastOfTail
  <2>5. /\ created' \in Seq(NewFiles) /\ ToSet(created') = ToSet(created) \cup {m}
        /\ LastOf(created')
    BY <2>1, <2>2, AppendOf, LastOfAppend
  <2>6. \A n \in wants : n \in ToSet(left') \/ disk'[n] = "pinned"
    BY <2>1, <2>2, TheMembers
  <2>7. \A n \in BundleMembers : before'[1][n] # "absent" => disk'[n] = before'[1][n]
    BY <2>1, <2>2 DEF NewFiles
  <2> QED
    BY <2>1, <2>2, <2>3, <2>4, <2>5, <2>6, <2>7
<1>7. CASE Published
  BY <1>7 DEF Published, fileVars, lists, historyVars
<1>8. CASE VerifyMember
  BY <1>8 DEF VerifyMember, fileVars, lists, historyVars
<1>9. CASE Bind
  BY <1>9 DEF Bind, fileVars, lists, historyVars
<1>10. CASE Fails
  BY <1>10 DEF Fails, fileVars, lists, historyVars
<1>11. CASE UndoNext
  BY <1>11, UndoNextEffect DEF historyVars
<1>12. CASE UndoBlocked
  BY <1>12 DEF UndoBlocked, fileVars, lists, historyVars
<1>13. CASE Undone
  BY <1>13 DEF Undone, fileVars, lists, historyVars
<1>14. CASE Killed
  BY <1>14 DEF Killed, fileVars, lists, historyVars
<1>15. CASE UNCHANGED vars
  BY <1>15 DEF vars, fileVars, lists, historyVars, NewFiles, NewDirectories, Present, WasPresent
<1> QED
  BY <1>1, <1>2, <1>3, <1>4, <1>5, <1>6, <1>7, <1>8, <1>9, <1>10, <1>11, <1>12,
     <1>13, <1>14, <1>15 DEF Next

\* What uses something new is new itself.
LEMMA UsersAreNew ==
    ASSUME InstallerInv, pc = "publishing", ~blocked,
           NEW x, NEW y \in NewFiles \cup NewDirectories, Uses(x, y)
    PROVE  x \notin WasPresent
<1> SUFFICES ASSUME x \in WasPresent PROVE FALSE
  OBVIOUS
<1>1. /\ Tree(before[1], before[2])
      /\ original["model_manifest"] = "absent" /\ before[1]["model_manifest"] # "absent" =>
            before[1]["model"] # "absent" /\ before[1]["training_report"] # "absent"
      /\ before[2] \subseteq Directories /\ wants \subseteq BundleMembers
  BY TheMembers DEF InstallerInv, TypeOK, Run, Trees, ManifestWasLast
<1>2. /\ y \in Directories => y \notin before[2]
      /\ y \in BundleMembers => before[1][y] = "absent"
  BY <1>1, TheDirectories DEF NewFiles, NewDirectories
<1>3. /\ x \in BundleMembers => before[1][x] # "absent"
      /\ x \in Directories => x \in before[2]
  BY <1>1, TheDirectories DEF WasPresent, There
<1>4. CASE x \in BundleMembers /\ y = Parent(x)
  <2>1. y \in Directories
    BY <1>4, TheDirectories
  <2> QED
    BY <1>1, <1>2, <1>3, <1>4, <2>1 DEF Tree
<1>5. CASE Inside(x, y)
  <2>1. x \in Directories /\ y \in Directories
    BY <1>5, TheTree, TheDirectories
  <2> QED
    BY <1>1, <1>2, <1>3, <1>5, <2>1 DEF Tree
<1>6. CASE Describes(x, y)
  <2>1. x \in BundleMembers /\ y \in BundleMembers
    BY <1>6, TheMembers DEF Describes
  <2> QED
    BY <1>1, <1>2, <1>3, <1>6, <2>1 DEF Describes
<1> QED
  BY <1>4, <1>5, <1>6 DEF Uses

\* Everything new is undone, and nothing before what uses it.
LEMMA UndoListOrdered ==
    ASSUME InstallerInv, pc = "publishing"
    PROVE  /\ UndoList \in Seq(NewFiles \cup NewDirectories) /\ Len(UndoList) \in Nat
           /\ \A x \in ToSet(created) \cup ToSet(made) :
                \E k \in 1..Len(UndoList) : UndoList[k] = x
           /\ ~blocked => \A i \in 1..Len(UndoList) : \A x \in Present :
                Uses(x, UndoList[i]) => \E k \in 1..(i - 1) : UndoList[k] = x
<1>1. /\ created \in Seq(NewFiles) /\ made \in Seq(NewDirectories) /\ LastOf(created)
      /\ Present \subseteq WasPresent \cup ToSet(created) \cup ToSet(made)
      /\ \A i, k \in 1..Len(made) : Inside(made[i], made[k]) => k < i
  BY DEF InstallerInv, Publishing
<1>2. NewFiles \subseteq BundleMembers /\ NewDirectories \subseteq Directories
  BY TheMembers DEF InstallerInv, TypeOK, NewFiles, NewDirectories
<1>3. /\ created \in Seq(NewFiles \cup NewDirectories)
      /\ made \in Seq(NewFiles \cup NewDirectories)
  BY <1>1, ElementsOf
<1> DEFINE n == Len(created)
           d == Len(made)
           U == UndoList
<1>4. /\ U \in Seq(NewFiles \cup NewDirectories) /\ n \in Nat /\ d \in Nat
      /\ Len(U) = n + d /\ \A i \in 1..n : U[i] = created[n - i + 1]
      /\ \A i \in 1..d : U[n + i] = made[d - i + 1]
  BY <1>3, UndoListOf
<1> HIDE DEF n, d, U
<1>5. ASSUME NEW x \in ToSet(created) PROVE \E k \in 1..n : U[k] = x
  <2>1. PICK a \in 1..n : created[a] = x
    BY <1>1, <1>5, ElementsOf DEF n
  <2>2. n - a + 1 \in 1..n /\ n - (n - a + 1) + 1 = a
    BY <1>4
  <2> QED
    BY <1>4, <2>1, <2>2
<1>6. ASSUME NEW b \in 1..d PROVE d - b + 1 \in 1..d /\ U[n + (d - b + 1)] = made[b]
  <2>1. d - b + 1 \in 1..d /\ d - (d - b + 1) + 1 = b
    BY <1>4
  <2> QED
    BY <1>4, <2>1
<1>7. ASSUME NEW x \in ToSet(created) \cup ToSet(made) PROVE \E k \in 1..Len(U) : U[k] = x
  <2>1. CASE x \in ToSet(created)
    <3>1. PICK k \in 1..n : U[k] = x
      BY <1>5, <2>1
    <3>2. k \in 1..Len(U)
      BY <1>4
    <3> QED
      BY <3>1, <3>2
  <2>2. CASE x \in ToSet(made)
    <3>1. PICK b \in 1..d : made[b] = x
      BY <1>1, <2>2, ElementsOf DEF d
    <3>2. n + (d - b + 1) \in 1..Len(U)
      BY <1>4
    <3> QED
      BY <1>6, <3>1, <3>2
  <2> QED
    BY <1>7, <2>1, <2>2
<1>8. ASSUME ~blocked, NEW i \in 1..Len(U), NEW x \in Present, Uses(x, U[i])
      PROVE  \E k \in 1..(i - 1) : U[k] = x
  <2>1. U[i] \in NewFiles \cup NewDirectories
    BY <1>4, ElementOfSeq
  <2>2. x \in ToSet(created) \cup ToSet(made)
    BY <1>1, <1>8, <2>1, UsersAreNew
  <2>3. CASE i <= n
    <3>1. i \in 1..n
      BY <1>4, <2>3
    <3>2. n - i + 1 \in 1..n
      BY <1>4, <3>1
    <3>3. U[i] \in BundleMembers
      BY <1>1, <1>2, <1>4, <3>1, <3>2, ElementOfSeq DEF n
    <3>4. Describes(x, U[i])
      <4>1. ~(x \in BundleMembers /\ U[i] = Parent(x))
        BY <3>3, TheDirectories
      <4>2. ~Inside(x, U[i])
        BY <3>3, TheTree, TheDirectories
      <4> QED
        BY <1>8, <4>1, <4>2 DEF Uses
    <3>5. x = "model_manifest" /\ U[i] # x
      BY <3>4 DEF Describes
    <3>6. x \notin ToSet(made)
      BY <1>1, <1>2, <3>5, ElementsOf, TheDirectories, TheMembers
    <3>7. PICK a \in 1..n : created[a] = x
      BY <1>1, <2>2, <3>6, ElementsOf DEF n
    <3>8. a = n
      BY <1>1, <3>5, <3>7 DEF LastOf, n
    <3>9. 1 \in 1..n /\ n - 1 + 1 = n
      BY <1>4, <3>7
    <3>10. U[1] = x
      BY <1>4, <3>7, <3>8, <3>9
    <3>11. 1 \in 1..(i - 1)
      BY <3>1, <3>5, <3>10, <1>4
    <3> QED
      BY <3>10, <3>11
  <2>4. CASE ~(i <= n)
    <3>1. PICK j \in 1..d : i = n + j
      <4>1. i - n \in 1..d /\ i = n + (i - n)
        BY <1>4, <2>4
      <4> QED
        BY <4>1
    <3>2. U[i] = made[d - j + 1]
      BY <1>4, <3>1
    <3>5. d - j + 1 \in 1..d
      BY <1>4, <3>1
    <3>3. CASE x \in ToSet(created)
      <4>1. PICK k \in 1..n : U[k] = x
        BY <1>5, <3>3
      <4>2. k \in 1..(i - 1)
        BY <1>4, <2>4
      <4> QED
        BY <4>1, <4>2
    <3>4. CASE x \in ToSet(made)
      <4>1. PICK b \in 1..d : made[b] = x
        BY <1>1, <3>4, ElementsOf DEF d
      <4>2. x \in Directories
        BY <1>1, <1>2, <3>4, ElementsOf
      <4>3. Inside(x, U[i])
        BY <1>8, <4>2, TheDirectories, TheMembers DEF Uses, Describes
      <4>4. d - j + 1 < b
        BY <1>1, <3>2, <3>5, <4>1, <4>3 DEF d
      <4>5. n + (d - b + 1) \in 1..(i - 1)
        BY <1>4, <3>1, <4>4
      <4> QED
        BY <1>6, <4>1, <4>5
    <3> QED
      BY <2>2, <3>3, <3>4
  <2> QED
    BY <2>3, <2>4
<1> QED
  BY <1>4, <1>7, <1>8 DEF U

\* A rollback that is run twice removes everything new, and nothing before what uses it.
LEMMA UndoListTwice ==
    ASSUME InstallerInv, pc = "publishing"
    PROVE  LET twice == UndoList \o UndoList
           IN  /\ twice \in Seq(NewFiles \cup NewDirectories)
               /\ \A x \in ToSet(created) \cup ToSet(made) : x \in ToSet(twice)
               /\ ~blocked => \A i \in 1..Len(twice) : \A x \in Present :
                    Uses(x, twice[i]) => \E k \in 1..(i - 1) : twice[k] = x
<1> DEFINE U == UndoList
           twice == U \o U
           n == Len(U)
<1>1. /\ U \in Seq(NewFiles \cup NewDirectories) /\ n \in Nat
      /\ \A x \in ToSet(created) \cup ToSet(made) : \E k \in 1..n : U[k] = x
      /\ ~blocked => \A i \in 1..n : \A x \in Present :
            Uses(x, U[i]) => \E k \in 1..(i - 1) : U[k] = x
  BY UndoListOrdered
<1>2. Present \subseteq WasPresent \cup ToSet(created) \cup ToSet(made)
  BY DEF InstallerInv, Publishing
<1> HIDE DEF U
<1>3. /\ twice \in Seq(NewFiles \cup NewDirectories) /\ Len(twice) = n + n
      /\ \A i \in 1..(n + n) : twice[i] = IF i <= n THEN U[i] ELSE U[i - n]
  BY <1>1, ConcatProperties
<1>4. \A k \in 1..n : k \in 1..(n + n) /\ twice[k] = U[k]
  BY <1>1, <1>3
<1> HIDE DEF twice, n
<1>5. ASSUME NEW x \in ToSet(created) \cup ToSet(made) PROVE x \in ToSet(twice)
  <2>1. PICK k \in 1..n : U[k] = x
    BY <1>1
  <2>2. k \in 1..Len(twice) /\ twice[k] = x
    BY <1>3, <1>4, <2>1
  <2> QED
    BY <1>3, <2>2, ElementsOf
<1>6. ASSUME ~blocked, NEW i \in 1..Len(twice), NEW x \in Present, Uses(x, twice[i])
      PROVE  \E k \in 1..(i - 1) : twice[k] = x
  <2>1. CASE i <= n
    <3>1. i \in 1..n /\ twice[i] = U[i]
      BY <1>1, <1>3, <2>1
    <3>2. PICK k \in 1..(i - 1) : U[k] = x
      BY <1>1, <1>6, <3>1
    <3>3. k \in 1..n
      BY <1>1, <3>1, <3>2
    <3> QED
      BY <1>4, <3>2, <3>3
  <2>2. CASE ~(i <= n)
    <3>1. i - n \in 1..n /\ twice[i] = U[i - n]
      BY <1>1, <1>3, <2>2
    <3>2. twice[i] \in NewFiles \cup NewDirectories
      BY <1>1, <3>1, ElementOfSeq DEF n
    <3>3. x \in ToSet(created) \cup ToSet(made)
      BY <1>2, <1>6, <3>2, UsersAreNew
    <3>4. PICK k \in 1..n : U[k] = x
      BY <1>1, <3>3
    <3>5. k \in 1..(i - 1)
      BY <1>1, <1>3, <2>2, <3>4
    <3> QED
      BY <1>4, <3>4, <3>5
  <2> QED
    BY <2>1, <2>2
<1> QED
  BY <1>3, <1>5, <1>6 DEF twice, U

\* A rollback that was never refused a step removes what it comes to: nothing that
\* is left uses it.
LEMMA RollbackRemoves ==
    ASSUME InstallerInv, UndoNext
    PROVE  /\ Present' \in {Present, Present \ {undo[1]}}
           /\ \A m \in BundleMembers : disk'[m] = disk[m] \/ (m = undo[1] /\ m \in NewFiles)
           /\ ~blocked => Present' = Present \ {undo[1]}
<1>1. disk \in [BundleMembers -> Contents] /\ directories \subseteq Directories
  BY DEF InstallerInv, TypeOK
<1>2. CASE /\ undo[1] \in NewFiles /\ undo[1] \in BundleMembers
           /\ disk' = [disk EXCEPT ![undo[1]] = "absent"] /\ directories' = directories
  <2>1. undo[1] \notin Directories
    BY <1>2, TheDirectories
  <2>2. /\ \A m \in BundleMembers : m # undo[1] => disk'[m] = disk[m]
        /\ disk'[undo[1]] = "absent"
    BY <1>1, <1>2
  <2>3. Present' = Present \ {undo[1]}
    BY <1>1, <1>2, <2>1, <2>2 DEF Present, There
  <2> QED
    BY <1>2, <2>2, <2>3
<1>3. CASE /\ undo[1] \in NewDirectories /\ disk' = disk
           /\ directories' = IF Empty(undo[1]) THEN directories \ {undo[1]} ELSE directories
  <2>1. undo[1] \in Directories /\ undo[1] \notin BundleMembers
    BY <1>3, TheDirectories DEF NewDirectories
  <2>2. /\ Empty(undo[1]) => Present' = Present \ {undo[1]}
        /\ ~Empty(undo[1]) => Present' = Present
    BY <1>3, <2>1 DEF Present, There
  <2>3. ASSUME ~blocked PROVE Empty(undo[1])
    <3>1. /\ pc = "undoing" /\ undo # <<>> /\ undo \in Seq(NewFiles \cup NewDirectories)
          /\ \A i \in 1..Len(undo) : \A x \in Present :
                Uses(x, undo[i]) => \E k \in 1..(i - 1) : undo[k] = x
          /\ ~stray
      BY <2>3, UndoNextEffect DEF InstallerInv, Undoing, Verified
    <3>2. 1 \in 1..Len(undo) /\ 1..(1 - 1) = {}
      BY <3>1, EmptySeq, LenProperties
    <3>3. \A x \in Present : ~Uses(x, undo[1])
      BY <3>1, <3>2
    <3>4. /\ \A m \in BundleMembers : disk[m] # "absent" => Parent(m) # undo[1]
          /\ \A c \in directories : ~Inside(c, undo[1])
      BY <3>3 DEF Uses, Present, There
    <3> QED
      BY <2>1, <3>1, <3>4, EmptyMeansUnused
  <2>4. Present' \in {Present, Present \ {undo[1]}}
    BY <2>2
  <2>5. ~blocked => Present' = Present \ {undo[1]}
    BY <2>2, <2>3
  <2>6. \A m \in BundleMembers : disk'[m] = disk[m]
    BY <1>3
  <2> QED
    BY <2>4, <2>5, <2>6
<1> QED
  BY <1>2, <1>3, UndoNextEffect

\* A rollback keeps to its list, and the list to what is left.
LEMMA UndoingStep ==
    ASSUME InstallerInv, [Next]_vars
    PROVE  Undoing'
<1> USE DEF InstallerInv, Undoing
<1>1. CASE Start
  BY <1>1 DEF Start, fileVars, lists, historyVars
<1>2. CASE Classify
  BY <1>2 DEF Classify, fileVars, lists, historyVars
<1>3. CASE Conflict
  BY <1>3 DEF Conflict, fileVars, lists, historyVars
<1>4. CASE Classified
  BY <1>4 DEF Classified, fileVars, lists, historyVars
<1>5. CASE MakeDirectory
  BY <1>5, MakeDirectoryEffect DEF historyVars
<1>6. CASE Publish
  BY <1>6, PublishEffect DEF historyVars
<1>7. CASE Published
  BY <1>7 DEF Published, fileVars, lists, historyVars
<1>8. CASE VerifyMember
  BY <1>8 DEF VerifyMember, fileVars, lists, historyVars
<1>9. CASE Bind
  BY <1>9 DEF Bind, fileVars, lists, historyVars
<1>10. CASE Fails
  <2>1. CASE pc = "publishing"
    <3>1. /\ faulty' = TRUE /\ undo' = UndoList \o UndoList
          /\ UNCHANGED <<disk, directories, wants, original, before, installed, blocked>>
      BY <1>10, <2>1 DEF Fails, fileVars
    <3>2. /\ NewFiles' = NewFiles /\ NewDirectories' = NewDirectories
          /\ Present' = Present /\ WasPresent' = WasPresent
          /\ \A x, y : Uses(x, y)' <=> Uses(x, y)
      BY <3>1 DEF NewFiles, NewDirectories, Present, WasPresent, Uses, Describes
    <3>3. /\ WasPresent \subseteq Present
          /\ Present \subseteq WasPresent \cup ToSet(created) \cup ToSet(made)
          /\ \A m \in BundleMembers : before[1][m] # "absent" => disk[m] = before[1][m]
      BY <2>1 DEF Publishing
    <3>4. /\ undo' \in Seq(NewFiles \cup NewDirectories)
          /\ \A x \in ToSet(created) \cup ToSet(made) : x \in ToSet(undo')
          /\ ~blocked => \A i \in 1..Len(undo') : \A x \in Present :
                Uses(x, undo'[i]) => \E k \in 1..(i - 1) : undo'[k] = x
      BY <2>1, <3>1, UndoListTwice
    <3>5. Present \subseteq WasPresent \cup ToSet(undo')
      BY <3>3, <3>4
    <3> QED
      BY <3>1, <3>2, <3>3, <3>4, <3>5
  <2>2. CASE pc # "publishing"
    BY <1>10, <2>2 DEF Fails
  <2> QED
    BY <2>1, <2>2
<1>11. CASE UndoNext
  <2>1. /\ pc = "undoing" /\ undo # <<>> /\ undo' = Tail(undo)
        /\ ToSet(undo) = {undo[1]} \cup ToSet(undo')
        /\ UNCHANGED <<stray, wants, original, before, installed, faulty, blocked>>
    BY <1>11, UndoNextEffect DEF historyVars
  <2>2. /\ NewFiles' = NewFiles /\ NewDirectories' = NewDirectories
        /\ WasPresent' = WasPresent /\ \A x, y : Uses(x, y)' <=> Uses(x, y)
    BY <2>1 DEF NewFiles, NewDirectories, WasPresent, Uses, Describes
  <2>3. /\ faulty /\ undo \in Seq(NewFiles \cup NewDirectories) /\ WasPresent \subseteq Present
        /\ \A m \in BundleMembers : before[1][m] # "absent" => disk[m] = before[1][m]
        /\ ~blocked => Present \subseteq WasPresent \cup ToSet(undo)
        /\ ~blocked => \A i \in 1..Len(undo) : \A x \in Present :
                Uses(x, undo[i]) => \E k \in 1..(i - 1) : undo[k] = x
    BY <2>1
  <2>4. /\ undo' \in Seq(NewFiles \cup NewDirectories) /\ Len(undo) \in Nat \ {0}
        /\ Len(undo') = Len(undo) - 1 /\ \A i \in 1..Len(undo') : undo'[i] = undo[i + 1]
    BY <2>1, <2>3, TailOf
  <2>5. undo[1] \in NewFiles \cup NewDirectories /\ undo[1] \notin WasPresent
    <3>1. undo[1] \in NewFiles \cup NewDirectories
      BY <2>3, <2>4, ElementOfSeq
    <3>2. NewFiles \subseteq BundleMembers /\ before[2] \subseteq Directories
      BY <2>1, TheMembers DEF TypeOK, Run, NewFiles
    <3> QED
      BY <3>1, <3>2, TheDirectories DEF NewFiles, NewDirectories, WasPresent, There
  <2>6. /\ Present' \in {Present, Present \ {undo[1]}}
        /\ \A m \in BundleMembers : disk'[m] = disk[m] \/ (m = undo[1] /\ m \in NewFiles)
        /\ ~blocked => Present' = Present \ {undo[1]}
    BY <1>11, RollbackRemoves
  <2>7. /\ WasPresent' \subseteq Present'
        /\ \A m \in BundleMembers : before'[1][m] # "absent" => disk'[m] = before'[1][m]
    BY <2>1, <2>2, <2>3, <2>5, <2>6 DEF NewFiles
  <2>8. ~blocked => Present' \subseteq WasPresent' \cup ToSet(undo')
    BY <2>1, <2>2, <2>3, <2>6
  <2>9. ASSUME ~blocked, NEW i \in 1..Len(undo'), NEW x \in Present', Uses(x, undo'[i])
        PROVE  \E k \in 1..(i - 1) : undo'[k] = x
    <3>1. /\ i + 1 \in 1..Len(undo) /\ undo'[i] = undo[i + 1] /\ (i + 1) - 1 = i
          /\ x \in Present /\ x # undo[1]
      BY <2>4, <2>6, <2>9
    <3>2. Uses(x, undo[i + 1])
      BY <2>9, <3>1
    <3>3. PICK k \in 1..i : undo[k] = x
      <4>1. \E k \in 1..((i + 1) - 1) : undo[k] = x
        BY <2>3, <2>9, <3>1, <3>2
      <4> QED
        BY <3>1, <4>1
    <3>4. k # 1
      BY <3>1, <3>3
    <3>5. k - 1 \in 1..(i - 1) /\ k - 1 \in 1..Len(undo') /\ (k - 1) + 1 = k
      BY <2>4, <3>3, <3>4
    <3>6. undo'[k - 1] = x
      BY <2>4, <3>3, <3>5
    <3> QED
      BY <3>5, <3>6
  <2>10. \A i \in 1..Len(undo') : \A x \in Present' :
            ~blocked /\ Uses(x, undo'[i]) => \E k \in 1..(i - 1) : undo'[k] = x
    BY <2>9
  <2> QED
    BY <2>1, <2>2, <2>3, <2>4, <2>7, <2>8, <2>10
<1>12. CASE UndoBlocked
  <2>1. /\ pc = "undoing" /\ undo # <<>> /\ undo' = Tail(undo) /\ blocked'
        /\ UNCHANGED <<disk, directories, wants, original, before, installed, faulty>>
    BY <1>12 DEF UndoBlocked, fileVars
  <2>2. /\ NewFiles' = NewFiles /\ NewDirectories' = NewDirectories
        /\ Present' = Present /\ WasPresent' = WasPresent
    BY <2>1 DEF NewFiles, NewDirectories, Present, WasPresent
  <2>3. undo' \in Seq(NewFiles \cup NewDirectories)
    BY <2>1, TailOf
  <2> QED
    BY <2>1, <2>2, <2>3
<1>13. CASE Undone
  BY <1>13 DEF Undone, fileVars, lists, historyVars
<1>14. CASE Killed
  BY <1>14 DEF Killed, fileVars, lists, historyVars
<1>15. CASE UNCHANGED vars
  BY <1>15 DEF vars, fileVars, lists, historyVars, NewFiles, NewDirectories, Present, WasPresent, Uses, Describes
<1> QED
  BY <1>1, <1>2, <1>3, <1>4, <1>5, <1>6, <1>7, <1>8, <1>9, <1>10, <1>11, <1>12,
     <1>13, <1>14, <1>15 DEF Next

\* What a run publishes or undoes is not in conflict, and what it verifies is there.
LEMMA VerifiedStep ==
    ASSUME InstallerInv, [Next]_vars
    PROVE  Verified'
<1> USE DEF InstallerInv, Verified
<1>1. CASE Start
  BY <1>1 DEF Start, fileVars, lists, historyVars
<1>2. CASE Classify
  BY <1>2 DEF Classify, fileVars, lists, historyVars
<1>3. CASE Conflict
  BY <1>3 DEF Conflict, fileVars, lists, historyVars
<1>4. CASE Classified
  <2>1. /\ pc = "classifying" /\ left = <<>> /\ pc' = "publishing"
        /\ UNCHANGED <<disk, stray, wants, original>>
    BY <1>4 DEF Classified, fileVars, historyVars
  <2>2. \A m \in wants : disk[m] # "other" /\ m \in BundleMembers
    BY <2>1, TheMembers DEF Classifying, ToSet, TypeOK
  <2>3. ~stray /\ \A m \in wants : original[m] # "other"
    BY <2>1, <2>2 DEF Classifying, FilesSurvive
  <2> QED
    BY <2>1, <2>3
<1>5. CASE MakeDirectory
  BY <1>5, MakeDirectoryEffect DEF historyVars
<1>6. CASE Publish
  BY <1>6, PublishEffect DEF historyVars
<1>7. CASE Published
  <2>1. /\ pc = "publishing" /\ left = <<>> /\ pc' = "verifying"
        /\ UNCHANGED <<disk, stray, wants, original>>
    BY <1>7 DEF Published, fileVars, historyVars
  <2>2. \A m \in wants : disk[m] = "pinned"
    BY <2>1 DEF Publishing, ToSet
  <2> QED
    BY <2>1, <2>2
<1>8. CASE VerifyMember
  BY <1>8 DEF VerifyMember, fileVars, lists, historyVars
<1>9. CASE Bind
  BY <1>9 DEF Bind, fileVars, lists, historyVars
<1>10. CASE Fails
  BY <1>10 DEF Fails, fileVars, lists, historyVars
<1>11. CASE UndoNext
  BY <1>11, UndoNextEffect DEF historyVars
<1>12. CASE UndoBlocked
  BY <1>12 DEF UndoBlocked, fileVars, lists, historyVars
<1>13. CASE Undone
  BY <1>13 DEF Undone, fileVars, lists, historyVars
<1>14. CASE Killed
  BY <1>14 DEF Killed, fileVars, lists, historyVars
<1>15. CASE UNCHANGED vars
  BY <1>15 DEF vars, fileVars, lists, historyVars
<1> QED
  BY <1>1, <1>2, <1>3, <1>4, <1>5, <1>6, <1>7, <1>8, <1>9, <1>10, <1>11, <1>12,
     <1>13, <1>14, <1>15 DEF Next

\* What was there at first, and what was reported installed, is left alone.
LEMMA FilesSurviveStep ==
    ASSUME InstallerInv, [Next]_vars
    PROVE  FilesSurvive'
<1> USE DEF InstallerInv, FilesSurvive
<1>1. CASE Start
  BY <1>1 DEF Start, fileVars, lists, historyVars
<1>2. CASE Classify
  BY <1>2 DEF Classify, fileVars, lists, historyVars
<1>3. CASE Conflict
  BY <1>3 DEF Conflict, fileVars, lists, historyVars
<1>4. CASE Classified
  BY <1>4 DEF Classified, fileVars, lists, historyVars
<1>5. CASE MakeDirectory
  BY <1>5, MakeDirectoryEffect DEF historyVars
<1>6. CASE Publish
  <2>1. PICK m \in NewFiles : m \in BundleMembers /\ disk' = [disk EXCEPT ![m] = "pinned"]
    BY <1>6, PublishEffect
  <2>2. UNCHANGED <<original, installed>>
    BY <1>6, PublishEffect DEF historyVars
  <2> QED
    BY <2>1, <2>2 DEF NewFiles, TypeOK
<1>7. CASE Published
  BY <1>7 DEF Published, fileVars, lists, historyVars
<1>8. CASE VerifyMember
  BY <1>8 DEF VerifyMember, fileVars, lists, historyVars
<1>9. CASE Bind
  BY <1>9 DEF Bind, fileVars, lists, historyVars, Verified
<1>10. CASE Fails
  BY <1>10 DEF Fails, fileVars, lists, historyVars
<1>11. CASE UndoNext
  <2>1. \A m \in BundleMembers : disk'[m] = disk[m] \/ m \in NewFiles
    BY <1>11, RollbackRemoves
  <2>2. UNCHANGED <<original, installed>>
    BY <1>11, UndoNextEffect DEF historyVars
  <2> QED
    BY <2>1, <2>2 DEF NewFiles
<1>12. CASE UndoBlocked
  BY <1>12 DEF UndoBlocked, fileVars, lists, historyVars
<1>13. CASE Undone
  BY <1>13 DEF Undone, fileVars, lists, historyVars
<1>14. CASE Killed
  BY <1>14 DEF Killed, fileVars, lists, historyVars
<1>15. CASE UNCHANGED vars
  BY <1>15 DEF vars, fileVars, lists, historyVars
<1> QED
  BY <1>1, <1>2, <1>3, <1>4, <1>5, <1>6, <1>7, <1>8, <1>9, <1>10, <1>11, <1>12,
     <1>13, <1>14, <1>15 DEF Next

\* A rollback that was never refused a step ends where its run began.
LEMMA ExactStep ==
    ASSUME InstallerInv, [Next]_vars
    PROVE  (pc = "rolledBack" /\ ~blocked => <<disk, directories>> = before)'
<1> USE DEF InstallerInv, RollbackIsExact
<1>1. CASE Start
  BY <1>1 DEF Start, fileVars, lists, historyVars
<1>2. CASE Classify
  BY <1>2 DEF Classify, fileVars, lists, historyVars
<1>3. CASE Conflict
  BY <1>3 DEF Conflict, fileVars, lists, historyVars
<1>4. CASE Classified
  BY <1>4 DEF Classified, fileVars, lists, historyVars
<1>5. CASE MakeDirectory
  BY <1>5, MakeDirectoryEffect DEF historyVars
<1>6. CASE Publish
  BY <1>6, PublishEffect DEF historyVars
<1>7. CASE Published
  BY <1>7 DEF Published, fileVars, lists, historyVars
<1>8. CASE VerifyMember
  BY <1>8 DEF VerifyMember, fileVars, lists, historyVars
<1>9. CASE Bind
  BY <1>9 DEF Bind, fileVars, lists, historyVars
<1>10. CASE Fails
  BY <1>10 DEF Fails, fileVars, lists, historyVars
<1>11. CASE UndoNext
  BY <1>11, UndoNextEffect DEF historyVars
<1>12. CASE UndoBlocked
  BY <1>12 DEF UndoBlocked, fileVars, lists, historyVars
<1>13. CASE Undone
  <2>1. /\ pc = "undoing" /\ undo = <<>>
        /\ UNCHANGED <<disk, directories, before, blocked>>
    BY <1>13 DEF Undone, fileVars, historyVars
  <2>2. ASSUME ~blocked PROVE <<disk, directories>> = before
    <3>1. /\ Present = WasPresent
          /\ \A m \in BundleMembers : before[1][m] # "absent" => disk[m] = before[1][m]
      <4>1. ToSet(undo) = {}
        BY <2>1 DEF ToSet
      <4> QED
        BY <2>1, <2>2, <4>1 DEF Undoing
    <3>2. /\ disk \in [BundleMembers -> Contents] /\ directories \subseteq Directories
          /\ before \in [BundleMembers -> Contents] \X SUBSET Directories
      BY <2>1 DEF TypeOK, Run
    <3>3. \A m \in BundleMembers : disk[m] = before[1][m]
      BY <3>1, <3>2, TheDirectories DEF Present, WasPresent, There
    <3>4. directories = before[2]
      <4>1. \A d \in Directories : d \in directories <=> d \in before[2]
        BY <3>1, TheDirectories DEF Present, WasPresent, There
      <4>2. before[2] \subseteq Directories
        BY <3>2
      <4> QED
        BY <3>2, <4>1, <4>2
    <3>5. disk = before[1]
      BY <3>2, <3>3
    <3> QED
      BY <3>2, <3>4, <3>5
  <2> QED
    BY <2>1, <2>2
<1>14. CASE Killed
  BY <1>14 DEF Killed, fileVars, lists, historyVars, Phases
<1>15. CASE UNCHANGED vars
  BY <1>15 DEF vars, fileVars, lists, historyVars
<1> QED
  BY <1>1, <1>2, <1>3, <1>4, <1>5, <1>6, <1>7, <1>8, <1>9, <1>10, <1>11, <1>12,
     <1>13, <1>14, <1>15 DEF Next

\* A run that is in conflict writes nothing.
LEMMA ConflictWritesNothingStep ==
    ASSUME InstallerInv, [Next]_vars
    PROVE  ConflictWritesNothing'
<1> USE DEF InstallerInv, RollbackIsExact, ConflictWritesNothing
<1>1. CASE Start
  BY <1>1 DEF Start, fileVars, lists, historyVars
<1>2. CASE Classify
  BY <1>2 DEF Classify, fileVars, lists, historyVars
<1>3. CASE Conflict
  BY <1>3 DEF Conflict, fileVars, lists, historyVars
<1>4. CASE Classified
  BY <1>4 DEF Classified, fileVars, lists, historyVars
<1>5. CASE MakeDirectory
  BY <1>5, MakeDirectoryEffect DEF historyVars, Verified
<1>6. CASE Publish
  BY <1>6, PublishEffect DEF historyVars, Verified
<1>7. CASE Published
  BY <1>7 DEF Published, fileVars, lists, historyVars
<1>8. CASE VerifyMember
  BY <1>8 DEF VerifyMember, fileVars, lists, historyVars
<1>9. CASE Bind
  BY <1>9 DEF Bind, fileVars, lists, historyVars
<1>10. CASE Fails
  BY <1>10 DEF Fails, fileVars, lists, historyVars
<1>11. CASE UndoNext
  BY <1>11, UndoNextEffect DEF historyVars
<1>12. CASE UndoBlocked
  BY <1>12 DEF UndoBlocked, fileVars, lists, historyVars
<1>13. CASE Undone
  BY <1>13 DEF Undone, fileVars, lists, historyVars
<1>14. CASE Killed
  BY <1>14 DEF Killed, fileVars, lists, historyVars
<1>15. CASE UNCHANGED vars
  BY <1>15 DEF vars, fileVars, lists, historyVars
<1> QED
  BY <1>1, <1>2, <1>3, <1>4, <1>5, <1>6, <1>7, <1>8, <1>9, <1>10, <1>11, <1>12,
     <1>13, <1>14, <1>15 DEF Next

\* No run fails because of what another one left.
LEMMA FailsForAReasonStep ==
    ASSUME InstallerInv, [Next]_vars
    PROVE  FailsForAReason'
<1> USE DEF InstallerInv, RollbackIsExact, FailsForAReason
<1>1. CASE Start
  BY <1>1 DEF Start, fileVars, lists, historyVars
<1>2. CASE Classify
  BY <1>2 DEF Classify, fileVars, lists, historyVars
<1>3. CASE Conflict
  <2>1. /\ left # <<>> /\ disk[Head(left)] = "other"
        /\ UNCHANGED <<wants, original>>
    BY <1>3 DEF Conflict, historyVars
  <2>2. left \in Seq(wants) /\ wants \subseteq BundleMembers
    BY TheMembers DEF TypeOK
  <2>3. Head(left) \in wants /\ Head(left) \in BundleMembers
    BY <2>1, <2>2, TailOf
  <2>4. original[Head(left)] = "other"
    BY <2>1, <2>3 DEF Contained
  <2> QED
    BY <2>1, <2>3, <2>4
<1>4. CASE Classified
  BY <1>4 DEF Classified, fileVars, lists, historyVars
<1>5. CASE MakeDirectory
  BY <1>5, MakeDirectoryEffect DEF historyVars
<1>6. CASE Publish
  BY <1>6, PublishEffect DEF historyVars
<1>7. CASE Published
  BY <1>7 DEF Published, fileVars, lists, historyVars
<1>8. CASE VerifyMember
  <2>1. /\ pc = "verifying" /\ left # <<>> /\ left \in Seq(wants)
    BY <1>8 DEF VerifyMember, TypeOK
  <2>2. Head(left) \in wants
    BY <2>1, TailOf
  <2>3. pc' = pc
    BY <1>8, <2>1, <2>2 DEF VerifyMember, Verified
  <2> QED
    BY <2>1, <2>3
<1>9. CASE Bind
  <2>1. pc = "verifying" /\ wants \in {BundleMembers, StartupMembers}
    BY <1>9 DEF Bind, Run, Phases
  <2>2. ~stray /\ \A m \in StartupMembers : disk[m] = "pinned"
    BY <2>1, TheMembers DEF Verified
  <2> QED
    BY <1>9, <2>2 DEF Bind
<1>10. CASE Fails
  BY <1>10 DEF Fails, fileVars, lists, historyVars
<1>11. CASE UndoNext
  BY <1>11, UndoNextEffect DEF historyVars
<1>12. CASE UndoBlocked
  BY <1>12 DEF UndoBlocked, fileVars, lists, historyVars
<1>13. CASE Undone
  BY <1>13 DEF Undone, fileVars, lists, historyVars, Undoing
<1>14. CASE Killed
  BY <1>14 DEF Killed, fileVars, lists, historyVars, Phases
<1>15. CASE UNCHANGED vars
  BY <1>15 DEF vars, fileVars, lists, historyVars
<1> QED
  BY <1>1, <1>2, <1>3, <1>4, <1>5, <1>6, <1>7, <1>8, <1>9, <1>10, <1>11, <1>12,
     <1>13, <1>14, <1>15 DEF Next

\* The manifest comes after what it describes and goes before it.
LEMMA ManifestIsLastStep ==
    ASSUME InstallerInv, [Next]_vars
    PROVE  ManifestIsLast'
<1> USE DEF InstallerInv, ManifestIsLast
<1>1. CASE Start
  BY <1>1 DEF Start, fileVars, lists, historyVars
<1>2. CASE Classify
  BY <1>2 DEF Classify, fileVars, lists, historyVars
<1>3. CASE Conflict
  BY <1>3 DEF Conflict, fileVars, lists, historyVars
<1>4. CASE Classified
  BY <1>4 DEF Classified, fileVars, lists, historyVars
<1>5. CASE MakeDirectory
  BY <1>5, MakeDirectoryEffect DEF historyVars
<1>6. CASE Publish
  <2>1. PICK m \in NewFiles :
            /\ m \in BundleMembers /\ m = left[1]
            /\ disk' = [disk EXCEPT ![m] = "pinned"] /\ ToSet(left) = {m} \cup ToSet(left')
            /\ left' = Tail(left)
    BY <1>6, PublishEffect
  <2>2. pc = "publishing" /\ left # <<>> /\ UNCHANGED <<original, blocked>>
    BY <1>6, PublishEffect DEF historyVars
  <2>3. disk \in [BundleMembers -> Contents] /\ left \in Seq(NewFiles) /\ LastOf(left)
    BY <2>2 DEF TypeOK, Publishing
  <2>4. CASE m = "model_manifest"
    <3>1. Head(left) = m /\ left' = <<>>
      BY <2>1, <2>2, <2>3, <2>4, TailOf, LastOfTail
    <3>2. ToSet(left) = {"model_manifest"}
      <4>1. ToSet(left') = {}
        BY <3>1 DEF ToSet
      <4> QED
        BY <2>1, <2>4, <4>1
    <3>3. "model" \in wants /\ "training_report" \in wants
      BY <2>2, TheMembers DEF Run, Phases
    <3>4. disk["model"] = "pinned" /\ disk["training_report"] = "pinned"
      BY <2>2, <3>2, <3>3 DEF Publishing
    <3> QED
      BY <2>1, <2>3, <2>4, <3>4, TheMembers
  <2>5. CASE m # "model_manifest"
    BY <2>1, <2>2, <2>3, <2>5, TheMembers
  <2> QED
    BY <2>4, <2>5
<1>7. CASE Published
  BY <1>7 DEF Published, fileVars, lists, historyVars
<1>8. CASE VerifyMember
  BY <1>8 DEF VerifyMember, fileVars, lists, historyVars
<1>9. CASE Bind
  BY <1>9 DEF Bind, fileVars, lists, historyVars
<1>10. CASE Fails
  BY <1>10 DEF Fails, fileVars, lists, historyVars
<1>11. CASE UndoNext
  <2>1. pc = "undoing" /\ undo # <<>> /\ UNCHANGED <<original, blocked>>
    BY <1>11, UndoNextEffect DEF historyVars
  <2>2. disk \in [BundleMembers -> Contents] /\ undo \in Seq(NewFiles \cup NewDirectories)
    BY <2>1 DEF TypeOK, Undoing
  <2>3. CASE undo[1] \in BundleMembers /\ disk' = [disk EXCEPT ![undo[1]] = "absent"]
    <3>1. CASE undo[1] \in {"model", "training_report"}
      <4>1. ASSUME ~blocked, original["model_manifest"] = "absent"
            PROVE  disk["model_manifest"] = "absent"
        <5>1. Uses("model_manifest", undo[1])
          BY <3>1, <4>1 DEF Uses, Describes
        <5>2. 1 \in 1..Len(undo) /\ 1..(1 - 1) = {}
          BY <2>1, <2>2, EmptySeq, LenProperties
        <5>3. "model_manifest" \notin Present
          BY <2>1, <4>1, <5>1, <5>2 DEF Undoing
        <5> QED
          BY <5>3, TheMembers DEF Present, There
      <4> QED
        BY <2>1, <2>2, <2>3, <3>1, <4>1, TheMembers
    <3>2. CASE undo[1] \notin {"model", "training_report"}
      BY <2>1, <2>2, <2>3, <3>2, TheMembers
    <3> QED
      BY <3>1, <3>2
  <2>4. CASE disk' = disk
    BY <2>1, <2>4
  <2> QED
    BY <1>11, <2>3, <2>4, UndoNextEffect
<1>12. CASE UndoBlocked
  BY <1>12 DEF UndoBlocked, fileVars, lists, historyVars
<1>13. CASE Undone
  BY <1>13 DEF Undone, fileVars, lists, historyVars
<1>14. CASE Killed
  BY <1>14 DEF Killed, fileVars, lists, historyVars
<1>15. CASE UNCHANGED vars
  BY <1>15 DEF vars, fileVars, lists, historyVars
<1> QED
  BY <1>1, <1>2, <1>3, <1>4, <1>5, <1>6, <1>7, <1>8, <1>9, <1>10, <1>11, <1>12,
     <1>13, <1>14, <1>15 DEF Next

-----------------------------------------------------------------------------
(* The installer.                                                          *)

\* The directories above a file are a tree.
LEMMA AboveIsATree ==
    ASSUME NEW m \in BundleMembers, NEW c \in ToSet(ParentsOf(m)), NEW d, Inside(c, d)
    PROVE  d \in ToSet(ParentsOf(m))
<1>1. ToSet(ParentsOf(m)) = {ParentsOf(m)[1], ParentsOf(m)[2], ParentsOf(m)[3]}
  BY TheDirectories
<1>2. /\ ~Inside(ParentsOf(m)[1], d)
      /\ Inside(ParentsOf(m)[2], d) => d = ParentsOf(m)[1]
      /\ Inside(ParentsOf(m)[3], d) => d = ParentsOf(m)[2]
  BY TheChain
<1> QED
  BY <1>1, <1>2

\* Every tree that a first run may find.
LEMMA InitialInstaller ==
    ASSUME Init
    PROVE  InstallerInv
<1>1. /\ disk \in [BundleMembers -> Contents] /\ stray \in BOOLEAN /\ pc = "new"
      /\ wants = {} /\ original = disk /\ installed = {} /\ faulty = FALSE /\ blocked = FALSE
      /\ left = <<>> /\ pending = <<>> /\ created = <<>> /\ made = <<>> /\ undo = <<>>
      /\ directories = Above(disk) \cup (IF stray THEN ToSet(ParentsOf("model")) ELSE {})
  BY BundleAssumption DEF Init
<1>2. \A d \in directories : \E m \in BundleMembers :
            d \in ToSet(ParentsOf(m)) /\ ToSet(ParentsOf(m)) \subseteq directories
  BY <1>1, TheMembers DEF Above
<1>3. directories \subseteq Directories
  BY <1>2, TheDirectories
<1>4. TypeOK
  BY <1>1, <1>3, EmptySeq DEF TypeOK
<1>5. Tree(disk, directories)
  <2>1. \A m \in BundleMembers : disk[m] # "absent" => Parent(m) \in directories
    BY <1>1, TheDirectories DEF Above
  <2>2. ASSUME NEW c \in directories, NEW d \in Directories, Inside(c, d)
        PROVE  d \in directories
    BY <1>2, <2>2, AboveIsATree
  <2>3. stray => "models/development" \in directories
    <3>1. ToSet(ParentsOf("model")) = {"artifacts", "models", "models/development"}
      BY DEF ParentsOf, ToSet
    <3> QED
      BY <1>1, <3>1
  <2> QED
    BY <2>1, <2>2, <2>3 DEF Tree
<1>6. Run /\ Trees /\ Contained /\ ManifestWasLast
  BY <1>1, <1>5 DEF Run, Phases, Trees, Contained, ManifestWasLast
<1>7. Classifying /\ Publishing /\ Undoing /\ Verified
  BY <1>1 DEF Classifying, Publishing, Undoing, Verified
<1>8. FilesSurvive /\ RollbackIsExact /\ ManifestIsLast
  BY <1>1 DEF FilesSurvive, RollbackIsExact, ConflictWritesNothing, FailsForAReason,
              ManifestIsLast
<1> QED
  BY <1>1, <1>4, <1>6, <1>7, <1>8 DEF InstallerInv

\* Every step of the installer.
LEMMA InstallerStep ==
    ASSUME InstallerInv, [Next]_vars
    PROVE  InstallerInv'
<1>1. TypeOK' /\ Run' /\ (original \in [BundleMembers -> Contents])'
  BY TypesStep
<1>2. Trees' /\ Contained' /\ ManifestWasLast'
  BY TreesStep, ContainedStep
<1>3. Classifying' /\ Publishing' /\ Undoing' /\ Verified'
  BY ClassifyingStep, PublishingStep, UndoingStep, VerifiedStep
<1>4. FilesSurvive' /\ RollbackIsExact' /\ ManifestIsLast'
  BY FilesSurviveStep, ExactStep, ConflictWritesNothingStep, FailsForAReasonStep,
     ManifestIsLastStep DEF RollbackIsExact
<1> QED
  BY <1>1, <1>2, <1>3, <1>4 DEF InstallerInv

\* Whatever uses something is made after it and removed before it, through any
\* number of runs that fail, are rolled back and are killed.
THEOREM InstallerInvariantHolds == Spec => []InstallerInv
<1>1. Init => InstallerInv
  BY InitialInstaller
<1> QED
  BY <1>1, InstallerStep, PTL DEF Spec

\* The composition adds no step to the installer: a delivery leaves the tree
\* alone, by definition.  So what holds of Spec may be used below.
LEMMA DeliveryInstalls == DeliverySpec => Spec
<1>1. DeliveryInit => Init
  BY DEF DeliveryInit
<1>2. [DeliveryNext]_<<vars, archiveVars>> => [Next]_vars
  <2>1. CASE Deliver
    BY <2>1 DEF Deliver
  <2>2. CASE Install
    BY <2>2 DEF Install
  <2>3. CASE UNCHANGED <<vars, archiveVars>>
    BY <2>3
  <2> QED
    BY <2>1, <2>2, <2>3 DEF DeliveryNext
<1> QED
  BY <1>1, <1>2, PTL DEF DeliverySpec, Spec

\* The variables of the installer keep their types.
THEOREM InstallerTypes == DeliverySpec => []TypeOK
BY InstallerInvariantHolds, DeliveryInstalls, PTL DEF InstallerInv

\* install_bundle: what was there before the first run is never replaced and never
\* removed, and what a run reported installed stays installed.
THEOREM FilesAlwaysSurvive == DeliverySpec => []FilesSurvive
BY InstallerInvariantHolds, DeliveryInstalls, PTL DEF InstallerInv

\* _roll_back: a publication that fails leaves the tree as its run found it; a run
\* in conflict writes nothing, and what other runs left makes no run fail.
THEOREM RollbackIsAlwaysExact == DeliverySpec => []RollbackIsExact
BY InstallerInvariantHolds, DeliveryInstalls, PTL DEF InstallerInv

\* _publication_order: the model manifest is there only with the files it describes.
THEOREM ManifestIsAlwaysLast == DeliverySpec => []ManifestIsLast
BY InstallerInvariantHolds, DeliveryInstalls, PTL DEF InstallerInv

=============================================================================
