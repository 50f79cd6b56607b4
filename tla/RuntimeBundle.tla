---------------------------- MODULE RuntimeBundle ----------------------------
(***************************************************************************)
(* The installer of runtime_bundle.py: validated artifacts are published   *)
(* file by file into three directories, and a failed publication is rolled *)
(* back.  Any number of runs follow one another on one tree; a run may     *)
(* fail at any operation and may be killed at any instant.  Overlapping    *)
(* runs, symbolic links and the private staging directory are left out.    *)
(* The contents of a file are "pinned" when its hash is the expected one.  *)
(***************************************************************************)
EXTENDS Naturals, Sequences, SequencesExt

CONSTANT InitialDisks   \* what the tree may hold before the first run

\* Mutant: the files of a directory in the order of their names.
OrderByName == <<"evaluation", "feature_manifest",
                 "model", "model_manifest", "training_report">>

\* _publication_order: per directory, data before the manifest describing it.
Order == <<"evaluation", "feature_manifest",
           "model", "training_report", "model_manifest">>

BundleMembers == ToSet(Order)
StartupMembers == BundleMembers \ {"evaluation"}

\* The directories above a member, outermost first.
ParentsOf(m) ==
    CASE m = "evaluation" -> <<"artifacts", "evaluations", "evaluations/development">>
      [] m = "feature_manifest" -> <<"artifacts", "features", "features/development">>
      [] OTHER -> <<"artifacts", "models", "models/development">>

Directories == UNION {ToSet(ParentsOf(m)) : m \in BundleMembers}

Contents == {"absent", "pinned", "other"}

ASSUME BundleAssumption == InitialDisks \subseteq [BundleMembers -> Contents]

VARIABLES
    \* the file system
    disk,           \* contents of each member's destination
    directories,    \* directories that exist
    stray,          \* an unknown file lies in the model directory
    \* the run
    pc,
    wants,          \* the members it installs
    left,           \* members the current phase has yet to handle
    pending,        \* members classified as missing
    created,        \* members it published
    made,           \* directories it made
    undo,           \* what its rollback has yet to remove
    \* history
    original,       \* the tree before the first run
    before,         \* the tree when the current run started
    installed,      \* members that a successful run reported installed
    faulty,         \* the file system returned the current run an error
    blocked         \* the file system once refused a step of a rollback

fileVars == <<disk, directories, stray>>
lists == <<left, pending, created, made, undo>>
historyVars == <<original, before, installed, faulty, blocked>>
vars == <<fileVars, pc, wants, lists, historyVars>>

Phases == {"classifying", "publishing", "verifying", "undoing"}
Outcomes == {"ok", "failed", "rolledBack", "killed"}

Above(d) == UNION {ToSet(ParentsOf(m)) : m \in {n \in BundleMembers : d[n] # "absent"}}

Init ==
    /\ disk \in InitialDisks
    /\ stray \in BOOLEAN
    /\ directories = Above(disk) \cup (IF stray THEN ToSet(ParentsOf("model")) ELSE {})
    /\ pc = "new"
    /\ wants = {}
    /\ left = <<>> /\ pending = <<>> /\ created = <<>> /\ made = <<>> /\ undo = <<>>
    /\ original = disk
    /\ before = <<disk, directories>>
    /\ installed = {} /\ faulty = FALSE /\ blocked = FALSE

\* The wanted members in their order: only the evaluation, the first of them, is
\* ever left out.
Wanted(members) == IF "evaluation" \in members THEN Order ELSE Tail(Order)

-----------------------------------------------------------------------------
(* Classification: every destination, before anything is written.          *)

\* A model directory that load_locked_model would refuse is left alone.
Start ==
    /\ pc \in Outcomes \cup {"new"}
    /\ wants' \in {BundleMembers, StartupMembers}
    /\ pc' = IF stray THEN "failed" ELSE "classifying"
    /\ left' = Wanted(wants')
    /\ pending' = <<>> /\ created' = <<>> /\ made' = <<>> /\ undo' = <<>>
    /\ before' = <<disk, directories>> /\ faulty' = FALSE
    /\ UNCHANGED <<fileVars, original, installed, blocked>>

Classify ==
    /\ pc = "classifying" /\ left # <<>>
    /\ disk[Head(left)] # "other"
    /\ left' = Tail(left)
    /\ pending' = IF disk[Head(left)] = "pinned" THEN pending
                  ELSE Append(pending, Head(left))
    /\ UNCHANGED <<fileVars, pc, wants, created, made, undo, historyVars>>

Conflict ==
    /\ pc = "classifying" /\ left # <<>>
    /\ disk[Head(left)] = "other"
    /\ pc' = "failed"
    /\ UNCHANGED <<fileVars, wants, lists, historyVars>>

Classified ==
    /\ pc = "classifying" /\ left = <<>>
    /\ pc' = "publishing"
    /\ left' = pending
    /\ UNCHANGED <<fileVars, wants, pending, created, made, undo, historyVars>>

-----------------------------------------------------------------------------
(* Publication.                                                            *)

Missing(m) == {i \in 1..3 : ParentsOf(m)[i] \notin directories}

\* The outermost missing directory above the next file.
MakeDirectory ==
    /\ pc = "publishing" /\ left # <<>>
    /\ \E i \in Missing(Head(left)) :
        /\ \A k \in Missing(Head(left)) : i <= k
        /\ directories' = directories \cup {ParentsOf(Head(left))[i]}
        /\ made' = Append(made, ParentsOf(Head(left))[i])
    /\ UNCHANGED <<disk, stray, pc, wants, left, pending, created, undo, historyVars>>

\* Mutant: a file is noted only when the next one is published.
PublishNotesLate ==
    /\ pc = "publishing" /\ left # <<>>
    /\ Missing(Head(left)) = {}
    /\ disk' = [disk EXCEPT ![Head(left)] = "pinned"]
    /\ created' = SubSeq(pending, 1, Len(pending) - Len(left))
    /\ left' = Tail(left)
    /\ UNCHANGED <<directories, stray, pc, wants, pending, made, undo, historyVars>>

\* os.replace of the staged file.
Publish ==
    /\ pc = "publishing" /\ left # <<>>
    /\ Missing(Head(left)) = {}
    /\ disk' = [disk EXCEPT ![Head(left)] = "pinned"]
    /\ created' = Append(created, Head(left))
    /\ left' = Tail(left)
    /\ UNCHANGED <<directories, stray, pc, wants, pending, made, undo, historyVars>>

Published ==
    /\ pc = "publishing" /\ left = <<>>
    /\ pc' = "verifying"
    /\ left' = Wanted(wants)
    /\ UNCHANGED <<fileVars, wants, pending, created, made, undo, historyVars>>

-----------------------------------------------------------------------------
(* Verification; it never rolls back.                                      *)

VerifyMember ==
    /\ pc = "verifying" /\ left # <<>>
    /\ IF disk[Head(left)] = "pinned"
       THEN left' = Tail(left) /\ UNCHANGED pc
       ELSE pc' = "failed" /\ UNCHANGED left
    /\ UNCHANGED <<fileVars, wants, pending, created, made, undo, historyVars>>

\* load_serving_bundle: the model directory holds its three files and no other.
Bind ==
    /\ pc = "verifying" /\ left = <<>>
    /\ IF ~stray /\ \A m \in StartupMembers : disk[m] = "pinned"
       THEN pc' = "ok" /\ installed' = installed \cup wants
       ELSE pc' = "failed" /\ UNCHANGED installed
    /\ UNCHANGED <<fileVars, wants, lists, original, before, faulty, blocked>>

-----------------------------------------------------------------------------
(* Failure and rollback.                                                   *)

\* _roll_back: this run's files, then its directories, latest first.
UndoList == Reverse(created) \o Reverse(made)

\* The file system refuses an operation.  An OSError of publication is caught
\* twice, by the loop and around it, and both handlers roll back.
Fails ==
    /\ pc \in {"classifying", "publishing", "verifying"}
    /\ faulty' = TRUE
    /\ IF pc = "publishing" THEN pc' = "undoing" /\ undo' = UndoList \o UndoList
                            ELSE pc' = "failed" /\ UNCHANGED undo
    /\ UNCHANGED <<fileVars, wants, left, pending, created, made,
                   original, before, installed, blocked>>

Empty(d) ==
    /\ \A m \in BundleMembers : disk[m] # "absent" => Last(ParentsOf(m)) # d
    /\ \A m \in BundleMembers : \A k \in 1..2 :
        ParentsOf(m)[k] = d => ParentsOf(m)[k + 1] \notin directories
    /\ stray => d # "models/development"

\* Mutant: a member that was there before is removed too.
UndoNextOfAll ==
    /\ pc = "undoing" /\ undo # <<>>
    /\ disk' = [m \in BundleMembers |-> IF m \in wants THEN "absent" ELSE disk[m]]
    /\ undo' = Tail(undo)
    /\ UNCHANGED <<directories, stray, pc, wants, left, pending, created, made, historyVars>>

\* A file is removed if it is there, a directory if it is there and empty.
UndoNext ==
    /\ pc = "undoing" /\ undo # <<>>
    /\ LET path == Head(undo)
       IN  /\ disk' = [m \in BundleMembers |-> IF m = path THEN "absent" ELSE disk[m]]
           /\ directories' = IF path \in Directories /\ Empty(path)
                             THEN directories \ {path} ELSE directories
    /\ undo' = Tail(undo)
    /\ UNCHANGED <<stray, pc, wants, left, pending, created, made, historyVars>>

\* OSError while undoing: the path stays and the rollback goes on.
UndoBlocked ==
    /\ pc = "undoing" /\ undo # <<>>
    /\ undo' = Tail(undo)
    /\ blocked' = TRUE
    /\ UNCHANGED <<fileVars, pc, wants, left, pending, created, made,
                   original, before, installed, faulty>>

Undone ==
    /\ pc = "undoing" /\ undo = <<>>
    /\ pc' = "rolledBack"
    /\ UNCHANGED <<fileVars, wants, lists, historyVars>>

\* The process is killed: nothing is rolled back.
Killed ==
    /\ pc \in Phases
    /\ pc' = "killed"
    /\ UNCHANGED <<fileVars, wants, lists, historyVars>>

Next ==
    \/ Start \/ Classify \/ Conflict \/ Classified
    \/ MakeDirectory \/ Publish \/ Published
    \/ VerifyMember \/ Bind
    \/ Fails \/ UndoNext \/ UndoBlocked \/ Undone \/ Killed

Spec == Init /\ [][Next]_vars

-----------------------------------------------------------------------------
(* What the installer promises.                                            *)

\* Types of the state: a run keeps lists of the members it wants, no others.
TypeOK ==
    /\ disk \in [BundleMembers -> Contents]
    /\ directories \subseteq Directories /\ stray \in BOOLEAN
    /\ pc \in Phases \cup Outcomes \cup {"new"}
    /\ wants \in {{}, BundleMembers, StartupMembers}
    /\ left \in Seq(wants) /\ pending \in Seq(wants) /\ created \in Seq(wants)
    /\ made \in Seq(Directories) /\ undo \in Seq(wants \cup Directories)
    /\ installed \subseteq BundleMembers /\ faulty \in BOOLEAN /\ blocked \in BOOLEAN

\* install_bundle: what was there before the first run is never replaced and
\* never removed, and what a run reported installed stays installed, however
\* later runs fail, are rolled back and are killed.
FilesSurvive == \A m \in BundleMembers :
    /\ original[m] # "absent" => disk[m] = original[m]
    /\ m \in installed => disk[m] = "pinned"

\* A conflict at any wanted destination refuses the whole run; it publishes
\* nothing, not even the members that it could.
ConflictWritesNothing ==
    (\E m \in wants : original[m] = "other") => created = <<>> /\ made = <<>>

\* What a killed or rolled-back run leaves never makes a later run fail: a run
\* fails for an error of its own or for what was there originally.
FailsForAReason == pc \in {"failed", "rolledBack"} =>
    \/ faulty \/ stray
    \/ \E m \in wants : original[m] = "other"

\* _roll_back: a publication that fails leaves files and directories as the run
\* found them, unless the file system refused to remove something. A run that
\* meets a conflict undoes nothing because it wrote nothing, and no run fails
\* because of what another one left.
RollbackIsExact ==
    /\ pc = "rolledBack" /\ ~blocked => <<disk, directories>> = before
    /\ ConflictWritesNothing
    /\ FailsForAReason

\* _publication_order: the model manifest is there only with the files that it
\* describes, at every instant of publication and rollback and after a kill.
ManifestIsLast == original["model_manifest"] = "absent" /\ ~blocked =>
    (disk["model_manifest"] # "absent" =>
        disk["model"] # "absent" /\ disk["training_report"] # "absent")

=============================================================================
