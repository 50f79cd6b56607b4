--------------------------- MODULE BundleInvariant ---------------------------
(***************************************************************************)
(* Why an installation is undone exactly and never undoes anything else:   *)
(* whatever uses something is made after it and is removed before it.      *)
(***************************************************************************)
EXTENDS BundleDelivery

-----------------------------------------------------------------------------
(* What is on the file system, and what uses what.                         *)

Paths == BundleMembers \cup Directories

Parent(m) == Last(ParentsOf(m))

\* A directory inside another one.
Inside(c, d) == \E m \in BundleMembers : \E k \in 1..2 :
    ParentsOf(m)[k] = d /\ ParentsOf(m)[k + 1] = c

\* The model manifest, unless it was there at the start, describes two files.
Describes(x, y) ==
    /\ x = "model_manifest" /\ original["model_manifest"] = "absent"
    /\ y \in {"model", "training_report"}

Uses(x, y) ==
    \/ x \in BundleMembers /\ y = Parent(x)
    \/ Inside(x, y)
    \/ Describes(x, y)

There(files, dirs) == {m \in BundleMembers : files[m] # "absent"} \cup dirs

Present == There(disk, directories)
WasPresent == There(before[1], before[2])

\* What is there lies in a directory that is there.
Tree(files, dirs) ==
    /\ \A m \in BundleMembers : files[m] # "absent" => Parent(m) \in dirs
    /\ \A c \in dirs : \A d \in Directories : Inside(c, d) => d \in dirs
    /\ stray => "models/development" \in dirs

-----------------------------------------------------------------------------
(* The file system and its history.                                        *)

Trees == Tree(disk, directories) /\ (pc # "new" => Tree(before[1], before[2]))

\* Only what is in conflict has other contents.
Contained == \A m \in BundleMembers : disk[m] \in {"absent", "pinned", original[m]}

\* What a run may publish, and so remove: what it found missing.
NewFiles == {m \in wants : /\ original[m] = "absent" /\ m \notin installed
                           /\ before[1][m] = "absent"}

NewDirectories == Directories \ before[2]

ManifestWasLast == pc # "new" /\ original["model_manifest"] = "absent" /\ ~blocked =>
    (before[1]["model_manifest"] # "absent" =>
        before[1]["model"] # "absent" /\ before[1]["training_report"] # "absent")

-----------------------------------------------------------------------------
(* The run.                                                                *)

\* The manifest is handled last.
LastOf(list) == \A i \in 1..Len(list) : list[i] = "model_manifest" => i = Len(list)

Classifying == pc = "classifying" =>
    /\ before = <<disk, directories>> /\ ~stray
    /\ created = <<>> /\ made = <<>>
    /\ pending \in Seq(NewFiles)
    /\ LastOf(left) /\ LastOf(pending)
    /\ "model_manifest" \in ToSet(pending) => left = <<>>
    /\ \A m \in wants :
        \/ m \in ToSet(left) \/ disk[m] = "pinned"
        \/ disk[m] = "absent" /\ m \in ToSet(pending)

\* What a publication has changed is what it has noted.
Publishing == pc = "publishing" =>
    /\ left \in Seq(NewFiles) /\ created \in Seq(NewFiles) /\ made \in Seq(NewDirectories)
    /\ LastOf(left) /\ LastOf(created)
    /\ "model_manifest" \in ToSet(created) => left = <<>>
    /\ \A m \in wants : m \in ToSet(left) \/ disk[m] = "pinned"
    /\ WasPresent \subseteq Present
    /\ Present \subseteq WasPresent \cup ToSet(created) \cup ToSet(made)
    /\ \A m \in BundleMembers : before[1][m] # "absent" => disk[m] = before[1][m]
    /\ ToSet(made) \subseteq directories
    /\ \A i, k \in 1..Len(made) : Inside(made[i], made[k]) => k < i

\* A rollback removes only what is new, all of it, and nothing before what uses it.
Undoing == pc = "undoing" =>
    /\ faulty
    /\ undo \in Seq(NewFiles \cup NewDirectories)
    /\ WasPresent \subseteq Present
    /\ \A m \in BundleMembers : before[1][m] # "absent" => disk[m] = before[1][m]
    /\ ~blocked =>
        /\ Present \subseteq WasPresent \cup ToSet(undo)
        /\ \A i \in 1..Len(undo) : \A x \in Present :
            Uses(x, undo[i]) => \E k \in 1..(i - 1) : undo[k] = x

\* A conflict has been met before anything is written, and what is verified is there.
Verified ==
    /\ pc = "verifying" => ~stray /\ \A m \in wants : disk[m] = "pinned"
    /\ pc \in {"publishing", "verifying", "undoing"} =>
        ~stray /\ \A m \in wants : original[m] # "other"

Run ==
    /\ pc \in Phases => wants \in {BundleMembers, StartupMembers}
    /\ pc # "new" => before \in [BundleMembers -> Contents] \X SUBSET Directories

InstallerInv ==
    /\ TypeOK /\ Run /\ original \in [BundleMembers -> Contents]
    /\ Trees /\ Contained /\ ManifestWasLast
    /\ Classifying /\ Publishing /\ Undoing /\ Verified
    /\ FilesSurvive /\ RollbackIsExact /\ ManifestIsLast

-----------------------------------------------------------------------------
(* The archive.                                                            *)

\* An attempt owns the file from its creation until it has cleaned up, and sends
\* what is served; the temporary file of a build is whole when it is moved.
Writers ==
    /\ attempt \in [Attempts -> [step : {"new", "redirected", "answered", "streaming",
                                         "cleaning"} \cup Over,
                                 requests : Nat, written : Nat,
                                 body : Served \cup {Nothing}]]
    /\ \A a \in Attempts :
        /\ attempt[a].step \in {"answered", "streaming"} => attempt[a].body \in Served
        /\ attempt[a].step \in {"new", "redirected", "answered"} =>
            file = Nothing \/ file.by # a
    /\ build = "replacing" => partial = Pinned

\* Where a file was found at the start, nobody writes before somebody has read.
Untouched == occupied /\ reader = "new" =>
    /\ file = File(Truncated(1), "before")
    /\ \A a \in Attempts : attempt[a].step \notin {"streaming", "cleaning"}
    /\ build \notin {"writing", "checking", "replacing", "cleaning"}

ArchiveInv == Writers /\ Untouched /\ ArchiveYieldsPinned /\ WritersCleanUp

=============================================================================
