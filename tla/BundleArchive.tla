---------------------------- MODULE BundleArchive ----------------------------
(***************************************************************************)
(* How the archive of runtime_bundle.py comes to lie at one path and how   *)
(* it is read: download attempts, a build, and a reader that opens the     *)
(* path twice while another local process may replace what lies there.     *)
(* Sizes are counted in chunks. An archive is described by what its checks *)
(* tell apart; ZIP arithmetic, spellings of names and symbolic links are   *)
(* left out.  The install command downloads into a directory of its own;   *)
(* two attempts at one path are what the exclusive creation is there for.  *)
(***************************************************************************)
EXTENDS Naturals, FiniteSets

CONSTANTS
    Attempts,      \* download attempts at the path
    Served,        \* what the release server may send
    Replacements,  \* what another local process may put at the path
    MaxRedirects,  \* MAXIMUM_REDIRECTS
    Limit,         \* MAXIMUM_ARCHIVE_BYTES, in chunks
    Members,       \* the artifacts of a bundle
    Nothing        \* no file, no payload

Content(bytes, names, forged, honest, sound) ==
    [bytes |-> bytes, names |-> names, forged |-> forged, honest |-> honest, sound |-> sound]

\* The archive whose hash is pinned in the source.
Pinned == Content(Limit, Members, {}, TRUE, TRUE)

\* What lies there while, or after, only some chunks have been written.
Truncated(bytes) == Content(bytes, {}, {}, FALSE, FALSE)

File(content, by) == [content |-> content, by |-> by]

ASSUME ArchiveAssumption ==
    /\ Attempts \cap {"before", "build", "other"} = {}
    /\ Nothing # File(Truncated(1), "before")
    /\ Limit \in Nat \ {0} /\ MaxRedirects \in Nat
    /\ \A c \in Served \cup Replacements :
         c.bytes \in Nat /\ c.names \subseteq Members \cup {"unknown"} /\ c.forged \subseteq Members

VARIABLES
    file,       \* [content, by] at the path, or Nothing
    partial,    \* the build's temporary file beside it
    attempt,    \* of each download: its step, redirects followed, chunks written, what is sent
    build,      \* step of the build
    reader,     \* step of the reader
    hashed,     \* the content the reader has hashed
    payload,    \* for each member, whether its bytes are the pinned ones
    occupied,   \* history: a file was there before everything else
    refused     \* history: the file system has refused to remove a temporary file

archiveVars == <<file, partial, attempt, build, reader, hashed, payload, occupied, refused>>

Over == {"done", "refused", "failed", "killed"}

NoAttempt == [step |-> "new", requests |-> 0, written |-> 0, body |-> Nothing]

\* Nothing has begun: there is no archive, or a file that is none.
ArchiveInit ==
    /\ occupied \in BOOLEAN
    /\ file = IF occupied THEN File(Truncated(1), "before") ELSE Nothing
    /\ partial = Nothing /\ attempt = [a \in Attempts |-> NoAttempt]
    /\ build = "new" /\ reader = "new"
    /\ hashed = Nothing /\ payload = Nothing /\ refused = FALSE

--------------------------------------------------------------------------------
(* Downloading.                                                            *)

Step(a, step) == attempt' = [attempt EXCEPT ![a].step = step]

\* What an attempt knew is gone with it.
End(a, step) == attempt' = [attempt EXCEPT ![a] = [NoAttempt EXCEPT !.step = step]]

\* One request. A redirect is followed by hand, and its target is checked like the
\* first address was; a declared length is not believed. The attempt fails when the
\* request does, when a target is refused, and at one redirect too many.
Request(a) ==
    /\ attempt[a].step \in {"new", "redirected"} /\ build \in {"new"} \cup Over
    /\ \/ /\ attempt[a].requests < MaxRedirects
          /\ attempt' = [attempt EXCEPT ![a].step = "redirected", ![a].requests = @ + 1]
       \/ \E body \in Served :
            attempt' = [attempt EXCEPT ![a] = [NoAttempt EXCEPT !.step = "answered", !.body = body]]
       \/ End(a, "failed")
    /\ UNCHANGED <<file, partial, build, reader, hashed, payload, occupied, refused>>

\* O_CREAT | O_EXCL: an attempt owns the file only if it has created it.
Create(a) ==
    /\ attempt[a].step = "answered"
    /\ \/ /\ file = Nothing
          /\ file' = File(Truncated(0), a) /\ Step(a, "streaming")
       \/ /\ End(a, "failed") /\ UNCHANGED file
    /\ UNCHANGED <<partial, build, reader, hashed, payload, occupied, refused>>

\* Writing goes to the file that was created, wherever it is by now.
Chunk(a) ==
    /\ attempt[a].step = "streaming" /\ attempt[a].written < attempt[a].body.bytes
    /\ LET written == attempt[a].written + 1
       IN  IF written > Limit
           THEN Step(a, "cleaning") /\ UNCHANGED file
           ELSE /\ attempt' = [attempt EXCEPT ![a].written = written]
                /\ file' = IF file # Nothing /\ file.by = a THEN File(Truncated(written), a) ELSE file
    /\ UNCHANGED <<partial, build, reader, hashed, payload, occupied, refused>>

\* The connection or the disk fails in the middle.
StreamFails(a) ==
    /\ attempt[a].step = "streaming"
    /\ Step(a, "cleaning")
    /\ UNCHANGED <<file, partial, build, reader, hashed, payload, occupied, refused>>

Streamed(a) ==
    /\ attempt[a].step = "streaming" /\ attempt[a].written = attempt[a].body.bytes
    /\ IF attempt[a].written = 0
       THEN Step(a, "cleaning") /\ UNCHANGED file
       ELSE /\ End(a, "done")
            /\ file' = IF file # Nothing /\ file.by = a THEN File(attempt[a].body, a) ELSE file
    /\ UNCHANGED <<partial, build, reader, hashed, payload, occupied, refused>>

\* Mutant: a transport error, which is no RuntimeBundleError, is not cleaned up after.
CleanUpOwnErrors(a) ==
    /\ attempt[a].step = "cleaning"
    /\ End(a, "failed")
    /\ file' = IF attempt[a].written = Limit THEN Nothing ELSE file
    /\ UNCHANGED <<partial, build, reader, hashed, payload, occupied, refused>>

\* The finally clause, which runs on every way out that is not completion.
CleanUp(a) ==
    /\ attempt[a].step = "cleaning"
    /\ End(a, "failed")
    /\ \/ file' = Nothing /\ UNCHANGED refused
       \/ refused' = TRUE /\ UNCHANGED file
    /\ UNCHANGED <<partial, build, reader, hashed, payload, occupied>>

--------------------------------------------------------------------------------
(* Building. The operator does not download to a path that he builds to.   *)

BuildUnchanged == UNCHANGED <<attempt, reader, hashed, payload, occupied>>

\* The output must not exist; then the sources are read, and each of them checked.
StartBuild ==
    /\ build \in {"new", "refused", "failed", "killed"}
    /\ \A a \in Attempts : attempt[a].step \in {"new"} \cup Over
    /\ build' \in IF file = Nothing THEN {"writing", "refused"} ELSE {"refused"}
    /\ UNCHANGED <<file, partial, refused>> /\ BuildUnchanged

\* The temporary file is truncated when it is opened, so that of a killed build is lost.
WritePartial ==
    /\ build = "writing"
    /\ \/ partial' \in {Pinned, Truncated(1)} /\ build' = "checking"
       \/ partial' \in {partial, Truncated(0), Truncated(1)} /\ build' = "cleaning"
    /\ UNCHANGED <<file, refused>> /\ BuildUnchanged

\* The built bytes must have the pinned hash before they are moved into place.
CheckPartial ==
    /\ build = "checking"
    /\ build' = IF partial = Pinned THEN "replacing" ELSE "cleaning"
    /\ UNCHANGED <<file, partial, refused>> /\ BuildUnchanged

ReplaceOutput ==
    /\ build = "replacing"
    /\ \/ file' = File(partial, "build") /\ partial' = Nothing /\ build' = "done"
       \/ build' = "cleaning" /\ UNCHANGED <<file, partial>>
    /\ UNCHANGED refused /\ BuildUnchanged

CleanPartial ==
    /\ build = "cleaning"
    /\ \/ partial' = Nothing /\ UNCHANGED refused
       \/ partial # Nothing /\ refused' = TRUE /\ UNCHANGED partial
    /\ build' = "failed"
    /\ UNCHANGED file /\ BuildUnchanged

\* A process dies: its temporary files stay.
KillWriter ==
    /\ \/ \E a \in Attempts : attempt[a].step \notin Over /\ End(a, "killed") /\ UNCHANGED build
       \/ build \in {"writing", "checking", "replacing", "cleaning"} /\ build' = "killed" /\ UNCHANGED attempt
    /\ UNCHANGED <<file, partial, reader, hashed, payload, occupied, refused>>

--------------------------------------------------------------------------------
(* Reading.                                                                *)

\* Another local process replaces or removes the archive between two looks at it.
Interfere ==
    /\ reader = "hashed"
    /\ \A a \in Attempts : attempt[a].step \in {"new"} \cup Over
    /\ build \in {"new"} \cup Over
    /\ file' \in {File(c, "other") : c \in Replacements} \cup {Nothing}
    /\ UNCHANGED <<partial, attempt, build, reader, hashed, payload, occupied, refused>>

\* The whole file is read once, up to one byte more than the limit, and hashed.
ReadAndHash ==
    /\ reader = "new"
    /\ IF file # Nothing /\ file.content.bytes \in 1 .. Limit /\ file.content = Pinned
       THEN reader' = "hashed" /\ hashed' = file.content
       ELSE reader' = "failed" /\ UNCHANGED hashed
    /\ UNCHANGED <<file, partial, attempt, build, payload, occupied, refused>>

\* Mutant: members are compared with what the archive declares of them alone.
MembersAsDeclared(content) == content.honest

\* Every member has the size and hash the archive declares of it and, whatever it
\* declares, the hash pinned in the source.
MembersAsPinned(content) == content.honest /\ content.forged = {}

\* The path is opened again, by zipfile, and the members are taken from there.
ReadMembers ==
    /\ reader = "hashed"
    /\ IF /\ file # Nothing /\ file.content.sound
          /\ file.content.names = hashed.names /\ file.content.names = Members
          /\ MembersAsPinned(file.content)
       THEN /\ reader' = "done"
            /\ payload' = [m \in Members |-> IF m \in file.content.forged THEN "other" ELSE "pinned"]
       ELSE reader' = "failed" /\ UNCHANGED payload
    /\ UNCHANGED <<file, partial, attempt, build, hashed, occupied, refused>>

ArchiveNext ==
    \/ \E a \in Attempts :
         Request(a) \/ Create(a) \/ Chunk(a) \/ StreamFails(a) \/ Streamed(a) \/ CleanUp(a)
    \/ StartBuild \/ WritePartial \/ CheckPartial \/ ReplaceOutput \/ CleanPartial
    \/ KillWriter \/ Interfere \/ ReadAndHash \/ ReadMembers

--------------------------------------------------------------------------------
(* Properties.                                                             *)

\* What an installation is given are the pinned bytes, member by member, although
\* the archive is opened once to be hashed and again to be read, and may have been
\* replaced in between by one that agrees with its own manifest
\* (runtime_bundle.py:727-793, 636-690).
ArchiveYieldsPinned == payload # Nothing => \A m \in Members : payload[m] = "pinned"

\* Nobody leaves a file that looks like an archive and is none: what a download that
\* failed, or a build that was refused, had begun is gone, unless its process was
\* killed or the file system refused; what a build moves into place is whole; and
\* no download truncates, replaces or removes a file that it did not create
\* (runtime_bundle.py:398-422, 891-949).
WritersCleanUp ==
    /\ file # Nothing /\ file.by \in Attempts /\ ~refused => attempt[file.by].step # "failed"
    /\ file # Nothing /\ file.by \in Attempts /\ attempt[file.by].step = "done" => file.content \in Served
    /\ file # Nothing /\ file.by = "build" => file.content = Pinned
    /\ partial # Nothing /\ ~refused => build # "failed"
    /\ occupied /\ reader = "new" => file = File(Truncated(1), "before")
================================================================================
