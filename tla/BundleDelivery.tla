---------------------------- MODULE BundleDelivery ----------------------------
(***************************************************************************)
(* The commands of scripts/runtime_bundle.py one after the other: on a     *)
(* clean clone an archive is built, downloaded or brought along, it is     *)
(* read, and its members are installed.  On every other tree the members   *)
(* are in memory from the start.                                           *)
(***************************************************************************)
EXTENDS RuntimeBundle, BundleArchive

CleanClone == ~stray /\ \A m \in BundleMembers : disk[m] = "absent"

AllPinned == [m \in Members |-> "pinned"]

DeliveryInit ==
    /\ Init
    /\ \/ CleanClone /\ ArchiveInit
       \/ /\ payload = AllPinned /\ reader = "done" /\ file = Nothing /\ partial = Nothing
          /\ attempt = [a \in Attempts |-> NoAttempt] /\ build = "new"
          /\ hashed = Nothing /\ occupied = FALSE /\ refused = FALSE

Deliver == pc = "new" /\ CleanClone /\ ArchiveNext /\ UNCHANGED vars

\* install_bundle has what read_validated_archive returned in memory: what becomes
\* of the archive is no longer followed.
Install ==
    /\ payload # Nothing /\ Next
    /\ file' = Nothing /\ partial' = Nothing
    /\ attempt' = [a \in Attempts |-> NoAttempt] /\ build' = "new"
    /\ hashed' = Nothing /\ occupied' = FALSE /\ refused' = FALSE
    /\ UNCHANGED <<reader, payload>>

DeliveryNext == Deliver \/ Install

DeliverySpec == DeliveryInit /\ [][DeliveryNext]_<<vars, archiveVars>>
================================================================================
