------------------------------- MODULE Imports -------------------------------
(***************************************************************************)
(* The import of a folder (wardrobe-platform/src/imports.rs).              *)
(*                                                                         *)
(* A scan of the folder has a number, one more than that of the last scan  *)
(* that was completed, and a row.  Every file it listed is recorded with   *)
(* this number, in a transaction of its own; at the end the sources with   *)
(* an older number are missing, and the folder's root takes the number.    *)
(* Other programs change the folder all the while.  The calls are commands *)
(* of the main thread, so there is one at a time; any of them may fail or  *)
(* be cut off between two transactions.                                    *)
(*                                                                         *)
(* The messages of a mailbox file and the generation of the evidence, which*)
(* a finished call advances, are left out: the first belong to no root,    *)
(* and the second is in Deletion.                                          *)
(***************************************************************************)
EXTENDS Naturals

CONSTANTS
    Files,      \* the files of the folder, each a device and file number
    MaxScans,   \* bound: scans begun
    MaxChanges  \* bound: changes of the folder

VARIABLES
    folder,   \* what each file is now
    mounted,  \* whether the folder's path still leads to it
    root,     \* the row of import_roots
    scans,    \* the rows of import_scans: the status by number
    sources,  \* the rows of local_sources
    evidence, \* sources with a row of evidence
    listed,   \* the files the last scan found
    call,     \* the import under way
    begun, changes

vars == <<folder, mounted, root, scans, sources, evidence, listed, call, begun, changes>>

\* A sound file can be imported.  A damaged one is read and fails its checks.  A barred one
\* is a link, is too large, or cannot be opened.  An undelimited one is a mailbox that
\* cannot be split into messages.
Kinds == {"absent", "sound", "damaged", "barred", "undelimited"}

NoRoot == [status |-> "none", generation |-> 0]
NoSource == [status |-> "none", blob |-> FALSE, generation |-> 0]
NoCall == [at |-> "idle", left |-> {}]

Init ==
    /\ folder \in [Files -> {"absent", "sound"}] /\ mounted = TRUE
    /\ root = NoRoot /\ scans = <<>>
    /\ sources = [f \in Files |-> NoSource] /\ evidence = {} /\ listed = {}
    /\ call = NoCall
    /\ begun = 0 /\ changes = 0

rows == <<root, scans, sources, evidence>>

-----------------------------------------------------------------------------
\* The folder, which is not the application's

Change(f) ==
    /\ changes < MaxChanges
    /\ changes' = changes + 1
    /\ \E k \in Kinds : folder' = [folder EXCEPT ![f] = k]
    /\ UNCHANGED <<mounted, rows, listed, call, begun>>

\* The volume goes and comes back, or the folder is moved.
Mount ==
    /\ mounted' = ~mounted
    /\ UNCHANGED <<folder, rows, listed, call, begun, changes>>

-----------------------------------------------------------------------------
\* refresh_roots for a folder that is gone, or another one under its path.
refresh_unavailable ==
    /\ call = NoCall /\ ~mounted /\ root # NoRoot
    /\ root' = [root EXCEPT !.status = "unavailable"]
    /\ UNCHANGED <<folder, mounted, scans, sources, evidence, listed, call, begun, changes>>

\* scan_folder fails: the folder is too deep or too large, or cannot be read.
scan_fails ==
    /\ call = NoCall /\ mounted /\ root.generation > 0
    /\ root' = [root EXCEPT !.status = "incomplete"]
    /\ UNCHANGED <<folder, mounted, scans, sources, evidence, listed, call, begun, changes>>

generation == root.generation + 1

\* import_folder has listed the folder and inserts the rows of the root and of the scan.
\* A row with the same number is an error, of which nothing is left.
import_folder ==
    /\ call = NoCall /\ mounted /\ begun < MaxScans
    /\ generation \notin DOMAIN scans
    /\ root' = [root EXCEPT !.status = "incomplete"]
    /\ scans' = [g \in DOMAIN scans \cup {generation} |->
                   IF g = generation THEN "running" ELSE scans[g]]
    /\ listed' = {f \in Files : folder[f] # "absent"}
    /\ call' = [at |-> "scanning", left |-> listed']
    /\ begun' = begun + 1
    /\ UNCHANGED <<folder, mounted, sources, evidence, changes>>

Recorded(f, status, blob) ==
    sources' = [sources EXCEPT ![f] = [status |-> status, blob |-> blob,
                                       generation |-> generation]]

\* The next file goes through record_materialized_source; the evidence of one that passed
\* its checks is a transaction of its own.
record_materialized_source(f) ==
    /\ call.at = "scanning" /\ f \in call.left
    /\ folder[f] \in {"sound", "damaged", "undelimited"}
    /\ Recorded(f, IF folder[f] = "damaged" THEN "quarantined" ELSE "imported", TRUE)
    /\ call' = [at |-> IF folder[f] = "sound" THEN "recorded"
                       ELSE IF folder[f] = "undelimited" THEN "failing" ELSE "scanning",
                left |-> IF folder[f] = "sound" THEN call.left ELSE call.left \ {f}]
    /\ UNCHANGED <<folder, mounted, root, scans, evidence, listed, begun, changes>>

\* ensure_evidence, or record_message_parts, for the file just recorded.
ensure_evidence(f) ==
    /\ call.at = "recorded" /\ f \in call.left
    /\ sources[f].generation = generation /\ sources[f].status = "imported"
    /\ evidence' = evidence \cup {f}
    /\ call' = [at |-> "scanning", left |-> call.left \ {f}]
    /\ UNCHANGED <<folder, mounted, root, scans, sources, listed, begun, changes>>

\* upsert_quarantine_source for a file that is barred, or went away since the listing.  It
\* leaves the blob of an earlier scan in the row, and gives a reason for having none: the
\* table's check refuses the row, and the call fails.
upsert_quarantine_source(f) ==
    /\ call.at = "scanning" /\ f \in call.left
    /\ folder[f] \in {"barred", "absent"}
    /\ IF sources[f].blob
       THEN call' = [call EXCEPT !.at = "failing"] /\ UNCHANGED sources
       ELSE /\ Recorded(f, "quarantined", FALSE)
            /\ call' = [call EXCEPT !.left = @ \ {f}]
    /\ UNCHANGED <<folder, mounted, root, scans, evidence, listed, begun, changes>>

(* Mutant: a source this scan has recorded counts as one it has not seen.  *)
unseen_Recorded(s) == s.generation <= generation /\ s.status # "none"

\* The sources of the root that the scan did not record.
unseen(s) == s.generation < generation /\ s.status # "none"

\* The rest of import_folder: what was not seen is missing, and the scan is complete.
complete_scan ==
    /\ call = [at |-> "scanning", left |-> {}]
    /\ sources' = [f \in Files |->
         IF unseen(sources[f]) THEN [sources[f] EXCEPT !.status = "missing"] ELSE sources[f]]
    /\ root' = [status |-> "available", generation |-> generation]
    /\ scans' = [scans EXCEPT ![generation] = "completed"]
    /\ call' = NoCall
    /\ UNCHANGED <<folder, mounted, evidence, listed, begun, changes>>

\* The call ends with an error, or the process dies.
Fail ==
    /\ call # NoCall
    /\ call' = NoCall
    /\ UNCHANGED <<folder, mounted, rows, listed, begun, changes>>

\* Hard deletion of the root takes its sources and its scans along (Deletion).
execute_deletion ==
    /\ call = NoCall /\ root # NoRoot
    /\ root' = NoRoot /\ scans' = <<>>
    /\ sources' = [f \in Files |-> NoSource] /\ evidence' = {}
    /\ UNCHANGED <<folder, mounted, listed, call, begun, changes>>

Next ==
    \/ Mount
    \/ refresh_unavailable \/ scan_fails
    \/ import_folder \/ complete_scan
    \/ \E f \in Files :
         \/ Change(f)
         \/ record_materialized_source(f) \/ ensure_evidence(f) \/ upsert_quarantine_source(f)
    \/ Fail \/ execute_deletion

Spec == Init /\ [][Next]_vars

-----------------------------------------------------------------------------
(* A root that is shown as available is what its last scan found: it has   *)
(* the files that were listed and no other, whatever came and went during  *)
(* earlier scans, failed ones included, and every imported file among them *)
(* has its evidence.  Only what a complete scan did not see is missing.    *)
ReconciledAsScanned ==
    /\ root.status = "available" =>
         \A f \in Files :
           /\ sources[f].status \in {"imported", "quarantined"} <=> f \in listed
           /\ sources[f].status = "imported" => f \in evidence
    /\ \A f \in Files : sources[f].status = "missing" => sources[f].generation < root.generation

(* A root can be refreshed again: when no import runs, the next scan has a *)
(* number that no row has taken (import_folder, UNIQUE(root_id,            *)
(* generation) of import_scans).                                           *)
RefreshIsPossible ==
    call = NoCall => generation \notin DOMAIN scans
=============================================================================
