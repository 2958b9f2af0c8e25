------------------------------ MODULE Upgrade ------------------------------
(***************************************************************************)
(* Migrating the database to a new schema (Database::open in database.rs)  *)
(* and undoing a migration that was cut off (the upgrade part of           *)
(* restore_repository.rs).  Before the first migration a copy of the       *)
(* database is staged and a journal is written; a start that finds the     *)
(* journal moves the half migrated database aside and puts the copy in     *)
(* its place.  The journal is an intent file and a checksum file, each     *)
(* renamed from a temporary one.                                           *)
(*                                                                         *)
(* A step is one change of a file.  The process may die between any two,   *)
(* and any call may fail.  The backup the copy is made from is intact, and *)
(* there is one upgrade: an operation directory that a crash left without  *)
(* a journal is never looked at again, and counts as absent.               *)
(***************************************************************************)
EXTENDS Naturals

CONSTANT FaultPlans  \* bound: how many crashes and failed calls a behaviour may have

VARIABLES
    live, wal,         \* the live database, and whether it has a sidecar
    staged,            \* source.sqlite3.staged of the operation's directory
    failed, failedwal, \* the family moved aside, in failed-live
    json, hash,        \* the phase the intent records, and the one the checksum matches
    tjson, thash,      \* the same for the temporary files
    pc, phase,         \* where the process is, and the phase in its memory
    then,              \* where recover_interrupted_upgrade returns to
    budget             \* bound: crashes and failed calls that may still happen

journal == <<json, hash, tjson, thash>>
aside == <<staged, failed, failedwal>>
files == <<live, wal, aside>>
vars == <<files, journal, pc, phase, then, budget>>

Absent == "absent"
None == "none"

Init ==
    /\ live = "source" /\ wal = FALSE
    /\ staged = Absent /\ failed = Absent /\ failedwal = FALSE
    /\ json = None /\ hash = None /\ tjson = {} /\ thash = {}
    /\ pc = "down" /\ phase = None /\ then = "open"
    /\ budget \in FaultPlans

Goto(place) == pc' = place /\ UNCHANGED <<phase, then, budget>>

\* A start that cannot go on and never will.
Stuck == Goto("stuck")

-----------------------------------------------------------------------------
\* The journal

Pending == json # None \/ hash # None

\* recover_upgrade_intent_pair and read_upgrade_intent: the phase the files stand
\* for.  An intent without a checksum is accepted in its last phase only.
RecoveredPhase ==
    IF json # None /\ (hash = json \/ json \in thash) THEN json
    ELSE IF hash # None /\ hash \in tjson THEN hash
    ELSE IF json = "verified" /\ hash = None THEN json
    ELSE None

\* write_upgrade_intent, begun.
Write(p) == pc' = "write" /\ phase' = p /\ UNCHANGED <<then, budget>>

write_temporaries ==
    /\ pc = "write" /\ Goto("rename_json")
    /\ tjson' = tjson \cup {phase} /\ thash' = thash \cup {phase}
    /\ UNCHANGED <<json, hash, files>>

rename_json ==
    /\ pc = "rename_json" /\ Goto("rename_hash")
    /\ json' = phase /\ tjson' = tjson \ {phase}
    /\ UNCHANGED <<hash, thash, files>>

\* Where the caller of write_upgrade_intent goes on.
Written ==
    CASE phase = "prepared" -> "migrate"
      [] phase = "live_quarantined" -> "publish"
      [] phase = "source_published" -> "verify_source"
      [] phase = "verified" -> "cleanup"

rename_hash ==
    /\ pc = "rename_hash" /\ Goto(Written)
    /\ hash' = phase /\ thash' = thash \ {phase}
    /\ UNCHANGED <<json, tjson, files>>

\* Mutant: the intent goes before its checksum, as in remove_intent.
first_removed_Json == json' = None /\ UNCHANGED hash
first_removed == hash' = None /\ UNCHANGED json

\* remove_upgrade_intent: the checksum, then the intent, then the temporaries.
remove_first ==
    /\ pc = "cleanup" /\ Goto("remove_json")
    /\ first_removed
    /\ UNCHANGED <<tjson, thash, files>>

remove_rest ==
    /\ pc = "remove_json" /\ Goto("remove_operation")
    /\ json' = None /\ hash' = None /\ tjson' = {} /\ thash' = {}
    /\ UNCHANGED files

\* cleanup_verified_upgrade_recovery, at the end of a commit or of a recovery.
remove_operation ==
    /\ pc = "remove_operation"
    /\ staged' = Absent /\ failed' = Absent /\ failedwal' = FALSE
    /\ pc' = (IF live = "target" THEN "up" ELSE then)
    /\ phase' = None /\ UNCHANGED <<then, budget, journal, live, wal>>

-----------------------------------------------------------------------------
\* recover_interrupted_upgrade

Start ==
    /\ pc = "down"
    /\ then' = "open"
    /\ pc' = IF Pending THEN "recover" ELSE "open"
    /\ tjson' = IF Pending THEN tjson ELSE {}
    /\ thash' = IF Pending THEN thash ELSE {}
    /\ UNCHANGED <<json, hash, files, phase, budget>>

verify_terminal_upgrade_database == live \in {"source", "target", "used"} /\ ~wal

recover_interrupted_upgrade ==
    /\ pc = "recover"
    /\ IF RecoveredPhase = None THEN Stuck /\ UNCHANGED journal
       ELSE /\ phase' = RecoveredPhase
            /\ json' = RecoveredPhase /\ tjson' = {} /\ thash' = {}
            /\ hash' = IF hash = None /\ json \notin thash THEN None ELSE RecoveredPhase
            /\ pc' = CASE RecoveredPhase = "prepared" -> "prepared"
                       [] RecoveredPhase = "live_quarantined" -> "publish"
                       [] RecoveredPhase = "source_published" -> "verify_source"
                       [] RecoveredPhase = "verified" /\ verify_terminal_upgrade_database -> "cleanup"
                       [] OTHER -> "stuck"
            /\ UNCHANGED <<then, budget>>
    /\ UNCHANGED files

\* recover_upgrade_locked in the phase prepared.
recover_prepared ==
    /\ pc = "prepared"
    /\ IF staged = Absent /\ failed # Absent /\ live = "source" THEN Write("source_published")
       ELSE IF staged = "source" THEN Goto("quarantine") ELSE Stuck
    /\ UNCHANGED <<files, journal>>

\* quarantine_database_family: the database, then its sidecars; what an earlier
\* start has moved is passed over.
quarantine_main ==
    /\ pc = "quarantine"
    /\ IF (live = Absent) = (failed = Absent) THEN Stuck /\ UNCHANGED <<live, failed>>
       ELSE /\ Goto("quarantine_wal")
            /\ IF live = Absent THEN UNCHANGED <<live, failed>>
                                ELSE failed' = live /\ live' = Absent
    /\ UNCHANGED <<wal, staged, failedwal, journal>>

moved_wal == wal' = FALSE /\ failedwal' = (wal \/ failedwal)

quarantine_wal ==
    /\ pc = "quarantine_wal"
    /\ IF wal /\ failedwal THEN Stuck /\ UNCHANGED <<wal, failedwal>>
                           ELSE Write("live_quarantined") /\ moved_wal
    /\ UNCHANGED <<live, staged, failed, journal>>

publish_upgrade_source ==
    /\ pc = "publish"
    /\ IF (staged = Absent) = (live = Absent) \/ wal \/ (live # Absent /\ live # "source")
       THEN Stuck /\ UNCHANGED <<live, staged>>
       ELSE /\ Write("source_published")
            /\ IF live = Absent THEN live' = staged /\ staged' = Absent
                                ELSE UNCHANGED <<live, staged>>
    /\ UNCHANGED <<wal, failed, failedwal, journal>>

verify_upgrade_source_database ==
    /\ pc = "verify_source"
    /\ IF live = "source" THEN Write("verified") ELSE Stuck
    /\ UNCHANGED <<files, journal>>

-----------------------------------------------------------------------------
\* Database::open

\* A database of the target schema is opened.  An older one is backed up, and the
\* copy that prepare_upgrade_recovery stages from the backup is verified before the
\* intent is written.
open ==
    /\ pc = "open"
    /\ \/ live = "source" /\ Goto("stage") /\ staged' = "torn"
       \/ live \in {"target", "used"} /\ Goto("up") /\ UNCHANGED staged
    /\ UNCHANGED <<live, wal, failed, failedwal, journal>>

prepare_upgrade_recovery ==
    /\ pc = "stage" /\ Write("prepared")
    /\ staged' = "source"
    /\ UNCHANGED <<live, wal, failed, failedwal, journal>>

\* Each migration is a transaction; the sidecars last until the checkpoint.
apply_migrations ==
    /\ pc = "migrate"
    /\ \/ live = "source" /\ live' = "partial" /\ Goto("migrate")
       \/ live = "partial" /\ live' = "target" /\ Goto("checkpoint")
    /\ wal' = TRUE
    /\ UNCHANGED <<aside, journal>>

\* wal_checkpoint, the sync of the file and its directory, and the verification.
checkpoint ==
    /\ pc = "checkpoint" /\ Goto("commit")
    /\ wal' = FALSE
    /\ UNCHANGED <<live, aside, journal>>

commit_upgrade_recovery ==
    /\ pc = "commit" /\ live = "target"
    /\ Write("verified")
    /\ UNCHANGED <<files, journal>>

\* The user works with the migrated catalog.
use ==
    /\ pc = "up" /\ live' = "used" /\ Goto("up")
    /\ UNCHANGED <<wal, aside, journal>>

-----------------------------------------------------------------------------
\* The process ends.  A directory without a journal is as good as gone.
Rest ==
    /\ pc' = "down" /\ phase' = None /\ UNCHANGED <<then, files>>

Quit == pc = "up" /\ Rest /\ UNCHANGED <<journal, budget>>

Running == pc \notin {"up", "down", "stuck"}

\* What is staged before the intent is written belongs to an operation that no
\* later start knows.
Forget ==
    /\ staged' = IF Pending THEN staged ELSE Absent
    /\ failed' = IF Pending THEN failed ELSE Absent
    /\ failedwal' = (Pending /\ failedwal)
    /\ UNCHANGED <<live, wal>>

Crash ==
    /\ Running /\ budget.crashes > 0
    /\ budget' = [budget EXCEPT !.crashes = @ - 1]
    /\ pc' = "down" /\ phase' = None /\ Forget
    /\ UNCHANGED <<then, journal>>

\* A failed call ends the start; while the migrations run, or what they did is made
\* durable and verified, the upgrade is undone first.
Error ==
    /\ Running /\ budget.errors > 0
    /\ budget' = [budget EXCEPT !.errors = @ - 1]
    /\ phase' = None
    /\ IF pc \in {"migrate", "checkpoint"}
       THEN pc' = "recover" /\ then' = "down"
       ELSE pc' = "down" /\ UNCHANGED then
    /\ Forget
    /\ UNCHANGED journal

Next ==
    \/ write_temporaries \/ rename_json \/ rename_hash
    \/ remove_first \/ remove_rest \/ remove_operation
    \/ Start \/ recover_interrupted_upgrade \/ recover_prepared
    \/ quarantine_main \/ quarantine_wal \/ publish_upgrade_source
    \/ verify_upgrade_source_database
    \/ open \/ prepare_upgrade_recovery \/ apply_migrations \/ checkpoint
    \/ commit_upgrade_recovery \/ use \/ Quit \/ Crash \/ Error

Spec == Init /\ [][Next]_vars

-----------------------------------------------------------------------------
\* Wherever an upgrade and the undoing of it are cut off, a later start gets on: it
\* never meets files it refuses, never opens a half migrated database, and never
\* undoes an upgrade the user has worked with (recover_interrupted_upgrade,
\* commit_upgrade_recovery).
UpgradeSettles ==
    /\ pc # "stuck"
    /\ pc = "open" => live \in {"source", "target", "used"}
    /\ pc = "up" => live \in {"target", "used"} /\ ~Pending
=============================================================================
