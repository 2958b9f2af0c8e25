------------------------------ MODULE Restore ------------------------------
(***************************************************************************)
(* Restoring a backup (restore_repository.rs, and the parts of database.rs *)
(* that stage, verify and open a database).  The user asks for a restore   *)
(* while the application runs; the next start carries it out before the    *)
(* database is opened.  A journal, the intent file and the file with its   *)
(* checksum, names the phase that was reached, so that a start which was   *)
(* cut off is continued by the next one; an error undoes what was done.    *)
(*                                                                         *)
(* A step is one change of a file or directory.  The process may die       *)
(* between any two, and any call may fail.  The database and its WAL are   *)
(* one file here: recover_deletions_before_restore opens and closes the    *)
(* live database first, which leaves no WAL behind.  What is synced to the *)
(* disk, hence a loss of power, is not modelled.  The backup itself is     *)
(* intact; that its verification may fail is one of the errors.            *)
(***************************************************************************)
EXTENDS Naturals

CONSTANTS
    Assets,       \* the assets of the backup's manifest
    SameSchema,   \* whether the backup has the current schema version
    MaxRequests,  \* bound: restores the user asks for
    MaxCrashes,   \* bound: crashes
    MaxErrors     \* bound: failed calls

VARIABLES
    live,         \* the contents of the live database
    staged,       \* catalog.sqlite3.staged of the operation's directory
    quarantined,  \* the live database moved into the operation's directory
    opdir,        \* whether the operation's directory exists
    blob,         \* the blob of each asset: right, wrong contents, or absent
    moved,        \* assets whose wrong blob is in blob-quarantine
    marked,       \* assets with a marker in blob-new
    json, hash,   \* the intent, and the intent its checksum file belongs to
    tjson, thash, \* the same for their temporary files
    pc, intent,   \* where the process is, and the intent in its memory
    restored,     \* what apply_pending returned
    requests,     \* restores asked for so far
    budget,       \* crashes and failed calls that may still happen
    shown,        \* history: the catalog the application last opened
    before,       \* history: the blobs when the restore was requested
    cutoff        \* history: whether the rollback of a validated restore was cut off

journal == <<json, hash, tjson, thash>>
databases == <<live, staged, quarantined, opdir>>
blobs == <<blob, moved, marked>>
memory == <<pc, intent, restored>>
bounds == <<requests, budget>>
history == <<shown, before, cutoff>>
vars == <<journal, databases, blobs, memory, bounds, history>>

\* Contents of a database: the user's catalog; an incomplete copy, or one that
\* SQLite is working on; a copy as it was backed up; the migrated and normalized
\* copy; a database created because there was none.
Absent == "absent"
Catalogs == {"old", "torn", "raw", "new", "empty", Absent}
Phases == {"requested", "assets_installed", "live_quarantined", "database_installed",
           "validated", "committed"}
\* An intent names its operation, its phase and the hash of the staged database.
Intents == [op : 1..MaxRequests, phase : Phases, staged : {"none", "raw", "new"}]
NoIntent == [op |-> 0, phase |-> "none", staged |-> "none"]

Init ==
    /\ live = "old" /\ staged = Absent /\ quarantined = Absent /\ opdir = FALSE
    /\ blob \in [Assets -> {"right", "wrong", "absent"}]
    /\ moved = {} /\ marked = {}
    /\ json = NoIntent /\ hash = NoIntent /\ tjson = {} /\ thash = {}
    /\ pc = "up" /\ intent = NoIntent /\ restored = FALSE
    /\ requests = 0 /\ budget = [crashes |-> MaxCrashes, errors |-> MaxErrors]
    /\ shown = "old" /\ before = blob /\ cutoff = FALSE

-----------------------------------------------------------------------------
\* The journal

\* recover_intent_pair: the intent the files stand for, or NoIntent if none does.
RecoveredIntent ==
    IF json # NoIntent /\ (hash = json \/ json \in thash) THEN json
    ELSE IF hash # NoIntent /\ hash \in tjson THEN hash
    ELSE NoIntent

Pending == json # NoIntent \/ hash # NoIntent

\* write_intent, begun: two temporary files are written and renamed in turn.
Write(phase) ==
    /\ intent' = [intent EXCEPT !.phase = phase]
    /\ pc' = "write" /\ UNCHANGED restored

\* Where the process goes on when the intent in its memory has been written.
AfterWrite ==
    CASE intent.phase = "requested" -> IF intent.staged = "none" THEN "up" ELSE "assets"
      [] intent.phase = "assets_installed" -> "quarantine"
      [] intent.phase = "live_quarantined" -> "install"
      [] intent.phase = "database_installed" -> "validate"
      [] intent.phase = "validated" -> "open"
      [] intent.phase = "committed" -> "cleanup"

\* One temporary file without the other matches nothing, so both appear at once.
write_temporaries ==
    /\ pc = "write" /\ pc' = "rename_json"
    /\ tjson' = tjson \cup {intent} /\ thash' = thash \cup {intent}
    /\ UNCHANGED <<json, hash, databases, blobs, intent, restored, bounds, history>>

rename_json ==
    /\ pc = "rename_json" /\ pc' = "rename_hash"
    /\ json' = intent /\ tjson' = tjson \ {intent}
    /\ UNCHANGED <<hash, thash, databases, blobs, intent, restored, bounds, history>>

rename_hash ==
    /\ pc = "rename_hash" /\ pc' = "sync_root"
    /\ hash' = intent /\ thash' = thash \ {intent}
    /\ UNCHANGED <<json, tjson, databases, blobs, intent, restored, bounds, history>>

sync_root ==
    /\ pc = "sync_root" /\ pc' = AfterWrite
    /\ restored' = (intent.phase \in {"validated", "committed"})
    /\ UNCHANGED <<journal, databases, blobs, intent, bounds, history>>

\* The process ends, or the application runs: nothing of the restore is in memory.
Rest(place) == pc' = place /\ intent' = NoIntent /\ restored' = FALSE

\* remove_intent, ending a rollback, a commit, or apply_pending's cleanup of an
\* operation that an earlier start committed.
remove_json ==
    /\ pc = "remove_json" /\ pc' = "remove_hash"
    /\ json' = NoIntent
    /\ UNCHANGED <<hash, tjson, thash, databases, blobs, intent, restored, bounds, history>>

remove_hash ==
    /\ pc = "remove_hash"
    /\ IF intent.phase # "committed" THEN Rest("down")
       ELSE IF restored THEN Rest("up") ELSE Rest("open")
    /\ shown' = IF pc' = "up" THEN live ELSE shown
    /\ hash' = NoIntent
    /\ UNCHANGED <<json, tjson, thash, databases, blobs, bounds, before, cutoff>>

-----------------------------------------------------------------------------
\* Asking for a restore, and starting

\* prepare; the safety backup it takes changes nothing that is modelled here.  A
\* restore on top of a restored catalog is left out.
prepare ==
    /\ pc = "up" /\ ~Pending /\ live = "old" /\ requests < MaxRequests
    /\ requests' = requests + 1
    /\ intent' = [op |-> requests + 1, phase |-> "requested", staged |-> "none"]
    /\ pc' = "write" /\ before' = blob
    /\ UNCHANGED <<journal, databases, blobs, restored, budget, shown, cutoff>>

Quit ==
    /\ pc = "up" /\ Rest("down")
    /\ UNCHANGED <<journal, databases, blobs, bounds, history>>

\* apply_pending: no intent, or one that cannot be read, or one to carry on with.
StartPlain ==
    /\ pc = "down" /\ ~Pending /\ Rest("open")
    /\ UNCHANGED <<journal, databases, blobs, bounds, history>>

StartRefused ==
    /\ pc = "down" /\ Pending /\ RecoveredIntent = NoIntent
    /\ UNCHANGED vars

StartPending ==
    /\ pc = "down" /\ Pending /\ RecoveredIntent # NoIntent
    /\ json' = RecoveredIntent /\ hash' = RecoveredIntent /\ tjson' = {} /\ thash' = {}
    /\ intent' = RecoveredIntent
    /\ pc' = CASE RecoveredIntent.phase = "requested" -> "recover_deletions"
               [] RecoveredIntent.phase = "committed" -> "cleanup"
               [] OTHER -> "verify"
    /\ UNCHANGED <<databases, blobs, restored, bounds, history>>

recover_deletions ==
    /\ pc = "recover_deletions" /\ pc' = "verify"
    /\ UNCHANGED <<journal, databases, blobs, intent, restored, bounds, history>>

\* apply_locked: the backup is verified, and the phase says where to go on.
verify ==
    /\ pc = "verify" /\ opdir' = TRUE
    /\ pc' = CASE intent.phase = "requested" -> "stage"
               [] intent.phase = "validated" -> "open"
               [] OTHER -> AfterWrite
    /\ restored' = (intent.phase = "validated")
    /\ UNCHANGED <<journal, live, staged, quarantined, blobs, intent, bounds, history>>

-----------------------------------------------------------------------------
\* Phase requested: the staged database and the assets

\* apply_pending, when apply_locked has failed and the operation's directory exists.
Fail == pc' = "undo" /\ UNCHANGED <<intent, restored>>

Goto(place) == pc' = place /\ UNCHANGED <<intent, restored>>

\* verify_staged_restore_database: complete, and of the current schema.
Verifies(contents) == contents = "new" \/ (contents = "raw" /\ SameSchema)

stage ==
    /\ pc = "stage"
    /\ IF staged = Absent THEN staged' = "torn" /\ Goto("copy")
       ELSE /\ UNCHANGED staged
            /\ IF Verifies(staged) THEN Goto("record") ELSE Fail
    /\ UNCHANGED <<journal, live, quarantined, opdir, blobs, bounds, history>>

\* stage_restore_database: the copy is complete; SQLite opens, migrates and
\* normalizes it, with its sidecars beside it; they are gone at the end.
copy ==
    /\ pc = "copy" /\ staged' = "raw" /\ Goto("normalize")
    /\ UNCHANGED <<journal, live, quarantined, opdir, blobs, bounds, history>>

normalize ==
    /\ pc = "normalize" /\ staged' = "torn" /\ Goto("finish")
    /\ UNCHANGED <<journal, live, quarantined, opdir, blobs, bounds, history>>

finish ==
    /\ pc = "finish" /\ staged' = "new" /\ Goto("record")
    /\ UNCHANGED <<journal, live, quarantined, opdir, blobs, bounds, history>>

record ==
    /\ pc = "record"
    /\ IF intent.staged \in {"none", staged}
       THEN intent' = [intent EXCEPT !.staged = staged] /\ pc' = "write" /\ UNCHANGED restored
       ELSE Fail
    /\ UNCHANGED <<journal, databases, blobs, bounds, history>>

\* install_assets.  The assets are independent, so their order is left open.  A
\* blob in the way is moved aside; for an absent one a marker is left, unless the
\* blob was moved aside by a start that was cut off.  The copy goes to the staging
\* directory and is renamed when its hash is right.
displace(a) ==
    /\ pc = "assets" /\ blob[a] = "wrong"
    /\ blob' = [blob EXCEPT ![a] = "absent"] /\ moved' = moved \cup {a}
    /\ UNCHANGED <<journal, databases, marked, memory, bounds, history>>

mark(a) ==
    /\ pc = "assets" /\ blob[a] = "absent" /\ a \notin moved \cup marked
    /\ marked' = marked \cup {a}
    /\ UNCHANGED <<journal, databases, blob, moved, memory, bounds, history>>

install_asset(a) ==
    /\ pc = "assets" /\ blob[a] = "absent" /\ a \in moved \cup marked
    /\ blob' = [blob EXCEPT ![a] = "right"]
    /\ UNCHANGED <<journal, databases, moved, marked, memory, bounds, history>>

assets_installed ==
    /\ pc = "assets" /\ \A a \in Assets : blob[a] = "right"
    /\ Write("assets_installed")
    /\ UNCHANGED <<journal, databases, blobs, bounds, history>>

-----------------------------------------------------------------------------
\* The other phases

quarantine_live_database ==
    /\ pc = "quarantine"
    /\ IF live # Absent /\ quarantined = Absent
       THEN quarantined' = live /\ live' = Absent /\ Write("live_quarantined")
       ELSE /\ UNCHANGED <<live, quarantined>>
            /\ IF live = Absent /\ quarantined # Absent THEN Write("live_quarantined") ELSE Fail
    /\ UNCHANGED <<journal, staged, opdir, blobs, bounds, history>>

install_database ==
    /\ pc = "install"
    /\ IF staged # Absent /\ live = Absent
       THEN live' = staged /\ staged' = Absent /\ Write("database_installed")
       ELSE /\ UNCHANGED <<live, staged>>
            /\ IF staged = Absent /\ live = intent.staged THEN Write("database_installed") ELSE Fail
    /\ UNCHANGED <<journal, quarantined, opdir, blobs, bounds, history>>

validate_installed ==
    /\ pc = "validate"
    /\ IF live = intent.staged /\ \A a \in Assets : blob[a] = "right"
       THEN Write("validated") ELSE Fail
    /\ UNCHANGED <<journal, databases, blobs, bounds, history>>

\* Database::open after apply_pending, to the end if nothing was restored, or to
\* commit_pending.
Open ==
    /\ pc = "open"
    /\ live' = IF live = Absent THEN "empty" ELSE live
    /\ IF restored THEN Write("committed") /\ UNCHANGED shown
                   ELSE Rest("up") /\ shown' = live'
    /\ UNCHANGED <<journal, staged, quarantined, opdir, blobs, bounds, before, cutoff>>

\* remove_dir_all on the operation's directory, by cleanup_committed or by
\* rollback_locked; the staged database may go before the rest.
remove_operation ==
    /\ pc \in {"cleanup", "undo_dir"}
    /\ \/ staged # Absent /\ Goto(pc) /\ UNCHANGED <<quarantined, opdir, moved, marked>>
       \/ Goto("remove_json") /\ opdir' = FALSE /\ quarantined' = Absent /\ moved' = {} /\ marked' = {}
    /\ staged' = Absent
    /\ UNCHANGED <<journal, live, blob, bounds, history>>

-----------------------------------------------------------------------------
\* rollback_locked and rollback_assets

remove_live ==
    /\ pc = "undo"
    /\ live' = IF quarantined # Absent THEN Absent ELSE live
    /\ Goto(IF quarantined # Absent THEN "undo_live" ELSE "undo_assets")
    /\ UNCHANGED <<journal, staged, quarantined, opdir, blobs, bounds, history>>

return_live ==
    /\ pc = "undo_live" /\ Goto("undo_assets")
    /\ live' = quarantined /\ quarantined' = Absent
    /\ UNCHANGED <<journal, staged, opdir, blobs, bounds, history>>

\* The moved blobs go back first, each after the installed one is removed; then
\* the blobs that have a marker are removed.
rollback_asset(a) ==
    /\ pc = "undo_assets"
    /\ \/ /\ a \in moved \/ (moved = {} /\ a \in marked)
          /\ blob[a] # "absent" /\ blob' = [blob EXCEPT ![a] = "absent"] /\ UNCHANGED moved
       \/ /\ a \in moved /\ blob[a] = "absent"
          /\ blob' = [blob EXCEPT ![a] = "wrong"] /\ moved' = moved \ {a}
    /\ UNCHANGED <<journal, databases, marked, memory, bounds, history>>

\* Mutant: the rollback forgets the blobs that were absent before.
assets_rolled_back_MarkersIgnored ==
    /\ pc = "undo_assets" /\ moved = {}
    /\ Goto("undo_dir")
    /\ UNCHANGED <<journal, databases, blobs, bounds, history>>

assets_rolled_back ==
    /\ pc = "undo_assets" /\ moved = {} /\ \A a \in marked : blob[a] = "absent"
    /\ Goto("undo_dir")
    /\ UNCHANGED <<journal, databases, blobs, bounds, history>>

-----------------------------------------------------------------------------
\* Faults

Undoing == {"undo", "undo_live", "undo_assets", "undo_dir", "remove_json", "remove_hash"}

\* A rollback ends before its end while the journal still says that the restore is
\* validated: the next start does not go on with it, but opens the database that is there
\* or, after remove_live, an empty one, and commits.
CutOff == cutoff' = (cutoff \/ (pc \in Undoing /\ RecoveredIntent.phase = "validated"))

Crash ==
    /\ pc # "down" /\ budget.crashes > 0
    /\ budget' = [budget EXCEPT !.crashes = @ - 1]
    /\ Rest("down") /\ CutOff
    /\ UNCHANGED <<journal, databases, blobs, requests, shown, before>>

Writing == {"write", "rename_json", "rename_hash", "sync_root"}
Applying == {"verify", "stage", "copy", "normalize", "finish", "record", "assets",
             "quarantine", "install", "validate"}

\* A call fails.  In prepare the application goes on; in apply_locked it is undone
\* if the operation's directory exists; elsewhere the start fails.
Error ==
    /\ pc \notin {"up", "down"} /\ budget.errors > 0
    /\ budget' = [budget EXCEPT !.errors = @ - 1]
    /\ CASE pc \in Writing /\ AfterWrite = "up" -> Rest("up")
         [] pc \in Applying \/ (pc \in Writing /\ AfterWrite \notin {"up", "cleanup"}) ->
              IF opdir THEN Fail ELSE Rest("down")
         [] OTHER -> Rest("down")
    /\ CutOff
    /\ UNCHANGED <<journal, databases, blobs, requests, shown, before>>

-----------------------------------------------------------------------------
Work ==
    \/ write_temporaries \/ rename_json \/ rename_hash \/ sync_root
    \/ remove_json \/ remove_hash
    \/ StartPlain \/ StartRefused \/ StartPending \/ recover_deletions \/ verify
    \/ stage \/ copy \/ normalize \/ finish \/ record
    \/ \E a \in Assets : displace(a) \/ mark(a) \/ install_asset(a) \/ rollback_asset(a)
    \/ assets_installed \/ quarantine_live_database \/ install_database
    \/ validate_installed \/ Open \/ remove_operation
    \/ remove_live \/ return_live \/ assets_rolled_back

Next == Work \/ prepare \/ Quit \/ Crash \/ Error

Spec == Init /\ [][Next]_vars

\* The user starts the application again, and a start takes its next step.
LiveSpec == Spec /\ WF_vars(Work)

-----------------------------------------------------------------------------
\* The catalog the user had is on the disk, live or quarantined, until the restored
\* one is live and its restore committed, unless the rollback of a validated restore was
\* cut off.
NoCatalogLost ==
    \/ "old" \in {live, quarantined}
    \/ live \in {"raw", "new"} /\ RecoveredIntent.phase \in {"committed", "none"}
    \/ cutoff

\* What the application opens is whole, with the same exception: the restored catalog with
\* every asset of the backup in place, or the catalog the user had with the blobs it had,
\* which a restore that was undone has put back as they were.  The restored catalog may be
\* the raw copy: a crash right after the copy leaves a staged database of the current
\* schema that the next start takes for the normalized one.
OpenedIsWhole ==
    pc = "up" => \/ live \in {"raw", "new"} /\ \A a \in Assets : blob[a] = "right"
                 \/ live = "old" /\ blob = before
                 \/ cutoff

\* A restore leaves a usable catalog: the application never comes up with the empty
\* one that open creates when there is no database.
RestoreIsUsable == pc = "up" => live # "empty"

\* The application comes up in the end, whatever crash cut a restore off.
ComesUp == []<>(pc = "up")

=============================================================================
