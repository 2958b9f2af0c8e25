------------------------------ MODULE MCStorage ------------------------------
(***************************************************************************)
(* What adds, removes or replaces the user's files: the import of a folder, *)
(* hard deletion, backups, their restore, the upgrade of the schema, the    *)
(* staging of an update, and the report of diagnostics.                     *)
(* Each runs by itself, a start one after the other and a command under a   *)
(* lock, so a behaviour exercises one of them and leaves the files of the   *)
(* others at rest.                                                          *)
(***************************************************************************)
EXTENDS Deletion, TLC

CONSTANTS
    Assets, MaxRestores, s1, s2, b1,
    SameSchema, RestoreCrashes, RestoreErrors, UpgradeFaults,
    MaxTime, MaxPackages, Files, MaxScans, MaxChanges, MaxCommands,
    Mails, Message, Units, MailOf, NewItems, Pictures, PicturesOfRoot, PictureContent,
    UpdatePackages, UpdateKeys, UpdateOperations, MaxRewrites, MaxOutages,
    LogCapacity, MaxEvents, MaxExports, MaxFailures, MaxMeddling

VARIABLES
    feature,  \* the one that this behaviour is about
    catalog_file, staged, quarantined, opdir, blob, moved, marked, json, hash, tjson, thash,
    at, intent, restored, restores, faults, shown, before, cutoff,
    database, wal, source, failed, failedwal, ujson, uhash, utjson, uthash, place, phase,
    then, mishaps,
    now, target, packages, expired, hand, step, started, plan, run, made,
    folder, mounted, root, scans, sources, evidence, listed, call, begun, changes,
    db, commands,
    installed, package, stages, synced, litter, work, answered, unsettled, outages,
    log, dropped, export, destination, unsynced, temporaries, reported, emitted, untraced,
    theirs, taken, meddled, cuts, failures

\* Two photographs of the enrollment share a blob.
SharedContent == s1 :> b1 @@ s2 :> b1

OneFault == {[crashes |-> 1, errors |-> 0], [crashes |-> 0, errors |-> 1]}
CrashesOrOneError == {[crashes |-> 3, errors |-> 0], [crashes |-> 0, errors |-> 1]}
CrashesAndErrors == CrashesOrOneError \cup {[crashes |-> 1, errors |-> 1], [crashes |-> 0, errors |-> 2]}

R == INSTANCE Restore
       WITH MaxRequests <- MaxRestores, MaxCrashes <- RestoreCrashes,
            MaxErrors <- RestoreErrors,
            live <- catalog_file, pc <- at, requests <- restores, budget <- faults
U == INSTANCE Upgrade
       WITH FaultPlans <- UpgradeFaults, live <- database, staged <- source, json <- ujson,
            hash <- uhash, tjson <- utjson, thash <- uthash, pc <- place, budget <- mishaps

K == INSTANCE Backups WITH trash <- expired, at <- step
I == INSTANCE Imports

\* Two revisions of one message with an order of two units, two photographs of a folder
\* and a third elsewhere that has the bytes of the first.
OneMessage == [m \in {"m1", "m2"} |-> "g"]
OneOrder == [u \in {"u1", "u2"} |-> "m1"]
SharedPicture == [p \in {"p1", "p2", "p3"} |-> IF p = "p2" THEN "b2" ELSE "b1"]

C == INSTANCE Closure
       WITH Photos <- Pictures, Folder <- PicturesOfRoot, Content <- PictureContent

\* Ids are unique across tables.
ASSUME ClosureAssumption ==
    /\ \A S \in {Mails, Units, NewItems, Pictures} : IsFiniteSet(S)
    /\ Mails \cap Units = {} /\ Mails \cap NewItems = {} /\ Mails \cap Pictures = {}
    /\ Units \cap Pictures = {} /\ NewItems \cap Pictures = {} /\ C!NoPin \notin Pictures
    /\ PicturesOfRoot \subseteq Pictures /\ MailOf \in [Units -> Mails]

\* Two packages of one release, one of the next that takes the schema along, and one that
\* is not signed; the key of the first two releases and that of the later ones.
Manifest(r, build, schema) ==
    [key_id |-> IF r > 2 THEN "second" ELSE "first", release_sequence |-> r, build |-> build,
     target_version |-> r, source_min |-> 1, source_max |-> 2,
     accepted_databases |-> {1, 2}, target_schema |-> schema]
Package(m, signed, intact) == [manifest |-> m, signed |-> signed, intact |-> intact]

FivePackages ==
    {Package(Manifest(2, "x", 1), TRUE, TRUE), Package(Manifest(2, "y", 1), TRUE, TRUE),
     Package(Manifest(3, "z", 2), TRUE, TRUE), Package(Manifest(3, "w", 2), FALSE, TRUE),
     Package(Manifest(3, "z", 2), TRUE, FALSE)}
TwoKeys == {[key_id |-> "first", minimum |-> 1, maximum |-> 2],
            [key_id |-> "second", minimum |-> 3, maximum |-> 9]}

P == INSTANCE Updates
       WITH Packages <- UpdatePackages, TrustKeys <- UpdateKeys,
            Operations <- UpdateOperations, MaxFaults <- MaxOutages,
            file <- package, mishaps <- outages

\* The files of reports are numbered, up to the bound.
ASSUME DiagnosticsAssumption == MaxExports \in Nat

D == INSTANCE Diagnostics
       WITH Capacity <- LogCapacity, MaxFaults <- MaxFailures,
            answered <- reported, restarts <- cuts, faults <- failures

deletionVars ==
    <<rows, linked, enrolled, revision, key, active, trash, plans, runs, pc, op, starting,
      budget, late>>
restoreVars ==
    <<catalog_file, staged, quarantined, opdir, blob, moved, marked, json, hash, tjson, thash,
      at, intent, restored, restores, faults, shown, before, cutoff>>
upgradeVars ==
    <<database, wal, source, failed, failedwal, ujson, uhash, utjson, uthash, place, phase,
      then, mishaps>>
backupVars == <<now, target, packages, expired, hand, step, started, plan, run, made>>
importVars ==
    <<folder, mounted, root, scans, sources, evidence, listed, call, begun, changes>>
updateVars ==
    <<installed, package, stages, synced, litter, work, answered, unsettled, outages>>
diagnosticsVars ==
    <<log, dropped, export, destination, unsynced, temporaries, reported, emitted, untraced,
      theirs, taken, meddled, cuts, failures>>
closureVars == <<db, commands, updateVars, diagnosticsVars>>
keepVars == <<backupVars, importVars>>
allVars == <<feature, deletionVars, restoreVars, upgradeVars, keepVars, closureVars>>

InitStorage ==
    /\ feature \in {"deletion", "restore", "upgrade", "backups", "imports", "closure",
                   "updates", "diagnostics"}
    /\ Init /\ R!Init /\ U!Init /\ K!Init /\ I!Init /\ C!Init /\ P!Init /\ D!Init
    /\ feature # "deletion" => rows = {} /\ budget.crashes = 1
    /\ feature # "restore" => blob = [a \in Assets |-> "right"]
    /\ feature # "upgrade" => mishaps.crashes = 3
    /\ feature # "updates" => package.package.manifest.build = "x"
    /\ feature # "imports" => folder = [f \in Files |-> "absent"]

Delete(A) == feature = "deletion" /\ A /\ UNCHANGED <<feature, restoreVars, upgradeVars, keepVars, closureVars>>

NextStorage ==
    \/ Delete(Next)
    \/ feature = "restore" /\ R!Next
       /\ UNCHANGED <<feature, deletionVars, upgradeVars, keepVars, closureVars>>
    \/ feature = "upgrade" /\ U!Next
       /\ UNCHANGED <<feature, deletionVars, restoreVars, keepVars, closureVars>>
    \/ /\ UNCHANGED <<feature, deletionVars, restoreVars, upgradeVars>>
       /\ \/ feature = "backups" /\ K!Next /\ UNCHANGED <<importVars, closureVars>>
          \/ feature = "imports" /\ I!Next /\ UNCHANGED <<backupVars, closureVars>>
          \/ feature = "closure" /\ C!Next /\ UNCHANGED <<keepVars, updateVars, diagnosticsVars>>
          \/ feature = "updates" /\ P!Next
             /\ UNCHANGED <<keepVars, db, commands, diagnosticsVars>>
          \/ feature = "diagnostics" /\ D!Next
             /\ UNCHANGED <<keepVars, db, commands, updateVars>>
          \/ feature \in {"closure", "updates", "diagnostics"} /\ UNCHANGED <<keepVars, closureVars>>  \* the user rests

\* A command under way and a start go on, and the user starts the application again.
SpecStorage == InitStorage /\ [][NextStorage]_allVars /\ WF_allVars(Delete(Work))

\* The catalog the user had is on the disk until the restored one is committed, and what
\* the application opens after a restore, or after one undone, is whole; but for a restore
\* whose rollback was cut off while its journal said validated, which the next start commits.
RestoreKeepsACatalog == R!NoCatalogLost /\ R!OpenedIsWhole

\* Wherever an upgrade of the schema is cut off, a later start gets on.
UpgradeSettles == U!UpgradeSettles

\* The user knows which backups keep what was deleted, and until when.
RetainedAsShown == K!RetainedAsShown

\* An available root is what its last scan has found.
ReconciledAsScanned == I!ReconciledAsScanned

\* A deletion takes all that refers to what it takes, but for four tangles, and the originals
\* shown as going are those that go, but for detected people and pinned pictures.
PlansAreWhole == feature = "closure" => C!PlansAreClosed /\ C!PreviewIsExact

\* What is staged is what was verified, and stays when a call has said so, unless its rename
\* was never synced and replays alone have answered with it.
StagedAsAnswered == P!StagedAsAnswered

\* A deletion is finished, at the latest by the next start, and leaves nothing behind.
DeletionsFinish == CompleteMeansGone /\ StartFinishesDeletions

\* A report that calls the log ready counts every event whose failure left a trace, an
\* answered report stays until another program takes it, and no file of theirs is replaced.
ExportsAreHonest == D!ExportsAreHonest
=============================================================================
