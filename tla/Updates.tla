------------------------------- MODULE Updates -------------------------------
(***************************************************************************)
(* The staging of a signed update package                                  *)
(* (wardrobe-platform/src/update_package.rs, wardrobe-core/src/update.rs). *)
(*                                                                         *)
(* The file the user names is verified, copied into a new directory under  *)
(* update_staging, recorded, verified again, and published by a rename     *)
(* into update_verified; the two directories are synced before the call    *)
(* answers.  A call of an operation whose stage is there is a replay and   *)
(* answers at once, without a sync.  A mutex and a file lock leave one call at a time.  Another    *)
(* program may write the file at any moment, a call of the file system may *)
(* fail, the process may die, and the power may fail: then a rename whose  *)
(* directories were not synced may not have happened.                      *)
(*                                                                         *)
(* A package is what its manifest says of it, whether the signature of the *)
(* manifest holds, and whether the artifact is the manifest's.  The digests*)
(* of a package, a manifest and a record are equal when these are.         *)
(***************************************************************************)
EXTENDS Naturals

CONSTANTS
    Packages,    \* the package files there are
    TrustKeys,   \* the keys of the stager: their identifiers and ranges of releases
    Operations,  \* the identifiers of the user's operations
    MaxRewrites, \* bound: times the file is written
    MaxFaults    \* bound: failed calls, crashes and power losses

VARIABLES
    installed, \* the application: its release, version and the schema of its database
    file,      \* the file the user names, and its identity
    stages,    \* the directories in update_verified
    synced,    \* those whose rename no power loss can undo
    litter,    \* whether update_staging holds directories of calls that ended
    work,      \* the call of stage under way
    answered,  \* the stages that calls have answered as staged
    unsettled, \* history: those whose call ended between the rename and the sync, as long as
               \* no later call has synced them
    mishaps    \* faults so far

vars == <<installed, file, stages, synced, litter, work, answered, unsettled, mishaps>>

NoWork == [at |-> "none"]

-----------------------------------------------------------------------------
\* Compatibility

\* UpdateManifestV1::validate and the ranges of its fields.
manifest_is_valid(m) ==
    /\ m.release_sequence > 0
    /\ m.source_min <= m.source_max /\ m.source_min <= m.target_version
    /\ m.accepted_databases # {} /\ m.target_schema > 0

\* UpdateSigningKeyRangeV1::validate
range_is_valid(k) == 0 < k.minimum /\ k.minimum <= k.maximum

\* Two ranges of one key must not overlap, or which of them is meant depends on their order.
ranges_overlap(k, l) == k.minimum <= l.maximum /\ l.minimum <= k.maximum

trust_keys_are_valid ==
    /\ \A k \in TrustKeys : range_is_valid(k)
    /\ \A k, l \in TrustKeys : k # l /\ k.key_id = l.key_id => ~ranges_overlap(k, l)

\* evaluate_update_compatibility.  The application, the channel, the platform and the
\* formats of backups are constants of the build: here of every package.
evaluate_update_compatibility(m, context) ==
    /\ manifest_is_valid(m)
    /\ context.version \in m.source_min .. m.source_max
    /\ m.target_version > context.version
    /\ m.release_sequence > context.release
    /\ context.schema \in m.accepted_databases
    /\ m.target_schema >= context.schema

\* The key of the manifest's identifier whose range has the release.
trust_key(m) ==
    {k \in TrustKeys : k.key_id = m.key_id /\ m.release_sequence \in k.minimum .. k.maximum}

\* verify_file: the key, the signature, the compatibility and the artifact.
verify_file(p, context) ==
    /\ trust_key(p.manifest) # {} /\ p.signed
    /\ evaluate_update_compatibility(p.manifest, context)
    /\ p.intact

-----------------------------------------------------------------------------
\* Stages

\* The record, of which the envelope is the digest, binds the operation, the package and
\* the application and database for which it was verified.
stage_of(op, p, context) == [op |-> op, package |-> p, context |-> context]

\* The name of its directory.
stage_name(s) == <<s.package.manifest.release_sequence, s.package.manifest>>

verify_stage(s) == s.context = installed /\ verify_file(s.package, installed)

\* Another package of a release that is staged.
equivocates(s, m) ==
    s.package.manifest.release_sequence = m.release_sequence /\ s.package.manifest # m

\* The stages that end the loop of stage over what is there.
stops(s, op, p) == ~verify_stage(s) \/ s.op = op \/ equivocates(s, p.manifest)

Init ==
    /\ trust_keys_are_valid
    /\ installed = [release |-> 1, version |-> 1, schema |-> 1]
    /\ file \in [package : Packages, identity : {0}]
    /\ stages = {} /\ synced = {} /\ litter = FALSE
    /\ work = NoWork /\ answered = {} /\ unsettled = {} /\ mishaps = 0

disk == <<stages, synced, litter>>

\* The process's mutex and the lock on update_lock: no other call is under way.
UpdateStageLock == work = NoWork

\* What the loops of stage and recover go through, each verified as it is met.
verified_stage_directories == stages

\* recover removes what calls have left in update_staging.
cleanup_temporary_stages == litter' = FALSE

\* Another program writes the file, in place or under its name.
Rewrite(p) ==
    /\ file.identity < MaxRewrites
    /\ file' = [package |-> p, identity |-> file.identity + 1]
    /\ UNCHANGED <<installed, disk, work, answered, unsettled, mishaps>>

\* A staged update is installed, by a program that is not the application's, and the
\* application opens and upgrades the database.
Install(s) ==
    /\ work = NoWork /\ s \in stages /\ verify_stage(s)
    /\ LET m == s.package.manifest
       IN installed' = [release |-> m.release_sequence, version |-> m.target_version,
                        schema |-> m.target_schema]
    /\ UNCHANGED <<file, disk, work, answered, unsettled, mishaps>>

\* stage_internal, of an operation whose stage is there, for the same package, application
\* and database: the loop, in the order of the releases, comes to it and answers with it.
replay_stage(op) ==
    /\ UpdateStageLock
    /\ verify_file(file.package, installed)
    /\ LET s == stage_of(op, file.package, installed)
       IN /\ s \in stages
          /\ \A t \in stages :
               t.package.manifest.release_sequence < s.package.manifest.release_sequence
                 => verify_stage(t)
          /\ answered' = answered \cup {s}
    /\ UNCHANGED <<installed, file, disk, work, unsettled, mishaps>>

\* stage_internal, otherwise: the file is verified, no stage ends the loop, and the directory of the
\* call is made.
stage_internal(op) ==
    /\ UpdateStageLock
    /\ verify_file(file.package, installed)
    /\ \A s \in verified_stage_directories : ~stops(s, op, file.package)
    /\ work' = [at |-> "made", op |-> op, package |-> file.package, identity |-> file.identity]
    /\ UNCHANGED <<installed, file, disk, answered, unsettled, mishaps>>

\* The file is copied, as it is now: what was opened may have been written since.
copy_hashed ==
    /\ work.at = "made"
    /\ work' = [at |-> "copied", op |-> work.op, package |-> work.package,
                identity |-> work.identity, copy |-> file.package]
    /\ UNCHANGED <<installed, file, disk, answered, unsettled, mishaps>>

\* The digest of the copy and the identity of the file are compared with those verified,
\* the record is written, the copy verified again, and no directory has its name.
prepare_stage ==
    /\ work.at = "copied"
    /\ work.copy = work.package /\ file.identity = work.identity
    /\ verify_file(work.copy, installed)
    /\ \A s \in stages : stage_name(s) # stage_name(stage_of(work.op, work.copy, installed))
    /\ work' = [work EXCEPT !.at = "ready"]
    /\ UNCHANGED <<installed, file, disk, answered, unsettled, mishaps>>

publish_stage ==
    /\ work.at = "ready"
    /\ stages' = stages \cup {stage_of(work.op, work.copy, installed)}
    /\ work' = [work EXCEPT !.at = "renamed"]
    /\ UNCHANGED <<installed, file, synced, litter, answered, unsettled, mishaps>>

(* Mutant: the directory the stage was taken from is synced and the one it *)
(* was put into is not.                                                    *)
sync_directories_StagingOnly == UNCHANGED synced

sync_directories == synced' = stages

\* The two directories are synced, the stage is verified once more, and the call answers.
answer_stage ==
    /\ work.at = "renamed"
    /\ sync_directories
    /\ answered' = answered \cup {stage_of(work.op, work.copy, installed)}
    /\ unsettled' = unsettled \ stages
    /\ work' = NoWork
    /\ UNCHANGED <<installed, file, stages, litter, mishaps>>

\* What the code finds wrong before the rename, and a call of the file system that fails
\* there: the directory is removed if it can be.
refuse_stage ==
    /\ work.at = "copied"
    /\ \/ work.copy # work.package
       \/ file.identity # work.identity
       \/ \E s \in stages : stage_name(s) = stage_name(stage_of(work.op, work.copy, installed))
    /\ work' = NoWork
    /\ UNCHANGED <<installed, file, disk, answered, unsettled, mishaps>>

Mishap == mishaps < MaxFaults /\ mishaps' = mishaps + 1

\* A call that ends after the rename and before the sync leaves its stage unsettled.
Unsettle ==
    unsettled' = unsettled \cup (IF work.at = "renamed"
                                THEN {stage_of(work.op, work.copy, installed)} ELSE {})

fail_stage ==
    /\ work.at \in {"made", "copied"} /\ Mishap
    /\ litter' \in {litter, TRUE}
    /\ work' = NoWork
    /\ UNCHANGED <<installed, file, stages, synced, answered, unsettled>>

\* The rename fails, or a sync or the verification after it: PublicationOutcomeUnknown.
outcome_unknown ==
    /\ work.at \in {"ready", "renamed"} /\ Mishap
    /\ litter' = (litter \/ work.at = "ready")
    /\ Unsettle
    /\ work' = NoWork
    /\ UNCHANGED <<installed, file, stages, synced, answered>>

\* The process dies; with the power, renames that were not synced may go too.
crash ==
    /\ Mishap
    /\ \E lost \in SUBSET (stages \ synced) : stages' = stages \ lost
    /\ litter' = (litter \/ (work # NoWork /\ work.at # "renamed"))
    /\ Unsettle
    /\ work' = NoWork
    /\ UNCHANGED <<installed, file, synced, answered>>

\* recover answers with the stages when every one of them verifies, and cleans up first in
\* any case.
recover ==
    /\ UpdateStageLock /\ litter
    /\ cleanup_temporary_stages
    /\ UNCHANGED <<installed, file, stages, synced, work, answered, unsettled, mishaps>>

Next ==
    \/ \E p \in Packages : Rewrite(p)
    \/ \E s \in stages : Install(s)
    \/ \E op \in Operations : stage_internal(op) \/ replay_stage(op)
    \/ copy_hashed \/ prepare_stage \/ publish_stage \/ answer_stage
    \/ refuse_stage \/ fail_stage \/ outcome_unknown \/ crash \/ recover

-----------------------------------------------------------------------------
\* Whatever happens to the file and to the calls (stage_internal, publish_stage), what
\* update_verified holds was signed, whole and meant for the application that staged it;
\* a release and an operation have one stage; and a stage that a call has answered, the one
\* that published it or a replay, is there to be recovered, whatever fails after, unless its
\* rename was never synced: a replay answers with such a stage without syncing it, and a loss
\* of power may still take it.
StagedAsAnswered ==
    /\ \A s \in stages : verify_file(s.package, s.context)
    /\ \A s, t \in stages :
         s.op = t.op \/ s.package.manifest.release_sequence = t.package.manifest.release_sequence
           => s = t
    /\ answered \ unsettled \subseteq stages
=============================================================================
