------------------------------ MODULE Deletion ------------------------------
(***************************************************************************)
(* Hard deletion (deletion_repository.rs, the deletion part of             *)
(* catalog_repository.rs) over the blob store, against imports that write  *)
(* a blob, its row and the revision in three separate steps.               *)
(*                                                                         *)
(* A preview freezes a plan: the target, everything that falls with it, and *)
(* the blobs that nothing else owns.  Executing it compares the plan with   *)
(* the live one, removes the rows in one transaction that also writes a run *)
(* with the blobs to remove, and then drains the run: every blob is moved to *)
(* the run's trash directory, removed, and struck off.  A run that was cut  *)
(* off is finished by the same request or by the next start.               *)
(*                                                                         *)
(* An execution holds the exclusive permit, so nothing else moves during it *)
(* but a crash or a failed call; a command that failed leaves the            *)
(* application running.  A PhotoKit asset is a source here.                  *)
(***************************************************************************)
EXTENDS Naturals, FiniteSets

CONSTANTS
    Sources,      \* source records, PhotoKit assets included
    Photos,       \* those that belong to the PhotoKit enrollment
    Blobs,        \* contents, by digest
    Content,      \* the blob of each source
    Tokens,       \* preview requests
    Requests,     \* execution requests
    Enrollment,   \* the target that stands for the whole enrollment
    MaxRevision,  \* bound: the revision that stands for revision_state
    FaultPlans    \* bound: how many crashes and failed calls a behaviour may have

ASSUME DeletionAssumption ==
    /\ Photos \subseteq Sources /\ Enrollment \notin Sources
    /\ Content \in [Sources -> Blobs] /\ MaxRevision \in Nat
    /\ FaultPlans \subseteq [crashes : Nat, errors : Nat]

VARIABLES
    rows,      \* source records in the database
    linked,    \* those whose evidence is assigned to the one catalog item
    enrolled,  \* whether the enrollment's row exists
    key,       \* whether the enrollment's root key is in the Keychain
    revision,
    active,    \* blob files in the store
    trash,     \* blob files in the trash directory of each request's run
    plans, runs,
    pc, op,    \* where the process is, and the source or run it is working on
    starting,  \* whether this is a start: no deadline, and an error ends it
    budget,
    late       \* history: blobs that an import put while an unfinished run named them

disk == <<active, trash>>
catalog == <<rows, linked, enrolled, revision>>
vars == <<catalog, key, disk, plans, runs, pc, op, starting, budget, late>>

NoPlan == [target |-> {}, sources |-> {}, blobs |-> {}, keys |-> {}, revision |-> 0, fresh |-> FALSE]
NoRun == [state |-> "none", token |-> {}, blobs |-> {}, pending |-> {}, keys |-> {}]
Unfinished(q) == runs[q].state \in {"in_progress", "needs_attention"}

Init ==
    /\ rows \in {{}, Sources} /\ linked = {} /\ enrolled = TRUE /\ key = TRUE /\ revision = 0
    /\ active = {Content[s] : s \in rows} /\ trash = [q \in Requests |-> {}]
    /\ plans = [t \in Tokens |-> NoPlan] /\ runs = [q \in Requests |-> NoRun]
    /\ pc = "up" /\ op = {} /\ starting = FALSE /\ budget \in FaultPlans /\ late = {}

Goto(place, what) == pc' = place /\ op' = what /\ UNCHANGED starting

-----------------------------------------------------------------------------
\* What changes the catalog: imports and decisions

\* materialize: the blob is put, or found, under the publication lock.
import_put(s) ==
    /\ pc = "up" /\ s \notin rows /\ revision < MaxRevision
    /\ s \in Photos => enrolled
    /\ active' = active \cup {Content[s]}
    /\ late' = IF \E q \in Requests : Unfinished(q) /\ Content[s] \in runs[q].blobs
               THEN late \cup {Content[s]} ELSE late
    /\ Goto("import_record", {s})
    /\ UNCHANGED <<catalog, key, trash, plans, runs, budget>>

\* record_materialized_source.
import_record ==
    /\ pc = "import_record" /\ rows' = rows \cup op
    /\ Goto("import_bump", {})
    /\ UNCHANGED <<linked, enrolled, key, revision, disk, plans, runs, budget, late>>

\* bump_or_read_evidence_generation, a transaction of its own at the end.
import_bump ==
    /\ pc = "import_bump" /\ revision' = revision + 1
    /\ Goto("up", {})
    /\ UNCHANGED <<rows, linked, enrolled, key, disk, plans, runs, budget, late>>

\* decide_evidence: the evidence of a source is assigned to the item.
decide_evidence(s) ==
    /\ pc = "up" /\ s \in rows \ (linked \cup Photos) /\ revision < MaxRevision
    /\ linked' = linked \cup {s} /\ revision' = revision + 1
    /\ UNCHANGED <<rows, enrolled, key, disk, plans, runs, pc, op, starting, budget, late>>

-----------------------------------------------------------------------------
\* Planning

\* expand_deletion_closure, to its fixed point: a source takes with it the item its
\* evidence is assigned to, and that item every source of its evidence.
expand_deletion_closure(seed) == IF seed \cap linked # {} THEN seed \cup linked ELSE seed

\* augment_photokit_entries: the enrollment takes its assets.
augment_photokit_entries(target) ==
    IF target = {Enrollment} THEN Photos \cap rows ELSE expand_deletion_closure(target)

blob_reference_owners(b) == {s \in rows : Content[s] = b}

\* reconcile_blob_entries: the blobs all of whose owners fall; the others are reported
\* as shared and retained.
reconcile_blob_entries(fall) ==
    {b \in {Content[s] : s \in fall} : blob_reference_owners(b) \subseteq fall}

\* compile_key_cleanup_actions
compile_key_cleanup_actions(target) == IF target = {Enrollment} THEN target ELSE {}

\* materialize_deletion_rows and compile_entries: the plan as the catalog is now.
LivePlan(target) ==
    LET fall == augment_photokit_entries(target)
    IN [target |-> target, sources |-> fall, blobs |-> reconcile_blob_entries(fall),
        keys |-> compile_key_cleanup_actions(target), revision |-> revision, fresh |-> TRUE]

\* require_deletion_target
LiveTarget(target) == IF target = {Enrollment} THEN enrolled ELSE target \subseteq rows

preview_deletion(t, x) ==
    /\ pc = "up" /\ LiveTarget({x}) /\ plans[t] = NoPlan
    /\ plans' = [plans EXCEPT ![t] = LivePlan({x})]
    /\ UNCHANGED <<catalog, key, disk, runs, pc, op, starting, budget, late>>

\* The plan's time to live ends.
expire(t) ==
    /\ pc = "up" /\ plans[t].fresh
    /\ plans' = [plans EXCEPT ![t].fresh = FALSE]
    /\ UNCHANGED <<catalog, key, disk, runs, pc, op, starting, budget, late>>

-----------------------------------------------------------------------------
\* Executing

\* Mutant: an unchanged revision is taken for an unchanged catalog.
plan_is_live_RevisionOnly(plan) ==
    plan.fresh /\ LiveTarget(plan.target) /\ plan.revision = revision

\* Mutant: the plan is not compared with the catalog at all.
plan_is_live_Unchecked(plan) == plan.fresh /\ LiveTarget(plan.target)

\* load_and_compare_live_plan: the revisions and the plan made again are those the
\* user saw; otherwise the snapshot has expired.
plan_is_live(plan) ==
    plan.fresh /\ LiveTarget(plan.target) /\ plan = LivePlan(plan.target)

\* The compiled statements, one per entry of the plan; each must change one row.
delete_rows(plan) == rows' = rows \ plan.sources /\ linked' = linked \ plan.sources

\* The enrollment's row goes, its key reference moves to the run.
prepare_photokit_deletion(plan) == enrolled' = (enrolled /\ plan.keys = {})

\* execute_deletion, a new request: one transaction over the rows, the run and the
\* revisions.  The plan must still be stored, hence not used up by another run.
execute_deletion(q, t) ==
    /\ pc = "up" /\ runs[q] = NoRun /\ plan_is_live(plans[t])
    /\ delete_rows(plans[t]) /\ prepare_photokit_deletion(plans[t])
    /\ revision' = revision + 1
    /\ runs' = [runs EXCEPT ![q] = [state |-> "in_progress", token |-> {t},
                    blobs |-> plans[t].blobs, pending |-> plans[t].blobs, keys |-> plans[t].keys]]
    /\ Goto("drain", {q})
    /\ UNCHANGED <<key, disk, plans, budget, late>>

\* The same request again while its run is pending: drained, and answered as a replay.
retry_deletion(q) ==
    /\ pc = "up" /\ Unfinished(q) /\ Goto("drain", {q})
    /\ UNCHANGED <<catalog, key, disk, plans, runs, budget, late>>

\* A request whose run is complete is answered from its receipt; one whose plan has
\* expired is refused.
answer_deletion(q, t) ==
    /\ pc = "up"
    /\ runs[q].state = "complete" \/ (runs[q] = NoRun /\ ~plan_is_live(plans[t]))
    /\ UNCHANGED vars

-----------------------------------------------------------------------------
\* Draining a run, the exclusive permit held or the process starting

Run == CHOOSE q \in op : TRUE
Strike(b) == runs' = [runs EXCEPT ![Run].pending = @ \ {b}]

\* drain_blob: rename into the trash directory.
drain_move(b) ==
    /\ pc = "drain" /\ b \in runs[Run].pending
    /\ b \in active /\ b \notin trash[Run]
    /\ active' = active \ {b} /\ trash' = [trash EXCEPT ![Run] = @ \cup {b}]
    /\ UNCHANGED <<catalog, key, plans, runs, pc, op, starting, budget, late>>

\* drain_blob: remove the file from the trash directory.
drain_remove(b) ==
    /\ pc = "drain" /\ b \in trash[Run] \ active
    /\ trash' = [trash EXCEPT ![Run] = @ \ {b}]
    /\ UNCHANGED <<catalog, key, active, plans, runs, pc, op, starting, budget, late>>

\* Mutant: a blob is struck off when it has been moved to the trash.
drain_strike_Early(b) ==
    /\ pc = "drain" /\ b \in runs[Run].pending \ active
    /\ Strike(b)
    /\ UNCHANGED <<catalog, key, disk, plans, pc, op, starting, budget, late>>

\* drain_deletion_run_inner: the manifest row goes when the file is gone.
drain_strike(b) ==
    /\ pc = "drain" /\ b \in runs[Run].pending \ (active \cup trash[Run])
    /\ Strike(b)
    /\ UNCHANGED <<catalog, key, disk, plans, pc, op, starting, budget, late>>

\* The trash directory is empty and removed.
drain_done ==
    /\ pc = "drain" /\ runs[Run].pending = {}
    /\ Goto("keys", op) /\ UNCHANGED <<catalog, key, disk, plans, runs, budget, late>>

\* drain_photokit_key_cleanup: the key may be gone already.
drain_keys ==
    /\ pc = "keys"
    /\ key' = IF runs[Run].keys # {} THEN FALSE ELSE key
    /\ runs' = [runs EXCEPT ![Run].keys = {}]
    /\ Goto("complete", op)
    /\ UNCHANGED <<catalog, disk, plans, budget, late>>

\* complete_deletion: the receipt is written and the plan purged.
complete_deletion ==
    /\ pc = "complete"
    /\ runs[Run].pending = {} /\ runs[Run].keys = {}
    /\ runs' = [runs EXCEPT ![Run].state = "complete", ![Run].token = {}]
    /\ plans' = [t \in Tokens |-> IF t \in runs[Run].token THEN NoPlan ELSE plans[t]]
    /\ Goto(IF starting THEN "recover" ELSE "up", {})
    /\ UNCHANGED <<catalog, key, disk, budget, late>>

\* mark_deletion_needs_attention, and the error to the caller: a command leaves the
\* application up, a start fails.
GiveUp ==
    /\ runs' = [runs EXCEPT ![Run].state = "needs_attention"]
    /\ pc' = (IF starting THEN "down" ELSE "up") /\ op' = {} /\ starting' = FALSE
    /\ UNCHANGED <<catalog, key, disk, plans, late>>

\* The file is in the store and in the trash.
drain_ambiguous ==
    /\ pc = "drain" /\ runs[Run].pending \cap active \cap trash[Run] # {}
    /\ GiveUp /\ UNCHANGED budget

\* A call fails for good, or the deadline of an online run passes.
drain_fails ==
    /\ pc \in {"drain", "keys", "complete"}
    /\ budget.errors > 0 /\ budget' = [budget EXCEPT !.errors = @ - 1]
    /\ GiveUp

-----------------------------------------------------------------------------
\* Starting, and faults

Start ==
    /\ pc = "down" /\ pc' = "recover" /\ op' = {} /\ starting' = TRUE
    /\ UNCHANGED <<catalog, key, disk, plans, runs, budget, late>>

\* recover_deletions_locked: every run that is not complete, then the application.
recover_deletion(q) ==
    /\ pc = "recover" /\ Unfinished(q)
    /\ \A r \in Requests : trash[r] # {} => Unfinished(r)
    /\ Goto("drain", {q})
    /\ UNCHANGED <<catalog, key, disk, plans, runs, budget, late>>

recovered ==
    /\ pc = "recover" /\ \A q \in Requests : ~Unfinished(q)
    /\ \A q \in Requests : trash[q] = {}
    /\ pc' = "up" /\ op' = {} /\ starting' = FALSE
    /\ UNCHANGED <<catalog, key, disk, plans, runs, budget, late>>

\* An import that fails: what it did stays.
import_fails ==
    /\ pc \in {"import_record", "import_bump"}
    /\ budget.errors > 0 /\ budget' = [budget EXCEPT !.errors = @ - 1]
    /\ Goto("up", {})
    /\ UNCHANGED <<catalog, key, disk, plans, runs, late>>

Crash ==
    /\ pc # "down" /\ budget.crashes > 0
    /\ budget' = [budget EXCEPT !.crashes = @ - 1]
    /\ pc' = "down" /\ op' = {} /\ starting' = FALSE
    /\ UNCHANGED <<catalog, key, disk, plans, runs, late>>

\* The user quits and starts again.
Quit ==
    /\ pc = "up" /\ pc' = "down" /\ op' = {} /\ UNCHANGED starting
    /\ UNCHANGED <<catalog, key, disk, plans, runs, budget, late>>

Work ==
    \/ import_record \/ import_bump
    \/ \E b \in Blobs : drain_move(b) \/ drain_remove(b) \/ drain_strike(b)
    \/ drain_done \/ drain_keys \/ complete_deletion \/ drain_ambiguous
    \/ Start \/ recovered \/ \E q \in Requests : recover_deletion(q)

Next ==
    \/ Work
    \/ \E s \in Sources : import_put(s) \/ decide_evidence(s)
    \/ \E t \in Tokens, x \in Sources \cup {Enrollment} : preview_deletion(t, x)
    \/ \E t \in Tokens : expire(t)
    \/ \E q \in Requests, t \in Tokens : execute_deletion(q, t) \/ answer_deletion(q, t)
    \/ \E q \in Requests : retry_deletion(q)
    \/ drain_fails \/ import_fails \/ Crash \/ Quit

Spec == Init /\ [][Next]_vars

\* A command under way and a start go on, and the user starts the application again.
LiveSpec == Spec /\ WF_vars(Work)

-----------------------------------------------------------------------------
TypeOK ==
    /\ rows \subseteq Sources /\ linked \subseteq rows /\ key \in BOOLEAN
    /\ revision \in 0..(MaxRevision + Cardinality(Requests))
    /\ active \subseteq Blobs /\ trash \in [Requests -> SUBSET Blobs]
    /\ \A q \in Requests : runs[q].pending \subseteq runs[q].blobs

\* A record names a file that is there, whatever was deleted beside it and wherever a
\* deletion or an import was cut off: shared blobs survive, also when the import that
\* shares them never got to bump the revision.  The exception is a blob that was
\* imported again while an unfinished run still had it on its list.
RecordsKeepTheirFiles == \A s \in rows : Content[s] \in active \cup late

\* The same without the exception: the bytes of every record are kept.
EveryRecordHasItsFile == \A s \in rows : Content[s] \in active

\* Records go only as the user saw it: what one execution removes is the plan that was
\* shown, made again from the catalog of that moment.
OnlyWhatWasShownGoes ==
    [][(rows \ rows') # {} =>
         \E t \in Tokens : /\ rows \ rows' = plans[t].sources
                           /\ plans[t].sources = augment_photokit_entries(plans[t].target)]_vars

\* A deletion reported complete has left nothing behind: none of its blobs is in the
\* store or in a trash directory, and the enrollment's key is gone.
CompleteMeansGone ==
    [][\A q \in Requests : (Unfinished(q) /\ runs'[q].state = "complete") =>
         /\ runs[q].blobs \cap active \subseteq late
         /\ trash[q] = {}
         /\ plans[CHOOSE t \in runs[q].token : TRUE].keys # {} => ~key]_vars

\* A start finishes the runs it finds and the application comes up, however often a
\* deletion was cut off before; again with the exception of late blobs.
StartFinishesDeletions ==
    /\ []<>(pc = "up" \/ late # {})
    /\ [][(pc = "recover" /\ pc' = "up") => \A q \in Requests : ~Unfinished(q)]_vars

=============================================================================
