------------------------------- MODULE PhotoKit -------------------------------
(***************************************************************************)
(* The PhotoKit connector: enrollments of an album, reconciliations of it    *)
(* and the availability of its assets (photokit_repository.rs,              *)
(* photokit_coordinator.rs, photokit_connector_runtime.rs), and the locks    *)
(* they take (lib.rs, maintenance.rs).                                       *)
(*                                                                         *)
(* Three threads meet: one reconciles (sync_photokit_v1, or the start of the *)
(* application), one runs another command of the connector, and one does     *)
(* maintenance, a hard deletion or the collection of an unowned blob.  The   *)
(* first two share the mutex of the connector's state.  A command takes its  *)
(* shared maintenance permit before the mutex, a reconciliation after it.    *)
(* An enrollment is named by its epoch, as is its key in the Keychain; the    *)
(* blob of an asset by the asset.                                            *)
(***************************************************************************)
EXTENDS Naturals, FiniteSets

CONSTANTS
    Assets,         \* of the user's album
    MaxEnrollments, \* bound: enrollments ever reserved
    MaxFence        \* bound: the fence of an enrollment and its number, together

Epochs == 1..MaxEnrollments
Nothing == 0

VARIABLES
    enrollments,  \* photokit_enrollments, with the members of the active generation
    connector,    \* photokit_connector_state
    heads,        \* photokit_availability_heads
    materials,    \* photokit_materializations: the pairs of an epoch and an asset
    files,        \* the blobs in the store
    keychain,     \* the root keys
    intents,      \* photokit_key_cleanup_intents that are pending
    session,      \* a setup session with an unused token, in memory
    sync,         \* the thread that reconciles
    command,      \* the thread that runs another command
    mutex,        \* who holds the connector's state
    readers,      \* who holds a shared permit
    writer,       \* the maintenance thread: "idle", "waiting" or "active"
    disturbed     \* history: the enrollments changed under the reconciliation under way

rows == <<enrollments, connector, heads, materials, intents>>
outside == <<files, keychain>>
locks == <<mutex, readers, writer>>
vars == <<rows, outside, session, sync, command, locks, disturbed>>

Unreserved == [state |-> "absent", fence |-> 0, complete |-> FALSE, members |-> {}]
Idle == [step |-> "idle"]

Init ==
    /\ enrollments = [e \in Epochs |-> Unreserved]
    /\ connector = [active |-> Nothing, state |-> "unconfigured"]
    /\ heads = [e \in Epochs |-> [a \in Assets |-> "none"]]
    /\ materials = {} /\ files = {} /\ keychain = {} /\ intents = {}
    /\ session = FALSE
    /\ sync = [step |-> "recover_lock"] /\ command = Idle
    /\ mutex = "free" /\ readers = {} /\ writer = "idle"
    /\ disturbed = {}

Active == connector.active
HeadAssets(e) == {a \in Assets : heads[e][a] # "none"}

\* acquire_shared: not while a writer is active or waits.
MayShare == writer = "idle"

-----------------------------------------------------------------------------
\* Rows that several operations change

Hide(e, assets) ==
    [heads EXCEPT ![e] = [a \in Assets |->
        IF a \in assets /\ heads[e][a] # "none" THEN "unavailable" ELSE heads[e][a]]]

\* Mutant: without an active generation there is nothing to hide.
active_generation_assets_GenerationOnly(e) ==
    IF enrollments[e].complete THEN enrollments[e].members ELSE {}

active_generation_assets(e) ==
    IF enrollments[e].complete THEN enrollments[e].members ELSE HeadAssets(e)

\* What becomes of the active enrollment when another takes its place or it is disabled.
Inactivated(e) ==
    [enrollments EXCEPT ![e].state = "inactive", ![e].fence = @ + 1]

\* Mutant: only the state of the operation is looked at.
ensure_current_operation_AnyFence(operation) == TRUE

ensure_current_operation(operation) ==
    /\ Active = operation.epoch
    /\ enrollments[operation.epoch].state = "active"
    /\ enrollments[operation.epoch].fence = operation.fence

-----------------------------------------------------------------------------
\* The reconciling thread

SyncTo(step) == sync' = [sync EXCEPT !.step = step]
SyncEnds ==
    /\ sync' = Idle
    /\ mutex' = "free"
    /\ readers' = readers \ {"sync"}

\* execute_photokit_reconcile_command: a reconciliation starts without a permit.
sync_photokit_v1 ==
    /\ sync = Idle
    /\ sync' = [step |-> "lock"]
    /\ UNCHANGED <<rows, outside, session, command, locks, disturbed>>

sync_lock ==
    /\ sync.step \in {"lock", "recover_lock"}
    /\ mutex = "free"
    /\ mutex' = "sync"
    /\ SyncTo(IF sync.step = "lock" THEN "begin" ELSE "recover")
    /\ UNCHANGED <<rows, outside, session, command, readers, writer, disturbed>>

\* recover: the rows of operations that were cut off go, and nobody reconciles.
recover_operations ==
    /\ sync.step = "recover"
    /\ connector' = [connector EXCEPT !.state =
                        CASE @ # "reconciling" -> @
                          [] @ = "reconciling" /\ Active = Nothing -> "unconfigured"
                          [] OTHER -> "ready"]
    /\ sync' = [step |-> "recover_keys",
                todo |-> {e \in Epochs : enrollments[e].state = "pending"} \cup intents]
    /\ UNCHANGED <<enrollments, heads, materials, intents, outside, session, command, locks, disturbed>>

\* recover: the key of an enrollment that never became active, or of an intent, is
\* deleted first, then the row; the Keychain may refuse, and then the row stays.
recover_key(e) ==
    /\ sync.step = "recover_keys" /\ e \in sync.todo
    /\ \/ /\ keychain' = keychain \ {e}
          /\ intents' = intents \ {e}
          /\ enrollments' = IF enrollments[e].state = "pending"
                            THEN [enrollments EXCEPT ![e].state = "removed"] ELSE enrollments
       \/ UNCHANGED <<keychain, intents, enrollments>>
    /\ sync' = [sync EXCEPT !.todo = @ \ {e}]
    /\ UNCHANGED <<connector, heads, materials, files, session, command, locks, disturbed>>

\* startup_reconcile: the reconciliation follows, if an album is enrolled.
recovered ==
    /\ sync.step = "recover_keys" /\ sync.todo = {}
    /\ sync' = IF Active = Nothing THEN Idle ELSE [step |-> "lock"]
    /\ mutex' = "free"
    /\ UNCHANGED <<rows, outside, session, command, readers, writer, disturbed>>

\* begin_operation: a new fence for the active enrollment.
begin_operation ==
    /\ sync.step = "begin"
    /\ Active # Nothing /\ enrollments[Active].state = "active"
    /\ enrollments[Active].fence + Active < MaxFence
    /\ enrollments' = [enrollments EXCEPT ![Active].fence = @ + 1]
    /\ connector' = [connector EXCEPT !.state = "reconciling"]
    /\ sync' = [step |-> "enumerate", epoch |-> Active,
                fence |-> enrollments[Active].fence + 1, observed |-> {}, prepared |-> {}]
    /\ disturbed' = {}
    /\ UNCHANGED <<heads, materials, intents, outside, session, command, locks>>

\* The album is enumerated, each asset under ensure_current_operation, and
\* mark_materializing follows.
record_observations(observed) ==
    /\ sync.step = "enumerate"
    /\ ensure_current_operation(sync)
    /\ sync' = [sync EXCEPT !.step = "materialize", !.observed = observed]
    /\ UNCHANGED <<rows, outside, session, command, locks, disturbed>>

\* materialize_asset for every asset: each may turn out unsupported, in iCloud or broken.
materialize(prepared) ==
    /\ sync.step = "materialize"
    /\ prepared \subseteq sync.observed
    /\ ensure_current_operation(sync)
    /\ sync' = [sync EXCEPT !.step = "permit", !.prepared = prepared]
    /\ UNCHANGED <<rows, outside, session, command, locks, disturbed>>

\* The narrow permit for publishing, taken with the mutex held.
sync_permit ==
    /\ sync.step = "permit"
    /\ MayShare
    /\ readers' = readers \cup {"sync"}
    /\ SyncTo("promote")
    /\ UNCHANGED <<rows, outside, session, command, mutex, writer, disturbed>>

promote_prepared ==
    /\ sync.step = "promote"
    /\ files' = files \cup sync.prepared
    /\ SyncTo("finalize")
    /\ UNCHANGED <<rows, keychain, session, command, locks, disturbed>>

\* finalize_complete: the observed assets are the new generation; those of the one
\* before that were not seen again are out of scope.
finalize_complete ==
    /\ sync.step = "finalize"
    /\ ensure_current_operation(sync)
    /\ LET e == sync.epoch
           gone == active_generation_assets(e) \ sync.observed
       IN /\ heads' = [heads EXCEPT ![e] = [a \in Assets |->
                          CASE a \in sync.prepared -> "available"
                            [] a \in (sync.observed \ sync.prepared) \cup gone -> "unavailable"
                            [] OTHER -> heads[e][a]]]
          /\ materials' = materials \cup {<<e, a>> : a \in sync.prepared}
          /\ enrollments' = [enrollments EXCEPT ![e].complete = TRUE, ![e].members = sync.observed]
          /\ connector' = [connector EXCEPT !.state = "ready"]
    /\ SyncEnds
    /\ UNCHANGED <<intents, outside, session, command, writer, disturbed>>

\* finalize_global_unavailable: without authorization, the key or the album every head is
\* hidden; an enumeration that was cut off changes no head.
finalize_global_unavailable ==
    /\ sync.step = "enumerate"
    /\ ensure_current_operation(sync)
    /\ \/ /\ heads' = Hide(sync.epoch, HeadAssets(sync.epoch))
          /\ connector' = [connector EXCEPT !.state = "needs_attention"]
       \/ /\ UNCHANGED heads
          /\ connector' = [connector EXCEPT !.state = "ready"]
    /\ SyncEnds
    /\ UNCHANGED <<enrollments, materials, intents, outside, session, command, writer, disturbed>>

\* An error, a stale fence included, ends the reconciliation where it is.
sync_fails ==
    /\ sync.step \in {"begin", "enumerate", "materialize", "promote", "finalize"}
    /\ SyncEnds
    /\ UNCHANGED <<rows, outside, session, command, writer, disturbed>>

-----------------------------------------------------------------------------
\* The other commands: execute_photokit_command takes a permit, then the mutex.

CommandTo(step) == command' = [command EXCEPT !.step = step]
CommandEnds ==
    /\ command' = Idle
    /\ mutex' = "free"
    /\ readers' = readers \ {"command"}

execute_photokit_command(kind) ==
    /\ command = Idle
    /\ MayShare
    /\ readers' = readers \cup {"command"}
    /\ command' = [step |-> "lock", kind |-> kind]
    /\ UNCHANGED <<rows, outside, session, sync, mutex, writer, disturbed>>

command_lock ==
    /\ command.step = "lock"
    /\ mutex = "free"
    /\ mutex' = "command"
    /\ CommandTo(command.kind)
    /\ UNCHANGED <<rows, outside, session, sync, readers, writer, disturbed>>

\* get_photokit_connector_v1: without authorization the setup sessions end.
snapshot ==
    /\ command.step = "get"
    /\ session' \in {session, FALSE}
    /\ CommandEnds
    /\ UNCHANGED <<rows, outside, sync, writer, disturbed>>

begin_setup ==
    /\ command.step = "setup"
    /\ session' \in BOOLEAN
    /\ CommandEnds
    /\ UNCHANGED <<rows, outside, sync, writer, disturbed>>

\* configure_scope up to its first row: the token is used up.
reserve_enrollment(e) ==
    /\ command.step = "configure"
    /\ session
    /\ enrollments[e].state = "absent" /\ \A d \in 1..(e - 1) : enrollments[d].state # "absent"
    /\ enrollments' = [enrollments EXCEPT ![e].state = "pending"]
    /\ session' = FALSE
    /\ command' = [step |-> "create_key", epoch |-> e]
    /\ UNCHANGED <<connector, heads, materials, intents, outside, sync, locks, disturbed>>

\* The Keychain makes the key; a call that reports an error may have too.
create_root_key ==
    /\ command.step = "create_key"
    /\ keychain' \in {keychain, keychain \cup {command.epoch}}
    /\ CommandTo(IF command.epoch \in keychain' THEN "activate" ELSE "remove")
       \/ CommandTo("remove")
    /\ UNCHANGED <<rows, files, session, sync, locks, disturbed>>

\* remove_pending_enrollment: the row goes and an intent to delete the key is left.
remove_pending_enrollment ==
    /\ command.step = "remove"
    /\ enrollments' = [enrollments EXCEPT ![command.epoch].state = "removed"]
    /\ intents' = intents \cup {command.epoch}
    /\ CommandEnds
    /\ UNCHANGED <<connector, heads, materials, outside, session, sync, writer, disturbed>>

\* activate_enrollment: the enrollment that was active until now is inactivated.
activate_enrollment ==
    /\ command.step = "activate"
    /\ LET e == command.epoch
           others == IF Active = Nothing THEN enrollments ELSE Inactivated(Active)
       IN /\ enrollments' = [others EXCEPT ![e].state = "active"]
          /\ heads' = IF Active = Nothing THEN heads
                      ELSE Hide(Active, active_generation_assets(Active))
          /\ connector' = [active |-> e, state |-> "ready"]
          /\ disturbed' = disturbed \cup {Active}
    /\ CommandEnds
    /\ UNCHANGED <<materials, intents, outside, session, sync, writer>>

\* disable_command, for the revision the user saw.
disable_command ==
    /\ command.step = "disable"
    /\ Active # Nothing
    /\ enrollments' = Inactivated(Active)
    /\ heads' = Hide(Active, active_generation_assets(Active))
    /\ connector' = [active |-> Nothing, state |-> "unconfigured"]
    /\ disturbed' = disturbed \cup {Active}
    /\ session' = FALSE
    /\ CommandEnds
    /\ UNCHANGED <<materials, intents, outside, sync, writer>>

command_fails ==
    /\ command.step \notin {"idle", "lock"}
    /\ CommandEnds
    /\ UNCHANGED <<rows, outside, session, sync, writer, disturbed>>

-----------------------------------------------------------------------------
\* Maintenance.  Deletion models a hard deletion; here it is what it does to the
\* connector's rows, in the one transaction and drain under its permit.

acquire_exclusive ==
    /\ writer = "idle"
    /\ writer' = "waiting"
    /\ UNCHANGED <<rows, outside, session, sync, command, mutex, readers, disturbed>>

exclusive_granted ==
    /\ writer = "waiting" /\ readers = {}
    /\ writer' = "active"
    /\ UNCHANGED <<rows, outside, session, sync, command, mutex, readers, disturbed>>

Owned(owners) == {a \in Assets : \E e \in Epochs : <<e, a>> \in owners}

\* An enrollment goes with its assets; its key goes now or, by the intent, at a start.
delete_enrollment(e) ==
    /\ writer = "active"
    /\ enrollments[e].state \in {"active", "inactive"}
    /\ enrollments' = [enrollments EXCEPT ![e] = [Unreserved EXCEPT !.state = "removed"]]
    /\ heads' = [heads EXCEPT ![e] = [a \in Assets |-> "none"]]
    /\ materials' = {m \in materials : m[1] # e}
    /\ files' = files \ (Owned(materials) \ Owned(materials'))
    /\ connector' = IF Active = e THEN [active |-> Nothing, state |-> "unconfigured"] ELSE connector
    /\ \/ keychain' = keychain \ {e} /\ UNCHANGED intents
       \/ UNCHANGED keychain /\ intents' = intents \cup {e}
    /\ disturbed' = disturbed \cup {e}
    /\ writer' = "idle"
    /\ UNCHANGED <<session, sync, command, mutex, readers>>

asset_fence(e) ==
    IF Active = e /\ enrollments[e].state = "active"
    THEN enrollments[e].fence + 1 ELSE enrollments[e].fence

\* An asset goes; the connector forgets its active generation.
delete_asset(e, a) ==
    /\ writer = "active"
    /\ heads[e][a] # "none"
    /\ heads' = [heads EXCEPT ![e][a] = "none"]
    /\ materials' = materials \ {<<e, a>>}
    /\ files' = files \ (Owned(materials) \ Owned(materials'))
    /\ IF Active = e
       THEN /\ connector' = [connector EXCEPT !.state = "ready"]
            /\ enrollments' = [enrollments EXCEPT ![e].complete = FALSE, ![e].members = {},
                                                  ![e].fence = asset_fence(e)]
       ELSE /\ UNCHANGED connector
            /\ enrollments' = [enrollments EXCEPT ![e].members = @ \ {a}]
    /\ disturbed' = disturbed \cup {e}
    /\ writer' = "idle"
    /\ UNCHANGED <<intents, keychain, session, sync, command, mutex, readers>>

\* collect_unowned_blob: no row of blobs names the file.
collect_unowned_blob(a) ==
    /\ writer = "active"
    /\ a \in files \ Owned(materials)
    /\ files' = files \ {a}
    /\ writer' = "idle"
    /\ UNCHANGED <<rows, keychain, session, sync, command, mutex, readers, disturbed>>

release_exclusive ==
    /\ writer = "active"
    /\ writer' = "idle"
    /\ UNCHANGED <<rows, outside, session, sync, command, mutex, readers, disturbed>>

\* The application ends anywhere and starts again; in local-only mode the start
\* leaves the recovery out.
Restart ==
    /\ session' = FALSE
    /\ sync' \in {[step |-> "recover_lock"], Idle} /\ command' = Idle
    /\ mutex' = "free" /\ readers' = {} /\ writer' = "idle"
    /\ UNCHANGED <<rows, outside, disturbed>>

-----------------------------------------------------------------------------
SyncStep ==
    \/ sync_lock \/ recover_operations \/ recovered \/ begin_operation
    \/ \E e \in Epochs : recover_key(e)
    \/ \E observed \in SUBSET Assets : record_observations(observed)
    \/ \E prepared \in SUBSET Assets : materialize(prepared)
    \/ sync_permit \/ promote_prepared \/ finalize_complete
    \/ finalize_global_unavailable \/ sync_fails

CommandStep ==
    \/ command_lock \/ snapshot \/ begin_setup \/ create_root_key
    \/ \E e \in Epochs : reserve_enrollment(e)
    \/ remove_pending_enrollment \/ activate_enrollment \/ disable_command \/ command_fails

WriterStep ==
    \/ exclusive_granted \/ release_exclusive
    \/ \E e \in Epochs : delete_enrollment(e)
    \/ \E e \in Epochs, a \in Assets : delete_asset(e, a)
    \/ \E a \in Assets : collect_unowned_blob(a)

Next ==
    \/ sync_photokit_v1 \/ acquire_exclusive
    \/ \E kind \in {"get", "setup", "configure", "disable"} : execute_photokit_command(kind)
    \/ SyncStep \/ CommandStep \/ WriterStep
    \/ Restart

Spec == Init /\ [][Next]_vars

\* Every thread goes on while it can.
FairSpec == Spec /\ WF_vars(SyncStep) /\ WF_vars(CommandStep) /\ WF_vars(WriterStep)

-----------------------------------------------------------------------------
\* What is shown as available belongs to the enrollment in force and to its last complete
\* generation, and its content is in the store: disabling, replacing or deleting an
\* enrollment, an asset that left the album and the collection of unowned blobs leave nothing
\* behind that looks available; and every key in the Keychain is that of an enrollment's row
\* or of an intent to delete it.
EnrollmentsAreReal ==
    /\ \A e \in Epochs, a \in Assets : heads[e][a] = "available" =>
        /\ Active = e /\ enrollments[e].state = "active"
        /\ enrollments[e].complete => a \in enrollments[e].members
        /\ <<e, a>> \in materials /\ a \in files
    /\ \A e \in keychain :
         enrollments[e].state \in {"pending", "active", "inactive"} \/ e \in intents

\* A reconciliation publishes nothing into an enrollment that was replaced, disabled or
\* deleted from since it began: what was deleted does not come back from what it had read.
NothingStaleIsPublished ==
    [][ (\E e \in Epochs, a \in Assets :
           heads[e][a] # "available" /\ heads'[e][a] = "available")
        => sync.epoch \notin disturbed ]_vars

\* A reconciliation that waits for its permit gets it in the end.
ReconciliationIsNotStuck == (sync.step = "permit") ~> (sync.step # "permit")
=============================================================================
