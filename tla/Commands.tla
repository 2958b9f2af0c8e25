------------------------------ MODULE Commands ------------------------------
(***************************************************************************)
(* The command boundary (src-tauri/src/lib.rs): which leases, permits,     *)
(* gates and mutexes each handler takes, in its order, and where it runs.  *)
(*                                                                         *)
(* A handler is the sequence of the steps that can refuse it, make it wait *)
(* or reach the network; handlers with the same sequence are one.  What it *)
(* holds is dropped when it returns, in one step; the work it ends with    *)
(* is done while it still holds everything and is no step of its own.  The *)
(* synchronous commands run one at a time on the main thread, which also   *)
(* hands the asynchronous ones to the runtime.  A task of the runtime      *)
(* holds one of its worker threads from its first step on, lets it go      *)
(* while it awaits an answer or the blocking pool, and keeps it while it   *)
(* waits for a permit or a mutex of the standard library.                  *)
(***************************************************************************)
EXTENDS Naturals, Sequences, FiniteSets

CONSTANTS
    Slots,     \* how many asynchronous commands may be under way
    Runtime    \* how many worker threads the runtime has

VARIABLES
    local_only, transitioning,  \* the outbound authority
    thread                      \* what each thread still has to do, and holds

commandVars == <<local_only, transitioning, thread>>

Tasks == 1..Slots
Main == 0
Scheduler == Slots + 1
Callers == Main..Scheduler
Idle == [todo |-> <<>>, held |-> <<>>, at |-> "idle"]

-----------------------------------------------------------------------------
\* The handlers

\* classify_command: the commands that reach the network, and those that
\* clean up what did.  Every other one is Local.
Outbound == {"connect_gmail", "sync_gmail", "approve_and_fetch_receipt_image",
             "request_receipt_intelligence", "begin_photokit_setup",
             "configure_photokit_scope", "sync_photokit",
             "preview_outfit_recommendation", "request_outfit_recommendation",
             "preview_try_on", "submit_try_on"}
LocalCleanup == {"delete_credential", "disconnect_gmail", "disable_photokit"}
classify_command(name) ==
    CASE name \in Outbound -> "outbound"
      [] name \in LocalCleanup -> "local_cleanup"
      [] OTHER -> "local"

\* acquire_command_authority: an internal error for a command of another class.
acquire_command_authority(name) ==
    IF classify_command(name) = "outbound" THEN <<"lease">> ELSE <<"refuse">>

execute_command(operation) == <<"shared">> \o operation
execute_photokit_command(operation) == <<"spawn_blocking", "shared">> \o operation
execute_photokit_reconcile_command(operation) == <<"spawn_blocking">> \o operation

\* The wrappers that take a lease of their own around the call they guard,
\* beside the lease that the handler holds.
AuthorizedGmailConnector(call) == <<"lease">> \o call
AuthorizedPhotoKitConnector(call) == <<"lease">> \o call
AuthorizedReceiptImageDownloader(call) == <<"lease">> \o call
AuthorizedOutfitRecommender(call) == <<"lease">> \o call
AuthorizedTryOnRenderer(call) == <<"lease">> \o call

\* What most commands are: the service under a shared permit.
catalog_command == execute_command(<<>>)
item_commands == catalog_command
receipt_commands == catalog_command
photo_commands == catalog_command
case_commands == catalog_command
gmail_settings_commands == catalog_command
get_foundation_snapshot == catalog_command
save_credential == catalog_command
delete_credential == catalog_command
detect_photo_scope_people == catalog_command
export_diagnostics == <<"shared", "gate">>
run_storage_check == <<"shared">>
preview_deletion == execute_command(<<"gate">>)
create_backup == <<"shared", "gate">>
list_backups == <<"shared", "gate">>
\* The writers: the repository takes the permit, not the handler.
prepare_restore == <<"exclusive", "gate">>
\* Mutant: the deletion is run as its neighbours are, by catalog_command.
execute_deletion_AsNeighbours == execute_command(<<"exclusive", "gate">>)
execute_deletion == <<"exclusive", "gate">>

set_local_only == <<"begin_transition", "drain", "publish">>

preview_outfit_recommendation ==
    acquire_command_authority("preview_outfit_recommendation")
        \o <<"shared", "release">> \o AuthorizedOutfitRecommender(<<>>)
request_outfit_recommendation ==
    acquire_command_authority("request_outfit_recommendation")
        \o <<"shared", "release">> \o AuthorizedOutfitRecommender(<<"http">>)
list_try_on_portrait_candidates == <<"shared", "release">>
get_outfit_try_on == <<"shared", "release">>
preview_try_on ==
    acquire_command_authority("preview_try_on") \o <<"shared", "release">>
submit_try_on ==
    acquire_command_authority("submit_try_on")
        \o <<"shared", "release", "local", "trigger">>

preview_receipt_intelligence == <<"release", "shared">>
list_receipt_intelligence == <<"shared">>
\* terminal_replay may answer before the gates.
request_receipt_intelligence ==
    <<"shared", "local", "release">>
        \o acquire_command_authority("request_receipt_intelligence") \o <<"http">>

connect_gmail ==
    acquire_command_authority("connect_gmail")
        \o execute_command(AuthorizedGmailConnector(<<"http">>))
sync_gmail ==
    acquire_command_authority("sync_gmail")
        \o execute_command(AuthorizedGmailConnector(<<"http">>))
\* Mutant: the revocation is sent whatever the mode is.
disconnect_gmail_Unasked ==
    <<"cleanup">> \o execute_command(<<"http">>)
disconnect_gmail == <<"cleanup">> \o execute_command(<<"revoke">>)

list_receipt_image_candidates == <<"shared">>
approve_and_fetch_receipt_image ==
    acquire_command_authority("approve_and_fetch_receipt_image")
        \o <<"shared", "local">> \o AuthorizedReceiptImageDownloader(<<"http">>)

\* The connector locks its state, and a reconciliation asks for its permit
\* with the lock held.
get_photokit_connector == execute_photokit_command(<<"connector">>)
disable_photokit == execute_photokit_command(<<"connector">>)
begin_photokit_setup ==
    acquire_command_authority("begin_photokit_setup")
        \o execute_photokit_command(
               AuthorizedPhotoKitConnector(<<"connector", "http">>))
configure_photokit_scope ==
    acquire_command_authority("configure_photokit_scope")
        \o execute_photokit_command(
               AuthorizedPhotoKitConnector(<<"connector", "http">>))
reconcile == <<"connector", "http", "shared">>
sync_photokit ==
    acquire_command_authority("sync_photokit")
        \o execute_photokit_reconcile_command(AuthorizedPhotoKitConnector(reconcile))
startup_reconcile == <<"spawn_blocking">> \o AuthorizedPhotoKitConnector(reconcile)

\* One round of TryOnScheduler::run.
scheduler_round == <<"shared">> \o AuthorizedTryOnRenderer(<<"local", "http">>)

MainCommands ==
    {get_foundation_snapshot, save_credential, delete_credential, catalog_command,
     item_commands, receipt_commands, photo_commands, case_commands,
     gmail_settings_commands,
     detect_photo_scope_people, export_diagnostics, run_storage_check,
     preview_deletion, create_backup, list_backups, prepare_restore,
     execute_deletion, set_local_only, preview_outfit_recommendation,
     request_outfit_recommendation, list_try_on_portrait_candidates,
     get_outfit_try_on, preview_try_on, submit_try_on,
     preview_receipt_intelligence, list_receipt_intelligence, connect_gmail,
     sync_gmail, disconnect_gmail}
TaskCommands ==
    {request_receipt_intelligence, list_receipt_image_candidates,
     approve_and_fetch_receipt_image, get_photokit_connector, disable_photokit,
     begin_photokit_setup, configure_photokit_scope, sync_photokit}

-----------------------------------------------------------------------------
\* Who holds and who waits

Next1(t) == IF thread[t].todo = <<>> THEN "return" ELSE Head(thread[t].todo)
Holds(t, what) == \E i \in DOMAIN thread[t].held : thread[t].held[i] = what
Holders(what) == {t \in Callers : Holds(t, what)}
Running == {t \in Callers : thread[t].at = "worker"}
WaitingWriters == {t \in Callers : Next1(t) = "exclusive"}
Leases == Holders("lease") \cup Holders("cleanup")

\* A thread that has not got what its next step asks for waits for these.
WaitsFor(t) ==
    IF thread[t].at \in {"idle", "awaiting", "queued"} THEN {}
    ELSE CASE Next1(t) = "shared" -> Holders("exclusive") \cup WaitingWriters
           [] Next1(t) = "exclusive" -> Holders("shared")
           [] Next1(t) = "gate" -> Holders("gate")
           [] Next1(t) = "connector" -> Holders("connector")
           [] Next1(t) = "drain" -> Leases
           [] OTHER -> {}

\* A task that has no worker thread waits until any of them is let go.
Unserved(t) == thread[t].at = "queued" /\ Cardinality(Running) >= Runtime

-----------------------------------------------------------------------------
\* One step of a thread

Set(t, todo, held, at) ==
    thread' = [thread EXCEPT ![t] = [todo |-> todo, held |-> held, at |-> at]]
Quiet == UNCHANGED <<local_only, transitioning>>

Rest(t) == Tail(thread[t].todo)
Goes(t) == Set(t, Rest(t), thread[t].held, thread[t].at)
Takes(t, what) == Set(t, Rest(t), Append(thread[t].held, what), thread[t].at)
Refused(t) == Set(t, <<>>, thread[t].held, thread[t].at)
CanStep(t) == thread[t].at \in {"main", "worker", "pool"} /\ WaitsFor(t) = {}

\* OutboundAuthority::acquire and acquire_local_cleanup refuse, they never wait.
acquire(t) ==
    /\ Next1(t) \in {"lease", "cleanup"} /\ CanStep(t)
    /\ IF transitioning \/ (Next1(t) = "lease" /\ local_only)
       THEN Refused(t) ELSE Takes(t, Next1(t))
    /\ Quiet

\* acquire_shared, acquire_exclusive, lock_maintenance, the connector's lock.
lock(t) ==
    /\ Next1(t) \in {"shared", "exclusive", "gate", "connector"} /\ CanStep(t)
    /\ Takes(t, Next1(t))
    /\ Quiet

\* The release gates: builds that pass them and builds that do not.
coordinate(t) ==
    /\ Next1(t) = "release" /\ CanStep(t)
    /\ Goes(t) \/ Refused(t)
    /\ Quiet

\* The database, the files and the keychain: done, failed or replayed.
local_work(t) ==
    /\ Next1(t) = "local" /\ CanStep(t)
    /\ Goes(t) \/ Refused(t)
    /\ Quiet

spawn_blocking(t) ==
    /\ Next1(t) = "spawn_blocking" /\ CanStep(t)
    /\ Set(t, Rest(t), Append(thread[t].held, "blocking"), "pool")
    /\ Quiet

\* An outbound call starts; a task gives its worker thread back meanwhile.
send(t) ==
    /\ Next1(t) = "http" /\ CanStep(t)
    /\ Set(t, thread[t].todo, thread[t].held, "awaiting")
    /\ Quiet

\* It is answered, fails or times out.
answered(t) ==
    /\ thread[t].at = "awaiting"
    /\ \E todo \in {Rest(t), <<>>} :
        Set(t, todo, thread[t].held,
            IF t = Main THEN "main"
            ELSE IF Holds(t, "blocking") THEN "pool" ELSE "queued")
    /\ Quiet

\* AuthorizedGmailConnector::disconnect_gmail looks at the mode, then asks for
\* the lease of the revocation.
revoke(t) ==
    /\ Next1(t) = "revoke" /\ CanStep(t)
    /\ IF local_only
       THEN Goes(t)
       ELSE Set(t, <<"lease", "http">> \o Rest(t), thread[t].held, thread[t].at)
    /\ Quiet

\* begin_transition refuses a second one; nothing else runs on the main thread.
begin_transition(t) ==
    /\ Next1(t) = "begin_transition" /\ CanStep(t)
    /\ transitioning' = TRUE
    /\ Goes(t)
    /\ UNCHANGED local_only

drain(t) == Next1(t) = "drain" /\ CanStep(t) /\ Goes(t) /\ Quiet

\* publish, fail_closed, or the drop of a transition that did neither.
publish(t) ==
    /\ Next1(t) = "publish" /\ CanStep(t)
    /\ local_only' \in BOOLEAN
    /\ transitioning' = FALSE
    /\ Goes(t)

\* trigger_try_on_renderer: only the first trigger of a run spawns a task.
Scheduled == [todo |-> scheduler_round, held |-> <<>>, at |-> "queued"]
trigger_try_on_renderer(t) ==
    /\ Next1(t) = "trigger" /\ CanStep(t)
    /\ thread' = [u \in Callers |->
                     IF u = t THEN [thread[t] EXCEPT !.todo = Rest(t)]
                     ELSE IF u = Scheduler /\ thread[u] = Idle THEN Scheduled ELSE thread[u]]
    /\ Quiet

\* A handler returns and drops what it holds.  A closure on the blocking pool
\* drops its own part first: the task needs a worker thread for the rest.  The
\* scheduler may go on with another round.
Kept(held) ==
    LET marks == {i \in DOMAIN held : held[i] = "blocking"} IN
    IF marks = {} THEN <<>> ELSE SubSeq(held, 1, (CHOOSE i \in marks : TRUE) - 1)
drop(t) ==
    /\ thread[t].at \in {"main", "worker", "pool"} /\ thread[t].todo = <<>>
    /\ IF thread[t].at = "pool"
       THEN Set(t, <<>>, Kept(thread[t].held), "queued")
       ELSE \/ thread' = [thread EXCEPT ![t] = Idle]
            \/ t = Scheduler /\ Set(t, scheduler_round, <<>>, "worker")
    /\ Quiet

\* The runtime gives a task one of its worker threads.
pick_up(t) ==
    /\ thread[t].at = "queued" /\ ~Unserved(t)
    /\ Set(t, thread[t].todo, thread[t].held, "worker")
    /\ Quiet

\* A command arrives on the main thread.  One that cannot be decoded is
\* answered at once.
invoke ==
    /\ thread[Main] = Idle
    /\ \/ \E c \in MainCommands : Set(Main, c, <<>>, "main")
       \/ \E c \in TaskCommands, t \in Tasks :
             /\ thread[t] = Idle /\ \A u \in 1..(t - 1) : thread[u] # Idle
             /\ Set(t, c, <<>>, "queued")
    /\ Quiet

-----------------------------------------------------------------------------
\* setup: the try-on renderer and the reconciliation of the albums are
\* started, unless the mode is local-only.
CommandsInit ==
    /\ local_only \in BOOLEAN /\ transitioning = FALSE
    /\ \E released \in BOOLEAN :
        thread = [t \in Callers |->
                    IF ~local_only /\ t = 1
                    THEN [todo |-> startup_reconcile, held |-> <<>>, at |-> "queued"]
                    ELSE IF ~local_only /\ released /\ t = Scheduler THEN Scheduled
                    ELSE Idle]

Step(t) ==
    \/ acquire(t) \/ lock(t) \/ coordinate(t) \/ local_work(t) \/ spawn_blocking(t)
    \/ send(t) \/ answered(t) \/ revoke(t) \/ begin_transition(t) \/ drain(t)
    \/ publish(t) \/ trigger_try_on_renderer(t) \/ drop(t) \/ pick_up(t)

CommandsNext == invoke \/ \E t \in Callers : Step(t)

-----------------------------------------------------------------------------
\* Whatever handler it is made for, a call leaves the process only while its
\* thread holds an outbound lease, and never in the local-only mode.
SendsAreLeased ==
    \A t \in Callers : thread[t].at = "awaiting" => ~local_only /\ Holds(t, "lease")

\* Callers that only one another could let go on.
Deadlocked(S) ==
    /\ S # {}
    /\ \A t \in S :
        \/ WaitsFor(t) \cap S # {}
        \/ Unserved(t) /\ Running \subseteq S

\* A reconciliation holds the connector and wants a permit, a command of the
\* connector holds a permit and wants the connector.
PermitCycle(S) ==
    \E r, c \in S : /\ Holds(r, "connector") /\ Next1(r) = "shared"
                    /\ Holds(c, "shared") /\ Next1(c) = "connector"

\* Every worker thread waits for a permit and a task that holds one has none.
WorkersTaken(S) ==
    /\ Running \subseteq S /\ \A t \in Running : Next1(t) = "shared"
    /\ \E t \in S : Holds(t, "shared") /\ Unserved(t)

\* The order of the locks: threads wait for one another without end only behind
\* a writer of the main thread, and then in one of these two ways.  Leases,
\* transitions, the maintenance gate and nested permits close no circle.
DeadlocksAreKnown ==
    \A S \in SUBSET {t \in Callers : WaitsFor(t) # {} \/ Unserved(t)} :
        Deadlocked(S) =>
            /\ Next1(Main) = "exclusive"
            /\ \/ \E r, c \in Callers : PermitCycle({r, c})
               \/ WorkersTaken(S)
=============================================================================
