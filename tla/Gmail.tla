-------------------------------- MODULE Gmail --------------------------------
(***************************************************************************)
(* The Gmail connector's commands and their recovery at startup              *)
(* (gmail_connector.rs): connecting, synchronizing and disconnecting each     *)
(* change SQLite, the Keychain and the grant that Google holds, which cannot  *)
(* be changed together.  GmailSync models what a synchronization reads.      *)
(*                                                                         *)
(* The commands are synchronous and run one at a time.  A refresh token, its  *)
(* row of credential_references, its place in the Keychain and its grant are  *)
(* named by the request that connected.  At most one operation is not         *)
(* terminal: gmail_one_active_operation is a unique index.                    *)
(*                                                                         *)
(* The application lists the credentials of every provider and offers to      *)
(* remove each (load_core_state, delete_credential_v1), so that command is     *)
(* an action here too.  Credentials models its request ids and its replays.  *)
(***************************************************************************)
EXTENDS Naturals

CONSTANTS Requests, MaxBoots  \* MaxBoots bounds the starts of the application

VARIABLES
    status,    \* gmail_connector_state.status
    account,   \* gmail_accounts.credential_locator
    rows,      \* credential_references of the provider 'gmail'
    operation, \* the row of gmail_operations that is not terminal, and its disconnect stage
    reserved,  \* gmail_request_reservations: the command of each request
    receipts,  \* command_receipts: what each request was answered
    removals,  \* command_receipts: the credentials that delete_credential_v1 accepted to delete
    keychain,  \* the tokens in the Keychain
    grants,    \* external: the tokens that Google still honours
    local,     \* local-only mode
    pc,        \* the next step of the command or of the recovery under way
    boots

durable == <<status, account, rows, operation, reserved, receipts, removals>>
outside == <<keychain, grants>>
vars == <<durable, outside, local, pc, boots>>

Nobody == "nobody"
NoOperation == [stage |-> "terminal"]
NoResult == "none"
Idle == [step |-> "idle"]
Recovering == {"reconcile", "recover"}

Init ==
    /\ status = "not_configured" /\ account = Nobody
    /\ rows = [r \in Requests |-> "absent"]
    /\ operation = NoOperation
    /\ reserved = [r \in Requests |-> "none"] /\ receipts = [r \in Requests |-> "none"]
    /\ removals = {}
    /\ keychain = {} /\ grants = {}
    /\ local \in BOOLEAN
    /\ pc = [step |-> "reconcile"] /\ boots = 1

Goto(step) == pc' = [pc EXCEPT !.step = step]
Return == pc' = Idle
Locators == {r \in Requests : rows[r] # "absent"}

\* reserve_request, for a request id that is new.
reserve_request(r, command) ==
    /\ pc = Idle /\ reserved[r] = "none"
    /\ reserved' = [reserved EXCEPT ![r] = command]

\* active: one account is connected, its row exists and no other does.
Active == status = "connected" /\ Locators = {account}

-----------------------------------------------------------------------------
\* save_gmail_settings

save_gmail_settings ==
    /\ pc = Idle
    /\ status \in {"not_configured", "disconnected"}
    /\ status' = "disconnected"
    /\ UNCHANGED <<account, rows, operation, reserved, receipts, removals, outside, local, pc, boots>>

-----------------------------------------------------------------------------
\* connect_gmail

\* begin_operation; a connection that may not begin leaves the reservation.
connect_gmail(r) ==
    /\ ~local
    /\ reserve_request(r, "connect")
    /\ IF status = "disconnected" /\ operation = NoOperation
       THEN /\ status' = "connecting"
            /\ operation' = [request |-> r, command |-> "connect", stage |-> "authorizing",
                             revocation |-> NoResult]
            /\ pc' = [step |-> "authorize", request |-> r]
       ELSE UNCHANGED <<status, operation, pc>>
    /\ UNCHANGED <<account, rows, receipts, removals, outside, local, boots>>

AbortConnect ==
    /\ operation' = NoOperation
    /\ status' = "disconnected"

\* The browser, the code and the tokens; the calls after the tokens may still fail.
authorize ==
    /\ pc.step = "authorize"
    /\ \/ grants' = grants \cup {pc.request} /\ Goto("reserve") /\ UNCHANGED <<status, operation>>
       \/ grants' \in {grants, grants \cup {pc.request}} /\ AbortConnect /\ Return
    /\ UNCHANGED <<account, rows, reserved, receipts, removals, keychain, local, boots>>

reserve_credential ==
    /\ pc.step = "reserve"
    /\ rows' = [rows EXCEPT ![pc.request] = "pending_save"]
    /\ operation' = [operation EXCEPT !.stage = "credential_reserved"]
    /\ Goto("put")
    /\ UNCHANGED <<status, account, reserved, receipts, removals, outside, local, boots>>

\* put_refresh: a call that reports an error may have stored the token; the token is then
\* revoked, as far as Google can be reached.
put_refresh ==
    /\ pc.step = "put"
    /\ \/ keychain' = keychain \cup {pc.request} /\ Goto("activate") /\ UNCHANGED grants
       \/ /\ keychain' \in {keychain, keychain \cup {pc.request}}
          /\ grants' \in {grants, grants \ {pc.request}}
          /\ Goto("cleanup")
    /\ UNCHANGED <<durable, local, boots>>

\* activate_credential and mark_operation_syncing.
activate_credential ==
    /\ pc.step = "activate"
    /\ rows' = [rows EXCEPT ![pc.request] = IF @ = "pending_save" THEN "active" ELSE @]
    /\ operation' = [operation EXCEPT !.stage = "syncing"]
    /\ Goto("commit")
    /\ UNCHANGED <<status, account, reserved, receipts, removals, outside, local, boots>>

\* commit_new_gmail_operation: an account that still names another token is a conflict.
commit_new_gmail_operation ==
    /\ pc.step = "commit"
    /\ account \in {Nobody, pc.request}
    /\ account' = pc.request
    /\ status' = "connected"
    /\ operation' = NoOperation
    /\ receipts' = [receipts EXCEPT ![pc.request] = "connected"]
    /\ Return
    /\ UNCHANGED <<rows, reserved, removals, outside, local, boots>>

\* The connection fails after the token was stored: the command cleans up.
connect_fails ==
    /\ pc.step \in {"activate", "commit"}
    /\ Goto("cleanup")
    /\ UNCHANGED <<durable, outside, local, boots>>

\* cleanup_failed_connect: revoke what the Keychain has, unless the mode is local-only, then delete it.
cleanup_revoke ==
    /\ pc.step = "cleanup"
    /\ grants' \in IF local \/ pc.request \notin keychain THEN {grants}
                   ELSE {grants, grants \ {pc.request}}
    /\ keychain' = keychain \ {pc.request}
    /\ Goto("cleanup_rows")
    /\ UNCHANGED <<durable, local, boots>>

cleanup_failed_connect ==
    /\ pc.step = "cleanup_rows"
    /\ rows' = [rows EXCEPT ![pc.request] = "absent"]
    /\ account' = IF account = pc.request THEN Nobody ELSE account
    /\ AbortConnect
    /\ pc' = IF "starting" \in DOMAIN pc THEN [step |-> "legacy"] ELSE Idle
    /\ UNCHANGED <<reserved, receipts, removals, outside, local, boots>>

-----------------------------------------------------------------------------
\* sync_gmail

sync_gmail(r) ==
    /\ ~local
    /\ reserve_request(r, "sync")
    /\ IF Active /\ operation = NoOperation
       THEN /\ operation' = [request |-> r, command |-> "sync", stage |-> "syncing",
                             revocation |-> NoResult]
            /\ pc' = [step |-> "sync", request |-> r]
       ELSE UNCHANGED <<operation, pc>>
    /\ UNCHANGED <<status, account, rows, receipts, removals, outside, local, boots>>

\* The token is read, a new one replaces it in place, and the batch is committed; or
\* abort_sync removes the operation.
commit_gmail_operation ==
    /\ pc.step = "sync"
    /\ operation' = NoOperation
    /\ \/ account \in keychain \cap grants /\ receipts' = [receipts EXCEPT ![pc.request] = "synced"]
       \/ UNCHANGED receipts
    /\ Return
    /\ UNCHANGED <<status, account, rows, reserved, removals, outside, local, boots>>

-----------------------------------------------------------------------------
\* disconnect_gmail

begin_disconnect(r) ==
    /\ reserve_request(r, "disconnect")
    /\ IF Active /\ operation = NoOperation
       THEN /\ status' = "disconnecting"
            /\ operation' = [request |-> r, command |-> "disconnect",
                             stage |-> "revocation_pending", revocation |-> NoResult]
            /\ pc' = [step |-> "revoke", request |-> r]
       ELSE UNCHANGED <<status, operation, pc>>
    /\ UNCHANGED <<account, rows, receipts, removals, outside, local, boots>>

\* resume_reserved_disconnect: the same request again, while its operation waits.
resume_reserved_disconnect(r) ==
    /\ pc = Idle
    /\ reserved[r] = "disconnect" /\ receipts[r] = "none"
    /\ operation # NoOperation /\ operation.request = r
    /\ pc' = [step |-> IF operation.revocation = NoResult THEN "revoke" ELSE "delete", request |-> r]
    /\ UNCHANGED <<durable, outside, local, boots>>

\* attempt_revocation: what Google does and what it is taken to have done.
attempt_revocation(token) ==
    IF local THEN {[outcome |-> "not_attempted_local_only", grants |-> grants]}
    ELSE {[outcome |-> "failed", grants |-> grants], [outcome |-> "failed", grants |-> grants \ {token}]}
         \cup IF token \notin keychain THEN {}
              ELSE IF token \in grants THEN {[outcome |-> "succeeded", grants |-> grants \ {token}]}
              ELSE {[outcome |-> "already_invalid", grants |-> grants]}

\* The call to Google.
revoke ==
    /\ pc.step = "revoke"
    /\ \E result \in attempt_revocation(account) :
          /\ grants' = result.grants
          /\ pc' = [step |-> "persist", request |-> pc.request, outcome |-> result.outcome]
    /\ UNCHANGED <<durable, keychain, local, boots>>

\* Mutant: the outcome is not looked at again once the operation goes on.
persist_disconnect_revocation_Succeeded ==
    /\ pc.step = "persist"
    /\ operation' = [operation EXCEPT !.revocation = "succeeded", !.stage = "credential_delete_pending"]
    /\ Goto("delete")
    /\ UNCHANGED <<status, account, rows, reserved, receipts, removals, outside, local, boots>>

persist_disconnect_revocation ==
    /\ pc.step = "persist"
    /\ operation' = [operation EXCEPT !.revocation = pc.outcome, !.stage = "credential_delete_pending"]
    /\ Goto("delete")
    /\ UNCHANGED <<status, account, rows, reserved, receipts, removals, outside, local, boots>>

\* Mutant: the row goes before the token.
delete_refresh_RowFirst(r) ==
    /\ pc.step \in {"delete", "legacy"}
    /\ r \in Locators
    /\ pc.step = "legacy" => ~(status = "connected" /\ account = r)
    /\ rows' = [rows EXCEPT ![r] = "absent"]
    /\ UNCHANGED <<status, account, operation, reserved, receipts, removals, outside, local, pc, boots>>

\* delete_gmail_credentials_except: one token after the other, Keychain first.
delete_refresh(r) ==
    /\ pc.step \in {"delete", "legacy"}
    /\ r \in Locators
    /\ pc.step = "legacy" => ~(status = "connected" /\ account = r)
    /\ IF r \in keychain
       THEN keychain' = keychain \ {r} /\ UNCHANGED rows
       ELSE rows' = [rows EXCEPT ![r] = "absent"] /\ UNCHANGED keychain
    /\ UNCHANGED <<status, account, operation, reserved, receipts, removals, grants, local, pc, boots>>

finalize_disconnect ==
    /\ pc.step = "delete"
    /\ Locators = {}
    /\ account' = Nobody /\ status' = "disconnected"
    /\ receipts' = [receipts EXCEPT ![operation.request] = operation.revocation]
    /\ operation' = NoOperation
    /\ pc' = IF "starting" \in DOMAIN pc THEN [step |-> "legacy"] ELSE Idle
    /\ UNCHANGED <<rows, reserved, removals, outside, local, boots>>

-----------------------------------------------------------------------------
\* delete_credential_v1, of the credential of any request and in any status

\* prepare_core_credential_delete
prepare_core_credential_delete(c) ==
    /\ pc = Idle /\ rows[c] # "absent"
    /\ rows' = [rows EXCEPT ![c] = "pending_delete"]
    /\ removals' = removals \cup {c}
    /\ pc' = [step |-> "remove", request |-> c]
    /\ UNCHANGED <<status, account, operation, reserved, receipts, outside, local, boots>>

\* The Keychain deletes the token; Google is not asked to revoke it.
delete ==
    /\ pc.step = "remove"
    /\ keychain' = keychain \ {pc.request}
    /\ Goto("finish")
    /\ UNCHANGED <<durable, grants, local, boots>>

finish_core_credential_delete ==
    /\ pc.step = "finish"
    /\ rows' = [rows EXCEPT ![pc.request] = "absent"]
    /\ Return
    /\ UNCHANGED <<status, account, operation, reserved, receipts, removals, outside, local, boots>>

-----------------------------------------------------------------------------
\* Failures and starts

\* A transaction fails, or the Keychain refuses: the command ends there.
Fails ==
    /\ pc.step \notin {"idle", "authorize", "sync"} \cup Recovering
    /\ "starting" \notin DOMAIN pc
    /\ Return
    /\ UNCHANGED <<durable, outside, local, boots>>

\* A start whose recovery met a Keychain that refuses goes on without it.
RecoveryFails ==
    /\ pc.step = "legacy" \/ "starting" \in DOMAIN pc
    /\ Return
    /\ UNCHANGED <<durable, outside, local, boots>>

\* The application ends anywhere and starts again, in either mode.
Restart ==
    /\ boots < MaxBoots
    /\ boots' = boots + 1
    /\ local' \in BOOLEAN
    /\ pc' = [step |-> "reconcile"]
    /\ UNCHANGED <<durable, outside>>

\* reconcile_credentials comes first: it takes up each deletion that was cut off, the token
\* before its row, and settles rows whose save was cut off.
reconcile_delete(c) ==
    /\ pc.step = "reconcile"
    /\ rows[c] = "pending_delete"
    /\ IF c \in keychain
       THEN keychain' = keychain \ {c} /\ UNCHANGED rows
       ELSE rows' = [rows EXCEPT ![c] = "absent"] /\ UNCHANGED keychain
    /\ UNCHANGED <<status, account, operation, reserved, receipts, removals, grants, local, pc, boots>>

reconcile_credentials ==
    /\ pc.step = "reconcile"
    /\ \A r \in Requests : rows[r] # "pending_delete"
    /\ rows' = [r \in Requests |-> IF rows[r] # "pending_save" THEN rows[r]
                                   ELSE IF r \in keychain THEN "active" ELSE "save_failed"]
    /\ Goto("recover")
    /\ UNCHANGED <<status, account, operation, reserved, receipts, removals, outside, local, boots>>

Starting(step) == [step |-> step, request |-> operation.request, starting |-> TRUE]

\* recover_startup: by the command of the operation that was cut off.
recover_startup ==
    /\ pc.step = "recover"
    /\ CASE operation = NoOperation ->
              pc' = [step |-> "legacy"] /\ UNCHANGED <<status, operation>>
         [] operation # NoOperation /\ operation.command = "connect" ->
              IF rows[operation.request] # "absent"
              THEN pc' = Starting("cleanup") /\ UNCHANGED <<status, operation>>
              ELSE AbortConnect /\ pc' = [step |-> "legacy"]
         [] operation # NoOperation /\ operation.command = "sync" ->
              operation' = NoOperation /\ pc' = [step |-> "legacy"] /\ UNCHANGED status
         [] operation # NoOperation /\ operation.command = "disconnect" ->
              /\ pc' = Starting(IF operation.revocation = NoResult THEN "revoke" ELSE "delete")
              /\ UNCHANGED <<status, operation>>
    /\ UNCHANGED <<account, rows, reserved, receipts, removals, outside, local, boots>>

\* cleanup_legacy_credentials has no row left but the connected account's.
cleanup_legacy_credentials ==
    /\ pc.step = "legacy"
    /\ Locators \subseteq (IF status = "connected" THEN {account} ELSE {})
    /\ Return
    /\ UNCHANGED <<durable, outside, local, boots>>

\* The user turns local-only mode on or off between commands.
SetMode ==
    /\ pc = Idle
    /\ local' = ~local
    /\ UNCHANGED <<durable, outside, pc, boots>>

Next ==
    \/ save_gmail_settings
    \/ \E r \in Requests : \/ connect_gmail(r) \/ sync_gmail(r) \/ begin_disconnect(r)
                           \/ resume_reserved_disconnect(r) \/ delete_refresh(r)
                           \/ prepare_core_credential_delete(r) \/ reconcile_delete(r)
    \/ delete \/ finish_core_credential_delete
    \/ authorize \/ reserve_credential \/ put_refresh \/ activate_credential
    \/ commit_new_gmail_operation \/ connect_fails \/ cleanup_revoke \/ cleanup_failed_connect
    \/ commit_gmail_operation
    \/ revoke \/ persist_disconnect_revocation \/ finalize_disconnect
    \/ Fails \/ RecoveryFails \/ Restart
    \/ reconcile_credentials \/ recover_startup \/ cleanup_legacy_credentials
    \/ SetMode

Spec == Init /\ [][Next]_vars

-----------------------------------------------------------------------------
\* A connected account has its token in the Keychain and an active row for it, unless the
\* user removed that credential; then no token outlives the row, through which alone it
\* could be deleted.
ConnectedHasToken ==
    status = "connected" =>
        \/ account \in keychain /\ rows[account] = "active"
        \/ /\ account \in removals
           /\ \/ rows[account] = "pending_delete"
              \/ rows[account] = "absent" /\ account \notin keychain

\* Once nothing is under way, in the process or on record, no token and no row is left
\* but those of the connected account.
NoTokenLeftBehind ==
    pc = Idle /\ operation = NoOperation =>
        LET kept == IF status = "connected" THEN {account} ELSE {} IN
        keychain \subseteq kept /\ Locators \subseteq kept

\* A disconnection is reported as revoked only when the grant of the account it
\* disconnects is dead, however often it was cut off, resumed or retried in another mode.
RevocationIsHonest ==
    [][ \A r \in Requests :
          (receipts'[r] # receipts[r] /\ receipts'[r] \in {"succeeded", "already_invalid"})
          => account \notin grants ]_vars

\* A request to disconnect a connected account, with nothing else under way, begins its
\* disconnection, in which alone the grant is revoked.
DisconnectionBegins ==
    [][ \A r \in Requests :
          (/\ reserved'[r] = "disconnect" /\ reserved[r] = "none"
           /\ status = "connected" /\ operation = NoOperation)
          => status' = "disconnecting" ]_vars
=============================================================================
