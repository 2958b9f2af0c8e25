---------------------------- MODULE Credentials ----------------------------
(***************************************************************************)
(* Durable credentials: save_credential_v1 and delete_credential_v1        *)
(* (wardrobe-core/src/service.rs), the rows and receipts behind them       *)
(* (database.rs) and reconcile_credentials at startup.  The secret lives   *)
(* in the Keychain and its reference in SQLite; the two cannot be changed  *)
(* together, so each command is a saga of a transaction, a Keychain call   *)
(* and a second transaction, any of which may fail or be cut by a crash.   *)
(*                                                                         *)
(* Both commands are synchronous Tauri commands, which run one at a time   *)
(* on the main thread.  A credential is named by the request that saves it *)
(* (its id is a digest of the request id, its locator is drawn once).      *)
(***************************************************************************)
EXTENDS Naturals

CONSTANTS
    Requests,  \* request ids
    MaxBoots   \* bound: times the application is started
ASSUME BootsAssumption == MaxBoots \in Nat

VARIABLES
    rows,      \* credential_references: the status of each row
    deleter,   \* credential_references.delete_request_id
    receipts,  \* command_receipts
    keychain,  \* the locators that hold a secret
    op,        \* the command under way, between two of its steps
    startup,   \* "recovering" while reconcile_credentials runs, then "up"
    pending,   \* what its query returned and it has not settled yet
    boots,     \* times the application was started
    saved,     \* history: the saves that were answered with success
    approved   \* the credentials that receipt_intelligence_approvals names

vars == <<rows, deleter, receipts, keychain, op, startup, pending, boots, saved, approved>>

Nobody == "nobody"
Idle == [step |-> "idle"]
NoReceipt == [command |-> "none"]
Receipt(command, c) == [command |-> command, credential |-> c]

Pending == {"pending_save", "pending_delete"}
Statuses == {"absent", "active", "save_failed"} \cup Pending

Init ==
    /\ rows = [c \in Requests |-> "absent"]
    /\ deleter = [c \in Requests |-> Nobody]
    /\ receipts = [r \in Requests |-> NoReceipt]
    /\ keychain = {}
    /\ op = Idle
    /\ startup = "recovering" /\ pending = {} /\ boots = 1
    /\ saved = {} /\ approved = {}

Ready == startup = "up" /\ op = Idle

-----------------------------------------------------------------------------
\* save_credential_v1

\* reserve_core_credential: a new request inserts its row and its receipt; a
\* replay of one whose credential is not active writes the secret again.
reserve_core_credential(r) ==
    /\ Ready
    /\ \/ /\ receipts[r] = NoReceipt
          /\ rows' = [rows EXCEPT ![r] = "pending_save"]
          /\ receipts' = [receipts EXCEPT ![r] = Receipt("save", r)]
       \/ /\ receipts[r] = Receipt("save", r)
          /\ rows[r] \notin {"absent", "active"}
          /\ UNCHANGED <<rows, receipts>>
    /\ op' = [step |-> "put", credential |-> r]
    /\ UNCHANGED <<deleter, keychain, startup, pending, boots, saved, approved>>

\* The Keychain stores the secret; a call that reports an error may have too.
put ==
    /\ op.step = "put"
    /\ keychain' = keychain \cup {op.credential}
    /\ op' \in {[step |-> "activate", credential |-> op.credential], Idle}
    /\ UNCHANGED <<rows, deleter, receipts, startup, pending, boots, saved, approved>>

\* activate_core_credential, and the answer to the save.
activate_core_credential ==
    /\ op.step = "activate"
    /\ rows[op.credential] \in {"pending_save", "active"}
    /\ rows' = [rows EXCEPT ![op.credential] = "active"]
    /\ saved' = saved \cup {op.credential}
    /\ op' = Idle
    /\ UNCHANGED <<deleter, receipts, keychain, startup, pending, boots, approved>>

-----------------------------------------------------------------------------
\* delete_credential_v1

\* Mutant: the row goes with the receipt, before the secret.
prepare_core_credential_delete_eager(r, c) ==
    /\ Ready
    /\ rows[c] # "absent"
    /\ receipts[r] = NoReceipt
    /\ rows' = [rows EXCEPT ![c] = "absent"]
    /\ deleter' = [deleter EXCEPT ![c] = Nobody]
    /\ receipts' = [receipts EXCEPT ![r] = Receipt("delete", c)]
    /\ op' = [step |-> "delete", credential |-> c, request |-> r]
    /\ UNCHANGED <<keychain, startup, pending, boots, saved, approved>>

\* prepare_core_credential_delete: a new request takes the row over from any
\* earlier delete request; a replay works on a row that still exists.
prepare_core_credential_delete(r, c) ==
    /\ Ready
    /\ rows[c] # "absent"
    /\ \/ /\ receipts[r] = NoReceipt
          /\ rows' = [rows EXCEPT ![c] = "pending_delete"]
          /\ deleter' = [deleter EXCEPT ![c] = r]
          /\ receipts' = [receipts EXCEPT ![r] = Receipt("delete", c)]
       \/ /\ receipts[r] = Receipt("delete", c)
          /\ UNCHANGED <<rows, deleter, receipts>>
    /\ op' = [step |-> "delete", credential |-> c, request |-> r]
    /\ UNCHANGED <<keychain, startup, pending, boots, saved, approved>>

\* The Keychain deletes the secret, or reports that there is none.
delete ==
    /\ op.step = "delete"
    /\ keychain' = keychain \ {op.credential}
    /\ op' \in {[op EXCEPT !.step = "finish"], Idle}
    /\ UNCHANGED <<rows, deleter, receipts, startup, pending, boots, saved, approved>>

\* finish_core_credential_delete removes the row if the request still owns it;
\* the answer is "deleted" either way.  The database refuses to remove a row
\* that an approval names (ON DELETE RESTRICT), and the command fails.
finish_core_credential_delete ==
    /\ op.step = "finish"
    /\ LET c == op.credential IN
       IF rows[c] = "pending_delete" /\ deleter[c] = op.request
       THEN /\ c \notin approved
            /\ rows' = [rows EXCEPT ![c] = "absent"]
            /\ deleter' = [deleter EXCEPT ![c] = Nobody]
       ELSE UNCHANGED <<rows, deleter>>
    /\ op' = Idle
    /\ UNCHANGED <<receipts, keychain, startup, pending, boots, saved, approved>>

\* A Keychain call or a transaction fails without effect, or activation is
\* refused, and the command ends with an error.
Fail ==
    /\ op # Idle
    /\ op' = Idle
    /\ UNCHANGED <<rows, deleter, receipts, keychain, startup, pending, boots, saved, approved>>

\* reserve_receipt_intelligence, on a thread of its own: the approval of one
\* receipt's text names the active credential, for as long as its source exists.
reserve_receipt_intelligence(c) ==
    /\ startup = "up" /\ rows[c] = "active"
    /\ approved' = approved \cup {c}
    /\ UNCHANGED <<rows, deleter, receipts, keychain, op, startup, pending, boots, saved>>

\* execute_deletion_v1 of those sources removes their approvals with them.
execute_deletion ==
    /\ Ready
    /\ \E c \in approved : approved' = approved \ {c}
    /\ UNCHANGED <<rows, deleter, receipts, keychain, op, startup, pending, boots, saved>>

\* Every other request is answered from its receipt or refused: a replayed save
\* of an active or deleted credential, a replayed delete whose row is gone, and
\* a request id that was used for something else.
AnswerUnchanged(r) ==
    /\ Ready
    /\ receipts[r] # NoReceipt
    /\ UNCHANGED vars

-----------------------------------------------------------------------------
\* reconcile_credentials, before the first command is served

\* Mutant: an interrupted delete is not taken up again.
PendingRows_saves_only == {c \in Requests : rows[c] = "pending_save"}
PendingRows == {c \in Requests : rows[c] \in Pending}

\* The process dies, or startup ends with an error, and is started again.
Restart ==
    /\ boots < MaxBoots
    /\ boots' = boots + 1
    /\ op' = Idle
    /\ startup' = "recovering"
    /\ pending' = PendingRows
    /\ UNCHANGED <<rows, deleter, receipts, keychain, saved, approved>>

\* Mutant: an interrupted save counts as done.
reconcile_save_trusting(c) ==
    /\ c \in pending /\ rows[c] = "pending_save"
    /\ rows' = [rows EXCEPT ![c] = "active"]
    /\ pending' = pending \ {c}
    /\ UNCHANGED <<deleter, receipts, keychain, op, startup, boots, saved, approved>>

\* An interrupted save is active if the Keychain contains the secret.
reconcile_save(c) ==
    /\ c \in pending /\ rows[c] = "pending_save"
    /\ rows' = [rows EXCEPT ![c] = IF c \in keychain THEN "active" ELSE "save_failed"]
    /\ pending' = pending \ {c}
    /\ UNCHANGED <<deleter, receipts, keychain, op, startup, boots, saved, approved>>

\* An interrupted delete: first the secret, then the row.
reconcile_delete_secret(c) ==
    /\ c \in pending /\ rows[c] = "pending_delete"
    /\ c \in keychain
    /\ keychain' = keychain \ {c}
    /\ UNCHANGED <<rows, deleter, receipts, op, startup, pending, boots, saved, approved>>

reconcile_delete_row(c) ==
    /\ c \in pending /\ rows[c] = "pending_delete"
    /\ c \notin keychain /\ c \notin approved
    /\ rows' = [rows EXCEPT ![c] = "absent"]
    /\ deleter' = [deleter EXCEPT ![c] = Nobody]
    /\ pending' = pending \ {c}
    /\ UNCHANGED <<receipts, keychain, op, startup, boots, saved, approved>>

\* The row that an approval names cannot be removed, and the start ends with an
\* error (credential_reconciliation_failed), as the next one will.
StartFails(c) ==
    /\ c \in pending /\ rows[c] = "pending_delete"
    /\ c \notin keychain /\ c \in approved
    /\ UNCHANGED vars

Started ==
    /\ startup = "recovering" /\ pending = {}
    /\ startup' = "up"
    /\ UNCHANGED <<rows, deleter, receipts, keychain, op, pending, boots, saved, approved>>

Next ==
    \/ \E r \in Requests : reserve_core_credential(r) \/ AnswerUnchanged(r)
    \/ put \/ activate_core_credential
    \/ \E r, c \in Requests : prepare_core_credential_delete(r, c)
    \/ delete \/ finish_core_credential_delete \/ Fail
    \/ Restart \/ Started
    \/ \E c \in Requests :
        \/ reconcile_save(c) \/ reconcile_delete_secret(c) \/ reconcile_delete_row(c)
        \/ StartFails(c) \/ reserve_receipt_intelligence(c)
    \/ execute_deletion

Spec == Init /\ [][Next]_vars

-----------------------------------------------------------------------------
\* Every variable has its type, and rows are settled only before commands run.
TypeOK ==
    /\ rows \in [Requests -> Statuses]
    /\ deleter \in [Requests -> Requests \cup {Nobody}]
    /\ receipts \in [Requests -> {NoReceipt} \cup [command : {"save", "delete"},
                                                   credential : Requests]]
    /\ keychain \subseteq Requests
    /\ op \in {Idle} \cup [step : {"put", "activate"}, credential : Requests]
                     \cup [step : {"delete", "finish"}, credential : Requests, request : Requests]
    /\ startup \in {"recovering", "up"}
    /\ pending \subseteq Requests /\ \A c \in pending : rows[c] \in Pending
    /\ startup = "recovering" => op = Idle
    /\ startup = "up" => pending = {}
    /\ boots \in Nat
    /\ saved \subseteq Requests /\ approved \subseteq Requests

Deleted(c) == \E r \in Requests : receipts[r] = Receipt("delete", c)

\* A reference shown as active has its secret in the Keychain, whatever step of
\* whichever command failed or was cut by a crash.
ActiveHasSecret == \A c \in Requests : rows[c] = "active" => c \in keychain

\* No secret is left in the Keychain that no reference names, so no secret is
\* out of reach of delete_credential_v1 and of the next startup.
NoOrphanSecret == \A c \in keychain : rows[c] # "absent"

\* Once a delete was accepted the credential never comes back: neither a replay
\* of its save nor a restart makes it active again.
DeletionIsFinal == \A c \in Requests : Deleted(c) => rows[c] \in {"absent", "pending_delete"}

\* A save answered with success stays usable until a delete is accepted.
SavedStaysActive == \A c \in saved : rows[c] = "active" \/ Deleted(c)

\* No start meets a row that it can neither keep nor remove, so the wardrobe stays open
\* to a user who removed the provider's key.
WardrobeOpens ==
    \A c \in pending : rows[c] = "pending_delete" => c \notin approved

\* The application serves no command before every interrupted one is settled.
StartupSettles ==
    [][startup' # startup /\ startup' = "up" => \A c \in Requests : rows'[c] \notin Pending]_vars
=============================================================================
