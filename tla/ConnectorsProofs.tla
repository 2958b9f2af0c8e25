--------------------------- MODULE ConnectorsProofs ---------------------------
(***************************************************************************)
(* Proofs about the features of MCConnectors, for every set of requests,   *)
(* assets and messages and any number of starts, enrollments, changes of a *)
(* mailbox and commands.  A step of the composition is a step of one       *)
(* feature and leaves the state of the others alone, so each has an        *)
(* inductive invariant of its own.                                         *)
(***************************************************************************)
EXTENDS MCConnectors, Sequences, FiniteSetTheorems, TLAPS

-----------------------------------------------------------------------------
(* The rows of the credentials and the Keychain.  The properties are not   *)
(* inductive: a command is trusted to finish what its first transaction    *)
(* began, so the invariant also says what the rows and the Keychain look   *)
(* like while a command is between two steps, that receipts outlive the    *)
(* rows they made, and that startup has every pending row on its list.     *)

\* A row, and a delete receipt, exist only for a credential that was saved.
ReceiptsCover ==
    /\ \A c \in Requests : rows[c] # "absent" => receipts[c] = Receipt("save", c)
    /\ \A r, c \in Requests :
        receipts[r] = Receipt("delete", c) => receipts[c] = Receipt("save", c)

\* What holds of the credential of the command under way.
OpConsistent ==
    /\ op.step \in {"put", "activate"} => rows[op.credential] # "absent"
    /\ op.step = "activate" => op.credential \in keychain
    /\ op.step \in {"delete", "finish"} => rows[op.credential] = "pending_delete"
    /\ op.step = "finish" => op.credential \notin keychain

\* While startup runs, the pending rows are the ones it has still to settle.
AllPendingSeen ==
    startup = "recovering" => \A c \in Requests : rows[c] \in Pending => c \in pending

IInv ==
    /\ TypeOK /\ ActiveHasSecret /\ NoOrphanSecret /\ DeletionIsFinal /\ SavedStaysActive
    /\ ReceiptsCover /\ OpConsistent /\ AllPendingSeen

\* The invariant holds of an empty store that is starting up.
LEMMA InitIsIInv == Init => IInv
  <1> SUFFICES ASSUME Init PROVE IInv
    OBVIOUS
  <1>1. TypeOK /\ OpConsistent /\ AllPendingSeen
    BY DEF Init, TypeOK, OpConsistent, AllPendingSeen, Statuses, Pending, Idle, NoReceipt, Nobody
  <1>2. ActiveHasSecret /\ NoOrphanSecret /\ DeletionIsFinal /\ SavedStaysActive /\ ReceiptsCover
    BY DEF Init, ActiveHasSecret, NoOrphanSecret, DeletionIsFinal, SavedStaysActive,
           ReceiptsCover, Deleted, Receipt, NoReceipt
  <1>3. QED
    BY <1>1, <1>2 DEF IInv

\* Every step of a command, of startup and every failure keeps the invariant.
LEMMA StepKeepsIInv == IInv /\ [Next]_vars => IInv'
  <1> SUFFICES ASSUME IInv, [Next]_vars PROVE IInv'
    OBVIOUS
  <1> USE DEF Statuses, Pending, Idle
  <1>1. ASSUME NEW r \in Requests, reserve_core_credential(r)
       PROVE  IInv'
    <2>1. TypeOK'
      BY <1>1 DEF IInv, reserve_core_credential, Ready, Receipt, NoReceipt,
          TypeOK
    <2>2. DeletionIsFinal'
      BY <1>1 DEF IInv, reserve_core_credential, Ready, Receipt, NoReceipt,
          TypeOK, DeletionIsFinal, Deleted, OpConsistent, ReceiptsCover
    <2>3. SavedStaysActive'
      BY <1>1 DEF IInv, reserve_core_credential, Ready, Receipt, NoReceipt,
          TypeOK, SavedStaysActive, Deleted, OpConsistent, ReceiptsCover
    <2>4. ReceiptsCover'
      BY <1>1 DEF IInv, reserve_core_credential, Ready, Receipt, NoReceipt,
          TypeOK, ReceiptsCover, OpConsistent
    <2>5. OpConsistent'
      BY <1>1 DEF IInv, reserve_core_credential, Ready, Receipt, NoReceipt,
          TypeOK, OpConsistent, DeletionIsFinal, Deleted, ReceiptsCover
    <2>6. ActiveHasSecret' /\ NoOrphanSecret' /\ AllPendingSeen'
      BY <1>1 DEF IInv, reserve_core_credential, Ready, Receipt, NoReceipt,
          TypeOK, ActiveHasSecret, OpConsistent, NoOrphanSecret,
          AllPendingSeen
    <2>q. QED
      BY <2>1, <2>2, <2>3, <2>4, <2>5, <2>6 DEF IInv
  <1>2. CASE put
    <2>1. TypeOK'
      BY <1>2 DEF IInv, put, TypeOK
    <2>2. NoOrphanSecret'
      BY <1>2 DEF IInv, put, TypeOK, NoOrphanSecret, OpConsistent
    <2>3. OpConsistent'
      BY <1>2 DEF IInv, put, TypeOK, OpConsistent, DeletionIsFinal, Deleted,
          ReceiptsCover, Receipt, NoReceipt
    <2>4. ActiveHasSecret' /\ DeletionIsFinal' /\ SavedStaysActive' /\
        ReceiptsCover' /\ AllPendingSeen'
      BY <1>2 DEF IInv, put, TypeOK, ActiveHasSecret, OpConsistent,
          DeletionIsFinal, Deleted, ReceiptsCover, Receipt, NoReceipt,
          SavedStaysActive, AllPendingSeen
    <2>q. QED
      BY <2>1, <2>2, <2>3, <2>4 DEF IInv
  <1>3. CASE activate_core_credential
    <2>1. TypeOK'
      BY <1>3 DEF IInv, activate_core_credential, TypeOK
    <2>2. ActiveHasSecret'
      BY <1>3 DEF IInv, activate_core_credential, TypeOK, ActiveHasSecret,
          OpConsistent
    <2>3. DeletionIsFinal'
      BY <1>3 DEF IInv, activate_core_credential, TypeOK, DeletionIsFinal,
          Deleted, OpConsistent, ReceiptsCover, Receipt, NoReceipt
    <2>4. SavedStaysActive'
      BY <1>3 DEF IInv, activate_core_credential, TypeOK, SavedStaysActive,
          Deleted, OpConsistent, ReceiptsCover, Receipt, NoReceipt
    <2>5. NoOrphanSecret' /\ ReceiptsCover' /\ OpConsistent' /\
        AllPendingSeen'
      BY <1>3 DEF IInv, activate_core_credential, TypeOK, NoOrphanSecret,
          OpConsistent, ReceiptsCover, Receipt, NoReceipt, DeletionIsFinal,
          Deleted, AllPendingSeen
    <2>q. QED
      BY <2>1, <2>2, <2>3, <2>4, <2>5 DEF IInv
  <1>4. ASSUME NEW r \in Requests, NEW c \in Requests, prepare_core_credential_delete(r, c)
       PROVE  IInv'
    <2>1. TypeOK'
      BY <1>4 DEF IInv, prepare_core_credential_delete, Ready, Receipt,
          NoReceipt, TypeOK
    <2>2. DeletionIsFinal'
      BY <1>4 DEF IInv, prepare_core_credential_delete, Ready, Receipt,
          NoReceipt, TypeOK, DeletionIsFinal, Deleted, OpConsistent,
          ReceiptsCover
    <2>3. SavedStaysActive'
      BY <1>4 DEF IInv, prepare_core_credential_delete, Ready, Receipt,
          NoReceipt, TypeOK, SavedStaysActive, Deleted, OpConsistent,
          ReceiptsCover
    <2>4. ReceiptsCover'
      BY <1>4 DEF IInv, prepare_core_credential_delete, Ready, Receipt,
          NoReceipt, TypeOK, ReceiptsCover, OpConsistent
    <2>5. OpConsistent'
      BY <1>4 DEF IInv, prepare_core_credential_delete, Ready, Receipt,
          NoReceipt, TypeOK, OpConsistent, DeletionIsFinal, Deleted,
          ReceiptsCover
    <2>6. ActiveHasSecret' /\ NoOrphanSecret' /\ AllPendingSeen'
      BY <1>4 DEF IInv, prepare_core_credential_delete, Ready, Receipt,
          NoReceipt, TypeOK, ActiveHasSecret, OpConsistent, NoOrphanSecret,
          AllPendingSeen
    <2>q. QED
      BY <2>1, <2>2, <2>3, <2>4, <2>5, <2>6 DEF IInv
  <1>5. CASE delete
    <2>1. TypeOK'
      BY <1>5 DEF IInv, delete, TypeOK
    <2>2. ActiveHasSecret'
      BY <1>5 DEF IInv, delete, TypeOK, ActiveHasSecret, OpConsistent
    <2>3. OpConsistent'
      BY <1>5 DEF IInv, delete, TypeOK, OpConsistent, DeletionIsFinal,
          Deleted, ReceiptsCover, Receipt, NoReceipt
    <2>4. NoOrphanSecret' /\ DeletionIsFinal' /\ SavedStaysActive' /\
        ReceiptsCover' /\ AllPendingSeen'
      BY <1>5 DEF IInv, delete, TypeOK, NoOrphanSecret, OpConsistent,
          DeletionIsFinal, Deleted, ReceiptsCover, Receipt, NoReceipt,
          SavedStaysActive, AllPendingSeen
    <2>q. QED
      BY <2>1, <2>2, <2>3, <2>4 DEF IInv
  <1>6. CASE finish_core_credential_delete
    <2>1. TypeOK'
      BY <1>6 DEF IInv, finish_core_credential_delete, TypeOK
    <2>2. NoOrphanSecret'
      BY <1>6 DEF IInv, finish_core_credential_delete, TypeOK, NoOrphanSecret,
          OpConsistent
    <2>3. SavedStaysActive'
      BY <1>6 DEF IInv, finish_core_credential_delete, TypeOK,
          SavedStaysActive, Deleted, OpConsistent, ReceiptsCover, Receipt,
          NoReceipt
    <2>4. ActiveHasSecret' /\ DeletionIsFinal' /\ ReceiptsCover' /\
        OpConsistent' /\ AllPendingSeen'
      BY <1>6 DEF IInv, finish_core_credential_delete, TypeOK,
          ActiveHasSecret, OpConsistent, DeletionIsFinal, Deleted,
          ReceiptsCover, Receipt, NoReceipt, AllPendingSeen
    <2>q. QED
      BY <2>1, <2>2, <2>3, <2>4 DEF IInv
  <1>7. CASE Fail
    <2>1. TypeOK'
      BY <1>7 DEF IInv, Fail, TypeOK
    <2>2. ActiveHasSecret' /\ NoOrphanSecret' /\ DeletionIsFinal' /\
        SavedStaysActive' /\ ReceiptsCover' /\ OpConsistent' /\
        AllPendingSeen'
      BY <1>7 DEF IInv, Fail, TypeOK, ActiveHasSecret, OpConsistent,
          NoOrphanSecret, DeletionIsFinal, Deleted, ReceiptsCover, Receipt,
          NoReceipt, SavedStaysActive, AllPendingSeen
    <2>q. QED
      BY <2>1, <2>2 DEF IInv
  <1>8. CASE Restart
    <2>1. TypeOK'
      BY <1>8 DEF IInv, Restart, PendingRows, TypeOK
    <2>2. AllPendingSeen'
      BY <1>8 DEF IInv, Restart, PendingRows, TypeOK, AllPendingSeen
    <2>3. ActiveHasSecret' /\ NoOrphanSecret' /\ DeletionIsFinal' /\
        SavedStaysActive' /\ ReceiptsCover' /\ OpConsistent'
      BY <1>8 DEF IInv, Restart, PendingRows, TypeOK, ActiveHasSecret,
          OpConsistent, NoOrphanSecret, DeletionIsFinal, Deleted,
          ReceiptsCover, Receipt, NoReceipt, SavedStaysActive
    <2>q. QED
      BY <2>1, <2>2, <2>3 DEF IInv
  <1>9. CASE Started
    <2>1. TypeOK'
      BY <1>9 DEF IInv, Started, TypeOK
    <2>2. ActiveHasSecret' /\ NoOrphanSecret' /\ DeletionIsFinal' /\
        SavedStaysActive' /\ ReceiptsCover' /\ OpConsistent' /\
        AllPendingSeen'
      BY <1>9 DEF IInv, Started, TypeOK, ActiveHasSecret, OpConsistent,
          NoOrphanSecret, DeletionIsFinal, Deleted, ReceiptsCover, Receipt,
          NoReceipt, SavedStaysActive, AllPendingSeen
    <2>q. QED
      BY <2>1, <2>2 DEF IInv
  <1>10. ASSUME NEW c \in Requests, reconcile_save(c)
       PROVE  IInv'
    <2>1. TypeOK'
      BY <1>10 DEF IInv, reconcile_save, TypeOK
    <2>2. ActiveHasSecret'
      BY <1>10 DEF IInv, reconcile_save, TypeOK, ActiveHasSecret, OpConsistent
    <2>3. SavedStaysActive'
      BY <1>10 DEF IInv, reconcile_save, TypeOK, SavedStaysActive, Deleted,
          OpConsistent, ReceiptsCover, Receipt, NoReceipt
    <2>4. NoOrphanSecret' /\ DeletionIsFinal' /\ ReceiptsCover' /\
        OpConsistent' /\ AllPendingSeen'
      BY <1>10 DEF IInv, reconcile_save, TypeOK, NoOrphanSecret, OpConsistent,
          DeletionIsFinal, Deleted, ReceiptsCover, Receipt, NoReceipt,
          AllPendingSeen
    <2>q. QED
      BY <2>1, <2>2, <2>3, <2>4 DEF IInv
  <1>11. ASSUME NEW c \in Requests, reconcile_delete_secret(c)
       PROVE  IInv'
    <2>1. TypeOK'
      BY <1>11 DEF IInv, reconcile_delete_secret, TypeOK
    <2>2. ActiveHasSecret'
      BY <1>11 DEF IInv, reconcile_delete_secret, TypeOK, ActiveHasSecret,
          OpConsistent
    <2>3. OpConsistent'
      BY <1>11 DEF IInv, reconcile_delete_secret, TypeOK, OpConsistent,
          DeletionIsFinal, Deleted, ReceiptsCover, Receipt, NoReceipt
    <2>4. NoOrphanSecret' /\ DeletionIsFinal' /\ SavedStaysActive' /\
        ReceiptsCover' /\ AllPendingSeen'
      BY <1>11 DEF IInv, reconcile_delete_secret, TypeOK, NoOrphanSecret,
          OpConsistent, DeletionIsFinal, Deleted, ReceiptsCover, Receipt,
          NoReceipt, SavedStaysActive, AllPendingSeen
    <2>q. QED
      BY <2>1, <2>2, <2>3, <2>4 DEF IInv
  <1>12. ASSUME NEW c \in Requests, reconcile_delete_row(c)
       PROVE  IInv'
    <2>1. TypeOK'
      BY <1>12 DEF IInv, reconcile_delete_row, TypeOK
    <2>2. NoOrphanSecret'
      BY <1>12 DEF IInv, reconcile_delete_row, TypeOK, NoOrphanSecret,
          OpConsistent
    <2>3. SavedStaysActive'
      BY <1>12 DEF IInv, reconcile_delete_row, TypeOK, SavedStaysActive,
          Deleted, OpConsistent, ReceiptsCover, Receipt, NoReceipt
    <2>4. ActiveHasSecret' /\ DeletionIsFinal' /\ ReceiptsCover' /\
        OpConsistent' /\ AllPendingSeen'
      BY <1>12 DEF IInv, reconcile_delete_row, TypeOK, ActiveHasSecret,
          OpConsistent, DeletionIsFinal, Deleted, ReceiptsCover, Receipt,
          NoReceipt, AllPendingSeen
    <2>q. QED
      BY <2>1, <2>2, <2>3, <2>4 DEF IInv
  <1> DEFINE Approves == \/ \E c \in Requests : reserve_receipt_intelligence(c)
                         \/ execute_deletion
  <1>13. CASE UNCHANGED vars \/ Approves
    <2> UNCHANGED <<rows, deleter, receipts, keychain, op, startup, pending, boots, saved>>
      BY <1>13 DEF vars, reserve_receipt_intelligence, execute_deletion
    <2> approved' \subseteq Requests
      BY <1>13 DEF vars, IInv, TypeOK, reserve_receipt_intelligence, execute_deletion
    <2>1. TypeOK' /\ ActiveHasSecret' /\ NoOrphanSecret' /\ AllPendingSeen'
      BY DEF IInv, TypeOK, ActiveHasSecret, NoOrphanSecret, AllPendingSeen
    <2>2. DeletionIsFinal' /\ SavedStaysActive' /\ ReceiptsCover' /\ OpConsistent'
      BY DEF IInv, DeletionIsFinal, SavedStaysActive, Deleted, ReceiptsCover,
                   OpConsistent
    <2>3. QED
      BY <2>1, <2>2 DEF IInv
  <1>14. QED
    BY <1>1, <1>2, <1>3, <1>4, <1>5, <1>6, <1>7, <1>8, <1>9, <1>10, <1>11, <1>12, <1>13
       DEF Next, AnswerUnchanged, StartFails

\* A credential shown as active has its secret in the Keychain, for any number
\* of requests, failures and restarts.
THEOREM ActiveCredentialsAreUsable == Spec => []ActiveHasSecret
  <1>1. IInv => ActiveHasSecret
    BY DEF IInv
  <1>2. QED
    BY InitIsIInv, StepKeepsIInv, <1>1, PTL DEF Spec

\* The Keychain holds no secret that the database has forgotten.
THEOREM SecretsAreNamed == Spec => []NoOrphanSecret
  <1>1. IInv => NoOrphanSecret
    BY DEF IInv
  <1>2. QED
    BY InitIsIInv, StepKeepsIInv, <1>1, PTL DEF Spec

\* An accepted delete is never undone by a replayed save or a restart.
THEOREM DeletesAreFinal == Spec => []DeletionIsFinal
  <1>1. IInv => DeletionIsFinal
    BY DEF IInv
  <1>2. QED
    BY InitIsIInv, StepKeepsIInv, <1>1, PTL DEF Spec

\* A save that was answered with success is kept until it is deleted.
THEOREM SavesAreKept == Spec => []SavedStaysActive
  <1>1. IInv => SavedStaysActive
    BY DEF IInv
  <1>2. QED
    BY InitIsIInv, StepKeepsIInv, <1>1, PTL DEF Spec

\* Commands are served only once every interrupted command is settled.
THEOREM StartupSettlesCredentials == Spec => StartupSettles
  <1> DEFINE Settles ==
        startup' # startup /\ startup' = "up" => \A c \in Requests : rows'[c] \notin Pending
  <1>1. IInv /\ [Next]_vars => [Settles]_vars
    <2> SUFFICES ASSUME IInv, Next, startup' # startup, startup' = "up"
                 PROVE  \A c \in Requests : rows'[c] \notin Pending
      BY DEF vars
    <2>1. Started
      BY DEF Next, reserve_core_credential, put, activate_core_credential,
             prepare_core_credential_delete, delete, finish_core_credential_delete, Fail,
             Restart, reconcile_save, reconcile_delete_secret, reconcile_delete_row,
             AnswerUnchanged, StartFails, reserve_receipt_intelligence, execute_deletion, vars
    <2>2. QED
      BY <2>1 DEF Started, IInv, AllPendingSeen
  <1>2. QED
    BY InitIsIInv, StepKeepsIInv, <1>1, PTL DEF Spec, StartupSettles

-----------------------------------------------------------------------------
(* The refresh token of the Gmail account                                  *)

TokenOutcomes == {"not_attempted_local_only", "failed", "succeeded", "already_invalid"}
Dead == {"succeeded", "already_invalid"}
ConnectSteps == {"authorize", "reserve", "put", "activate", "commit", "cleanup", "cleanup_rows"}
DisconnectSteps == {"revoke", "persist", "delete"}
TokenOperations ==
    [request : Requests, command : {"connect", "sync", "disconnect"},
     stage : {"authorizing", "credential_reserved", "syncing", "revocation_pending",
              "credential_delete_pending"},
     revocation : TokenOutcomes \cup {"none"}]

\* The command or the recovery under way: what it knows besides its step.
TokenSteps ==
    [step : {"idle", "reconcile", "recover", "legacy"}]
      \cup [step : ConnectSteps \cup {"sync", "revoke", "delete", "remove", "finish"}, request : Requests]
      \cup [step : {"persist", "delete"}, request : Requests, outcome : TokenOutcomes]
      \cup [step : {"cleanup", "cleanup_rows", "revoke", "delete"}, request : Requests,
            starting : {TRUE}]

TokenTypeOK ==
    /\ status \in {"not_configured", "disconnected", "connecting", "connected", "disconnecting"}
    /\ tokens \in [Requests -> {"absent", "pending_save", "active", "save_failed", "pending_delete"}]
    /\ removals \subseteq Requests
    /\ reserved \in [Requests -> {"none", "connect", "sync", "disconnect"}]
    /\ DOMAIN answers = Requests
    /\ pc \in TokenSteps
    /\ operation \in TokenOperations \cup {T!NoOperation}

\* The operation on record says what the status may be, and the status which rows and tokens
\* there are.
StatusAgrees ==
    /\ status \in {"not_configured", "disconnected"} =>
         operation = T!NoOperation /\ account = T!Nobody /\ T!Locators = {}
    /\ status = "connecting" =>
         /\ operation # T!NoOperation /\ operation.command = "connect"
         /\ account = T!Nobody /\ T!Locators \subseteq {operation.request}
    /\ status = "connected" =>
         /\ operation = T!NoOperation \/ operation.command = "sync"
         /\ account \in Requests /\ T!Locators \subseteq {account}
         /\ \/ account \in token_keychain /\ tokens[account] = "active"
            \/ account \in removals /\ tokens[account] \in {"pending_delete", "absent"}
    /\ status = "disconnecting" =>
         /\ operation # T!NoOperation /\ operation.command = "disconnect"
         /\ operation.revocation \in Dead => account \notin grants

\* What a command that is under way may rely on, in each of its steps.
StepAgrees ==
    /\ pc.step \in ConnectSteps => status = "connecting" /\ operation.request = pc.request
    /\ pc.step \in {"authorize", "reserve"} => T!Locators = {}
    /\ pc.step \in {"put", "activate"} => tokens[pc.request] = "pending_save"
    /\ pc.step \in {"activate", "commit"} => pc.request \in token_keychain
    /\ pc.step = "commit" => tokens[pc.request] = "active"
    /\ pc.step \in {"cleanup_rows", "finish"} => pc.request \notin token_keychain
    /\ pc.step \in {"remove", "finish"} => tokens[pc.request] = "pending_delete"
    /\ pc.step = "sync" => operation # T!NoOperation /\ operation.command = "sync"
    /\ pc.step \in DisconnectSteps => status = "disconnecting"
    /\ pc.step = "persist" /\ pc.outcome \in Dead => account \notin grants
    /\ pc.step = "legacy" => operation = T!NoOperation

\* Every token has its row, and the operation on record is that of the request that
\* reserved its command.
TokenInv ==
    /\ TokenTypeOK
    /\ token_keychain \subseteq T!Locators
    /\ operation # T!NoOperation => reserved[operation.request] = operation.command
    /\ StatusAgrees
    /\ StepAgrees

LEMMA TokenStep == NextConnectors => T!Next \/ UNCHANGED tokenVars
  BY DEF NextConnectors, tokenVars

LEMMA TokenInit == InitConnectors => TokenInv
<1> SUFFICES ASSUME InitConnectors PROVE TokenInv
  OBVIOUS
<1>1. T!Init
  BY DEF InitConnectors
<1> QED BY <1>1 DEF T!Init, T!NoOperation, T!Locators, TokenInv, TokenTypeOK, StatusAgrees,
             StepAgrees, TokenSteps, ConnectSteps, DisconnectSteps

LEMMA OperationsAreOpen ==
    ASSUME operation \in TokenOperations PROVE operation # T!NoOperation
  BY DEF TokenOperations, T!NoOperation

\* One step per action.
LEMMA TokenNext == TokenInv /\ T!Next => TokenInv'
<1> SUFFICES ASSUME TokenInv, T!Next PROVE TokenInv'
  OBVIOUS
<1> USE OperationsAreOpen DEF TokenInv, TokenTypeOK, StatusAgrees, StepAgrees, T!Locators,
     TokenSteps,
         ConnectSteps, DisconnectSteps, TokenOperations, TokenOutcomes, Dead, T!NoOperation, T!NoResult,
         T!durable, T!outside, T!Nobody
<1>1. CASE T!save_gmail_settings
  <2>1. TokenTypeOK'
    BY <1>1 DEF T!save_gmail_settings, T!Idle
  <2>2. (token_keychain \subseteq T!Locators)'
    BY <1>1 DEF T!save_gmail_settings, T!Idle
  <2>3. (operation # T!NoOperation => reserved[operation.request] = operation.command)'
    BY <1>1 DEF T!save_gmail_settings, T!Idle
  <2>4. StatusAgrees'
    BY <1>1 DEF T!save_gmail_settings, T!Idle
  <2>5. StepAgrees'
    BY <1>1 DEF T!save_gmail_settings, T!Idle
  <2> QED BY <2>1, <2>2, <2>3, <2>4, <2>5
<1>2. ASSUME NEW r \in Requests, T!connect_gmail(r) PROVE TokenInv'
  <2>1. CASE status = "disconnected" /\ operation = T!NoOperation
    <3>1. operation' \in TokenOperations /\ operation'.request = r
      BY <1>2, <2>1 DEF T!connect_gmail, T!reserve_request, T!Idle
    <3>2. pc' = [step |-> "authorize", request |-> r]
      BY <1>2, <2>1 DEF T!connect_gmail, T!reserve_request, T!Idle
    <3>3. TokenTypeOK'
      BY <1>2, <2>1, <3>1, <3>2 DEF T!connect_gmail, T!reserve_request, T!Idle
    <3>4. (token_keychain \subseteq T!Locators)'
      BY <1>2, <2>1, <3>1, <3>2 DEF T!connect_gmail, T!reserve_request, T!Idle
    <3>5. (operation # T!NoOperation => reserved[operation.request] = operation.command)'
      BY <1>2, <2>1, <3>1, <3>2 DEF T!connect_gmail, T!reserve_request, T!Idle
    <3>6. StatusAgrees'
      BY <1>2, <2>1, <3>1, <3>2 DEF T!connect_gmail, T!reserve_request, T!Idle
    <3>7. StepAgrees'
      BY <1>2, <2>1, <3>1, <3>2 DEF T!connect_gmail, T!reserve_request, T!Idle
    <3> QED BY <3>3, <3>4, <3>5, <3>6, <3>7
  <2>2. CASE ~(status = "disconnected" /\ operation = T!NoOperation)
    <3>1. TokenTypeOK'
      BY <1>2, <2>2 DEF T!connect_gmail, T!reserve_request, T!Idle
    <3>2. (token_keychain \subseteq T!Locators)'
      BY <1>2, <2>2 DEF T!connect_gmail, T!reserve_request, T!Idle
    <3>3. (operation # T!NoOperation => reserved[operation.request] = operation.command)'
      BY <1>2, <2>2 DEF T!connect_gmail, T!reserve_request, T!Idle
    <3>4. StatusAgrees'
      BY <1>2, <2>2 DEF T!connect_gmail, T!reserve_request, T!Idle
    <3>5. StepAgrees'
      BY <1>2, <2>2 DEF T!connect_gmail, T!reserve_request, T!Idle
    <3> QED BY <3>1, <3>2, <3>3, <3>4, <3>5
  <2> QED BY <2>1, <2>2
<1>3. ASSUME NEW r \in Requests, T!sync_gmail(r) PROVE TokenInv'
  <2>1. CASE T!Active /\ operation = T!NoOperation
    <3>1. operation' \in TokenOperations /\ operation'.request = r
      BY <1>3, <2>1 DEF T!sync_gmail, T!reserve_request, T!Active, T!Idle
    <3>2. pc' = [step |-> "sync", request |-> r]
      BY <1>3, <2>1 DEF T!sync_gmail, T!reserve_request, T!Active, T!Idle
    <3>3. TokenTypeOK'
      BY <1>3, <2>1, <3>1, <3>2 DEF T!sync_gmail, T!reserve_request, T!Active, T!Idle
    <3>4. (token_keychain \subseteq T!Locators)'
      BY <1>3, <2>1, <3>1, <3>2 DEF T!sync_gmail, T!reserve_request, T!Active, T!Idle
    <3>5. (operation # T!NoOperation => reserved[operation.request] = operation.command)'
      BY <1>3, <2>1, <3>1, <3>2 DEF T!sync_gmail, T!reserve_request, T!Active, T!Idle
    <3>6. StatusAgrees'
      BY <1>3, <2>1, <3>1, <3>2 DEF T!sync_gmail, T!reserve_request, T!Active, T!Idle
    <3>7. StepAgrees'
      BY <1>3, <2>1, <3>1, <3>2 DEF T!sync_gmail, T!reserve_request, T!Active, T!Idle
    <3> QED BY <3>3, <3>4, <3>5, <3>6, <3>7
  <2>2. CASE ~(T!Active /\ operation = T!NoOperation)
    <3>1. TokenTypeOK'
      BY <1>3, <2>2 DEF T!sync_gmail, T!reserve_request, T!Active, T!Idle
    <3>2. (token_keychain \subseteq T!Locators)'
      BY <1>3, <2>2 DEF T!sync_gmail, T!reserve_request, T!Active, T!Idle
    <3>3. (operation # T!NoOperation => reserved[operation.request] = operation.command)'
      BY <1>3, <2>2 DEF T!sync_gmail, T!reserve_request, T!Active, T!Idle
    <3>4. StatusAgrees'
      BY <1>3, <2>2 DEF T!sync_gmail, T!reserve_request, T!Active, T!Idle
    <3>5. StepAgrees'
      BY <1>3, <2>2 DEF T!sync_gmail, T!reserve_request, T!Active, T!Idle
    <3> QED BY <3>1, <3>2, <3>3, <3>4, <3>5
  <2> QED BY <2>1, <2>2
<1>4. ASSUME NEW r \in Requests, T!begin_disconnect(r) PROVE TokenInv'
  <2>1. CASE T!Active /\ operation = T!NoOperation
    <3>1. operation' \in TokenOperations /\ operation'.request = r
      BY <1>4, <2>1 DEF T!begin_disconnect, T!reserve_request, T!Active, T!Idle
    <3>2. pc' = [step |-> "revoke", request |-> r]
      BY <1>4, <2>1 DEF T!begin_disconnect, T!reserve_request, T!Active, T!Idle
    <3>3. TokenTypeOK'
      BY <1>4, <2>1, <3>1, <3>2 DEF T!begin_disconnect, T!reserve_request, T!Active, T!Idle
    <3>4. (token_keychain \subseteq T!Locators)'
      BY <1>4, <2>1, <3>1, <3>2 DEF T!begin_disconnect, T!reserve_request, T!Active, T!Idle
    <3>5. (operation # T!NoOperation => reserved[operation.request] = operation.command)'
      BY <1>4, <2>1, <3>1, <3>2 DEF T!begin_disconnect, T!reserve_request, T!Active, T!Idle
    <3>6. StatusAgrees'
      BY <1>4, <2>1, <3>1, <3>2 DEF T!begin_disconnect, T!reserve_request, T!Active, T!Idle
    <3>7. StepAgrees'
      BY <1>4, <2>1, <3>1, <3>2 DEF T!begin_disconnect, T!reserve_request, T!Active, T!Idle
    <3> QED BY <3>3, <3>4, <3>5, <3>6, <3>7
  <2>2. CASE ~(T!Active /\ operation = T!NoOperation)
    <3>1. TokenTypeOK'
      BY <1>4, <2>2 DEF T!begin_disconnect, T!reserve_request, T!Active, T!Idle
    <3>2. (token_keychain \subseteq T!Locators)'
      BY <1>4, <2>2 DEF T!begin_disconnect, T!reserve_request, T!Active, T!Idle
    <3>3. (operation # T!NoOperation => reserved[operation.request] = operation.command)'
      BY <1>4, <2>2 DEF T!begin_disconnect, T!reserve_request, T!Active, T!Idle
    <3>4. StatusAgrees'
      BY <1>4, <2>2 DEF T!begin_disconnect, T!reserve_request, T!Active, T!Idle
    <3>5. StepAgrees'
      BY <1>4, <2>2 DEF T!begin_disconnect, T!reserve_request, T!Active, T!Idle
    <3> QED BY <3>1, <3>2, <3>3, <3>4, <3>5
  <2> QED BY <2>1, <2>2
<1>5. ASSUME NEW r \in Requests, T!resume_reserved_disconnect(r) PROVE TokenInv'
  <2>1. TokenTypeOK'
    BY <1>5 DEF T!resume_reserved_disconnect, T!Idle
  <2>2. (token_keychain \subseteq T!Locators)'
    BY <1>5 DEF T!resume_reserved_disconnect, T!Idle
  <2>3. (operation # T!NoOperation => reserved[operation.request] = operation.command)'
    BY <1>5 DEF T!resume_reserved_disconnect, T!Idle
  <2>4. StatusAgrees'
    BY <1>5 DEF T!resume_reserved_disconnect, T!Idle
  <2>5. StepAgrees'
    BY <1>5 DEF T!resume_reserved_disconnect, T!Idle
  <2> QED BY <2>1, <2>2, <2>3, <2>4, <2>5
<1>6. ASSUME NEW r \in Requests, T!delete_refresh(r) PROVE TokenInv'
  <2>1. TokenTypeOK'
    BY <1>6 DEF T!delete_refresh
  <2>2. (token_keychain \subseteq T!Locators)'
    BY <1>6 DEF T!delete_refresh
  <2>3. (operation # T!NoOperation => reserved[operation.request] = operation.command)'
    BY <1>6 DEF T!delete_refresh
  <2>4. StatusAgrees'
    BY <1>6 DEF T!delete_refresh
  <2>5. StepAgrees'
    BY <1>6 DEF T!delete_refresh
  <2> QED BY <2>1, <2>2, <2>3, <2>4, <2>5
<1>7. CASE T!authorize
  <2> pc \in [step : {"authorize"}, request : Requests]
    BY <1>7 DEF T!authorize
  <2>1. CASE T!Goto("reserve") /\ UNCHANGED <<status, operation>>
    <3>1. pc' \in [step : {"reserve"}, request : Requests] /\ pc'.request = pc.request
      BY <1>7, <2>1 DEF T!authorize, T!Goto, T!Return, T!AbortConnect, T!Idle
    <3>2. TokenTypeOK'
      BY <1>7, <2>1, <3>1 DEF T!authorize, T!Goto, T!Return, T!AbortConnect, T!Idle
    <3>3. (token_keychain \subseteq T!Locators)'
      BY <1>7, <2>1, <3>1 DEF T!authorize, T!Goto, T!Return, T!AbortConnect, T!Idle
    <3>4. (operation # T!NoOperation => reserved[operation.request] = operation.command)'
      BY <1>7, <2>1, <3>1 DEF T!authorize, T!Goto, T!Return, T!AbortConnect, T!Idle
    <3>5. StatusAgrees'
      BY <1>7, <2>1, <3>1 DEF T!authorize, T!Goto, T!Return, T!AbortConnect, T!Idle
    <3>6. StepAgrees'
      BY <1>7, <2>1, <3>1 DEF T!authorize, T!Goto, T!Return, T!AbortConnect, T!Idle
    <3> QED BY <3>2, <3>3, <3>4, <3>5, <3>6
  <2>2. CASE T!AbortConnect /\ T!Return
    <3>1. TokenTypeOK'
      BY <1>7, <2>2 DEF T!authorize, T!Goto, T!Return, T!AbortConnect, T!Idle
    <3>2. (token_keychain \subseteq T!Locators)'
      BY <1>7, <2>2 DEF T!authorize, T!Goto, T!Return, T!AbortConnect, T!Idle
    <3>3. (operation # T!NoOperation => reserved[operation.request] = operation.command)'
      BY <1>7, <2>2 DEF T!authorize, T!Goto, T!Return, T!AbortConnect, T!Idle
    <3>4. StatusAgrees'
      BY <1>7, <2>2 DEF T!authorize, T!Goto, T!Return, T!AbortConnect, T!Idle
    <3>5. StepAgrees'
      BY <1>7, <2>2 DEF T!authorize, T!Goto, T!Return, T!AbortConnect, T!Idle
    <3> QED BY <3>1, <3>2, <3>3, <3>4, <3>5
  <2> QED BY <1>7, <2>1, <2>2 DEF T!authorize
<1>8. CASE T!reserve_credential
  BY <1>8 DEF T!reserve_credential, T!Goto
<1>9. CASE T!put_refresh
  <2> pc \in [step : {"put"}, request : Requests]
    BY <1>9 DEF T!put_refresh
  <2>1. CASE T!Goto("activate") /\ token_keychain' = token_keychain \cup {pc.request}
    <3>1. pc' \in [step : {"activate"}, request : Requests] /\ pc'.request = pc.request
      BY <1>9, <2>1 DEF T!put_refresh, T!Goto
    <3>2. TokenTypeOK'
      BY <1>9, <2>1, <3>1 DEF T!put_refresh, T!Goto
    <3>3. (token_keychain \subseteq T!Locators)'
      BY <1>9, <2>1, <3>1 DEF T!put_refresh, T!Goto
    <3>4. (operation # T!NoOperation => reserved[operation.request] = operation.command)'
      BY <1>9, <2>1, <3>1 DEF T!put_refresh, T!Goto
    <3>5. StatusAgrees'
      BY <1>9, <2>1, <3>1 DEF T!put_refresh, T!Goto
    <3>6. StepAgrees'
      BY <1>9, <2>1, <3>1 DEF T!put_refresh, T!Goto
    <3> QED BY <3>2, <3>3, <3>4, <3>5, <3>6
  <2>2. CASE T!Goto("cleanup")
    <3>1. pc' \in [step : {"cleanup"}, request : Requests] /\ pc'.request = pc.request
      BY <1>9, <2>2 DEF T!put_refresh, T!Goto
    <3>2. TokenTypeOK'
      BY <1>9, <2>2, <3>1 DEF T!put_refresh, T!Goto
    <3>3. (token_keychain \subseteq T!Locators)'
      BY <1>9, <2>2, <3>1 DEF T!put_refresh, T!Goto
    <3>4. (operation # T!NoOperation => reserved[operation.request] = operation.command)'
      BY <1>9, <2>2, <3>1 DEF T!put_refresh, T!Goto
    <3>5. StatusAgrees'
      BY <1>9, <2>2, <3>1 DEF T!put_refresh, T!Goto
    <3>6. StepAgrees'
      BY <1>9, <2>2, <3>1 DEF T!put_refresh, T!Goto
    <3> QED BY <3>2, <3>3, <3>4, <3>5, <3>6
  <2> QED BY <1>9, <2>1, <2>2 DEF T!put_refresh
<1>10. CASE T!activate_credential
  BY <1>10 DEF T!activate_credential, T!Goto
<1>11. CASE T!commit_new_gmail_operation
  BY <1>11 DEF T!commit_new_gmail_operation, T!Return, T!Idle
<1>12. CASE T!connect_fails
  BY <1>12 DEF T!connect_fails, T!Goto
<1>13. CASE T!cleanup_revoke
  BY <1>13 DEF T!cleanup_revoke, T!Goto
<1>14. CASE T!cleanup_failed_connect
  BY <1>14 DEF T!cleanup_failed_connect, T!AbortConnect, T!Idle
<1>15. CASE T!commit_gmail_operation
  BY <1>15 DEF T!commit_gmail_operation, T!Return, T!Idle
<1>16. CASE T!revoke
  <2> PICK result \in T!attempt_revocation(account) : grants' = result.grants
       /\ pc' = [step |-> "persist", request |-> pc.request, outcome |-> result.outcome]
    BY <1>16 DEF T!revoke
  <2>a. result.outcome \in TokenOutcomes /\ (result.outcome \in Dead => account \notin grants') /\ grants' \subseteq grants
    BY DEF T!attempt_revocation
  <2>b. pc.request \in Requests
    BY <1>16 DEF T!revoke
  <2>1. pc' \in [step : {"persist"}, request : Requests, outcome : TokenOutcomes] /\ pc'.outcome = result.outcome
    BY <1>16, <2>a, <2>b DEF T!revoke
  <2>2. TokenTypeOK'
    BY <1>16, <2>a, <2>b, <2>1 DEF T!revoke
  <2>3. (token_keychain \subseteq T!Locators)'
    BY <1>16, <2>a, <2>b, <2>1 DEF T!revoke
  <2>4. (operation # T!NoOperation => reserved[operation.request] = operation.command)'
    BY <1>16, <2>a, <2>b, <2>1 DEF T!revoke
  <2>5. StatusAgrees'
    BY <1>16, <2>a, <2>b, <2>1 DEF T!revoke
  <2>6. StepAgrees'
    BY <1>16, <2>a, <2>b, <2>1 DEF T!revoke
  <2> QED BY <2>2, <2>3, <2>4, <2>5, <2>6
<1>17. CASE T!persist_disconnect_revocation
  BY <1>17 DEF T!persist_disconnect_revocation, T!Goto
<1>18. CASE T!finalize_disconnect
  BY <1>18 DEF T!finalize_disconnect, T!Idle
<1>19. CASE T!Fails
  BY <1>19 DEF T!Fails, T!Return, T!Idle
<1>20. CASE T!RecoveryFails
  BY <1>20 DEF T!RecoveryFails, T!Return, T!Idle
<1>21. CASE T!Restart
  BY <1>21 DEF T!Restart
<1>22. CASE T!reconcile_credentials
  <2>0. pc' = [step |-> "recover"]
    BY <1>22 DEF T!reconcile_credentials, T!Goto
  <2>1. TokenTypeOK'
    BY <1>22, <2>0 DEF T!reconcile_credentials
  <2>2. (token_keychain \subseteq T!Locators)'
    BY <1>22, <2>0 DEF T!reconcile_credentials
  <2>3. (operation # T!NoOperation => reserved[operation.request] = operation.command)'
    BY <1>22, <2>0 DEF T!reconcile_credentials
  <2>4. StatusAgrees'
    BY <1>22, <2>0 DEF T!reconcile_credentials
  <2>5. StepAgrees'
    BY <1>22, <2>0 DEF T!reconcile_credentials
  <2> QED BY <2>1, <2>2, <2>3, <2>4, <2>5
<1>23. CASE T!recover_startup
  <2>1. CASE operation = T!NoOperation
    <3>1. pc' = [step |-> "legacy"] /\ UNCHANGED <<status, operation>>
      BY <1>23, <2>1 DEF T!recover_startup, T!Starting, T!AbortConnect
    <3>2. TokenTypeOK'
      BY <1>23, <2>1, <3>1 DEF T!recover_startup, T!Starting, T!AbortConnect
    <3>3. (token_keychain \subseteq T!Locators)'
      BY <1>23, <2>1, <3>1 DEF T!recover_startup, T!Starting, T!AbortConnect
    <3>4. (operation # T!NoOperation => reserved[operation.request] = operation.command)'
      BY <1>23, <2>1, <3>1 DEF T!recover_startup, T!Starting, T!AbortConnect
    <3>5. StatusAgrees'
      BY <1>23, <2>1, <3>1 DEF T!recover_startup, T!Starting, T!AbortConnect
    <3>6. StepAgrees'
      BY <1>23, <2>1, <3>1 DEF T!recover_startup, T!Starting, T!AbortConnect
    <3> QED BY <3>2, <3>3, <3>4, <3>5, <3>6
  <2>2. CASE operation # T!NoOperation /\ operation.command = "connect" /\ tokens[operation.request] # "absent"
    <3>1. pc' = [step |-> "cleanup", request |-> operation.request, starting |-> TRUE] /\ UNCHANGED <<status, operation>>
      BY <1>23, <2>2 DEF T!recover_startup, T!Starting, T!AbortConnect
    <3>2. TokenTypeOK'
      BY <1>23, <2>2, <3>1 DEF T!recover_startup, T!Starting, T!AbortConnect
    <3>3. (token_keychain \subseteq T!Locators)'
      BY <1>23, <2>2, <3>1 DEF T!recover_startup, T!Starting, T!AbortConnect
    <3>4. (operation # T!NoOperation => reserved[operation.request] = operation.command)'
      BY <1>23, <2>2, <3>1 DEF T!recover_startup, T!Starting, T!AbortConnect
    <3>5. StatusAgrees'
      BY <1>23, <2>2, <3>1 DEF T!recover_startup, T!Starting, T!AbortConnect
    <3>6. StepAgrees'
      BY <1>23, <2>2, <3>1 DEF T!recover_startup, T!Starting, T!AbortConnect
    <3> QED BY <3>2, <3>3, <3>4, <3>5, <3>6
  <2>3. CASE operation # T!NoOperation /\ operation.command = "connect" /\ tokens[operation.request] = "absent"
    <3>1. pc' = [step |-> "legacy"] /\ operation' = T!NoOperation /\ status' = "disconnected"
      BY <1>23, <2>3 DEF T!recover_startup, T!Starting, T!AbortConnect
    <3>2. TokenTypeOK'
      BY <1>23, <2>3, <3>1 DEF T!recover_startup, T!Starting, T!AbortConnect
    <3>3. (token_keychain \subseteq T!Locators)'
      BY <1>23, <2>3, <3>1 DEF T!recover_startup, T!Starting, T!AbortConnect
    <3>4. (operation # T!NoOperation => reserved[operation.request] = operation.command)'
      BY <1>23, <2>3, <3>1 DEF T!recover_startup, T!Starting, T!AbortConnect
    <3>5. StatusAgrees'
      BY <1>23, <2>3, <3>1 DEF T!recover_startup, T!Starting, T!AbortConnect
    <3>6. StepAgrees'
      BY <1>23, <2>3, <3>1 DEF T!recover_startup, T!Starting, T!AbortConnect
    <3> QED BY <3>2, <3>3, <3>4, <3>5, <3>6
  <2>4. CASE operation # T!NoOperation /\ operation.command = "sync"
    <3>1. pc' = [step |-> "legacy"] /\ operation' = T!NoOperation /\ UNCHANGED status
      BY <1>23, <2>4 DEF T!recover_startup, T!Starting, T!AbortConnect
    <3>2. TokenTypeOK'
      BY <1>23, <2>4, <3>1 DEF T!recover_startup, T!Starting, T!AbortConnect
    <3>3. (token_keychain \subseteq T!Locators)'
      BY <1>23, <2>4, <3>1 DEF T!recover_startup, T!Starting, T!AbortConnect
    <3>4. (operation # T!NoOperation => reserved[operation.request] = operation.command)'
      BY <1>23, <2>4, <3>1 DEF T!recover_startup, T!Starting, T!AbortConnect
    <3>5. StatusAgrees'
      BY <1>23, <2>4, <3>1 DEF T!recover_startup, T!Starting, T!AbortConnect
    <3>6. StepAgrees'
      BY <1>23, <2>4, <3>1 DEF T!recover_startup, T!Starting, T!AbortConnect
    <3> QED BY <3>2, <3>3, <3>4, <3>5, <3>6
  <2>5. CASE operation # T!NoOperation /\ operation.command = "disconnect"
    <3>1. \E s \in {"revoke", "delete"} : pc' = [step |-> s, request |-> operation.request, starting |-> TRUE]
      BY <1>23, <2>5 DEF T!recover_startup, T!Starting, T!AbortConnect
    <3>2. UNCHANGED <<status, operation>>
      BY <1>23, <2>5 DEF T!recover_startup, T!Starting, T!AbortConnect
    <3>3. TokenTypeOK'
      BY <1>23, <2>5, <3>1, <3>2 DEF T!recover_startup, T!Starting, T!AbortConnect
    <3>4. (token_keychain \subseteq T!Locators)'
      BY <1>23, <2>5, <3>1, <3>2 DEF T!recover_startup, T!Starting, T!AbortConnect
    <3>5. (operation # T!NoOperation => reserved[operation.request] = operation.command)'
      BY <1>23, <2>5, <3>1, <3>2 DEF T!recover_startup, T!Starting, T!AbortConnect
    <3>6. StatusAgrees'
      BY <1>23, <2>5, <3>1, <3>2 DEF T!recover_startup, T!Starting, T!AbortConnect
    <3>7. StepAgrees'
      BY <1>23, <2>5, <3>1, <3>2 DEF T!recover_startup, T!Starting, T!AbortConnect
    <3> QED BY <3>3, <3>4, <3>5, <3>6, <3>7
  <2> QED BY <2>1, <2>2, <2>3, <2>4, <2>5 DEF TokenOperations
<1>24. CASE T!cleanup_legacy_credentials
  BY <1>24 DEF T!cleanup_legacy_credentials, T!Return, T!Idle
<1>25. CASE T!SetMode
  <2>1. TokenTypeOK'
    BY <1>25 DEF T!SetMode, T!Idle
  <2>2. (token_keychain \subseteq T!Locators)'
    BY <1>25 DEF T!SetMode, T!Idle
  <2>3. (operation # T!NoOperation => reserved[operation.request] = operation.command)'
    BY <1>25 DEF T!SetMode, T!Idle
  <2>4. StatusAgrees'
    BY <1>25 DEF T!SetMode, T!Idle
  <2>5. StepAgrees'
    BY <1>25 DEF T!SetMode, T!Idle
  <2> QED BY <2>1, <2>2, <2>3, <2>4, <2>5
<1>26. ASSUME NEW r \in Requests, T!prepare_core_credential_delete(r) PROVE TokenInv'
  <2>0. pc' \in [step : {"remove"}, request : Requests] /\ pc'.request = r
    BY <1>26 DEF T!prepare_core_credential_delete, T!Idle
  <2>1. TokenTypeOK'
    BY <1>26, <2>0 DEF T!prepare_core_credential_delete, T!Idle
  <2>2. (token_keychain \subseteq T!Locators)'
    BY <1>26, <2>0 DEF T!prepare_core_credential_delete, T!Idle
  <2>3. (operation # T!NoOperation => reserved[operation.request] = operation.command)'
    BY <1>26, <2>0 DEF T!prepare_core_credential_delete, T!Idle
  <2>4. StatusAgrees'
    BY <1>26, <2>0 DEF T!prepare_core_credential_delete, T!Idle
  <2>5. StepAgrees'
    BY <1>26, <2>0 DEF T!prepare_core_credential_delete, T!Idle
  <2> QED BY <2>1, <2>2, <2>3, <2>4, <2>5
<1>27. CASE T!delete
  <2>0. pc' \in [step : {"finish"}, request : Requests] /\ pc'.request = pc.request
    BY <1>27 DEF T!delete, T!Goto
  <2>1. TokenTypeOK'
    BY <1>27, <2>0 DEF T!delete, T!Goto
  <2>2. (token_keychain \subseteq T!Locators)'
    BY <1>27, <2>0 DEF T!delete, T!Goto
  <2>3. (operation # T!NoOperation => reserved[operation.request] = operation.command)'
    BY <1>27, <2>0 DEF T!delete, T!Goto
  <2>4. StatusAgrees'
    BY <1>27, <2>0 DEF T!delete, T!Goto
  <2>5. StepAgrees'
    BY <1>27, <2>0 DEF T!delete, T!Goto
  <2> QED BY <2>1, <2>2, <2>3, <2>4, <2>5
<1>28. CASE T!finish_core_credential_delete
  <2>1. TokenTypeOK'
    BY <1>28 DEF T!finish_core_credential_delete, T!Return, T!Idle
  <2>2. (token_keychain \subseteq T!Locators)'
    BY <1>28 DEF T!finish_core_credential_delete, T!Return, T!Idle
  <2>3. (operation # T!NoOperation => reserved[operation.request] = operation.command)'
    BY <1>28 DEF T!finish_core_credential_delete, T!Return, T!Idle
  <2>4. StatusAgrees'
    BY <1>28 DEF T!finish_core_credential_delete, T!Return, T!Idle
  <2>5. StepAgrees'
    BY <1>28 DEF T!finish_core_credential_delete, T!Return, T!Idle
  <2> QED BY <2>1, <2>2, <2>3, <2>4, <2>5
<1>29. ASSUME NEW r \in Requests, T!reconcile_delete(r) PROVE TokenInv'
  <2>1. TokenTypeOK'
    BY <1>29 DEF T!reconcile_delete
  <2>2. (token_keychain \subseteq T!Locators)'
    BY <1>29 DEF T!reconcile_delete
  <2>3. (operation # T!NoOperation => reserved[operation.request] = operation.command)'
    BY <1>29 DEF T!reconcile_delete
  <2>4. StatusAgrees'
    BY <1>29 DEF T!reconcile_delete
  <2>5. StepAgrees'
    BY <1>29 DEF T!reconcile_delete
  <2> QED BY <2>1, <2>2, <2>3, <2>4, <2>5
<1> QED BY <1>1, <1>2, <1>3, <1>4, <1>5, <1>6, <1>7, <1>8, <1>9, <1>10, <1>11, <1>12, <1>13,
     <1>14, <1>15, <1>16, <1>17, <1>18, <1>19, <1>20, <1>21, <1>22, <1>23, <1>24, <1>25,
     <1>26, <1>27, <1>28, <1>29 DEF T!Next

LEMMA TokenAlways == SpecConnectors => []TokenInv
<1>1. TokenInv /\ [NextConnectors]_allVars => TokenInv'
  <2> SUFFICES ASSUME TokenInv, [NextConnectors]_allVars PROVE TokenInv'
    OBVIOUS
  <2>1. CASE T!Next
    BY <2>1, TokenNext
  <2>2. CASE UNCHANGED tokenVars
    BY <2>2 DEF tokenVars, TokenInv, TokenTypeOK, StatusAgrees, StepAgrees, T!Locators
  <2> QED BY <2>1, <2>2, TokenStep DEF allVars, tokenVars
<1> QED BY <1>1, TokenInit, PTL DEF SpecConnectors

\* A connected account has its token and an active row unless the user removed that credential,
\* and when nothing is under way nothing else is left in the Keychain or in
\* credential_references: for every set of requests, however often connections, disconnections,
\* removals and starts are cut off (connect_gmail, disconnect_gmail, delete_credential_v1,
\* recover_startup).
THEOREM TokensAreAsConnected == SpecConnectors => []TokenAsConnected
<1>1. TokenInv => TokenAsConnected
  <2> SUFFICES ASSUME TokenInv PROVE TokenAsConnected
    OBVIOUS
  <2>1. T!ConnectedHasToken
    BY DEF TokenInv, TokenTypeOK, StatusAgrees, T!ConnectedHasToken, T!Locators
  <2>2. T!NoTokenLeftBehind
    BY DEF TokenInv, TokenTypeOK, StatusAgrees, T!NoTokenLeftBehind
  <2> QED BY <2>1, <2>2 DEF TokenAsConnected
<1> QED BY <1>1, TokenAlways, PTL

\* A disconnection is answered as revoked only when the grant of the account it disconnects is
\* dead, however often it was cut off, resumed or retried in another mode (finalize_disconnect).
THEOREM RevocationsAreHonest == SpecConnectors => RevocationIsHonest
<1> DEFINE Honest == \A r \in Requests :
             (answers'[r] # answers[r] /\ answers'[r] \in Dead) => account \notin grants
<1>1. TokenInv /\ [NextConnectors]_allVars => [Honest]_(T!vars)
  <2> SUFFICES ASSUME TokenInv, [NextConnectors]_allVars, NEW r \in Requests,
                      answers'[r] # answers[r], answers'[r] \in Dead
               PROVE  account \notin grants
    OBVIOUS
  <2> USE DEF TokenInv, TokenTypeOK, Dead
  <2>1. T!Next
    BY TokenStep DEF allVars, tokenVars
  <2>2. CASE T!finalize_disconnect
    <3>1. r = operation.request /\ answers'[r] = operation.revocation
      BY <2>2 DEF T!finalize_disconnect
    <3>2. status = "disconnecting"
      BY <2>2 DEF T!finalize_disconnect, StepAgrees, DisconnectSteps
    <3> QED BY <3>1, <3>2 DEF StatusAgrees
  <2>3. CASE T!commit_new_gmail_operation
    BY <2>3 DEF T!commit_new_gmail_operation
  <2>4. CASE T!commit_gmail_operation
    BY <2>4 DEF T!commit_gmail_operation
  <2>5. CASE UNCHANGED answers
    BY <2>5
  <2>6. T!finalize_disconnect \/ T!commit_new_gmail_operation \/ T!commit_gmail_operation
          \/ UNCHANGED answers
    BY <2>1 DEF T!Next, T!durable, T!save_gmail_settings, T!connect_gmail, T!sync_gmail,
             T!begin_disconnect, T!resume_reserved_disconnect, T!delete_refresh, T!authorize,
             T!reserve_credential, T!put_refresh, T!activate_credential, T!connect_fails,
             T!cleanup_revoke, T!cleanup_failed_connect, T!revoke,
             T!persist_disconnect_revocation, T!Fails, T!RecoveryFails, T!Restart,
             T!reconcile_credentials, T!recover_startup, T!cleanup_legacy_credentials, T!SetMode,
             T!prepare_core_credential_delete, T!delete, T!finish_core_credential_delete,
             T!reconcile_delete
  <2> QED BY <2>2, <2>3, <2>4, <2>5, <2>6
<1>2. RevocationIsHonest <=> [][Honest]_(T!vars)
  BY DEF RevocationIsHonest, T!RevocationIsHonest, Dead
<1> QED BY <1>1, <1>2, TokenAlways, PTL DEF SpecConnectors

-----------------------------------------------------------------------------
(* The PhotoKit connector                                                  *)

EnrollmentRows ==
    [state : {"absent", "pending", "active", "inactive", "removed"}, fence : Nat,
     complete : BOOLEAN, members : SUBSET Assets]
ReconcileSteps == {"enumerate", "materialize", "permit", "promote", "finalize"}
SyncThreads ==
    [step : {"idle", "lock", "recover_lock", "begin", "recover"}]
      \cup [step : {"recover_keys"}, todo : SUBSET K!Epochs]
      \cup [step : ReconcileSteps, epoch : K!Epochs, fence : Nat, observed : SUBSET Assets,
            prepared : SUBSET Assets]
CommandThreads ==
    [step : {"idle"}]
      \cup [step : {"lock", "get", "setup", "configure", "disable"},
            kind : {"get", "setup", "configure", "disable"}]
      \cup [step : {"create_key", "remove", "activate"}, epoch : K!Epochs]

\* What the tables, the Keychain and the threads hold.
PhotoTypeOK ==
    /\ enrollments \in [K!Epochs -> EnrollmentRows]
    /\ connector \in [active : K!Epochs \cup {0},
                      state : {"unconfigured", "ready", "reconciling", "needs_attention"}]
    /\ heads \in [K!Epochs -> [Assets -> {"none", "available", "unavailable"}]]
    /\ materials \subseteq K!Epochs \X Assets
    /\ files \subseteq Assets
    /\ root_keys \subseteq K!Epochs /\ intents \subseteq K!Epochs
    /\ sync \in SyncThreads /\ command \in CommandThreads

\* Who is past its lock has it, and maintenance runs alone.
LocksHold ==
    /\ sync.step \notin {"idle", "lock", "recover_lock"} => mutex = "sync"
    /\ command.step \notin {"idle", "lock"} => mutex = "command"
    /\ sync.step \in {"promote", "finalize"} => "sync" \in readers
    /\ writer = "active" => readers = {}

\* One enrollment is active, the one that the connector names; a command that makes one works
\* on a pending row.
OneIsActive ==
    /\ \A e \in K!Epochs : enrollments[e].state = "active" <=> connector.active = e
    /\ command.step \in {"create_key", "remove", "activate"} =>
         enrollments[command.epoch].state = "pending"

\* What a reconciliation has read: nothing takes the stored files from it, and whatever was
\* done to its enrollment since has moved the fence on or ended the enrollment for good.
ReconciliationIsFenced ==
    sync.step \in ReconcileSteps =>
      /\ sync.step \notin {"enumerate", "materialize"} => sync.prepared \subseteq sync.observed
      /\ sync.step = "finalize" => sync.prepared \subseteq files
      /\ enrollments[sync.epoch].state \in {"active", "inactive", "removed"}
      /\ enrollments[sync.epoch].state = "active" => enrollments[sync.epoch].fence >= sync.fence
      /\ sync.epoch \in disturbed /\ enrollments[sync.epoch].state = "active" =>
           enrollments[sync.epoch].fence > sync.fence

PhotoInv ==
    /\ PhotoTypeOK
    /\ LocksHold
    /\ OneIsActive
    /\ ReconciliationIsFenced
    /\ EnrollmentsAreReal

LEMMA PhotoStep == NextConnectors => K!Next \/ UNCHANGED photoVars
  BY DEF NextConnectors, photoVars

LEMMA PhotoInit == InitConnectors => PhotoInv
<1> SUFFICES ASSUME InitConnectors PROVE PhotoInv
  OBVIOUS
<1>1. K!Init
  BY DEF InitConnectors
<1>2. \A e \in K!Epochs : enrollments[e] = K!Unreserved /\ e # 0
  BY <1>1 DEF K!Init, K!Epochs
<1>3. K!Unreserved \in EnrollmentRows
  BY DEF K!Unreserved, EnrollmentRows
<1>4. PhotoTypeOK
  BY <1>1, <1>3 DEF K!Init, PhotoTypeOK, SyncThreads, CommandThreads, K!Idle, K!Nothing
<1>5. LocksHold
  BY <1>1 DEF K!Init, LocksHold, K!Idle
<1>6. OneIsActive /\ ReconciliationIsFenced
  BY <1>1, <1>2 DEF K!Init, OneIsActive, ReconciliationIsFenced, ReconcileSteps, K!Idle, K!Nothing,
                 K!Unreserved
<1>7. EnrollmentsAreReal
  BY <1>1 DEF K!Init, EnrollmentsAreReal, K!EnrollmentsAreReal
<1> QED BY <1>4, <1>5, <1>6, <1>7 DEF PhotoInv

LEMMA InactivatedRows ==
    ASSUME enrollments \in [K!Epochs -> EnrollmentRows], NEW o \in K!Epochs
    PROVE  LET others == [enrollments EXCEPT ![o].state = "inactive", ![o].fence = @ + 1] IN
           /\ others \in [K!Epochs -> EnrollmentRows]
           /\ others[o].state = "inactive"
           /\ \A d \in K!Epochs \ {o} : others[d] = enrollments[d]
<1> DEFINE y == [enrollments EXCEPT ![o].state = "inactive"]
           others == [y EXCEPT ![o].fence = @ + 1]
<1>1. /\ y \in [K!Epochs -> EnrollmentRows]
      /\ y[o].state = "inactive"
      /\ \A d \in K!Epochs \ {o} : y[d] = enrollments[d]
  BY DEF EnrollmentRows
<1> HIDE DEF y
<1>2. /\ others \in [K!Epochs -> EnrollmentRows]
      /\ others[o].state = "inactive"
      /\ \A d \in K!Epochs \ {o} : others[d] = enrollments[d]
  BY <1>1 DEF EnrollmentRows
<1> QED BY <1>2 DEF y

\* One step per action.
LEMMA PhotoNext == PhotoInv /\ K!Next => PhotoInv'
<1> SUFFICES ASSUME PhotoInv, K!Next PROVE PhotoInv'
  OBVIOUS
<1>a. PhotoTypeOK /\ LocksHold /\ OneIsActive /\ ReconciliationIsFenced /\ EnrollmentsAreReal
  BY DEF PhotoInv
<1>1. CASE K!sync_photokit_v1
  BY <1>1 DEF K!sync_photokit_v1, K!Idle, PhotoInv, PhotoTypeOK, LocksHold, OneIsActive,
       ReconciliationIsFenced, EnrollmentsAreReal, K!EnrollmentsAreReal, K!Active, K!rows,
       K!outside, K!locks, SyncThreads, CommandThreads, ReconcileSteps, EnrollmentRows
<1>2. CASE K!sync_lock
  BY <1>2 DEF K!sync_lock, K!SyncTo, PhotoInv, PhotoTypeOK, LocksHold, OneIsActive,
       ReconciliationIsFenced, EnrollmentsAreReal, K!EnrollmentsAreReal, K!Active, K!rows,
       K!outside, K!locks, SyncThreads, CommandThreads, ReconcileSteps, EnrollmentRows
<1>3. CASE K!recovered
  <2>1. /\ mutex' = "free" /\ mutex = "sync" /\ sync' \in [step : {"idle", "lock"}]
        /\ UNCHANGED <<enrollments, connector, heads, materials, intents, files, root_keys, command,
                       readers, writer, disturbed>>
    BY <1>a, <1>3 DEF K!recovered, K!Idle, K!rows, K!outside, LocksHold
  <2> QED BY <1>a, <2>1 DEF PhotoInv, PhotoTypeOK, LocksHold, OneIsActive, ReconciliationIsFenced,
          EnrollmentsAreReal, K!EnrollmentsAreReal, K!Active, SyncThreads, ReconcileSteps
<1>4. ASSUME NEW observed \in SUBSET Assets, K!record_observations(observed) PROVE PhotoInv'
  <2> DEFINE Reading(step) == [step : {step}, epoch : K!Epochs, fence : Nat,
                               observed : SUBSET Assets, prepared : SUBSET Assets]
  <2>1. /\ sync \in Reading("enumerate")
        /\ sync' = [sync EXCEPT !.step = "materialize", !.observed = observed]
        /\ UNCHANGED <<enrollments, connector, heads, materials, intents, files, root_keys, command,
                       mutex, readers, writer, disturbed>>
    BY <1>a, <1>4 DEF K!record_observations, K!rows, K!outside, K!locks, PhotoTypeOK, SyncThreads,
       ReconcileSteps
  <2>2. /\ sync' \in Reading("materialize")
        /\ sync'.epoch = sync.epoch /\ sync'.fence = sync.fence
    BY <2>1
  <2>3. sync' \in SyncThreads
    BY <2>2 DEF SyncThreads, ReconcileSteps
  <2> QED BY <1>a, <2>1, <2>2, <2>3 DEF PhotoInv, PhotoTypeOK, LocksHold, OneIsActive,
          ReconciliationIsFenced, EnrollmentsAreReal, K!EnrollmentsAreReal, K!Active, ReconcileSteps
<1>5. ASSUME NEW prepared \in SUBSET Assets, K!materialize(prepared) PROVE PhotoInv'
  <2> DEFINE Reading(step) == [step : {step}, epoch : K!Epochs, fence : Nat,
                               observed : SUBSET Assets, prepared : SUBSET Assets]
  <2>1. /\ sync \in Reading("materialize")
        /\ sync' = [sync EXCEPT !.step = "permit", !.prepared = prepared]
        /\ prepared \subseteq sync.observed
        /\ UNCHANGED <<enrollments, connector, heads, materials, intents, files, root_keys, command,
                       mutex, readers, writer, disturbed>>
    BY <1>a, <1>5 DEF K!materialize, K!rows, K!outside, K!locks, PhotoTypeOK, SyncThreads,
       ReconcileSteps
  <2>2. /\ sync' \in Reading("permit")
        /\ sync'.epoch = sync.epoch /\ sync'.fence = sync.fence
        /\ sync'.prepared \subseteq sync'.observed
    BY <2>1
  <2>3. sync' \in SyncThreads
    BY <2>2 DEF SyncThreads, ReconcileSteps
  <2> QED BY <1>a, <2>1, <2>2, <2>3 DEF PhotoInv, PhotoTypeOK, LocksHold, OneIsActive,
          ReconciliationIsFenced, EnrollmentsAreReal, K!EnrollmentsAreReal, K!Active, ReconcileSteps
<1>6. CASE K!sync_permit
  BY <1>6 DEF K!sync_permit, K!MayShare, K!SyncTo, PhotoInv, PhotoTypeOK, LocksHold, OneIsActive,
       ReconciliationIsFenced, EnrollmentsAreReal, K!EnrollmentsAreReal, K!Active, K!rows,
       K!outside, K!locks, SyncThreads, CommandThreads, ReconcileSteps, EnrollmentRows
<1>7. CASE K!promote_prepared
  BY <1>7 DEF K!promote_prepared, K!SyncTo, PhotoInv, PhotoTypeOK, LocksHold, OneIsActive,
       ReconciliationIsFenced, EnrollmentsAreReal, K!EnrollmentsAreReal, K!Active, K!rows,
       K!outside, K!locks, SyncThreads, CommandThreads, ReconcileSteps, EnrollmentRows
<1>8. CASE K!sync_fails
  BY <1>8 DEF K!sync_fails, K!SyncEnds, K!Idle, PhotoInv, PhotoTypeOK, LocksHold, OneIsActive,
       ReconciliationIsFenced, EnrollmentsAreReal, K!EnrollmentsAreReal, K!Active, K!rows,
       K!outside, K!locks, SyncThreads, CommandThreads, ReconcileSteps, EnrollmentRows
<1>9. ASSUME NEW kind \in {"get", "setup", "configure", "disable"}, K!execute_photokit_command(kind) PROVE PhotoInv'
  BY <1>9 DEF K!execute_photokit_command, K!Idle, K!MayShare, PhotoInv, PhotoTypeOK, LocksHold,
       OneIsActive, ReconciliationIsFenced, EnrollmentsAreReal, K!EnrollmentsAreReal, K!Active,
       K!rows, K!outside, K!locks, SyncThreads, CommandThreads, ReconcileSteps, EnrollmentRows
<1>10. CASE K!command_lock
  BY <1>10 DEF K!command_lock, K!CommandTo, PhotoInv, PhotoTypeOK, LocksHold, OneIsActive,
       ReconciliationIsFenced, EnrollmentsAreReal, K!EnrollmentsAreReal, K!Active, K!rows,
       K!outside, K!locks, SyncThreads, CommandThreads, ReconcileSteps, EnrollmentRows
<1>11. CASE K!snapshot
  BY <1>11 DEF K!snapshot, K!CommandEnds, K!Idle, PhotoInv, PhotoTypeOK, LocksHold, OneIsActive,
       ReconciliationIsFenced, EnrollmentsAreReal, K!EnrollmentsAreReal, K!Active, K!rows,
       K!outside, K!locks, SyncThreads, CommandThreads, ReconcileSteps, EnrollmentRows
<1>12. CASE K!begin_setup
  BY <1>12 DEF K!begin_setup, K!CommandEnds, K!Idle, PhotoInv, PhotoTypeOK, LocksHold,
       OneIsActive, ReconciliationIsFenced, EnrollmentsAreReal, K!EnrollmentsAreReal, K!Active,
       K!rows, K!outside, K!locks, SyncThreads, CommandThreads, ReconcileSteps, EnrollmentRows
<1>13. CASE K!command_fails
  BY <1>13 DEF K!command_fails, K!CommandEnds, K!Idle, PhotoInv, PhotoTypeOK, LocksHold,
       OneIsActive, ReconciliationIsFenced, EnrollmentsAreReal, K!EnrollmentsAreReal, K!Active,
       K!rows, K!outside, K!locks, SyncThreads, CommandThreads, ReconcileSteps, EnrollmentRows
<1>14. CASE K!acquire_exclusive
  BY <1>14 DEF K!acquire_exclusive, PhotoInv, PhotoTypeOK, LocksHold, OneIsActive,
       ReconciliationIsFenced, EnrollmentsAreReal, K!EnrollmentsAreReal, K!Active, K!rows,
       K!outside, K!locks, SyncThreads, CommandThreads, ReconcileSteps, EnrollmentRows
<1>15. CASE K!exclusive_granted
  BY <1>15 DEF K!exclusive_granted, PhotoInv, PhotoTypeOK, LocksHold, OneIsActive,
       ReconciliationIsFenced, EnrollmentsAreReal, K!EnrollmentsAreReal, K!Active, K!rows,
       K!outside, K!locks, SyncThreads, CommandThreads, ReconcileSteps, EnrollmentRows
<1>16. CASE K!release_exclusive
  BY <1>16 DEF K!release_exclusive, PhotoInv, PhotoTypeOK, LocksHold, OneIsActive,
       ReconciliationIsFenced, EnrollmentsAreReal, K!EnrollmentsAreReal, K!Active, K!rows,
       K!outside, K!locks, SyncThreads, CommandThreads, ReconcileSteps, EnrollmentRows
<1>17. CASE K!Restart
  BY <1>17 DEF K!Restart, K!Idle, PhotoInv, PhotoTypeOK, LocksHold, OneIsActive,
       ReconciliationIsFenced, EnrollmentsAreReal, K!EnrollmentsAreReal, K!Active, K!rows,
       K!outside, K!locks, SyncThreads, CommandThreads, ReconcileSteps, EnrollmentRows
<1>18. ASSUME NEW a \in Assets, K!collect_unowned_blob(a) PROVE PhotoInv'
  BY <1>18 DEF K!collect_unowned_blob, K!Owned, PhotoInv, PhotoTypeOK, LocksHold, OneIsActive,
       ReconciliationIsFenced, EnrollmentsAreReal, K!EnrollmentsAreReal, K!Active, K!rows,
       K!outside, K!locks, SyncThreads, CommandThreads, ReconcileSteps, EnrollmentRows
<1>19. CASE K!create_root_key
  BY <1>19 DEF K!create_root_key, K!CommandTo, PhotoInv, PhotoTypeOK, LocksHold, OneIsActive,
       ReconciliationIsFenced, EnrollmentsAreReal, K!EnrollmentsAreReal, K!Active, K!rows,
       K!outside, K!locks, SyncThreads, CommandThreads, ReconcileSteps, EnrollmentRows
<1>20. CASE K!recover_operations
  BY <1>20 DEF K!recover_operations, K!Active, K!Nothing, PhotoInv, PhotoTypeOK, LocksHold,
       OneIsActive, ReconciliationIsFenced, EnrollmentsAreReal, K!EnrollmentsAreReal, K!Active,
       K!rows, K!outside, K!locks, SyncThreads, CommandThreads, ReconcileSteps, EnrollmentRows
<1>21. ASSUME NEW e \in K!Epochs, K!recover_key(e) PROVE PhotoInv'
  <2>1. /\ sync \in [step : {"recover_keys"}, todo : SUBSET K!Epochs]
        /\ sync' = [sync EXCEPT !.todo = @ \ {e}]
        /\ UNCHANGED <<connector, heads, materials, files, command, mutex, readers, writer, disturbed>>
    BY <1>a, <1>21 DEF K!recover_key, PhotoTypeOK, SyncThreads, ReconcileSteps, K!locks
  <2>2. sync' \in [step : {"recover_keys"}, todo : SUBSET K!Epochs]
    BY <2>1
  <2>3. mutex = "sync" /\ command.step \in {"idle", "lock"}
    BY <1>a, <2>1 DEF LocksHold, PhotoTypeOK, CommandThreads
  <2>4. CASE UNCHANGED <<root_keys, intents, enrollments>>
    BY <1>a, <2>1, <2>2, <2>3, <2>4 DEF PhotoInv, PhotoTypeOK, LocksHold, OneIsActive,
       ReconciliationIsFenced, ReconcileSteps, EnrollmentsAreReal, K!EnrollmentsAreReal, K!Active,
       SyncThreads
  <2>5. CASE root_keys' = root_keys \ {e} /\ intents' = intents \ {e} /\ UNCHANGED enrollments
    BY <1>a, <2>1, <2>2, <2>3, <2>5 DEF PhotoInv, PhotoTypeOK, LocksHold, OneIsActive,
       ReconciliationIsFenced, ReconcileSteps, EnrollmentsAreReal, K!EnrollmentsAreReal, K!Active,
       SyncThreads
  <2>6. CASE /\ root_keys' = root_keys \ {e} /\ intents' = intents \ {e}
             /\ enrollments[e].state = "pending"
             /\ enrollments' = [enrollments EXCEPT ![e].state = "removed"]
    <3>1. /\ enrollments' \in [K!Epochs -> EnrollmentRows]
          /\ enrollments'[e].state = "removed"
          /\ \A d \in K!Epochs \ {e} : enrollments'[d] = enrollments[d]
      BY <1>a, <2>6 DEF PhotoTypeOK, EnrollmentRows
    <3> QED BY <1>a, <2>1, <2>2, <2>3, <2>6, <3>1 DEF PhotoInv, PhotoTypeOK, LocksHold, OneIsActive,
       ReconciliationIsFenced, ReconcileSteps, EnrollmentsAreReal, K!EnrollmentsAreReal, K!Active,
       SyncThreads
  <2> QED BY <1>21, <2>4, <2>5, <2>6 DEF K!recover_key
<1>22. CASE K!begin_operation
  <2> DEFINE e == connector.active
             n == enrollments[e].fence + 1
  <2>1. /\ e \in K!Epochs /\ enrollments[e].state = "active"
        /\ enrollments' = [enrollments EXCEPT ![e].fence = @ + 1]
        /\ sync' = [step |-> "enumerate", epoch |-> e, fence |-> n, observed |-> {}, prepared |-> {}]
        /\ connector' = [connector EXCEPT !.state = "reconciling"]
        /\ disturbed' = {}
        /\ UNCHANGED <<heads, materials, intents, files, root_keys, command, mutex, readers, writer>>
        /\ sync.step = "begin"
    BY <1>a, <1>22 DEF K!begin_operation, K!Active, K!Nothing, PhotoTypeOK, K!outside, K!locks
  <2>2. /\ enrollments' \in [K!Epochs -> EnrollmentRows] /\ n \in Nat
        /\ enrollments'[e].fence = n
        /\ \A d \in K!Epochs : /\ enrollments'[d].state = enrollments[d].state
                               /\ enrollments'[d].complete = enrollments[d].complete
                               /\ enrollments'[d].members = enrollments[d].members
    BY <1>a, <2>1 DEF PhotoTypeOK, EnrollmentRows
  <2>3. /\ connector' \in [active : K!Epochs \cup {0},
                           state : {"unconfigured", "ready", "reconciling", "needs_attention"}]
        /\ connector'.active = e
    BY <1>a, <2>1 DEF PhotoTypeOK
  <2> HIDE DEF e, n
  <2>4. sync' \in SyncThreads
    BY <2>1, <2>2 DEF SyncThreads, ReconcileSteps
  <2>5. PhotoTypeOK'
    BY <1>a, <2>1, <2>2, <2>3, <2>4 DEF PhotoTypeOK
  <2>6. LocksHold'
    BY <1>a, <2>1 DEF LocksHold
  <2>7. OneIsActive'
    BY <1>a, <2>1, <2>2, <2>3 DEF OneIsActive, e
  <2>8. ReconciliationIsFenced'
    BY <2>1, <2>2 DEF ReconciliationIsFenced, ReconcileSteps
  <2>9. EnrollmentsAreReal'
    BY <1>a, <2>1, <2>2, <2>3 DEF EnrollmentsAreReal, K!EnrollmentsAreReal, K!Active, PhotoTypeOK, e
  <2> QED BY <2>5, <2>6, <2>7, <2>8, <2>9 DEF PhotoInv
<1>23. CASE K!finalize_complete
  <2> DEFINE e == sync.epoch
  <2>1. /\ sync.step = "finalize" /\ e \in K!Epochs
        /\ sync.observed \subseteq Assets /\ sync.prepared \subseteq sync.observed
        /\ sync.prepared \subseteq files
        /\ connector.active = e /\ enrollments[e].state = "active"
        /\ enrollments' = [enrollments EXCEPT ![e].complete = TRUE, ![e].members = sync.observed]
        /\ materials' = materials \cup {<<e, a>> : a \in sync.prepared}
        /\ connector' = [connector EXCEPT !.state = "ready"]
        /\ sync' = [step |-> "idle"] /\ mutex' = "free" /\ readers' = readers \ {"sync"}
        /\ UNCHANGED <<intents, files, root_keys, command, writer, disturbed>>
        /\ command.step \in {"idle", "lock"}
    BY <1>a, <1>23 DEF K!finalize_complete, K!ensure_current_operation, K!Active, K!SyncEnds,
         K!Idle,
       PhotoTypeOK, SyncThreads, ReconcileSteps, ReconciliationIsFenced, LocksHold, K!outside
  <2>2. /\ enrollments' \in [K!Epochs -> EnrollmentRows]
        /\ enrollments'[e].members = sync.observed
        /\ \A d \in K!Epochs : enrollments'[d].state = enrollments[d].state
        /\ \A d \in K!Epochs \ {e} : enrollments'[d] = enrollments[d]
    <3> DEFINE x == [enrollments[e] EXCEPT !.complete = TRUE, !.members = sync.observed]
    <3>1. enrollments' = [enrollments EXCEPT ![e] = x]
      BY <2>1
    <3> HIDE DEF e
    <3>2. enrollments[e] \in EnrollmentRows
      BY <1>a, <2>1 DEF PhotoTypeOK
    <3>3. x \in EnrollmentRows /\ x.members = sync.observed /\ x.state = enrollments[e].state
      BY <2>1, <3>2 DEF EnrollmentRows
    <3>4. e \in K!Epochs /\ enrollments \in [K!Epochs -> EnrollmentRows]
      BY <1>a, <2>1 DEF PhotoTypeOK
    <3> HIDE DEF x
    <3> QED BY <3>1, <3>3, <3>4
  <2>3. /\ connector' \in [active : K!Epochs \cup {0},
                           state : {"unconfigured", "ready", "reconciling", "needs_attention"}]
        /\ connector'.active = e
    BY <1>a, <2>1 DEF PhotoTypeOK
  <2>4. /\ heads' \in [K!Epochs -> [Assets -> {"none", "available", "unavailable"}]]
        /\ \A d \in K!Epochs \ {e} : heads'[d] = heads[d]
        /\ \A a \in Assets : heads'[e][a] = "available" => a \in sync.prepared
    <3> DEFINE gone == K!active_generation_assets(e) \ sync.observed
               h == [a \in Assets |->
                       CASE a \in sync.prepared -> "available"
                         [] a \in (sync.observed \ sync.prepared) \cup gone -> "unavailable"
                         [] OTHER -> heads[e][a]]
    <3>1. heads' = [heads EXCEPT ![e] = h]
      BY <1>23 DEF K!finalize_complete
    <3>2. \A a \in Assets : heads[e][a] = "available" /\ a \notin sync.observed => a \in gone
      BY <1>a, <2>1 DEF EnrollmentsAreReal, K!EnrollmentsAreReal, K!active_generation_assets,
         K!HeadAssets
    <3>3. heads[e] \in [Assets -> {"none", "available", "unavailable"}]
      BY <1>a, <2>1 DEF PhotoTypeOK
    <3> HIDE DEF gone
    <3>4. h \in [Assets -> {"none", "available", "unavailable"}]
      BY <3>3
    <3>5. \A a \in Assets : h[a] = "available" => a \in sync.prepared
      BY <2>1, <3>2, <3>3
    <3> HIDE DEF h
    <3> QED BY <1>a, <2>1, <3>1, <3>4, <3>5 DEF PhotoTypeOK
  <2> HIDE DEF e
  <2>5. PhotoTypeOK'
    BY <1>a, <2>1, <2>2, <2>3, <2>4 DEF PhotoTypeOK, SyncThreads
  <2>6. LocksHold'
    BY <1>a, <2>1 DEF LocksHold
  <2>7. OneIsActive'
    BY <1>a, <2>1, <2>2, <2>3 DEF OneIsActive
  <2>8. ReconciliationIsFenced'
    BY <2>1 DEF ReconciliationIsFenced, ReconcileSteps
  <2>9. EnrollmentsAreReal'
    BY <1>a, <2>1, <2>2, <2>3, <2>4 DEF EnrollmentsAreReal, K!EnrollmentsAreReal, K!Active,
       PhotoTypeOK
  <2> QED BY <2>5, <2>6, <2>7, <2>8, <2>9 DEF PhotoInv
<1>24. CASE K!finalize_global_unavailable
  <2> DEFINE e == sync.epoch
  <2>1. /\ e \in K!Epochs /\ connector' = [connector EXCEPT !.state = connector'.state]
        /\ connector'.state \in {"ready", "needs_attention"}
        /\ sync' = [step |-> "idle"] /\ mutex' = "free" /\ readers' = readers \ {"sync"}
        /\ UNCHANGED <<enrollments, materials, intents, files, root_keys, command, writer, disturbed>>
        /\ command.step \in {"idle", "lock"}
        /\ heads' = heads \/ heads' = K!Hide(e, K!HeadAssets(e))
    BY <1>a, <1>24 DEF K!finalize_global_unavailable, K!SyncEnds, K!Idle, PhotoTypeOK, SyncThreads,
       ReconcileSteps, LocksHold, K!outside
  <2>2. /\ connector' \in [active : K!Epochs \cup {0},
                           state : {"unconfigured", "ready", "reconciling", "needs_attention"}]
        /\ connector'.active = connector.active
    BY <1>a, <2>1 DEF PhotoTypeOK
  <2>3. /\ heads' \in [K!Epochs -> [Assets -> {"none", "available", "unavailable"}]]
        /\ \A d \in K!Epochs, a \in Assets : heads'[d][a] = "available" => heads[d][a] = "available"
    <3>1. CASE heads' = heads
      BY <1>a, <3>1 DEF PhotoTypeOK
    <3>2. CASE heads' = K!Hide(e, K!HeadAssets(e))
      <4> DEFINE h == [a \in Assets |->
                 IF a \in K!HeadAssets(e) /\ heads[e][a] # "none" THEN "unavailable"
                 ELSE heads[e][a]]
      <4>1. heads' = [heads EXCEPT ![e] = h]
        BY <3>2 DEF K!Hide
      <4>2. heads[e] \in [Assets -> {"none", "available", "unavailable"}]
        BY <1>a, <2>1 DEF PhotoTypeOK
      <4>3. /\ h \in [Assets -> {"none", "available", "unavailable"}]
            /\ \A a \in Assets : h[a] = "available" => heads[e][a] = "available"
        BY <4>2
      <4> HIDE DEF h, e
      <4> QED BY <1>a, <2>1, <4>1, <4>3 DEF PhotoTypeOK
    <3> QED BY <2>1, <3>1, <3>2
  <2> HIDE DEF e
  <2>5. PhotoTypeOK'
    BY <1>a, <2>1, <2>2, <2>3 DEF PhotoTypeOK, SyncThreads
  <2>6. LocksHold'
    BY <1>a, <2>1 DEF LocksHold
  <2>7. OneIsActive'
    BY <1>a, <2>1, <2>2 DEF OneIsActive
  <2>8. ReconciliationIsFenced'
    BY <2>1 DEF ReconciliationIsFenced, ReconcileSteps
  <2>9. EnrollmentsAreReal'
    BY <1>a, <2>1, <2>2, <2>3 DEF EnrollmentsAreReal, K!EnrollmentsAreReal, K!Active
  <2> QED BY <2>5, <2>6, <2>7, <2>8, <2>9 DEF PhotoInv
<1>25. ASSUME NEW e \in K!Epochs, K!reserve_enrollment(e) PROVE PhotoInv'
  <2>1. /\ enrollments[e].state = "absent"
        /\ enrollments' = [enrollments EXCEPT ![e].state = "pending"]
        /\ command.step = "configure" /\ command' = [step |-> "create_key", epoch |-> e]
        /\ UNCHANGED <<connector, heads, materials, intents, files, root_keys, sync, mutex, readers,
                       writer, disturbed>>
    BY <1>25 DEF K!reserve_enrollment, K!outside, K!locks
  <2>2. /\ enrollments' \in [K!Epochs -> EnrollmentRows]
        /\ enrollments'[e].state = "pending"
        /\ \A d \in K!Epochs \ {e} : enrollments'[d] = enrollments[d]
    BY <1>a, <2>1 DEF PhotoTypeOK, EnrollmentRows
  <2>3. PhotoTypeOK'
    BY <1>a, <2>1, <2>2 DEF PhotoTypeOK, CommandThreads
  <2>4. LocksHold'
    BY <1>a, <2>1 DEF LocksHold
  <2>5. OneIsActive'
    BY <1>a, <2>1, <2>2 DEF OneIsActive
  <2>6. ReconciliationIsFenced'
    BY <1>a, <2>1, <2>2 DEF ReconciliationIsFenced, ReconcileSteps, LocksHold
  <2>7. EnrollmentsAreReal'
    BY <1>a, <2>1, <2>2 DEF EnrollmentsAreReal, K!EnrollmentsAreReal, K!Active, PhotoTypeOK
  <2> QED BY <2>3, <2>4, <2>5, <2>6, <2>7 DEF PhotoInv
<1>26. CASE K!remove_pending_enrollment
  <2> DEFINE e == command.epoch
  <2>1. /\ e \in K!Epochs /\ enrollments[e].state = "pending"
        /\ enrollments' = [enrollments EXCEPT ![e].state = "removed"]
        /\ intents' = intents \cup {e}
        /\ command' = [step |-> "idle"] /\ mutex' = "free" /\ readers' = readers \ {"command"}
        /\ UNCHANGED <<connector, heads, materials, files, root_keys, sync, writer, disturbed>>
        /\ sync.step \in {"idle", "lock", "recover_lock"}
    BY <1>a, <1>26 DEF K!remove_pending_enrollment, K!CommandEnds, K!Idle, PhotoTypeOK,
         CommandThreads,
       OneIsActive, LocksHold, K!outside
  <2> HIDE DEF e
  <2>2. /\ enrollments' \in [K!Epochs -> EnrollmentRows]
        /\ enrollments'[e].state = "removed"
        /\ \A d \in K!Epochs \ {e} : enrollments'[d] = enrollments[d]
    BY <1>a, <2>1 DEF PhotoTypeOK, EnrollmentRows
  <2>3. PhotoTypeOK'
    BY <1>a, <2>1, <2>2 DEF PhotoTypeOK, CommandThreads
  <2>4. LocksHold'
    BY <1>a, <2>1 DEF LocksHold
  <2>5. OneIsActive'
    BY <1>a, <2>1, <2>2 DEF OneIsActive
  <2>6. ReconciliationIsFenced'
    BY <1>a, <2>1, <2>2 DEF ReconciliationIsFenced, ReconcileSteps
  <2>7. EnrollmentsAreReal'
    BY <1>a, <2>1, <2>2 DEF EnrollmentsAreReal, K!EnrollmentsAreReal, K!Active, PhotoTypeOK
  <2> QED BY <2>3, <2>4, <2>5, <2>6, <2>7 DEF PhotoInv
<1>27. CASE K!activate_enrollment
  <2> DEFINE e == command.epoch
             o == connector.active
  <2>1. /\ e \in K!Epochs /\ enrollments[e].state = "pending" /\ e # o
        /\ connector' = [active |-> e, state |-> "ready"]
        /\ disturbed' = disturbed \cup {o}
        /\ command' = [step |-> "idle"] /\ mutex' = "free" /\ readers' = readers \ {"command"}
        /\ UNCHANGED <<materials, intents, files, root_keys, sync, writer>>
        /\ sync.step \in {"idle", "lock", "recover_lock"}
    BY <1>a, <1>27 DEF K!activate_enrollment, K!CommandEnds, K!Idle, K!Active, PhotoTypeOK,
       CommandThreads, OneIsActive, LocksHold, K!outside
  <2>2. /\ enrollments' \in [K!Epochs -> EnrollmentRows]
        /\ enrollments'[e].state = "active"
        /\ o \in K!Epochs => enrollments'[o].state = "inactive"
        /\ \A d \in K!Epochs \ {e, o} : enrollments'[d] = enrollments[d]
    <3>1. CASE o = 0
      <4>1. enrollments' = [enrollments EXCEPT ![e].state = "active"]
        BY <1>27, <3>1 DEF K!activate_enrollment, K!Active, K!Nothing
      <4> QED BY <1>a, <2>1, <3>1, <4>1 DEF PhotoTypeOK, EnrollmentRows, K!Epochs
    <3>2. CASE o # 0
      <4> DEFINE others == [enrollments EXCEPT ![o].state = "inactive", ![o].fence = @ + 1]
      <4>1. enrollments' = [others EXCEPT ![e].state = "active"]
        BY <1>27, <3>2 DEF K!activate_enrollment, K!Active, K!Nothing, K!Inactivated
      <4>2. /\ others \in [K!Epochs -> EnrollmentRows] /\ o \in K!Epochs
            /\ others[o].state = "inactive"
            /\ \A d \in K!Epochs \ {o} : others[d] = enrollments[d]
        BY <1>a, <3>2, InactivatedRows DEF PhotoTypeOK
      <4> HIDE DEF others, o, e
      <4> QED BY <2>1, <4>1, <4>2 DEF EnrollmentRows
    <3> QED BY <3>1, <3>2
  <2>a. \A d \in K!Epochs : d # 0
    BY DEF K!Epochs
  <2>3. \A a \in Assets : (heads[o][a] = "available" /\ o \in K!Epochs) =>
           a \in K!active_generation_assets(o)
    BY <1>a DEF EnrollmentsAreReal, K!EnrollmentsAreReal, K!active_generation_assets, K!HeadAssets
  <2>4. /\ heads' \in [K!Epochs -> [Assets -> {"none", "available", "unavailable"}]]
        /\ \A d \in K!Epochs, a \in Assets : heads'[d][a] # "available"
    <3>1. \A d \in K!Epochs \ {o}, a \in Assets : heads[d][a] # "available"
      BY <1>a DEF EnrollmentsAreReal, K!EnrollmentsAreReal, K!Active
    <3>2. CASE o = 0
      BY <1>a, <1>27, <2>a, <3>1, <3>2 DEF K!activate_enrollment, K!Active, K!Nothing, PhotoTypeOK
    <3>3. CASE o \in K!Epochs
      <4> DEFINE h == [a \in Assets |->
                 IF a \in K!active_generation_assets(o) /\ heads[o][a] # "none" THEN "unavailable"
                 ELSE heads[o][a]]
      <4>1. heads' = [heads EXCEPT ![o] = h]
        BY <1>27, <2>a, <3>3 DEF K!activate_enrollment, K!Active, K!Nothing, K!Hide
      <4>2. heads[o] \in [Assets -> {"none", "available", "unavailable"}]
        BY <1>a, <3>3 DEF PhotoTypeOK
      <4>3. /\ h \in [Assets -> {"none", "available", "unavailable"}]
            /\ \A a \in Assets : h[a] # "available"
        BY <2>3, <3>3, <4>2
      <4> HIDE DEF h
      <4> QED BY <1>a, <3>1, <3>3, <4>1, <4>3 DEF PhotoTypeOK
    <3> QED BY <1>a, <3>2, <3>3 DEF PhotoTypeOK
  <2> HIDE DEF e, o
  <2>5. PhotoTypeOK'
    BY <1>a, <2>1, <2>2, <2>3, <2>4 DEF PhotoTypeOK, CommandThreads
  <2>6. LocksHold'
    BY <1>a, <2>1 DEF LocksHold
  <2>7. OneIsActive'
    BY <1>a, <2>1, <2>2 DEF OneIsActive, PhotoTypeOK, o
  <2>8. ReconciliationIsFenced'
    BY <1>a, <2>1, <2>2 DEF ReconciliationIsFenced, ReconcileSteps
  <2>9. EnrollmentsAreReal'
    BY <1>a, <2>1, <2>2, <2>3, <2>4 DEF EnrollmentsAreReal, K!EnrollmentsAreReal, K!Active,
       PhotoTypeOK, OneIsActive
  <2> QED BY <2>5, <2>6, <2>7, <2>8, <2>9 DEF PhotoInv
<1>28. CASE K!disable_command
  <2> DEFINE o == connector.active
  <2>1. /\ o \in K!Epochs
        /\ enrollments' = [enrollments EXCEPT ![o].state = "inactive", ![o].fence = @ + 1]
        /\ connector' = [active |-> 0, state |-> "unconfigured"]
        /\ disturbed' = disturbed \cup {o}
        /\ command' = [step |-> "idle"] /\ mutex' = "free" /\ readers' = readers \ {"command"}
        /\ UNCHANGED <<materials, intents, files, root_keys, sync, writer>>
        /\ sync.step \in {"idle", "lock", "recover_lock"}
    BY <1>a, <1>28 DEF K!disable_command, K!CommandEnds, K!Idle, K!Active, K!Nothing, K!Inactivated,
       PhotoTypeOK, LocksHold, K!outside
  <2>2. /\ enrollments' \in [K!Epochs -> EnrollmentRows]
        /\ enrollments'[o].state = "inactive"
        /\ \A d \in K!Epochs \ {o} : enrollments'[d] = enrollments[d]
    BY <1>a, <2>1, InactivatedRows DEF PhotoTypeOK
  <2>a. \A d \in K!Epochs : d # 0
    BY DEF K!Epochs
  <2>3. \A a \in Assets : (heads[o][a] = "available" /\ o \in K!Epochs) =>
           a \in K!active_generation_assets(o)
    BY <1>a DEF EnrollmentsAreReal, K!EnrollmentsAreReal, K!active_generation_assets, K!HeadAssets
  <2>4. /\ heads' \in [K!Epochs -> [Assets -> {"none", "available", "unavailable"}]]
        /\ \A d \in K!Epochs, a \in Assets : heads'[d][a] # "available"
    <3>1. \A d \in K!Epochs \ {o}, a \in Assets : heads[d][a] # "available"
      BY <1>a DEF EnrollmentsAreReal, K!EnrollmentsAreReal, K!Active
    <3>2. CASE o = 0
      BY <1>a, <1>28, <2>a, <3>1, <3>2 DEF K!disable_command, K!Active, K!Nothing, PhotoTypeOK
    <3>3. CASE o \in K!Epochs
      <4> DEFINE h == [a \in Assets |->
                 IF a \in K!active_generation_assets(o) /\ heads[o][a] # "none" THEN "unavailable"
                 ELSE heads[o][a]]
      <4>1. heads' = [heads EXCEPT ![o] = h]
        BY <1>28, <2>a, <3>3 DEF K!disable_command, K!Active, K!Nothing, K!Hide
      <4>2. heads[o] \in [Assets -> {"none", "available", "unavailable"}]
        BY <1>a, <3>3 DEF PhotoTypeOK
      <4>3. /\ h \in [Assets -> {"none", "available", "unavailable"}]
            /\ \A a \in Assets : h[a] # "available"
        BY <2>3, <3>3, <4>2
      <4> HIDE DEF h
      <4> QED BY <1>a, <3>1, <3>3, <4>1, <4>3 DEF PhotoTypeOK
    <3> QED BY <1>a, <3>2, <3>3 DEF PhotoTypeOK
  <2> HIDE DEF o
  <2>5. PhotoTypeOK'
    BY <1>a, <2>1, <2>2, <2>3, <2>4 DEF PhotoTypeOK, CommandThreads
  <2>6. LocksHold'
    BY <1>a, <2>1 DEF LocksHold
  <2>7. OneIsActive'
    BY <1>a, <2>1, <2>2, <2>a DEF OneIsActive, o
  <2>8. ReconciliationIsFenced'
    BY <1>a, <2>1, <2>2 DEF ReconciliationIsFenced, ReconcileSteps
  <2>9. EnrollmentsAreReal'
    BY <1>a, <2>1, <2>2, <2>3, <2>4 DEF EnrollmentsAreReal, K!EnrollmentsAreReal, K!Active,
       PhotoTypeOK, OneIsActive
  <2> QED BY <2>5, <2>6, <2>7, <2>8, <2>9 DEF PhotoInv
<1>29. ASSUME NEW e \in K!Epochs, K!delete_enrollment(e) PROVE PhotoInv'
  <2>1. /\ writer = "active" /\ writer' = "idle"
        /\ enrollments[e].state \in {"active", "inactive"}
        /\ enrollments' = [enrollments EXCEPT ![e] = [K!Unreserved EXCEPT !.state = "removed"]]
        /\ heads' = [heads EXCEPT ![e] = [a \in Assets |-> "none"]]
        /\ materials' = {m \in materials : m[1] # e}
        /\ files' = files \ (K!Owned(materials) \ K!Owned(materials'))
        /\ connector' = IF connector.active = e THEN [active |-> 0, state |-> "unconfigured"]
                        ELSE connector
        /\ disturbed' = disturbed \cup {e}
        /\ UNCHANGED <<sync, command, mutex, readers>>
    BY <1>29 DEF K!delete_enrollment, K!Active, K!Nothing
  <2>2. /\ root_keys' \subseteq root_keys /\ intents \subseteq intents'
        /\ intents' \subseteq intents \cup {e} /\ (e \in root_keys' => e \in intents')
    BY <1>29 DEF K!delete_enrollment
  <2>3. /\ enrollments' \in [K!Epochs -> EnrollmentRows]
        /\ enrollments'[e].state = "removed"
        /\ \A d \in K!Epochs \ {e} : enrollments'[d] = enrollments[d]
    BY <1>a, <2>1 DEF PhotoTypeOK, EnrollmentRows, K!Unreserved
  <2>4. /\ heads' \in [K!Epochs -> [Assets -> {"none", "available", "unavailable"}]]
        /\ \A a \in Assets : heads'[e][a] = "none"
        /\ \A d \in K!Epochs \ {e} : heads'[d] = heads[d]
    BY <1>a, <2>1 DEF PhotoTypeOK
  <2>5. PhotoTypeOK'
    BY <1>a, <2>1, <2>2, <2>3, <2>4 DEF PhotoTypeOK
  <2>6. LocksHold'
    BY <1>a, <2>1 DEF LocksHold
  <2>7. OneIsActive'
    BY <1>a, <2>1, <2>3 DEF OneIsActive, PhotoTypeOK, K!Epochs
  <2>8. ReconciliationIsFenced'
    BY <1>a, <2>1, <2>3 DEF ReconciliationIsFenced, ReconcileSteps, LocksHold, PhotoTypeOK,
         SyncThreads
  <2>9. EnrollmentsAreReal'
    <3>1. \A d \in K!Epochs, a \in Assets : heads'[d][a] = "available" =>
            d # e /\ heads[d][a] = "available"
      BY <2>4
    <3>2. \A d \in K!Epochs, a \in Assets : heads'[d][a] = "available" =>
            <<d, a>> \in materials' /\ a \in files'
      BY <1>a, <2>1, <3>1 DEF EnrollmentsAreReal, K!EnrollmentsAreReal, K!Owned
    <3> QED BY <1>a, <2>1, <2>2, <2>3, <3>1, <3>2 DEF EnrollmentsAreReal, K!EnrollmentsAreReal,
         K!Active,
            PhotoTypeOK
  <2> QED BY <2>5, <2>6, <2>7, <2>8, <2>9 DEF PhotoInv
<1>30. ASSUME NEW e \in K!Epochs, NEW a \in Assets, K!delete_asset(e, a) PROVE PhotoInv'
  <2>1. /\ writer = "active" /\ writer' = "idle"
        /\ heads' = [heads EXCEPT ![e][a] = "none"]
        /\ materials' = materials \ {<<e, a>>}
        /\ files' = files \ (K!Owned(materials) \ K!Owned(materials'))
        /\ disturbed' = disturbed \cup {e}
        /\ UNCHANGED <<intents, root_keys, sync, command, mutex, readers>>
    BY <1>30 DEF K!delete_asset
  <2>2. /\ heads' \in [K!Epochs -> [Assets -> {"none", "available", "unavailable"}]]
        /\ \A d \in K!Epochs, b \in Assets : heads'[d][b] = "available" =>
             heads[d][b] = "available" /\ <<d, b>> # <<e, a>>
    BY <1>a, <2>1 DEF PhotoTypeOK
  <2>3. \A d \in K!Epochs, b \in Assets : heads'[d][b] = "available" =>
            <<d, b>> \in materials' /\ b \in files'
    BY <1>a, <2>1, <2>2 DEF EnrollmentsAreReal, K!EnrollmentsAreReal, K!Owned
  <2>4. CASE connector.active = e
    <3>1. /\ connector' = [connector EXCEPT !.state = "ready"]
          /\ enrollments' = [enrollments EXCEPT ![e].complete = FALSE, ![e].members = {},
                                                ![e].fence = @ + 1]
          /\ enrollments[e].state = "active"
      BY <1>a, <1>30, <2>4 DEF K!delete_asset, K!Active, K!asset_fence, OneIsActive
    <3>2. /\ enrollments' \in [K!Epochs -> EnrollmentRows]
          /\ enrollments'[e].complete = FALSE /\ enrollments'[e].fence = enrollments[e].fence + 1
          /\ \A d \in K!Epochs : enrollments'[d].state = enrollments[d].state
          /\ \A d \in K!Epochs \ {e} : enrollments'[d] = enrollments[d]
      <4> DEFINE row == [enrollments[e] EXCEPT !.complete = FALSE, !.members = {},
                                               !.fence = @ + 1]
      <4>1. enrollments \in [K!Epochs -> EnrollmentRows] /\ enrollments[e] \in EnrollmentRows
        BY <1>a DEF PhotoTypeOK
      <4>2. enrollments' = [enrollments EXCEPT ![e] = row]
        BY <3>1
      <4>3. /\ row \in EnrollmentRows
            /\ row.complete = FALSE /\ row.fence = enrollments[e].fence + 1
            /\ row.state = enrollments[e].state
        <5> DEFINE c == enrollments[e]
                   r1 == [c EXCEPT !.complete = FALSE]
                   r2 == [r1 EXCEPT !.members = {}]
        <5>1. c \in EnrollmentRows
          BY <4>1
        <5>2. row = [r2 EXCEPT !.fence = c.fence + 1]
          OBVIOUS
        <5> HIDE DEF row, c
        <5>3. r1 \in EnrollmentRows /\ r1.complete = FALSE /\ r1.fence = c.fence /\ r1.state = c.state
          BY <5>1 DEF EnrollmentRows
        <5> HIDE DEF r1
        <5>4. r2 \in EnrollmentRows /\ r2.complete = FALSE /\ r2.fence = c.fence /\ r2.state = c.state
          BY <5>3 DEF EnrollmentRows
        <5> HIDE DEF r2
        <5>5. c.fence + 1 \in Nat
          BY <5>1 DEF EnrollmentRows
        <5>6. /\ row \in EnrollmentRows
              /\ row.complete = FALSE /\ row.fence = c.fence + 1 /\ row.state = c.state
          BY <5>2, <5>4, <5>5 DEF EnrollmentRows
        <5> QED BY <5>6 DEF c
      <4> HIDE DEF row
      <4>4. /\ enrollments' \in [K!Epochs -> EnrollmentRows]
            /\ enrollments'[e] = row
            /\ \A d \in K!Epochs \ {e} : enrollments'[d] = enrollments[d]
        BY <4>1, <4>2, <4>3
      <4>5. \A d \in K!Epochs : enrollments'[d].state = enrollments[d].state
        BY <4>3, <4>4
      <4> QED BY <4>3, <4>4, <4>5
    <3>3. /\ connector' \in [active : K!Epochs \cup {0},
                             state : {"unconfigured", "ready", "reconciling", "needs_attention"}]
          /\ connector'.active = e
      BY <1>a, <2>4, <3>1 DEF PhotoTypeOK
    <3>4. PhotoTypeOK'
      BY <1>a, <2>1, <2>2, <3>2, <3>3 DEF PhotoTypeOK
    <3>5. LocksHold'
      BY <1>a, <2>1 DEF LocksHold
    <3>6. OneIsActive'
      BY <1>a, <2>1, <2>4, <3>2, <3>3 DEF OneIsActive, PhotoTypeOK, CommandThreads
    <3>7. ReconciliationIsFenced'
      <4>1. enrollments[e].fence \in Nat
        BY <1>a DEF PhotoTypeOK, EnrollmentRows
      <4>2. sync.step \in ReconcileSteps => sync.fence \in Nat /\ sync.epoch \in K!Epochs
        BY <1>a DEF PhotoTypeOK, SyncThreads, ReconcileSteps
      <4>3. sync.step # "finalize"
        BY <1>a, <2>1 DEF LocksHold
      <4> QED BY <1>a, <2>1, <3>2, <4>1, <4>2, <4>3 DEF ReconciliationIsFenced
    <3>8. EnrollmentsAreReal'
      <4>1. \A d \in K!Epochs, b \in Assets : heads'[d][b] = "available" =>
              d = e /\ enrollments[e].state = "active"
        BY <1>a, <2>2, <2>4 DEF EnrollmentsAreReal, K!EnrollmentsAreReal, K!Active
      <4>2. \A d \in root_keys : d \in K!Epochs /\
              (enrollments[d].state \in {"pending", "active", "inactive"} \/ d \in intents)
        BY <1>a DEF EnrollmentsAreReal, K!EnrollmentsAreReal, PhotoTypeOK
      <4> QED BY <2>1, <2>3, <3>2, <3>3, <4>1, <4>2 DEF EnrollmentsAreReal, K!EnrollmentsAreReal,
           K!Active
    <3> QED BY <3>4, <3>5, <3>6, <3>7, <3>8 DEF PhotoInv
  <2>5. CASE connector.active # e
    <3>1. /\ UNCHANGED connector
          /\ enrollments' = [enrollments EXCEPT ![e].members = @ \ {a}]
          /\ enrollments[e].state # "active"
      BY <1>a, <1>30, <2>5 DEF K!delete_asset, K!Active, OneIsActive
    <3>2. /\ enrollments' \in [K!Epochs -> EnrollmentRows]
          /\ \A d \in K!Epochs : enrollments'[d].state = enrollments[d].state
          /\ \A d \in K!Epochs \ {e} : enrollments'[d] = enrollments[d]
      BY <1>a, <3>1 DEF PhotoTypeOK, EnrollmentRows
    <3>3. PhotoTypeOK'
      BY <1>a, <2>1, <2>2, <3>1, <3>2 DEF PhotoTypeOK
    <3>4. LocksHold'
      BY <1>a, <2>1 DEF LocksHold
    <3>5. OneIsActive'
      BY <1>a, <2>1, <3>1, <3>2 DEF OneIsActive
    <3>6. ReconciliationIsFenced'
      <4>1. sync.step \in ReconcileSteps => sync.epoch \in K!Epochs
        BY <1>a DEF PhotoTypeOK, SyncThreads, ReconcileSteps
      <4>2. sync.step # "finalize"
        BY <1>a, <2>1 DEF LocksHold
      <4> QED BY <1>a, <2>1, <3>1, <3>2, <4>1, <4>2 DEF ReconciliationIsFenced
    <3>7. EnrollmentsAreReal'
      <4>1. \A d \in K!Epochs, b \in Assets : heads'[d][b] = "available" =>
              /\ d = connector.active /\ d # e /\ enrollments[d].state = "active"
              /\ enrollments[d].complete => b \in enrollments[d].members
        BY <1>a, <2>2, <2>5 DEF EnrollmentsAreReal, K!EnrollmentsAreReal, K!Active
      <4>2. \A d \in root_keys : d \in K!Epochs /\
              (enrollments[d].state \in {"pending", "active", "inactive"} \/ d \in intents)
        BY <1>a DEF EnrollmentsAreReal, K!EnrollmentsAreReal, PhotoTypeOK
      <4> QED BY <2>1, <2>3, <3>1, <3>2, <4>1, <4>2 DEF EnrollmentsAreReal, K!EnrollmentsAreReal,
           K!Active
    <3> QED BY <3>3, <3>4, <3>5, <3>6, <3>7 DEF PhotoInv
  <2> QED BY <2>4, <2>5
<1> QED BY <1>1, <1>2, <1>3, <1>4, <1>5, <1>6, <1>7, <1>8, <1>9, <1>10, <1>11, <1>12, <1>13,
     <1>14, <1>15, <1>16, <1>17, <1>18, <1>19, <1>20, <1>21, <1>22, <1>23, <1>24, <1>25, <1>26,
     <1>27, <1>28, <1>29, <1>30 DEF K!Next, K!SyncStep, K!CommandStep, K!WriterStep

LEMMA PhotoAlways == SpecConnectors => []PhotoInv
<1>1. PhotoInv /\ [NextConnectors]_allVars => PhotoInv'
  <2> SUFFICES ASSUME PhotoInv, [NextConnectors]_allVars PROVE PhotoInv'
    OBVIOUS
  <2>1. CASE K!Next
    BY <2>1, PhotoNext
  <2>2. CASE UNCHANGED photoVars
    BY <2>2 DEF photoVars, PhotoInv, PhotoTypeOK, LocksHold, OneIsActive, ReconciliationIsFenced,
             EnrollmentsAreReal, K!EnrollmentsAreReal, K!Active
  <2> QED BY <2>1, <2>2, PhotoStep DEF allVars, photoVars
<1> QED BY <1>1, PhotoInit, PTL DEF SpecConnectors

\* For every number of assets and enrollments, wherever threads meet and the application ends:
\* what is shown as available belongs to the enrollment in force and is stored, and no key is
\* left that nothing names (finalize_complete, activate_enrollment, disable_command, recover).
THEOREM AvailableIsEnrolled == SpecConnectors => []EnrollmentsAreReal
<1>1. PhotoInv => EnrollmentsAreReal
  BY DEF PhotoInv
<1> QED BY <1>1, PhotoAlways, PTL

\* The fence keeps a reconciliation from publishing into an enrollment that was replaced,
\* disabled or deleted from since it began (ensure_current_operation).
THEOREM FenceKeepsStaleOut == SpecConnectors => NothingStaleIsPublished
<1> DEFINE Fresh == (\E e \in K!Epochs, a \in Assets :
                       heads[e][a] # "available" /\ heads'[e][a] = "available")
                    => sync.epoch \notin disturbed
<1>1. PhotoInv /\ [NextConnectors]_allVars => [Fresh]_(K!vars)
  <2> SUFFICES ASSUME PhotoInv, [NextConnectors]_allVars, NEW e \in K!Epochs, NEW a \in Assets,
                      heads[e][a] # "available", heads'[e][a] = "available"
               PROVE  sync.epoch \notin disturbed
    OBVIOUS
  <2>1. K!Next
    BY PhotoStep DEF allVars, photoVars
  <2> USE DEF PhotoInv, PhotoTypeOK
  <2>2. CASE K!finalize_complete
    BY <2>2 DEF K!finalize_complete, K!ensure_current_operation, ReconciliationIsFenced,
             ReconcileSteps, SyncThreads, EnrollmentRows
  <2>3. CASE UNCHANGED heads
    BY <2>3
  <2>4. CASE K!finalize_global_unavailable
    <3>1. sync.epoch \in K!Epochs
      BY <2>4 DEF K!finalize_global_unavailable, SyncThreads, ReconcileSteps
    <3> QED BY <2>4, <3>1 DEF K!finalize_global_unavailable, K!Hide
  <2>5. CASE K!activate_enrollment
    BY <2>5 DEF K!activate_enrollment, K!Active, K!Nothing, K!Hide
  <2>6. CASE K!disable_command
    BY <2>6 DEF K!disable_command, K!Active, K!Nothing, K!Hide
  <2>7. CASE \E d \in K!Epochs : K!delete_enrollment(d)
    BY <2>7 DEF K!delete_enrollment
  <2>8. CASE \E d \in K!Epochs, b \in Assets : K!delete_asset(d, b)
    BY <2>8 DEF K!delete_asset
  <2>9. \/ K!finalize_complete \/ UNCHANGED heads \/ K!finalize_global_unavailable
        \/ K!activate_enrollment \/ K!disable_command
        \/ \E d \in K!Epochs : K!delete_enrollment(d)
        \/ \E d \in K!Epochs, b \in Assets : K!delete_asset(d, b)
    BY <2>1 DEF K!Next, K!SyncStep, K!CommandStep, K!WriterStep, K!rows, K!sync_photokit_v1,
       K!sync_lock, K!recover_operations, K!recover_key, K!recovered, K!begin_operation,
       K!record_observations, K!materialize, K!sync_permit, K!promote_prepared, K!sync_fails,
       K!execute_photokit_command, K!command_lock, K!snapshot, K!begin_setup,
       K!reserve_enrollment, K!create_root_key, K!remove_pending_enrollment, K!command_fails,
       K!acquire_exclusive, K!exclusive_granted, K!release_exclusive, K!collect_unowned_blob,
       K!Restart
  <2> QED BY <2>2, <2>3, <2>4, <2>5, <2>6, <2>7, <2>8, <2>9
<1>2. NothingStaleIsPublished <=> [][Fresh]_(K!vars)
  BY DEF NothingStaleIsPublished, K!NothingStaleIsPublished
<1> QED BY <1>1, <1>2, PhotoAlways, PTL DEF SpecConnectors

-----------------------------------------------------------------------------
(* The command boundary                                                    *)

\* The steps of a handler that can refuse it, make it wait or reach the network.
HandlerSteps ==
    {"lease", "cleanup", "shared", "exclusive", "gate", "connector", "release", "local",
     "spawn_blocking", "http", "revoke", "trigger", "begin_transition", "drain", "publish"}

\* Every call that is still to be made comes after a lease that is held or still to be taken.
Guarded(todo, held) ==
    \A i \in DOMAIN todo : todo[i] = "http" =>
        \/ \E j \in DOMAIN held : held[j] = "lease"
        \/ \E j \in DOMAIN todo : j < i /\ todo[j] = "lease"

Plain(todo) ==
    /\ todo \in Seq(HandlerSteps)
    /\ \A i \in DOMAIN todo : todo[i] \notin {"begin_transition", "drain", "publish"}
Handler(todo) == Plain(todo) /\ Guarded(todo, <<>>)
AsksForLease(todo) == \E i \in DOMAIN todo : todo[i] = "lease"

\* A handler that has asked for its lease may go on with any call.
LEMMA PlainJoined ==
    ASSUME NEW a, NEW b, Plain(a), Plain(b) PROVE Plain(a \o b)
  BY DEF Plain

LEMMA HandlersJoined ==
    ASSUME NEW a, NEW b, Handler(a), Handler(b) PROVE Handler(a \o b)
<1>1. Plain(a \o b)
  BY PlainJoined DEF Handler
<1>2. ASSUME NEW i \in DOMAIN (a \o b), (a \o b)[i] = "http"
      PROVE  \E j \in DOMAIN (a \o b) : j < i /\ (a \o b)[j] = "lease"
  <2>1. a \in Seq(HandlerSteps) /\ b \in Seq(HandlerSteps) /\ DOMAIN (a \o b) = 1..(Len(a) + Len(b))
    BY DEF Handler, Plain
  <2>2. CASE i \in DOMAIN a
    <3>1. PICK j \in DOMAIN a : j < i /\ a[j] = "lease"
      BY <1>2, <2>1, <2>2 DEF Handler, Guarded
    <3> QED BY <2>1, <3>1
  <2>3. CASE i \notin DOMAIN a
    <3>1. i - Len(a) \in DOMAIN b /\ b[i - Len(a)] = "http"
      BY <1>2, <2>1, <2>3
    <3>2. PICK j \in DOMAIN b : j < i - Len(a) /\ b[j] = "lease"
      BY <3>1 DEF Handler, Guarded
    <3>3. /\ j + Len(a) \in DOMAIN (a \o b) /\ j + Len(a) < i
          /\ (a \o b)[j + Len(a)] = "lease"
      BY <2>1, <3>1, <3>2
    <3> QED BY <3>3
  <2> QED BY <2>2, <2>3
<1> QED BY <1>1, <1>2 DEF Handler, Guarded

LEMMA LeaseFirst ==
    ASSUME NEW a, NEW b, Handler(a), AsksForLease(a), Plain(b) PROVE Handler(a \o b)
<1>1. Plain(a \o b)
  BY PlainJoined DEF Handler
<1>2. ASSUME NEW i \in DOMAIN (a \o b), (a \o b)[i] = "http"
      PROVE  \E j \in DOMAIN (a \o b) : j < i /\ (a \o b)[j] = "lease"
  <2>1. a \in Seq(HandlerSteps) /\ b \in Seq(HandlerSteps) /\ DOMAIN (a \o b) = 1..(Len(a) + Len(b))
    BY DEF Handler, Plain
  <2>2. CASE i \in DOMAIN a
    <3>1. PICK j \in DOMAIN a : j < i /\ a[j] = "lease"
      BY <1>2, <2>1, <2>2 DEF Handler, Guarded
    <3> QED BY <2>1, <3>1
  <2>3. CASE i \notin DOMAIN a
    <3>1. PICK j \in DOMAIN a : a[j] = "lease"
      BY DEF AsksForLease
    <3> QED BY <1>2, <2>1, <2>3, <3>1
  <2> QED BY <2>2, <2>3
<1> QED BY <1>1, <1>2 DEF Handler, Guarded

LEMMA LeaseAsked ==
    /\ \A b : Plain(b) => Handler(<<"lease">> \o b) /\ AsksForLease(<<"lease">> \o b)
    /\ Handler(<<"lease">>) /\ AsksForLease(<<"lease">>)
<1>1. Handler(<<"lease">>) /\ AsksForLease(<<"lease">>)
  <2>1. Handler(<<"lease">>)
    BY DEF Handler, Plain, Guarded, HandlerSteps
  <2>2. 1 \in DOMAIN <<"lease">> /\ <<"lease">>[1] = "lease"
    OBVIOUS
  <2> QED BY <2>1, <2>2 DEF AsksForLease
<1>2. ASSUME NEW b, Plain(b) PROVE Handler(<<"lease">> \o b) /\ AsksForLease(<<"lease">> \o b)
  <2>1. Handler(<<"lease">> \o b)
    BY <1>1, <1>2, LeaseFirst
  <2>2. b \in Seq(HandlerSteps)
    BY <1>2 DEF Plain
  <2>3. 1 \in DOMAIN (<<"lease">> \o b) /\ (<<"lease">> \o b)[1] = "lease"
    BY <2>2
  <2> QED BY <2>1, <2>3 DEF AsksForLease
<1> QED BY <1>1, <1>2

LEMMA PiecesAreHandlers ==
    /\ Handler(<<>>) /\ Handler(<<"shared">>) /\ Handler(<<"gate">>) /\ Handler(<<"cleanup">>)
    /\ Handler(<<"revoke">>) /\ Handler(<<"connector">>) /\ Handler(<<"spawn_blocking">>)
    /\ Handler(<<"spawn_blocking", "shared">>) /\ Handler(<<"shared", "gate">>)
    /\ Handler(<<"exclusive", "gate">>) /\ Handler(<<"shared", "release">>)
    /\ Handler(<<"release", "shared">>) /\ Handler(<<"shared", "local">>)
    /\ Handler(<<"shared", "release", "local", "trigger">>)
    /\ Handler(<<"shared", "local", "release">>)
    /\ Plain(<<"http">>) /\ Plain(<<"connector", "http">>) /\ Plain(<<"local", "http">>)
    /\ Plain(<<"connector", "http", "shared">>)
<1>1. Handler(<<>>)
  BY DEF Handler, Plain, Guarded, HandlerSteps
<1>2. Handler(<<"shared">>)
  BY DEF Handler, Plain, Guarded, HandlerSteps
<1>3. Handler(<<"gate">>)
  BY DEF Handler, Plain, Guarded, HandlerSteps
<1>4. Handler(<<"cleanup">>)
  BY DEF Handler, Plain, Guarded, HandlerSteps
<1>5. Handler(<<"revoke">>)
  BY DEF Handler, Plain, Guarded, HandlerSteps
<1>6. Handler(<<"connector">>)
  BY DEF Handler, Plain, Guarded, HandlerSteps
<1>7. Handler(<<"spawn_blocking">>)
  BY DEF Handler, Plain, Guarded, HandlerSteps
<1>8. Handler(<<"spawn_blocking", "shared">>)
  BY DEF Handler, Plain, Guarded, HandlerSteps
<1>9. Handler(<<"shared", "gate">>)
  BY DEF Handler, Plain, Guarded, HandlerSteps
<1>10. Handler(<<"exclusive", "gate">>)
  BY DEF Handler, Plain, Guarded, HandlerSteps
<1>11. Handler(<<"shared", "release">>)
  BY DEF Handler, Plain, Guarded, HandlerSteps
<1>12. Handler(<<"release", "shared">>)
  BY DEF Handler, Plain, Guarded, HandlerSteps
<1>13. Handler(<<"shared", "local">>)
  BY DEF Handler, Plain, Guarded, HandlerSteps
<1>14. Handler(<<"shared", "release", "local", "trigger">>)
  BY DEF Handler, Plain, Guarded, HandlerSteps
<1>15. Handler(<<"shared", "local", "release">>)
  BY DEF Handler, Plain, Guarded, HandlerSteps
<1>16. Plain(<<"http">>)
  BY DEF Handler, Plain, Guarded, HandlerSteps
<1>17. Plain(<<"connector", "http">>)
  BY DEF Handler, Plain, Guarded, HandlerSteps
<1>18. Plain(<<"local", "http">>)
  BY DEF Handler, Plain, Guarded, HandlerSteps
<1>19. Plain(<<"connector", "http", "shared">>)
  BY DEF Handler, Plain, Guarded, HandlerSteps
<1> QED BY <1>1, <1>2, <1>3, <1>4, <1>5, <1>6, <1>7, <1>8, <1>9, <1>10, <1>11, <1>12, <1>13,
     <1>14, <1>15, <1>16, <1>17, <1>18, <1>19

\* Whatever command, no call comes before its lease.
LEMMA HandlersAreGuarded ==
    /\ \A c \in C!MainCommands : Handler(c) \/ c = C!set_local_only
    /\ \A c \in C!TaskCommands : Handler(c)
    /\ Handler(C!startup_reconcile) /\ Handler(C!scheduler_round)
<1> USE PiecesAreHandlers, LeaseAsked
<1>1. \A n \in C!Outbound : C!acquire_command_authority(n) = <<"lease">>
  BY DEF C!acquire_command_authority, C!classify_command, C!Outbound, C!LocalCleanup
<1>2. Handler(C!catalog_command) /\ Handler(C!preview_deletion)
  BY HandlersJoined DEF C!catalog_command, C!preview_deletion, C!execute_command
<1>3. \A b : Plain(b) => Handler(<<"shared">> \o (<<"lease">> \o b))
  BY HandlersJoined
<1>4. Handler(C!connect_gmail) /\ Handler(C!sync_gmail)
  BY <1>1, <1>3, HandlersJoined DEF C!connect_gmail, C!sync_gmail, C!execute_command,
     C!AuthorizedGmailConnector, C!Outbound
<1>5. Handler(C!disconnect_gmail)
  BY HandlersJoined DEF C!disconnect_gmail, C!execute_command
<1>6. Handler(C!preview_outfit_recommendation) /\ Handler(C!request_outfit_recommendation)
  <2>1. Handler(<<"lease">> \o <<"shared", "release">>)
    BY HandlersJoined
  <2>2. Plain(<<>>) /\ Handler(<<"lease">> \o <<>>) /\ Handler(<<"lease">> \o <<"http">>)
    BY DEF Handler
  <2> QED BY <1>1, <2>1, <2>2, HandlersJoined DEF C!preview_outfit_recommendation,
          C!request_outfit_recommendation, C!AuthorizedOutfitRecommender, C!Outbound
<1>7. Handler(C!preview_try_on) /\ Handler(C!submit_try_on)
  BY <1>1, HandlersJoined DEF C!preview_try_on, C!submit_try_on, C!Outbound
<1>8. Handler(C!request_receipt_intelligence)
  <2>1. Handler(<<"shared", "local", "release">> \o <<"lease">>)
    BY HandlersJoined
  <2>2. AsksForLease(<<"shared", "local", "release">> \o <<"lease">>)
    <3> DEFINE s == <<"shared", "local", "release">> \o <<"lease">>
    <3>1. 4 \in DOMAIN s /\ s[4] = "lease"
      OBVIOUS
    <3> QED BY <3>1 DEF AsksForLease
  <2> QED BY <1>1, <2>1, <2>2, LeaseFirst DEF C!request_receipt_intelligence, C!Outbound
<1>9. Handler(C!approve_and_fetch_receipt_image)
  <2>1. Handler(<<"lease">> \o <<"shared", "local">>)
    BY HandlersJoined
  <2> QED BY <1>1, <2>1, HandlersJoined DEF C!approve_and_fetch_receipt_image,
          C!AuthorizedReceiptImageDownloader, C!Outbound
<1>10. Handler(C!get_photokit_connector) /\ Handler(C!disable_photokit)
  BY HandlersJoined DEF C!get_photokit_connector, C!disable_photokit, C!execute_photokit_command
<1>11. Handler(C!begin_photokit_setup) /\ Handler(C!configure_photokit_scope)
  <2>1. Handler(<<"spawn_blocking", "shared">> \o (<<"lease">> \o <<"connector", "http">>))
    BY HandlersJoined
  <2> QED BY <1>1, <2>1, HandlersJoined DEF C!begin_photokit_setup, C!configure_photokit_scope,
          C!execute_photokit_command, C!AuthorizedPhotoKitConnector, C!Outbound
<1>12. Handler(C!startup_reconcile) /\ Handler(C!sync_photokit)
  <2>1. Handler(<<"spawn_blocking">> \o (<<"lease">> \o <<"connector", "http", "shared">>))
    BY HandlersJoined
  <2> QED BY <1>1, <2>1, HandlersJoined DEF C!startup_reconcile, C!sync_photokit, C!reconcile,
          C!execute_photokit_reconcile_command, C!AuthorizedPhotoKitConnector, C!Outbound
<1>13. Handler(C!scheduler_round)
  BY HandlersJoined DEF C!scheduler_round, C!AuthorizedTryOnRenderer
<1>14. \A c \in C!MainCommands : Handler(c) \/ c = C!set_local_only
  BY <1>2, <1>4, <1>5, <1>6, <1>7 DEF C!MainCommands, C!get_foundation_snapshot, C!save_credential,
     C!delete_credential, C!item_commands, C!receipt_commands, C!photo_commands, C!case_commands,
     C!gmail_settings_commands, C!detect_photo_scope_people, C!export_diagnostics,
     C!run_storage_check, C!create_backup, C!list_backups, C!prepare_restore, C!execute_deletion,
     C!list_try_on_portrait_candidates, C!get_outfit_try_on, C!preview_receipt_intelligence,
     C!list_receipt_intelligence
<1>15. \A c \in C!TaskCommands : Handler(c)
  BY <1>8, <1>9, <1>10, <1>11, <1>12 DEF C!TaskCommands, C!list_receipt_image_candidates
<1> QED BY <1>12, <1>13, <1>14, <1>15

Held(held, what) == \E j \in DOMAIN held : held[j] = what
Draining == <<"drain", "publish">>
Publishing == <<"publish">>
Threads ==
    [todo : Seq(HandlerSteps), held : Seq(HandlerSteps \cup {"blocking"}),
     at : {"idle", "main", "worker", "pool", "awaiting", "queued"}]

\* What a thread still has to do: a change of the mode is only done by the main thread.
Doing(t, todo) ==
    Plain(todo) \/ (t = C!Main /\ todo \in {C!set_local_only, Draining, Publishing})

NoLease == \A t \in C!Callers : ~Held(thread[t].held, "lease")

\* A change of the mode is published only after the leases were given back, and none is given
\* out before.
CommandInv ==
    /\ local_only \in BOOLEAN
    /\ thread \in [C!Callers -> Threads]
    /\ \A t \in C!Callers :
         /\ Guarded(thread[t].todo, thread[t].held)
         /\ Doing(t, thread[t].todo)
         /\ thread[t].at = "awaiting" => thread[t].todo # <<>> /\ Head(thread[t].todo) = "http"
    /\ local_only => NoLease
    /\ thread[C!Main].todo \in {Draining, Publishing} => changing
    /\ thread[C!Main].todo = Publishing => NoLease

LEMMA MainIsACaller == C!Main \in C!Callers /\ C!Scheduler \in C!Callers /\ C!Main # C!Scheduler
  BY SlotsAssumption DEF C!Main, C!Scheduler, C!Callers

LEMMA TailGuarded ==
    ASSUME NEW todo \in Seq(HandlerSteps), NEW held, todo # <<>>, Guarded(todo, held),
           Head(todo) # "lease" \/ Held(held, "lease")
    PROVE  Guarded(Tail(todo), held)
<1>1. Tail(todo) \in Seq(HandlerSteps) /\ Len(Tail(todo)) = Len(todo) - 1 /\ Len(todo) \in Nat
  OBVIOUS
<1>2. \A i \in DOMAIN Tail(todo) : i + 1 \in DOMAIN todo /\ Tail(todo)[i] = todo[i + 1]
  OBVIOUS
<1> SUFFICES ASSUME NEW i \in DOMAIN Tail(todo), Tail(todo)[i] = "http", ~Held(held, "lease")
             PROVE  \E j \in DOMAIN Tail(todo) : j < i /\ Tail(todo)[j] = "lease"
  BY DEF Guarded, Held
<1>3. PICK j \in DOMAIN todo : j < i + 1 /\ todo[j] = "lease"
  BY <1>2 DEF Guarded, Held
<1>4. j # 1
  BY <1>3
<1>5. j - 1 \in DOMAIN Tail(todo) /\ j - 1 < i /\ Tail(todo)[j - 1] = "lease"
  BY <1>1, <1>3, <1>4
<1> QED BY <1>5

LEMMA AppendHeld ==
    ASSUME NEW held \in Seq(HandlerSteps \cup {"blocking"}), NEW x \in HandlerSteps \cup {"blocking"},
           NEW todo
    PROVE  /\ Append(held, x) \in Seq(HandlerSteps \cup {"blocking"})
           /\ \A y : Held(Append(held, x), y) <=> Held(held, y) \/ y = x
           /\ Guarded(todo, held) => Guarded(todo, Append(held, x))
<1>1. /\ Append(held, x) \in Seq(HandlerSteps \cup {"blocking"})
      /\ Len(Append(held, x)) = Len(held) + 1 /\ Len(held) \in Nat
      /\ Append(held, x)[Len(held) + 1] = x
      /\ \A i \in DOMAIN held : Append(held, x)[i] = held[i]
  OBVIOUS
<1>2. \A y : Held(Append(held, x), y) <=> Held(held, y) \/ y = x
  BY <1>1 DEF Held
<1> QED BY <1>1, <1>2 DEF Guarded, Held

LEMMA PlainTail ==
    ASSUME NEW todo, Plain(todo), todo # <<>>
    PROVE  /\ Plain(Tail(todo)) /\ Head(todo) \in HandlerSteps
           /\ Head(todo) \notin {"begin_transition", "drain", "publish"}
  BY DEF Plain

LEMMA EmptyIsPlain == Plain(<<>>) /\ \A held : Guarded(<<>>, held)
  BY DEF Plain, Guarded

LEMMA TransitionHeads ==
    /\ C!set_local_only # <<>> /\ Head(C!set_local_only) = "begin_transition"
    /\ Tail(C!set_local_only) = Draining
    /\ Draining # <<>> /\ Head(Draining) = "drain" /\ Tail(Draining) = Publishing
    /\ Publishing # <<>> /\ Head(Publishing) = "publish" /\ Tail(Publishing) = <<>>
    /\ ~Plain(C!set_local_only) /\ ~Plain(Draining) /\ ~Plain(Publishing)
    /\ \A held : Guarded(Draining, held) /\ Guarded(Publishing, held) /\ Guarded(C!set_local_only, held)
    /\ Draining \in Seq(HandlerSteps) /\ Publishing \in Seq(HandlerSteps)
    /\ C!set_local_only \in Seq(HandlerSteps)
<1>1. Draining # <<>> /\ Head(Draining) = "drain" /\ Publishing # <<>> /\ Head(Publishing) = "publish"
      /\ C!set_local_only # <<>> /\ Head(C!set_local_only) = "begin_transition"
  BY DEF Draining, Publishing, C!set_local_only
<1>2. Tail(C!set_local_only) = Draining /\ Tail(Draining) = Publishing /\ Tail(Publishing) = <<>>
  BY DEF Draining, Publishing, C!set_local_only
<1>3. Draining \in Seq(HandlerSteps) /\ Publishing \in Seq(HandlerSteps)
      /\ C!set_local_only \in Seq(HandlerSteps)
  BY DEF Draining, Publishing, C!set_local_only, HandlerSteps
<1>4. ~Plain(C!set_local_only) /\ ~Plain(Draining) /\ ~Plain(Publishing)
  BY <1>1, PlainTail
<1>5. \A held : Guarded(Draining, held) /\ Guarded(Publishing, held) /\ Guarded(C!set_local_only, held)
  BY DEF Draining, Publishing, C!set_local_only, Guarded
<1> QED BY <1>1, <1>2, <1>3, <1>4, <1>5

\* What a step may do to the thread that takes it.
LEMMA ThreadSet ==
    ASSUME CommandInv, UNCHANGED <<local_only, changing>>,
           NEW t \in C!Callers, NEW todo \in Seq(HandlerSteps),
           NEW held \in Seq(HandlerSteps \cup {"blocking"}),
           NEW at \in {"idle", "main", "worker", "pool", "awaiting", "queued"},
           C!Set(t, todo, held, at),
           Guarded(todo, held), Doing(t, todo),
           at = "awaiting" => todo # <<>> /\ Head(todo) = "http",
           Held(held, "lease") => Held(thread[t].held, "lease") \/ (~local_only /\ ~changing),
           t = C!Main /\ todo \in {Draining, Publishing} => changing,
           t = C!Main /\ todo = Publishing => NoLease
    PROVE  CommandInv'
<1> DEFINE x == [todo |-> todo, held |-> held, at |-> at]
<1>1. thread' = [thread EXCEPT ![t] = x]
  BY DEF C!Set
<1>2. x \in Threads /\ x.todo = todo /\ x.held = held /\ x.at = at
  BY DEF Threads
<1> HIDE DEF x
<1>3. /\ thread' \in [C!Callers -> Threads] /\ thread'[t] = x
      /\ \A u \in C!Callers \ {t} : thread'[u] = thread[u]
  BY <1>1, <1>2 DEF CommandInv
<1>4. NoLease /\ (local_only \/ changing) => NoLease'
  BY <1>2, <1>3 DEF NoLease
<1>5. \A u \in C!Callers :
         /\ Guarded(thread'[u].todo, thread'[u].held)
         /\ Doing(u, thread'[u].todo)
         /\ thread'[u].at = "awaiting" => thread'[u].todo # <<>> /\ Head(thread'[u].todo) = "http"
  BY <1>2, <1>3 DEF CommandInv
<1>6. thread'[C!Main].todo \in {Draining, Publishing} => changing
  BY <1>2, <1>3, MainIsACaller DEF CommandInv
<1>7. thread'[C!Main].todo = Publishing => NoLease
  BY <1>2, <1>3, MainIsACaller DEF CommandInv
<1> QED BY <1>3, <1>4, <1>5, <1>6, <1>7 DEF CommandInv, Doing

\* What a thread with a next step relies on.
LEMMA NextStep ==
    ASSUME CommandInv, NEW t \in C!Callers, C!Next1(t) # "return",
           C!Next1(t) \notin {"begin_transition", "drain", "publish"}
    PROVE  LET todo == thread[t].todo  held == thread[t].held IN
           /\ todo \in Seq(HandlerSteps) /\ todo # <<>> /\ Head(todo) = C!Next1(t)
           /\ held \in Seq(HandlerSteps \cup {"blocking"})
           /\ C!Next1(t) \in HandlerSteps
           /\ Plain(todo) /\ Guarded(todo, held)
           /\ Tail(todo) \in Seq(HandlerSteps) /\ Plain(Tail(todo))
           /\ (C!Next1(t) # "lease" \/ Held(held, "lease")) => Guarded(Tail(todo), held)
<1> DEFINE todo == thread[t].todo
           held == thread[t].held
<1>1. todo \in Seq(HandlerSteps) /\ held \in Seq(HandlerSteps \cup {"blocking"})
  BY DEF CommandInv, Threads
<1>2. todo # <<>> /\ Head(todo) = C!Next1(t)
  BY DEF C!Next1
<1>3. Plain(todo) /\ Guarded(todo, held)
  BY <1>2, TransitionHeads DEF CommandInv, Doing
<1>4. Tail(todo) \in Seq(HandlerSteps) /\ Plain(Tail(todo)) /\ C!Next1(t) \in HandlerSteps
  BY <1>1, <1>2, <1>3, PlainTail
<1>5. (C!Next1(t) # "lease" \/ Held(held, "lease")) => Guarded(Tail(todo), held)
  BY <1>1, <1>2, <1>3, TailGuarded
<1> QED BY <1>1, <1>2, <1>3, <1>4, <1>5

LEMMA PlainIsQuiet ==
    ASSUME NEW todo, Plain(todo) PROVE todo # Draining /\ todo # Publishing
  BY TransitionHeads

\* A step that goes on, with what was held or more, and one that is refused.
LEMMA StepGoes ==
    ASSUME CommandInv, UNCHANGED <<local_only, changing>>, NEW t \in C!Callers,
           C!Next1(t) \notin {"return", "lease", "begin_transition", "drain", "publish"},
           NEW at \in {"main", "worker", "pool", "queued"},
           \/ C!Set(t, Tail(thread[t].todo), thread[t].held, at)
           \/ \E x \in (HandlerSteps \cup {"blocking"}) \ {"lease"} :
                C!Set(t, Tail(thread[t].todo), Append(thread[t].held, x), at)
    PROVE  CommandInv'
<1> DEFINE todo == thread[t].todo
           held == thread[t].held
<1>1. /\ held \in Seq(HandlerSteps \cup {"blocking"})
      /\ Tail(todo) \in Seq(HandlerSteps) /\ Plain(Tail(todo)) /\ Guarded(Tail(todo), held)
  BY NextStep
<1>2. Doing(t, Tail(todo)) /\ Tail(todo) # Draining /\ Tail(todo) # Publishing
  BY <1>1, PlainIsQuiet DEF Doing
<1>3. CASE C!Set(t, Tail(todo), held, at)
  BY <1>1, <1>2, <1>3, ThreadSet
<1>4. ASSUME NEW x \in (HandlerSteps \cup {"blocking"}) \ {"lease"},
             C!Set(t, Tail(todo), Append(held, x), at)
      PROVE  CommandInv'
  <2>1. /\ Append(held, x) \in Seq(HandlerSteps \cup {"blocking"})
        /\ Held(Append(held, x), "lease") => Held(held, "lease")
        /\ Guarded(Tail(todo), Append(held, x))
    BY <1>1, AppendHeld
  <2> QED BY <1>2, <1>1, <1>4, <2>1, ThreadSet
<1> QED BY <1>3, <1>4

LEMMA StepEnds ==
    ASSUME CommandInv, UNCHANGED <<local_only, changing>>, NEW t \in C!Callers,
           NEW at \in {"idle", "main", "worker", "pool", "queued"},
           C!Set(t, <<>>, thread[t].held, at)
    PROVE  CommandInv'
<1>1. thread[t].held \in Seq(HandlerSteps \cup {"blocking"})
  BY DEF CommandInv, Threads
<1>2. <<>> \in Seq(HandlerSteps) /\ <<>> # Draining /\ <<>> # Publishing /\ Doing(t, <<>>)
  BY EmptyIsPlain, TransitionHeads DEF Doing
<1> QED BY <1>1, <1>2, EmptyIsPlain, ThreadSet

LEMMA CommandInit == InitConnectors => CommandInv
<1> SUFFICES ASSUME InitConnectors PROVE CommandInv
  OBVIOUS
<1>1. C!CommandsInit
  BY DEF InitConnectors
<1>2. C!Idle \in Threads /\ C!Idle.todo = <<>> /\ C!Idle.held = <<>> /\ C!Idle.at = "idle"
  BY DEF C!Idle, Threads
<1>3. \A c : Handler(c) => [todo |-> c, held |-> <<>>, at |-> "queued"] \in Threads
  BY DEF Handler, Plain, Threads
<1>4. \A t \in C!Callers :
         /\ thread[t] \in Threads /\ Handler(thread[t].todo) /\ thread[t].held = <<>>
         /\ thread[t].at # "awaiting"
  BY <1>1, <1>2, <1>3, HandlersAreGuarded, PiecesAreHandlers DEF C!CommandsInit, C!Scheduled
<1>5. thread \in [C!Callers -> Threads]
  <2>1. PICK released \in BOOLEAN :
        thread = [t \in C!Callers |->
                    IF ~local_only /\ t = 1
                    THEN [todo |-> C!startup_reconcile, held |-> <<>>, at |-> "queued"]
                    ELSE IF ~local_only /\ released /\ t = C!Scheduler THEN C!Scheduled
                    ELSE C!Idle]
    BY <1>1 DEF C!CommandsInit
  <2> QED BY <2>1, <1>4
<1>6. NoLease
  BY <1>4 DEF NoLease, Held
<1>7. thread[C!Main].todo \notin {Draining, Publishing}
  BY <1>4, MainIsACaller, TransitionHeads DEF Handler
<1> QED BY <1>1, <1>4, <1>5, <1>6, <1>7 DEF CommandInv, Handler, Doing, C!CommandsInit

\* One step per action.
LEMMA CommandNext == CommandInv /\ C!CommandsNext => CommandInv'
<1> SUFFICES ASSUME CommandInv, C!CommandsNext PROVE CommandInv'
  OBVIOUS
<1>a. ASSUME NEW t \in C!Callers, C!CanStep(t)
      PROVE  thread[t].at \in {"main", "worker", "pool"}
  BY <1>a DEF C!CanStep
<1>b. ASSUME NEW t \in C!Callers
      PROVE  /\ thread[t].todo \in Seq(HandlerSteps)
             /\ thread[t].held \in Seq(HandlerSteps \cup {"blocking"})
             /\ Guarded(thread[t].todo, thread[t].held) /\ Doing(t, thread[t].todo)
  BY DEF CommandInv, Threads
<1>1. ASSUME NEW t \in C!Callers, C!acquire(t) PROVE CommandInv'
  <2>1. UNCHANGED <<local_only, changing>> /\ C!Next1(t) \in {"lease", "cleanup"}
        /\ thread[t].at \in {"main", "worker", "pool"}
    BY <1>1, <1>a DEF C!acquire, C!Quiet
  <2>2. CASE C!Refused(t)
    BY <2>1, <2>2, StepEnds DEF C!Refused
  <2>3. CASE C!Next1(t) = "cleanup" /\ C!Takes(t, "cleanup")
    <3>1. "cleanup" \in (HandlerSteps \cup {"blocking"}) \ {"lease"}
      BY DEF HandlerSteps
    <3> QED BY <2>1, <2>3, <3>1, StepGoes DEF C!Takes, C!Rest
  <2>4. CASE C!Next1(t) = "lease" /\ C!Takes(t, "lease") /\ ~changing /\ ~local_only
    <3> DEFINE todo == Tail(thread[t].todo)
               held == Append(thread[t].held, "lease")
    <3>1. todo \in Seq(HandlerSteps) /\ Plain(todo)
      BY <2>4, NextStep
    <3>2. held \in Seq(HandlerSteps \cup {"blocking"}) /\ Held(held, "lease")
      BY <1>b, AppendHeld DEF HandlerSteps
    <3>3. Guarded(todo, held)
      BY <3>2 DEF Guarded, Held
    <3>4. C!Set(t, todo, held, thread[t].at)
      BY <2>4 DEF C!Takes, C!Rest
    <3>5. Doing(t, todo) /\ todo # Draining /\ todo # Publishing
      BY <3>1, PlainIsQuiet DEF Doing
    <3> HIDE DEF todo, held
    <3> QED BY <2>1, <2>4, <3>1, <3>2, <3>3, <3>4, <3>5, ThreadSet
  <2> QED BY <1>1, <2>1, <2>2, <2>3, <2>4 DEF C!acquire
<1>2. ASSUME NEW t \in C!Callers, C!lock(t) PROVE CommandInv'
  <2>1. /\ C!Next1(t) \in (HandlerSteps \cup {"blocking"}) \ {"lease"}
        /\ C!Next1(t) \notin {"return", "lease", "begin_transition", "drain", "publish"}
    BY <1>2 DEF C!lock, HandlerSteps
  <2> QED BY <1>2, <1>a, <2>1, StepGoes DEF C!lock, C!Takes, C!Rest, C!Quiet
<1>3. ASSUME NEW t \in C!Callers, C!coordinate(t) \/ C!local_work(t) PROVE CommandInv'
  BY <1>3, <1>a, StepGoes, StepEnds DEF C!coordinate, C!local_work, C!Goes, C!Refused, C!Rest,
       C!Quiet
<1>4. ASSUME NEW t \in C!Callers, C!spawn_blocking(t) PROVE CommandInv'
  <2>1. "blocking" \in (HandlerSteps \cup {"blocking"}) \ {"lease"}
    BY DEF HandlerSteps
  <2> QED BY <1>4, <2>1, StepGoes DEF C!spawn_blocking, C!Rest, C!Quiet
<1>5. ASSUME NEW t \in C!Callers, C!send(t) PROVE CommandInv'
  <2>1. /\ Plain(thread[t].todo) /\ thread[t].todo # <<>> /\ Head(thread[t].todo) = "http"
        /\ thread[t].todo # Draining /\ thread[t].todo # Publishing
    BY <1>5, NextStep, PlainIsQuiet DEF C!send
  <2> QED BY <1>5, <1>b, <2>1, ThreadSet DEF C!send, C!Quiet
<1>6. ASSUME NEW t \in C!Callers, C!answered(t) PROVE CommandInv'
  <2>1. C!Next1(t) = "http" /\ UNCHANGED <<local_only, changing>>
    BY <1>6 DEF C!answered, CommandInv, C!Next1, C!Quiet
  <2>2. PICK todo \in {Tail(thread[t].todo), <<>>}, at \in {"main", "pool", "queued"} :
          C!Set(t, todo, thread[t].held, at)
    BY <1>6 DEF C!answered, C!Rest
  <2> QED BY <2>1, <2>2, StepGoes, StepEnds
<1>7. ASSUME NEW t \in C!Callers, C!revoke(t) PROVE CommandInv'
  <2>1. C!Next1(t) = "revoke" /\ UNCHANGED <<local_only, changing>>
        /\ thread[t].at \in {"main", "worker", "pool"}
    BY <1>7, <1>a DEF C!revoke, C!Quiet
  <2>2. CASE C!Goes(t)
    BY <2>1, <2>2, StepGoes DEF C!Goes, C!Rest
  <2>3. CASE C!Set(t, <<"lease", "http">> \o C!Rest(t), thread[t].held, thread[t].at)
    <3> DEFINE todo == <<"lease", "http">> \o Tail(thread[t].todo)
    <3>1. Handler(<<"lease", "http">>) /\ AsksForLease(<<"lease", "http">>)
      <4>1. Plain(<<"lease", "http">>)
        BY DEF Plain, HandlerSteps
      <4>2. Guarded(<<"lease", "http">>, <<>>)
        BY DEF Guarded
      <4>3. 1 \in DOMAIN <<"lease", "http">> /\ <<"lease", "http">>[1] = "lease"
        OBVIOUS
      <4> QED BY <4>1, <4>2, <4>3 DEF Handler, AsksForLease
    <3>2. Handler(todo)
      BY <2>1, <3>1, NextStep, LeaseFirst
    <3>3. /\ todo \in Seq(HandlerSteps) /\ Guarded(todo, thread[t].held) /\ Doing(t, todo)
          /\ todo # Draining /\ todo # Publishing
      <4>1. Plain(todo) /\ Guarded(todo, <<>>)
        BY <3>2 DEF Handler
      <4> HIDE DEF todo
      <4> QED BY <4>1, PlainIsQuiet DEF Plain, Guarded, Doing
    <3>4. C!Set(t, todo, thread[t].held, thread[t].at)
      BY <2>3 DEF C!Rest
    <3> HIDE DEF todo
    <3> QED BY <1>b, <2>1, <3>3, <3>4, ThreadSet
  <2> QED BY <1>7, <2>2, <2>3 DEF C!revoke
<1>8. ASSUME NEW t \in C!Callers, C!drain(t) PROVE CommandInv'
  <2>1. thread[t].todo # <<>> /\ Head(thread[t].todo) = "drain" /\ C!CanStep(t)
    BY <1>8 DEF C!drain, C!Next1
  <2>2. t = C!Main /\ thread[t].todo = Draining
    BY <1>b, <2>1, PlainTail, TransitionHeads DEF Doing
  <2>3. changing
    BY <2>2 DEF CommandInv
  <2>4. NoLease
    <3>1. C!WaitsFor(t) = {} /\ C!Next1(t) = "drain" /\ thread[t].at \in {"main", "worker", "pool"}
      BY <1>8, <1>a DEF C!drain, C!CanStep
    <3>2. C!Leases = {}
      BY <3>1 DEF C!WaitsFor
    <3> QED BY <3>2 DEF C!Leases, C!Holders, C!Holds, NoLease, Held
  <2>5. C!Set(t, Publishing, thread[t].held, thread[t].at) /\ UNCHANGED <<local_only, changing>>
        /\ thread[t].at \in {"main", "worker", "pool"}
    BY <1>8, <1>a, <2>2, TransitionHeads DEF C!drain, C!Goes, C!Rest, C!Quiet
  <2>6. Doing(t, Publishing) /\ Guarded(Publishing, thread[t].held) /\ Publishing \in Seq(HandlerSteps)
    BY <2>2, TransitionHeads DEF Doing
  <2> QED BY <1>b, <2>3, <2>4, <2>5, <2>6, ThreadSet
<1>9. ASSUME NEW t \in C!Callers, C!drop(t) PROVE CommandInv'
  <2>1. UNCHANGED <<local_only, changing>> /\ thread[t].todo = <<>>
    BY <1>9 DEF C!drop, C!Quiet
  <2>2. \A held : Doing(t, <<>>) /\ Guarded(<<>>, held) /\ <<>> # Draining /\ <<>> # Publishing
           /\ <<>> \in Seq(HandlerSteps)
    BY EmptyIsPlain, TransitionHeads DEF Doing
  <2>3. CASE C!Set(t, <<>>, C!Kept(thread[t].held), "queued")
    <3> DEFINE held == thread[t].held
    <3>1. /\ C!Kept(held) \in Seq(HandlerSteps \cup {"blocking"})
          /\ Held(C!Kept(held), "lease") => Held(held, "lease")
      <4> DEFINE marks == {i \in DOMAIN held : held[i] = "blocking"}
                 m == CHOOSE i \in marks : TRUE
      <4>1. CASE marks = {}
        BY <4>1 DEF C!Kept, Held
      <4>2. CASE marks # {}
        <5>1. m \in marks
          BY <4>2
        <5>2. C!Kept(held) = SubSeq(held, 1, m - 1)
          BY <4>2 DEF C!Kept
        <5>3. m \in 1..Len(held)
          BY <1>b, <5>1
        <5> HIDE DEF m
        <5>4. /\ SubSeq(held, 1, m - 1) \in Seq(HandlerSteps \cup {"blocking"})
              /\ \A i \in DOMAIN SubSeq(held, 1, m - 1) :
                    i \in DOMAIN held /\ SubSeq(held, 1, m - 1)[i] = held[i]
          BY <1>b, <5>3
        <5> QED BY <5>2, <5>4 DEF Held
      <4> QED BY <4>1, <4>2
    <3> QED BY <2>1, <2>2, <2>3, <3>1, ThreadSet
  <2>4. CASE thread' = [thread EXCEPT ![t] = C!Idle]
    <3>1. C!Set(t, <<>>, <<>>, "idle")
      BY <2>4 DEF C!Idle, C!Set
    <3>2. <<>> \in Seq(HandlerSteps \cup {"blocking"}) /\ ~Held(<<>>, "lease")
      BY DEF Held
    <3> QED BY <2>1, <2>2, <3>1, <3>2, ThreadSet
  <2>5. CASE C!Set(t, C!scheduler_round, <<>>, "worker")
    <3>1. <<>> \in Seq(HandlerSteps \cup {"blocking"}) /\ ~Held(<<>>, "lease")
      BY DEF Held
    <3>2. /\ C!scheduler_round \in Seq(HandlerSteps) /\ Guarded(C!scheduler_round, <<>>)
          /\ Doing(t, C!scheduler_round)
          /\ C!scheduler_round # Draining /\ C!scheduler_round # Publishing
      BY HandlersAreGuarded, PlainIsQuiet DEF Handler, Plain, Doing
    <3> QED BY <2>1, <2>5, <3>1, <3>2, ThreadSet
  <2> QED BY <1>9, <2>3, <2>4, <2>5 DEF C!drop
<1>10. ASSUME NEW t \in C!Callers, C!pick_up(t) PROVE CommandInv'
  <2>1. /\ t = C!Main /\ thread[t].todo \in {Draining, Publishing} => changing
        /\ t = C!Main /\ thread[t].todo = Publishing => NoLease
    BY DEF CommandInv
  <2> QED BY <1>10, <1>b, <2>1, ThreadSet DEF C!pick_up, C!Quiet
<1>11. CASE C!invoke
  <2>1. UNCHANGED <<local_only, changing>>
    BY <1>11 DEF C!invoke, C!Quiet
  <2>2. <<>> \in Seq(HandlerSteps \cup {"blocking"}) /\ ~Held(<<>>, "lease")
    BY DEF Held
  <2>3. ASSUME NEW t \in C!Callers, NEW c, NEW at \in {"main", "queued"}, C!Set(t, c, <<>>, at), Handler(c)
        PROVE  CommandInv'
    <3>1. /\ c \in Seq(HandlerSteps) /\ Guarded(c, <<>>) /\ Doing(t, c)
          /\ c # Draining /\ c # Publishing
      BY <2>3, PlainIsQuiet DEF Handler, Plain, Doing
    <3> QED BY <2>1, <2>2, <2>3, <3>1, ThreadSet
  <2>4. CASE C!Set(C!Main, C!set_local_only, <<>>, "main")
    <3>1. /\ C!set_local_only \in Seq(HandlerSteps) /\ Guarded(C!set_local_only, <<>>)
          /\ Doing(C!Main, C!set_local_only)
          /\ C!set_local_only # Draining /\ C!set_local_only # Publishing
      BY TransitionHeads DEF Doing
    <3> QED BY <2>1, <2>2, <2>4, <3>1, MainIsACaller, ThreadSet
  <2>5. \A t \in C!Tasks : t \in C!Callers
    BY SlotsAssumption DEF C!Tasks, C!Callers, C!Main, C!Scheduler
  <2>6. \/ \E c \in C!MainCommands : C!Set(C!Main, c, <<>>, "main")
        \/ \E c \in C!TaskCommands, t \in C!Tasks : C!Set(t, c, <<>>, "queued")
    BY <1>11 DEF C!invoke
  <2> QED BY <2>3, <2>4, <2>5, <2>6, MainIsACaller, HandlersAreGuarded
<1>12. ASSUME NEW t \in C!Callers, C!begin_transition(t) PROVE CommandInv'
  <2>1. thread[t].todo # <<>> /\ Head(thread[t].todo) = "begin_transition"
        /\ thread[t].at \in {"main", "worker", "pool"}
    BY <1>12, <1>a DEF C!begin_transition, C!Next1
  <2>2. t = C!Main /\ thread[t].todo = C!set_local_only
    BY <1>b, <2>1, PlainTail, TransitionHeads DEF Doing
  <2> DEFINE x == [todo |-> Draining, held |-> thread[t].held, at |-> thread[t].at]
  <2>3. thread' = [thread EXCEPT ![t] = x] /\ changing' = TRUE /\ UNCHANGED local_only
    BY <1>12, <2>2, TransitionHeads DEF C!begin_transition, C!Goes, C!Rest, C!Set
  <2>4. x \in Threads /\ x.todo = Draining /\ x.held = thread[t].held /\ x.at = thread[t].at
    BY <1>b, <2>1, TransitionHeads DEF Threads
  <2> HIDE DEF x
  <2>5. /\ thread' \in [C!Callers -> Threads] /\ thread'[t] = x
        /\ \A u \in C!Callers \ {t} : thread'[u] = thread[u]
    BY <2>3, <2>4 DEF CommandInv
  <2>6. NoLease => NoLease'
    BY <2>4, <2>5 DEF NoLease
  <2>7. \A u \in C!Callers :
         /\ Guarded(thread'[u].todo, thread'[u].held)
         /\ Doing(u, thread'[u].todo)
         /\ thread'[u].at = "awaiting" => thread'[u].todo # <<>> /\ Head(thread'[u].todo) = "http"
    BY <2>1, <2>2, <2>4, <2>5, TransitionHeads DEF CommandInv, Doing
  <2>8. thread'[C!Main].todo # Publishing
    BY <2>2, <2>4, <2>5, TransitionHeads
  <2> QED BY <2>3, <2>5, <2>6, <2>7, <2>8 DEF CommandInv, Doing
<1>13. ASSUME NEW t \in C!Callers, C!publish(t) PROVE CommandInv'
  <2>1. thread[t].todo # <<>> /\ Head(thread[t].todo) = "publish"
        /\ thread[t].at \in {"main", "worker", "pool"}
    BY <1>13, <1>a DEF C!publish, C!Next1
  <2>2. t = C!Main /\ thread[t].todo = Publishing
    BY <1>b, <2>1, PlainTail, TransitionHeads DEF Doing
  <2>3. NoLease
    BY <2>2 DEF CommandInv
  <2> DEFINE x == [todo |-> <<>>, held |-> thread[t].held, at |-> thread[t].at]
  <2>4. thread' = [thread EXCEPT ![t] = x] /\ local_only' \in BOOLEAN
    BY <1>13, <2>2, TransitionHeads DEF C!publish, C!Goes, C!Rest, C!Set
  <2>5. x \in Threads /\ x.todo = <<>> /\ x.held = thread[t].held /\ x.at = thread[t].at
    BY <1>b, <2>1 DEF Threads
  <2> HIDE DEF x
  <2>6. /\ thread' \in [C!Callers -> Threads] /\ thread'[t] = x
        /\ \A u \in C!Callers \ {t} : thread'[u] = thread[u]
    BY <2>4, <2>5 DEF CommandInv
  <2>7. NoLease'
    BY <2>3, <2>5, <2>6 DEF NoLease
  <2>8. \A u \in C!Callers :
         /\ Guarded(thread'[u].todo, thread'[u].held)
         /\ Doing(u, thread'[u].todo)
         /\ thread'[u].at = "awaiting" => thread'[u].todo # <<>> /\ Head(thread'[u].todo) = "http"
    BY <2>1, <2>5, <2>6, EmptyIsPlain DEF CommandInv, Doing
  <2>9. thread'[C!Main].todo \notin {Draining, Publishing}
    BY <2>2, <2>5, <2>6, TransitionHeads
  <2> QED BY <2>4, <2>6, <2>7, <2>8, <2>9 DEF CommandInv, Doing
<1>14. ASSUME NEW t \in C!Callers, C!trigger_try_on_renderer(t) PROVE CommandInv'
  <2> DEFINE y == [thread[t] EXCEPT !.todo = C!Rest(t)]
  <2>1. /\ UNCHANGED <<local_only, changing>> /\ C!Next1(t) = "trigger"
        /\ thread[t].at \in {"main", "worker", "pool"}
    BY <1>14, <1>a DEF C!trigger_try_on_renderer, C!Quiet
  <2>2. /\ Tail(thread[t].todo) \in Seq(HandlerSteps) /\ Plain(Tail(thread[t].todo))
        /\ Guarded(Tail(thread[t].todo), thread[t].held)
    BY <2>1, NextStep
  <2>3. /\ y \in Threads /\ y.todo = Tail(thread[t].todo) /\ y.held = thread[t].held
        /\ y.at = thread[t].at
    BY <2>2 DEF CommandInv, Threads, C!Rest
  <2>4. /\ C!Scheduled \in Threads /\ C!Scheduled.held = <<>> /\ C!Scheduled.at = "queued"
        /\ Handler(C!Scheduled.todo)
    BY HandlersAreGuarded DEF C!Scheduled, Threads, Handler, Plain
  <2>5. thread' = [u \in C!Callers |->
                     IF u = t THEN y
                     ELSE IF u = C!Scheduler /\ thread[u] = C!Idle THEN C!Scheduled ELSE thread[u]]
    BY <1>14 DEF C!trigger_try_on_renderer
  <2> HIDE DEF y
  <2>6. /\ thread' \in [C!Callers -> Threads]
        /\ thread'[t] = y
        /\ \A u \in C!Callers \ {t} : thread'[u] = thread[u] \/ thread'[u] = C!Scheduled
        /\ t # C!Main => thread'[C!Main] = thread[C!Main]
    BY <2>3, <2>4, <2>5, MainIsACaller DEF CommandInv
  <2>7. \A u \in C!Callers : Held(thread'[u].held, "lease") => Held(thread[u].held, "lease")
    BY <2>3, <2>4, <2>6 DEF Held
  <2>8. NoLease => NoLease'
    BY <2>7 DEF NoLease
  <2>10. \A u \in C!Callers :
         /\ Guarded(thread'[u].todo, thread'[u].held)
         /\ Doing(u, thread'[u].todo)
         /\ thread'[u].at = "awaiting" => thread'[u].todo # <<>> /\ Head(thread'[u].todo) = "http"
    BY <2>1, <2>2, <2>3, <2>4, <2>6 DEF CommandInv, Handler, Doing
  <2>11. thread'[C!Main].todo \in {Draining, Publishing} => thread'[C!Main].todo = thread[C!Main].todo
    BY <2>2, <2>3, <2>6, MainIsACaller, PlainIsQuiet
  <2> QED BY <2>1, <2>6, <2>8, <2>10, <2>11 DEF CommandInv, Doing
<1> QED BY <1>1, <1>2, <1>3, <1>4, <1>5, <1>6, <1>7, <1>8, <1>9, <1>10, <1>11, <1>12, <1>13, <1>14
        DEF C!CommandsNext, C!Step

LEMMA CommandStep == NextConnectors => C!CommandsNext \/ UNCHANGED commandVars
  BY DEF NextConnectors, commandVars

LEMMA CommandAlways == SpecConnectors => []CommandInv
<1>1. CommandInv /\ [NextConnectors]_allVars => CommandInv'
  <2> SUFFICES ASSUME CommandInv, [NextConnectors]_allVars PROVE CommandInv'
    OBVIOUS
  <2>1. CASE C!CommandsNext
    BY <2>1, CommandNext
  <2>2. CASE UNCHANGED commandVars
    BY <2>2 DEF commandVars, CommandInv, NoLease, Doing
  <2> QED BY <2>1, <2>2, CommandStep DEF allVars, commandVars
<1> QED BY <1>1, CommandInit, PTL DEF SpecConnectors

\* For any number of asynchronous commands and worker threads, whatever handler a call is made
\* for: it leaves the process only under an outbound lease and never in the local-only mode
\* (acquire_command_authority, the Authorized wrappers, set_local_only).
THEOREM CallsAreLeased == SpecConnectors => []SendsAreLeased
<1>1. CommandInv => SendsAreLeased
  <2> SUFFICES ASSUME CommandInv, NEW t \in C!Callers, thread[t].at = "awaiting"
               PROVE  ~local_only /\ C!Holds(t, "lease")
    BY DEF SendsAreLeased, C!SendsAreLeased
  <2>1. /\ thread[t].todo \in Seq(HandlerSteps) /\ thread[t].todo # <<>>
        /\ Head(thread[t].todo) = "http" /\ Guarded(thread[t].todo, thread[t].held)
    BY DEF CommandInv, Threads
  <2>2. 1 \in DOMAIN thread[t].todo /\ thread[t].todo[1] = "http"
        /\ \A j \in DOMAIN thread[t].todo : ~(j < 1)
    BY <2>1
  <2>3. Held(thread[t].held, "lease")
    BY <2>1, <2>2 DEF Guarded, Held
  <2> QED BY <2>3 DEF CommandInv, NoLease, C!Holds, Held
<1> QED BY <1>1, CommandAlways, PTL

-----------------------------------------------------------------------------
(* The mirror of a Gmail scope                                             *)

\* The histories are finite sets of numbers, and have a last one.
LEMMA MaximumExists ==
    ASSUME NEW X \in SUBSET Nat, IsFiniteSet(X), X # {}
    PROVE  \E x \in X : \A y \in X : x >= y
<1> DEFINE Above(x) == {y \in X : y > x}
           Family == {Above(x) : x \in X}
<1>1. Family \subseteq FiniteSubsetsOf(X) /\ Family # {}
  <2>1. Family \subseteq SUBSET X /\ Family # {}
    OBVIOUS
  <2>2. FiniteSubsetsOf(X) = SUBSET X
    BY FS_FiniteSubsetsOfFinite
  <2> QED BY <2>1, <2>2
<1>2. PICK F \in Family : \A E \in Family : ~(<<E, F>> \in StrictSubsetOrdering(X))
  <2> HIDE DEF Family
  <2> QED BY <1>1, WFMin, FS_StrictSubsetOrderingWellFounded
<1>3. PICK x \in X : F = Above(x)
  BY <1>2
<1>4. SUFFICES ASSUME NEW y \in X, y > x PROVE FALSE
  BY <1>3
<1>5. Above(y) \in SUBSET X /\ F \in SUBSET X /\ Above(y) \subseteq F /\ y \in F /\ y \notin Above(y)
  <2>1. F = {z \in X : z > x}
    BY <1>3
  <2>2. \A z \in X : z > y => z > x
    BY <1>4
  <2>3. Above(y) = {z \in X : z > y}
    OBVIOUS
  <2> HIDE DEF Above, Family
  <2>4. Above(y) \in SUBSET X
    BY <2>3
  <2>5. F \in SUBSET X
    BY <2>1
  <2>6. y \in F
    BY <1>4, <2>1
  <2>7. y \notin Above(y)
    <3>1. ~(y > y)
      OBVIOUS
    <3> QED BY <2>3, <3>1
  <2>8. Above(y) \subseteq F
    BY <2>1, <2>2, <2>3
  <2> QED BY <2>4, <2>5, <2>6, <2>7, <2>8
<1>6. <<Above(y), F>> \in StrictSubsetOrdering(X)
  <2> HIDE DEF Above
  <2> QED BY <1>5 DEF StrictSubsetOrdering
<1> QED BY <1>2, <1>6

LEMMA MaximumIs ==
    ASSUME NEW X \in SUBSET Nat, IsFiniteSet(X)
    PROVE  /\ G!Max({0} \cup X) \in {0} \cup X
           /\ G!Max({0} \cup X) \in Nat
           /\ \A y \in X : y <= G!Max({0} \cup X)
<1> DEFINE Y == {0} \cup X
<1>1. Y \in SUBSET Nat /\ Y # {} /\ IsFiniteSet(Y)
  BY FS_AddElement
<1>2. \E x \in Y : \A y \in Y : x >= y
  <2> HIDE DEF Y
  <2> QED BY <1>1, MaximumExists
<1>3. G!Max(Y) \in Y /\ \A y \in Y : G!Max(Y) >= y
  <2> HIDE DEF Y
  <2> QED BY <1>2 DEF G!Max
<1> QED BY <1>1, <1>3

LEMMA MaximumWith ==
    ASSUME NEW X \in SUBSET Nat, IsFiniteSet(X), NEW k \in Nat, \A y \in X : y <= k
    PROVE  G!Max({0} \cup (X \cup {k})) = k
<1> DEFINE Y == X \cup {k}
<1>1. Y \in SUBSET Nat /\ \A y \in Y : y <= k
  OBVIOUS
<1>2. IsFiniteSet(Y)
  BY FS_AddElement
<1> HIDE DEF Y
<1>3. /\ G!Max({0} \cup Y) \in {0} \cup Y
      /\ G!Max({0} \cup Y) \in Nat
      /\ \A y \in Y : y <= G!Max({0} \cup Y)
  BY <1>1, <1>2, MaximumIs
<1>4. k \in Y
  BY DEF Y
<1> DEFINE n == G!Max({0} \cup Y)
<1>5. n \in Nat /\ (n = 0 \/ n \in Y) /\ k <= n
  BY <1>3, <1>4
<1> HIDE DEF n
<1>6. n <= k
  BY <1>1, <1>5
<1>7. n = k
  BY <1>5, <1>6
<1> QED BY <1>7 DEF n, Y

ChangeRows == [message : Messages, kind : G!Listed \cup {"touch"}]
LastListed(m) == G!LastOf(m, G!Listed)

LEMMA ChangesAreFinite ==
    ASSUME log \in Seq(ChangeRows), NEW m, NEW kinds
    PROVE  /\ G!Changes(m, kinds) \in SUBSET Nat /\ IsFiniteSet(G!Changes(m, kinds))
           /\ \A i \in G!Changes(m, kinds) : i \in 1..Len(log)
<1>1. G!Changes(m, kinds) \subseteq 1..Len(log)
  BY DEF G!Changes
<1> QED BY <1>1, FS_Interval, FS_Subset

\* The last change to a message of certain kinds is one, and no other is later.
LEMMA LastIs ==
    ASSUME log \in Seq(ChangeRows), NEW m, NEW kinds
    PROVE  /\ G!LastOf(m, kinds) \in 0..Len(log)
           /\ G!LastOf(m, kinds) # 0 => G!LastOf(m, kinds) \in G!Changes(m, kinds)
           /\ \A i \in G!Changes(m, kinds) : i <= G!LastOf(m, kinds)
<1> DEFINE changes == G!Changes(m, kinds)
<1>1. Len(log) \in Nat
  OBVIOUS
<1>2. changes \in SUBSET Nat /\ IsFiniteSet(changes) /\ \A i \in changes : i \in 1..Len(log)
  BY ChangesAreFinite
<1>3. G!LastOf(m, kinds) = G!Max({0} \cup changes)
  BY DEF G!LastOf
<1> HIDE DEF changes
<1>4. /\ G!Max({0} \cup changes) \in {0} \cup changes
      /\ G!Max({0} \cup changes) \in Nat
      /\ \A y \in changes : y <= G!Max({0} \cup changes)
  BY <1>2, MaximumIs
<1>5. G!LastOf(m, kinds) \in 0..Len(log)
  BY <1>1, <1>2, <1>3, <1>4
<1>6. /\ G!LastOf(m, kinds) # 0 => G!LastOf(m, kinds) \in changes
      /\ \A i \in changes : i <= G!LastOf(m, kinds)
  BY <1>3, <1>4
<1> QED BY <1>5, <1>6 DEF changes

LEMMA ChangesAppended ==
    ASSUME log \in Seq(ChangeRows), NEW m \in Messages, NEW kind \in G!Listed \cup {"touch"},
           log' = Append(log, [message |-> m, kind |-> kind]), NEW n, NEW kinds
    PROVE  G!Changes(n, kinds)' = IF n = m /\ kind \in kinds THEN G!Changes(n, kinds) \cup {Len(log) + 1}
                                                     ELSE G!Changes(n, kinds)
<1>1. /\ DOMAIN log' = DOMAIN log \cup {Len(log) + 1}
      /\ \A i \in DOMAIN log : log'[i] = log[i]
      /\ log'[Len(log) + 1] = [message |-> m, kind |-> kind]
      /\ Len(log) + 1 \notin DOMAIN log
  OBVIOUS
<1> QED BY <1>1 DEF G!Changes

LEMMA LastAppended ==
    ASSUME log \in Seq(ChangeRows), NEW m \in Messages, NEW kind \in G!Listed \cup {"touch"},
           log' = Append(log, [message |-> m, kind |-> kind]), NEW n, NEW kinds
    PROVE  G!LastOf(n, kinds)' = IF n = m /\ kind \in kinds THEN Len(log) + 1 ELSE G!LastOf(n, kinds)
<1> DEFINE changes == G!Changes(n, kinds)
<1>1. G!LastOf(n, kinds)' = G!Max({0} \cup changes') /\ G!LastOf(n, kinds) = G!Max({0} \cup changes)
  BY DEF G!LastOf
<1>2. changes' = IF n = m /\ kind \in kinds THEN changes \cup {Len(log) + 1} ELSE changes
  BY ChangesAppended
<1>3. CASE ~(n = m /\ kind \in kinds)
  BY <1>1, <1>2, <1>3
<1>4. CASE n = m /\ kind \in kinds
  <2>1. changes' = changes \cup {Len(log) + 1}
    BY <1>2, <1>4
  <2>2. changes \in SUBSET Nat /\ IsFiniteSet(changes) /\ \A i \in changes : i \in 1..Len(log)
    BY ChangesAreFinite
  <2>3. Len(log) \in Nat
    OBVIOUS
  <2> HIDE DEF changes
  <2>4. \A i \in changes : i <= Len(log) + 1
    BY <2>2, <2>3
  <2>5. G!Max({0} \cup (changes \cup {Len(log) + 1})) = Len(log) + 1
    BY <2>2, <2>3, <2>4, MaximumWith
  <2>6. G!LastOf(n, kinds)' = Len(log) + 1
    BY <1>1, <2>1, <2>5
  <2> QED BY <1>4, <2>6
<1> QED BY <1>3, <1>4

ScopeNow == Len(log) + 1

\* A deletion is the last that is heard of a message.
DeletedIsUnlabelled == \A m \in Messages : G!Deleted(m) => ~G!Labelled(m)

\* What a change of the mailbox does to what the sync compares.
LEMMA AfterChange ==
    ASSUME log \in Seq(ChangeRows), DeletedIsUnlabelled,
           NEW m \in Messages, NEW kind \in G!Listed \cup {"touch"}, G!Change(m, kind)
    PROVE  /\ log' \in Seq(ChangeRows) /\ ScopeNow' = ScopeNow + 1
           /\ \A n \in Messages :
                \/ LastListed(n)' = LastListed(n) /\ (G!Labelled(n)' <=> G!Labelled(n))
                \/ LastListed(n)' = ScopeNow
           /\ DeletedIsUnlabelled'
           /\ \A n \in Messages, c, t \in Nat :
                t <= ScopeNow => G!selected(n, c, t)' = G!selected(n, c, t)
<1>1. /\ log' = Append(log, [message |-> m, kind |-> kind])
      /\ ~G!Deleted(m)
  BY DEF G!Change
<1>2. /\ log' \in Seq(ChangeRows) /\ Len(log) \in Nat /\ Len(log') = Len(log) + 1
      /\ \A i \in 1..Len(log) : log'[i] = log[i]
      /\ log'[Len(log) + 1] = [message |-> m, kind |-> kind]
  BY <1>1 DEF ChangeRows
<1>3. \A n \in Messages :
        LastListed(n)' = IF n = m /\ kind \in G!Listed THEN ScopeNow ELSE LastListed(n)
  BY <1>1, LastAppended DEF LastListed, ScopeNow
<1>4. \A n \in Messages : LastListed(n) \in 0..Len(log)
  BY LastIs DEF LastListed
<1>5. ASSUME NEW n \in Messages, LastListed(n)' = LastListed(n)
      PROVE  G!Labelled(n)' <=> G!Labelled(n)
  <2>1. LastListed(n) # 0 => log'[LastListed(n)] = log[LastListed(n)]
    BY <1>2, <1>4
  <2> QED BY <1>5, <2>1 DEF G!Labelled, LastListed
<1>6. ASSUME NEW n \in Messages, NEW kinds
       PROVE  G!Changes(n, kinds)' = IF n = m /\ kind \in kinds THEN G!Changes(n, kinds) \cup {Len(log) + 1}
                                                        ELSE G!Changes(n, kinds)
  BY <1>1, ChangesAppended
<1>7. ASSUME NEW n \in Messages, G!Deleted(n)' PROVE ~G!Labelled(n)'
  <2>1. G!Changes(n, {"delete"})' = IF n = m /\ kind \in {"delete"}
                                    THEN G!Changes(n, {"delete"}) \cup {Len(log) + 1}
                                    ELSE G!Changes(n, {"delete"})
    BY <1>6
  <2>2. CASE n = m
    <3>1. kind = "delete"
      BY <1>1, <1>7, <2>1, <2>2 DEF G!Deleted
    <3>2. LastListed(n)' = Len(log) + 1 /\ log'[Len(log) + 1].kind = "delete"
      BY <1>2, <1>3, <2>2, <3>1 DEF G!Listed, ScopeNow
    <3> QED BY <3>2 DEF G!Labelled, LastListed
  <2>3. CASE n # m
    BY <1>3, <1>5, <1>7, <2>1, <2>3 DEF G!Deleted, DeletedIsUnlabelled
  <2> QED BY <2>2, <2>3
<1>8. ASSUME NEW n \in Messages, NEW c \in Nat, NEW t \in Nat, t <= ScopeNow
      PROVE  G!selected(n, c, t)' = G!selected(n, c, t)
  <2> DEFINE X == G!Changes(n, G!Listed)
             After(Y) == {j \in Y : j + 1 > c /\ j + 1 <= t}
  <2>1. X' = X \/ X' = X \cup {Len(log) + 1}
    BY <1>1, ChangesAppended
  <2>2. ~((Len(log) + 1) + 1 <= t)
    BY <1>2, <1>8 DEF ScopeNow
  <2>3. After(X') = After(X)
    <3> HIDE DEF X
    <3> QED BY <2>1, <2>2
  <2>4. /\ G!selected(n, c, t) = G!Max({0} \cup {i + 1 : i \in After(X)})
        /\ G!selected(n, c, t)' = G!Max({0} \cup {i + 1 : i \in After(X')})
    BY DEF G!selected
  <2> HIDE DEF After, X
  <2> QED BY <2>3, <2>4
<1>9. DeletedIsUnlabelled'
  BY <1>7 DEF DeletedIsUnlabelled
<1>10. ScopeNow' = ScopeNow + 1
  BY <1>2 DEF ScopeNow
<1>11. \A n \in Messages :
         \/ LastListed(n)' = LastListed(n) /\ (G!Labelled(n)' <=> G!Labelled(n))
         \/ LastListed(n)' = ScopeNow
  BY <1>3, <1>5
<1> QED BY <1>2, <1>8, <1>9, <1>10, <1>11

\* What a history names of a message: its last listed change, if that is new.
LEMMA SelectedIs ==
    ASSUME log \in Seq(ChangeRows), NEW m \in Messages, NEW c \in Nat, NEW t \in Nat
    PROVE  /\ G!selected(m, c, t) \in Nat /\ G!selected(m, c, t) <= t
           /\ G!selected(m, c, t) # 0 => /\ G!selected(m, c, t) > c
                                        /\ G!selected(m, c, t) - 1 \in G!Changes(m, G!Listed)
           /\ c <= LastListed(m) /\ LastListed(m) < t /\ LastListed(m) # 0
                => G!selected(m, c, t) = LastListed(m) + 1
<1> DEFINE changes == G!Changes(m, G!Listed)
           Numbers == {i + 1 : i \in {j \in changes : j + 1 > c /\ j + 1 <= t}}
           last == LastListed(m)
           h == G!Max({0} \cup Numbers)
<1>1. changes \in SUBSET Nat
  BY ChangesAreFinite
<1>2. last \in Nat /\ (last # 0 => last \in changes) /\ \A i \in changes : i <= last
  BY LastIs DEF LastListed
<1>3. G!selected(m, c, t) = h
  BY DEF G!selected
<1> HIDE DEF changes, last
<1>4. Numbers \in SUBSET Nat /\ Numbers \subseteq 1..t
  BY <1>1
<1>5. IsFiniteSet(Numbers)
  <2>1. IsFiniteSet(1..t)
    BY FS_Interval
  <2> HIDE DEF Numbers
  <2> QED BY <1>4, <2>1, FS_Subset
<1>6. \A k \in Numbers : k > c /\ k <= t /\ k - 1 \in changes /\ k # 0
  BY <1>1
<1>7. c <= last /\ last < t /\ last # 0 => last + 1 \in Numbers
  BY <1>2
<1>8. \A k \in Numbers : k <= last + 1
  BY <1>1, <1>2
<1> HIDE DEF Numbers
<1>9. /\ h = 0 \/ h \in Numbers
      /\ h \in Nat
      /\ \A y \in Numbers : y <= h
  BY <1>4, <1>5, MaximumIs
<1> HIDE DEF h
<1>10. h \in Nat /\ h <= t /\ (h # 0 => h > c /\ h - 1 \in changes)
  BY <1>6, <1>9
<1>11. c <= last /\ last < t /\ last # 0 => h = last + 1
  BY <1>2, <1>7, <1>8, <1>9
<1> QED BY <1>3, <1>10, <1>11 DEF changes, last

\* As of now, that is the last listed change of all.
LEMMA NamedIs ==
    ASSUME log \in Seq(ChangeRows), NEW m \in Messages, NEW c \in Nat \ {0}
    PROVE  /\ LastListed(m) \in Nat /\ LastListed(m) < ScopeNow
           /\ G!selected(m, c, ScopeNow) \in Nat /\ G!selected(m, c, ScopeNow) <= ScopeNow
           /\ G!selected(m, c, ScopeNow) # 0 =>
                /\ G!selected(m, c, ScopeNow) > c
                /\ G!selected(m, c, ScopeNow) - 1 \in G!Changes(m, G!Listed)
                /\ G!selected(m, c, ScopeNow) = LastListed(m) + 1
                /\ G!Labelled(m) = (log[G!selected(m, c, ScopeNow) - 1].kind = "label")
           /\ c <= LastListed(m) => G!selected(m, c, ScopeNow) = LastListed(m) + 1
<1>1. /\ LastListed(m) \in 0..Len(log)
      /\ \A i \in G!Changes(m, G!Listed) : i <= LastListed(m)
  BY LastIs DEF LastListed
<1>2. ScopeNow \in Nat /\ Len(log) \in Nat /\ ScopeNow = Len(log) + 1
  BY DEF ScopeNow
<1> DEFINE h == G!selected(m, c, ScopeNow)
           last == LastListed(m)
<1>3. /\ h \in Nat /\ h <= ScopeNow
      /\ h # 0 => h > c /\ h - 1 \in G!Changes(m, G!Listed)
      /\ c <= last /\ last < ScopeNow /\ last # 0 => h = last + 1
  BY <1>2, SelectedIs
<1>4. G!Labelled(m) = (last # 0 /\ log[last].kind = "label")
  BY DEF G!Labelled, LastListed
<1> HIDE DEF h, last
<1>5. last \in Nat /\ last < ScopeNow /\ \A i \in G!Changes(m, G!Listed) : i <= last
  BY <1>1, <1>2 DEF last
<1>6. c <= last => h = last + 1
  BY <1>3, <1>5
<1>7. h # 0 => h = last + 1 /\ last # 0
  BY <1>3, <1>5, <1>6
<1>8. h # 0 => h - 1 = last
  BY <1>3, <1>5, <1>7
<1>9. h # 0 => G!Labelled(m) = (log[h - 1].kind = "label")
  BY <1>4, <1>7, <1>8
<1> QED BY <1>3, <1>5, <1>6, <1>7, <1>9 DEF h, last

LEMMA HistoryIs ==
    ASSUME log \in Seq(ChangeRows), NEW m \in Messages
    PROVE  /\ G!MessageHistory(m) \in Nat
           /\ LastListed(m) < G!MessageHistory(m) /\ G!MessageHistory(m) <= ScopeNow
<1> DEFINE kinds == G!Listed \cup {"touch"}
<1>1. /\ LastListed(m) \in Nat
      /\ LastListed(m) # 0 => LastListed(m) \in G!Changes(m, G!Listed)
  BY LastIs DEF LastListed
<1>2. /\ G!LastOf(m, kinds) \in 0..Len(log)
      /\ \A i \in G!Changes(m, kinds) : i <= G!LastOf(m, kinds)
  BY LastIs
<1>3. G!Changes(m, G!Listed) \subseteq G!Changes(m, kinds)
  BY DEF G!Changes
<1>4. G!MessageHistory(m) = G!LastOf(m, kinds) + 1
  BY DEF G!MessageHistory
<1>5. LastListed(m) <= G!LastOf(m, kinds)
  <2>1. CASE LastListed(m) = 0
    BY <1>2, <2>1
  <2>2. CASE LastListed(m) # 0
    BY <1>1, <1>2, <1>3, <2>2
  <2> QED BY <2>1, <2>2
<1>6. Len(log) \in Nat
  OBVIOUS
<1> HIDE DEF kinds
<1> QED BY <1>1, <1>2, <1>4, <1>5, <1>6 DEF ScopeNow

ScopeTypeOK ==
    /\ log \in Seq(ChangeRows)
    /\ scope \in {"label", "search"}
    /\ checkpoint \in Nat /\ checkpoint <= ScopeNow /\ members \subseteq Messages
    /\ \A m \in Messages : availability[m].history \in Nat
    /\ collection.step \in {"idle", "profile", "list", "history", "fetch"}
    /\ collection.step = "idle" => collection = G!Idle
    /\ collection.step \in {"profile", "list", "history"} =>
         collection = [step |-> collection.step, expected |-> collection.expected,
                       attempt |-> collection.attempt, began |-> collection.began,
                       anchor |-> collection.anchor]
    /\ collection.step = "fetch" =>
         collection = [step |-> "fetch", expected |-> collection.expected,
                       attempt |-> collection.attempt, began |-> collection.began,
                       mode |-> collection.mode, anchor |-> collection.anchor,
                       todo |-> collection.todo, found |-> collection.found,
                       effects |-> collection.effects]
    /\ collection.step # "idle" => collection.expected = checkpoint
    /\ collection.step = "history" => scope = "label" /\ checkpoint # 0
    /\ collection.step \in {"list", "fetch"} =>
         collection.anchor \in Nat /\ collection.anchor <= ScopeNow /\ collection.anchor # 0

\* What is said of a message as of a history id is right until its label changes again; a
\* search only ever says that a message is there.
Right(m, revision, state) ==
    IF scope = "label" THEN LastListed(m) < revision => (state = "available" <=> G!Labelled(m))
                       ELSE revision # 0 => state = "available"

HeadsInv ==
    \A m \in Messages :
        /\ availability[m].history <= ScopeNow
        /\ Right(m, availability[m].history, availability[m].availability)
        /\ availability[m].history = 0 => availability[m] = G!NoHead
        /\ availability[m].history # 0 => m \in members

\* The label of the message has not changed since the anchor of the collection.
Unmoved(m) == LastListed(m) < collection.anchor

EffectInv(e) ==
    /\ e.message \in Messages /\ e.message \notin collection.todo
    /\ e.revision \in Nat /\ e.revision <= ScopeNow /\ e.revision # 0
    /\ Right(e.message, e.revision, e.availability)
    /\ scope = "label" /\ Unmoved(e.message) => LastListed(e.message) < e.revision

\* Why a batch may be collected while the mailbox moves: what it found is right as of an id
\* that is no older than its anchor, and what it did not find is as it was.
FetchInv ==
    collection.step = "fetch" =>
        /\ collection.mode = "history" => scope = "label" /\ checkpoint # 0
        /\ collection.mode # "history" => collection.mode = scope
        /\ collection.todo \subseteq Messages
        /\ collection.found = collection.todo \cup {e.message : e \in collection.effects}
        /\ \A e, f \in collection.effects : e.message = f.message => e = f
        /\ \A e \in collection.effects : EffectInv(e)
        /\ \A m \in Messages \ collection.found :
             Unmoved(m) => IF collection.mode = "history" THEN LastListed(m) < checkpoint
                                                          ELSE ~G!Labelled(m)
        /\ collection.mode = "label" => members \subseteq collection.found
        /\ collection.mode = "history" =>
             \A m \in collection.todo : G!selected(m, checkpoint, collection.anchor) # 0

ScopeInv == ScopeTypeOK /\ DeletedIsUnlabelled /\ HeadsInv /\ FetchInv /\ Synced

LEMMA ScopeStep == NextConnectors => G!Next \/ UNCHANGED scopeVars
  BY DEF NextConnectors, scopeVars

LEMMA ScopeInit == InitConnectors => ScopeInv
<1> SUFFICES ASSUME InitConnectors PROVE ScopeInv
  OBVIOUS
<1>1. G!Init
  BY DEF InitConnectors
<1>2. log = <<>> /\ log \in Seq(ChangeRows) /\ Len(log) = 0
  BY <1>1 DEF G!Init
<1>3. \A m \in Messages : G!Changes(m, {"delete"}) = {}
  BY <1>2 DEF G!Changes
<1>4. ScopeTypeOK
  BY <1>1, <1>2 DEF G!Init, ScopeTypeOK, ScopeNow, G!NoHead, G!Idle
<1>5. DeletedIsUnlabelled
  BY <1>3 DEF DeletedIsUnlabelled, G!Deleted
<1>6. HeadsInv
  <2>1. \A m \in Messages : LastListed(m) \in Nat
    BY <1>2, LastIs DEF LastListed
  <2> QED BY <1>1, <1>2, <2>1 DEF G!Init, HeadsInv, Right, ScopeNow, G!NoHead
<1>7. FetchInv /\ Synced
  BY <1>1 DEF G!Init, FetchInv, G!Idle, Synced, G!Synced
<1> QED BY <1>4, <1>5, <1>6, <1>7 DEF ScopeInv

LEMMA ScopeChanges ==
    ASSUME ScopeInv, NEW m \in Messages, NEW kind \in G!Listed \cup {"touch"}, G!Change(m, kind)
    PROVE  ScopeInv'
<1>1. UNCHANGED <<scope, checkpoint, availability, members, collection>>
  BY DEF G!Change, G!store
<1>2. /\ log' \in Seq(ChangeRows) /\ ScopeNow' = ScopeNow + 1
      /\ \A n \in Messages :
           \/ LastListed(n)' = LastListed(n) /\ (G!Labelled(n)' <=> G!Labelled(n))
           \/ LastListed(n)' = ScopeNow
      /\ DeletedIsUnlabelled'
      /\ \A n \in Messages, c, t \in Nat :
           t <= ScopeNow => G!selected(n, c, t)' = G!selected(n, c, t)
  BY AfterChange DEF ScopeInv, ScopeTypeOK
<1>3. ScopeNow \in Nat /\ \A n \in Messages : LastListed(n) \in Nat
  BY LastIs DEF ScopeInv, ScopeTypeOK, LastListed, ScopeNow
<1>4. ASSUME NEW n \in Messages, NEW r \in Nat, NEW state, r <= ScopeNow, Right(n, r, state)
      PROVE  Right(n, r, state)'
  BY <1>1, <1>2, <1>3, <1>4 DEF Right
<1>5. ScopeTypeOK'
  BY <1>1, <1>2, <1>3 DEF ScopeInv, ScopeTypeOK
<1>6. HeadsInv'
  <2> SUFFICES ASSUME NEW n \in Messages
               PROVE  /\ availability[n].history <= ScopeNow'
                      /\ Right(n, availability[n].history, availability[n].availability)'
                      /\ availability[n].history = 0 => availability[n] = G!NoHead
                      /\ availability[n].history # 0 => n \in members
    BY <1>1 DEF HeadsInv
  <2>1. /\ availability[n].history \in Nat /\ availability[n].history <= ScopeNow
        /\ Right(n, availability[n].history, availability[n].availability)
        /\ availability[n].history = 0 => availability[n] = G!NoHead
        /\ availability[n].history # 0 => n \in members
    BY DEF ScopeInv, ScopeTypeOK, HeadsInv
  <2>2. Right(n, availability[n].history, availability[n].availability)'
    BY <1>1, <1>2, <1>3, <2>1 DEF Right
  <2> QED BY <1>2, <1>3, <2>1, <2>2
<1>7. Synced'
  BY <1>1, <1>2, <1>3 DEF ScopeInv, ScopeTypeOK, Synced, G!Synced, LastListed
<1>8. FetchInv'
  <2> SUFFICES ASSUME collection.step = "fetch" PROVE FetchInv'
    BY <1>1 DEF FetchInv
  <2>1. FetchInv /\ collection.anchor \in Nat /\ collection.anchor <= ScopeNow /\ checkpoint \in Nat
    BY DEF ScopeInv, ScopeTypeOK
  <2>2. \A n \in Messages : Unmoved(n)' =>
          LastListed(n)' = LastListed(n) /\ (G!Labelled(n)' <=> G!Labelled(n)) /\ Unmoved(n)
    BY <1>1, <1>2, <1>3, <2>1 DEF Unmoved
  <2>3. ASSUME NEW e \in collection.effects PROVE EffectInv(e)'
    <3>1. EffectInv(e)
      BY <2>1 DEF FetchInv
    <3>2. Right(e.message, e.revision, e.availability)'
      BY <1>4, <3>1 DEF EffectInv
    <3> QED BY <1>1, <1>2, <1>3, <2>2, <3>1, <3>2 DEF EffectInv
  <2>4. \A n \in Messages \ collection.found :
          Unmoved(n)' => IF collection.mode = "history" THEN LastListed(n)' < checkpoint
                                                        ELSE ~G!Labelled(n)'
    BY <2>1, <2>2 DEF FetchInv
  <2>5. collection.mode = "history" =>
          \A n \in collection.todo : G!selected(n, checkpoint, collection.anchor)' # 0
    <3>1. SUFFICES ASSUME collection.mode = "history", NEW n \in collection.todo
                   PROVE  G!selected(n, checkpoint, collection.anchor)' # 0
      OBVIOUS
    <3>2. n \in Messages /\ G!selected(n, checkpoint, collection.anchor) # 0
      BY <2>1, <3>1 DEF FetchInv
    <3>3. PICK c \in Nat, t \in Nat : c = checkpoint /\ t = collection.anchor
      BY <2>1
    <3>4. G!selected(n, c, t)' = G!selected(n, c, t)
      BY <1>2, <2>1, <3>2, <3>3
    <3>5. /\ G!selected(n, checkpoint, collection.anchor) = G!selected(n, c, t)
          /\ G!selected(n, checkpoint, collection.anchor)' = G!selected(n, c, t)'
      BY <1>1, <3>3 DEF G!selected
    <3> QED BY <3>2, <3>4, <3>5
  <2> QED BY <1>1, <2>1, <2>3, <2>4, <2>5 DEF FetchInv
<1> QED BY <1>2, <1>5, <1>6, <1>7, <1>8 DEF ScopeInv

LEMMA CollectionRecords ==
    ASSUME NEW c, NEW k,
           c = [step |-> c.step, expected |-> c.expected, attempt |-> c.attempt,
                began |-> c.began, anchor |-> c.anchor]
    PROVE  /\ [c EXCEPT !.step = "list", !.anchor = k]
                = [step |-> "list", expected |-> c.expected, attempt |-> c.attempt,
                   began |-> c.began, anchor |-> k]
           /\ [c EXCEPT !.step = "profile"]
                = [step |-> "profile", expected |-> c.expected, attempt |-> c.attempt,
                   began |-> c.began, anchor |-> c.anchor]
<1> DEFINE d == [step |-> "list", expected |-> c.expected, attempt |-> c.attempt,
                 began |-> c.began, anchor |-> c.anchor]
<1>1. [c EXCEPT !.step = "profile"]
        = [step |-> "profile", expected |-> c.expected, attempt |-> c.attempt,
           began |-> c.began, anchor |-> c.anchor]
  OBVIOUS
<1>2. [c EXCEPT !.step = "list"] = d
  OBVIOUS
<1>3. [c EXCEPT !.step = "list", !.anchor = k]
        = [[c EXCEPT !.step = "list"] EXCEPT !.anchor = k]
  OBVIOUS
<1>4. [d EXCEPT !.anchor = k]
        = [step |-> "list", expected |-> c.expected, attempt |-> c.attempt,
           began |-> c.began, anchor |-> k]
  OBVIOUS
<1> QED BY <1>1, <1>2, <1>3, <1>4

\* What a sync does before it fetches, and what ends it without a batch.
LEMMA ScopeBegins ==
    ASSUME ScopeInv,
           \/ G!Forget \/ G!collect \/ G!profile_history_id \/ G!Abort \/ G!disconnect
    PROVE  ScopeInv'
<1>1. UNCHANGED <<log, scope, availability, members>>
  BY DEF G!Forget, G!collect, G!profile_history_id, G!Abort, G!disconnect, G!store, G!mailbox
<1>2. \/ UNCHANGED <<collection, checkpoint>>
      \/ collection' = G!Idle /\ checkpoint' = checkpoint
      \/ collection = G!Idle /\ collection' = collection /\ checkpoint' = 0
      \/ /\ collection' = [step |-> IF scope = "label" /\ checkpoint # 0 THEN "history" ELSE "profile",
                           expected |-> checkpoint, attempt |-> 1, began |-> Len(log), anchor |-> 0]
         /\ checkpoint' = checkpoint
      \/ /\ collection.step = "profile" /\ checkpoint' = checkpoint
         /\ collection' = [step |-> "list", expected |-> checkpoint, attempt |-> collection.attempt,
                           began |-> collection.began, anchor |-> ScopeNow]
  <2>1. CASE G!profile_history_id
    <3>1. /\ collection.step = "profile" /\ checkpoint' = checkpoint
          /\ collection' = [collection EXCEPT !.step = "list", !.anchor = ScopeNow]
      BY <2>1 DEF G!profile_history_id, G!store, G!HistoryNow, ScopeNow
    <3>2. /\ collection = [step |-> collection.step, expected |-> collection.expected,
                           attempt |-> collection.attempt, began |-> collection.began,
                           anchor |-> collection.anchor]
          /\ collection.expected = checkpoint
      BY <3>1 DEF ScopeInv, ScopeTypeOK
    <3>3. [collection EXCEPT !.step = "list", !.anchor = ScopeNow]
            = [step |-> "list", expected |-> checkpoint, attempt |-> collection.attempt,
               began |-> collection.began, anchor |-> ScopeNow]
      BY <3>2, CollectionRecords
    <3> QED BY <3>1, <3>3
  <2> QED BY <2>1 DEF G!Forget, G!collect, G!Abort, G!disconnect, G!store, G!mailbox
<1>3. ScopeNow' = ScopeNow /\ ScopeNow \in Nat /\ ScopeNow # 0 /\ G!HistoryNow = ScopeNow
  BY <1>1 DEF ScopeNow, G!HistoryNow, ScopeInv, ScopeTypeOK
<1>4. \A m \in Messages :
        /\ LastListed(m)' = LastListed(m) /\ (G!Labelled(m)' <=> G!Labelled(m))
        /\ (G!Deleted(m)' <=> G!Deleted(m))
  BY <1>1 DEF LastListed, G!LastOf, G!Labelled, G!Deleted, G!Changes
<1>5. ScopeTypeOK'
  <2>1. ScopeTypeOK
    BY DEF ScopeInv
  <2>2. CASE UNCHANGED <<collection, checkpoint>>
    BY <1>1, <1>3, <2>1, <2>2 DEF ScopeTypeOK
  <2>3. CASE collection' = G!Idle /\ checkpoint' = checkpoint
    BY <1>1, <1>3, <2>1, <2>3 DEF ScopeTypeOK, G!Idle
  <2>4. CASE collection = G!Idle /\ collection' = collection /\ checkpoint' = 0
    BY <1>1, <1>3, <2>1, <2>4 DEF ScopeTypeOK, G!Idle
  <2>5. CASE /\ collection' = [step |-> IF scope = "label" /\ checkpoint # 0 THEN "history" ELSE "profile",
                               expected |-> checkpoint, attempt |-> 1, began |-> Len(log), anchor |-> 0]
             /\ checkpoint' = checkpoint
    BY <1>1, <1>3, <2>1, <2>5 DEF ScopeTypeOK, G!Idle
  <2>6. CASE /\ collection.step = "profile" /\ checkpoint' = checkpoint
             /\ collection' = [step |-> "list", expected |-> checkpoint,
                               attempt |-> collection.attempt, began |-> collection.began,
                               anchor |-> ScopeNow]
    BY <1>1, <1>3, <2>1, <2>6 DEF ScopeTypeOK, G!Idle
  <2> QED BY <1>2, <2>2, <2>3, <2>4, <2>5, <2>6
<1>6. DeletedIsUnlabelled' /\ HeadsInv'
  BY <1>1, <1>3, <1>4 DEF ScopeInv, DeletedIsUnlabelled, HeadsInv, Right
<1>7. Synced'
  BY <1>1, <1>2, <1>4 DEF ScopeInv, ScopeTypeOK, Synced, G!Synced, LastListed
<1>8. FetchInv'
  <2>1. CASE collection.step = "fetch" /\ UNCHANGED <<collection, checkpoint>>
    <3>1. FetchInv
      BY DEF ScopeInv
    <3>2. \A e \in collection.effects : EffectInv(e)'
      BY <1>1, <1>3, <1>4, <2>1, <3>1 DEF FetchInv, EffectInv, Right, Unmoved
    <3>3. \A n, c, t : G!selected(n, c, t)' = G!selected(n, c, t)
      BY <1>1 DEF G!selected, G!Changes
    <3> QED BY <1>1, <1>4, <2>1, <3>1, <3>2 DEF FetchInv, Unmoved, G!selected, G!Changes
  <2>2. CASE collection'.step # "fetch"
    BY <2>2 DEF FetchInv
  <2>3. \/ collection'.step # "fetch"
        \/ collection.step = "fetch" /\ UNCHANGED <<collection, checkpoint>>
    <3>1. CASE UNCHANGED <<collection, checkpoint>>
      BY <3>1 DEF ScopeInv, ScopeTypeOK
    <3>2. CASE ~UNCHANGED <<collection, checkpoint>>
      <4>1. G!Idle.step = "idle"
        BY DEF G!Idle
      <4> QED BY <1>2, <3>2, <4>1
    <3> QED BY <3>1, <3>2
  <2> QED BY <2>1, <2>2, <2>3
<1> QED BY <1>5, <1>6, <1>7, <1>8 DEF ScopeInv

\* While nothing but the collection changes, it is all that there is to look at.
LEMMA ScopeCollects ==
    ASSUME ScopeInv, UNCHANGED <<log, scope, checkpoint, availability, members>>
    PROVE  /\ ScopeNow' = ScopeNow /\ DeletedIsUnlabelled' /\ HeadsInv' /\ Synced'
           /\ \A m \in Messages :
                LastListed(m)' = LastListed(m) /\ (G!Labelled(m)' <=> G!Labelled(m))
           /\ \A m, r, s : Right(m, r, s)' <=> Right(m, r, s)
<1>1. \A m : LastListed(m)' = LastListed(m) /\ (G!Labelled(m)' <=> G!Labelled(m))
  BY DEF LastListed, G!LastOf, G!Labelled, G!Changes
<1>2. ScopeNow' = ScopeNow /\ (\A m, r, s : Right(m, r, s)' <=> Right(m, r, s))
  BY <1>1 DEF ScopeNow, Right
<1>3. DeletedIsUnlabelled' /\ HeadsInv' /\ Synced'
  BY <1>1, <1>2 DEF ScopeInv, DeletedIsUnlabelled, G!Deleted, G!Changes, HeadsInv, Right,
                    Synced, G!Synced, LastListed
<1> QED BY <1>1, <1>2, <1>3

LEMMA ScopeListsMessages == ASSUME ScopeInv, G!list_messages PROVE ScopeInv'
<1> DEFINE listed == {m \in Messages : G!Labelled(m)}
           todo == IF scope = "label" THEN listed \cup members ELSE listed
<1>1. /\ collection.step = "list"
      /\ UNCHANGED <<log, scope, checkpoint, availability, members>>
      /\ collection' = [step |-> "fetch", expected |-> collection.expected,
                        attempt |-> collection.attempt, began |-> collection.began,
                        mode |-> scope, anchor |-> collection.anchor, todo |-> todo,
                        found |-> todo, effects |-> {}]
  BY DEF G!list_messages, G!Collecting, G!mailbox, G!store
<1>2. ScopeTypeOK /\ FetchInv
  BY DEF ScopeInv
<1>3. /\ ScopeNow' = ScopeNow /\ DeletedIsUnlabelled' /\ HeadsInv' /\ Synced'
      /\ \A m \in Messages :
           LastListed(m)' = LastListed(m) /\ (G!Labelled(m)' <=> G!Labelled(m))
  BY <1>1, ScopeCollects
<1>4. todo \subseteq Messages /\ \A m \in Messages \ todo : ~G!Labelled(m)
  BY <1>2 DEF ScopeTypeOK
<1>5. scope = "label" => members \subseteq todo
  OBVIOUS
<1> HIDE DEF todo
<1>6. ScopeTypeOK'
  BY <1>1, <1>2, <1>3 DEF ScopeTypeOK
<1>7. FetchInv'
  BY <1>1, <1>2, <1>3, <1>4, <1>5 DEF FetchInv, ScopeTypeOK
<1> QED BY <1>3, <1>6, <1>7 DEF ScopeInv

LEMMA ScopeListsHistory == ASSUME ScopeInv, G!list_history PROVE ScopeInv'
<1>1. /\ collection.step = "history"
      /\ UNCHANGED <<log, scope, checkpoint, availability, members>>
  BY DEF G!list_history, G!mailbox, G!store
<1>2. ScopeTypeOK /\ FetchInv /\ collection.expected = checkpoint /\ scope = "label" /\ checkpoint # 0
  BY <1>1 DEF ScopeInv, ScopeTypeOK
<1>3. /\ ScopeNow' = ScopeNow /\ DeletedIsUnlabelled' /\ HeadsInv' /\ Synced'
      /\ \A m \in Messages :
           LastListed(m)' = LastListed(m) /\ (G!Labelled(m)' <=> G!Labelled(m))
      /\ \A m, r, s : Right(m, r, s)' <=> Right(m, r, s)
  BY <1>1, ScopeCollects
<1>4. CASE collection' = [collection EXCEPT !.step = "profile"]
  <2>1. collection = [step |-> collection.step, expected |-> collection.expected,
                      attempt |-> collection.attempt, began |-> collection.began,
                      anchor |-> collection.anchor]
    BY <1>1, <1>2 DEF ScopeTypeOK
  <2>2. collection' = [step |-> "profile", expected |-> collection.expected,
                       attempt |-> collection.attempt, began |-> collection.began,
                       anchor |-> collection.anchor]
    BY <1>4, <2>1, CollectionRecords
  <2>3. ScopeTypeOK' /\ FetchInv'
    BY <1>1, <1>2, <1>3, <2>2 DEF ScopeTypeOK, FetchInv
  <2> QED BY <1>3, <2>3 DEF ScopeInv
<1>5. CASE ~(collection' = [collection EXCEPT !.step = "profile"])
  <2> DEFINE h(m) == G!selected(m, checkpoint, ScopeNow)
             changed == {m \in Messages : h(m) # 0}
             fetch == {m \in changed : log[h(m) - 1].kind = "label"}
             gone(m) == G!departed(m, checkpoint, ScopeNow)
             done == {gone(m) : m \in changed \ fetch}
  <2>1. collection' = [step |-> "fetch", expected |-> collection.expected,
                       attempt |-> collection.attempt, began |-> collection.began,
                       mode |-> "history", anchor |-> ScopeNow, todo |-> fetch,
                       found |-> fetch \cup {e.message : e \in done}, effects |-> done]
    BY <1>5 DEF G!list_history, G!Collecting, G!KindAt, G!HistoryNow, ScopeNow
  <2>2. ScopeNow \in Nat /\ ScopeNow # 0 /\ log \in Seq(ChangeRows) /\ checkpoint \in Nat
    BY <1>2 DEF ScopeTypeOK, ScopeNow
  <2>3. ASSUME NEW m \in Messages
        PROVE  /\ h(m) \in Nat /\ h(m) <= ScopeNow
               /\ h(m) # 0 => h(m) > checkpoint /\ h(m) - 1 \in G!Changes(m, G!Listed)
               /\ checkpoint <= LastListed(m) => h(m) = LastListed(m) + 1
               /\ LastListed(m) \in Nat /\ LastListed(m) < ScopeNow
               /\ h(m) # 0 => h(m) = LastListed(m) + 1
               /\ h(m) # 0 => G!Labelled(m) = (log[h(m) - 1].kind = "label")
    <3> HIDE DEF h
    <3>1. /\ LastListed(m) \in Nat /\ LastListed(m) < ScopeNow
          /\ h(m) \in Nat /\ h(m) <= ScopeNow
          /\ h(m) # 0 => h(m) > checkpoint /\ h(m) - 1 \in G!Changes(m, G!Listed)
          /\ checkpoint <= LastListed(m) => h(m) = LastListed(m) + 1
          /\ h(m) # 0 => h(m) = LastListed(m) + 1
          /\ h(m) # 0 => G!Labelled(m) = (log[h(m) - 1].kind = "label")
      BY <1>2, <2>2, NamedIs DEF h
    <3> QED BY <3>1
  <2>4. \A m \in Messages : /\ gone(m).message = m /\ gone(m).revision = h(m)
                            /\ gone(m).availability = "unavailable"
    BY DEF G!departed, G!Unavailable, G!Effect
  <2> HIDE DEF h, gone
  <2>5. ASSUME NEW m \in changed \ fetch
        PROVE  /\ m \in Messages /\ m \notin fetch /\ h(m) \in Nat /\ h(m) <= ScopeNow /\ h(m) # 0
               /\ Right(m, h(m), "unavailable") /\ LastListed(m) < h(m)
    <3>1. m \in Messages /\ m \notin fetch /\ h(m) # 0 /\ log[h(m) - 1].kind # "label"
      OBVIOUS
    <3>2. /\ h(m) \in Nat /\ h(m) <= ScopeNow /\ LastListed(m) \in Nat
          /\ h(m) = LastListed(m) + 1 /\ ~G!Labelled(m)
      BY <2>3, <3>1
    <3> HIDE DEF changed, fetch
    <3>3. Right(m, h(m), "unavailable")
      BY <1>2, <3>2 DEF Right
    <3> QED BY <3>1, <3>2, <3>3
  <2>6. \A m \in Messages \ changed : LastListed(m) < checkpoint
    BY <2>2, <2>3
  <2>7. fetch \cup {e.message : e \in done} = changed
    BY <2>4
  <2>8. \A e \in done : \E m \in changed \ fetch : e = gone(m)
    OBVIOUS
  <2>9. /\ fetch \subseteq Messages /\ changed \subseteq Messages
        /\ \A m \in fetch : h(m) # 0
    OBVIOUS
  <2> HIDE DEF changed, fetch, done
  <2>10. ScopeTypeOK'
    BY <1>1, <1>2, <1>3, <2>1, <2>2 DEF ScopeTypeOK
  <2>11. \A e, f \in done : e.message = f.message => e = f
    BY <2>4, <2>5, <2>8
  <2>12. ASSUME NEW e \in done PROVE EffectInv(e)'
    <3>1. PICK m \in changed \ fetch : e = gone(m)
      BY <2>8
    <3>2. /\ e.message = m /\ e.revision = h(m) /\ e.availability = "unavailable" /\ m \in Messages
      BY <2>4, <2>5, <3>1
    <3>3. Right(e.message, e.revision, e.availability)
      BY <2>5, <3>2
    <3>4. Right(e.message, e.revision, e.availability)'
      BY <1>3, <3>3
    <3> QED BY <1>1, <1>3, <2>1, <2>5, <3>2, <3>4 DEF EffectInv
  <2>13. \A m \in Messages \ changed : LastListed(m)' < checkpoint'
    BY <1>1, <1>3, <2>6
  <2>14. \A m \in fetch : G!selected(m, checkpoint, collection.anchor)' # 0
    <3>1. SUFFICES ASSUME NEW m \in fetch
                   PROVE  G!selected(m, checkpoint, collection.anchor)' # 0
      OBVIOUS
    <3>2. G!selected(m, checkpoint, collection.anchor)' = h(m)
      BY <1>1, <2>1 DEF h, G!selected, G!Changes, ScopeNow
    <3> QED BY <2>9, <3>2
  <2>15. FetchInv'
    BY <1>1, <1>2, <2>1, <2>7, <2>9, <2>11, <2>12, <2>13, <2>14 DEF FetchInv
  <2> QED BY <1>3, <2>10, <2>15 DEF ScopeInv
<1> QED BY <1>4, <1>5

LEMMA LaterIs ==
    ASSUME NEW a \in Nat, NEW b \in Nat
    PROVE  G!Later(a, b) \in {a, b} /\ G!Later(a, b) >= a /\ G!Later(a, b) >= b
<1>1. \E x \in {a, b} : \A y \in {a, b} : x >= y
  <2>1. a >= b \/ b >= a
    OBVIOUS
  <2> QED BY <2>1
<1>2. G!Max({a, b}) \in {a, b} /\ \A y \in {a, b} : G!Max({a, b}) >= y
  BY <1>1 DEF G!Max
<1> QED BY <1>2 DEF G!Later

LEMMA FetchRecords ==
    ASSUME NEW c, NEW t, NEW d,
           c = [step |-> "fetch", expected |-> c.expected, attempt |-> c.attempt,
                began |-> c.began, mode |-> c.mode, anchor |-> c.anchor, todo |-> c.todo,
                found |-> c.found, effects |-> c.effects]
    PROVE  [c EXCEPT !.todo = t, !.effects = d]
             = [step |-> "fetch", expected |-> c.expected, attempt |-> c.attempt,
                began |-> c.began, mode |-> c.mode, anchor |-> c.anchor, todo |-> t,
                found |-> c.found, effects |-> d]
<1> DEFINE e == [step |-> "fetch", expected |-> c.expected, attempt |-> c.attempt,
                 began |-> c.began, mode |-> c.mode, anchor |-> c.anchor, todo |-> t,
                 found |-> c.found, effects |-> c.effects]
<1>1. [c EXCEPT !.todo = t] = e
  OBVIOUS
<1>2. [c EXCEPT !.todo = t, !.effects = d] = [[c EXCEPT !.todo = t] EXCEPT !.effects = d]
  OBVIOUS
<1>3. [e EXCEPT !.effects = d]
        = [step |-> "fetch", expected |-> c.expected, attempt |-> c.attempt,
           began |-> c.began, mode |-> c.mode, anchor |-> c.anchor, todo |-> t,
           found |-> c.found, effects |-> d]
  OBVIOUS
<1> QED BY <1>1, <1>2, <1>3

\* What a message that was fetched is said to be.
FetchedRight(m, e) ==
    /\ e.message = m
    /\ e.revision \in Nat /\ e.revision <= ScopeNow /\ e.revision # 0
    /\ Right(m, e.revision, e.availability)
    /\ scope = "label" /\ Unmoved(m) => LastListed(m) < e.revision

\* Of a message that can still be fetched, or cannot, as of a history id that its last change
\* reached or precedes.
LEMMA FetchedIsRight ==
    ASSUME ScopeInv, scope = "label", NEW m \in Messages, NEW r \in Nat,
           r # 0, r <= ScopeNow, Unmoved(m) => LastListed(m) < r
    PROVE  /\ ~G!Deleted(m) =>
                FetchedRight(m, G!FetchedEffect(m, G!Later(r, G!MessageHistory(m))))
           /\ G!Deleted(m) => FetchedRight(m, G!Unavailable(m, r, "message_not_found"))
<1> DEFINE h == G!MessageHistory(m)
           last == LastListed(m)
           k == G!Later(r, h)
<1>1. log \in Seq(ChangeRows) /\ ScopeNow \in Nat
  BY DEF ScopeInv, ScopeTypeOK, ScopeNow
<1>2. h \in Nat /\ last < h /\ h <= ScopeNow
  BY <1>1, HistoryIs
<1>3. last \in Nat
  BY <1>1, LastIs DEF LastListed
<1>4. k \in {r, h} /\ k >= r /\ k >= h
  <2> HIDE DEF h
  <2> QED BY <1>2, LaterIs
<1>5. G!Deleted(m) => ~G!Labelled(m)
  BY DEF ScopeInv, DeletedIsUnlabelled
<1>6. /\ G!FetchedEffect(m, k).message = m /\ G!FetchedEffect(m, k).revision = k
      /\ G!FetchedEffect(m, k).availability = "available" <=> G!Labelled(m)
  BY DEF G!FetchedEffect, G!Available, G!Unavailable, G!Effect
<1>7. LET e == G!Unavailable(m, r, "message_not_found")
      IN  e.message = m /\ e.revision = r /\ e.availability = "unavailable"
  BY DEF G!Unavailable, G!Effect
<1>8. Right(m, k, G!FetchedEffect(m, k).availability)
  BY <1>6 DEF Right
<1>9. G!Deleted(m) => Right(m, r, "unavailable")
  BY <1>5 DEF Right
<1> HIDE DEF h, k, last
<1>10. k \in Nat /\ k <= ScopeNow /\ k # 0 /\ last < k
  BY <1>1, <1>2, <1>3, <1>4
<1>11. FetchedRight(m, G!FetchedEffect(m, k))
  BY <1>6, <1>8, <1>10 DEF FetchedRight, last
<1>12. G!Deleted(m) => FetchedRight(m, G!Unavailable(m, r, "message_not_found"))
  BY <1>7, <1>9 DEF FetchedRight
<1> QED BY <1>11, <1>12 DEF k, h

LEMMA ScopeFetches ==
    ASSUME ScopeInv, NEW m \in Messages, G!get_message(m)
    PROVE  ScopeInv'
<1>1. /\ collection.step = "fetch" /\ m \in collection.todo
      /\ UNCHANGED <<log, scope, checkpoint, availability, members>>
  BY DEF G!get_message, G!mailbox, G!store
<1>2. ScopeTypeOK /\ FetchInv
  BY DEF ScopeInv
<1>3. /\ ScopeNow' = ScopeNow /\ DeletedIsUnlabelled' /\ HeadsInv' /\ Synced'
      /\ \A n \in Messages :
           LastListed(n)' = LastListed(n) /\ (G!Labelled(n)' <=> G!Labelled(n))
      /\ \A n, r, s : Right(n, r, s)' <=> Right(n, r, s)
  BY <1>1, ScopeCollects
<1>4. /\ log \in Seq(ChangeRows) /\ ScopeNow \in Nat /\ checkpoint \in Nat
      /\ collection.expected = checkpoint
      /\ collection.anchor \in Nat /\ collection.anchor <= ScopeNow /\ collection.anchor # 0
  BY <1>1, <1>2 DEF ScopeTypeOK, ScopeNow
<1>5. /\ collection.mode = "history" => scope = "label" /\ checkpoint # 0
      /\ collection.mode # "history" => collection.mode = scope
      /\ collection.mode = "history" => G!selected(m, checkpoint, collection.anchor) # 0
  BY <1>1, <1>2 DEF FetchInv
<1>6. \/ collection' = G!Idle
      \/ /\ collection.mode = "history"
         /\ collection' = [step |-> "history", expected |-> collection.expected,
                           attempt |-> collection.attempt + 1, began |-> collection.began,
                           anchor |-> 0]
      \/ \E e : G!Fetched(m, {e}) /\ FetchedRight(m, e)
  <2>1. CASE collection.mode = "label"
    <3>1. scope = "label"
      BY <1>5, <2>1
    <3>2. G!Fetched(m, {G!reconciled(m, collection.anchor)})
      BY <2>1 DEF G!get_message
    <3>3. /\ ~G!Deleted(m) => FetchedRight(m, G!FetchedEffect(m,
                                G!Later(collection.anchor, G!MessageHistory(m))))
          /\ G!Deleted(m) =>
               FetchedRight(m, G!Unavailable(m, collection.anchor, "message_not_found"))
      BY <1>4, <3>1, FetchedIsRight DEF Unmoved
    <3>4. FetchedRight(m, G!reconciled(m, collection.anchor))
      BY <3>3 DEF G!reconciled
    <3> QED BY <3>2, <3>4
  <2>2. CASE collection.mode = "search"
    <3>1. scope = "search"
      BY <1>5, <2>2
    <3>2. collection' = G!Idle \/ G!Fetched(m, {G!Available(m, G!MessageHistory(m))})
      BY <2>2 DEF G!get_message
    <3> DEFINE e == G!Available(m, G!MessageHistory(m))
    <3>3. /\ e.message = m /\ e.revision = G!MessageHistory(m) /\ e.availability = "available"
      BY DEF G!Available, G!Effect
    <3>4. /\ G!MessageHistory(m) \in Nat /\ LastListed(m) < G!MessageHistory(m)
          /\ G!MessageHistory(m) <= ScopeNow
      BY <1>4, HistoryIs
    <3>5. LastListed(m) \in Nat
      BY <1>4, LastIs DEF LastListed
    <3>6. Right(m, e.revision, e.availability)
      BY <3>1, <3>3 DEF Right
    <3> HIDE DEF e
    <3>7. FetchedRight(m, e)
      BY <3>3, <3>4, <3>5, <3>6 DEF FetchedRight
    <3> QED BY <3>2, <3>7 DEF e
  <2>3. CASE collection.mode = "history"
    <3> DEFINE r == G!selected(m, checkpoint, collection.anchor)
               e == G!followed(m, checkpoint, collection.anchor)
    <3>1. \/ G!Fetched(m, {e})
          \/ collection' = G!Idle
          \/ collection' = [step |-> "history", expected |-> collection.expected,
                            attempt |-> collection.attempt + 1, began |-> collection.began,
                            anchor |-> 0]
      BY <1>4, <2>3 DEF G!get_message
    <3>2. scope = "label" /\ checkpoint # 0 /\ r # 0
      BY <1>5, <2>3
    <3>3. LastListed(m) \in Nat
      BY <1>4, LastIs DEF LastListed
    <3>4. /\ r \in Nat /\ r <= collection.anchor
          /\ r # 0 => r > checkpoint
          /\ checkpoint <= LastListed(m) /\ LastListed(m) < collection.anchor /\ LastListed(m) # 0
               => r = LastListed(m) + 1
      BY <1>4, SelectedIs
    <3>5. r \in Nat /\ r # 0 /\ r <= ScopeNow /\ (Unmoved(m) => LastListed(m) < r)
      <4> HIDE DEF r
      <4> QED BY <1>4, <3>2, <3>3, <3>4 DEF Unmoved
    <3>6. /\ ~G!Deleted(m) =>
               FetchedRight(m, G!FetchedEffect(m, G!Later(r, G!MessageHistory(m))))
          /\ G!Deleted(m) => FetchedRight(m, G!Unavailable(m, r, "message_not_found"))
      <4> HIDE DEF r
      <4> QED BY <3>2, <3>5, FetchedIsRight
    <3>7. FetchedRight(m, e)
      BY <3>6 DEF G!followed
    <3> QED BY <2>3, <3>1, <3>7
  <2>4. scope \in {"label", "search"}
    BY <1>2 DEF ScopeTypeOK
  <2> QED BY <1>5, <2>1, <2>2, <2>3, <2>4
<1>7. CASE collection' = G!Idle
  <2>1. ScopeTypeOK' /\ FetchInv'
    BY <1>1, <1>2, <1>3, <1>7 DEF ScopeTypeOK, FetchInv, G!Idle
  <2> QED BY <1>3, <2>1 DEF ScopeInv
<1>8. CASE /\ collection.mode = "history"
           /\ collection' = [step |-> "history", expected |-> collection.expected,
                             attempt |-> collection.attempt + 1, began |-> collection.began,
                             anchor |-> 0]
  <2>1. ScopeTypeOK' /\ FetchInv'
    BY <1>1, <1>2, <1>3, <1>4, <1>5, <1>8 DEF ScopeTypeOK, FetchInv
  <2> QED BY <1>3, <2>1 DEF ScopeInv
<1>9. ASSUME NEW e, G!Fetched(m, {e}), FetchedRight(m, e) PROVE ScopeInv'
  <2> DEFINE todo == collection.todo \ {m}
             done == collection.effects \cup {e}
  <2>1. collection' = [collection EXCEPT !.todo = todo, !.effects = done]
    BY <1>9 DEF G!Fetched
  <2>2. collection = [step |-> "fetch", expected |-> collection.expected,
                      attempt |-> collection.attempt, began |-> collection.began,
                      mode |-> collection.mode, anchor |-> collection.anchor,
                      todo |-> collection.todo, found |-> collection.found,
                      effects |-> collection.effects]
    BY <1>1, <1>2 DEF ScopeTypeOK
  <2>3. collection' = [step |-> "fetch", expected |-> collection.expected,
                       attempt |-> collection.attempt, began |-> collection.began,
                       mode |-> collection.mode, anchor |-> collection.anchor,
                       todo |-> todo, found |-> collection.found, effects |-> done]
    <3> HIDE DEF todo, done
    <3> QED BY <2>1, <2>2, FetchRecords
  <2>4. /\ collection.found = collection.todo \cup {f.message : f \in collection.effects}
        /\ collection.todo \subseteq Messages
        /\ \A f \in collection.effects : EffectInv(f)
        /\ \A f, g \in collection.effects : f.message = g.message => f = g
    BY <1>1, <1>2 DEF FetchInv
  <2>5. e.message = m /\ m \notin todo
    BY <1>9 DEF FetchedRight
  <2>6. \A f \in collection.effects : f.message # m
    BY <1>1, <2>4 DEF EffectInv
  <2>7. collection.found = todo \cup {f.message : f \in done}
    BY <1>1, <2>4, <2>5
  <2>8. \A f, g \in done : f.message = g.message => f = g
    BY <2>4, <2>5, <2>6
  <2>9. ASSUME NEW f \in done PROVE EffectInv(f)'
    <3>1. /\ f.message \in Messages /\ f.message \notin todo
          /\ f.revision \in Nat /\ f.revision <= ScopeNow /\ f.revision # 0
          /\ Right(f.message, f.revision, f.availability)
          /\ scope = "label" /\ Unmoved(f.message) => LastListed(f.message) < f.revision
      <4>1. CASE f = e
        BY <1>9, <2>5, <4>1 DEF FetchedRight
      <4>2. CASE f # e
        <5>1. f \in collection.effects
          BY <4>2
        <5> QED BY <2>4, <5>1 DEF EffectInv
      <4> QED BY <4>1, <4>2
    <3> HIDE DEF todo, done
    <3>2. Right(f.message, f.revision, f.availability)'
      BY <1>3, <3>1
    <3>3. LastListed(f.message)' = LastListed(f.message)
      BY <1>3, <3>1
    <3>4. Unmoved(f.message)' <=> Unmoved(f.message)
      BY <2>3, <3>3 DEF Unmoved
    <3> QED BY <1>1, <1>3, <2>3, <3>1, <3>2, <3>3, <3>4 DEF EffectInv
  <2>10. todo \subseteq collection.todo
    OBVIOUS
  <2> HIDE DEF todo, done
  <2>11. ScopeTypeOK'
    BY <1>1, <1>2, <1>3, <2>3 DEF ScopeTypeOK
  <2>12. \A n \in Messages \ collection.found :
           Unmoved(n)' => IF collection.mode = "history" THEN LastListed(n)' < checkpoint
                                                         ELSE ~G!Labelled(n)'
    BY <1>1, <1>2, <1>3, <2>3 DEF FetchInv, Unmoved
  <2>13. \A n, c, t : G!selected(n, c, t)' = G!selected(n, c, t)
    BY <1>1 DEF G!selected, G!Changes
  <2>14. collection.mode = "history" =>
           \A n \in todo : G!selected(n, checkpoint, collection.anchor)' # 0
    BY <1>1, <1>2, <2>3, <2>10 DEF FetchInv, G!selected, G!Changes
  <2>15. FetchInv'
    BY <1>1, <1>2, <2>3, <2>4, <2>7, <2>8, <2>9, <2>10, <2>12, <2>14 DEF FetchInv
  <2> QED BY <1>3, <2>11, <2>15 DEF ScopeInv
<1> QED BY <1>6, <1>7, <1>8, <1>9

\* A head takes what the batch says of its message, when that is newer.
LEMMA HeadsAdvance ==
    ASSUME ScopeInv, G!commit_batch, NEW m \in Messages
    PROVE  \/ /\ availability'[m] = availability[m]
              /\ \A e \in collection.effects :
                   e.message = m => e.revision <= availability[m].history
           \/ \E e \in collection.effects :
                /\ e.message = m
                /\ availability'[m] = [history |-> e.revision, availability |-> e.availability]
<1>1. collection.step = "fetch" /\ availability'[m] = G!advance_scope_head(m, collection.effects)
  BY DEF G!commit_batch, G!Collected
<1>2. /\ \A e, f \in collection.effects : e.message = f.message => e = f
      /\ \A e \in collection.effects : e.revision \in Nat
      /\ availability[m].history \in Nat
  BY <1>1 DEF ScopeInv, ScopeTypeOK, FetchInv, EffectInv
<1>3. CASE \E e \in collection.effects :
             e.message = m /\ e.revision > availability[m].history
  <2>1. PICK e \in collection.effects :
              e.message = m /\ e.revision > availability[m].history
    BY <1>3
  <2>2. G!EffectOn(m, collection.effects) = e
    BY <1>2, <2>1 DEF G!EffectOn
  <2>3. availability'[m] = [history |-> e.revision, availability |-> e.availability]
    BY <1>1, <1>3, <2>2 DEF G!advance_scope_head
  <2> QED BY <2>1, <2>3
<1>4. CASE ~\E e \in collection.effects :
              e.message = m /\ e.revision > availability[m].history
  <2>1. availability'[m] = availability[m]
    BY <1>1, <1>4 DEF G!advance_scope_head
  <2>2. \A e \in collection.effects :
          e.message = m => e.revision <= availability[m].history
    BY <1>2, <1>4
  <2> QED BY <2>1, <2>2
<1> QED BY <1>3, <1>4

LEMMA ScopeCommits == ASSUME ScopeInv, G!commit_batch PROVE ScopeInv'
<1>1. /\ collection.step = "fetch" /\ collection.todo = {} /\ collection' = G!Idle
      /\ members' = members \cup collection.found /\ checkpoint' = collection.anchor
      /\ UNCHANGED <<log, scope>>
  BY DEF G!commit_batch, G!Collected, G!mailbox
<1>2. ScopeTypeOK /\ DeletedIsUnlabelled /\ HeadsInv /\ FetchInv /\ Synced
  BY DEF ScopeInv
<1>3. /\ log \in Seq(ChangeRows) /\ ScopeNow \in Nat /\ checkpoint \in Nat
      /\ scope \in {"label", "search"}
      /\ collection.anchor \in Nat /\ collection.anchor <= ScopeNow /\ collection.anchor # 0
  BY <1>1, <1>2 DEF ScopeTypeOK, ScopeNow
<1>4. /\ collection.found = {e.message : e \in collection.effects}
      /\ collection.found \subseteq Messages
      /\ \A e \in collection.effects : EffectInv(e)
      /\ \A m \in Messages \ collection.found :
           Unmoved(m) => IF collection.mode = "history" THEN LastListed(m) < checkpoint
                                                        ELSE ~G!Labelled(m)
      /\ collection.mode = "history" => scope = "label" /\ checkpoint # 0
      /\ collection.mode # "history" => collection.mode = scope
      /\ collection.mode = "label" => members \subseteq collection.found
  BY <1>1, <1>2 DEF FetchInv, EffectInv
<1>5. /\ ScopeNow' = ScopeNow
      /\ \A m : LastListed(m)' = LastListed(m) /\ (G!Labelled(m)' <=> G!Labelled(m))
      /\ \A m, r, s : Right(m, r, s)' <=> Right(m, r, s)
  BY <1>1 DEF ScopeNow, Right, LastListed, G!LastOf, G!Labelled, G!Changes
<1>6. DeletedIsUnlabelled'
  BY <1>1, <1>2, <1>5 DEF DeletedIsUnlabelled, G!Deleted, G!Changes
<1>7. ASSUME NEW m \in Messages
      PROVE  /\ availability[m].history \in Nat /\ availability[m].history <= ScopeNow
             /\ Right(m, availability[m].history, availability[m].availability)
             /\ availability[m].history = 0 => availability[m] = G!NoHead
             /\ availability[m].history # 0 => m \in members
  BY <1>2 DEF ScopeTypeOK, HeadsInv
<1>8. ASSUME NEW m \in Messages
      PROVE  LET head == availability'[m]
             IN  /\ head.history \in Nat /\ head.history <= ScopeNow
                 /\ Right(m, head.history, head.availability)
                 /\ head.history = 0 => head = G!NoHead
                 /\ head.history # 0 => m \in members'
                 /\ \A e \in collection.effects : e.message = m => e.revision <= head.history
                 /\ m \notin collection.found => head = availability[m]
  <2>1. CASE /\ availability'[m] = availability[m]
             /\ \A e \in collection.effects :
                  e.message = m => e.revision <= availability[m].history
    BY <1>1, <1>7, <2>1
  <2>2. ASSUME NEW e \in collection.effects, e.message = m,
               availability'[m] = [history |-> e.revision, availability |-> e.availability]
        PROVE  LET head == availability'[m]
               IN  /\ head.history \in Nat /\ head.history <= ScopeNow
                   /\ Right(m, head.history, head.availability)
                   /\ head.history = 0 => head = G!NoHead
                   /\ head.history # 0 => m \in members'
                   /\ \A f \in collection.effects : f.message = m => f.revision <= head.history
                   /\ m \notin collection.found => head = availability[m]
    <3>1. /\ e.revision \in Nat /\ e.revision <= ScopeNow /\ e.revision # 0
          /\ Right(m, e.revision, e.availability)
      BY <1>4, <2>2 DEF EffectInv
    <3>2. \A f \in collection.effects : f.message = m => f = e
      BY <1>1, <1>2, <2>2 DEF FetchInv
    <3>3. m \in collection.found
      BY <1>4, <2>2
    <3>4. availability'[m].history = e.revision /\ availability'[m].availability = e.availability
      BY <2>2
    <3> QED BY <1>1, <3>1, <3>2, <3>3, <3>4
  <2> QED BY <2>1, <2>2, HeadsAdvance
<1>9. HeadsInv'
  <2> SUFFICES ASSUME NEW m \in Messages
               PROVE  /\ availability'[m].history <= ScopeNow'
                      /\ Right(m, availability[m].history, availability[m].availability)'
                      /\ availability'[m].history = 0 => availability'[m] = G!NoHead
                      /\ availability'[m].history # 0 => m \in members'
    BY DEF HeadsInv, G!NoHead
  <2>1. Right(m, availability[m].history, availability[m].availability)'
          <=> Right(m, availability'[m].history, availability'[m].availability)
    BY <1>1, <1>5 DEF Right
  <2> QED BY <1>5, <1>8, <2>1
<1>10. ScopeTypeOK'
  BY <1>1, <1>2, <1>3, <1>4, <1>5, <1>8 DEF ScopeTypeOK, G!Idle
<1>11. FetchInv'
  BY <1>1 DEF FetchInv, G!Idle
<1>12. ASSUME NEW m \in Messages, Unmoved(m)
       PROVE  IF scope = "label" THEN G!Labelled(m) <=> availability'[m].availability = "available"
                                 ELSE G!Labelled(m) => availability'[m].availability = "available"
  <2>1. LastListed(m) \in Nat
    BY <1>3, LastIs DEF LastListed
  <2>2. CASE m \in collection.found
    <3>1. PICK e \in collection.effects : e.message = m
      BY <1>4, <2>2
    <3>2. /\ e.revision \in Nat /\ e.revision # 0
          /\ scope = "label" => LastListed(m) < e.revision
      BY <1>4, <1>12, <3>1 DEF EffectInv
    <3>3. /\ availability'[m].history \in Nat /\ e.revision <= availability'[m].history
          /\ Right(m, availability'[m].history, availability'[m].availability)
      BY <1>8, <3>1
    <3> QED BY <1>3, <2>1, <3>2, <3>3 DEF Right
  <2>3. CASE m \notin collection.found /\ collection.mode = "history"
    <3>1. LastListed(m) < checkpoint /\ scope = "label" /\ checkpoint # 0
      BY <1>4, <1>12, <2>3
    <3>2. LastListed(m) + 1 <= checkpoint
      BY <1>3, <2>1, <3>1
    <3>3. G!Labelled(m) <=> availability[m].availability = "available"
      BY <1>2, <3>1, <3>2 DEF Synced, G!Synced, LastListed
    <3> QED BY <1>8, <2>3, <3>1, <3>3
  <2>4. CASE m \notin collection.found /\ collection.mode # "history"
    <3>1. ~G!Labelled(m) /\ collection.mode = scope
      BY <1>4, <1>12, <2>4
    <3>2. scope = "label" => availability[m] = G!NoHead
      BY <1>4, <1>7, <2>4, <3>1
    <3>3. scope = "label" => availability'[m].availability = "none"
      BY <1>8, <2>4, <3>2 DEF G!NoHead
    <3> QED BY <3>1, <3>3
  <2> QED BY <2>2, <2>3, <2>4
<1>13. Synced'
  <2>1. ASSUME NEW m \in Messages, LastListed(m) + 1 <= collection.anchor PROVE Unmoved(m)
    <3>1. LastListed(m) \in Nat
      BY <1>3, LastIs DEF LastListed
    <3> QED BY <1>3, <2>1, <3>1 DEF Unmoved
  <2> QED BY <1>1, <1>5, <1>12, <2>1 DEF Synced, G!Synced, LastListed
<1> QED BY <1>6, <1>9, <1>10, <1>11, <1>13 DEF ScopeInv

LEMMA ScopeStays == ASSUME ScopeInv, UNCHANGED scopeVars PROVE ScopeInv'
<1>1. UNCHANGED <<log, scope, checkpoint, availability, members, collection>>
  BY DEF scopeVars
<1>2. /\ ScopeNow' = ScopeNow /\ DeletedIsUnlabelled' /\ HeadsInv' /\ Synced'
      /\ \A m \in Messages :
           LastListed(m)' = LastListed(m) /\ (G!Labelled(m)' <=> G!Labelled(m))
      /\ \A m, r, s : Right(m, r, s)' <=> Right(m, r, s)
  BY <1>1, ScopeCollects
<1>3. ScopeTypeOK'
  BY <1>1, <1>2 DEF ScopeInv, ScopeTypeOK
<1>4. FetchInv'
  <2>1. FetchInv
    BY DEF ScopeInv
  <2>2. \A e \in collection.effects : collection.step = "fetch" => EffectInv(e)'
    BY <1>1, <1>2, <2>1 DEF FetchInv, EffectInv, Unmoved, Right
  <2> QED BY <1>1, <1>2, <2>1, <2>2 DEF FetchInv, Unmoved, G!selected, G!Changes
<1> QED BY <1>2, <1>3, <1>4 DEF ScopeInv

\* Whatever changes in the mailbox while a batch is collected (gmail_sync.rs) and whatever
\* the batch is cut off by, what commit_batch (gmail_repository.rs) publishes with a
\* checkpoint shows as available exactly the messages that carry the label, of those whose
\* label has not changed since the checkpoint.
THEOREM MirrorsAreSynced == SpecConnectors => []Synced
<1>1. InitConnectors => ScopeInv
  BY ScopeInit
<1>2. ScopeInv /\ [NextConnectors]_allVars => ScopeInv'
  <2> SUFFICES ASSUME ScopeInv, [NextConnectors]_allVars PROVE ScopeInv'
    OBVIOUS
  <2>1. G!Next \/ UNCHANGED scopeVars
    BY ScopeStep DEF allVars
  <2>2. CASE UNCHANGED scopeVars
    BY <2>2, ScopeStays
  <2>3. CASE G!Next
    <3>1. ASSUME NEW m \in Messages, NEW kind \in G!Listed \cup {"touch"}, G!Change(m, kind)
          PROVE  ScopeInv'
      BY <3>1, ScopeChanges
    <3>2. CASE G!Forget \/ G!collect \/ G!profile_history_id \/ G!Abort \/ G!disconnect
      BY <3>2, ScopeBegins
    <3>3. CASE G!list_messages
      BY <3>3, ScopeListsMessages
    <3>4. CASE G!list_history
      BY <3>4, ScopeListsHistory
    <3>5. ASSUME NEW m \in Messages, G!get_message(m) PROVE ScopeInv'
      BY <3>5, ScopeFetches
    <3>6. CASE G!commit_batch
      BY <3>6, ScopeCommits
    <3> QED BY <2>3, <3>1, <3>2, <3>3, <3>4, <3>5, <3>6 DEF G!Next
  <2> QED BY <2>1, <2>2, <2>3
<1>3. ScopeInv => Synced
  BY DEF ScopeInv
<1> QED BY <1>1, <1>2, <1>3, PTL DEF SpecConnectors

-----------------------------------------------------------------------------
(* Threads that wait for one another                                       *)

\* What a thread holds at most once: a step of a handler that asks for it comes before the step
\* after which it is held, and never again.
Once == {"shared", "gate", "connector", "spawn_blocking"}

\* The connector is only locked on the blocking pool.
Ordered(todo, held) ==
    /\ \A i, j \in DOMAIN todo : todo[i] = todo[j] /\ todo[i] \in Once => i = j
    /\ \A i \in DOMAIN todo : todo[i] \in Once => ~Held(held, todo[i])
    /\ \A i \in DOMAIN todo : todo[i] = "spawn_blocking" => ~Held(held, "blocking")
    /\ \A i \in DOMAIN todo : todo[i] = "connector" =>
          Held(held, "blocking") \/ \E j \in DOMAIN todo : j < i /\ todo[j] = "spawn_blocking"
    /\ \A i, j \in DOMAIN held : held[i] = "blocking" /\ held[j] = "blocking" => i = j
    /\ \A i \in DOMAIN held : held[i] = "connector" =>
          \E j \in DOMAIN held : j < i /\ held[j] = "blocking"

\* A command of the main thread asks for the exclusive permit before anything else, and only
\* the gate comes after it; it never asks for the connector.
OfMain(todo, held) ==
    /\ \A i \in DOMAIN todo : todo[i] \notin {"connector", "spawn_blocking"}
    /\ \A i \in DOMAIN held : held[i] # "blocking"
    /\ \A i \in DOMAIN todo :
          todo[i] = "exclusive" => todo = <<"exclusive", "gate">> /\ held = <<>>
    /\ Held(held, "exclusive") => todo \in {<<"gate">>, <<>>}
    /\ todo \in {C!set_local_only, Draining, Publishing} => held = <<>>

\* The asynchronous commands and the scheduler write nothing that other writers guard.
OfTasks(todo, held) ==
    /\ \A i \in DOMAIN todo : todo[i] \notin {"exclusive", "gate"}
    /\ \A i \in DOMAIN held : held[i] \notin {"exclusive", "gate"}

InOrder(t, todo, held, at) ==
    /\ Ordered(todo, held)
    /\ t = C!Main => OfMain(todo, held) /\ at \in {"idle", "main", "awaiting"}
    /\ t # C!Main => OfTasks(todo, held)
    /\ Held(held, "blocking") => at \in {"pool", "awaiting"}

\* The order in which threads take what others wait for.
OrderInv ==
    \A t \in C!Callers : InOrder(t, thread[t].todo, thread[t].held, thread[t].at)

-----------------------------------------------------------------------------
(* The handlers keep the order                                             *)

\* The handlers are written as calls of one another: each is the sequence of its steps.
Same(s, t) ==
    /\ s \in Seq(HandlerSteps) /\ t \in Seq(HandlerSteps)
    /\ Len(s) = Len(t) /\ \A i \in 1..Len(t) : s[i] = t[i]

LEMMA SameSteps == \A s, t : Same(s, t) => s = t
<1> SUFFICES ASSUME NEW s, NEW t, Same(s, t) PROVE s = t
  OBVIOUS
<1>1. s = [i \in 1..Len(s) |-> s[i]] /\ t = [i \in 1..Len(t) |-> t[i]]
  BY DEF Same
<1> QED BY <1>1 DEF Same

LEMMA StepsOfHandlers ==
    /\ C!catalog_command = <<"shared">> /\ C!preview_deletion = <<"shared", "gate">>
    /\ C!preview_outfit_recommendation = <<"lease", "shared", "release", "lease">>
    /\ C!request_outfit_recommendation = <<"lease", "shared", "release", "lease", "http">>
    /\ C!preview_try_on = <<"lease", "shared", "release">>
    /\ C!submit_try_on = <<"lease", "shared", "release", "local", "trigger">>
    /\ C!connect_gmail = <<"lease", "shared", "lease", "http">>
    /\ C!sync_gmail = <<"lease", "shared", "lease", "http">>
    /\ C!disconnect_gmail = <<"cleanup", "shared", "revoke">>
    /\ C!request_receipt_intelligence = <<"shared", "local", "release", "lease", "http">>
    /\ C!approve_and_fetch_receipt_image = <<"lease", "shared", "local", "lease", "http">>
    /\ C!get_photokit_connector = <<"spawn_blocking", "shared", "connector">>
    /\ C!disable_photokit = <<"spawn_blocking", "shared", "connector">>
    /\ C!begin_photokit_setup =
         <<"lease", "spawn_blocking", "shared", "lease", "connector", "http">>
    /\ C!configure_photokit_scope =
         <<"lease", "spawn_blocking", "shared", "lease", "connector", "http">>
    /\ C!sync_photokit = <<"lease", "spawn_blocking", "lease", "connector", "http", "shared">>
    /\ C!startup_reconcile = <<"spawn_blocking", "lease", "connector", "http", "shared">>
    /\ C!scheduler_round = <<"shared", "lease", "local", "http">>
<1> USE DEF Same, HandlerSteps, C!execute_command, C!execute_photokit_command
<1>1. /\ C!acquire_command_authority("preview_outfit_recommendation") = <<"lease">>
      /\ C!acquire_command_authority("request_outfit_recommendation") = <<"lease">>
      /\ C!acquire_command_authority("preview_try_on") = <<"lease">>
      /\ C!acquire_command_authority("submit_try_on") = <<"lease">>
      /\ C!acquire_command_authority("connect_gmail") = <<"lease">>
      /\ C!acquire_command_authority("sync_gmail") = <<"lease">>
      /\ C!acquire_command_authority("request_receipt_intelligence") = <<"lease">>
      /\ C!acquire_command_authority("approve_and_fetch_receipt_image") = <<"lease">>
      /\ C!acquire_command_authority("begin_photokit_setup") = <<"lease">>
      /\ C!acquire_command_authority("configure_photokit_scope") = <<"lease">>
      /\ C!acquire_command_authority("sync_photokit") = <<"lease">>
  <2>1. \A n \in C!Outbound : C!acquire_command_authority(n) = <<"lease">>
    BY DEF C!acquire_command_authority, C!classify_command, C!Outbound, C!LocalCleanup
  <2> QED BY <2>1 DEF C!Outbound
<1>2. /\ C!catalog_command = <<"shared">>
      /\ Same(C!preview_deletion, <<"shared", "gate">>)
  BY DEF C!catalog_command, C!preview_deletion
<1>3. C!preview_outfit_recommendation = <<"lease", "shared", "release", "lease">>
  <2>1. Same(<<"lease">> \o <<"shared", "release">> \o (<<"lease">> \o <<>>),
             <<"lease", "shared", "release", "lease">>)
    OBVIOUS
  <2>2. C!preview_outfit_recommendation =
          <<"lease">> \o <<"shared", "release">> \o (<<"lease">> \o <<>>)
    BY <1>1 DEF C!preview_outfit_recommendation, C!AuthorizedOutfitRecommender
  <2> QED BY <2>1, <2>2, SameSteps
<1>4. C!request_outfit_recommendation =
        <<"lease", "shared", "release", "lease", "http">>
  <2>1. Same(<<"lease">> \o <<"shared", "release">> \o (<<"lease">> \o <<"http">>),
             <<"lease", "shared", "release", "lease", "http">>)
    OBVIOUS
  <2>2. C!request_outfit_recommendation =
          <<"lease">> \o <<"shared", "release">> \o (<<"lease">> \o <<"http">>)
    BY <1>1 DEF C!request_outfit_recommendation, C!AuthorizedOutfitRecommender
  <2> QED BY <2>1, <2>2, SameSteps
<1>5. C!preview_try_on = <<"lease", "shared", "release">>
  <2>1. Same(<<"lease">> \o <<"shared", "release">>, <<"lease", "shared", "release">>)
    OBVIOUS
  <2>2. C!preview_try_on = <<"lease">> \o <<"shared", "release">>
    BY <1>1 DEF C!preview_try_on
  <2> QED BY <2>1, <2>2, SameSteps
<1>6. C!submit_try_on = <<"lease", "shared", "release", "local", "trigger">>
  <2>1. Same(<<"lease">> \o <<"shared", "release", "local", "trigger">>,
             <<"lease", "shared", "release", "local", "trigger">>)
    OBVIOUS
  <2>2. C!submit_try_on = <<"lease">> \o <<"shared", "release", "local", "trigger">>
    BY <1>1 DEF C!submit_try_on
  <2> QED BY <2>1, <2>2, SameSteps
<1>7. /\ C!connect_gmail = <<"lease", "shared", "lease", "http">>
      /\ C!sync_gmail = <<"lease", "shared", "lease", "http">>
  <2>1. Same(<<"lease">> \o (<<"shared">> \o (<<"lease">> \o <<"http">>)),
             <<"lease", "shared", "lease", "http">>)
    OBVIOUS
  <2>2. /\ C!connect_gmail = <<"lease">> \o (<<"shared">> \o (<<"lease">> \o <<"http">>))
        /\ C!sync_gmail = <<"lease">> \o (<<"shared">> \o (<<"lease">> \o <<"http">>))
    BY <1>1 DEF C!connect_gmail, C!sync_gmail, C!AuthorizedGmailConnector
  <2> QED BY <2>1, <2>2, SameSteps
<1>8. C!request_receipt_intelligence =
        <<"shared", "local", "release", "lease", "http">>
  <2>1. Same(<<"shared", "local", "release">> \o <<"lease">> \o <<"http">>,
             <<"shared", "local", "release", "lease", "http">>)
    OBVIOUS
  <2>2. C!request_receipt_intelligence =
          <<"shared", "local", "release">> \o <<"lease">> \o <<"http">>
    BY <1>1 DEF C!request_receipt_intelligence
  <2> QED BY <2>1, <2>2, SameSteps
<1>9. C!approve_and_fetch_receipt_image =
        <<"lease", "shared", "local", "lease", "http">>
  <2>1. Same(<<"lease">> \o <<"shared", "local">> \o (<<"lease">> \o <<"http">>),
             <<"lease", "shared", "local", "lease", "http">>)
    OBVIOUS
  <2>2. C!approve_and_fetch_receipt_image =
          <<"lease">> \o <<"shared", "local">> \o (<<"lease">> \o <<"http">>)
    BY <1>1 DEF C!approve_and_fetch_receipt_image, C!AuthorizedReceiptImageDownloader
  <2> QED BY <2>1, <2>2, SameSteps
<1>10. /\ C!begin_photokit_setup = <<"lease", "spawn_blocking", "shared", "lease", "connector", "http">>
      /\ C!configure_photokit_scope = <<"lease", "spawn_blocking", "shared", "lease", "connector", "http">>
  <2>1. Same(<<"lease">> \o (<<"spawn_blocking", "shared">> \o (<<"lease">> \o <<"connector", "http">>)),
             <<"lease", "spawn_blocking", "shared", "lease", "connector", "http">>)
    OBVIOUS
  <2>2. /\ C!begin_photokit_setup = <<"lease">> \o (<<"spawn_blocking", "shared">> \o (<<"lease">> \o <<"connector", "http">>))
        /\ C!configure_photokit_scope = <<"lease">> \o (<<"spawn_blocking", "shared">> \o (<<"lease">> \o <<"connector", "http">>))
    BY <1>1 DEF C!begin_photokit_setup, C!configure_photokit_scope, C!AuthorizedPhotoKitConnector
  <2> QED BY <2>1, <2>2, SameSteps
<1>11. C!sync_photokit =
        <<"lease", "spawn_blocking", "lease", "connector", "http", "shared">>
  <2>1. Same(<<"lease">> \o (<<"spawn_blocking">> \o (<<"lease">> \o <<"connector", "http", "shared">>)),
             <<"lease", "spawn_blocking", "lease", "connector", "http", "shared">>)
    OBVIOUS
  <2>2. C!sync_photokit =
          <<"lease">> \o (<<"spawn_blocking">> \o (<<"lease">> \o <<"connector", "http", "shared">>))
    BY <1>1 DEF C!sync_photokit, C!execute_photokit_reconcile_command, C!AuthorizedPhotoKitConnector, C!reconcile
  <2> QED BY <2>1, <2>2, SameSteps
<1>12. /\ Same(C!get_photokit_connector, <<"spawn_blocking", "shared", "connector">>)
       /\ Same(C!disable_photokit, <<"spawn_blocking", "shared", "connector">>)
       /\ Same(C!disconnect_gmail, <<"cleanup", "shared", "revoke">>)
  BY DEF C!get_photokit_connector, C!disable_photokit, C!disconnect_gmail
<1>13. Same(C!startup_reconcile, <<"spawn_blocking", "lease", "connector", "http", "shared">>)
  BY DEF C!startup_reconcile, C!AuthorizedPhotoKitConnector, C!reconcile
<1>14. Same(C!scheduler_round, <<"shared", "lease", "local", "http">>)
  BY DEF C!scheduler_round, C!AuthorizedTryOnRenderer
<1> HIDE DEF Same
<1> QED BY <1>2, <1>3, <1>4, <1>5, <1>6, <1>7, <1>8, <1>9, <1>10, <1>11, <1>12, <1>13, <1>14, SameSteps

ForMain(todo) == Ordered(todo, <<>>) /\ OfMain(todo, <<>>)
ForTasks(todo) == Ordered(todo, <<>>) /\ OfTasks(todo, <<>>)

LEMMA MainCommandsInOrder == \A c \in C!MainCommands : ForMain(c)
<1> USE DEF ForMain, Ordered, OfMain, Held, Once, C!set_local_only, Draining, Publishing
<1>1. ForMain(<<"shared">>) /\ ForMain(<<"shared", "gate">>) /\ ForMain(<<"exclusive", "gate">>)
  OBVIOUS
<1>2. ForMain(C!set_local_only)
  OBVIOUS
<1>3. ForMain(<<"lease", "shared", "release", "lease">>)
  OBVIOUS
<1>4. ForMain(<<"lease", "shared", "release", "lease", "http">>)
  OBVIOUS
<1>5. ForMain(<<"shared", "release">>) /\ ForMain(<<"lease", "shared", "release">>)
  OBVIOUS
<1>6. ForMain(<<"lease", "shared", "release", "local", "trigger">>)
  OBVIOUS
<1>7. ForMain(<<"release", "shared">>) /\ ForMain(<<"cleanup", "shared", "revoke">>)
  OBVIOUS
<1>8. ForMain(<<"lease", "shared", "lease", "http">>)
  OBVIOUS
<1> HIDE DEF ForMain
<1> QED BY <1>1, <1>2, <1>3, <1>4, <1>5, <1>6, <1>7, <1>8, StepsOfHandlers DEF C!MainCommands,
     C!get_foundation_snapshot, C!save_credential, C!delete_credential, C!item_commands,
     C!receipt_commands, C!photo_commands, C!case_commands, C!gmail_settings_commands,
     C!detect_photo_scope_people, C!export_diagnostics, C!run_storage_check, C!create_backup,
     C!list_backups, C!prepare_restore, C!execute_deletion, C!list_try_on_portrait_candidates,
     C!get_outfit_try_on, C!preview_receipt_intelligence, C!list_receipt_intelligence

LEMMA TaskCommandsInOrder ==
    /\ \A c \in C!TaskCommands : ForTasks(c)
    /\ ForTasks(C!startup_reconcile) /\ ForTasks(C!scheduler_round)
<1> USE DEF ForTasks, Ordered, OfTasks, Held, Once
<1>1. ForTasks(<<"shared">>) /\ ForTasks(<<"spawn_blocking", "shared", "connector">>)
  OBVIOUS
<1>2. ForTasks(<<"shared", "local", "release", "lease", "http">>)
  OBVIOUS
<1>3. ForTasks(<<"lease", "shared", "local", "lease", "http">>)
  OBVIOUS
<1>4. ForTasks(<<"lease", "spawn_blocking", "shared", "lease", "connector", "http">>)
  OBVIOUS
<1>5. ForTasks(<<"lease", "spawn_blocking", "lease", "connector", "http", "shared">>)
  OBVIOUS
<1>6. ForTasks(<<"spawn_blocking", "lease", "connector", "http", "shared">>)
  OBVIOUS
<1>7. ForTasks(<<"shared", "lease", "local", "http">>)
  OBVIOUS
<1> HIDE DEF ForTasks
<1> QED BY <1>1, <1>2, <1>3, <1>4, <1>5, <1>6, <1>7, StepsOfHandlers
        DEF C!TaskCommands, C!list_receipt_image_candidates

-----------------------------------------------------------------------------
(* Each step keeps the order                                               *)

LEMMA TailSteps ==
    ASSUME NEW todo \in Seq(HandlerSteps), todo # <<>>
    PROVE  /\ 1 \in DOMAIN todo /\ todo[1] = Head(todo)
           /\ \A i \in DOMAIN Tail(todo) :
                i + 1 \in DOMAIN todo /\ Tail(todo)[i] = todo[i + 1] /\ i + 1 # 1 /\ i \in Nat
           /\ \A j \in DOMAIN todo : j # 1 => j - 1 \in DOMAIN Tail(todo) /\ Tail(todo)[j - 1] = todo[j]
           /\ \A j \in DOMAIN todo : j \in Nat /\ ~(j < 1)
<1>1. Len(Tail(todo)) = Len(todo) - 1 /\ Len(todo) \in Nat /\ Len(todo) # 0
  OBVIOUS
<1>2. DOMAIN Tail(todo) = 1..(Len(todo) - 1) /\ DOMAIN todo = 1..Len(todo)
  BY <1>1
<1> QED BY <1>1, <1>2

LEMMA AppendSteps ==
    ASSUME NEW held \in Seq(HandlerSteps \cup {"blocking"}), NEW x \in HandlerSteps \cup {"blocking"}
    PROVE  LET n == Len(held) + 1 IN
           /\ n \in DOMAIN Append(held, x) /\ Append(held, x)[n] = x
           /\ \A i \in DOMAIN held : i \in DOMAIN Append(held, x) /\ Append(held, x)[i] = held[i] /\ i < n
           /\ \A i \in DOMAIN Append(held, x) : i = n \/ i \in DOMAIN held
           /\ \A y : Held(Append(held, x), y) <=> Held(held, y) \/ y = x
<1>1. /\ Len(Append(held, x)) = Len(held) + 1 /\ Len(held) \in Nat
      /\ Append(held, x)[Len(held) + 1] = x
      /\ \A i \in DOMAIN held : Append(held, x)[i] = held[i]
  OBVIOUS
<1>2. DOMAIN held = 1..Len(held) /\ DOMAIN Append(held, x) = 1..(Len(held) + 1)
  BY <1>1
<1>3. \A y : Held(Append(held, x), y) <=> Held(held, y) \/ y = x
  BY <1>1, <1>2 DEF Held
<1> QED BY <1>1, <1>2, <1>3

\* Going on without taking anything.
LEMMA OrderedTail ==
    ASSUME NEW todo \in Seq(HandlerSteps), NEW held, todo # <<>>, Ordered(todo, held),
           Head(todo) # "spawn_blocking"
    PROVE  Ordered(Tail(todo), held)
<1> DEFINE rest == Tail(todo)
<1>1. /\ 1 \in DOMAIN todo /\ todo[1] = Head(todo)
      /\ \A i \in DOMAIN rest : i + 1 \in DOMAIN todo /\ rest[i] = todo[i + 1] /\ i \in Nat
      /\ \A j \in DOMAIN todo : j # 1 => j - 1 \in DOMAIN rest /\ rest[j - 1] = todo[j]
      /\ \A j \in DOMAIN todo : j \in Nat
  BY TailSteps
<1> HIDE DEF rest
<1>2. ASSUME NEW i \in DOMAIN rest, NEW j \in DOMAIN rest, rest[i] = rest[j], rest[i] \in Once
      PROVE  i = j
  <2>1. i + 1 = j + 1
    BY <1>1, <1>2 DEF Ordered
  <2> QED BY <1>1, <2>1
<1>3. ASSUME NEW i \in DOMAIN rest, rest[i] = "connector", ~Held(held, "blocking")
      PROVE  \E j \in DOMAIN rest : j < i /\ rest[j] = "spawn_blocking"
  <2>1. PICK j \in DOMAIN todo : j < i + 1 /\ todo[j] = "spawn_blocking"
    BY <1>1, <1>3 DEF Ordered
  <2>2. j # 1
    BY <1>1, <2>1
  <2>3. j - 1 \in DOMAIN rest /\ rest[j - 1] = "spawn_blocking" /\ j - 1 < i
    BY <1>1, <2>1, <2>2
  <2> QED BY <2>3
<1>4. Ordered(rest, held)
  BY <1>1, <1>2, <1>3 DEF Ordered
<1> QED BY <1>4 DEF rest

\* Going on with what the step asked for: a closure that begins holds its thread of the pool.
LEMMA OrderedTakes ==
    ASSUME NEW todo \in Seq(HandlerSteps), NEW held \in Seq(HandlerSteps \cup {"blocking"}),
           todo # <<>>, Ordered(todo, held), NEW x,
           \/ x = Head(todo) /\ x # "spawn_blocking"
           \/ x = "blocking" /\ Head(todo) = "spawn_blocking"
    PROVE  Ordered(Tail(todo), Append(held, x))
<1> DEFINE rest == Tail(todo)
           more == Append(held, x)
           n == Len(held) + 1
<1>1. /\ 1 \in DOMAIN todo /\ todo[1] = Head(todo)
      /\ \A i \in DOMAIN rest : i + 1 \in DOMAIN todo /\ rest[i] = todo[i + 1] /\ i + 1 # 1 /\ i \in Nat
      /\ \A j \in DOMAIN todo : j # 1 => j - 1 \in DOMAIN rest /\ rest[j - 1] = todo[j]
      /\ \A j \in DOMAIN todo : j \in Nat /\ ~(j < 1)
  BY TailSteps
<1>2. /\ x \in HandlerSteps \cup {"blocking"}
      /\ x = "blocking" => todo[1] = "spawn_blocking"
      /\ x # "blocking" => todo[1] = x /\ todo[1] # "spawn_blocking"
  BY <1>1 DEF HandlerSteps
<1>3. /\ n \in DOMAIN more /\ more[n] = x
      /\ \A i \in DOMAIN held : i \in DOMAIN more /\ more[i] = held[i] /\ i < n
      /\ \A i \in DOMAIN more : i = n \/ i \in DOMAIN held
      /\ \A y : Held(more, y) <=> Held(held, y) \/ y = x
  BY <1>2, AppendSteps
<1> HIDE DEF rest, more, n
<1>4. ASSUME NEW i \in DOMAIN rest, NEW j \in DOMAIN rest, rest[i] = rest[j], rest[i] \in Once
      PROVE  i = j
  <2>1. i + 1 = j + 1
    BY <1>1, <1>4 DEF Ordered
  <2> QED BY <1>1, <2>1
<1>5. ASSUME NEW i \in DOMAIN rest, rest[i] \in Once PROVE ~Held(more, rest[i])
  <2>1. ~Held(held, rest[i])
    BY <1>1, <1>5 DEF Ordered
  <2>2. rest[i] # x
    BY <1>1, <1>2, <1>5 DEF Ordered, Once
  <2> QED BY <1>3, <2>1, <2>2
<1>6. ASSUME NEW i \in DOMAIN rest, rest[i] = "spawn_blocking" PROVE ~Held(more, "blocking")
  <2>1. ~Held(held, "blocking")
    BY <1>1, <1>6 DEF Ordered
  <2>2. x # "blocking"
    <3>1. todo[i + 1] = todo[1] /\ todo[1] \in Once => i + 1 = 1
      BY <1>1 DEF Ordered
    <3> QED BY <1>1, <1>2, <1>6, <3>1 DEF Once
  <2> QED BY <1>3, <2>1, <2>2
<1>7. ASSUME NEW i \in DOMAIN rest, rest[i] = "connector", ~Held(more, "blocking")
      PROVE  \E j \in DOMAIN rest : j < i /\ rest[j] = "spawn_blocking"
  <2>1. ~Held(held, "blocking") /\ x # "blocking"
    BY <1>3, <1>7
  <2>2. PICK j \in DOMAIN todo : j < i + 1 /\ todo[j] = "spawn_blocking"
    BY <1>1, <1>7, <2>1 DEF Ordered
  <2>3. j # 1
    BY <1>2, <2>1, <2>2
  <2>4. j - 1 \in DOMAIN rest /\ rest[j - 1] = "spawn_blocking"
    BY <1>1, <2>2, <2>3
  <2>5. j - 1 < i
    <3>1. i \in Nat /\ j \in Nat
      BY <1>1
    <3> QED BY <2>2, <3>1
  <2> QED BY <2>4, <2>5
<1>8. ASSUME NEW i \in DOMAIN more, NEW j \in DOMAIN more, more[i] = "blocking", more[j] = "blocking"
      PROVE  i = j
  <2>1. CASE x = "blocking"
    <3>1. ~Held(held, "blocking")
      BY <1>1, <1>2, <2>1 DEF Ordered
    <3> QED BY <1>3, <1>8, <3>1 DEF Held
  <2>2. CASE x # "blocking"
    BY <1>3, <1>8, <2>2 DEF Ordered
  <2> QED BY <2>1, <2>2
<1>9. ASSUME NEW i \in DOMAIN more, more[i] = "connector"
      PROVE  \E j \in DOMAIN more : j < i /\ more[j] = "blocking"
  <2>1. CASE i \in DOMAIN held
    <3>1. PICK j \in DOMAIN held : j < i /\ held[j] = "blocking"
      BY <1>3, <1>9, <2>1 DEF Ordered
    <3> QED BY <1>3, <3>1
  <2>2. CASE i = n
    <3>1. todo[1] = "connector"
      BY <1>1, <1>2, <1>3, <1>9, <2>2
    <3>2. Held(held, "blocking")
      BY <1>1, <3>1 DEF Ordered
    <3> QED BY <1>3, <2>2, <3>2 DEF Held
  <2> QED BY <1>3, <2>1, <2>2
<1>10. Ordered(rest, more)
  BY <1>4, <1>5, <1>6, <1>7, <1>8, <1>9 DEF Ordered
<1> QED BY <1>10 DEF rest, more

\* Ending, with all that was held or with what came before the closure.
LEMMA OrderedEnds ==
    ASSUME NEW todo, NEW held \in Seq(HandlerSteps \cup {"blocking"}), Ordered(todo, held)
    PROVE  /\ Ordered(<<>>, held) /\ Ordered(<<>>, <<>>)
           /\ Ordered(<<>>, C!Kept(held)) /\ ~Held(C!Kept(held), "blocking")
           /\ \A i \in DOMAIN C!Kept(held) : i \in DOMAIN held /\ C!Kept(held)[i] = held[i]
<1> DEFINE marks == {i \in DOMAIN held : held[i] = "blocking"}
           m == CHOOSE i \in marks : TRUE
           kept == C!Kept(held)
<1>1. Ordered(<<>>, held) /\ Ordered(<<>>, <<>>)
  BY DEF Ordered
<1>2. /\ \A i \in DOMAIN kept : i \in DOMAIN held /\ kept[i] = held[i]
      /\ \A i \in DOMAIN kept, j \in DOMAIN held : j < i => j \in DOMAIN kept
      /\ ~Held(kept, "blocking")
  <2>1. CASE marks = {}
    <3>1. kept = <<>>
      BY <2>1 DEF C!Kept
    <3> QED BY <3>1 DEF Held
  <2>2. CASE marks # {}
    <3>1. m \in marks /\ kept = SubSeq(held, 1, m - 1)
      BY <2>2 DEF C!Kept
    <3>2. m \in 1..Len(held) /\ held[m] = "blocking"
      BY <3>1
    <3> HIDE DEF m, kept
    <3>3. /\ DOMAIN kept = 1..(m - 1) /\ DOMAIN held = 1..Len(held)
          /\ \A i \in 1..(m - 1) : kept[i] = held[i]
      BY <3>1, <3>2
    <3>4. \A i \in DOMAIN kept : i \in DOMAIN held /\ kept[i] = held[i] /\ i # m
      BY <3>2, <3>3
    <3>5. ~Held(kept, "blocking")
      BY <3>2, <3>3, <3>4 DEF Held, Ordered
    <3>6. \A i \in DOMAIN kept, j \in DOMAIN held : j < i => j \in DOMAIN kept
      BY <3>2, <3>3
    <3> QED BY <3>4, <3>5, <3>6
  <2> QED BY <2>1, <2>2
<1> HIDE DEF kept
<1>3. Ordered(<<>>, kept)
  <2>1. ASSUME NEW i \in DOMAIN kept, kept[i] = "connector"
        PROVE  \E j \in DOMAIN kept : j < i /\ kept[j] = "blocking"
    <3>1. PICK j \in DOMAIN held : j < i /\ held[j] = "blocking"
      BY <1>2, <2>1 DEF Ordered
    <3> QED BY <1>2, <3>1
  <2>2. \A i, j \in DOMAIN kept : kept[i] = "blocking" /\ kept[j] = "blocking" => i = j
    BY <1>2 DEF Ordered
  <2> QED BY <2>1, <2>2 DEF Ordered
<1> QED BY <1>1, <1>2, <1>3 DEF kept

\* The revocation asks for a lease and is sent before what the handler had left.
LEMMA OrderedRevokes ==
    ASSUME NEW todo \in Seq(HandlerSteps), NEW held, Ordered(todo, held)
    PROVE  Ordered(<<"lease", "http">> \o todo, held)
<1> DEFINE more == <<"lease", "http">> \o todo
<1>1. /\ \A i \in DOMAIN more : i \in Nat /\ (more[i] \in {"lease", "http"}
                                  \/ (i - 2 \in DOMAIN todo /\ more[i] = todo[i - 2]))
      /\ \A j \in DOMAIN todo : j \in Nat /\ j + 2 \in DOMAIN more /\ more[j + 2] = todo[j]
  <2>1. /\ Len(more) = Len(todo) + 2 /\ Len(todo) \in Nat
        /\ more[1] = "lease" /\ more[2] = "http"
        /\ \A j \in 1..Len(todo) : more[j + 2] = todo[j]
        /\ DOMAIN more = 1..Len(more) /\ DOMAIN todo = 1..Len(todo)
    OBVIOUS
  <2> HIDE DEF more
  <2>2. ASSUME NEW i \in DOMAIN more, i # 1, i # 2
        PROVE  i - 2 \in DOMAIN todo /\ more[i] = todo[i - 2]
    <3>1. i - 2 \in 1..Len(todo) /\ (i - 2) + 2 = i
      BY <2>1, <2>2
    <3> QED BY <2>1, <3>1
  <2> QED BY <2>1, <2>2
<1> HIDE DEF more
<1>2. ASSUME NEW i \in DOMAIN more, NEW j \in DOMAIN more, more[i] = more[j], more[i] \in Once
      PROVE  i = j
  <2>1. /\ i - 2 \in DOMAIN todo /\ more[i] = todo[i - 2]
        /\ j - 2 \in DOMAIN todo /\ more[j] = todo[j - 2]
    BY <1>1, <1>2 DEF Once
  <2>2. i - 2 = j - 2
    BY <1>2, <2>1 DEF Ordered
  <2> QED BY <1>1, <2>2
<1>3. ASSUME NEW i \in DOMAIN more, more[i] = "connector", ~Held(held, "blocking")
      PROVE  \E j \in DOMAIN more : j < i /\ more[j] = "spawn_blocking"
  <2>1. i - 2 \in DOMAIN todo /\ todo[i - 2] = "connector" /\ i \in Nat
    BY <1>1, <1>3
  <2>2. PICK j \in DOMAIN todo : j < i - 2 /\ todo[j] = "spawn_blocking"
    BY <1>3, <2>1 DEF Ordered
  <2>3. j + 2 \in DOMAIN more /\ more[j + 2] = "spawn_blocking" /\ j + 2 < i
    BY <1>1, <2>1, <2>2
  <2> QED BY <2>3
<1>4. \A i \in DOMAIN more : more[i] \in Once => ~Held(held, more[i])
  BY <1>1 DEF Ordered, Once
<1>5. \A i \in DOMAIN more : more[i] = "spawn_blocking" => ~Held(held, "blocking")
  BY <1>1 DEF Ordered
<1>6. Ordered(more, held)
  BY <1>2, <1>3, <1>4, <1>5 DEF Ordered
<1> QED BY <1>6 DEF more

\* A step that goes on, one that takes what it asked for, and one after which nothing is left.
LEMMA GoesInOrder ==
    ASSUME CommandInv, OrderInv, NEW t \in C!Callers,
           C!Next1(t) \notin {"return", "begin_transition", "drain", "publish", "spawn_blocking"},
           NEW at, t = C!Main => at \in {"idle", "main", "awaiting"},
           Held(thread[t].held, "blocking") => at \in {"pool", "awaiting"}
    PROVE  InOrder(t, Tail(thread[t].todo), thread[t].held, at)
<1> DEFINE todo == thread[t].todo
           held == thread[t].held
           rest == Tail(todo)
<1>1. /\ todo \in Seq(HandlerSteps) /\ todo # <<>> /\ Head(todo) = C!Next1(t)
      /\ Plain(todo) /\ Plain(rest)
  BY NextStep
<1>2. /\ 1 \in DOMAIN todo /\ todo[1] = Head(todo)
      /\ \A i \in DOMAIN rest : i + 1 \in DOMAIN todo /\ rest[i] = todo[i + 1] /\ i + 1 # 1 /\ i \in Nat
  BY <1>1, TailSteps
<1>3. InOrder(t, todo, held, thread[t].at)
  BY DEF OrderInv
<1>4. rest \notin {C!set_local_only, Draining, Publishing}
  BY <1>1, TransitionHeads
<1>5. todo = <<"gate">> => rest = <<>>
  OBVIOUS
<1> HIDE DEF todo, held, rest
<1>6. Ordered(rest, held)
  BY <1>1, <1>3, OrderedTail DEF InOrder, rest
<1>7. ASSUME t = C!Main PROVE OfMain(rest, held)
  <2>1. OfMain(todo, held)
    BY <1>3, <1>7 DEF InOrder
  <2>2. \A i \in DOMAIN rest : rest[i] # "exclusive"
    <3> SUFFICES ASSUME NEW i \in DOMAIN rest, todo[i + 1] = "exclusive" PROVE FALSE
      BY <1>2
    <3>1. todo = <<"exclusive", "gate">> /\ i + 1 \in DOMAIN todo /\ i + 1 # 1
      BY <1>2, <2>1 DEF OfMain
    <3> QED BY <3>1
  <2>3. Held(held, "exclusive") => rest = <<>>
    BY <1>1, <1>5, <2>1 DEF OfMain
  <2> QED BY <1>2, <1>4, <2>1, <2>2, <2>3 DEF OfMain
<1>8. ASSUME t # C!Main PROVE OfTasks(rest, held)
  BY <1>2, <1>3, <1>8 DEF InOrder, OfTasks
<1> QED BY <1>6, <1>7, <1>8 DEF InOrder, todo, held, rest

LEMMA TakesInOrder ==
    ASSUME CommandInv, OrderInv, NEW t \in C!Callers,
           C!Next1(t) \notin {"return", "begin_transition", "drain", "publish"},
           NEW x, NEW at,
           \/ x = C!Next1(t) /\ x # "spawn_blocking" /\ at = thread[t].at
           \/ x = "blocking" /\ C!Next1(t) = "spawn_blocking" /\ at = "pool"
    PROVE  InOrder(t, Tail(thread[t].todo), Append(thread[t].held, x), at)
<1> DEFINE todo == thread[t].todo
           held == thread[t].held
           rest == Tail(todo)
           more == Append(held, x)
<1>1. /\ todo \in Seq(HandlerSteps) /\ todo # <<>> /\ Head(todo) = C!Next1(t)
      /\ held \in Seq(HandlerSteps \cup {"blocking"}) /\ C!Next1(t) \in HandlerSteps
      /\ Plain(todo) /\ Plain(rest)
  BY NextStep
<1>2. /\ 1 \in DOMAIN todo /\ todo[1] = C!Next1(t)
      /\ \A i \in DOMAIN rest : i + 1 \in DOMAIN todo /\ rest[i] = todo[i + 1] /\ i + 1 # 1 /\ i \in Nat
  BY <1>1, TailSteps
<1>3. /\ \A i \in DOMAIN more :
           more[i] = x \/ (i \in DOMAIN held /\ more[i] = held[i])
      /\ \A y : Held(more, y) <=> Held(held, y) \/ y = x
  <2>1. x \in HandlerSteps \cup {"blocking"}
    BY <1>1
  <2> QED BY <1>1, <2>1, AppendSteps
<1>4. InOrder(t, todo, held, thread[t].at)
  BY DEF OrderInv
<1>5. rest \notin {C!set_local_only, Draining, Publishing}
  BY <1>1, TransitionHeads
<1>6. (todo = <<"gate">> => rest = <<>>) /\ (todo = <<"exclusive", "gate">> => rest = <<"gate">>)
  <2>1. Tail(<<"gate">>) = <<>>
    OBVIOUS
  <2>2. Tail(<<"exclusive", "gate">>) = <<"gate">>
    OBVIOUS
  <2> HIDE DEF todo
  <2> QED BY <2>1, <2>2
<1>7. Ordered(rest, more)
  <2>1. \/ x = Head(todo) /\ x # "spawn_blocking"
        \/ x = "blocking" /\ Head(todo) = "spawn_blocking"
    BY <1>1
  <2>2. Ordered(todo, held)
    BY <1>4 DEF InOrder
  <2> QED BY <1>1, <2>1, <2>2, OrderedTakes
<1> HIDE DEF todo, held, rest, more
<1>8. ASSUME t = C!Main
      PROVE  OfMain(rest, more) /\ at \in {"idle", "main", "awaiting"} /\ ~Held(more, "blocking")
  <2>1. OfMain(todo, held) /\ thread[t].at \in {"idle", "main", "awaiting"}
    BY <1>4, <1>8 DEF InOrder
  <2>2. x = C!Next1(t) /\ x # "blocking" /\ at = thread[t].at
    BY <1>1, <1>2, <2>1 DEF OfMain, HandlerSteps
  <2>3. \A i \in DOMAIN rest : rest[i] # "exclusive"
    <3> SUFFICES ASSUME NEW i \in DOMAIN rest, todo[i + 1] = "exclusive" PROVE FALSE
      BY <1>2
    <3>1. todo = <<"exclusive", "gate">> /\ i + 1 \in DOMAIN todo /\ i + 1 # 1
      BY <1>2, <2>1 DEF OfMain
    <3> QED BY <3>1
  <2>4. Held(more, "exclusive") => rest \in {<<"gate">>, <<>>}
    <3>1. CASE Held(held, "exclusive")
      BY <1>1, <1>6, <2>1, <3>1 DEF OfMain
    <3>2. CASE x = "exclusive"
      BY <1>2, <1>6, <2>1, <2>2, <3>2 DEF OfMain
    <3> QED BY <1>3, <3>1, <3>2
  <2>5. ~Held(more, "blocking")
    BY <1>3, <2>1, <2>2 DEF OfMain, Held
  <2>6. \A i \in DOMAIN more : more[i] # "blocking"
    BY <2>5 DEF Held
  <2>7. \A i \in DOMAIN rest : rest[i] \notin {"connector", "spawn_blocking"}
    BY <1>2, <2>1 DEF OfMain
  <2>8. OfMain(rest, more)
    BY <1>5, <2>3, <2>4, <2>6, <2>7 DEF OfMain
  <2> QED BY <2>1, <2>2, <2>5, <2>8
<1>9. ASSUME t # C!Main PROVE OfTasks(rest, more)
  <2>1. OfTasks(todo, held)
    BY <1>4, <1>9 DEF InOrder
  <2>2. x \notin {"exclusive", "gate"}
    BY <1>2, <2>1 DEF OfTasks
  <2> QED BY <1>2, <1>3, <2>1, <2>2 DEF OfTasks
<1>10. Held(more, "blocking") => at \in {"pool", "awaiting"}
  <2>1. CASE x = "blocking"
    BY <1>1, <2>1 DEF HandlerSteps
  <2>2. CASE x # "blocking"
    BY <1>3, <1>4, <2>2 DEF InOrder
  <2> QED BY <2>1, <2>2
<1>11. InOrder(t, rest, more, at)
  BY <1>7, <1>8, <1>9, <1>10 DEF InOrder
<1> QED BY <1>11 DEF todo, held, rest, more

LEMMA EndsInOrder ==
    ASSUME CommandInv, OrderInv, NEW t \in C!Callers,
           NEW at, t = C!Main => at \in {"idle", "main", "awaiting"},
           Held(thread[t].held, "blocking") => at \in {"pool", "awaiting"}
    PROVE  InOrder(t, <<>>, thread[t].held, at)
<1> DEFINE held == thread[t].held
<1>1. held \in Seq(HandlerSteps \cup {"blocking"}) /\ InOrder(t, thread[t].todo, held, thread[t].at)
  BY DEF CommandInv, Threads, OrderInv
<1>2. Ordered(<<>>, held)
  BY <1>1, OrderedEnds DEF InOrder
<1>3. <<>> \notin {C!set_local_only, Draining, Publishing}
  BY TransitionHeads
<1> HIDE DEF held
<1>4. t = C!Main => OfMain(<<>>, held)
  BY <1>1, <1>3 DEF InOrder, OfMain
<1>5. t # C!Main => OfTasks(<<>>, held)
  BY <1>1 DEF InOrder, OfTasks
<1> QED BY <1>2, <1>4, <1>5 DEF InOrder, held

LEMMA OrderSet ==
    ASSUME CommandInv, OrderInv, NEW t \in C!Callers, NEW todo, NEW held, NEW at,
           C!Set(t, todo, held, at), InOrder(t, todo, held, at)
    PROVE  OrderInv'
<1> DEFINE x == [todo |-> todo, held |-> held, at |-> at]
<1>1. thread' = [thread EXCEPT ![t] = x]
  BY DEF C!Set
<1>2. x.todo = todo /\ x.held = held /\ x.at = at
  OBVIOUS
<1> HIDE DEF x
<1>3. thread'[t] = x /\ \A u \in C!Callers \ {t} : thread'[u] = thread[u]
  BY <1>1 DEF CommandInv
<1>4. \A u \in C!Callers : InOrder(u, thread'[u].todo, thread'[u].held, thread'[u].at)
  BY <1>2, <1>3 DEF OrderInv
<1> QED BY <1>4 DEF OrderInv, InOrder, Ordered, OfMain, OfTasks, Held

LEMMA OrderInit == InitConnectors => OrderInv
<1> SUFFICES ASSUME InitConnectors PROVE OrderInv
  OBVIOUS
<1>1. C!CommandsInit
  BY DEF InitConnectors
<1>2. \A t \in C!Callers :
        \/ thread[t].todo = C!Idle.todo /\ thread[t].held = <<>> /\ thread[t].at = "idle"
        \/ /\ t # C!Main /\ thread[t].todo \in {C!startup_reconcile, C!scheduler_round}
           /\ thread[t].held = <<>> /\ thread[t].at = "queued"
  BY <1>1, MainIsACaller DEF C!CommandsInit, C!Idle, C!Scheduled, C!Main
<1>3. Ordered(<<>>, <<>>) /\ OfMain(<<>>, <<>>) /\ OfTasks(<<>>, <<>>)
  BY DEF Ordered, OfMain, OfTasks, Held
<1>4. \A x : ~Held(<<>>, x)
  BY DEF Held
<1>5. ASSUME NEW t \in C!Callers PROVE InOrder(t, thread[t].todo, thread[t].held, thread[t].at)
  <2>1. CASE thread[t].todo = <<>> /\ thread[t].held = <<>> /\ thread[t].at = "idle"
    BY <1>3, <1>4, <2>1 DEF InOrder
  <2>2. CASE /\ t # C!Main /\ thread[t].todo \in {C!startup_reconcile, C!scheduler_round}
             /\ thread[t].held = <<>> /\ thread[t].at = "queued"
    BY <1>4, <2>2, TaskCommandsInOrder DEF InOrder, ForTasks
  <2>3. C!Idle.todo = <<>>
    BY DEF C!Idle
  <2> QED BY <1>2, <2>1, <2>2, <2>3
<1> QED BY <1>5 DEF OrderInv

\* One step per action.
LEMMA OrderNext == CommandInv /\ OrderInv /\ C!CommandsNext => OrderInv'
<1> SUFFICES ASSUME CommandInv, OrderInv, C!CommandsNext PROVE OrderInv'
  OBVIOUS
<1>a. ASSUME NEW t \in C!Callers
      PROVE  /\ thread[t].held \in Seq(HandlerSteps \cup {"blocking"})
             /\ InOrder(t, thread[t].todo, thread[t].held, thread[t].at)
             /\ t = C!Main => thread[t].at \in {"idle", "main", "awaiting"}
             /\ Held(thread[t].held, "blocking") => thread[t].at \in {"pool", "awaiting"}
  BY DEF CommandInv, Threads, OrderInv, InOrder
<1>b. ASSUME NEW t \in C!Callers, C!Refused(t) PROVE OrderInv'
  BY <1>a, <1>b, EndsInOrder, OrderSet DEF C!Refused
<1>c. ASSUME NEW t \in C!Callers, C!Goes(t),
             C!Next1(t) \notin {"return", "begin_transition", "drain", "publish", "spawn_blocking"}
      PROVE  OrderInv'
  BY <1>a, <1>c, GoesInOrder, OrderSet DEF C!Goes, C!Rest
<1>d. ASSUME NEW t \in C!Callers, C!Takes(t, C!Next1(t)),
             C!Next1(t) \notin {"return", "begin_transition", "drain", "publish", "spawn_blocking"}
      PROVE  OrderInv'
  <2>1. InOrder(t, Tail(thread[t].todo), Append(thread[t].held, C!Next1(t)), thread[t].at)
    BY <1>d, TakesInOrder
  <2> QED BY <1>d, <2>1, OrderSet DEF C!Takes, C!Rest
<1>1. ASSUME NEW t \in C!Callers, C!acquire(t) PROVE OrderInv'
  BY <1>1, <1>b, <1>d DEF C!acquire
<1>2. ASSUME NEW t \in C!Callers, C!lock(t) PROVE OrderInv'
  BY <1>2, <1>d DEF C!lock
<1>3. ASSUME NEW t \in C!Callers, C!coordinate(t) \/ C!local_work(t) PROVE OrderInv'
  BY <1>3, <1>b, <1>c DEF C!coordinate, C!local_work
<1>4. ASSUME NEW t \in C!Callers, C!spawn_blocking(t) PROVE OrderInv'
  <2>1. InOrder(t, Tail(thread[t].todo), Append(thread[t].held, "blocking"), "pool")
    BY <1>4, TakesInOrder DEF C!spawn_blocking
  <2> QED BY <1>4, <2>1, OrderSet DEF C!spawn_blocking, C!Rest
<1>5. ASSUME NEW t \in C!Callers, C!send(t) PROVE OrderInv'
  <2>1. InOrder(t, thread[t].todo, thread[t].held, "awaiting")
    BY <1>a DEF InOrder
  <2> QED BY <1>5, <2>1, OrderSet DEF C!send
<1>6. ASSUME NEW t \in C!Callers, C!answered(t) PROVE OrderInv'
  <2> DEFINE at == IF t = C!Main THEN "main"
                   ELSE IF C!Holds(t, "blocking") THEN "pool" ELSE "queued"
  <2>1. C!Next1(t) = "http"
    BY <1>6 DEF C!answered, CommandInv, C!Next1
  <2>2. PICK todo \in {Tail(thread[t].todo), <<>>} : C!Set(t, todo, thread[t].held, at)
    BY <1>6 DEF C!answered, C!Rest
  <2>3. /\ t = C!Main => at = "main" /\ ~Held(thread[t].held, "blocking")
        /\ Held(thread[t].held, "blocking") => at = "pool"
    <3>1. t = C!Main => ~Held(thread[t].held, "blocking")
      BY <1>a DEF InOrder, OfMain, Held
    <3> QED BY <3>1 DEF C!Holds, Held
  <2> HIDE DEF at
  <2>4. InOrder(t, todo, thread[t].held, at)
    BY <2>1, <2>2, <2>3, GoesInOrder, EndsInOrder
  <2> QED BY <2>2, <2>4, OrderSet
<1>7. ASSUME NEW t \in C!Callers, C!revoke(t) PROVE OrderInv'
  <2>1. C!Next1(t) = "revoke"
    BY <1>7 DEF C!revoke
  <2>2. CASE C!Goes(t)
    BY <1>c, <2>1, <2>2
  <2>3. CASE C!Set(t, <<"lease", "http">> \o C!Rest(t), thread[t].held, thread[t].at)
    <3> DEFINE rest == Tail(thread[t].todo)
               held == thread[t].held
               more == <<"lease", "http">> \o rest
    <3>1. InOrder(t, rest, held, thread[t].at)
      BY <1>a, <2>1, GoesInOrder
    <3>2. rest \in Seq(HandlerSteps)
      BY <2>1, NextStep
    <3>3. /\ Len(more) = Len(rest) + 2 /\ Len(rest) \in Nat
          /\ more[1] = "lease" /\ \A i \in DOMAIN more :
               more[i] \in {"lease", "http"} \/ \E j \in DOMAIN rest : more[i] = rest[j]
      <4>1. /\ Len(more) = Len(rest) + 2 /\ Len(rest) \in Nat
            /\ more[1] = "lease" /\ more[2] = "http"
            /\ \A j \in 1..Len(rest) : more[j + 2] = rest[j]
            /\ DOMAIN more = 1..Len(more) /\ DOMAIN rest = 1..Len(rest)
        BY <3>2
      <4> HIDE DEF more, rest
      <4>2. ASSUME NEW i \in DOMAIN more, i # 1, i # 2
            PROVE  \E j \in DOMAIN rest : more[i] = rest[j]
        <5>1. i - 2 \in DOMAIN rest /\ (i - 2) + 2 = i
          BY <4>1, <4>2
        <5> QED BY <4>1, <5>1
      <4> QED BY <4>1, <4>2
    <3>4. Ordered(more, held)
      BY <3>1, <3>2, OrderedRevokes DEF InOrder
    <3>5. t # C!Main => OfTasks(more, held)
      BY <3>1, <3>3 DEF InOrder, OfTasks
    <3>6. t = C!Main => OfMain(more, held)
      <4>1. t = C!Main => ~Held(held, "exclusive")
        <5>1. thread[t].todo # <<>> /\ Head(thread[t].todo) = "revoke"
          BY <2>1, NextStep
        <5>2. Head(<<"gate">>) = "gate"
          OBVIOUS
        <5>3. thread[t].todo \notin {<<"gate">>, <<>>}
          BY <5>1, <5>2
        <5> QED BY <1>a, <5>3 DEF InOrder, OfMain
      <4>2. \A i \in DOMAIN rest : t = C!Main => rest[i] # "exclusive"
        <5> SUFFICES ASSUME NEW i \in DOMAIN rest, rest[i] = "exclusive", t = C!Main PROVE FALSE
          OBVIOUS
        <5>1. 1 \in DOMAIN thread[t].todo /\ thread[t].todo[1] = "revoke"
              /\ i + 1 \in DOMAIN thread[t].todo /\ thread[t].todo[i + 1] = rest[i]
          BY <2>1, NextStep, TailSteps
        <5>2. thread[t].todo = <<"exclusive", "gate">>
          BY <1>a, <5>1 DEF InOrder, OfMain
        <5> QED BY <5>1, <5>2
      <4>3. more \notin {C!set_local_only, Draining, Publishing}
        <5>1. C!set_local_only[1] = "begin_transition" /\ Draining[1] = "drain" /\ Publishing[1] = "publish"
          BY DEF C!set_local_only, Draining, Publishing
        <5> HIDE DEF more
        <5> QED BY <3>3, <5>1
      <4> HIDE DEF more, rest, held
      <4> QED BY <3>1, <3>3, <4>1, <4>2, <4>3 DEF InOrder, OfMain
    <3>7. InOrder(t, more, held, thread[t].at)
      BY <1>a, <3>4, <3>5, <3>6 DEF InOrder
    <3> QED BY <2>3, <3>7, OrderSet DEF C!Rest
  <2> QED BY <1>7, <2>2, <2>3 DEF C!revoke
<1>8. ASSUME NEW t \in C!Callers, NEW at \in {"main", "worker", "pool"}, thread[t].at = at,
             NEW todo, thread[t].todo = todo, todo \in {C!set_local_only, Draining, Publishing},
             t = C!Main, C!Set(t, Tail(todo), thread[t].held, at)
      PROVE  OrderInv'
  <2>1. thread[t].held = <<>> /\ at = "main"
    BY <1>a, <1>8 DEF InOrder, OfMain
  <2>2. Tail(todo) \in {Draining, Publishing, <<>>}
    BY <1>8, TransitionHeads
  <2>3. ForMain(Draining) /\ ForMain(Publishing) /\ ForMain(<<>>)
    <3> USE DEF ForMain, Ordered, OfMain, Held, Once, C!set_local_only, Draining, Publishing
    <3>1. ForMain(Draining)
      OBVIOUS
    <3>2. ForMain(Publishing)
      OBVIOUS
    <3>3. ForMain(<<>>)
      OBVIOUS
    <3> HIDE DEF ForMain
    <3> QED BY <3>1, <3>2, <3>3
  <2>4. InOrder(t, Tail(todo), <<>>, at)
    <3>1. ForMain(Tail(todo))
      BY <2>2, <2>3
    <3>2. ~Held(<<>>, "blocking")
      BY DEF Held
    <3> QED BY <1>8, <2>1, <3>1, <3>2 DEF InOrder, ForMain
  <2> QED BY <1>8, <2>1, <2>4, OrderSet
<1>9. ASSUME NEW t \in C!Callers, C!begin_transition(t) \/ C!drain(t) \/ C!publish(t) PROVE OrderInv'
  <2>1. /\ thread[t].todo # <<>> /\ Head(thread[t].todo) \in {"begin_transition", "drain", "publish"}
        /\ thread[t].at \in {"main", "worker", "pool"}
        /\ C!Set(t, Tail(thread[t].todo), thread[t].held, thread[t].at)
    BY <1>9 DEF C!begin_transition, C!drain, C!publish, C!Next1, C!CanStep, C!Goes, C!Rest
  <2>2. t = C!Main /\ thread[t].todo \in {C!set_local_only, Draining, Publishing}
    BY <2>1, PlainTail DEF CommandInv, Doing
  <2> QED BY <2>1, <2>2, <1>8
<1>10. ASSUME NEW t \in C!Callers, C!drop(t) PROVE OrderInv'
  <2>1. ForMain(<<>>) /\ ForTasks(<<>>) /\ \A x : ~Held(<<>>, x)
    BY DEF ForMain, ForTasks, Ordered, OfMain, OfTasks, Held
  <2>2. CASE thread[t].at = "pool" /\ C!Set(t, <<>>, C!Kept(thread[t].held), "queued")
    <3>1. /\ Ordered(<<>>, C!Kept(thread[t].held)) /\ ~Held(C!Kept(thread[t].held), "blocking")
          /\ \A i \in DOMAIN C!Kept(thread[t].held) :
               i \in DOMAIN thread[t].held /\ C!Kept(thread[t].held)[i] = thread[t].held[i]
      BY <1>a, OrderedEnds DEF InOrder
    <3>2. t # C!Main
      BY <1>a, <2>2
    <3>3. OfTasks(<<>>, C!Kept(thread[t].held))
      BY <1>a, <3>1, <3>2 DEF InOrder, OfTasks
    <3>4. InOrder(t, <<>>, C!Kept(thread[t].held), "queued")
      BY <3>1, <3>2, <3>3 DEF InOrder
    <3> QED BY <2>2, <3>4, OrderSet
  <2>3. CASE thread' = [thread EXCEPT ![t] = C!Idle]
    <3>1. C!Set(t, <<>>, <<>>, "idle")
      BY <2>3 DEF C!Idle, C!Set
    <3>2. InOrder(t, <<>>, <<>>, "idle")
      BY <2>1 DEF InOrder, ForMain, ForTasks
    <3> QED BY <3>1, <3>2, OrderSet
  <2>4. CASE t = C!Scheduler /\ C!Set(t, C!scheduler_round, <<>>, "worker")
    <3>1. InOrder(t, C!scheduler_round, <<>>, "worker")
      BY <2>1, <2>4, TaskCommandsInOrder, MainIsACaller DEF InOrder, ForTasks
    <3> QED BY <2>4, <3>1, OrderSet
  <2> QED BY <1>10, <2>2, <2>3, <2>4 DEF C!drop
<1>11. ASSUME NEW t \in C!Callers, C!pick_up(t) PROVE OrderInv'
  <2>1. InOrder(t, thread[t].todo, thread[t].held, "worker")
    BY <1>11, <1>a DEF InOrder, C!pick_up
  <2> QED BY <1>11, <2>1, OrderSet DEF C!pick_up
<1>12. CASE C!invoke
  <2>1. \A x : ~Held(<<>>, x)
    BY DEF Held
  <2>2. ASSUME NEW c \in C!MainCommands, C!Set(C!Main, c, <<>>, "main") PROVE OrderInv'
    <3>1. InOrder(C!Main, c, <<>>, "main")
      BY <2>1, MainCommandsInOrder DEF InOrder, ForMain
    <3> QED BY <2>2, <3>1, MainIsACaller, OrderSet
  <2>3. ASSUME NEW c \in C!TaskCommands, NEW t \in C!Tasks, C!Set(t, c, <<>>, "queued")
        PROVE  OrderInv'
    <3>1. t \in C!Callers /\ t # C!Main
      BY SlotsAssumption DEF C!Tasks, C!Callers, C!Main, C!Scheduler
    <3>2. InOrder(t, c, <<>>, "queued")
      BY <2>1, <3>1, TaskCommandsInOrder DEF InOrder, ForTasks
    <3> QED BY <2>3, <3>1, <3>2, OrderSet
  <2> QED BY <1>12, <2>2, <2>3 DEF C!invoke
<1>13. ASSUME NEW t \in C!Callers, C!trigger_try_on_renderer(t) PROVE OrderInv'
  <2> DEFINE y == [thread[t] EXCEPT !.todo = C!Rest(t)]
  <2>1. C!Next1(t) = "trigger"
    BY <1>13 DEF C!trigger_try_on_renderer
  <2>2. /\ y.todo = Tail(thread[t].todo) /\ y.held = thread[t].held /\ y.at = thread[t].at
    BY DEF CommandInv, Threads, C!Rest
  <2>3. thread' = [u \in C!Callers |->
                     IF u = t THEN y
                     ELSE IF u = C!Scheduler /\ thread[u] = C!Idle THEN C!Scheduled ELSE thread[u]]
    BY <1>13 DEF C!trigger_try_on_renderer
  <2>4. InOrder(t, Tail(thread[t].todo), thread[t].held, thread[t].at)
    BY <1>a, <2>1, GoesInOrder
  <2>5. InOrder(C!Scheduler, C!Scheduled.todo, C!Scheduled.held, C!Scheduled.at)
    <3>1. \A x : ~Held(<<>>, x)
      BY DEF Held
    <3> QED BY <3>1, TaskCommandsInOrder, MainIsACaller DEF InOrder, ForTasks, C!Scheduled
  <2> HIDE DEF y
  <2>6. ASSUME NEW u \in C!Callers
        PROVE  \/ u = t /\ thread'[u] = y
               \/ u = C!Scheduler /\ thread'[u] = C!Scheduled
               \/ thread'[u] = thread[u]
    BY <2>3
  <2>7. ASSUME NEW u \in C!Callers
        PROVE  InOrder(u, thread'[u].todo, thread'[u].held, thread'[u].at)
    BY <1>a, <2>2, <2>4, <2>5, <2>6
  <2> QED BY <2>7 DEF OrderInv, InOrder, Ordered, OfMain, OfTasks, Held
<1> QED BY <1>1, <1>2, <1>3, <1>4, <1>5, <1>6, <1>7, <1>9, <1>10, <1>11, <1>12, <1>13
        DEF C!CommandsNext, C!Step

LEMMA OrderAlways == SpecConnectors => []OrderInv
<1>1. CommandInv /\ OrderInv /\ [NextConnectors]_allVars => OrderInv'
  <2> SUFFICES ASSUME CommandInv, OrderInv, [NextConnectors]_allVars PROVE OrderInv'
    OBVIOUS
  <2>1. CASE C!CommandsNext
    BY <2>1, OrderNext
  <2>2. CASE UNCHANGED commandVars
    BY <2>2 DEF commandVars, OrderInv, InOrder, Ordered, OfMain, OfTasks, Held
  <2> QED BY <2>1, <2>2, CommandStep DEF allVars, commandVars
<1> QED BY <1>1, OrderInit, CommandAlways, PTL DEF SpecConnectors

-----------------------------------------------------------------------------
(* Who can wait for whom                                                   *)

\* What waiting means for a thread that waits, and what the one that is waited for holds.
LEMMA Waiting ==
    ASSUME CommandInv, OrderInv, NEW t \in C!Callers, C!WaitsFor(t) # {}
    PROVE  /\ thread[t].at \notin {"queued", "idle", "awaiting"}
           /\ C!Next1(t) \in {"shared", "connector"} \/ t = C!Main
           /\ C!Next1(t) \in {"shared", "connector", "exclusive", "drain"}
           /\ t = C!Main => C!Next1(t) # "connector" /\ thread[t].at = "main"
           /\ C!Next1(t) = "connector" => thread[t].at # "worker"
           /\ ~Held(thread[t].held, C!Next1(t))
<1> DEFINE todo == thread[t].todo
           held == thread[t].held
           at == thread[t].at
<1>1. InOrder(t, todo, held, at) /\ todo \in Seq(HandlerSteps)
  BY DEF OrderInv, CommandInv, Threads
<1>2. /\ at \notin {"queued", "idle", "awaiting"}
      /\ C!Next1(t) \in {"shared", "exclusive", "gate", "connector", "drain"}
      /\ C!Next1(t) = "gate" => C!Holders("gate") # {}
  <2>1. at \in {"queued", "idle", "awaiting"} => C!WaitsFor(t) = {}
    BY DEF C!WaitsFor
  <2>2. C!Next1(t) \notin {"shared", "exclusive", "gate", "connector", "drain"} => C!WaitsFor(t) = {}
    BY DEF C!WaitsFor
  <2>3. C!Next1(t) = "gate" /\ at \notin {"queued", "idle", "awaiting"} => C!WaitsFor(t) = C!Holders("gate")
    BY DEF C!WaitsFor
  <2> QED BY <2>1, <2>2, <2>3
<1>3. todo # <<>> /\ Head(todo) = C!Next1(t) /\ 1 \in DOMAIN todo /\ todo[1] = C!Next1(t)
  BY <1>1, <1>2 DEF C!Next1
<1>4. C!Next1(t) # "gate"
  <2> SUFFICES ASSUME C!Next1(t) = "gate" PROVE FALSE
    OBVIOUS
  <2>1. t = C!Main
    BY <1>1, <1>3 DEF InOrder, OfTasks
  <2>2. PICK u \in C!Callers : Held(thread[u].held, "gate")
    BY <1>2 DEF C!Holders, C!Holds, Held
  <2>3. u = C!Main
    BY <2>2 DEF OrderInv, InOrder, OfTasks, Held
  <2> QED BY <1>1, <1>3, <2>1, <2>2, <2>3 DEF InOrder, Ordered, Once
<1>5. t # C!Main => C!Next1(t) \in {"shared", "connector"}
  <2>1. C!Next1(t) # "drain" \/ t = C!Main
    <3>1. Plain(todo) => C!Next1(t) # "drain"
      BY <1>3 DEF Plain
    <3> QED BY <3>1 DEF CommandInv, Doing
  <2> QED BY <1>1, <1>2, <1>3, <1>4, <2>1 DEF InOrder, OfTasks
<1>6. t = C!Main => C!Next1(t) # "connector" /\ at = "main"
  BY <1>1, <1>2, <1>3 DEF InOrder, OfMain
<1>7. C!Next1(t) = "connector" => at # "worker"
  BY <1>1, <1>3, TailSteps DEF InOrder, Ordered
<1>8. ~Held(held, C!Next1(t))
  <2>1. CASE C!Next1(t) \in {"shared", "connector"}
    BY <1>1, <1>3, <2>1 DEF InOrder, Ordered, Once
  <2>2. CASE C!Next1(t) \in {"exclusive", "drain"}
    <3>1. t = C!Main /\ OfMain(todo, held)
      BY <1>1, <1>5, <2>2 DEF InOrder
    <3>2. C!Next1(t) = "exclusive" => held = <<>>
      BY <1>3, <3>1 DEF OfMain
    <3>3. C!Next1(t) = "drain" => held = <<>>
      <4>1. C!Next1(t) = "drain" => todo \in {C!set_local_only, Draining, Publishing}
        BY <1>3 DEF CommandInv, Doing, Plain
      <4> QED BY <3>1, <4>1 DEF OfMain
    <3> QED BY <2>2, <3>2, <3>3 DEF Held
  <2> QED BY <1>2, <1>4, <2>1, <2>2
<1> QED BY <1>2, <1>4, <1>5, <1>6, <1>7, <1>8

\* A writer has nothing when it asks, and neither has a change of the mode that drains.
LEMMA MainWaitsForOthers ==
    ASSUME CommandInv, OrderInv, C!Next1(C!Main) \in {"exclusive", "drain"}
    PROVE  \A what : ~C!Holds(C!Main, what)
<1> DEFINE todo == thread[C!Main].todo
<1>1. InOrder(C!Main, todo, thread[C!Main].held, thread[C!Main].at) /\ todo \in Seq(HandlerSteps)
  BY MainIsACaller DEF OrderInv, CommandInv, Threads
<1>2. todo # <<>> /\ 1 \in DOMAIN todo /\ todo[1] = C!Next1(C!Main)
  BY <1>1 DEF C!Next1
<1>3. C!Next1(C!Main) = "drain" => todo \in {C!set_local_only, Draining, Publishing}
  BY <1>2, MainIsACaller DEF CommandInv, Doing, Plain
<1>4. thread[C!Main].held = <<>>
  BY <1>1, <1>2, <1>3 DEF InOrder, OfMain
<1> QED BY <1>4 DEF C!Holds

\* Who waits for a shared permit waits for the main thread, and not for a writer that has its own.
LEMMA PermitsComeFromMain ==
    ASSUME CommandInv, OrderInv, NEW t \in C!Callers, C!WaitsFor(t) # {}, C!Next1(t) = "shared",
           NEW u \in C!WaitsFor(t), C!WaitsFor(u) # {} \/ C!Unserved(u)
    PROVE  u = C!Main /\ C!Next1(u) = "exclusive"
<1>1. u \in C!Holders("exclusive") \cup C!WaitingWriters
  BY DEF C!WaitsFor
<1>2. u \in C!Callers /\ InOrder(u, thread[u].todo, thread[u].held, thread[u].at)
      /\ thread[u].todo \in Seq(HandlerSteps)
  BY <1>1 DEF C!Holders, C!WaitingWriters, OrderInv, CommandInv, Threads
<1>3. CASE C!Next1(u) = "exclusive"
  <2>1. 1 \in DOMAIN thread[u].todo /\ thread[u].todo[1] = "exclusive"
    BY <1>2, <1>3 DEF C!Next1
  <2> QED BY <1>2, <1>3, <2>1 DEF InOrder, OfTasks
<1>4. CASE u \in C!Holders("exclusive")
  <2>1. Held(thread[u].held, "exclusive")
    BY <1>4 DEF C!Holders, C!Holds, Held
  <2>2. u = C!Main
    BY <1>2, <2>1 DEF InOrder, OfTasks, Held
  <2>3. thread[u].todo \in {<<"gate">>, <<>>} /\ thread[u].at # "queued"
    BY <1>2, <2>1, <2>2 DEF InOrder, OfMain
  <2>4. C!Next1(u) \in {"gate", "return"}
    BY <2>3 DEF C!Next1
  <2> QED BY <1>2, <2>3, <2>4, Waiting DEF C!Unserved
<1> QED BY <1>1, <1>3, <1>4 DEF C!WaitingWriters

\* Who holds the connector and waits, waits for a permit.
LEMMA ConnectorAwaitsPermit ==
    ASSUME CommandInv, OrderInv, NEW u \in C!Callers, C!Holds(u, "connector")
    PROVE  ~C!Unserved(u) /\ (C!WaitsFor(u) # {} => C!Next1(u) = "shared")
<1>1. InOrder(u, thread[u].todo, thread[u].held, thread[u].at)
  BY DEF OrderInv
<1>2. Held(thread[u].held, "connector") /\ Held(thread[u].held, "blocking")
  BY <1>1 DEF C!Holds, Held, InOrder, Ordered
<1>3. ~C!Unserved(u)
  BY <1>1, <1>2 DEF InOrder, C!Unserved
<1>4. u # C!Main
  BY <1>1, <1>2 DEF InOrder, OfMain, Held
<1>5. C!WaitsFor(u) # {} => C!Next1(u) = "shared"
  BY <1>2, <1>4, Waiting
<1> QED BY <1>3, <1>5

LEMMA SomeoneRuns ==
    ASSUME NEW t, C!Unserved(t) PROVE C!Running # {}
<1>1. C!Cardinality({}) = Cardinality({})
  BY DEF Cardinality, C!Cardinality
<1>2. C!Cardinality({}) = 0
  BY <1>1, FS_EmptySet
<1> QED BY <1>2, RuntimeAssumption DEF C!Unserved

LEMMA CirclesAreKnown == CommandInv /\ OrderInv => DeadlocksAreKnown
<1> SUFFICES ASSUME CommandInv, OrderInv,
                    NEW S \in SUBSET {t \in C!Callers : C!WaitsFor(t) # {} \/ C!Unserved(t)},
                    C!Deadlocked(S)
             PROVE  /\ C!Next1(C!Main) = "exclusive"
                    /\ \/ \E r, c \in C!Callers : C!PermitCycle({r, c})
                       \/ C!WorkersTaken(S)
  BY DEF DeadlocksAreKnown, C!DeadlocksAreKnown
<1> DEFINE Waits(t) == C!WaitsFor(t) \cap S # {}
           Starved(t) == C!Unserved(t) /\ C!Running \subseteq S
           Writing == C!Main \in S /\ C!Next1(C!Main) = "exclusive"
<1>1. ASSUME NEW t \in S PROVE t \in C!Callers /\ (Waits(t) \/ Starved(t))
  BY <1>1 DEF C!Deadlocked
<1>2. ASSUME NEW t \in S, Waits(t), C!Next1(t) = "shared" PROVE Writing
  BY <1>1, <1>2, PermitsComeFromMain
<1>3. ASSUME NEW u \in S, C!Holds(u, "connector") PROVE Waits(u) /\ C!Next1(u) = "shared"
  BY <1>1, <1>3, ConnectorAwaitsPermit
<1>4. ASSUME NEW t \in S, Waits(t), C!Next1(t) = "connector"
      PROVE  \E u \in S : C!Holds(u, "connector")
  BY <1>1, <1>4 DEF C!WaitsFor, C!Holders
<1>5. ASSUME NEW t \in S, Starved(t)
      PROVE  \A r \in C!Running : r \in S /\ Waits(r) /\ C!Next1(r) = "shared"
  <2> SUFFICES ASSUME NEW r \in C!Running PROVE r \in S /\ Waits(r) /\ C!Next1(r) = "shared"
    OBVIOUS
  <2>1. r \in S /\ thread[r].at = "worker"
    BY <1>5 DEF C!Running
  <2>2. Waits(r)
    BY <1>1, <2>1 DEF C!Unserved
  <2>3. r \in C!Callers /\ C!WaitsFor(r) # {}
    BY <1>1, <2>1, <2>2
  <2> QED BY <2>1, <2>2, <2>3, Waiting
<1>6. \A t \in S : Starved(t) => Writing
  BY <1>2, <1>5, SomeoneRuns
<1>7. \A t \in S : Waits(t) /\ C!Next1(t) \in {"shared", "connector"} => Writing
  BY <1>2, <1>3, <1>4
<1>8. Writing
  <2> SUFFICES ASSUME ~Writing PROVE FALSE
    OBVIOUS
  <2>1. \A t \in S : t = C!Main /\ Waits(t) /\ C!Next1(t) = "drain"
    <3> SUFFICES ASSUME NEW t \in S PROVE t = C!Main /\ Waits(t) /\ C!Next1(t) = "drain"
      OBVIOUS
    <3>1. Waits(t) /\ C!WaitsFor(t) # {} /\ t \in C!Callers
      BY <1>1, <1>6
    <3>2. C!Next1(t) \notin {"shared", "connector"}
      BY <1>7, <3>1
    <3> QED BY <3>1, <3>2, Waiting
  <2>2. C!Main \in S /\ C!Next1(C!Main) = "drain" /\ C!Main \in C!WaitsFor(C!Main)
    BY <2>1 DEF C!Deadlocked
  <2>3. C!Main \in C!Leases
    BY <2>2 DEF C!WaitsFor
  <2> QED BY <2>2, <2>3, MainWaitsForOthers DEF C!Leases, C!Holders
<1>9. PICK h \in S : C!Holds(h, "shared") /\ h # C!Main
  <2>1. thread[C!Main].at # "queued"
    BY MainIsACaller DEF OrderInv, InOrder
  <2>2. Waits(C!Main)
    BY <1>1, <1>8, <2>1 DEF C!Unserved
  <2>3. C!WaitsFor(C!Main) \subseteq C!Holders("shared")
    BY <1>8 DEF C!WaitsFor
  <2> QED BY <1>8, <2>2, <2>3, MainWaitsForOthers DEF C!Holders
<1>10. CASE Waits(h)
  <2>1. h \in C!Callers /\ C!WaitsFor(h) # {}
    BY <1>1, <1>10
  <2>2. C!Next1(h) = "connector"
    BY <1>9, <2>1, Waiting DEF C!Holds, Held
  <2>3. PICK u \in S : C!Holds(u, "connector") /\ C!Next1(u) = "shared"
    BY <1>3, <1>4, <1>10, <2>2
  <2>4. C!PermitCycle({u, h})
    BY <1>9, <2>2, <2>3 DEF C!PermitCycle
  <2>5. u \in C!Callers
    BY <1>1, <2>3
  <2> QED BY <1>8, <2>1, <2>4, <2>5
<1>11. CASE Starved(h)
  BY <1>5, <1>8, <1>9, <1>11 DEF C!WorkersTaken
<1> QED BY <1>1, <1>10, <1>11

(***************************************************************************)
(* Whatever permits, leases and locks the handlers of any number of        *)
(* commands hold and wait for, they wait for one another without end only  *)
(* behind a writer of the main thread, by the connector's lock taken       *)
(* before a permit and after one, or by the runtime's threads.  Nothing    *)
(* else the commands of src-tauri/src/lib.rs take in this order closes a   *)
(* circle.                                                                 *)
(***************************************************************************)
THEOREM LocksCloseOnlyKnownCircles == SpecConnectors => []DeadlocksAreKnown
  BY CommandAlways, OrderAlways, CirclesAreKnown, PTL
=============================================================================
