----------------------------- MODULE LocalOnly -----------------------------
(***************************************************************************)
(* The local-only mode end to end: the three-record mode store             *)
(* (wardrobe-platform/src/local_only.rs), the handler of set_local_only_v1 *)
(* (src-tauri/src/lib.rs) and the outbound authority it drives.            *)
(*                                                                         *)
(* A change of the mode writes three records, intent, active and           *)
(* acknowledgment, each by a rename and a directory sync; the mode counts  *)
(* only if the three form one consistent chain.  Any of these steps may    *)
(* fail, the process may die between two of them, and a power loss may     *)
(* undo every rename that no directory sync has made durable.              *)
(***************************************************************************)
EXTENDS OutboundAuthority, Sequences

CONSTANTS
    RequestIds,   \* request ids the user interface sends
    MaxRevision,  \* MAX_SAFE_INTEGER_V1
    MaxAttempts,  \* bound: publications started, hence transition nonces used
    MaxBoots      \* bound: times the application is started

\* What the constants are.
LocalOnlyConstants ==
    /\ MaxRevision \in Nat /\ Revisions = 0..MaxRevision
    /\ MaxAttempts \in Nat /\ MaxBoots \in Nat

VARIABLES
    visible,    \* the three records as a running process reads them
    durable,    \* for each record, the versions a power loss may leave
    uncertain,  \* StoreState.uncertain
    op,         \* the call of handle_set_local_only under way
    attempts,   \* transition nonces drawn so far
    boots,      \* times the application was started
    readsFail,  \* whether reading the records back may fail in this behaviour
    sealed      \* history: the last success told the user "local only", and
                \* no request to go online has been made since

storeVars == <<visible, durable, uncertain>>
vars == <<authorityVars, storeVars, op, attempts, boots, readsFail, sealed>>

Leaves == <<"intent", "active", "acknowledgment">>
Absent == [absent |-> TRUE]
None == [none |-> TRUE]

Requests == [id : RequestIds, enabled : BOOLEAN, expected : 0..MaxRevision - 1]
NoFiles == [i \in 1..3 |-> Absent]
Idle == [phase |-> "idle"]

\* The three records of one publication.  A request stands for its id, its
\* mode and its canonical hash; a record stands for its bytes and its digest.
TargetRecords(current, request, nonce) ==
    LET intent == [prior |-> current, target |-> current + 1,
                   request |-> request, nonce |-> nonce]
        active == [revision |-> current + 1, request |-> request]
    IN  <<intent, active,
          [revision |-> current + 1, nonce |-> nonce, intent |-> intent, active |-> active]>>

\* load_chain: the records are present, decode, and name each other.
load_chain(files) ==
    /\ \A i \in 1..3 : files[i] # Absent
    /\ LET intent == files[1] active == files[2] acknowledgment == files[3] IN
        /\ intent.target = active.revision
        /\ intent.request = active.request
        /\ acknowledgment.revision = active.revision
        /\ acknowledgment.nonce = intent.nonce
        /\ acknowledgment.intent = intent
        /\ acknowledgment.active = active
        /\ intent.prior + 1 = intent.target

\* Whether a read of the records succeeds.
ReadOutcomes == IF readsFail THEN BOOLEAN ELSE {TRUE}

PersistedSnapshot(active) ==
    [local_only |-> active.request.enabled, revision |-> active.revision, health |-> "Persisted"]

\* load: what the authority starts from.
load(files, readable) ==
    IF readable /\ load_chain(files) THEN PersistedSnapshot(files[2])
                                     ELSE FailClosedSnapshot(0)

\* UncertainPublication::recognized_records
recognized_records ==
    /\ uncertain # None
    /\ \A i \in 1..3 : /\ visible[i] # Absent
                       /\ visible[i] \in {uncertain.prior_records[i], uncertain.target_records[i]}

\* The revision that set compares with the request's expected revision.
current_revision(current) ==
    IF current THEN visible[2].revision
    ELSE IF recognized_records THEN uncertain.prior_revision
    ELSE 0

-----------------------------------------------------------------------------
\* handle_set_local_only and LocalOnlyModeStore::set

BeginSet(request) ==
    /\ op = Idle
    /\ begin_transition
    /\ op' = [phase |-> "draining", request |-> request]
    /\ sealed' = (sealed /\ request.enabled)
    /\ UNCHANGED <<storeVars, attempts, boots>>

\* The handler ends with an error and drops the transition.
Refuse ==
    /\ drop_transition
    /\ op' = Idle
    /\ UNCHANGED <<attempts, boots, sealed>>

\* The handler publishes a snapshot the store vouches for and reports success.
Succeed(s) ==
    /\ publish(s)
    /\ op' = Idle
    /\ sealed' = (sealed \/ s.local_only)
    /\ UNCHANGED <<attempts, boots>>

ReusedId(current) ==
    \/ /\ uncertain # None
       /\ uncertain.request.id = op.request.id /\ uncertain.request # op.request
    \/ /\ current
       /\ visible[2].request.id = op.request.id /\ visible[2].request # op.request

Replay(current) ==
    /\ ~ReusedId(current)
    /\ current /\ visible[2].request = op.request

\* The head of set, up to the first rename: refuse, replay, or start.
SetHead ==
    /\ op.phase = "draining" /\ transition = "held"
    /\ \E readable \in ReadOutcomes :
        LET current == readable /\ load_chain(visible)
            revision == current_revision(current)
        IN
        \/ /\ Replay(current)
           /\ Succeed(PersistedSnapshot(visible[2]))
           /\ uncertain' = None
           /\ UNCHANGED <<visible, durable>>
        \/ /\ ~Replay(current)
           /\ ReusedId(current) \/ op.request.expected # revision \/ revision + 1 > MaxRevision
           /\ Refuse
           /\ UNCHANGED storeVars
        \/ /\ ~Replay(current) /\ ~ReusedId(current)
           /\ op.request.expected = revision /\ revision + 1 <= MaxRevision
           /\ \/ /\ attempts < MaxAttempts
                 /\ attempts' = attempts + 1
                 /\ LET target == TargetRecords(revision, op.request, attempts + 1) IN
                    op' = [phase |-> "publishing", request |-> op.request, index |-> 1,
                           target |-> target,
                           uncertain |->
                              IF current \/ recognized_records
                              THEN [prior_revision |-> revision, prior_records |-> visible,
                                    target_records |-> target, request |-> op.request]
                              ELSE None]
                 /\ UNCHANGED <<authorityVars, storeVars, boots, sealed>>
              \/ \* creating or checking a temporary record failed
                 /\ Refuse
                 /\ UNCHANGED storeVars

Renamed == [visible EXCEPT ![op.index] = op.target[op.index]]

\* PublicationOutcomeUnknown: remember the publication, then let the handler
\* look for proof of it.
OutcomeUnknown ==
    /\ uncertain' = op.uncertain
    /\ op' = [phase |-> "unknown", request |-> op.request]
    /\ UNCHANGED <<authorityVars, attempts, boots, sealed>>

\* Mutant: the directory is not synced after the rename.
PublishRecord_unsynced ==
    /\ op.phase = "publishing" /\ op.index <= 3
    /\ visible' = Renamed
    /\ durable' = [durable EXCEPT ![op.index] = @ \cup {op.target[op.index]}]
    /\ op' = [op EXCEPT !.index = @ + 1]
    /\ UNCHANGED <<authorityVars, uncertain, attempts, boots, sealed>>

\* PreparedRecord::publish: rename and directory sync both succeed.
PublishRecord ==
    /\ op.phase = "publishing" /\ op.index <= 3
    /\ visible' = Renamed
    /\ durable' = [i \in 1..3 |-> {Renamed[i]}]
    /\ op' = [op EXCEPT !.index = @ + 1]
    /\ UNCHANGED <<authorityVars, uncertain, attempts, boots, sealed>>

\* The target cannot be replaced; nothing was renamed yet.
PublishRefused ==
    /\ op.phase = "publishing" /\ op.index = 1
    /\ Refuse
    /\ UNCHANGED storeVars

\* The rename failed, or a later target cannot be replaced.
PublishFails ==
    /\ op.phase = "publishing" /\ op.index <= 3
    /\ OutcomeUnknown
    /\ UNCHANGED <<visible, durable>>

\* The record was renamed, but verifying it or syncing the directory failed.
PublishUnsynced ==
    /\ op.phase = "publishing" /\ op.index <= 3
    /\ visible' = Renamed
    /\ durable' = [durable EXCEPT ![op.index] = @ \cup {op.target[op.index]}]
    /\ OutcomeUnknown

\* The tail of set: read the chain back and compare.
VerifyPublished ==
    /\ op.phase = "publishing" /\ op.index = 4
    /\ \E readable \in ReadOutcomes :
        IF /\ readable /\ load_chain(visible)
           /\ visible[2].revision = op.target[2].revision
           /\ visible[2].request = op.request
        THEN /\ uncertain' = None
             /\ Succeed(PersistedSnapshot(op.target[2]))
        ELSE OutcomeUnknown
    /\ UNCHANGED <<visible, durable>>

\* load_acknowledged_response: publish what is proven, else fail closed.  The
\* caller gets an error either way.
ResolveUnknown ==
    /\ op.phase = "unknown"
    /\ \E readable \in ReadOutcomes :
        IF /\ readable /\ load_chain(visible)
           /\ visible[2].request = op.request
           /\ visible[2].revision = op.request.expected + 1
        THEN publish(PersistedSnapshot(visible[2])) /\ uncertain' = None
        ELSE fail_closed /\ UNCHANGED uncertain
    /\ op' = Idle
    /\ UNCHANGED <<visible, durable, attempts, boots, sealed>>

\* The process dies and the application is started again.  A power loss leaves
\* of each record any version since the last directory sync.
Reboot(files) ==
    /\ boots < MaxBoots
    /\ boots' = boots + 1
    /\ visible' = files
    /\ uncertain' = None
    /\ op' = Idle
    /\ \E readable \in ReadOutcomes : renew(load(files, readable))
    /\ UNCHANGED <<attempts, sealed>>

Crash == Reboot(visible) /\ UNCHANGED durable

PowerLoss ==
    \E first \in durable[1], second \in durable[2], third \in durable[3] :
        /\ Reboot(<<first, second, third>>)
        /\ durable' = <<{first}, {second}, {third}>>

Init ==
    /\ visible = NoFiles /\ durable = [i \in 1..3 |-> {Absent}]
    /\ uncertain = None
    /\ op = Idle
    /\ attempts = 0 /\ boots = 1
    /\ readsFail \in BOOLEAN /\ sealed = FALSE
    /\ new(load(NoFiles, TRUE))

AuthorityStep ==
    /\ \/ \E w \in Workers : acquire(w) \/ acquire_local_cleanup(w) \/ drop_lease(w)
       \/ resume_transition \/ SpuriousDrainWakeup
    /\ UNCHANGED <<storeVars, op, attempts, boots, sealed>>

Next ==
    /\ \/ AuthorityStep
       \/ \E request \in Requests : BeginSet(request)
       \/ SetHead \/ PublishRecord \/ PublishRefused \/ PublishFails \/ PublishUnsynced
       \/ VerifyPublished \/ ResolveUnknown
       \/ Crash \/ PowerLoss
    /\ UNCHANGED readsFail

Spec == Init /\ [][Next]_vars

-----------------------------------------------------------------------------
\* Every variable has its type.
TypeOK ==
    /\ AuthorityTypeOK
    /\ \A i \in 1..3 : visible[i] \in durable[i]
    /\ op.phase \in {"idle", "draining", "publishing", "unknown"}
    /\ op # Idle => op.request \in Requests
    /\ transitioning <=> op # Idle
    /\ attempts \in 0..MaxAttempts /\ boots \in 1..MaxBoots
    /\ readsFail \in BOOLEAN /\ sealed \in BOOLEAN

\* Once set_local_only_v1 has answered that the application is local-only, no
\* fault, crash or power loss puts it back online: only a request can.
LocalOnlySticks == sealed => snapshot.local_only

\* Outside a transition, a mode the authority calls persisted is the mode the
\* three records on disk state, and every other mode is local-only.
SnapshotAgreesWithDisk ==
    ~transitioning =>
        IF snapshot.health = "Persisted"
        THEN load_chain(visible) /\ snapshot = PersistedSnapshot(visible[2])
        ELSE snapshot.local_only

\* As long as the records can be read, the revision shown to the user is the one
\* the next request must expect, so a fail-closed application can be brought back
\* without a restart.
RevisionAgreement ==
    ~transitioning /\ ~readsFail => snapshot.revision = current_revision(load_chain(visible))

\* The mode the user was shown is kept: whatever fails, crashes or is lost, a confirmed
\* local-only mode stays, and what the application believes, and expects of the next
\* request, is what the records state.
ModeIsKept == LocalOnlySticks /\ SnapshotAgreesWithDisk /\ RevisionAgreement

=============================================================================
