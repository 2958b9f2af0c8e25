----------------------------- MODULE TryOnQueue -----------------------------
(***************************************************************************)
(* The try-on queue: previews, submissions, jobs and attempts              *)
(* (try_on_repository.rs), the renderer that sends them to the provider    *)
(* (try_on_renderer.rs, try_on_http.rs) and the recovery at startup.  Each *)
(* job is a paid transmission of personal photographs, so it must be made  *)
(* at most once per approval whatever fails, and reported truthfully.      *)
(*                                                                         *)
(* One renderer runs at a time (TryOnScheduler); commands of the main      *)
(* thread, which edit outfits and delete the credential, run between any   *)
(* two of its steps.  Every database call is one immediate transaction.    *)
(* An approval, its submission, its job and its only attempt are 1 to 1.   *)
(***************************************************************************)
EXTENDS Naturals

CONSTANTS
    Approvals,    \* preview requests, hence approvals and jobs
    MaxRevision,  \* bound: outfit edits
    MaxBoots      \* bound: times the application is started
ASSUME TryOnBounds == MaxRevision \in Nat /\ MaxBoots \in Nat

VARIABLES
    approvals,        \* try_on_approvals: status and expected_outfit_revision
    jobs,             \* try_on_jobs: state, fence and failure code
    attempts,         \* try_on_attempts: state, fence, and whether audit_json is set
    blobs,            \* jobs whose output image is in the blob store
    outputs,          \* try_on_outputs
    outfit_revision,  \* revision_state.outfit_revision
    credential,       \* whether the approvals' credential is active
    renderer,         \* where run_once is
    boots,            \* times the application was started
    sent              \* history: transmissions that may have been made for each job

tables == <<approvals, jobs, attempts, blobs, outputs>>
vars == <<tables, outfit_revision, credential, renderer, boots, sent>>

NoApproval == [status |-> "none", revision |-> 0]
NoJob == [state |-> "none", fence |-> 0, failure |-> "none"]
NoAttempt == [state |-> "none", fence |-> 0, audit |-> FALSE]
Resting == [step |-> "idle"]

\* Codes of failures that are reported before anything is sent, after the
\* provider answered, and when nobody knows.
AssetFailures == {"source_stale", "asset_unavailable", "asset_integrity"}
UnsentFailures == AssetFailures \cup {"credential_unavailable"}
\* map_failure: what generate may report.  Authentication, unavailability,
\* rejection and protocol errors are found before or after the send.
TransportFailures ==
    {"authentication", "provider_unavailable", "request_rejected", "provider_protocol"}
SentFailures == TransportFailures \cup
    {"moderation_blocked", "rate_limited", "provider_failure", "permission_denied",
     "outcome_unknown"}
FailureCodes == UnsentFailures \cup SentFailures \cup {"output_materialization_interrupted"}
Terminal == {"succeeded", "failed"}

Init ==
    /\ approvals = [a \in Approvals |-> NoApproval]
    /\ jobs = [a \in Approvals |-> NoJob]
    /\ attempts = [a \in Approvals |-> NoAttempt]
    /\ blobs = {} /\ outputs = {}
    /\ outfit_revision = 0 /\ credential = TRUE
    /\ renderer = Resting
    /\ boots = 1
    /\ sent = [a \in Approvals |-> 0]

-----------------------------------------------------------------------------
\* Commands

preview_try_on(a) ==
    /\ approvals[a] = NoApproval
    /\ credential
    /\ approvals' = [approvals EXCEPT ![a] = [status |-> "open", revision |-> outfit_revision]]
    /\ UNCHANGED <<jobs, attempts, blobs, outputs, outfit_revision, credential, renderer,
                   boots, sent>>

\* APPROVAL_LIFETIME_MS passes.
Expire(a) ==
    /\ approvals[a].status = "open"
    /\ approvals' = [approvals EXCEPT ![a].status = "expired"]
    /\ UNCHANGED <<jobs, attempts, blobs, outputs, outfit_revision, credential, renderer,
                   boots, sent>>

\* submit_try_on: consume the approval and queue the job, in one transaction.
submit_try_on(a) ==
    /\ approvals[a].status = "open"
    /\ approvals[a].revision = outfit_revision
    /\ credential
    /\ approvals' = [approvals EXCEPT ![a].status = "consumed"]
    /\ jobs' = [jobs EXCEPT ![a] = [state |-> "queued", fence |-> 0, failure |-> "none"]]
    /\ UNCHANGED <<attempts, blobs, outputs, outfit_revision, credential, renderer, boots, sent>>

EditOutfit ==
    /\ outfit_revision < MaxRevision
    /\ outfit_revision' = outfit_revision + 1
    /\ UNCHANGED <<tables, credential, renderer, boots, sent>>

DeleteCredential ==
    /\ credential
    /\ credential' = FALSE
    /\ UNCHANGED <<tables, outfit_revision, renderer, boots, sent>>

-----------------------------------------------------------------------------
\* What the renderer's transactions do to the tables

\* fail_job, for the attempt of fence f.
fail_job(a, f, code) ==
    /\ attempts[a].state \in {"prepared", "dispatched", "materializing"}
    /\ attempts[a].fence = f /\ jobs[a].fence = f
    /\ jobs[a].state \in {"queued", "running"}
    /\ attempts' = [attempts EXCEPT ![a].state = "failed"]
    /\ jobs' = [jobs EXCEPT ![a] = [state |-> "failed", fence |-> f, failure |-> code]]

\* finalize_promoted_output: the output row, the attempt and the job.
finalize_promoted_output(a, f) ==
    /\ attempts[a].state = "materializing" /\ attempts[a].fence = f
    /\ jobs[a].state = "running" /\ jobs[a].fence = f
    /\ outputs' = outputs \cup {a}
    /\ attempts' = [attempts EXCEPT ![a].state = "succeeded"]
    /\ jobs' = [jobs EXCEPT ![a] = [state |-> "succeeded", fence |-> f, failure |-> "none"]]

-----------------------------------------------------------------------------
\* ProductionTryOnRenderer::run_once, one transaction or call at a time

GoTo(step) == renderer' = [step |-> step, job |-> renderer.job, fence |-> renderer.fence]
Failing(code) ==
    renderer' = [step |-> "failing", job |-> renderer.job, fence |-> renderer.fence,
                 code |-> code]

\* claim_try_on_job: a queued job becomes running with a fresh attempt.  The
\* oldest is taken first; here any is.
claim_try_on_job(a) ==
    /\ renderer = Resting
    /\ jobs[a].state = "queued"
    /\ LET fence == jobs[a].fence + 1 IN
       /\ jobs' = [jobs EXCEPT ![a] = [state |-> "running", fence |-> fence,
                                       failure |-> "none"]]
       /\ attempts' = [attempts EXCEPT ![a] = [state |-> "prepared", fence |-> fence,
                                               audit |-> FALSE]]
       /\ renderer' = [step |-> "claimed", job |-> a, fence |-> fence]
    /\ UNCHANGED <<approvals, blobs, outputs, outfit_revision, credential, boots, sent>>

\* The same transaction when prepare_assets finds the images gone or changed:
\* the job fails and the loop takes the next one.
claim_unusable_job(a) ==
    /\ renderer = Resting
    /\ jobs[a].state = "queued"
    /\ \E code \in AssetFailures :
        jobs' = [jobs EXCEPT ![a] = [state |-> "failed", fence |-> jobs[a].fence + 1,
                                     failure |-> code]]
    /\ attempts' = [attempts EXCEPT ![a] = [state |-> "failed", fence |-> jobs[a].fence + 1,
                                            audit |-> FALSE]]
    /\ UNCHANGED <<approvals, blobs, outputs, outfit_revision, credential, renderer, boots, sent>>

\* authorize_try_on_transport: from here on a crash leaves the outcome open.
authorize_try_on_transport ==
    /\ renderer.step = "claimed"
    /\ jobs[renderer.job].state = "running" /\ jobs[renderer.job].fence = renderer.fence
    /\ attempts[renderer.job].state = "prepared"
    /\ attempts[renderer.job].fence = renderer.fence
    /\ credential
    /\ attempts' = [attempts EXCEPT ![renderer.job].state = "dispatched"]
    /\ GoTo("authorized")
    /\ UNCHANGED <<approvals, jobs, blobs, outputs, outfit_revision, credential, boots, sent>>

\* The authorization fails for any reason, a refusal or an error of the
\* database, or the Keychain does not give the secret.
credential_unavailable ==
    /\ renderer.step \in {"claimed", "authorized"}
    /\ Failing("credential_unavailable")
    /\ UNCHANGED <<tables, outfit_revision, credential, boots, sent>>

\* get_exact returned the secret; mark_try_on_transport_started.
mark_try_on_transport_started ==
    /\ renderer.step = "authorized"
    /\ attempts[renderer.job].state = "dispatched" /\ ~attempts[renderer.job].audit
    /\ attempts[renderer.job].fence = renderer.fence
    /\ attempts' = [attempts EXCEPT ![renderer.job].audit = TRUE]
    /\ GoTo("marked")
    /\ UNCHANGED <<approvals, jobs, blobs, outputs, outfit_revision, credential, boots, sent>>

\* Mutant: the client repeats a request whose connection broke.
generate_retrying ==
    /\ renderer.step = "marked"
    /\ sent' = [sent EXCEPT ![renderer.job] = @ + 1]
    /\ renderer' \in {renderer, [renderer EXCEPT !.step = "sent"]}
    /\ UNCHANGED <<tables, outfit_revision, credential, boots>>

\* generate: the request leaves the machine, or may have (the client never
\* retries).
generate ==
    /\ renderer.step = "marked"
    /\ sent' = [sent EXCEPT ![renderer.job] = @ + 1]
    /\ GoTo("sent")
    /\ UNCHANGED <<tables, outfit_revision, credential, boots>>

\* generate fails before the send: it may say so.
generate_not_sent ==
    /\ renderer.step = "marked"
    /\ \E code \in TransportFailures :
        renderer' = [step |-> "not_sent", job |-> renderer.job, fence |-> renderer.fence,
                     code |-> code]
    /\ UNCHANGED <<tables, outfit_revision, credential, boots, sent>>

\* Mutant: a refused key is reported as a missing one.
generate_fails_as_unsent ==
    /\ renderer.step = "sent"
    /\ \E code \in {"credential_unavailable", "outcome_unknown"} : Failing(code)
    /\ UNCHANGED <<tables, outfit_revision, credential, boots, sent>>

\* The provider answers with an error, or no usable answer arrives.
generate_fails ==
    /\ renderer.step = "sent"
    /\ \E code \in SentFailures : Failing(code)
    /\ UNCHANGED <<tables, outfit_revision, credential, boots, sent>>

clear_try_on_transport_started ==
    /\ renderer.step = "not_sent"
    /\ attempts[renderer.job].state = "dispatched" /\ attempts[renderer.job].audit
    /\ attempts[renderer.job].fence = renderer.fence
    /\ attempts' = [attempts EXCEPT ![renderer.job].audit = FALSE]
    /\ Failing(renderer.code)
    /\ UNCHANGED <<approvals, jobs, blobs, outputs, outfit_revision, credential, boots, sent>>

fail_try_on_job ==
    /\ renderer.step = "failing"
    /\ fail_job(renderer.job, renderer.fence, renderer.code)
    /\ renderer' = Resting
    /\ UNCHANGED <<approvals, blobs, outputs, outfit_revision, credential, boots, sent>>

\* The answer is an image: begin_try_on_output records its digest first.
begin_try_on_output ==
    /\ renderer.step = "sent"
    /\ attempts[renderer.job].state = "dispatched"
    /\ attempts[renderer.job].fence = renderer.fence
    /\ attempts' = [attempts EXCEPT ![renderer.job].state = "materializing",
                                    ![renderer.job].audit = TRUE]
    /\ GoTo("materializing")
    /\ UNCHANGED <<approvals, jobs, blobs, outputs, outfit_revision, credential, boots, sent>>

\* finalize_try_on_output: first the blob, then the transaction.
put_output ==
    /\ renderer.step = "materializing"
    /\ blobs' = blobs \cup {renderer.job}
    /\ GoTo("promoted")
    /\ UNCHANGED <<approvals, jobs, attempts, outputs, outfit_revision, credential, boots, sent>>

finalize_try_on_output ==
    /\ renderer.step = "promoted"
    /\ finalize_promoted_output(renderer.job, renderer.fence)
    /\ renderer' = Resting
    /\ UNCHANGED <<approvals, blobs, outfit_revision, credential, boots, sent>>

\* A transaction or the blob store fails: run_once ends with an error and
\* leaves the rows as they are.
run_once_fails ==
    /\ renderer # Resting
    /\ renderer' = Resting
    /\ UNCHANGED <<tables, outfit_revision, credential, boots, sent>>

-----------------------------------------------------------------------------
\* recover_try_on_jobs, one transaction over every running job

\* What becomes of a running job, given the jobs whose image verifies.
Recovered(a, promoted) ==
    CASE attempts[a].state = "prepared" ->
            [state |-> "queued", fence |-> jobs[a].fence, failure |-> "none"]
      [] attempts[a].state = "dispatched" ->
            [state |-> "failed", fence |-> jobs[a].fence, failure |-> "outcome_unknown"]
      [] attempts[a].state = "materializing" /\ a \in promoted ->
            [state |-> "succeeded", fence |-> jobs[a].fence, failure |-> "none"]
      [] OTHER ->
            [state |-> "failed", fence |-> jobs[a].fence,
             failure |-> "output_materialization_interrupted"]

Running == {a \in Approvals : jobs[a].state = "running"}

\* The application is started again.  `promoted` is what BlobStore::verify
\* accepts of the images in the store.
Restart ==
    /\ boots < MaxBoots
    /\ boots' = boots + 1
    /\ renderer' = Resting
    /\ \E promoted \in SUBSET blobs :
        /\ jobs' = [a \in Approvals |-> IF a \in Running THEN Recovered(a, promoted)
                                        ELSE jobs[a]]
        /\ attempts' = [a \in Approvals |->
             IF a \in Running /\ Recovered(a, promoted).state # "queued"
             THEN [attempts[a] EXCEPT !.state = Recovered(a, promoted).state]
             ELSE attempts[a]]
        /\ outputs' = outputs \cup {a \in Running : Recovered(a, promoted).state = "succeeded"}
    /\ UNCHANGED <<approvals, blobs, outfit_revision, credential, sent>>

\* A replayed or refused command, or an empty claim, changes nothing.
NothingToDo == renderer = Resting /\ UNCHANGED vars

Next ==
    \/ \E a \in Approvals :
        \/ preview_try_on(a) \/ Expire(a) \/ submit_try_on(a)
        \/ claim_try_on_job(a) \/ claim_unusable_job(a)
    \/ EditOutfit \/ DeleteCredential
    \/ authorize_try_on_transport \/ credential_unavailable
    \/ mark_try_on_transport_started \/ generate \/ generate_not_sent \/ generate_fails
    \/ clear_try_on_transport_started \/ fail_try_on_job
    \/ begin_try_on_output \/ put_output \/ finalize_try_on_output
    \/ run_once_fails \/ Restart \/ NothingToDo

Spec == Init /\ [][Next]_vars

-----------------------------------------------------------------------------
\* Every variable has its type.
TypeOK ==
    /\ approvals \in [Approvals -> [status : {"none", "open", "expired", "consumed"},
                                    revision : Nat]]
    /\ jobs \in [Approvals -> [state : {"none", "queued", "running"} \cup Terminal,
                               fence : Nat, failure : FailureCodes \cup {"none"}]]
    /\ attempts \in [Approvals -> [state : {"none", "prepared", "dispatched",
                                            "materializing"} \cup Terminal,
                                   fence : Nat, audit : BOOLEAN]]
    /\ blobs \subseteq Approvals /\ outputs \subseteq Approvals
    /\ outfit_revision \in Nat /\ credential \in BOOLEAN /\ boots \in Nat
    /\ renderer \in {Resting}
         \cup [step : {"claimed", "authorized", "marked", "sent", "materializing", "promoted"},
               job : Approvals, fence : Nat]
         \cup [step : {"failing", "not_sent"}, job : Approvals, fence : Nat, code : FailureCodes]
    /\ sent \in [Approvals -> Nat]

\* The photographs of one approval are sent at most once, however often the
\* application crashes, a transaction fails or the job is recovered.
AtMostOneSend == \A a \in Approvals : sent[a] <= 1

\* The record of an attempt never denies a transmission that happened.
AuditCoversSend == \A a \in Approvals : sent[a] > 0 => attempts[a].audit

\* A failure that tells the user nothing was sent (images gone or changed, no
\* credential) is reported only for jobs that were not sent.
FailureIsHonest == \A a \in Approvals : jobs[a].failure \in UnsentFailures => sent[a] = 0

\* A job succeeds exactly with its output, and the output's image is stored.
SuccessHasOutput ==
    /\ \A a \in Approvals : jobs[a].state = "succeeded" <=> a \in outputs
    /\ outputs \subseteq blobs

\* A finished job keeps its outcome; no late step or recovery reopens it.
OutcomeIsFinal ==
    [][\A a \in Approvals : jobs[a].state \in Terminal => jobs'[a] = jobs[a]]_vars
=============================================================================
