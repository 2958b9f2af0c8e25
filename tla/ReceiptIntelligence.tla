------------------------ MODULE ReceiptIntelligence ------------------------
(***************************************************************************)
(* Receipt intelligence: the text of one receipt, shown to the user in a    *)
(* preview, is sent to the provider once per approved request                *)
(* (receipt_intelligence_coordinator.rs, receipt_intelligence_repository.rs). *)
(*                                                                         *)
(* The command is asynchronous: calls, also calls of the same request, run  *)
(* side by side and between any two transactions of one another.  The main  *)
(* thread changes the source and deletes the credential meanwhile.  A       *)
(* release gate and an outbound lease (OutboundAuthority) stand before every *)
(* call that is not a replay.                                               *)
(***************************************************************************)
EXTENDS Naturals

CONSTANTS
    Requests,   \* request identities, each with the consent the user gave it
    Calls,      \* calls of the command that may be under way at once
    MaxSource,  \* bound: changes of the source
    MaxBoots    \* bound: times the application is started

VARIABLES
    consents,    \* what each request was shown, and whether it is unexpired
    attempts,    \* receipt_intelligence_attempts: state, failure code, dispatched_at_ms
    source,      \* the revision, parse and fragments that read_preview binds
    credential,  \* whether the credential is active
    calls,
    boots,
    sent,        \* history: transmissions that were made for each request
    overlapped   \* history: requests of which two calls were under way at once

tables == <<consents, attempts, source, credential>>
vars == <<tables, calls, boots, sent, overlapped>>

NoConsent == [source |-> 0, fresh |-> FALSE]
NoAttempt == [state |-> "none", failure |-> "none", dispatched |-> FALSE]
Resting == [at |-> "idle"]
Terminal == {"completed", "refused", "failed", "outcome_unknown"}
Outcomes == {"completed", "refused", "incomplete", "unknown", "failure"}

Init ==
    /\ consents = [r \in Requests |-> NoConsent]
    /\ attempts = [r \in Requests |-> NoAttempt]
    /\ source = 1 /\ credential = TRUE /\ boots = 1
    /\ calls = [c \in Calls |-> Resting]
    /\ sent = [r \in Requests |-> 0] /\ overlapped = {}

Request(c) == calls[c].request
Attempt(c) == attempts[Request(c)]
Goto(c, place) == calls' = [calls EXCEPT ![c].at = place]
Return(c) == calls' = [calls EXCEPT ![c] = Resting]

-----------------------------------------------------------------------------
\* The window and the main thread

\* preview: nothing is stored, the window keeps what it is shown.
preview(r) ==
    /\ consents[r] = NoConsent /\ credential
    /\ consents' = [consents EXCEPT ![r] = [source |-> source, fresh |-> TRUE]]
    /\ UNCHANGED <<attempts, source, credential, calls, boots, sent, overlapped>>

\* APPROVAL_LIFETIME_MS passes.
Expire(r) ==
    /\ consents[r].fresh /\ consents' = [consents EXCEPT ![r].fresh = FALSE]
    /\ UNCHANGED <<attempts, source, credential, calls, boots, sent, overlapped>>

\* A sync or an analysis gives the source another revision or parse.
ChangeSource ==
    /\ source < MaxSource /\ source' = source + 1
    /\ UNCHANGED <<consents, attempts, credential, calls, boots, sent, overlapped>>

DeleteCredential ==
    /\ credential /\ credential' = FALSE
    /\ UNCHANGED <<consents, attempts, source, calls, boots, sent, overlapped>>

-----------------------------------------------------------------------------
\* ReceiptIntelligenceCoordinator::request, one transaction or await at a time

\* terminal_replay: a request with an outcome, or under way, is answered from its row.
\* Otherwise the call reads the clock and goes on.
terminal_replay(c, r) ==
    /\ calls[c] = Resting /\ consents[r] # NoConsent
    /\ attempts[r].state \in {"none", "not_sent"}
    /\ calls' = [calls EXCEPT ![c] = [at |-> "admitted", request |-> r, outcome |-> "none",
                                      fresh |-> consents[r].fresh]]
    /\ overlapped' = IF \E d \in Calls : calls[d] # Resting /\ calls[d].request = r
                     THEN overlapped \cup {r} ELSE overlapped
    /\ UNCHANGED <<tables, boots, sent>>

\* read_preview and ensure_preview_unchanged
Unchanged(r) == consents[r].source = source

\* reserve_receipt_intelligence: the approval, consumed, and the attempt.
reserve_receipt_intelligence(c) ==
    /\ calls[c] # Resting /\ calls[c].at = "admitted"
    /\ Unchanged(Request(c)) /\ Attempt(c) = NoAttempt
    /\ calls[c].fresh /\ credential
    /\ attempts' = [attempts EXCEPT ![Request(c)].state = "not_sent"]
    /\ Goto(c, "reserved")
    /\ UNCHANGED <<consents, source, credential, boots, sent, overlapped>>

\* replay_reservation: an attempt that was never dispatched is taken up again.
replay_reservation(c) ==
    /\ calls[c] # Resting /\ calls[c].at = "admitted"
    /\ Unchanged(Request(c)) /\ Attempt(c).state = "not_sent"
    /\ Goto(c, "reserved")
    /\ UNCHANGED <<tables, boots, sent, overlapped>>

\* The source has changed, the approval expired, the credential went, or another call
\* has got further: an error, or the stored response.
refused_or_replayed(c) ==
    /\ calls[c] # Resting /\ calls[c].at = "admitted"
    /\ \/ ~Unchanged(Request(c))
       \/ Attempt(c).state \notin {"none", "not_sent"}
       \/ Attempt(c) = NoAttempt /\ ~(calls[c].fresh /\ credential)
    /\ Return(c) /\ UNCHANGED <<tables, boots, sent, overlapped>>

\* fail_receipt_intelligence: also an attempt that is dispatched; nothing changes when
\* the attempt has its outcome.
fail_receipt_intelligence(r, code) ==
    attempts' = IF attempts[r].state \in {"not_sent", "dispatched"}
                THEN [attempts EXCEPT ![r].state = "failed", ![r].failure = code] ELSE attempts

\* receipt_intelligence_credential_locator, with the clock the call read first.
receipt_intelligence_credential_locator(c) ==
    /\ calls[c] # Resting /\ calls[c].at = "reserved"
    /\ Attempt(c).state = "not_sent" /\ calls[c].fresh /\ credential
    /\ Goto(c, "located") /\ UNCHANGED <<tables, boots, sent, overlapped>>

credential_locator_refused(c) ==
    /\ calls[c] # Resting /\ calls[c].at = "reserved"
    /\ ~(Attempt(c).state = "not_sent" /\ calls[c].fresh /\ credential)
    /\ fail_receipt_intelligence(Request(c),
         IF Attempt(c).state = "not_sent" /\ ~calls[c].fresh THEN "approval_expired"
         ELSE "credential_unavailable")
    /\ Return(c) /\ UNCHANGED <<consents, source, credential, boots, sent, overlapped>>

\* The Keychain gives the secret, or does not.
get_receipt_intelligence_secret(c) ==
    /\ calls[c] # Resting /\ calls[c].at = "located"
    /\ Goto(c, "keyed") /\ UNCHANGED <<tables, boots, sent, overlapped>>

secret_unavailable(c) ==
    /\ calls[c] # Resting /\ calls[c].at = "located"
    /\ fail_receipt_intelligence(Request(c), "credential_unavailable")
    /\ Return(c) /\ UNCHANGED <<consents, source, credential, boots, sent, overlapped>>

\* mark_receipt_intelligence_dispatched: state, expiry and credential once more, in the
\* transaction that commits to the transmission.
mark_receipt_intelligence_dispatched(c) ==
    /\ calls[c] # Resting /\ calls[c].at = "keyed"
    /\ Attempt(c).state = "not_sent" /\ consents[Request(c)].fresh /\ credential
    /\ attempts' = [attempts EXCEPT ![Request(c)].state = "dispatched",
                                    ![Request(c)].dispatched = TRUE]
    /\ Goto(c, "dispatched")
    /\ UNCHANGED <<consents, source, credential, boots, sent, overlapped>>

\* The error goes to the caller and the attempt stays as it is.
mark_refused(c) ==
    /\ calls[c] # Resting /\ calls[c].at = "keyed"
    /\ ~(Attempt(c).state = "not_sent" /\ consents[Request(c)].fresh /\ credential)
    /\ Return(c) /\ UNCHANGED <<tables, boots, sent, overlapped>>

\* analyze_receipt_intelligence and its await; a failure may come before the send.
analyze_receipt_intelligence(c) ==
    /\ calls[c] # Resting /\ calls[c].at = "dispatched"
    /\ \E outcome \in Outcomes, made \in {0, 1} :
        /\ made = 0 => outcome = "failure"
        /\ sent' = [sent EXCEPT ![Request(c)] = @ + made]
        /\ calls' = [calls EXCEPT ![c].at = "answered", ![c].outcome = outcome]
    /\ UNCHANGED <<tables, boots, overlapped>>

\* Mutant: the answer is published without another look at the source.
complete_with_publication_Unchecked(c) ==
    /\ calls[c] # Resting /\ calls[c].at = "answered" /\ calls[c].outcome = "completed"
    /\ Attempt(c).state = "dispatched"
    /\ attempts' = [attempts EXCEPT ![Request(c)].state = "completed"]
    /\ Return(c) /\ UNCHANGED <<consents, source, credential, boots, sent, overlapped>>

\* complete_receipt_intelligence_with_publication: ensure_approved_preview_is_current,
\* then the order, the audit, the classification and the state in one transaction.
complete_with_publication(c) ==
    /\ calls[c] # Resting /\ calls[c].at = "answered" /\ calls[c].outcome = "completed"
    /\ Attempt(c).state = "dispatched" /\ Unchanged(Request(c))
    /\ attempts' = [attempts EXCEPT ![Request(c)].state = "completed"]
    /\ Return(c) /\ UNCHANGED <<consents, source, credential, boots, sent, overlapped>>

\* That transaction fails (the source changed, the order is not valid, the state is
\* another, the database refuses), or the provider did: publication_failure_code,
\* provider_failure_code.
complete_fails(c) ==
    /\ calls[c] # Resting /\ calls[c].at = "answered"
    /\ calls[c].outcome \in {"completed", "incomplete", "failure"}
    /\ fail_receipt_intelligence(Request(c), "after_dispatch")
    /\ Return(c) /\ UNCHANGED <<consents, source, credential, boots, sent, overlapped>>

\* refuse_receipt_intelligence and mark_receipt_intelligence_outcome_unknown.
finalize_dispatched(c) ==
    /\ calls[c] # Resting /\ calls[c].at = "answered"
    /\ calls[c].outcome \in {"refused", "unknown"}
    /\ attempts' = IF Attempt(c).state = "dispatched"
                   THEN [attempts EXCEPT ![Request(c)].state =
                           IF calls[c].outcome = "refused" THEN "refused" ELSE "outcome_unknown"]
                   ELSE attempts
    /\ Return(c) /\ UNCHANGED <<consents, source, credential, boots, sent, overlapped>>

\* Mutant: an attempt that was cut off in dispatch is offered to be taken up again.
recovered_state_Resumable(r) ==
    IF attempts[r].state = "dispatched" THEN "not_sent" ELSE attempts[r].state

\* recover_receipt_intelligence_attempts
recovered_state(r) ==
    IF attempts[r].state = "dispatched" THEN "outcome_unknown" ELSE attempts[r].state

\* The application ends, in whatever state its calls are, and is started again.
Restart ==
    /\ boots < MaxBoots /\ boots' = boots + 1
    /\ calls' = [c \in Calls |-> Resting]
    /\ attempts' = [r \in Requests |-> [attempts[r] EXCEPT !.state = recovered_state(r)]]
    /\ UNCHANGED <<consents, source, credential, sent, overlapped>>

Next ==
    \/ \E r \in Requests : preview(r) \/ Expire(r) \/ \E c \in Calls : terminal_replay(c, r)
    \/ ChangeSource \/ DeleteCredential \/ Restart
    \/ \E c \in Calls :
        \/ reserve_receipt_intelligence(c) \/ replay_reservation(c) \/ refused_or_replayed(c)
        \/ receipt_intelligence_credential_locator(c) \/ credential_locator_refused(c)
        \/ get_receipt_intelligence_secret(c) \/ secret_unavailable(c)
        \/ mark_receipt_intelligence_dispatched(c) \/ mark_refused(c)
        \/ analyze_receipt_intelligence(c)
        \/ complete_with_publication(c) \/ complete_fails(c) \/ finalize_dispatched(c)

Spec == Init /\ [][Next]_vars

-----------------------------------------------------------------------------
\* A receipt is sent at most once for a consent, whatever is repeated, overlaps or dies,
\* and a transmission is on record: the row's dispatch time is what a later deletion
\* reports as kept by the provider.
SentOnceOnRecord == \A r \in Requests : sent[r] <= 1 /\ (sent[r] > 0 => attempts[r].dispatched)

\* What is published was read from the source the user approved, even if the source
\* changed while the provider was at work.
PublishedAsApproved ==
    [][\A r \in Requests : (attempts[r].state # "completed" /\ attempts'[r].state = "completed")
         => consents[r].source = source]_vars

\* A failure that says nothing was sent is true, unless two calls of that request
\* overlapped: then the second one can fail the attempt the first has dispatched.
FailureIsHonest ==
    \A r \in Requests \ overlapped :
        attempts[r].failure \in {"approval_expired", "credential_unavailable"} => sent[r] = 0
=============================================================================
