-------------------------- MODULE Recommendations --------------------------
(***************************************************************************)
(* Outfit recommendations: a preview yields an approval for one use, bound  *)
(* to the catalog and outfit revisions of that moment; a request reserves    *)
(* an attempt with it, sends it and finalizes it                             *)
(* (outfit_recommender.rs, outfit_recommendation_repository.rs).            *)
(*                                                                         *)
(* Every database call is one immediate transaction.  Credential deletion   *)
(* and edits run between any two of them, as the tests of                   *)
(* outfit_recommender.rs do with threads.                                   *)
(***************************************************************************)
EXTENDS Naturals

CONSTANTS
    Approvals,    \* preview requests, hence approvals
    Requests,     \* recommendation requests
    MaxRevision,  \* bound: edits of the catalog or of outfits
    MaxBoots      \* bound: times the application is started

VARIABLES
    approvals,   \* outfit_recommendation_approvals: revision, expiry, consumed_request_id
    attempts,    \* outfit_recommendation_attempts, by request
    revision,    \* catalog_revision and outfit_revision
    credential,
    calls,       \* where coordinate_request is, for the requests under way
    boots,
    answers,     \* history: the recommendations handed to the window at this revision
    sent         \* history: requests whose transport was started

tables == <<approvals, attempts, revision, credential>>
vars == <<tables, calls, boots, answers, sent>>

NoApproval == [revision |-> 0, fresh |-> FALSE, consumed |-> {}]
NoAttempt == [state |-> "none", approval |-> {}, revision |-> 0, started |-> FALSE]
Idle == [at |-> "idle", outcome |-> "none"]
Outcomes == {"completed", "refused", "failed", "outcome_unknown"}
Terminal == Outcomes \cup {"stale"}

Init ==
    /\ approvals = [a \in Approvals |-> NoApproval]
    /\ attempts = [q \in Requests |-> NoAttempt]
    /\ revision = 1 /\ credential = TRUE /\ boots = 1
    /\ calls = [q \in Requests |-> Idle] /\ answers = {} /\ sent = {}

Goto(q, place) == calls' = [calls EXCEPT ![q].at = place]

-----------------------------------------------------------------------------
preview_outfit_recommendation(a) ==
    /\ approvals[a] = NoApproval /\ credential
    /\ approvals' = [approvals EXCEPT ![a] = [revision |-> revision, fresh |-> TRUE,
                                              consumed |-> {}]]
    /\ UNCHANGED <<attempts, revision, credential, calls, boots, answers, sent>>

\* APPROVAL_LIFETIME_MS passes.
Expire(a) ==
    /\ approvals[a].fresh /\ approvals' = [approvals EXCEPT ![a].fresh = FALSE]
    /\ UNCHANGED <<attempts, revision, credential, calls, boots, answers, sent>>

\* What the window was told no longer counts as current.
Edit ==
    /\ revision < MaxRevision /\ revision' = revision + 1 /\ answers' = {}
    /\ UNCHANGED <<approvals, attempts, credential, calls, boots, sent>>

DeleteCredential ==
    /\ credential /\ credential' = FALSE
    /\ UNCHANGED <<approvals, attempts, revision, calls, boots, answers, sent>>

-----------------------------------------------------------------------------
\* coordinate_request, one transaction or call at a time

\* replay_attempt: the stored outcome; a recommendation whose revisions have passed is
\* reported as stale.
replay_attempt(q) ==
    /\ calls[q] = Idle /\ attempts[q].state \in Terminal
    /\ answers' = IF attempts[q].state = "completed" /\ attempts[q].revision = revision
                  THEN answers \cup {q} ELSE answers
    /\ UNCHANGED <<tables, calls, boots, sent>>

\* Mutant: whether the approval was consumed is not checked.
usable_Consumed(a) == /\ approvals[a].fresh /\ credential
                      /\ approvals[a].revision = revision

usable(a) == /\ approvals[a].consumed = {} /\ approvals[a].fresh /\ credential
             /\ approvals[a].revision = revision

\* reserve_outfit_recommendation: the approval is consumed with the attempt.
reserve_outfit_recommendation(q, a) ==
    /\ calls[q] = Idle /\ attempts[q] = NoAttempt /\ usable(a)
    /\ approvals' = [approvals EXCEPT ![a].consumed = {q}]
    /\ attempts' = [attempts EXCEPT ![q] = [state |-> "reserved", approval |-> {a},
                                            revision |-> revision, started |-> FALSE]]
    /\ Goto(q, "reserved")
    /\ UNCHANGED <<revision, credential, boots, answers, sent>>

\* The Keychain gives the secret.
get_credential(q) ==
    /\ calls[q].at = "reserved" /\ Goto(q, "keyed")
    /\ UNCHANGED <<tables, boots, answers, sent>>

\* authorize_outfit_recommendation_transport_start: the authority point, serialized with
\* the inactivation of the credential.
authorize_outfit_recommendation_transport_start(q) ==
    /\ calls[q].at = "keyed" /\ attempts[q].state = "reserved" /\ credential
    /\ attempts' = [attempts EXCEPT ![q].started = TRUE]
    /\ Goto(q, "authorized")
    /\ UNCHANGED <<approvals, revision, credential, boots, answers, sent>>

\* The secret is not there, or the credential went before the authority point.
credential_unavailable(q) ==
    /\ calls[q].at = "reserved" \/ (calls[q].at = "keyed" /\ ~credential)
    /\ calls' = [calls EXCEPT ![q] = [at |-> "answered", outcome |-> "failed"]]
    /\ UNCHANGED <<tables, boots, answers, sent>>

recommend(q) ==
    /\ calls[q].at = "authorized"
    /\ sent' = sent \cup {q}
    /\ \E outcome \in Outcomes : calls' = [calls EXCEPT ![q] = [at |-> "answered", outcome |-> outcome]]
    /\ UNCHANGED <<tables, boots, answers>>

\* The runtime cannot be built: the call ends, and the attempt stays reserved until the
\* next start.
recommend_fails(q) ==
    /\ calls[q].at = "authorized" /\ calls' = [calls EXCEPT ![q] = Idle]
    /\ UNCHANGED <<tables, boots, answers, sent>>

\* Whatever the provider said, it is stale when the revisions have passed.
finalized_state(q) == IF attempts[q].revision = revision THEN calls[q].outcome ELSE "stale"

finalize_outfit_recommendation(q) ==
    /\ calls[q].at = "answered" /\ attempts[q].state = "reserved"
    /\ attempts' = [attempts EXCEPT ![q].state = finalized_state(q)]
    /\ answers' = IF finalized_state(q) = "completed" THEN answers \cup {q} ELSE answers
    /\ calls' = [calls EXCEPT ![q] = Idle]
    /\ UNCHANGED <<approvals, revision, credential, boots, sent>>

\* The application ends and starts: recover_reserved_outfit_recommendations.
Restart ==
    /\ boots < MaxBoots /\ boots' = boots + 1
    /\ calls' = [q \in Requests |-> Idle]
    /\ attempts' = [q \in Requests |-> IF attempts[q].state = "reserved"
                      THEN [attempts[q] EXCEPT !.state = "outcome_unknown"] ELSE attempts[q]]
    /\ answers' = {} /\ UNCHANGED <<approvals, revision, credential, sent>>

Next ==
    \/ \E a \in Approvals :
        \/ preview_outfit_recommendation(a) \/ Expire(a)
        \/ \E q \in Requests : reserve_outfit_recommendation(q, a)
    \/ Edit \/ DeleteCredential \/ Restart
    \/ \E q \in Requests :
        \/ replay_attempt(q) \/ get_credential(q)
        \/ authorize_outfit_recommendation_transport_start(q) \/ credential_unavailable(q)
        \/ recommend(q) \/ recommend_fails(q) \/ finalize_outfit_recommendation(q)

Spec == Init /\ [][Next]_vars

-----------------------------------------------------------------------------
\* An approval is good for one transmission, whichever requests name it and whatever is
\* repeated, and a transmission is on record.
SentOnceOnRecord ==
    /\ \A p, q \in sent : attempts[p].approval = attempts[q].approval => p = q
    /\ \A q \in sent : attempts[q].started

\* A recommendation is never shown as current for a catalog it was not made from: not
\* when the provider took its time, and not on a replay.
ShownIsCurrent == \A q \in answers : attempts[q].revision = revision

=============================================================================
