------------------------- MODULE OutboundAuthority -------------------------
(***************************************************************************)
(* The in-process authority for outbound work (src-tauri/src/local_only.rs *)
(* and the wrappers of src-tauri/src/lib.rs that take its leases).  Gmail, *)
(* PhotoKit, receipt images and the OpenAI callers hold a lease while they *)
(* may use the network; a change of the local-only mode is a transition    *)
(* that refuses new leases, waits for the old ones and then publishes the  *)
(* new snapshot, fails closed, or is dropped and restores the prior one.   *)
(*                                                                         *)
(* Every section under the authority's mutex is one step.  The transition  *)
(* is the only thread that waits on the condition variable `idle`: it is   *)
(* parked until the last lease notifies it (or it wakes spuriously).       *)
(***************************************************************************)
EXTENDS Naturals, FiniteSets

CONSTANTS
    Workers,   \* threads and tasks that take leases
    Revisions  \* the revisions of the mode
ASSUME WorkersAssumption == IsFiniteSet(Workers)
ASSUME RevisionsAssumption == Revisions \subseteq Nat /\ 0 \in Revisions

VARIABLES
    snapshot,       \* AuthorityState.snapshot
    transitioning,  \* AuthorityState.transitioning
    active_leases,  \* AuthorityState.active_leases
    lease,          \* what each worker holds
    transition,     \* where the thread inside begin_transition or later is
    prior           \* OutboundTransition.prior while the transition is held, the
                    \* snapshot last published otherwise

authorityVars == <<snapshot, transitioning, active_leases, lease, transition, prior>>

Healths == {"Persisted", "FailClosedDefault", "FailClosedUncertain"}
Snapshots == [local_only : BOOLEAN, revision : Revisions, health : Healths]
Leases == {"none", "outbound", "cleanup"}

FailClosedSnapshot(revision) ==
    [local_only |-> TRUE,
     revision |-> revision,
     health |-> IF revision = 0 THEN "FailClosedDefault" ELSE "FailClosedUncertain"]

\* OutboundAuthority::new, from the snapshot the mode store loaded.
new(s) ==
    /\ snapshot = s
    /\ transitioning = FALSE
    /\ active_leases = 0
    /\ lease = [w \in Workers |-> "none"]
    /\ transition = "none"
    /\ prior = s

\* The process died and a new one calls OutboundAuthority::new.
renew(s) ==
    /\ snapshot' = s
    /\ transitioning' = FALSE
    /\ active_leases' = 0
    /\ lease' = [w \in Workers |-> "none"]
    /\ transition' = "none"
    /\ prior' = s

TakeLease(w, kind) ==
    /\ active_leases' = active_leases + 1
    /\ lease' = [lease EXCEPT ![w] = kind]
    /\ UNCHANGED <<snapshot, transitioning, transition, prior>>

\* Mutant: acquire does not look at the transition.
acquire_during_transition(w) ==
    /\ lease[w] = "none"
    /\ ~snapshot.local_only
    /\ TakeLease(w, "outbound")

\* acquire: refused during a transition and in local-only mode.
acquire(w) ==
    /\ lease[w] = "none"
    /\ ~transitioning
    /\ ~snapshot.local_only
    /\ TakeLease(w, "outbound")

\* acquire_local_cleanup: refused during a transition only.
acquire_local_cleanup(w) ==
    /\ lease[w] = "none"
    /\ ~transitioning
    /\ TakeLease(w, "cleanup")

\* Mutant: the last lease does not notify the waiting transition.
drop_lease_silent(w) ==
    /\ lease[w] # "none"
    /\ active_leases' = active_leases - 1
    /\ lease' = [lease EXCEPT ![w] = "none"]
    /\ UNCHANGED <<snapshot, transitioning, transition, prior>>

\* Drop for OutboundLease: the last lease notifies the waiting transition.
drop_lease(w) ==
    /\ lease[w] # "none"
    /\ active_leases' = active_leases - 1
    /\ lease' = [lease EXCEPT ![w] = "none"]
    /\ transition' = IF active_leases' = 0 /\ transition = "parked"
                     THEN "runnable" ELSE transition
    /\ UNCHANGED <<snapshot, transitioning, prior>>

\* One evaluation of the loop in begin_transition.
DrainLoop ==
    \/ /\ active_leases # 0
       /\ transition' = "parked"
       /\ UNCHANGED prior
    \/ /\ active_leases = 0
       /\ transition' = "held"
       /\ prior' = snapshot

\* begin_transition: one transition at a time, a second caller is refused.
begin_transition ==
    /\ ~transitioning
    /\ transitioning' = TRUE
    /\ DrainLoop
    /\ UNCHANGED <<snapshot, active_leases, lease>>

resume_transition ==
    /\ transition = "runnable"
    /\ DrainLoop
    /\ UNCHANGED <<snapshot, transitioning, active_leases, lease>>

SpuriousDrainWakeup ==
    /\ transition = "parked"
    /\ transition' = "runnable"
    /\ UNCHANGED <<snapshot, transitioning, active_leases, lease, prior>>

EndTransition(s) ==
    /\ transition = "held"
    /\ snapshot' = s
    /\ transitioning' = FALSE
    /\ transition' = "none"
    /\ prior' = s
    /\ UNCHANGED <<active_leases, lease>>

publish(s) == EndTransition(s)

fail_closed == EndTransition(FailClosedSnapshot(prior.revision))

\* Drop for an OutboundTransition that was not completed.
drop_transition == EndTransition(prior)

-----------------------------------------------------------------------------
\* The authority by itself: it starts from what the mode store loads and the
\* handler publishes any mode that was persisted.

PersistedSnapshots ==
    [local_only : BOOLEAN, revision : Revisions \ {0}, health : {"Persisted"}]

AuthorityInit == \E s \in PersistedSnapshots \cup {FailClosedSnapshot(0)} : new(s)

PublishAny == \E s \in PersistedSnapshots : publish(s)

AuthorityNext ==
    \/ \E w \in Workers : acquire(w) \/ acquire_local_cleanup(w) \/ drop_lease(w)
    \/ begin_transition \/ resume_transition \/ SpuriousDrainWakeup
    \/ PublishAny \/ fail_closed \/ drop_transition

\* Outbound calls end (every HTTP client has a timeout), a runnable thread
\* runs, and the handler that holds the transition finishes.
AuthorityFairness ==
    /\ \A w \in Workers : WF_authorityVars(drop_lease(w))
    /\ WF_authorityVars(resume_transition)
    /\ WF_authorityVars(PublishAny \/ fail_closed \/ drop_transition)

AuthoritySpec == AuthorityInit /\ [][AuthorityNext]_authorityVars
FairAuthoritySpec == AuthoritySpec /\ AuthorityFairness

-----------------------------------------------------------------------------
\* Every variable has its type.
AuthorityTypeOK ==
    /\ snapshot \in Snapshots /\ prior \in Snapshots
    /\ transitioning \in BOOLEAN
    /\ active_leases \in Nat
    /\ lease \in [Workers -> Leases]
    /\ transition \in {"none", "parked", "runnable", "held"}

\* Local-only mode means that no outbound call is under way: acquire, the
\* drain of begin_transition and publish together never leave an outbound
\* lease alive under a local-only snapshot.
NoOutboundWhenLocalOnly ==
    snapshot.local_only => \A w \in Workers : lease[w] # "outbound"

\* The counter that begin_transition waits on is the number of leases held.
LeasesCounted == active_leases = Cardinality({w \in Workers : lease[w] # "none"})

\* Once begin_transition has returned, nobody holds a lease until it ends.
TransitionIsExclusive == transition = "held" => \A w \in Workers : lease[w] = "none"

\* The mode never changes under a running call: a lease taken in one mode is
\* dropped before another mode is published.
ModeStableUnderLease ==
    [][(\E w \in Workers : lease[w] # "none") => snapshot' = snapshot]_authorityVars

\* A request to change the mode is not starved by outbound work.
TransitionEnds == transitioning ~> ~transitioning
=============================================================================
