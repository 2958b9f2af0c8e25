------------------------------- MODULE Photos -------------------------------
(***************************************************************************)
(* People and garments in the photos of one scope                          *)
(* (wardrobe-platform person_repository.rs and photo_repository.rs):       *)
(* person detection with its leased attempts and the user's retries, the   *)
(* owner decision of each photo and the work it starts, the automatic      *)
(* analysis of the scope, the review of the observations, and the cases    *)
(* that reconcile a reviewed crop of the owner with the wardrobe           *)
(* (reconciliation_repository.rs).                                         *)
(*                                                                         *)
(* The commands run one at a time on the main thread; a command may stop   *)
(* at any point, with an error or with the process, and leaves its claims. *)
(* A request whose expected revisions are no longer current is refused     *)
(* without effect, so only accepted requests are actions.  An observation  *)
(* is named by the owner decision it was made for, 0 for the automatic     *)
(* one, and a crop by the observation it was drawn for and whether the      *)
(* program or the user drew it.  What a case proposes is not modelled.      *)
(***************************************************************************)
EXTENDS Naturals, FiniteSets

CONSTANTS
    Scopes,           \* the scopes there may be, by their eligible photos
    MaxDecisions,     \* bound: owner decisions per photo
    MaxGenerations,   \* bound: detection generations per photo
    MaxPhotoRevision  \* bound: accepted requests that raise photo_revision, per scope

VARIABLES
    members,         \* the eligible photos of the scope, which never change
    run,             \* photo_person_detection_runs: state and completed_count
    attempts,        \* the newest detection attempt of each photo
    reviews,         \* photo_owner_reviews.state
    heads,           \* photo_owner_heads: the decision and whether it selects a person
    work,            \* photo_owner_work_claims.state of each decision
    claims,          \* photo_analysis_member_claims of the automatic run
    analysis,        \* photo_analysis_runs.state of the automatic run
    observations,    \* photo_observations
    newest,          \* the newest of photo_artifacts of each photo
    verdicts,        \* photo_review_heads: state, current_artifact_id and revision
    cases,           \* reconciliation_cases: the pins, and whether it was decided
    photo_revision,  \* revision_state.photo_revision
    task             \* the command on the main thread and the photo it holds

vars == <<members, run, attempts, reviews, heads, work, claims, analysis,
          observations, newest, verdicts, cases, photo_revision, task>>

DETECTION_ATTEMPT_LIMIT == 3

NoPhoto == "no photo"

Crop(o, by) == [of |-> o, by |-> by]

NoCrop == Crop(0, "nobody")

NoVerdict == [state |-> "needs_review", crop |-> NoCrop, revision |-> 0]

Failures == {"retryable_failure", "permanent_unavailable"}

(* What detection_storage_state makes of the provider's answer.            *)
Findings == Failures \cup
    {"instances_available", "no_person_detected", "overflow"}

Decisions == 1..MaxDecisions

Init ==
    /\ members \in Scopes
    /\ run = [state |-> "none", completed |-> 0]
    /\ attempts = [p \in members |->
                     [generation |-> 0, state |-> "none", count |-> 0]]
    /\ reviews = [p \in members |-> "none"]
    /\ heads = [p \in members |-> [decision |-> 0, selects |-> FALSE]]
    /\ work = [p \in members |-> [d \in Decisions |-> "none"]]
    /\ claims = [p \in members |-> "none"]
    /\ analysis = "none"
    /\ observations = [p \in members |-> {}]
    /\ newest = [p \in members |-> NoCrop]
    /\ verdicts = [p \in members |-> [o \in 0..MaxDecisions |-> NoVerdict]]
    /\ cases = {}
    /\ photo_revision = 0
    /\ task = [name |-> "idle", photo |-> NoPhoto]

peopleVars == <<run, attempts, reviews>>
ownerVars == <<heads, work>>
analysisVars == <<claims, analysis>>
cropVars == <<observations, newest, verdicts, cases>>

Idle == task.name = "idle"

Begin(name, p) == task' = [name |-> name, photo |-> p]

(* An accepted request of the user moves photo_revision on.                *)
Accept ==
    /\ Idle /\ photo_revision < MaxPhotoRevision[members]
    /\ photo_revision' = photo_revision + 1

(* The command ends: its answer, an error, or the end of the process.      *)
Stop ==
    /\ ~Idle
    /\ Begin("idle", NoPhoto)
    /\ UNCHANGED <<peopleVars, ownerVars, analysisVars, cropVars, photo_revision>>

-----------------------------------------------------------------------------
(* Person detection                                                        *)

first_attempts == [p \in members |-> [generation |-> 1, state |-> "pending", count |-> 0]]

prepare_person_detection_run ==
    /\ Idle
    /\ Begin("detect", NoPhoto)
    /\ IF run.state = "none"
       THEN /\ run' = [state |-> "pending", completed |-> 0]
            /\ attempts' = first_attempts
       ELSE UNCHANGED <<run, attempts>>
    /\ UNCHANGED <<reviews, ownerVars, analysisVars, cropVars, photo_revision>>

(* A running attempt found here is one a dead command left; its lease has  *)
(* expired or not.  The count saturates at the limit it is compared with.  *)
claim_person_detection_work(p) ==
    /\ task.name = "detect" /\ task.photo = NoPhoto
    /\ attempts[p].state \in {"pending", "running"}
    /\ attempts' = [attempts EXCEPT ![p].state = "running",
                      ![p].count = IF @ < DETECTION_ATTEMPT_LIMIT THEN @ + 1 ELSE @]
    /\ run' = [run EXCEPT !.state = IF @ = "completed" THEN @ ELSE "running"]
    /\ Begin("detect", p)
    /\ UNCHANGED <<reviews, ownerVars, analysisVars, cropVars, photo_revision>>

(* Mutant: the answer to a retry is not counted again.                     *)
counted_FirstOnly(p) ==
    IF reviews[p] = "none" THEN run.completed + 1 ELSE run.completed
(* A first answer inserts the review; a later one finds it detecting; both *)
(* add the member to the run's completed_count.                            *)
counted(p) == run.completed + 1

run_with(completed) ==
    [state |-> IF completed = Cardinality(members) THEN "completed" ELSE "running",
     completed |-> completed]

(* The review is inserted, or found detecting.                             *)
published_review(p, finding) ==
    /\ reviews[p] \in {"none", "detecting"}
    /\ reviews' = [reviews EXCEPT ![p] = finding]

(* A transient failure before the limit would put the attempt back to      *)
(* pending, which the CHECK of photo_person_detection_attempts forbids once *)
(* it has been claimed: the transaction fails and the command with it.     *)
publish_person_detection(p, finding) ==
    /\ task.name = "detect" /\ task.photo = p
    /\ \/ finding # "retryable_failure"
       \/ attempts[p].count = DETECTION_ATTEMPT_LIMIT
    /\ attempts' = [attempts EXCEPT ![p].state = finding]
    /\ published_review(p, finding)
    /\ run' = run_with(counted(p))
    /\ Begin("detect", NoPhoto)
    /\ UNCHANGED <<ownerVars, analysisVars, cropVars, photo_revision>>

next_generation(p) == [generation |-> attempts[p].generation + 1, state |-> "pending", count |-> 0]
uncounted == [state |-> "running", completed |-> run.completed - 1]

retry_photo_person_detection(p) ==
    /\ Accept
    /\ reviews[p] \in Failures
    /\ heads[p].decision = 0
    /\ attempts[p].generation < MaxGenerations
    /\ attempts' = [attempts EXCEPT ![p] = next_generation(p)]
    /\ reviews' = [reviews EXCEPT ![p] = "detecting"]
    /\ run' = uncounted
    /\ UNCHANGED <<ownerVars, analysisVars, cropVars, task>>

drawn_review(p) == reviews' = [reviews EXCEPT ![p] = "instances_available"]

(* The user draws the rectangle that detection did not find.               *)
correct_photo_person_detection(p) ==
    /\ Accept
    /\ reviews[p] \in Findings \ {"instances_available"}
    /\ drawn_review(p)
    /\ UNCHANGED <<run, attempts, ownerVars, analysisVars, cropVars, task>>

-----------------------------------------------------------------------------
(* The owner decision and its work                                         *)

superseded(p) ==
    [d \in Decisions |->
       IF d = heads[p].decision /\ work[p][d] \in {"pending", "running"}
       THEN "stale" ELSE work[p][d]]

(* Somebody who was found can be called the owner; a decision always can be  *)
(* made against everybody.                                                 *)
owner_decision_is_valid(p, selects) ==
    /\ reviews[p] \in Findings
    /\ selects => reviews[p] = "instances_available"

owner_work(p, d, selects) ==
    IF selects THEN [superseded(p) EXCEPT ![d] = "pending"] ELSE superseded(p)

(* decide_photo_owner for the first decision, correct_photo_owner for the  *)
(* later ones.  Only the command that wrote the decision goes on with its  *)
(* work: a replay of it answers and stops.                                 *)
write_owner_decision(p, selects) ==
    LET d == heads[p].decision + 1 IN
    /\ Accept
    /\ d \in Decisions
    /\ owner_decision_is_valid(p, selects)
    /\ heads' = [heads EXCEPT ![p] = [decision |-> d, selects |-> selects]]
    /\ work' = [work EXCEPT ![p] = owner_work(p, d, selects)]
    /\ IF selects THEN Begin("own", p) ELSE UNCHANGED task
    /\ UNCHANGED <<peopleVars, analysisVars, cropVars>>

claim_owner_work(p) ==
    /\ task.name = "own" /\ task.photo = p
    /\ work[p][heads[p].decision] = "pending"
    /\ work' = [work EXCEPT ![p][heads[p].decision] = "running"]
    /\ UNCHANGED <<peopleVars, heads, analysisVars, cropVars, photo_revision, task>>

valid_claim(p, d) == work[p][d] = "running" /\ heads[p].selects

insert_owner_observation(p, d) ==
    /\ observations' = [observations EXCEPT ![p] = @ \cup {d}]
    /\ newest' = [newest EXCEPT ![p] = Crop(d, "work")]

owner_work_ends(p, d) == work' = [work EXCEPT ![p][d] = "terminal"]

(* The installed provider is the unavailable one: the work always makes a  *)
(* crop of the selected person's rectangle and an observation to review.   *)
publish_owner_work(p) ==
    LET d == heads[p].decision IN
    /\ task.name = "own" /\ task.photo = p
    /\ valid_claim(p, d)
    /\ insert_owner_observation(p, d)
    /\ owner_work_ends(p, d)
    /\ Begin("idle", NoPhoto)
    /\ UNCHANGED <<peopleVars, heads, analysisVars, verdicts, cases, photo_revision>>

-----------------------------------------------------------------------------
(* The automatic analysis of the scope                                     *)

prepare_analysis_run ==
    /\ Idle
    /\ Begin("analyze", NoPhoto)
    /\ IF analysis = "none"
       THEN /\ analysis' = "pending"
            /\ claims' = [p \in members |-> "pending"]
       ELSE UNCHANGED analysisVars
    /\ UNCHANGED <<peopleVars, ownerVars, cropVars, photo_revision>>

claim_analysis_member(p) ==
    /\ task.name = "analyze" /\ task.photo = NoPhoto
    /\ claims[p] \in {"pending", "running"}
    /\ claims' = [claims EXCEPT ![p] = "running"]
    /\ Begin("analyze", p)
    /\ UNCHANGED <<peopleVars, ownerVars, analysis, cropVars, photo_revision>>

(* The crop is the whole photo.                                            *)
finalize_analysis_member(p) ==
    /\ task.name = "analyze" /\ task.photo = p
    /\ claims' = [claims EXCEPT ![p] = "terminal"]
    /\ observations' = [observations EXCEPT ![p] = @ \cup {0}]
    /\ newest' = [newest EXCEPT ![p] = Crop(0, "work")]
    /\ Begin("analyze", NoPhoto)
    /\ UNCHANGED <<peopleVars, ownerVars, analysis, verdicts, cases, photo_revision>>

Observed == Cardinality({x \in members \X (0..MaxDecisions) :
                           x[2] \in observations[x[1]]})

(* failed = terminal members - observations of the scope must not be       *)
(* negative, else the answer cannot be formed and the run is not completed.*)
finish_analysis_run ==
    /\ task.name = "analyze" /\ task.photo = NoPhoto
    /\ \A p \in members : claims[p] = "terminal"
    /\ Observed <= Cardinality(members)
    /\ analysis' = "completed"
    /\ Begin("idle", NoPhoto)
    /\ UNCHANGED <<peopleVars, ownerVars, claims, cropVars, photo_revision>>

-----------------------------------------------------------------------------
(* The review of an observation                                            *)

(* The crop an observation has: the one of its review, else the newest of  *)
(* its photo, whichever observation that was drawn for.                    *)
current_artifact(p, o) ==
    IF verdicts[p][o].state = "needs_review" THEN newest[p] ELSE verdicts[p][o].crop

drawn_crop(p, o) == newest' = [newest EXCEPT ![p] = Crop(o, "user")]

prompt_photo_observation(p, o) ==
    /\ Idle
    /\ o \in observations[p] /\ verdicts[p][o].state = "needs_review"
    /\ drawn_crop(p, o)
    /\ UNCHANGED <<peopleVars, ownerVars, analysisVars, observations, verdicts, cases,
                   photo_revision, task>>

selected_artifact(p, o, verdict) ==
    IF verdict = "replaced" THEN Crop(o, "user") ELSE current_artifact(p, o)

review_head(p, o, verdict) ==
    [state |-> verdict, crop |-> selected_artifact(p, o, verdict), revision |-> photo_revision']

review_photo_observation(p, o, verdict) ==
    /\ Accept
    /\ o \in observations[p]
    /\ verdicts' = [verdicts EXCEPT ![p][o] = review_head(p, o, verdict)]
    /\ newest' = [newest EXCEPT ![p] =
                     IF verdict = "replaced" THEN selected_artifact(p, o, verdict) ELSE @]
    /\ UNCHANGED <<peopleVars, ownerVars, analysisVars, observations, cases, task>>

-----------------------------------------------------------------------------
(* Reconciliation of the owner's crop                                      *)

Reviewed == {"confirmed", "replaced"}

(* load_photo_pin: what the case of a photo is pinned to, given a reviewed  *)
(* crop of the observation of the decision in force.                       *)
load_photo_pin(p) ==
    LET d == heads[p].decision
    IN [photo |-> p, owner |-> d, crop |-> verdicts[p][d].crop,
        review |-> verdicts[p][d].revision]

(* Mutant: any crop that was reviewed will do.                             *)
owner_hash_matches_Any(c) == TRUE

(* The owner link's hash covers the crop that the owner's work made.       *)
owner_hash_matches(c) == c.crop = Crop(c.owner, "work")

(* derive_authority and classify_authority: the pins of a case match the    *)
(* evidence, and the owner decision and the review are still in force.     *)
derive_authority(c) ==
    /\ owner_hash_matches(c)
    /\ heads[c.photo] = [decision |-> c.owner, selects |-> TRUE]
    /\ LET verdict == verdicts[c.photo][c.owner] IN
         verdict.state \in Reviewed /\ verdict.crop = c.crop /\ verdict.revision = c.review

(* A case is opened once; opening it again finds it.  Only the second      *)
(* version of the command requires the authority.                          *)
open_reconciliation_case(p, version) ==
    /\ Idle
    /\ heads[p].selects /\ verdicts[p][heads[p].decision].state \in Reviewed
    /\ version = 2 => derive_authority(load_photo_pin(p))
    /\ \A c \in cases : c.pin # load_photo_pin(p)
    /\ cases' = cases \cup {[pin |-> load_photo_pin(p), decided |-> FALSE]}
    /\ UNCHANGED <<peopleVars, ownerVars, analysisVars, observations, newest, verdicts,
                   photo_revision, task>>

(* A decision replaces the head of its case, whichever it was.             *)
decide_reconciliation_case(c) ==
    /\ Idle
    /\ derive_authority(c.pin)
    /\ cases' = (cases \ {c}) \cup {[c EXCEPT !.decided = TRUE]}
    /\ UNCHANGED <<peopleVars, ownerVars, analysisVars, observations, newest, verdicts,
                   photo_revision, task>>

-----------------------------------------------------------------------------
Next ==
    /\ UNCHANGED members
    /\ \/ prepare_person_detection_run
       \/ prepare_analysis_run
       \/ finish_analysis_run
       \/ Stop
       \/ \E c \in cases : decide_reconciliation_case(c)
       \/ \E p \in members :
            \/ claim_person_detection_work(p)
            \/ \E finding \in Findings : publish_person_detection(p, finding)
            \/ retry_photo_person_detection(p)
            \/ correct_photo_person_detection(p)
            \/ \E selects \in BOOLEAN : write_owner_decision(p, selects)
            \/ claim_owner_work(p)
            \/ publish_owner_work(p)
            \/ claim_analysis_member(p)
            \/ finalize_analysis_member(p)
            \/ \E version \in {1, 2} : open_reconciliation_case(p, version)
            \/ \E o \in 0..MaxDecisions :
                 \/ prompt_photo_observation(p, o)
                 \/ \E verdict \in {"confirmed", "replaced", "excluded"} :
                      review_photo_observation(p, o, verdict)

Spec == Init /\ [][Next]_vars

-----------------------------------------------------------------------------
(* The work on people adds up, through crashes, lapsed leases, retries,    *)
(* corrections and drawn rectangles: the counter of a detection run is the *)
(* number of photos whose newest attempt has ended, and the run is         *)
(* completed exactly when none is left; work still to be done is that of    *)
(* the decision in force; a decision has an observation exactly when its    *)
(* work has ended (publish_person_detection, retry_photo_person_detection,  *)
(* write_owner_decision, publish_owner_work).                               *)
PeopleWorkAddsUp ==
    LET ended == {p \in members : attempts[p].state \in Findings} IN
    /\ run.completed = Cardinality(ended)
    /\ (run.state = "completed") = (ended = members)
    /\ \A p \in members : (reviews[p] \in {"none", "detecting"}) = (p \notin ended)
    /\ \A p \in members, d \in Decisions :
         /\ work[p][d] \in {"pending", "running"} =>
              heads[p] = [decision |-> d, selects |-> TRUE]
         /\ (work[p][d] = "terminal") = (d \in observations[p])

(* A photo is matched with the wardrobe by the crop of the person the user  *)
(* called the owner, as the program drew it for that decision: never by a   *)
(* crop of somebody else in the photo, whatever was drawn, confirmed,        *)
(* corrected or analysed in between (derive_authority,                      *)
(* decide_reconciliation_case).                                             *)
OwnersCropIsMatched ==
    \A c \in cases : c.decided =>
       c.pin.crop.of = c.pin.owner /\ work[c.pin.photo][c.pin.owner] = "terminal"

=============================================================================
