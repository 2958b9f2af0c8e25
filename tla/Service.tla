------------------------------ MODULE Service ------------------------------
(***************************************************************************)
(* The commands of the application service (crates/wardrobe-core           *)
(* service.rs).  Each validates its request, calls its port, checks the    *)
(* answer against the request and turns a failure into what the interface  *)
(* is told to do.  The port looks first for the receipt of the request's   *)
(* id, then compares the revisions the request was made from with its own, *)
(* and does the work and writes the receipt in one transaction.            *)
(*                                                                         *)
(* A user wishes for something once.  The interface makes a new id for     *)
(* every try but some keep the old one, an answer may be lost with the     *)
(* process, and other wishes are granted in between.  What a command does  *)
(* is abstracted to the revisions it moves; one row stands for all those   *)
(* with a revision of their own (a case, an owner's review).               *)
(***************************************************************************)
EXTENDS Naturals, FiniteSets

CONSTANTS
    MaxWishes,    \* bound: what the user wants done, each once, in the order of the wishes
    MaxReceipts   \* bound: ids a receipt is kept under, in the order of the receipts

Wishes == 1 .. MaxWishes
Ids == 1 .. MaxReceipts

VARIABLES
    revisions,    \* revision_state and the revisions of rows
    receipts,     \* command_receipts: the answer stored under an id
    wish,         \* the command, what it was made from, what the user was told last
    call,         \* the command the main thread is in, if any
    granted       \* how often a wish was granted (history)

serviceVars == <<revisions, receipts, wish, call, granted>>

RevisionState ==
    {"catalog", "evidence", "outfit", "photo", "owner", "owner_head", "detection", "receipt",
     "unit", "case", "reconciliation", "photokit", "manifest"}

-----------------------------------------------------------------------------
(* What the interface is told                                              *)

Failure(code, retryable, user_action) ==
    [code |-> code, retryable |-> retryable, user_action |-> user_action]

internal_data_error == Failure("data_integrity", FALSE, "review_storage")
malformed_provider_error == Failure("malformed_provider_output", FALSE, "review_receipt")
invalid_request == Failure("invalid_request", FALSE, "correct_request")

\* The repositories of the database differ in what they send the user to look at.
Repository(refresh, review) ==
    [conflict          |-> Failure("request_conflict", TRUE, refresh),
     snapshot_expired  |-> Failure("snapshot_expired", TRUE, "restart_paging"),
     invalid_state     |-> Failure("invalid_state", FALSE, review),
     unavailable       |-> Failure("storage_unavailable", TRUE, "retry"),
     permission_denied |-> Failure("permission_denied", FALSE, "review_storage"),
     data_integrity    |-> Failure("data_integrity", FALSE, "review_storage"),
     not_found         |-> Failure("not_found", FALSE, "correct_request"),
     internal          |-> Failure("internal", TRUE, "restart_application")]

map_catalog_error == Repository("refresh_catalog", "review_inbox")
map_receipt_error == Repository("refresh_receipts", "review_receipt")
map_photo_analysis_error == Repository("refresh_catalog", "review_inbox")
map_reconciliation_error == Repository("refresh_catalog", "review_inbox")

map_outfit_error ==
    LET all == Repository("refresh_catalog", "refresh_catalog") IN
    [kind \in DOMAIN all \ {"permission_denied"} |-> all[kind]]

\* Of the foundation's port; with_credential where a credential's row is meant.
map_port_error(with_credential) ==
    [unavailable       |-> Failure(IF with_credential THEN "credential_unavailable"
                                   ELSE "storage_unavailable", TRUE, "retry"),
     conflict          |-> Failure("request_conflict", FALSE, "start_new_request"),
     permission_denied |-> Failure("permission_denied", FALSE,
                                   IF with_credential THEN "unlock_keychain" ELSE "review_storage"),
     data_integrity    |-> Failure("data_integrity", FALSE, "review_storage"),
     not_found         |-> Failure("not_found", FALSE, "correct_request"),
     internal          |-> Failure("internal", TRUE, "restart_application")]

map_gmail_connector_error ==
    [unavailable       |-> Failure("provider_unavailable", TRUE, "retry"),
     conflict          |-> Failure("request_conflict", FALSE, "start_new_request"),
     busy              |-> Failure("invalid_state", TRUE, "retry"),
     invalid_state     |-> Failure("invalid_state", FALSE, "connect_gmail"),
     permission_denied |-> Failure("permission_denied", FALSE, "connect_gmail"),
     credential_unavailable |-> Failure("credential_unavailable", TRUE, "unlock_keychain"),
     scope_too_large   |-> Failure("invalid_request", FALSE, "configure_gmail"),
     malformed_output  |-> Failure("malformed_provider_output", FALSE, "retry"),
     data_integrity    |-> Failure("data_integrity", FALSE, "restart_application"),
     not_found         |-> Failure("not_found", FALSE, "correct_request"),
     internal          |-> Failure("internal", TRUE, "retry")]

map_photokit_connector_error ==
    [unavailable       |-> Failure("provider_unavailable", TRUE, "retry"),
     conflict          |-> Failure("request_conflict", FALSE, "start_new_request"),
     busy              |-> Failure("invalid_state", TRUE, "retry"),
     invalid_state     |-> Failure("invalid_state", FALSE, "configure_photokit"),
     permission_denied |-> Failure("permission_denied", FALSE, "review_photo_library_access"),
     credential_unavailable |-> Failure("credential_unavailable", TRUE, "unlock_keychain"),
     scope_too_large   |-> Failure("invalid_request", FALSE, "configure_photokit"),
     session_expired   |-> Failure("invalid_state", FALSE, "begin_photokit_setup"),
     selection_token_consumed |-> Failure("invalid_state", FALSE, "begin_photokit_setup"),
     data_integrity    |-> Failure("data_integrity", FALSE, "restart_application"),
     not_found         |-> Failure("not_found", FALSE, "configure_photokit"),
     internal          |-> Failure("internal", TRUE, "retry")]

\* A provider that does not describe itself as the contract wants is not called.
map_segmentation_boundary_error ==
    {Failure("malformed_provider_output", FALSE, "review_inbox"), Failure("internal", TRUE, "retry")}
map_person_detection_boundary_error ==
    {Failure("malformed_provider_output", FALSE, "review_inbox"), Failure("internal", TRUE, "retry")}

map_receipt_analysis_failure ==
    {Failure("provider_unavailable", TRUE, "retry"), malformed_provider_error,
     Failure("internal", TRUE, "retry")}

\* What a failure lets the user do.
Advice(failure) ==
    IF ~failure.retryable THEN "over"
    ELSE IF failure.user_action \in {"retry", "unlock_keychain", "restart_application"}
    THEN "again" ELSE "refresh"

-----------------------------------------------------------------------------
(* The commands: what the failures of the port let the user do, the        *)
(* revisions the request was made from, those the work moves, those the    *)
(* answer is checked for, and what can go wrong outside of the database    *)
(* before or during the work                                               *)

Command(errors, needs, moves, checks) ==
    [conflict |-> Advice(errors.conflict),
     errors |-> {Advice(errors[kind]) : kind \in DOMAIN errors \ {"conflict"}},
     needs |-> needs, moves |-> moves, checks |-> checks,
     writes |-> TRUE, before |-> {}, during |-> {}]

Advices(failures) == {Advice(failure) : failure \in failures}

\* A list, a picture or a state: nothing is written, no receipt is kept.
Reads(errors) == [Command(errors, {}, {}, {}) EXCEPT !.writes = FALSE]

create_manual_outfit_v1 == Command(map_outfit_error, {"catalog", "outfit"}, {"outfit"}, {})
list_outfits_v1 == Reads(map_outfit_error)
get_outfit_collage_v1 == Reads(map_outfit_error)

get_gmail_connector_v1 == Reads(map_gmail_connector_error)
get_gmail_connector_v2 == Reads(map_gmail_connector_error)
save_gmail_settings_v1 == Command(map_gmail_connector_error, {}, {}, {})
save_gmail_settings_v2 == Command(map_gmail_connector_error, {}, {}, {})
connect_gmail_v1 == Command(map_gmail_connector_error, {}, {}, {})
sync_gmail_v1 == Command(map_gmail_connector_error, {}, {"evidence"}, {})
disconnect_gmail_v1 == Command(map_gmail_connector_error, {}, {}, {})

get_photokit_connector_v1 == Reads(map_photokit_connector_error)
begin_photokit_setup_v1 == Command(map_photokit_connector_error, {}, {}, {})
configure_photokit_scope_v1 == Command(map_photokit_connector_error, {}, {"photokit"}, {})
sync_photokit_v1 == Command(map_photokit_connector_error, {}, {"photokit"}, {})
disable_photokit_v1 ==
    Command(map_photokit_connector_error, {"photokit"}, {"photokit"}, {"photokit"})

import_local_sources_v1 == Command(map_catalog_error, {}, {"manifest", "evidence"}, {})
refresh_import_roots_v1 == Command(map_catalog_error, {}, {"manifest", "evidence"}, {})

\* The five decisions about the wardrobe.
validate_mutation == Command(map_catalog_error, {"catalog"}, {"catalog"}, {"catalog"})

preview_deletion_v1 == Reads(map_catalog_error)
list_deletion_plan_items_v1 == Reads(map_catalog_error)
execute_deletion_v1 ==
    LET planned == {"catalog", "evidence", "receipt", "photo", "reconciliation", "outfit", "photokit"}
    IN  Command(map_catalog_error, planned, planned \cup {"owner"}, {})

list_imported_photo_roots_v1 == Reads(map_photo_analysis_error)
list_photo_observations_v1 == Reads(map_photo_analysis_error)
read_photo_artifact_v1 == Reads(map_photo_analysis_error)
list_photo_owner_reviews_v1 == Reads(map_photo_analysis_error)
read_photo_owner_preview_v1 == Reads(map_photo_analysis_error)
create_photo_scope_v1 == Command(map_photo_analysis_error, {"manifest"}, {}, {})
analyze_photo_scope_v1 ==
    [Command(map_photo_analysis_error, {}, {"evidence"}, {})
       EXCEPT !.before = Advices(map_segmentation_boundary_error)]
detect_photo_scope_people_v1 ==
    [Command(map_photo_analysis_error, {}, {"evidence"}, {})
       EXCEPT !.before = Advices(map_person_detection_boundary_error)]
prompt_photo_observation_v1 ==
    [Command(map_photo_analysis_error, {}, {"evidence"}, {})
       EXCEPT !.before = Advices(map_segmentation_boundary_error)]
review_photo_observation_v1 ==
    Command(map_photo_analysis_error, {"photo"}, {"photo"}, {"photo"})
decide_photo_owner_v1 ==
    Command(map_photo_analysis_error, {"detection", "owner_head", "photo"},
            {"owner_head", "owner", "photo"}, {"detection", "owner_head", "photo"})
correct_photo_owner_v1 ==
    Command(map_photo_analysis_error, {"detection", "owner_head", "photo"},
            {"owner_head", "owner", "photo"}, {"detection", "owner_head", "photo"})
correct_photo_person_detection_v1 ==
    Command(map_photo_analysis_error, {"detection", "owner_head", "photo"},
            {"detection", "photo"}, {"detection", "owner_head", "photo"})
retry_photo_person_detection_v1 ==
    Command(map_photo_analysis_error, {"detection", "owner_head", "photo"},
            {"detection", "photo"}, {"detection", "owner_head", "photo"})

\* A case that is there already is opened again.
open_reconciliation_case_v1 ==
    Command(map_reconciliation_error, {"photo"}, {"reconciliation"}, {})
open_reconciliation_case_v2 ==
    Command(map_reconciliation_error, {"photo", "owner"}, {"reconciliation"}, {"photo", "owner"})
decide_reconciliation_case_v1 ==
    Command(map_reconciliation_error, {"case"}, {"case", "reconciliation"}, {"case"})
decide_reconciliation_case_v2 ==
    Command(map_reconciliation_error, {"case", "owner", "photo", "reconciliation"},
            {"case", "reconciliation"}, {"case", "owner", "photo", "reconciliation"})
list_reconciliation_cases_v2 == Reads(map_reconciliation_error)

list_receipts_v1 == Reads(map_receipt_error)
analyze_receipt_v1 ==
    [Command(map_receipt_error, {}, {"evidence"}, {})
       EXCEPT !.during = Advices(map_receipt_analysis_failure)]
review_receipt_v1 == Command(map_receipt_error, {"receipt"}, {"receipt"}, {"receipt"})
list_receipt_purchase_units_v1 == Reads(map_receipt_error)
promote_receipt_purchase_unit_v1 ==
    Command(map_receipt_error, {"unit", "receipt", "catalog"},
            {"unit", "catalog", "evidence"}, {"unit", "receipt", "catalog"})
list_receipt_image_candidates_v1 == Reads(map_receipt_error)

get_foundation_snapshot_v1 == Reads(map_port_error(FALSE))
\* The content is stored before its check is recorded.
run_storage_check_v1 ==
    LET errors == map_port_error(FALSE) IN
    [Command(errors, {}, {}, {})
       EXCEPT !.before = Advices({errors[kind] : kind \in DOMAIN errors} \cup {internal_data_error})]

Commands ==
    {create_manual_outfit_v1, list_outfits_v1, get_outfit_collage_v1, get_gmail_connector_v1,
     get_gmail_connector_v2, save_gmail_settings_v1, save_gmail_settings_v2, connect_gmail_v1,
     sync_gmail_v1, disconnect_gmail_v1, get_photokit_connector_v1, begin_photokit_setup_v1,
     configure_photokit_scope_v1, sync_photokit_v1, disable_photokit_v1,
     import_local_sources_v1, refresh_import_roots_v1, validate_mutation, preview_deletion_v1,
     list_deletion_plan_items_v1, execute_deletion_v1, list_imported_photo_roots_v1,
     list_photo_observations_v1, read_photo_artifact_v1, list_photo_owner_reviews_v1,
     read_photo_owner_preview_v1, create_photo_scope_v1, analyze_photo_scope_v1,
     detect_photo_scope_people_v1, prompt_photo_observation_v1, review_photo_observation_v1,
     decide_photo_owner_v1, correct_photo_owner_v1, correct_photo_person_detection_v1,
     retry_photo_person_detection_v1, open_reconciliation_case_v1,
     open_reconciliation_case_v2, decide_reconciliation_case_v1,
     decide_reconciliation_case_v2, list_reconciliation_cases_v2, list_receipts_v1,
     analyze_receipt_v1, review_receipt_v1, list_receipt_purchase_units_v1,
     promote_receipt_purchase_unit_v1, list_receipt_image_candidates_v1,
     get_foundation_snapshot_v1, run_storage_check_v1}

-----------------------------------------------------------------------------
(* A command                                                               *)

NoWish == [told |-> "no wish"]
NoCall == [at |-> "no call"]
NoReceipt == [id |-> "no receipt"]

\* The revisions a request for c names, as they are now.
Seen(c) == [r \in c.needs |-> revisions[r]]

Init ==
    /\ revisions = [r \in RevisionState |-> 0]
    /\ receipts = [id \in Ids |-> NoReceipt]
    /\ wish = [w \in Wishes |-> NoWish]
    /\ call = NoCall
    /\ granted = [w \in Wishes |-> 0]

\* The user decides on something, looking at what there is.
wishes(w) ==
    /\ wish[w] = NoWish /\ \A earlier \in 1 .. w - 1 : wish[earlier] # NoWish
    /\ \E c \in Commands :
         wish' = [wish EXCEPT ![w] = [command |-> c, expected |-> Seen(c), told |-> "nothing"]]
    /\ UNCHANGED <<revisions, receipts, call, granted>>

\* After anything but an answer the user may look again, and sees whether it is done.
looks_again(w) ==
    /\ call = NoCall /\ wish[w] # NoWish /\ wish[w].told \notin {"nothing", "done"}
    /\ wish' = [wish EXCEPT ![w] =
                 IF granted[w] > 0 THEN [wish[w] EXCEPT !.told = "done"]
                 ELSE [command |-> wish[w].command, expected |-> Seen(wish[w].command),
                       told |-> "nothing"]]
    /\ UNCHANGED <<revisions, receipts, call, granted>>

\* A try, under an id that has a receipt or a new one (one of those without a receipt is
\* like another).
sends(w, id) ==
    /\ call = NoCall /\ wish[w] # NoWish /\ wish[w].told # "done"
    /\ \A earlier \in 1 .. id - 1 : receipts[earlier] # NoReceipt
    /\ call' = [wish |-> w, id |-> id, at |-> "validate", answer |-> NoReceipt]
    /\ UNCHANGED <<revisions, receipts, wish, granted>>

At(step) == call.at = step
TheCommand == wish[call.wish].command
Expected == wish[call.wish].expected

tells(what) ==
    /\ wish' = [wish EXCEPT ![call.wish].told = what]
    /\ call' = NoCall

refuse(advice) == tells(advice) /\ UNCHANGED <<revisions, receipts, granted>>

To(step) == call' = [call EXCEPT !.at = step] /\ UNCHANGED <<revisions, receipts, wish, granted>>

\* request.validate(), and what is called before the port.
validate ==
    /\ At("validate")
    /\ \/ refuse(Advice(invalid_request))
       \/ \E advice \in TheCommand.before : refuse(advice)
       \/ To("port")

\* What the request says beyond its id: the receipt keeps its hash.
Envelope == [wish |-> call.wish, expected |-> Expected]

\* The answer that is stored under the id is given again, as it is.
replay ==
    /\ At("port") /\ TheCommand.writes /\ receipts[call.id] # NoReceipt
    /\ LET stored == receipts[call.id] IN
       \/ /\ stored.envelope # Envelope /\ refuse(TheCommand.conflict)
       \/ /\ stored.envelope = Envelope /\ stored.failure # {}
          /\ \E advice \in stored.failure : refuse(advice)
       \/ /\ stored.envelope = Envelope /\ stored.failure = {}
          /\ call' = [call EXCEPT !.at = "answer", !.answer = stored]
          /\ UNCHANGED <<revisions, receipts, wish, granted>>

Fresh == At("port") /\ TheCommand.writes /\ receipts[call.id] = NoReceipt
Current == \A r \in TheCommand.needs : Expected[r] = revisions[r]

\* The request was made from something that has changed since.
revision_changed == Fresh /\ ~Current /\ refuse(TheCommand.conflict)

\* The work, the new revisions and the receipt are one transaction.
Stores(answer) == receipts' = [receipts EXCEPT ![call.id] = answer]

perform ==
    /\ Fresh /\ Current
    /\ revisions' = [r \in RevisionState |-> revisions[r] + IF r \in TheCommand.moves THEN 1 ELSE 0]
    /\ LET answer == [envelope |-> Envelope, id |-> call.id, revisions |-> revisions', failure |-> {}]
       IN  Stores(answer) /\ call' = [call EXCEPT !.at = "answer", !.answer = answer]
    /\ granted' = [granted EXCEPT ![call.wish] = @ + 1]
    /\ UNCHANGED wish

\* A provider fails while the work is prepared: the failure is what is stored.
record_failure ==
    /\ Fresh
    /\ \E advice \in TheCommand.during :
         /\ Stores([envelope |-> Envelope, id |-> call.id, revisions |-> revisions,
                    failure |-> {advice}])
         /\ tells(advice)
    /\ revisions' = [revisions EXCEPT !["evidence"] = @ + 1]
    /\ UNCHANGED granted

\* What is only read leaves nothing behind.
reads ==
    /\ At("port") /\ ~TheCommand.writes
    /\ call' = [call EXCEPT !.at = "answer",
                !.answer = [envelope |-> Envelope, id |-> call.id, revisions |-> revisions,
                            failure |-> {}]]
    /\ UNCHANGED <<revisions, receipts, wish, granted>>

\* The port fails, and its transaction with it.
port_fails ==
    /\ At("port")
    /\ \E advice \in TheCommand.errors : refuse(advice)

validate_response_header == call.answer.id = call.id

\* Every answer is checked, one that is given again too.
AnswerIsRight ==
    /\ validate_response_header
    /\ \A r \in TheCommand.checks :
         call.answer.revisions[r] = Expected[r] + IF r \in TheCommand.moves THEN 1 ELSE 0

answer ==
    /\ At("answer")
    /\ IF AnswerIsRight THEN tells("done") ELSE tells(Advice(internal_data_error))
    /\ UNCHANGED <<revisions, receipts, granted>>

\* The process ends: nobody is told anything.
Crash ==
    /\ call # NoCall
    /\ call' = NoCall
    /\ UNCHANGED <<revisions, receipts, wish, granted>>

Next ==
    \/ \E w \in Wishes : wishes(w) \/ looks_again(w) \/ \E id \in Ids : sends(w, id)
    \/ validate \/ replay \/ revision_changed \/ perform \/ record_failure \/ reads
    \/ port_fails \/ answer \/ Crash

Spec == Init /\ [][Next]_serviceVars

-----------------------------------------------------------------------------
\* A command that moves a revision its request was made from cannot be done twice.
OnceOnly(c) == c.needs \cap c.moves # {}

\* However often it is tried, under whatever ids, and whatever answers were lost: a wish is
\* granted once, the user is told it is done only if it was, and no answer to what was done
\* fails the checks, so that the user is never told it failed.
WishesAreGrantedOnce ==
    /\ \A w \in Wishes : wish[w] # NoWish =>
         /\ OnceOnly(wish[w].command) => granted[w] <= 1
         /\ wish[w].told = "done" /\ wish[w].command.writes => granted[w] >= 1
    /\ At("answer") => AnswerIsRight
=============================================================================
