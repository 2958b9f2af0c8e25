--------------------------- MODULE ReceiptImages ---------------------------
(***************************************************************************)
(* The remote image of one receipt line                                    *)
(* (wardrobe-platform/src/receipt_repository.rs): the user approves the    *)
(* download, which runs while other commands do, and its result is staged, *)
(* recorded as an intent, moved to the blob store and committed.           *)
(*                                                                         *)
(* An attempt whose result has not arrived when its settlement time is     *)
(* over becomes ambiguous, and only an ambiguous attempt may be followed   *)
(* by another: the download of the first may then still be under way.      *)
(* Requests are approvals with ids of their own; one sent again finds its  *)
(* attempt.  Every attempt downloads the same image, so there is one blob. *)
(***************************************************************************)
EXTENDS Naturals, FiniteSets, Sequences

CONSTANTS
    Requests,  \* request ids of approve_and_fetch_receipt_image_v1
    MaxBoots   \* bound: times the application is started

VARIABLES
    attempts,  \* receipt_image_attempts, oldest first
    outcomes,  \* receipt_image_attempt_outcomes
    expired,   \* attempts past their settlement_until_ms
    intents,   \* receipt_image_materialization_intents
    images,    \* receipt_remote_images: the attempts that have a row
    staging,   \* attempts whose files are in the staging directory
    blob,      \* whether the image's file is in the blob store
    calls,     \* where the call of each request stands
    boots      \* times the application was started

vars == <<attempts, outcomes, expired, intents, images, staging, blob, calls, boots>>

rows == <<attempts, outcomes, intents, images>>

Init ==
    /\ attempts = <<>>
    /\ outcomes = [r \in Requests |-> "none"]
    /\ expired = {} /\ intents = {} /\ images = {} /\ staging = {}
    /\ blob = FALSE
    /\ calls = [r \in Requests |-> "idle"]
    /\ boots = 1

Made == {attempts[k] : k \in DOMAIN attempts}

Latest == attempts[Len(attempts)]

Unsettled == {r \in Made : outcomes[r] = "none"}

Goto(r, place) == calls' = [calls EXCEPT ![r] = place]

Terminal(r) == outcomes[r] # "none"

-----------------------------------------------------------------------------
(* The clock passes the settlement time of an attempt.                     *)
Expire(r) ==
    /\ r \in Unsettled \ expired
    /\ expired' = expired \cup {r}
    /\ UNCHANGED <<rows, staging, blob, calls, boots>>

recovered ==
    [r \in Requests |->
       IF r \in Unsettled \cap expired THEN "ambiguous" ELSE outcomes[r]]

(* list_receipt_image_candidates and every open of the database settle     *)
(* what has expired and remove the staged files it has intents for.        *)
Settle ==
    /\ outcomes' = recovered
    /\ staging' = staging \ (intents \cap Unsettled \cap expired)

recover_expired_image_attempts ==
    /\ Settle
    /\ UNCHANGED <<attempts, expired, intents, images, blob, calls, boots>>

(* A new attempt follows none, or the newest if that is ambiguous, after   *)
(* what has expired was settled.                                           *)
prepare_image_attempt(r) ==
    /\ r \notin Made
    /\ attempts # <<>> => recovered[Latest] = "ambiguous"
    /\ attempts' = Append(attempts, r)
    /\ Settle
    /\ Goto(r, "downloading")
    /\ UNCHANGED <<expired, intents, images, blob, boots>>

(* The download fails, which is final whatever the reason; a failure that  *)
(* comes too late answers what was settled.                                *)
download_fails(r) ==
    /\ calls[r] = "downloading"
    /\ outcomes' = [outcomes EXCEPT ![r] = IF Terminal(r) THEN @ ELSE "failed"]
    /\ Goto(r, "idle")
    /\ UNCHANGED <<attempts, expired, intents, images, staging, blob, boots>>

stage_image_download(r) ==
    /\ calls[r] = "downloading"
    /\ IF Terminal(r)
       THEN Goto(r, "idle") /\ UNCHANGED staging
       ELSE Goto(r, "staged") /\ staging' = staging \cup {r}
    /\ UNCHANGED <<rows, expired, blob, boots>>

persist_image_materialization_intent(r) ==
    /\ calls[r] = "staged"
    /\ IF Terminal(r)
       THEN Goto(r, "idle") /\ staging' = staging \ {r} /\ UNCHANGED intents
       ELSE Goto(r, "intended") /\ intents' = intents \cup {r} /\ UNCHANGED staging
    /\ UNCHANGED <<attempts, outcomes, expired, images, blob, boots>>

(* The staged file is linked into the store; when it is gone the call      *)
(* fails.                                                                  *)
promote_staged_image(r) ==
    /\ calls[r] = "intended"
    /\ IF r \in staging
       THEN Goto(r, "promoted") /\ blob' = TRUE
       ELSE Goto(r, "idle") /\ UNCHANGED blob
    /\ staging' = staging \ {r}
    /\ UNCHANGED <<rows, expired, boots>>

(* Mutant: the outcome is not looked at again.                             *)
commits_Always(r) == TRUE
commits(r) == ~Terminal(r)

commit_successful_image_attempt(r) ==
    /\ calls[r] = "promoted"
    /\ IF commits(r)
       THEN /\ outcomes' = [outcomes EXCEPT ![r] = "succeeded"]
            /\ images' = images \cup {r}
       ELSE UNCHANGED <<outcomes, images>>
    /\ Goto(r, "idle")
    /\ UNCHANGED <<attempts, expired, intents, staging, blob, boots>>

(* A check or a file operation fails: the call ends with an error and      *)
(* removes what it has staged, though it may have linked the file; the     *)
(* attempt stays open.                                                     *)
finalize_fails(r) ==
    /\ \/ calls[r] = "downloading" /\ ~Terminal(r) /\ UNCHANGED blob
       \/ calls[r] = "intended" /\ blob' \in {blob, TRUE}
    /\ staging' = staging \ {r}
    /\ Goto(r, "idle")
    /\ UNCHANGED <<rows, expired, boots>>

(* The process dies and the database is opened again.                      *)
Restart ==
    /\ boots < MaxBoots
    /\ boots' = boots + 1
    /\ calls' = [r \in Requests |-> "idle"]
    /\ Settle
    /\ UNCHANGED <<attempts, expired, intents, images, blob>>

-----------------------------------------------------------------------------
Next ==
    \/ recover_expired_image_attempts
    \/ Restart
    \/ \E r \in Requests :
         \/ Expire(r)
         \/ prepare_image_attempt(r)
         \/ download_fails(r)
         \/ stage_image_download(r)
         \/ persist_image_materialization_intent(r)
         \/ promote_staged_image(r)
         \/ commit_successful_image_attempt(r)
         \/ finalize_fails(r)

Spec == Init /\ [][Next]_vars

-----------------------------------------------------------------------------
(* The line has at most one image, that of the newest attempt: a download  *)
(* that ends after its attempt was given up, and after another was         *)
(* approved, adds nothing, and the image shown has its file                *)
(* (commit_successful_image_attempt, recover_expired_image_attempts).      *)
NewestImageOnly ==
    /\ \A r \in images : r = Latest /\ blob
    /\ \A r \in Requests : (outcomes[r] = "succeeded") = (r \in images)
=============================================================================
