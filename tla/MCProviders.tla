----------------------------- MODULE MCProviders -----------------------------
(***************************************************************************)
(* What the user decides: the three features that send the user's data to  *)
(* the provider (try-on, receipt intelligence, recommendations), the mode  *)
(* that forbids all of them, the decisions, purchases and images that make *)
(* up the catalog, and the store of what they keep.  They share the        *)
(* credential and the process, and no other state, so a behaviour          *)
(* exercises one of them and leaves the others at rest.                    *)
(***************************************************************************)
EXTENDS TryOnQueue, FiniteSets, TLC

CONSTANTS
    ReceiptRequests, Calls, MaxSource, Suggestions,
    Items, Imported, Purchased, MaxEvidence, MaxCatalogRevision,
    Remote, MaxQuantity, MaxReviews, Downloads,
    Workers, Revisions, RequestIds, MaxMode, MaxAttempts,
    Putters, Entries, MaxFiles, MaxCrashes

VARIABLES
    feature,  \* the one that this behaviour is about
    consents, receipt_attempts, source, receipt_calls, receipts_sent, overlapped,
    permissions, suggestions, catalog_revision, suggestion_calls, answers, suggestions_sent,
    items, evidence, catalog_version, head, before,
    orders, authority, promotions, deletions, made,
    image_attempts, outcomes, expired, intents, images, staging, blob, image_calls,
    snapshot, transitioning, active_leases, lease, transition, prior,
    visible, durable, uncertain, op, nonces, readsFail, sealed,
    stored, parts, directories, recorded, lock, putters, image, batch, up, written, crashes

R == INSTANCE ReceiptIntelligence
       WITH Requests <- ReceiptRequests, attempts <- receipt_attempts, calls <- receipt_calls,
            sent <- receipts_sent
O == INSTANCE Recommendations
       WITH Requests <- Suggestions, approvals <- permissions, attempts <- suggestions,
            revision <- catalog_revision, calls <- suggestion_calls,
            sent <- suggestions_sent, MaxRevision <- MaxSource
C == INSTANCE Catalog WITH revision <- catalog_version
P == INSTANCE Receipts
D == INSTANCE ReceiptImages
       WITH Requests <- Downloads, attempts <- image_attempts, calls <- image_calls
B == INSTANCE BlobStore
M == INSTANCE LocalOnly WITH MaxRevision <- MaxMode, attempts <- nonces

ASSUME ModeAssumption == M!LocalOnlyConstants
ASSUME BlobsAssumption == B!BlobStoreConstants
ASSUME CatalogAssumption ==
    /\ IsFiniteSet(Imported) /\ IsFiniteSet(Purchased) /\ C!NoItem \notin Items
    /\ MaxEvidence \in Nat \ {0}

tryOnVars == <<approvals, jobs, attempts, blobs, outputs, outfit_revision, renderer, sent>>
receiptVars == <<consents, receipt_attempts, source, receipt_calls, receipts_sent, overlapped>>
suggestionVars ==
    <<permissions, suggestions, catalog_revision, suggestion_calls, answers, suggestions_sent>>
catalogVars == <<items, evidence, catalog_version, head, before>>
purchaseVars == <<orders, authority, promotions, deletions, made>>
imageVars ==
    <<image_attempts, outcomes, expired, intents, images, staging, blob, image_calls>>
modeVars ==
    <<snapshot, transitioning, active_leases, lease, transition, prior,
      visible, durable, uncertain, op, nonces, readsFail, sealed>>
storeVars ==
    <<stored, parts, directories, recorded, lock, putters, image, batch, up, written, crashes>>

providerVars == <<tryOnVars, receiptVars, suggestionVars>>
wardrobeVars == <<catalogVars, purchaseVars, imageVars>>
allVars == <<feature, credential, boots, providerVars, wardrobeVars, modeVars, storeVars>>

InitProviders ==
    /\ feature \in {"try_on", "receipts", "recommendations", "mode",
                    "catalog", "purchases", "images", "blobs"}
    /\ Init /\ R!Init /\ O!Init
    /\ C!Init /\ P!Init /\ D!Init
    /\ M!Init /\ B!Init
    /\ feature # "mode" => ~readsFail

NextProviders ==
    /\ UNCHANGED feature
    /\ \/ /\ UNCHANGED <<wardrobeVars, modeVars, storeVars>>
          /\ \/ feature = "try_on" /\ Next /\ UNCHANGED <<receiptVars, suggestionVars>>
             \/ feature = "receipts" /\ R!Next /\ UNCHANGED <<tryOnVars, suggestionVars>>
             \/ feature = "recommendations" /\ O!Next /\ UNCHANGED <<tryOnVars, receiptVars>>
       \/ feature = "mode" /\ M!Next
          /\ UNCHANGED <<providerVars, wardrobeVars, credential, storeVars>>
       \/ feature = "blobs" /\ B!Next
          /\ UNCHANGED <<providerVars, wardrobeVars, modeVars, credential, boots>>
       \/ /\ UNCHANGED <<providerVars, modeVars, credential, storeVars>>
          /\ \/ feature = "catalog" /\ C!Next /\ UNCHANGED <<boots, purchaseVars, imageVars>>
             \/ feature = "purchases" /\ P!Next /\ UNCHANGED <<boots, catalogVars, imageVars>>
             \/ feature = "images" /\ D!Next /\ UNCHANGED <<catalogVars, purchaseVars>>

SpecProviders == InitProviders /\ [][NextProviders]_allVars

\* A consent for a receipt and an approval of a recommendation are each good for one
\* transmission, which is on record, for whatever is repeated, overlaps or is cut off, and a
\* receipt that failed as not sent was not sent, unless calls of it overlapped. What a
\* recommendation's approval bought is shown as current only for the revisions it was made
\* from.
ConsentIsSpentOnce ==
    /\ R!SentOnceOnRecord /\ O!SentOnceOnRecord
    /\ R!FailureIsHonest /\ O!ShownIsCurrent

\* A receipt's order is published from the source the user approved.
PublishedAsApproved == R!PublishedAsApproved

\* The mode the user was shown is kept: once the application is local-only, only a request
\* undoes it, and a mode that counts as persisted is what the records on disk state.
ModeIsKept == M!ModeIsKept

\* Undoing a decision on items brings the catalog back to what it was, and a decision that
\* is committed is answered.
DecisionsHold == C!UndoRestores /\ C!DecisionsAreAnswered

\* A purchase enters the wardrobe once, whatever is analysed, reviewed or deleted.
PurchasedOnce == P!PurchasedOnce

\* The image of a receipt line is that of the newest approval.
NewestImageOnly == D!NewestImageOnly

\* A content is stored as it is recorded.
StoredAsRecorded == B!StoredAsRecorded

\* The approvals of a try-on and the requests for a mode are interchangeable.
ProviderSymmetry == Permutations(Approvals) \cup Permutations(RequestIds)
=============================================================================
