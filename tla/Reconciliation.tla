--------------------------- MODULE Reconciliation ---------------------------
(***************************************************************************)
(* Matching a photo with the wardrobe                                      *)
(* (wardrobe-platform/src/reconciliation_repository.rs and the contracts of*)
(* wardrobe-core/src/reconciliation.rs): a case offers the user the items  *)
(* and receipt lines most like the owner's crop of one photo, the user     *)
(* decides it, and a listing pages through the cases of the photo.         *)
(*                                                                         *)
(* Opening reads a snapshot, compares images outside any transaction, and  *)
(* writes in a second transaction; anyone may write in between.  Dates are *)
(* compared with the day of the photo: 0 is unknown, 1 before, 2 after.    *)
(* The photo is the observation of owner decision 1; a replaced crop is    *)
(* named by the photo revision that drew it, the program's own is 0.       *)
(* Requests that are refused or repeated change nothing.                   *)
(***************************************************************************)
EXTENDS Naturals, FiniteSets, Sequences, SequencesExt

CONSTANTS
    Items, Lines,    \* numbers: ids are compared
    Callers,         \* threads that open cases
    Images,          \* newest images: measured against the crop, or why not
    Readings,        \* what a line says
    PoolSize,        \* MAX_POOL_SIZE, 100 in the code
    Shown,           \* candidates offered of each kind, 3 in the code
    PageSize,
    Filters,         \* the states of cases that are listed, of the four in the code
    MaxClock,        \* bound: milliseconds at which a case may be created
    MaxRevision      \* bound: accepted commands

VARIABLES
    catalog,   \* catalog_items: active, updated_revision, and the newest image
    receipts,  \* receipt lines: the review in force, the extracted and the corrected text
    review,    \* photo_review_heads of the observation
    owner,     \* photo_owner_heads of the photo: the decision in force
    revision,  \* revision_state
    cases,     \* reconciliation_cases with their candidates and decision heads, as written
    opening,   \* the snapshot that each caller holds, if any
    listing    \* the listing under way: what its pages showed, and its cursor's revisions

vars == <<catalog, receipts, review, owner, revision, cases, opening, listing>>

Min2(a, b) == IF a < b THEN a ELSE b
First(s, n) == SubSeq(s, 1, Min2(n, Len(s)))

(* The members of a set in the order of a relation (ORDER BY, sort_by).    *)
Ordered(S, before) ==
    CHOOSE q \in [1..Cardinality(S) -> S] :
       \A m, n \in DOMAIN q : m < n => <<q[m], q[n]>> \in before

NoImage == [status |-> "absent", hash |-> 0, color |-> 0]

NoSnapshot == [version |-> 0]
NoListing == [state |-> "none", filter |-> "all", shown |-> <<>>, at |-> <<>>]

Init ==
    /\ catalog = [i \in Items |-> [active |-> FALSE, updated |-> 0, image |-> NoImage]]
    /\ receipts \in [Lines -> {[action |-> "none", extracted |-> r, corrected |-> r] :
                                 r \in Readings}]
    /\ review = [state |-> "confirmed", crop |-> 0, decision |-> 1]
    /\ owner = 1
    /\ revision = [catalog |-> 0, receipt |-> 0, photo |-> 1, owner |-> 1, reconciliation |-> 0]
    /\ cases = <<>>
    /\ opening = [t \in Callers |-> NoSnapshot]
    /\ listing = NoListing

Accept(r) ==
    /\ revision.catalog + revision.receipt + revision.photo + revision.owner
         + revision.reconciliation < MaxRevision
    /\ revision' = [revision EXCEPT ![r] = @ + 1]

-----------------------------------------------------------------------------
(* What others do to the tables that a case is made from                   *)

save_item(i, image) ==
    /\ Accept("catalog")
    /\ catalog' = [catalog EXCEPT ![i] =
                     [active |-> TRUE, updated |-> revision'.catalog, image |-> image]]
    /\ UNCHANGED <<receipts, review, owner, cases, opening, listing>>

merge_item(i) ==
    /\ catalog[i].active /\ Accept("catalog")
    /\ catalog' = [catalog EXCEPT ![i].active = FALSE]
    /\ UNCHANGED <<receipts, review, owner, cases, opening, listing>>

review_receipt(l, action, reading) ==
    /\ Accept("receipt")
    /\ receipts' = [receipts EXCEPT ![l].action = action,
                      ![l].corrected = IF action = "correct" THEN reading ELSE @]
    /\ UNCHANGED <<catalog, review, owner, cases, opening, listing>>

review_photo_observation(state) ==
    /\ Accept("photo")
    /\ review' = [state |-> state, decision |-> revision'.photo,
                  crop |-> IF state = "replaced" THEN revision'.photo ELSE review.crop]
    /\ UNCHANGED <<catalog, receipts, owner, cases, opening, listing>>

correct_photo_owner ==
    /\ Accept("owner")
    /\ owner' = revision'.owner
    /\ UNCHANGED <<catalog, receipts, review, cases, opening, listing>>

-----------------------------------------------------------------------------
(* The proposal                                                            *)

(* The newest items of the wardrobe.                                       *)
newer_items ==
    {p \in Items \X Items :
       \/ catalog[p[1]].updated > catalog[p[2]].updated
       \/ catalog[p[1]].updated = catalog[p[2]].updated /\ p[1] < p[2]}
load_catalog_snapshots == First(Ordered({i \in Items : catalog[i].active}, newer_items), PoolSize)

(* The corrected text is authoritative, where it says nothing too.         *)
authoritative(l) ==
    IF receipts[l].action = "correct" THEN receipts[l].corrected ELSE receipts[l].extracted

(* Reviewed lines: returns last, then the latest purchase.                 *)
returned(l) == authoritative(l).event = "return"
likelier(l, m) ==
    \/ ~returned(l) /\ returned(m)
    \/ /\ returned(l) = returned(m)
       /\ \/ authoritative(l).date > authoritative(m).date
          \/ authoritative(l).date = authoritative(m).date /\ l < m
likelier_lines == {p \in Lines \X Lines : likelier(p[1], p[2])}
load_receipt_snapshots ==
    First(Ordered({l \in Lines : receipts[l].action \in {"confirm", "correct"}}, likelier_lines),
          PoolSize)

(* The reviewed crop of the owner's observation, if there is one to match. *)
has_photo_pin == review.state \in {"confirmed", "replaced"} /\ owner = 1
load_photo_pin == [crop |-> review.crop, review |-> review.decision, owner |-> 1]

load_proposal_snapshot ==
    [revisions |-> [r \in DOMAIN revision \ {"reconciliation"} |-> revision[r]],
     pin |-> load_photo_pin,
     catalog |-> [k \in DOMAIN load_catalog_snapshots |->
                    [item |-> load_catalog_snapshots[k],
                     row |-> catalog[load_catalog_snapshots[k]]]],
     receipts |-> [k \in DOMAIN load_receipt_snapshots |->
                     [line |-> load_receipt_snapshots[k],
                      row |-> receipts[load_receipt_snapshots[k]]]]]

Graded(measured, supporting, neutral) ==
    IF measured <= supporting THEN "supporting"
    ELSE IF measured <= neutral THEN "neutral" ELSE "contradictory"

Evidence(feature, polarity, code) ==
    [feature |-> feature, polarity |-> polarity, code |-> code, measured |-> 0]

(* Mutant: the limits of the two features are exclusive.                   *)
measured_visual_evidence_Exclusive(image) ==
    {[Evidence("hash_distance", Graded(image.hash, 7, 22), "measured") EXCEPT
        !.measured = image.hash],
     [Evidence("color_distance", Graded(image.color, 47, 190), "measured") EXCEPT
        !.measured = image.color]}
measured_visual_evidence(image) ==
    {[Evidence("hash_distance", Graded(image.hash, 8, 23), "measured") EXCEPT
        !.measured = image.hash],
     [Evidence("color_distance", Graded(image.color, 48, 191), "measured") EXCEPT
        !.measured = image.color]}

catalog_status_evidence(image) ==
    {Evidence("catalog_image_status", "neutral", image.status)}

(* An item without a comparable image stays a candidate and says why.      *)
build_wardrobe_candidate(s) ==
    [kind |-> "wardrobe_item", id |-> s.item, relation |-> "same_physical_item",
     evidence |-> IF s.row.image.status = "measured"
                  THEN measured_visual_evidence(s.row.image)
                  ELSE catalog_status_evidence(s.row.image)]

receipt_review_evidence(row) ==
    Evidence("receipt_review_state", "neutral",
             IF row.action = "correct" THEN "corrected" ELSE "confirmed")

receipt_event_evidence(reading) ==
    Evidence("receipt_event_kind",
             IF reading.event = "return" THEN "contradictory" ELSE "neutral", reading.event)

purchase_chronology_evidence(reading) ==
    Evidence("purchase_chronology",
             IF reading.date = 2 THEN "contradictory" ELSE "neutral",
             CASE reading.date = 0 -> "unknown"
               [] reading.date = 1 -> "before"
               [] reading.date = 2 -> "after")

extracted_provenance_evidence(row) ==
    Evidence("extracted_receipt_provenance", "neutral",
             CASE row.action # "correct" -> "extracted"
               [] row.action = "correct" /\ row.corrected.text = "" -> "corrected_unknown"
               [] OTHER -> IF row.extracted.text = row.corrected.text
                           THEN "corrected_unchanged" ELSE "corrected_changed")

build_receipt_candidate(s) ==
    LET reading == IF s.row.action = "correct" THEN s.row.corrected ELSE s.row.extracted IN
    [kind |-> "receipt_line", id |-> s.line, relation |-> "same_product_variant",
     evidence |-> {receipt_review_evidence(s.row), receipt_event_evidence(reading),
                   purchase_chronology_evidence(reading), extracted_provenance_evidence(s.row)}]

NoMatch == [kind |-> "no_match", id |-> 0, relation |-> "none", evidence |-> {}]

(* Measured images before the others, closest first; ties in the order of   *)
(* the pool, which is the newest first.                                    *)
measured(image) == image.status = "measured"
closer(a, b) == a.hash < b.hash \/ (a.hash = b.hash /\ a.color < b.color)
more_like(a, b) ==
    \/ measured(a) /\ ~measured(b)
    \/ measured(a) /\ measured(b) /\ closer(a, b)
closer_items(pool) ==
    {p \in (DOMAIN pool) \X (DOMAIN pool) :
       LET a == pool[p[1]].row.image
           b == pool[p[2]].row.image
       IN more_like(a, b) \/ (~more_like(b, a) /\ p[1] < p[2])}
ranked_items(pool) ==
    LET order == Ordered(DOMAIN pool, closer_items(pool))
    IN [n \in DOMAIN order |-> pool[order[n]]]

(* Items, then receipt lines, then the explicit no match.                  *)
build_candidates(s) ==
    LET items == First(ranked_items(s.catalog), Shown)
        lines == First(s.receipts, Shown)
    IN [k \in DOMAIN items |-> build_wardrobe_candidate(items[k])]
         \o [k \in DOMAIN lines |-> build_receipt_candidate(lines[k])]
         \o <<NoMatch>>

-----------------------------------------------------------------------------
(* The contract of the response types, as wardrobe-core checks it          *)

valid_evidence(e) ==
    CASE e.feature = "hash_distance" ->
           e.measured <= 64 /\ e.polarity = Graded(e.measured, 8, 23)
      [] e.feature = "color_distance" ->
           e.measured <= 765 /\ e.polarity = Graded(e.measured, 48, 191)
      [] e.feature = "receipt_event_kind" ->
           (e.polarity = "contradictory") = (e.code = "return")
      [] e.feature = "purchase_chronology" ->
           (e.polarity = "contradictory") = (e.code = "after")
      [] OTHER -> e.polarity = "neutral"

valid_candidate(c) ==
    /\ \A e \in c.evidence : valid_evidence(e)
    /\ c.kind = "no_match" => c.evidence = {} /\ c.relation = "none"
    /\ c.kind = "wardrobe_item" =>
         \A e \in c.evidence : e.feature \in {"hash_distance", "color_distance", "catalog_image_status"}
    /\ c.kind = "receipt_line" =>
         \A e \in c.evidence : e.feature \notin {"hash_distance", "color_distance", "catalog_image_status"}

Outcomes == {"same_item", "same_variant", "different", "no_match", "unresolved"}

validate_for_case(outcome, selected) ==
    CASE outcome = "same_item" -> selected.kind = "wardrobe_item"
      [] outcome = "same_variant" -> selected.kind = "receipt_line"
      [] outcome = "different" -> selected.kind # "no_match"
      [] outcome \in {"no_match", "unresolved"} -> selected.kind = "no_match"

valid_case(c) ==
    /\ Len(c.candidates) \in 1..(2 * Shown + 1)
    /\ \A k \in DOMAIN c.candidates :
         /\ valid_candidate(c.candidates[k])
         /\ (c.candidates[k].kind = "no_match") = (k = Len(c.candidates))
         /\ \A m \in DOMAIN c.candidates \ {k} :
              <<c.candidates[k].kind, c.candidates[k].id>>
                # <<c.candidates[m].kind, c.candidates[m].id>>
    /\ c.case_revision > 1 =>
         /\ c.head.selected \in Range(c.candidates)
         /\ validate_for_case(c.head.outcome, c.head.selected)

-----------------------------------------------------------------------------
(* What a case is worth now                                                *)

(* The hash of the owner link covers the program's own crop of the person. *)
owner_evidence_matches(pin) == pin.crop = 0 /\ pin.owner = 1
owner_is_current(pin) == owner = pin.owner
crop_is_current(pin) ==
    /\ review.state \in {"confirmed", "replaced"}
    /\ review.decision = pin.review /\ review.crop = pin.crop

classify_authority(pin) ==
    IF ~owner_evidence_matches(pin) THEN "open_ineligible"
    ELSE IF owner_is_current(pin) /\ crop_is_current(pin) THEN "open_eligible"
    ELSE "open_stale"

load_candidates(k) == Range(cases[k].candidates)
load_case(k) == [cases[k] EXCEPT !.candidates = load_candidates(k)]
(* The second version of a case adds what it is worth, judged anew at every  *)
(* reading.                                                                *)
load_case_v2(k) == [case |-> load_case(k), authority |-> classify_authority(cases[k].pin)]
require_current_authority(k) == load_case_v2(k).authority = "open_eligible"

matches_filter(k, filter) == filter \in {"all", load_case_v2(k).authority}

-----------------------------------------------------------------------------
(* Opening                                                                 *)

load_proposal(t, version) ==
    /\ opening[t] = NoSnapshot
    /\ has_photo_pin
    /\ opening' = [opening EXCEPT ![t] =
                     [version |-> version, snapshot |-> load_proposal_snapshot]]
    /\ UNCHANGED <<catalog, receipts, review, owner, revision, cases, listing>>

(* Mutant: the photo alone is read again.                                  *)
snapshot_is_current_PinOnly(s) == has_photo_pin /\ load_photo_pin = s.pin
snapshot_is_current(s) == has_photo_pin /\ load_proposal_snapshot = s

find_existing_case(pin) == {k \in DOMAIN cases : cases[k].pin = pin}

(* candidate_id is made of the crop and the target, and is a primary key of *)
(* its table: no two cases of one crop can offer the same target.          *)
candidate_ids(pin, candidates) ==
    {<<pin.crop, c.kind, c.id>> : c \in {x \in Range(candidates) : x.kind # "no_match"}}
insert_candidates_succeeds(pin, candidates) ==
    \A k \in DOMAIN cases :
       candidate_ids(pin, candidates) \cap candidate_ids(cases[k].pin, cases[k].candidates) = {}

Undecided == [outcome |-> "none", selected |-> NoMatch]

proposed_case(s, created) ==
    [pin |-> s.pin, candidates |-> build_candidates(s), created |-> created,
     head |-> Undecided, case_revision |-> 1]

(* The snapshot has not changed, the second version's authority is current,  *)
(* no candidate_id is taken, and the response passes its own contract.      *)
open_succeeds(t) ==
    LET s == opening[t].snapshot IN
    /\ snapshot_is_current(s)
    /\ opening[t].version = 2 => classify_authority(s.pin) = "open_eligible"
    /\ find_existing_case(s.pin) = {} =>
         /\ insert_candidates_succeeds(s.pin, build_candidates(s))
         /\ valid_case(proposed_case(s, 1))

open_reconciliation_case(t, created) ==
    LET s == opening[t].snapshot IN
    /\ opening[t] # NoSnapshot /\ open_succeeds(t)
    /\ Accept("reconciliation")
    /\ cases' = IF find_existing_case(s.pin) # {} THEN cases
                ELSE Append(cases, proposed_case(s, created))
    /\ opening' = [opening EXCEPT ![t] = NoSnapshot]
    /\ UNCHANGED <<catalog, receipts, review, owner, listing>>

open_refused(t) ==
    /\ opening[t] # NoSnapshot /\ ~open_succeeds(t)
    /\ opening' = [opening EXCEPT ![t] = NoSnapshot]
    /\ UNCHANGED <<catalog, receipts, review, owner, revision, cases, listing>>

-----------------------------------------------------------------------------
(* Deciding                                                                *)

insert_reconciliation_decision(k, outcome, selected) ==
    cases' = [cases EXCEPT ![k].head = [outcome |-> outcome, selected |-> selected],
                ![k].case_revision = @ + 1]

(* The request names the revision of the case that the user saw, and the   *)
(* second version of the command all revisions: what is accepted is        *)
(* current.                                                                *)
decide_reconciliation_case(k, outcome, selected) ==
    /\ require_current_authority(k)
    /\ selected \in load_candidates(k) /\ validate_for_case(outcome, selected)
    /\ Accept("reconciliation")
    /\ insert_reconciliation_decision(k, outcome, selected)
    /\ UNCHANGED <<catalog, receipts, review, owner, opening, listing>>

-----------------------------------------------------------------------------
(* Listing                                                                 *)

(* ORDER BY created_at_ms DESC, case_id DESC.                              *)
newer_cases ==
    {p \in (DOMAIN cases) \X (DOMAIN cases) :
       \/ cases[p[1]].created > cases[p[2]].created
       \/ cases[p[1]].created = cases[p[2]].created /\ p[1] > p[2]}
newest_first(filter) == Ordered({k \in DOMAIN cases : matches_filter(k, filter)}, newer_cases)

(* Mutant: cases of the same millisecond are taken for shown.               *)
AfterCursor_Earlier(k) ==
    cases[k].created < cases[listing.shown[Len(listing.shown)]].created
AfterCursor(k) ==
    LET last == listing.shown[Len(listing.shown)] IN
    \/ cases[k].created < cases[last].created
    \/ cases[k].created = cases[last].created /\ k < last

(* The revisions a cursor is bound to.                                     *)
make_reconciliation_cursor ==
    <<revision.photo, revision.owner, revision.reconciliation>>

parse_reconciliation_cursor == listing.at = make_reconciliation_cursor

(* The contract of the answer wants a reconciliation_revision above zero.  *)
list_response_is_valid == revision.reconciliation > 0

(* The rows after the cursor that match; one more than a page is looked for. *)
remaining(filter) ==
    Ordered({k \in DOMAIN cases : AfterCursor(k) /\ matches_filter(k, filter)}, newer_cases)
Page(found) == [cases |-> First(found, PageSize), more |-> Len(found) > PageSize]

list_reconciliation_cases(filter) ==
    LET page == Page(newest_first(filter)) IN
    /\ listing.state # "more"
    /\ listing' = IF list_response_is_valid
                  THEN [state |-> IF page.more THEN "more" ELSE "done", filter |-> filter,
                        shown |-> page.cases, at |-> make_reconciliation_cursor]
                  ELSE [NoListing EXCEPT !.state = "corrupt"]
    /\ UNCHANGED <<catalog, receipts, review, owner, revision, cases, opening>>

list_next_page ==
    LET page == Page(remaining(listing.filter)) IN
    /\ listing.state = "more"
    /\ listing' = IF parse_reconciliation_cursor
                  THEN [listing EXCEPT !.state = IF page.more THEN "more" ELSE "done",
                          !.shown = @ \o page.cases]
                  ELSE NoListing
    /\ UNCHANGED <<catalog, receipts, review, owner, revision, cases, opening>>

-----------------------------------------------------------------------------
Next ==
    \/ \E i \in Items : merge_item(i) \/ \E image \in Images : save_item(i, image)
    \/ \E l \in Lines, action \in {"confirm", "correct", "reject"}, reading \in Readings :
         /\ action # "correct" => reading = receipts[l].extracted
         /\ review_receipt(l, action, reading)
    \/ \E state \in {"confirmed", "replaced", "excluded"} : review_photo_observation(state)
    \/ correct_photo_owner
    \/ \E t \in Callers :
         \/ \E version \in {1, 2} : load_proposal(t, version)
         \/ \E created \in 1..MaxClock : open_reconciliation_case(t, created)
         \/ open_refused(t)
    \/ \E k \in DOMAIN cases, outcome \in Outcomes :
         \E selected \in load_candidates(k) :
            decide_reconciliation_case(k, outcome, selected)
    \/ \E filter \in Filters : list_reconciliation_cases(filter)
    \/ list_next_page

Spec == Init /\ [][Next]_vars

-----------------------------------------------------------------------------
(* Whatever the wardrobe and the receipts hold, a proposal passes the        *)
(* contract that is applied to it before it is answered, and to the case at  *)
(* every later reading.  A case that is written offers what the tables hold  *)
(* at that moment, though it was made between two transactions: no item that *)
(* is gone, no review that was taken back, and nothing closer in the pool is *)
(* left out (open_reconciliation_case_impl, build_candidates).              *)
SoundCase ==
    /\ \A t \in Callers : opening[t] # NoSnapshot =>
         valid_case(proposed_case(opening[t].snapshot, 1))
    /\ Len(cases') > Len(cases) =>
         LET c == cases'[Len(cases')]
             offered == {i \in Items : \E x \in Range(c.candidates) :
                                         x.kind = "wardrobe_item" /\ x.id = i}
             looks(i) == catalog[i].image.status = "measured"
         IN /\ \A k \in DOMAIN cases : cases[k].pin # c.pin
            /\ \A i \in offered : catalog[i].active
            /\ \A i \in offered, j \in Range(load_catalog_snapshots) \ offered :
                 looks(j) => looks(i) /\ catalog[i].image.hash <= catalog[j].image.hash
            /\ \A x \in Range(c.candidates) : x.kind = "receipt_line" =>
                 /\ receipts[x.id].action \in {"confirm", "correct"}
                 /\ receipt_event_evidence(authoritative(x.id)) \in x.evidence
CasesAreSound == [][SoundCase]_vars

(* A listing that reaches its last page has shown every case of its filter   *)
(* once, newest first, as they are then: whatever was opened, decided,       *)
(* reviewed or corrected between two pages makes the cursor expire instead   *)
(* (parse_reconciliation_cursor).                                           *)
ListingAddsUp ==
    [][listing' # listing /\ listing'.state = "done" =>
         listing'.shown = newest_first(listing'.filter)]_vars

(* The first thing the interface does for a photo is to list its cases, and *)
(* to open one if there is none (PhotoAnalysisWorkspace.tsx:327): a list    *)
(* command with a valid request is answered, with no cases if need be.      *)
ListingIsAnswered == listing.state # "corrupt"
=============================================================================
