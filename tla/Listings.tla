------------------------------ MODULE Listings ------------------------------
(***************************************************************************)
(* The lists that the interface reads page by page.  A page is a command   *)
(* of the main thread and so is every write, so writes fall between pages. *)
(* A cursor names the revision counters that its list relies on, and is    *)
(* refused once one of them has moved; it goes on from a number of rows or *)
(* from the key of the last row.  What a write does to a list and which    *)
(* counters it moves is a table, taken from the transactions of each       *)
(* repository.                                                             *)
(*                                                                         *)
(* A behaviour reads one list.  A write changes one row of it: the writes  *)
(* that change more are several of these.                                  *)
(***************************************************************************)
EXTENDS Naturals, Sequences, FiniteSets

CONSTANTS
    MaxRows,     \* bound: rows that a list may hold; a row is its own identifier
    MaxPage,     \* bound: the limit of a request
    MaxWrites    \* bound: writes while a list is read

Rows == 1 .. MaxRows
VARIABLES
    list,      \* the list that is read
    sort,      \* the key each row is sorted by; 0: the row is not in the list
    counters,  \* revision_state: how often each counter has moved
    cursor,    \* next_cursor of the last page
    shown,     \* the rows of the pages so far
    writes,    \* number of writes so far
    steady,    \* history: the rows that have been in the list since the first page, as they are
    unseen     \* history: a write that the list's counters are known to miss has changed it

vars == <<list, sort, counters, cursor, shown, writes, steady, unseen>>

-----------------------------------------------------------------------------
(* The lists: what the cursor relies on, how it goes on, and the key.      *)
Counters == {"catalog", "evidence", "receipt", "photo", "owner", "outfit"}

OffsetList(pins, key) == [pins |-> pins, by |-> "offset", key |-> key]
KeyList(pins, key) == [pins |-> pins, by |-> "key", key |-> key]

\* ORDER BY display_name, which the user edits.
list_catalog == OffsetList({"catalog", "evidence"}, "edited")

\* ORDER BY created_at_ms, evidence_id of one state, or of the quarantine.
list_inbox == OffsetList({"catalog", "evidence"}, "oldest")

list_receipts == KeyList({"receipt", "evidence"}, "fixed")

list_receipt_purchase_units == OffsetList({"receipt", "evidence", "catalog"}, "fixed")

list_outfits == OffsetList({"outfit"}, "newest")

list_try_on_portrait_candidates == OffsetList({"photo"}, "fixed")

list_imported_photo_roots == KeyList({"evidence"}, "fixed")

list_photo_observations == KeyList({"photo", "evidence"}, "fixed")

\* ORDER BY updated_at_ms, which every change of a review moves on.
list_photo_owner_reviews == KeyList({"photo", "owner"}, "updated")

list_receipt_intelligence == KeyList({}, "newest")

\* A plan is not written to, and is gone or refused once anything has moved.
list_deletion_plan_items == OffsetList(Counters, "fixed")

Lists ==
    [catalog |-> list_catalog, inbox |-> list_inbox, receipts |-> list_receipts,
     purchase_units |-> list_receipt_purchase_units, outfits |-> list_outfits,
     portraits |-> list_try_on_portrait_candidates, roots |-> list_imported_photo_roots,
     observations |-> list_photo_observations, owner_reviews |-> list_photo_owner_reviews,
     detecting |-> list_photo_owner_reviews, intelligence |-> list_receipt_intelligence,
     plan |-> list_deletion_plan_items]

-----------------------------------------------------------------------------
(* The writes: the counters they move and the lists they change.           *)
Write(moves, changes) == [moves |-> moves, changes |-> changes]

decide == Write({"catalog"}, {"catalog", "inbox"})
promote == Write({"catalog", "evidence"}, {"catalog", "purchase_units"})

\* The counter moves at the end, and only if a file was new or different: an import that
\* fails on a later file, files that are gone and a root that cannot be read do not move it.
import_local_sources == Write({"evidence"}, {"inbox", "receipts", "roots"})
import_cut_off == Write({}, {"inbox", "receipts", "roots"})
refresh_finds_less == Write({}, {"receipts", "roots"})

commit_batch == Write({"evidence"}, {"inbox", "receipts"})
commit_receipt_analysis == Write({"evidence"}, {"receipts", "purchase_units"})
review_receipt == Write({"receipt"}, {"receipts", "purchase_units"})
create_manual_outfit == Write({"outfit"}, {"outfits"})

finalize_analysis_member == Write({"evidence"}, {"observations", "portraits"})
review_photo_observation == Write({"photo"}, {"observations"})
publish_person_detection == Write({"evidence"}, {"owner_reviews", "detecting"})
publish_owner_work == Write({"evidence"}, {"observations", "portraits"})
correct_person_detection == Write({"photo"}, {"owner_reviews", "detecting"})

reserve_receipt_intelligence == Write({}, {"intelligence"})

execute_deletion == Write(Counters, DOMAIN Lists)

Writes ==
    [decide |-> decide, promote |-> promote, imported |-> import_local_sources,
     cut_off |-> import_cut_off, found_less |-> refresh_finds_less, mail |-> commit_batch,
     analysis |-> commit_receipt_analysis, review |-> review_receipt,
     outfit |-> create_manual_outfit, photo |-> finalize_analysis_member,
     photo_review |-> review_photo_observation, people |-> publish_person_detection,
     owner_work |-> publish_owner_work, correction |-> correct_person_detection,
     intelligence |-> reserve_receipt_intelligence, deletion |-> execute_deletion]

Writers == DOMAIN Writes

(* What a writer may do to the rows of a list besides replacing their      *)
(* content: a deletion and a refresh remove, the newest rows come last (or *)
(* first, in a list read backwards), and only names and times change.  A   *)
(* detection is published for a review in state detecting, so the review   *)
(* leaves that list or enters another.                                     *)
Removes(w) ==
    \/ w \in {"deletion", "found_less"}
    \/ w = "people" /\ list = "detecting"
Adds(w) ==
    \/ w \in {"outfit", "intelligence"}
    \/ w = "people" /\ list = "owner_reviews"

\* The time of the next write.
Newest == MaxRows + writes + 1

new_keys(w, r) ==
    LET key == Lists[list].key IN
    (IF Adds(w) THEN {} ELSE {0})
    \cup (IF Removes(w) \/ (Adds(w) /\ sort[r] # 0) THEN {}
          ELSE CASE key = "fixed" -> {r}
                 [] key = "edited" -> 1 .. MaxRows
                 [] key \in {"oldest", "newest"} -> {IF sort[r] = 0 THEN Newest ELSE sort[r]}
                 [] key = "updated" -> {Newest})

(* The writes that the counters of a list are known to miss: what an       *)
(* import leaves behind when it does not get to its end, files and roots   *)
(* that are gone, portraits and people that analyses find, and all that    *)
(* happens to the list that has no counter.                                *)
Missed ==
    ({"cut_off"} \X {"inbox", "receipts", "roots"})
    \cup ({"found_less"} \X {"receipts", "roots"})
    \cup ({"photo", "owner_work"} \X {"portraits"})
    \cup ({"people"} \X {"owner_reviews", "detecting"})
    \cup ({"intelligence", "deletion"} \X {"intelligence"})

write(w) ==
    /\ writes < MaxWrites
    /\ list \in Writes[w].changes
    /\ \E r \in Rows : \E k \in new_keys(w, r) :
         /\ sort[r] # 0 \/ k # 0
         /\ sort' = [sort EXCEPT ![r] = k]
         /\ steady' = IF k = sort[r] THEN steady ELSE steady \ {r}
         /\ unseen' = (unseen \/ (k # sort[r] /\ <<w, list>> \in Missed))
    /\ counters' = [c \in Counters |->
                      counters[c] + (IF c \in Writes[w].moves THEN 1 ELSE 0)]
    /\ writes' = writes + 1
    /\ UNCHANGED <<list, cursor, shown>>

-----------------------------------------------------------------------------
NoCursor == [at |-> "start"]
LastPage == [at |-> "end"]
Expired == [at |-> "expired"]

pinned == [c \in Lists[list].pins |-> counters[c]]

\* ORDER BY the key and, where rows can share one, the identifier.
earlier ==
    {p \in Rows \X Rows :
       IF Lists[list].key = "newest" THEN sort[p[1]] > sort[p[2]]
       ELSE sort[p[1]] < sort[p[2]] \/ (sort[p[1]] = sort[p[2]] /\ p[1] < p[2])}

Ordered(rows) ==
    CHOOSE q \in [1 .. Cardinality(rows) -> rows] :
       \A i, j \in DOMAIN q : i < j => <<q[i], q[j]>> \in earlier

Listed == {r \in Rows : sort[r] # 0}

AfterCursor(r) ==
    IF Lists[list].key = "newest" THEN sort[r] < cursor.key
    ELSE sort[r] > cursor.key \/ (sort[r] = cursor.key /\ r > cursor.row)

(* The rows after the cursor.  A row that is gone still has its key in the *)
(* cursor.                                                                 *)
remaining ==
    IF cursor.at = "start" THEN Ordered(Listed)
    ELSE IF Lists[list].by = "offset"
    THEN SubSeq(Ordered(Listed), cursor.offset + 1, Cardinality(Listed))
    ELSE Ordered({r \in Listed : AfterCursor(r)})

next_cursor(page, more) ==
    IF ~more THEN LastPage
    ELSE [at |-> "page", pins |-> pinned, offset |-> Len(shown) + Len(page),
          row |-> page[Len(page)], key |-> sort[page[Len(page)]]]

usable == cursor.at = "page" => cursor.pins = pinned

read_page ==
    /\ cursor.at \in {"start", "page"} /\ usable
    /\ \E limit \in 1 .. MaxPage :
         LET more == Len(remaining) > limit
             page == IF more THEN SubSeq(remaining, 1, limit) ELSE remaining IN
         /\ shown' = shown \o page
         /\ cursor' = next_cursor(page, more)
    /\ IF cursor.at = "start"
       THEN steady' = Listed /\ unseen' = FALSE
       ELSE UNCHANGED <<steady, unseen>>
    /\ UNCHANGED <<list, sort, counters, writes>>

\* snapshot_expired: the interface reads the list again from its start.
refuse_page ==
    /\ ~usable
    /\ cursor' = Expired
    /\ UNCHANGED <<list, sort, counters, shown, writes, steady, unseen>>

-----------------------------------------------------------------------------
Init ==
    /\ list \in DOMAIN Lists
    /\ \E first \in SUBSET Rows : sort = [r \in Rows |-> IF r \in first THEN r ELSE 0]
    /\ counters = [c \in Counters |-> 0]
    /\ cursor = NoCursor
    /\ shown = <<>>
    /\ writes = 0
    /\ steady = {} /\ unseen = FALSE

Next ==
    \/ cursor.at = "page" /\ \E w \in Writers : write(w)
    \/ read_page
    \/ refuse_page

Spec == Init /\ [][Next]_vars

-----------------------------------------------------------------------------
Times(r) == Cardinality({i \in DOMAIN shown : shown[i] = r})

(* A list that is read to its end without being refused adds up, whatever  *)
(* is written between its pages: it shows every row that was in it all the *)
(* time exactly once and no row twice, and it shows just what the list     *)
(* holds, unless a write was one that its counters are known to miss; only *)
(* a list read by offset then repeats and misses rows (the cursors of      *)
(* catalog_repository.rs, receipt_repository.rs, photo_repository.rs,      *)
(* person_repository.rs and the others).                                   *)
PagesAddUp ==
    cursor.at = "end" =>
       /\ Lists[list].by = "key" \/ ~unseen =>
            /\ \A r \in steady : Times(r) = 1
            /\ \A r \in Rows : Times(r) <= 1
       /\ ~unseen => {r \in Rows : Times(r) = 1} = Listed
=============================================================================
