------------------------------ MODULE Closure ------------------------------
(***************************************************************************)
(* What falls with the target of a hard deletion: the rows that            *)
(* materialize_deletion_rows (catalog_repository.rs) collects and          *)
(* compile_entries (deletion_repository.rs) turns into the plan.           *)
(*                                                                         *)
(* The store is one record of tables.  A message, its parse, its run, its   *)
(* order with one line and its review are one row of `order`; the rows that *)
(* always come and go with another one (provenance, MIME parts, fields,     *)
(* citations, command receipts, decisions and their entities) are not kept. *)
(* All messages are Gmail's.  The item and the evidence that promoting a    *)
(* unit makes have the name of the unit, the evidence that importing a      *)
(* source makes the name of the source.                                    *)
(***************************************************************************)
EXTENDS Naturals, FiniteSets

CONSTANTS
    Mails, Photos,     \* imported sources
    Folder,            \* the photographs of the one import root that has a photo scope
    Units, MailOf,     \* purchased units, and the message whose order line they are on
    Message,           \* the Gmail message of which each mail is a revision
    NewItems,          \* items the user makes
    Content,           \* the blob of each photograph
    MaxCommands        \* bound: accepted commands

VARIABLES
    db,       \* the tables
    commands  \* how many commands have been accepted

vars == <<db, commands>>

SourceRecords == Mails \cup Photos
Evidence == SourceRecords \cup Units
Items == NewItems \cup Units
SourceOf(e) == IF e \in Units THEN MailOf[e] ELSE e

NoPin == "metadata only"

Imported ==
    [source |-> SourceRecords, materialized |-> Mails, evidence |-> SourceRecords,
     order |-> {}, authority |-> {}, image |-> {}, snapshot |-> {}, promotion |-> {}, tombstone |-> {},
     item |-> {}, inactive |-> {}, link |-> {},
     scope |-> {}, detected |-> {}, case |-> {},
     outfit |-> {}, attempt |-> {}, approval |-> {}]

Init == db = Imported /\ commands = 0

Accepted == commands < MaxCommands /\ commands' = commands + 1
Write(tables) == Accepted /\ db' = tables

Active == db.item \ db.inactive
Held(i) == {e \in Evidence : <<i, e>> \in db.link}
Moved(e, i) == {l \in db.link : l[2] # e} \cup {<<i, e>>}

-----------------------------------------------------------------------------
\* What fills the tables

\* review_receipt: the order becomes the authority of its message.
review_receipt(m) ==
    /\ m \in db.source \ db.order
    /\ Write([db EXCEPT !.order = @ \cup {m}, !.authority = @ \cup {m}])

\* approve_and_fetch_receipt_image
fetch_receipt_image(m) ==
    /\ m \in db.order \ db.image
    /\ Write([db EXCEPT !.image = @ \cup {m}])

\* promote_receipt_purchase_unit; the units of a line share its authority snapshot.
promote(u) ==
    /\ MailOf[u] \in db.authority /\ u \notin db.promotion \cup db.tombstone
    /\ Write([db EXCEPT !.promotion = @ \cup {u}, !.snapshot = @ \cup {MailOf[u]},
                        !.item = @ \cup {u}, !.evidence = @ \cup {u},
                        !.link = @ \cup {<<u, u>>}])

\* save_item, of a new item with one piece of evidence from the inbox.
save_item(i, e) ==
    /\ i \in NewItems \ db.item /\ e \in db.evidence
    /\ \A l \in db.link : l[2] # e
    /\ Write([db EXCEPT !.item = @ \cup {i}, !.link = @ \cup {<<i, e>>}])

\* decide_evidence, an assignment.
decide_evidence(e, i) ==
    /\ e \in db.evidence /\ i \in Active /\ <<i, e>> \notin db.link
    /\ Write([db EXCEPT !.link = Moved(e, i)])

merge_items(i, j) ==
    /\ {i, j} \subseteq Active /\ i # j
    /\ Write([db EXCEPT !.inactive = @ \cup {j},
                        !.link = {<<IF l[1] = j THEN i ELSE l[1], l[2]>> : l \in @}])

\* create_photo_scope and the analysis of its members; one scope per generation.
create_photo_scope ==
    /\ db.scope = {} /\ Folder \cap db.source # {}
    /\ Write([db EXCEPT !.scope = Folder \cap db.source])

\* detect_photo_scope_people: an attempt and a preview for each member.
detect_people ==
    /\ db.scope # db.detected
    /\ Write([db EXCEPT !.detected = db.scope])

\* open_reconciliation_case: a crop against an item and a receipt line.
open_case(p, I, M) ==
    /\ p \in db.scope /\ I \subseteq Active /\ M \subseteq db.order
    /\ Write([db EXCEPT !.case = @ \cup {[photo |-> p, items |-> I, mails |-> M]}])

\* pin_item_asset: an image among the evidence of the item, if it has one.
pin_item_asset(i) == IF Held(i) \cap Photos = {} THEN {NoPin} ELSE Held(i) \cap Photos

create_manual_outfit(i, pin) ==
    /\ i \in Active /\ pin \in pin_item_asset(i)
    /\ Write([db EXCEPT !.outfit = @ \cup {[item |-> i, pin |-> pin]}])

\* A completed recommendation with its proposals.
recommend(i) ==
    /\ i \in Active
    /\ Write([db EXCEPT !.attempt = @ \cup {i}])

\* preview_try_on and submit_try_on: a portrait of the scope, a garment with a picture.
approve_try_on(p, o) ==
    /\ p \in db.scope /\ o \in db.outfit /\ o.pin # NoPin
    /\ Write([db EXCEPT !.approval = @ \cup {[portrait |-> p, item |-> o.item, pin |-> o.pin]}])

-----------------------------------------------------------------------------
\* The plan

\* resolve_p12_deletion_target: a purchased unit is named by itself, by its evidence or
\* by the item it was promoted to, and is taken alone.
Targets ==
    [kind : {"import_root"}, id : {"root"}] \cup [kind : {"source"}, id : SourceRecords]
      \cup [kind : {"item"}, id : Items] \cup [kind : {"purchase_unit"}, id : Units]
      \cup [kind : {"receipt_purchase_unit_evidence"}, id : Units]

resolve_p12_deletion_target(t) ==
    \/ t.kind \in {"item", "receipt_purchase_unit_evidence"} /\ t.id \in db.promotion
    \/ t.kind = "purchase_unit"

\* require_deletion_target: a unit is known by its promotion, by its deletion or by the
\* authority of its message.
require_deletion_target(t) ==
    CASE t.kind = "import_root" -> Folder \cap db.source # {}
      [] t.kind = "source" -> t.id \in db.source
      [] t.kind = "item" -> t.id \in db.item
      [] t.kind = "purchase_unit" -> t.id \in db.promotion \cup db.tombstone \/ MailOf[t.id] \in db.authority
      [] OTHER -> t.id \in db.promotion

seed(t) ==
    CASE t.kind = "import_root" -> Folder \cap db.source
      [] t.kind = "source" -> {t.id}
      [] OTHER -> {}

\* expand_gmail_source_lineage: all revisions of the messages of some mails.
messages_of(S) == {Message[m] : m \in S \cap db.materialized}
revisions_of(G) == {m \in db.materialized : Message[m] \in G}

\* One round of expand_deletion_closure: sources bring their evidence, items theirs, and
\* evidence its source and its item.
expand_round(r) ==
    LET e == {x \in db.evidence :
                \/ x \in r.evidence \/ SourceOf(x) \in r.sources
                \/ \E i \in r.items : <<i, x>> \in db.link}
    IN [sources |-> r.sources \cup {SourceOf(x) : x \in e}, evidence |-> e,
        items |-> r.items \cup {i \in Items : \E x \in e : <<i, x>> \in db.link}]

\* The rounds until nothing is new: every round but the last adds a source or an item.
expand_deletion_closure(S, I) ==
    LET round[n \in 0..Cardinality(SourceRecords \cup Items)] ==
          IF n = 0 THEN [sources |-> S, evidence |-> {}, items |-> I]
          ELSE expand_round(round[n - 1])
    IN round[Cardinality(SourceRecords \cup Items)]

\* augment_reconciliation_deletion_closure
falling_cases(S, I) ==
    {c \in db.case : c.photo \in S \/ c.mails \cap S # {} \/ c.items \cap I # {}}

\* materialize_affected_outfits
falling_outfits(I) == {o \in db.outfit : o.item \in I}

\* augment_recommendation_deletion_closure
falling_attempts(I) == db.attempt \cap I

\* try_on_deletion_approvals: by the source of an asset, of its photo revision, or by item.
falling_approvals(S, I) ==
    {a \in db.approval : a.portrait \in S \/ a.pin \in S \/ a.item \in I}

\* augment_photo_deletion_closure: a member brings its scope, and that all its members.
falling_scope(S) == IF S \cap db.scope # {} THEN db.scope ELSE {}

\* The rows of people detection and of the owner's choices fall with their scope.
falling_people(S) == falling_scope(S) \cap db.detected

\* What of both is listed in the preview.
photo_rows(S) == [scope |-> falling_scope(S), detected |-> falling_people(S)]

\* expand_parent_rows: what compile_entries adds to the rows of the preview, the
\* authority of a message and the remote analyses of it.
expand_parent_rows(S) == db.authority \cap S

\* Mutant: a message brings its orders and not the units promoted from them.
promotions_of_None(S) == {}

\* materialize_p12_source_ownership: the promotions of the messages, and the items and
\* evidence they made, after the closure.
promotions_of(S) == {u \in db.promotion : MailOf[u] \in S}

\* materialize_deletion_rows for a root, a source or an item of the user.
closure_rows(t) ==
    LET messages == messages_of(seed(t))
        r == expand_deletion_closure(seed(t) \cup revisions_of(messages),
                                     IF t.kind = "item" THEN {t.id} ELSE {})
        promotions == promotions_of(r.sources)
        photos == photo_rows(r.sources)
        I == r.items \cup promotions
        E == r.evidence \cup promotions
    IN [source |-> r.sources, materialized |-> revisions_of(messages), evidence |-> E,
        order |-> db.order \cap r.sources, authority |-> expand_parent_rows(r.sources),
        image |-> db.image \cap r.sources,
        snapshot |-> db.snapshot \cap r.sources, promotion |-> promotions,
        tombstone |-> {u \in db.tombstone : MailOf[u] \in r.sources},
        item |-> I, inactive |-> I, link |-> {l \in db.link : l[2] \in E},
        scope |-> photos.scope, detected |-> photos.detected,
        case |-> falling_cases(r.sources, I), outfit |-> falling_outfits(I),
        attempt |-> falling_attempts(I), approval |-> falling_approvals(r.sources, I)]

\* materialize_p12_directional_rows: the promotion, its item, its evidence and the row
\* that joins them; the snapshot only with its last promotion; the message, its order
\* and its review are reported as retained.
directional_rows(u) ==
    LET mine == {u} \cap db.promotion
        last == mine # {} /\ \A v \in db.promotion \ {u} : MailOf[v] # MailOf[u]
    IN [Imported EXCEPT !.source = {}, !.materialized = {}, !.evidence = mine,
          !.promotion = mine, !.snapshot = IF last THEN {MailOf[u]} ELSE {},
          !.item = mine, !.inactive = mine, !.link = {<<v, v>> : v \in mine},
          !.case = falling_cases({}, mine), !.outfit = falling_outfits(mine),
          !.attempt = falling_attempts(mine), !.approval = falling_approvals({}, mine)]

plan(t) == IF resolve_p12_deletion_target(t) THEN directional_rows(t.id) ELSE closure_rows(t)

Without(rows) == [table \in DOMAIN db |-> db[table] \ rows[table]]

\* The foreign keys, all ON DELETE RESTRICT, checked again after the deletes.
foreign_key_check(d) ==
    /\ d.materialized \cup d.order \cup d.image \cup d.snapshot \cup d.scope \subseteq d.source
    /\ d.image \cup d.snapshot \cup d.authority \subseteq d.order
    /\ {SourceOf(e) : e \in d.evidence} \subseteq d.source
    /\ d.promotion \subseteq d.item \cap d.evidence
    /\ \A u \in d.promotion : MailOf[u] \in d.snapshot
    /\ \A u \in d.tombstone : MailOf[u] \in d.order
    /\ \A l \in d.link : l[1] \in d.item /\ l[2] \in d.evidence
    /\ \A c \in d.case : c.photo \in d.scope /\ c.items \subseteq d.item /\ c.mails \subseteq d.order
    /\ \A o \in d.outfit : o.item \in d.item /\ o.pin \in d.evidence \cup {NoPin}
    /\ d.attempt \subseteq d.item

\* ensure_purchase_unit_deletion_authority: that a unit was deleted is remembered.
remember_deletion(t, d) ==
    IF resolve_p12_deletion_target(t) THEN [d EXCEPT !.tombstone = @ \cup {t.id}] ELSE d

\* execute_deletion: the rows of the plan go; a violated key rolls everything back.
execute_deletion(t) ==
    LET left == Without(plan(t)) IN
    /\ require_deletion_target(t) /\ foreign_key_check(left)
    /\ Write(remember_deletion(t, left))

-----------------------------------------------------------------------------
\* The blobs of the plan, as the preview shows them and as the plan has them

\* blob_reference_owners: sources and their provenance, photo revisions, outfit members
\* and try-on assets.  Rows of people detection are not among them.
owners(d, b) ==
    LET photos == {p \in d.source \cap Photos : Content[p] = b} IN
    2 * Cardinality(photos) + Cardinality(photos \cap d.scope)
      + Cardinality({o \in d.outfit : o.pin # NoPin /\ Content[o.pin] = b})
      + Cardinality({a \in d.approval : Content[a.pin] = b})
      + Cardinality({a \in d.approval : Content[a.portrait] = b})

\* materialize_blob_rows and materialize_photo_blob_rows count the references of what
\* falls: sources, provenance, revisions, assets and the rows of people detection, of
\* which there are two for a member; outfit members are not counted.
closed_references(f, b) ==
    LET photos == {p \in f.source \cap Photos : Content[p] = b} IN
    2 * Cardinality(photos) + Cardinality({p \in f.scope : Content[p] = b})
      + 2 * Cardinality({p \in f.detected : Content[p] = b})
      + Cardinality({a \in f.approval : Content[a.pin] = b})
      + Cardinality({a \in f.approval : Content[a.portrait] = b})

Contents == {Content[p] : p \in Photos}

\* The blobs the preview lists as originals that go.
shown_originals(rows) ==
    {b \in Contents : /\ closed_references(rows, b) > 0
                   /\ owners(db, b) <= closed_references(rows, b)}

\* reconcile_blob_entries: the blobs all of whose owners, detection rows included, are in
\* the plan.
reconcile_blob_entries(rows) ==
    LET left == Without(rows)
    IN {b \in Contents : owners(db, b) > owners(left, b) /\ owners(left, b) = 0}

-----------------------------------------------------------------------------
Next ==
    \/ \E m \in Mails : review_receipt(m) \/ fetch_receipt_image(m)
    \/ \E u \in Units : promote(u)
    \/ \E e \in Evidence, i \in Items : save_item(i, e) \/ decide_evidence(e, i)
    \/ \E i, j \in Items : merge_items(i, j)
    \/ create_photo_scope \/ detect_people
    \/ \E p \in Photos : \E I \in SUBSET Items, M \in SUBSET Mails :
         Cardinality(I \cup M) = 1 /\ open_case(p, I, M)
    \/ \E i \in Items : recommend(i) \/ \E pin \in Photos \cup {NoPin} : create_manual_outfit(i, pin)
    \/ \E p \in Photos, o \in db.outfit : approve_try_on(p, o)
    \/ \E t \in Targets : execute_deletion(t)

Spec == Init /\ [][Next]_vars

-----------------------------------------------------------------------------
\* An outfit that stays pins a picture that goes, which has since moved to another item.
MovedPin(rows) ==
    \E o \in db.outfit \ rows.outfit : o.pin \in rows.evidence /\ <<o.item, o.pin>> \notin db.link

\* The item of a unit has lost its evidence or has got more.
Entwined(u) == Held(u) # {u}

\* A case that stays is about another photograph of the scope.
CaseOfAnother(rows) == \E c \in db.case \ rows.case : c.photo \in rows.scope \ rows.source

\* A message is reached through an item and not from the target.
MessageByTheWay(t, rows) ==
    ~(rows.source \cap db.materialized \subseteq revisions_of(messages_of(seed(t))))

\* The plan of every target leaves no row behind that refers to a row it takes, so that
\* the deletion the user has confirmed is carried out, except in four tangles
\* (materialize_deletion_rows, execute_deletion's check of the foreign keys).
PlansAreClosed ==
    \A t \in Targets : require_deletion_target(t) =>
       LET rows == plan(t) IN
       \/ foreign_key_check(Without(rows))
       \/ MovedPin(rows) \/ CaseOfAnother(rows) \/ MessageByTheWay(t, rows)
       \/ \E u \in db.promotion \cap rows.item : Entwined(u)

\* The originals that the preview lists as going are those that go, unless people were
\* detected in a scope that falls or an outfit that falls pins a picture
\* (materialize_blob_rows, materialize_photo_blob_rows, reconcile_blob_entries).
PreviewIsExact ==
    \A t \in Targets : require_deletion_target(t) =>
       LET rows == plan(t) IN
       \/ shown_originals(rows) = reconcile_blob_entries(rows)
       \/ rows.detected # {}
       \/ \E o \in rows.outfit : o.pin # NoPin
=============================================================================
