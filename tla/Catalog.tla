------------------------------ MODULE Catalog ------------------------------
(***************************************************************************)
(* The manual catalog (wardrobe-platform/src/catalog_repository.rs): items,*)
(* the evidence that belongs to them, the decisions of the user and their  *)
(* undo, and the promotion of a purchased unit to an item                  *)
(* (receipt_promotion_repository.rs).                                      *)
(*                                                                         *)
(* Every command is one transaction of the main thread that expects the    *)
(* current catalog_revision and moves it on by one; a refused or repeated  *)
(* request changes nothing, so only accepted ones are actions.  Only the   *)
(* newest decision can be undone, so only the newest is kept.  The         *)
(* attributes of an item are named by the revision that wrote them.        *)
(***************************************************************************)
EXTENDS Naturals, FiniteSets

CONSTANTS
    Items,              \* item ids
    Imported,           \* evidence that an import has put into the inbox
    Purchased,          \* evidence that promotions will make
    MaxEvidence,        \* MAX_EVIDENCE_PER_MUTATION
    MaxCatalogRevision  \* bound: accepted commands

VARIABLES
    items,     \* catalog_items: whether there is one, active, and its attributes
    evidence,  \* evidence.state, and the item of its item_evidence row
    revision,  \* revision_state.catalog_revision
    head,      \* the newest of catalog_decisions: its kind, its inverse and the
               \* evidence it names
    before     \* history: what the catalog was before that decision, and
               \* whether the decision or what it undoes decided on evidence

vars == <<items, evidence, revision, head, before>>

Evidence == Imported \cup Purchased

NoItem == "no item"

NoRow == [status |-> "absent", attributes |-> 0]
Row(r) == [status |-> "active", attributes |-> r]

Unassigned(state) == [state |-> state, item |-> NoItem]
Assigned(i) == [state |-> "assigned", item |-> i]

\* ProjectionSnapshot: the rows of the affected items and of some evidence.
capture_projection(I, E) ==
    [items |-> [i \in I |-> items[i]], evidence |-> [e \in E |-> evidence[e]]]

NoDecision == [kind |-> "none", inverse |-> [items |-> <<>>, evidence |-> <<>>], named |-> {}]

Init ==
    /\ items = [i \in Items |-> NoRow]
    /\ evidence = [e \in Evidence |->
                     Unassigned(IF e \in Imported THEN "unresolved" ELSE "absent")]
    /\ revision = 0
    /\ head = NoDecision
    /\ before = [items |-> items, evidence |-> evidence, on_evidence |-> FALSE]

Active(i) == items[i].status = "active"

item_evidence_ids(i) == {e \in Evidence : evidence[e].item = i}

-----------------------------------------------------------------------------
advance_revision ==
    /\ revision < MaxCatalogRevision
    /\ revision' = revision + 1

append_decision(kind, inverse, E) == head' = [kind |-> kind, inverse |-> inverse, named |-> E]

Remember(on_evidence) ==
    before' = [items |-> items, evidence |-> evidence, on_evidence |-> on_evidence]

\* validate_unique of the evidence of a request, an item or a decision.
within_mutation(E) == Cardinality(E) <= MaxEvidence

(* Mutant: the snapshot covers the evidence of the request only.           *)
saved_evidence_OfRequest(i, E) == E
saved_evidence(i, E) == E \cup item_evidence_ids(i)

(* The evidence the item had goes back to the inbox, the evidence of the   *)
(* request comes from the inbox or was its own.                            *)
save_item(i, E) ==
    /\ advance_revision
    /\ within_mutation(E)
    /\ \A e \in E : evidence[e].item \in {NoItem, i}
    /\ append_decision("save", capture_projection({i}, saved_evidence(i, E)), E)
    /\ items' = [items EXCEPT ![i] = Row(revision')]
    /\ evidence' = [e \in Evidence |->
                      IF e \in E THEN Assigned(i)
                      ELSE IF evidence[e].item = i THEN Unassigned("unresolved")
                      ELSE evidence[e]]
    /\ Remember(FALSE)

(* One piece of evidence is assigned, wherever it was, rejected or         *)
(* deferred.  The snapshot covers its item and the new one, and of their   *)
(* evidence only this piece.                                               *)
decide_evidence(e, verdict) ==
    LET affected == ({evidence[e].item} \cup {verdict.item}) \ {NoItem} IN
    /\ advance_revision
    /\ verdict.item # NoItem => Active(verdict.item)
    /\ append_decision("decide", capture_projection(affected, {e}), {e})
    /\ evidence' = [evidence EXCEPT ![e] = verdict]
    /\ Remember(TRUE)
    /\ UNCHANGED items

Verdicts == {Assigned(i) : i \in Items} \cup {Unassigned("rejected"), Unassigned("deferred")}

merge_items(target, I) ==
    LET moved == {e \in Evidence : evidence[e].item \in I} IN
    /\ advance_revision
    /\ \A i \in I : Active(i)
    /\ append_decision("merge", capture_projection(I, moved), moved)
    /\ items' = [i \in Items |->
                   IF i = target THEN Row(revision')
                   ELSE IF i \in I THEN [items[i] EXCEPT !.status = "inactive"]
                   ELSE items[i]]
    /\ evidence' = [e \in Evidence |->
                      IF e \in moved THEN [evidence[e] EXCEPT !.item = target]
                      ELSE evidence[e]]
    /\ Remember(FALSE)

(* The evidence of an item is divided between it and new items.            *)
split_item(i, new, E) ==
    LET divided == item_evidence_ids(i) IN
    /\ advance_revision
    /\ Active(i) /\ items[new] = NoRow
    /\ within_mutation(divided)
    /\ E # {} /\ E # divided
    /\ append_decision("split", capture_projection({i, new}, divided), divided)
    /\ items' = [items EXCEPT ![i] = Row(revision'), ![new] = Row(revision')]
    /\ evidence' = [e \in Evidence |->
                      IF e \in E THEN [evidence[e] EXCEPT !.item = new] ELSE evidence[e]]
    /\ Remember(FALSE)

(* promote_receipt_purchase_unit: a new item with the evidence of one      *)
(* purchased unit; its decision has no inverse.                            *)
promote_receipt_purchase_unit(i, e) ==
    /\ advance_revision
    /\ items[i] = NoRow /\ evidence[e].state = "absent"
    /\ items' = [items EXCEPT ![i] = Row(revision')]
    /\ evidence' = [evidence EXCEPT ![e] = Assigned(i)]
    /\ append_decision("promote", NoDecision.inverse, {e})
    /\ Remember(FALSE)

-----------------------------------------------------------------------------
(* An item that did not exist stays as an inactive row.                    *)
restored_items(snapshot) ==
    [i \in Items |->
       IF i \notin DOMAIN snapshot.items THEN items[i]
       ELSE IF snapshot.items[i] # NoRow THEN snapshot.items[i]
       ELSE IF items[i] = NoRow THEN NoRow
       ELSE [items[i] EXCEPT !.status = "inactive"]]

(* The affected items lose every item_evidence row; the evidence of the    *)
(* snapshot gets its state and its row back, other evidence of these       *)
(* items keeps its state and has no row.                                   *)
restored_evidence(snapshot) ==
    [e \in Evidence |->
       IF e \in DOMAIN snapshot.evidence THEN snapshot.evidence[e]
       ELSE IF evidence[e].item \in DOMAIN snapshot.items
            THEN [evidence[e] EXCEPT !.item = NoItem]
       ELSE evidence[e]]

undo ==
    LET snapshot == head.inverse IN
    /\ advance_revision
    /\ head.kind \notin {"none", "promote"}
    /\ append_decision("undo",
         capture_projection(DOMAIN snapshot.items, DOMAIN snapshot.evidence),
         DOMAIN snapshot.evidence)
    /\ items' = restored_items(snapshot)
    /\ evidence' = restored_evidence(snapshot)
    /\ Remember(before.on_evidence)

-----------------------------------------------------------------------------
(* The answer, which ApplicationService checks once the decision is        *)
(* committed: a decision that names too much, an item that holds too much  *)
(* or evidence whose state contradicts its row is refused as an internal   *)
(* error.  A save must also show the evidence of its request, a split all  *)
(* of what it divided.                                                     *)
decision_is_valid == within_mutation(head.named)

item_is_valid(i) == within_mutation(item_evidence_ids(i))

evidence_is_valid(e) == (evidence[e].state = "assigned") = (evidence[e].item # NoItem)

answer_is_valid ==
    LET affected == DOMAIN head.inverse.items
        shown == {i \in affected : Active(i)}
        held == {e \in Evidence : evidence[e].item \in shown} IN
    /\ decision_is_valid
    /\ head.kind = "decide" => \A e \in head.named : evidence_is_valid(e)
    /\ head.kind \in {"save", "merge", "split", "undo"} => \A i \in shown : item_is_valid(i)
    /\ head.kind \in {"save", "split"} => held = head.named

-----------------------------------------------------------------------------
Next ==
    \/ \E i \in Items :
         \/ \E E \in SUBSET {e \in Evidence : evidence[e].state # "absent"} : save_item(i, E)
         \/ \E e \in Purchased : promote_receipt_purchase_unit(i, e)
    \/ \E e \in Evidence, verdict \in Verdicts :
         evidence[e].state # "absent" /\ decide_evidence(e, verdict)
    \/ \E target \in Items, other \in Items :
         target # other /\ merge_items(target, {target, other})
    \/ \E i, new \in Items :
         i # new /\ \E E \in SUBSET item_evidence_ids(i) : split_item(i, new, E)
    \/ undo

Spec == Init /\ [][Next]_vars

-----------------------------------------------------------------------------
(* Whatever a decision on an item did, saving, merging or splitting it,    *)
(* and however often it was undone and redone, undoing it brings back the  *)
(* items, their attributes and every piece of evidence as they were; an    *)
(* item it had created is inactive and holds nothing (undo_impl,           *)
(* restore_projection).                                                    *)
UndoRestores ==
    [][head'.kind = "undo" /\ revision' > revision /\ ~before.on_evidence =>
         /\ evidence' = before.evidence
         /\ \A i \in Items :
              \/ items'[i] = before.items[i]
              \/ /\ ~(before.items[i].status = "active")
                 /\ items'[i].status = "inactive"
                 /\ \A e \in Evidence : evidence'[e].item # i]_vars

(* A decision that is committed is answered: what the code checks after    *)
(* the commit never turns a decision of the user into an error that is     *)
(* stored with it and repeated for ever, unless the items it is about hold *)
(* more than one decision may name (service.rs, validate_mutation, after   *)
(* catalog_repository.rs has committed).                                   *)
DecisionsAreAnswered ==
    [][LET I == DOMAIN head'.inverse.items
           about == {e \in Evidence : evidence[e].item \in I \/ evidence'[e].item \in I} IN
       revision' > revision /\ within_mutation(about) => answer_is_valid']_vars

(* Evidence is assigned exactly when it belongs to an active item, so the  *)
(* user finds every piece either in the inbox or in the catalog            *)
(* (catalog_repository.rs, list_inbox and list_catalog).                   *)
EvidenceIsSomewhere ==
    \A e \in Evidence :
       LET held == evidence[e].item IN
       /\ (evidence[e].state = "assigned") = (held # NoItem)
       /\ held # NoItem => Active(held)
=============================================================================
