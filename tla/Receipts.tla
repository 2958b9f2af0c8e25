----------------------------- MODULE Receipts -----------------------------
(***************************************************************************)
(* The orders read from one imported message, the user's review of them,   *)
(* and the purchased units that become items of the catalog                *)
(* (wardrobe-platform/src/receipt_repository.rs,                           *)
(* receipt_promotion_repository.rs and, for the deletion of a unit,        *)
(* catalog_repository.rs).                                                 *)
(*                                                                         *)
(* A message may be analysed again and again, by the local rules or by     *)
(* receipt intelligence; every analysis makes an order of its own with     *)
(* lines of its own, and the newest review of any of them is the authority *)
(* of the message.  Each order has one line here; the quantity 0 stands    *)
(* for a line that is no purchase or whose quantity is not known.  The     *)
(* commands are transactions that expect the current revisions: a refused  *)
(* or repeated request changes nothing.                                    *)
(***************************************************************************)
EXTENDS Naturals, Sequences, FiniteSets

CONSTANTS
    Remote,       \* orders that receipt intelligence may publish
    MaxQuantity,  \* bound: units of a line
    MaxReviews    \* bound: reviews of the message's orders

VARIABLES
    orders,      \* receipt_orders: the quantity that was extracted
    authority,   \* receipt_source_authority_heads
    promotions,  \* receipt_purchase_unit_promotions, with their authority snapshots
    deletions,   \* receipt_purchase_unit_deletions, with their authority
    made         \* history: every item that was made, and from what

vars == <<orders, authority, promotions, deletions, made>>

Local == "local"
Orders == Remote \cup {Local}

NoOrder == MaxQuantity + 1

Units == [order : Orders, ordinal : 0..MaxQuantity - 1]

\* The review that governs the message; authority_revision counts its reviews.
NoAuthority == [revision |-> 0, order |-> Local, action |-> "none", quantity |-> 0]

Init ==
    /\ orders = [o \in Orders |-> NoOrder]
    /\ authority = NoAuthority
    /\ promotions = {}
    /\ deletions = {}
    /\ made = <<>>

-----------------------------------------------------------------------------
(* The local rules are deterministic: analysing again finds the same run.  *)
commit_receipt_analysis(quantity) ==
    /\ orders[Local] = NoOrder
    /\ orders' = [orders EXCEPT ![Local] = quantity]
    /\ UNCHANGED <<authority, promotions, deletions, made>>

publish_receipt_intelligence_order(o, quantity) ==
    /\ orders[o] = NoOrder
    /\ orders' = [orders EXCEPT ![o] = quantity]
    /\ UNCHANGED <<authority, promotions, deletions, made>>

(* A correction gives the line another quantity.                           *)
review_receipt(o, action, quantity) ==
    /\ orders[o] # NoOrder
    /\ authority.revision < MaxReviews
    /\ action # "correct" => quantity = orders[o]
    /\ authority' = [revision |-> authority.revision + 1, order |-> o,
                     action |-> action, quantity |-> quantity]
    /\ UNCHANGED <<orders, promotions, deletions, made>>

-----------------------------------------------------------------------------
(* Mutant: units that were deleted do not count.                           *)
source_has_prior_authority_state_Promoted ==
    \E x \in promotions : x.authority # authority

(* A unit was promoted or deleted under another review: what it means for  *)
(* the units of this one is left for the user to resolve.                  *)
source_has_prior_authority_state ==
    \E x \in promotions \cup deletions : x.authority # authority

Recorded(rows, u) == \E x \in rows : x.unit = u

(* project_purchase_units: the units of the reviewed line that the user    *)
(* may still take or delete.                                               *)
Eligible(u) ==
    /\ authority.action \in {"confirm", "correct"}
    /\ ~source_has_prior_authority_state
    /\ u.order = authority.order /\ u.ordinal < authority.quantity

promote_receipt_purchase_unit(u) ==
    LET row == [unit |-> u, authority |-> authority] IN
    /\ Eligible(u)
    /\ ~Recorded(deletions, u) /\ ~Recorded(promotions, u)
    /\ promotions' = promotions \cup {row}
    /\ made' = Append(made, row)
    /\ UNCHANGED <<orders, authority, deletions>>

(* The hard deletion of a unit, of its evidence or of its item: the        *)
(* promotion goes and the deletion is remembered, under the review that    *)
(* the unit was promoted by, else the one in force.                        *)
ensure_purchase_unit_deletion_authority(u) ==
    LET own == {x \in promotions : x.unit = u} IN
    /\ ~Recorded(deletions, u)
    /\ own # {} \/ Eligible(u)
    /\ deletions' = deletions \cup
         (IF own # {} THEN own ELSE {[unit |-> u, authority |-> authority]})
    /\ promotions' = promotions \ own
    /\ UNCHANGED <<orders, authority, made>>

-----------------------------------------------------------------------------
Quantities == 0..MaxQuantity

Next ==
    \/ \E quantity \in Quantities :
         \/ commit_receipt_analysis(quantity)
         \/ \E o \in Remote : publish_receipt_intelligence_order(o, quantity)
         \/ \E o \in Orders, action \in {"confirm", "correct", "reject", "defer"} :
              review_receipt(o, action, quantity)
    \/ \E u \in Units :
         \/ promote_receipt_purchase_unit(u)
         \/ ensure_purchase_unit_deletion_authority(u)

Spec == Init /\ [][Next]_vars

-----------------------------------------------------------------------------
(* A purchase enters the wardrobe once.  However often the message is      *)
(* analysed again, reviewed again or corrected, and whatever is deleted in *)
(* between, the items ever made of it are distinct units of one order,     *)
(* taken under one review, and no more of them than it says were bought    *)
(* (project_purchase_units, promote_receipt_purchase_unit_impl).           *)
PurchasedOnce ==
    /\ \A j, k \in DOMAIN made :
         /\ made[j].authority = made[k].authority
         /\ j # k => made[j].unit # made[k].unit
    /\ made # <<>> => Len(made) <= made[1].authority.quantity
=============================================================================
