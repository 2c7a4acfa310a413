----------------------------- MODULE Collections -----------------------------
(***************************************************************************)
(* One collection of its owner: the row of collections, its items with     *)
(* their positions, and the handlers that change them.  add_item and       *)
(* reorder are transactions that hold the lock of the row (FOR UPDATE)     *)
(* from their first statement on; the others are single statements after a *)
(* read, and wait for the lock only when they write that row.              *)
(***************************************************************************)
EXTENDS Common, Integers, FiniteSets, FiniteSetsExt

CONSTANTS
  Item,  \* what may be put into the collection: a kind and a core
  Title, \* titles and descriptions
  Caller, \* handlers of requests by the owner
  Top    \* the largest position that the column holds

ASSUME CollectionsAssumption == Top \in Nat

\* What stands for no row is no position, and no row.
ASSUME CollectionsNoneAssumption ==
  None \notin Nat /\ None \notin [title : Title, public : BOOLEAN]

VARIABLES
  collection, \* the row: [title, public]
  items,      \* collection_items: a position by item
  cpc,        \* where each handler is
  call        \* its locals: the item, the position it will have, the new order,
              \* the row it will write

shelf == <<collection, items>>
colvars == <<shelf, cpc, call>>

Members == {i \in Item : items[i] # None}
NoCall == [item |-> None, position |-> None, order |-> <<>>, row |-> None]

CGoto(k, next) == cpc' = [cpc EXCEPT ![k] = next]
CEnds(k) == CGoto(k, "idle") /\ call' = [call EXCEPT ![k] = NoCall]

\* Who holds the lock of the row.
RowLocked == \E k \in Caller : cpc[k] \in {"max", "insert", "members", "positions"}

CreateCollection(k) ==
  /\ cpc[k] = "idle" /\ collection = None
  /\ \E t \in Title, p \in BOOLEAN : collection' = [title |-> t, public |-> p]
  /\ UNCHANGED <<items, cpc, call>>

\* add_item: canonical_live_item, then the transaction.
AddItem(k) ==
  /\ cpc[k] = "idle"
  /\ \E i \in Item : call' = [call EXCEPT ![k].item = i]
  /\ CGoto(k, "lock")
  /\ UNCHANGED shelf

LockToAdd(k) ==
  /\ cpc[k] = "lock" /\ ~RowLocked
  /\ IF collection = None THEN CEnds(k) ELSE CGoto(k, "max") /\ UNCHANGED call
  /\ UNCHANGED shelf

\* COALESCE(MAX(position), -1) + 1.
NextPosition(k) ==
  /\ cpc[k] = "max"
  /\ call' = [call EXCEPT ![k].position = Max({items[i] : i \in Members} \cup {-1}) + 1]
  /\ CGoto(k, "insert")
  /\ UNCHANGED shelf

\* ON CONFLICT DO NOTHING, and COMMIT; a position beyond the column is an error.
InsertItem(k) ==
  /\ cpc[k] = "insert"
  /\ LET i == call[k].item IN
       items' = IF call[k].position > Top \/ i \in Members THEN items
                ELSE [items EXCEPT ![i] = call[k].position]
  /\ CEnds(k)
  /\ UNCHANGED collection

\* remove_item: one DELETE, which no lock of the collection's row keeps waiting.
RemoveItem(k) ==
  /\ cpc[k] = "idle" /\ collection # None
  /\ \E i \in Members : items' = [items EXCEPT ![i] = None]
  /\ UNCHANGED <<collection, cpc, call>>

LockToReorder(k) ==
  /\ cpc[k] = "idle" /\ collection # None /\ ~RowLocked
  /\ CGoto(k, "members")
  /\ UNCHANGED <<shelf, call>>

\* "Positions must contain every collection item exactly once", and be unique.
CheckOrder(k) ==
  /\ cpc[k] = "members"
  /\ \/ \E order \in [Members -> 0..Top] :
          /\ \A i, j \in Members : order[i] = order[j] => i = j
          /\ call' = [call EXCEPT ![k].order = order]
          /\ CGoto(k, "positions")
     \/ CEnds(k)
  /\ UNCHANGED shelf

\* Mutant: the order is written as rows, whether or not they are still there.
WriteOrderRows(k) ==
  /\ cpc[k] = "positions"
  /\ items' = [i \in Item |-> IF i \in DOMAIN call[k].order THEN call[k].order[i] ELSE items[i]]
  /\ CEnds(k)
  /\ UNCHANGED collection

\* One UPDATE for each, then COMMIT: an item that was removed meanwhile stays so.
WriteOrder(k) ==
  /\ cpc[k] = "positions"
  /\ items' = [i \in Item |-> IF i \in Members \cap DOMAIN call[k].order
                              THEN call[k].order[i] ELSE items[i]]
  /\ CEnds(k)
  /\ UNCHANGED collection

\* update: the row is read, and what the request leaves out is written back.
ReadToUpdate(k) ==
  /\ cpc[k] = "idle" /\ collection # None
  /\ \E t \in Title \cup {collection.title}, p \in BOOLEAN :
       call' = [call EXCEPT ![k].row = [title |-> t, public |-> p]]
  /\ CGoto(k, "update")
  /\ UNCHANGED shelf

UpdateCollection(k) ==
  /\ cpc[k] = "update" /\ ~RowLocked
  /\ collection' = IF collection = None THEN None ELSE call[k].row
  /\ CEnds(k)
  /\ UNCHANGED items

\* delete: the items cascade.
DeleteCollection(k) ==
  /\ cpc[k] = "idle" /\ collection # None /\ ~RowLocked
  /\ collection' = None
  /\ items' = [i \in Item |-> None]
  /\ UNCHANGED <<cpc, call>>

\* A statement fails or the request is dropped: the transaction is rolled back.
CallFails(k) == cpc[k] # "idle" /\ CEnds(k) /\ UNCHANGED shelf

-----------------------------------------------------------------------------
ColInit ==
  /\ collection = None /\ items = [i \in Item |-> None]
  /\ cpc = [k \in Caller |-> "idle"] /\ call = [k \in Caller |-> NoCall]

ColNext ==
  \E k \in Caller :
    \/ CreateCollection(k) \/ UpdateCollection(k) \/ DeleteCollection(k)
    \/ AddItem(k) \/ LockToAdd(k) \/ NextPosition(k) \/ InsertItem(k) \/ RemoveItem(k)
    \/ LockToReorder(k) \/ CheckOrder(k) \/ WriteOrder(k) \/ ReadToUpdate(k) \/ CallFails(k)

ColSpec == ColInit /\ [][ColNext]_colvars

-----------------------------------------------------------------------------
\* The rows and the locals have the values of their types; items are those of a
\* collection that exists, and one handler at most holds its lock.
ColTypeOK ==
  /\ collection \in [title : Title, public : BOOLEAN] \cup {None}
  /\ items \in [Item -> (0..Top) \cup {None}]
  /\ collection = None => Members = {}
  /\ \A k, l \in Caller :
       LET locking == {"max", "insert", "members", "positions"}
       IN cpc[k] \in locking /\ cpc[l] \in locking => k = l
  /\ \A k \in Caller : cpc[k] # "idle" \/ call[k] = NoCall

\* No two items of a collection share a position, whatever additions, removals and
\* orders of several requests overlap.
PositionsDistinct ==
  \A i, j \in Members : items[i] = items[j] => i = j

\* An item that is added comes after all there are, even those that another
\* request adds or moves at the same time.
Appended ==
  \A i \in Item : items[i] = None /\ items'[i] # None =>
    \A j \in Members : items[j] < items'[i]
AppendsLast == [][Appended]_colvars

\* To its owner a collection is a list, in which position numbers, locks and
\* statements do not show: whatever requests overlap, every step adds one item at the
\* end, removes items without moving the others, or puts the same items into an order.
Ahead == {p \in Members \X Members : items[p[1]] < items[p[2]]}
List == INSTANCE OrderedItems WITH members <- Members, before <- Ahead
KeepsList == List!Spec
=============================================================================
