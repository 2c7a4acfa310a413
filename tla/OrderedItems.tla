---------------------------- MODULE OrderedItems ----------------------------
(***************************************************************************)
(* What a collection is to its owner: a list of items.  It knows no        *)
(* positions, only which item comes before which.  An item is added at the *)
(* end, removing items leaves the others in their order, and putting them  *)
(* into another order neither adds nor loses one.                          *)
(***************************************************************************)
CONSTANT Item

VARIABLES
  members, \* the items of the list
  before   \* the pairs of items of which the first comes before the second

listvars == <<members, before>>

\* The items of S stand in a row.
IsOrder(r, S) ==
  /\ r \subseteq S \X S
  /\ \A i \in S : <<i, i>> \notin r
  /\ \A i, j \in S : i # j => <<i, j>> \in r \/ <<j, i>> \in r
  /\ \A i, j, k \in S : <<i, j>> \in r /\ <<j, k>> \in r => <<i, k>> \in r

Init == members = {} /\ before = {}

Add(i) ==
  /\ i \notin members
  /\ members' = members \cup {i}
  /\ before' = before \cup (members \X {i})

Remove(S) ==
  /\ members' = members \ S
  /\ before' = before \cap (members' \X members')

Reorder ==
  /\ UNCHANGED members
  /\ IsOrder(before', members)

Next == (\E i \in Item : Add(i)) \/ (\E S \in SUBSET members : Remove(S)) \/ Reorder

Spec == Init /\ [][Next]_listvars
=============================================================================
