------------------------------- MODULE Feeds --------------------------------
(***************************************************************************)
(* Lists that are read page by page, newest first, while items come and    *)
(* go: explore::page merges the files and the pastes of everybody,         *)
(* accounts::profile pages through the files and the pastes of one user    *)
(* side by side, comments::list through the comments of one item.  A page  *)
(* counts from the newest item there is when it is read.                   *)
(***************************************************************************)
EXTENDS Common, Integers, FiniteSets

CONSTANTS
  Items,   \* a bound on the items; the times they were created at are 1..Items
  Removals,\* a bound on the items that are removed while the pages are read
  PerPage  \* items of a page: 20, of comments 50

ASSUME FeedsAssumption == Items \in Nat /\ Removals \in Nat /\ PerPage \in Nat \ {0}

\* What stands for "not listed" is no kind, what stands for "not asked" no answer.
ASSUME FeedsNoneAssumption ==
  None \notin {"file", "paste", "comment"} /\ \A found \in SUBSET (1..Items) : found # None

VARIABLES
  feed,     \* the list that is read: "explore", "profile" or "comments"
  kindOf,   \* per time of creation: None, or the kind of the item that is listed
  page,     \* the page that is read next, or is being read
  files,    \* the first query's answer, None before it
  more,     \* has_next of the last page
  listed,   \* history: the items listed when the first page was asked for
  shown,    \* history: the items of the pages so far
  gone      \* history: how many items were removed, or hidden, since then

feedvars == <<feed, kindOf, page, files, more, listed, shown, gone>>

Listable == IF feed = "comments" THEN {"comment"} ELSE {"file", "paste"}
First == IF feed = "comments" THEN "comment" ELSE "file"

Of(kind) == {t \in 1..Items : kindOf[t] = kind}
Listed == {t \in 1..Items : kindOf[t] # None}

Rank(S, t) == Cardinality({u \in S : u > t})

\* ORDER BY created_at DESC LIMIT limit OFFSET offset, and skip and take.
Slice(S, offset, limit) == {t \in S : Rank(S, t) \in offset..(offset + limit - 1)}

Offset == (page - 1) * PerPage

\* Mutant: nothing is fetched beyond the end of the page.
ThroughPage == page * PerPage

\* explore fetches each kind through the end of the page and one more item.
Through == page * PerPage + 1

\* The query for the items of one kind.
Query(kind) ==
  IF feed = "explore" THEN Slice(Of(kind), 0, Through) ELSE Slice(Of(kind), Offset, PerPage + 1)

-----------------------------------------------------------------------------
\* An item is created, or an old one becomes public.
Publish(t, kind) ==
  /\ kindOf[t] = None
  /\ kindOf' = [kindOf EXCEPT ![t] = kind]
  /\ UNCHANGED <<feed, page, files, more, listed, shown, gone>>

\* It is deleted, expires or becomes private.
Withdraw(t) ==
  /\ kindOf[t] # None /\ gone < Removals
  /\ kindOf' = [kindOf EXCEPT ![t] = None]
  /\ gone' = gone + 1
  /\ UNCHANGED <<feed, page, files, more, listed, shown>>

\* The query for the files, or the comments.
QueryFirst ==
  /\ more /\ files = None
  /\ files' = Query(First)
  /\ listed' = IF page = 1 THEN Listed ELSE listed
  /\ gone' = IF page = 1 THEN 0 ELSE gone
  /\ UNCHANGED <<feed, kindOf, page, more, shown>>

\* Then, where there are any, for the pastes; the page is put together.
Answer ==
  /\ files # None
  /\ LET pastes == IF feed = "comments" THEN {} ELSE Query("paste")
         merged == files \cup pastes
     IN IF feed = "explore"
          THEN /\ shown' = shown \cup Slice(merged, Offset, PerPage)
               /\ more' = (Cardinality(Slice(merged, Offset, PerPage + 1)) > PerPage)
          ELSE /\ shown' = shown \cup Slice(files, 0, PerPage) \cup Slice(pastes, 0, PerPage)
               /\ more' = (Cardinality(files) > PerPage \/ Cardinality(pastes) > PerPage)
  /\ files' = None /\ page' = page + 1
  /\ UNCHANGED <<feed, kindOf, listed, gone>>

-----------------------------------------------------------------------------
FeedInit ==
  /\ feed = "explore" /\ kindOf = [t \in 1..Items |-> None]
  /\ page = 0 /\ files = None /\ more = TRUE
  /\ listed = {} /\ shown = {} /\ gone = 0

\* The reader chooses a list of some length.
Open(f, kinds) ==
  /\ feed' = f /\ kindOf' = kinds /\ page' = 1
  /\ UNCHANGED <<files, more, listed, shown, gone>>

FeedNext ==
  \/ /\ page = 0
     /\ \/ \E ks \in [1..Items -> {None, "file", "paste"}], f \in {"explore", "profile"} : Open(f, ks)
        \/ \E ks \in [1..Items -> {None, "comment"}] : Open("comments", ks)
  \/ /\ page \in 1..Items /\ more
     /\ \/ \E t \in 1..Items : Withdraw(t) \/ \E k \in Listable : Publish(t, k)
        \/ QueryFirst \/ Answer

FeedSpec == FeedInit /\ [][FeedNext]_feedvars

-----------------------------------------------------------------------------
FeedTypeOK ==
  /\ feed \in {"explore", "profile", "comments"}
  /\ kindOf \in [1..Items -> {None} \cup Listable]
  /\ page \in 0..Items + 1 /\ (files = None \/ files \subseteq 1..Items)
  /\ more \in BOOLEAN /\ gone \in 0..Removals
  /\ listed \subseteq 1..Items /\ shown \subseteq 1..Items

\* A reader who follows has_next to the end has seen every item that was listed when
\* the first page was asked for and still is, although items are published between
\* the pages and between the two queries of one page.  Only where an item is removed
\* do the others move up past the offset, and then at most one of them is missed.
FeedComplete == ~more => Cardinality((listed \cap Listed) \ shown) <= gone
=============================================================================
