--------------------------- MODULE ContentsProofs ----------------------------
(***************************************************************************)
(* Proofs about what users publish, for every set of cores, users,         *)
(* visitors, comments, items and requests.  In Publishing all rests on     *)
(* used_id_cores: a core has content at most once, so that what a handler  *)
(* or a comment remembers of a core can only be of the content that is     *)
(* there, or of one that is gone for good; so pastes, too, implement       *)
(* FileVault.  In Collections, that positions are distinct is not          *)
(* inductive: ColIInv adds what a transaction that holds the lock of the   *)
(* row has read and that it is still so when the transaction writes.  With *)
(* it a collection implements OrderedItems.  In Feeds, for lists and pages *)
(* of any length, what the remaining pages show is compared with what was  *)
(* not seen: no more items move up past an offset than are taken from the  *)
(* list.                                                                   *)
(***************************************************************************)
EXTENDS Publishing, Collections, Feeds, FiniteSetTheorems, WellFoundedInduction, TLAPS

-----------------------------------------------------------------------------
(***************************************************************************)
(* Publishing: the inductive invariant.                                    *)
(***************************************************************************)
PC == {"idle", "insert", "burn", "body", "toggle", "delete", "comment", "uncomment"}
Local == [user : Author \cup {None}, kind : Kinds, core : Core,
          row : Row \cup {None}, note : Note \cup {None}]
Remark == [on : Core, kind : Kinds, by : Author, gen : 1 .. Twice]

Shapes ==
  /\ content \in [Core -> Row \cup {None}]
  /\ handed \in [Core -> 0 .. 1]
  /\ comments \in [Note -> Remark \cup {None}]
  /\ keys \in [Visitor -> SUBSET Core]
  /\ reads \in [Core -> 0 .. 1]
  /\ vpc \in [Visitor -> PC]
  /\ req \in [Visitor -> Local \cup {None}]
  /\ \A v \in Visitor : vpc[v] # "idle" => req[v] \in Local
  /\ doomed \subseteq Core

\* v has claimed c and not inserted its content yet.
Bears(v, c) == vpc[v] = "insert" /\ req[v].core = c

\* c was handed out and no content can come under it any more.
Settled(c) == handed[c] = 1 /\ \A v \in Visitor : ~Bears(v, c)

ContentOnce ==
  /\ \A c \in Core : content[c] # None => Settled(c) /\ content[c].gen = 1
  /\ \A v \in Visitor, c \in Core : Bears(v, c) =>
       handed[c] = 1 /\ \A w \in Visitor : Bears(w, c) => w = v

ReadOnce == \A c \in Core : reads[c] = 1 => Settled(c) /\ content[c] = None

\* The content of c, while there is any, is of this kind.
StaysKind(c, kind) == Settled(c) /\ (content[c] # None => content[c].kind = kind)

SubjectsStay ==
  /\ \A n \in Note : comments[n] # None =>
       comments[n].gen = 1 /\ StaysKind(comments[n].on, comments[n].kind)
  /\ \A v \in Visitor : vpc[v] = "comment" =>
       /\ req[v].row.gen = 1 /\ req[v].user # None
       /\ StaysKind(req[v].core, req[v].kind)

PasswordsKnown ==
  /\ \A v \in Visitor, c \in Core : c \in keys[v] => <<v, c, 1>> \in proved
  /\ \A v \in Visitor : vpc[v] \in {"burn", "body"} =>
       /\ req[v].row.gen = 1
       /\ req[v].row.locked => <<v, req[v].core, 1>> \in proved

PubIInv == Shapes /\ ContentOnce /\ ReadOnce /\ SubjectsStay /\ PasswordsKnown

\* Content only goes, or keeps what others remember of it.
Wanes ==
  /\ content' \in [Core -> Row \cup {None}]
  /\ \A c \in Core : content'[c] # None =>
       /\ content[c] # None
       /\ content'[c].kind = content[c].kind /\ content'[c].gen = content[c].gen

-----------------------------------------------------------------------------
(***************************************************************************)
(* The invariant holds at first, and every step keeps it.                  *)
(***************************************************************************)
LEMMA PubInitial == PubInit => PubIInv
BY DEF PubInit, PubIInv, Shapes, PC, ContentOnce, ReadOnce, SubjectsStay, PasswordsKnown,
       Bears, Settled, StaysKind

\* The content of a core goes: the sweeper, an expiry.
LEMMA WaneStep ==
  ASSUME PubIInv, Wanes, doomed' \subseteq Core,
         UNCHANGED <<handed, comments, keys, proved, reads, requests>>
  PROVE  PubIInv'
<1>1. Shapes' /\ ContentOnce'
  BY DEF Wanes, PubIInv, Shapes, ContentOnce, Bears, Settled, requests
<1>2. \A c \in Core : Settled(c)' <=> Settled(c)
  BY DEF Bears, Settled, requests
<1>3. ReadOnce' /\ SubjectsStay' /\ PasswordsKnown'
  BY <1>2 DEF Wanes, PubIInv, Shapes, Remark, Local, ReadOnce, SubjectsStay, StaysKind,
              PasswordsKnown, requests
<1>4. QED BY <1>1, <1>3 DEF PubIInv

\* A request is answered, after it removed or changed something or nothing.
LEMMA EndStep ==
  ASSUME PubIInv, NEW v \in Visitor, VEnds(v), Wanes,
         comments' \in [Note -> Remark \cup {None}],
         \A n \in Note : comments'[n] \in {comments[n], None},
         UNCHANGED <<handed, keys, proved, reads, doomed>>
  PROVE  PubIInv'
<1>1. /\ vpc' = [vpc EXCEPT ![v] = "idle"] /\ req' = [req EXCEPT ![v] = None]
  BY DEF VEnds, VGoto
<1>2. Shapes' /\ ContentOnce'
  BY <1>1 DEF Wanes, PubIInv, Shapes, PC, ContentOnce, Bears, Settled
<1>3. \A c \in Core : Settled(c) => Settled(c)'
  BY <1>1 DEF PubIInv, Shapes, Bears, Settled
<1>4. ReadOnce' /\ SubjectsStay' /\ PasswordsKnown'
  BY <1>1, <1>3 DEF Wanes, PubIInv, Shapes, Remark, Local, ReadOnce, SubjectsStay, StaysKind,
                    PasswordsKnown
<1>5. QED BY <1>2, <1>4 DEF PubIInv

\* A request reads a row and will act on it.  What it needs for that is a premise:
\* to comment, a user and live content; to send a body, the password.
LEMMA AskStep ==
  ASSUME PubIInv, NEW v \in Visitor, NEW kind \in Kinds, NEW c \in Core,
         NEW n \in Note \cup {None}, NEW next \in PC \ {"idle", "insert"},
         AsksOf(v, kind, c, n, next),
         next = "comment" => Content(kind, c) /\ req'[v].user # None,
         next \in {"burn", "body"} =>
           content[c] # None /\ (content[c].locked => <<v, c, 1>> \in proved'),
         proved \subseteq proved',
         UNCHANGED <<content, handed, comments, keys, reads, doomed>>
  PROVE  PubIInv'
<1>1. PICK u \in Author \cup {None} :
        req' = [req EXCEPT ![v] =
          [user |-> u, kind |-> kind, core |-> c, row |-> content[c], note |-> n]]
  BY DEF AsksOf
<1> DEFINE local == [user |-> u, kind |-> kind, core |-> c, row |-> content[c], note |-> n]
<1>2. local \in Local
  BY DEF PubIInv, Shapes, Local
<1>3. vpc' = [vpc EXCEPT ![v] = next] /\ vpc[v] = "idle" /\ req' = [req EXCEPT ![v] = local]
  BY <1>1 DEF AsksOf, VGoto
<1>4. local.core = c /\ local.kind = kind /\ local.row = content[c]
  OBVIOUS
<1> HIDE DEF local
<1>5. Shapes'
  BY <1>2, <1>3 DEF PubIInv, Shapes
<1>6. \A w \in Visitor, d \in Core : Bears(w, d)' <=> Bears(w, d)
  BY <1>3 DEF PubIInv, Shapes, Bears
<1>7. \A d \in Core : Settled(d)' <=> Settled(d)
  BY <1>6 DEF Settled
<1>8. ContentOnce' /\ ReadOnce'
  BY <1>6, <1>7 DEF PubIInv, Shapes, ContentOnce, ReadOnce
<1>9. SubjectsStay'
  <2>1. \A w \in Visitor : w # v => vpc'[w] = vpc[w] /\ req'[w] = req[w]
    BY <1>3 DEF PubIInv, Shapes
  <2>2. vpc'[v] = next /\ req'[v] = local
    BY <1>3 DEF PubIInv, Shapes
  <2>3. content[c] # None => content[c].gen = 1 /\ Settled(c)
    BY DEF PubIInv, ContentOnce
  <2>4. next = "comment" =>
          content[c] # None /\ content[c].kind = kind /\ req'[v].user # None
    BY DEF Content
  <2>5. \A m \in Note : comments[m] # None => comments[m].on \in Core
    BY DEF PubIInv, Shapes, Remark
  <2>6. \A w \in Visitor : vpc[w] # "idle" => req[w].core \in Core
    BY DEF PubIInv, Shapes, Local
  <2>7. QED
    BY <1>4, <1>7, <2>1, <2>2, <2>3, <2>4, <2>5, <2>6 DEF PubIInv, SubjectsStay, StaysKind
<1>10. PasswordsKnown'
  BY <1>3, <1>4 DEF PubIInv, Shapes, ContentOnce, PasswordsKnown
<1>11. QED BY <1>5, <1>8, <1>9, <1>10 DEF PubIInv

\* A core is claimed at most once, so that only one request bears it.
LEMMA ClaimStep ==
  ASSUME PubIInv, NEW v \in Visitor, ClaimCore(v)
  PROVE  PubIInv'
<1>1. PICK kind \in Kinds, c \in Core, u \in Author \cup {None} :
        /\ handed[c] = 0 /\ handed' = [handed EXCEPT ![c] = @ + 1]
        /\ vpc[v] = "idle" /\ vpc' = [vpc EXCEPT ![v] = "insert"]
        /\ req' = [req EXCEPT ![v] =
             [user |-> u, kind |-> kind, core |-> c, row |-> content[c], note |-> None]]
        /\ UNCHANGED <<content, comments, keys, proved, reads, doomed>>
  BY DEF ClaimCore, Asks, AsksOf, VGoto
<1> DEFINE local == [user |-> u, kind |-> kind, core |-> c, row |-> content[c], note |-> None]
<1>2. local \in Local /\ local.core = c
  BY DEF PubIInv, Shapes, Local
<1>3. /\ vpc'[v] = "insert" /\ req'[v] = local
      /\ \A w \in Visitor : w # v => vpc'[w] = vpc[w] /\ req'[w] = req[w]
  BY <1>1 DEF PubIInv, Shapes
<1>4. handed'[c] = 1 /\ \A d \in Core : d # c => handed'[d] = handed[d]
  BY <1>1 DEF PubIInv, Shapes
<1>5. vpc' \in [Visitor -> PC] /\ req' \in [Visitor -> Local \cup {None}]
      /\ handed' \in [Core -> 0 .. 1]
  BY <1>1, <1>2 DEF PubIInv, Shapes, PC
<1> HIDE DEF local
<1>6. Shapes'
  BY <1>1, <1>2, <1>3, <1>5 DEF PubIInv, Shapes
<1>7. \A w \in Visitor, d \in Core : Bears(w, d)' <=> Bears(w, d) \/ (w = v /\ d = c)
  BY <1>1, <1>2, <1>3 DEF Bears
<1>8. \A d \in Core : Settled(d) => Settled(d)' /\ d # c
  BY <1>1, <1>4, <1>7 DEF Settled
<1>9. \A w \in Visitor : ~Bears(w, c)
  BY <1>1 DEF PubIInv, ContentOnce
<1>10. ContentOnce' /\ ReadOnce'
  BY <1>1, <1>4, <1>7, <1>8, <1>9 DEF PubIInv, ContentOnce, ReadOnce
<1>11. SubjectsStay'
  <2>1. \A m \in Note : comments[m] # None => comments[m].on \in Core
    BY DEF PubIInv, Shapes, Remark
  <2>2. \A w \in Visitor : vpc[w] # "idle" => req[w].core \in Core
    BY DEF PubIInv, Shapes, Local
  <2>3. QED
    BY <1>1, <1>3, <1>8, <2>1, <2>2 DEF PubIInv, SubjectsStay, StaysKind
<1>12. PasswordsKnown'
  BY <1>1, <1>3 DEF PubIInv, PasswordsKnown
<1>13. QED BY <1>6, <1>10, <1>11, <1>12 DEF PubIInv

\* The one request that bears a core inserts its content.
LEMMA InsertStep ==
  ASSUME PubIInv, NEW v \in Visitor, InsertContent(v)
  PROVE  PubIInv'
<1> DEFINE c == req[v].core
<1>1. PICK public, burn, locked \in BOOLEAN :
        content' = [content EXCEPT ![c] =
          [kind |-> req[v].kind, owner |-> req[v].user, public |-> public,
           burn |-> burn /\ req[v].kind = "paste", locked |-> locked,
           expired |-> FALSE, gen |-> handed[c]]]
  BY DEF InsertContent
<1>2. /\ vpc[v] = "insert" /\ vpc' = [vpc EXCEPT ![v] = "idle"]
      /\ req' = [req EXCEPT ![v] = None]
      /\ UNCHANGED <<handed, comments, keys, proved, reads, doomed>>
  BY DEF InsertContent, VEnds, VGoto
<1>3. c \in Core /\ req[v].kind \in Kinds /\ req[v].user \in Author \cup {None}
  BY <1>2 DEF PubIInv, Shapes, Local
<1>4. Bears(v, c)
  BY <1>2 DEF Bears
<1>5. handed[c] = 1 /\ \A w \in Visitor : Bears(w, c) => w = v
  BY <1>3, <1>4 DEF PubIInv, ContentOnce
<1>6. content' \in [Core -> Row \cup {None}] /\ content'[c].gen = 1
      /\ \A d \in Core : d # c => content'[d] = content[d]
  BY <1>1, <1>3, <1>5 DEF PubIInv, Shapes, Row, Twice
<1> HIDE DEF c
<1>7. Shapes'
  BY <1>2, <1>6 DEF PubIInv, Shapes, PC
<1>8. \A w \in Visitor, d \in Core : Bears(w, d)' <=> Bears(w, d) /\ w # v
  BY <1>2 DEF PubIInv, Shapes, Bears
<1>9. \A d \in Core : Settled(d)' <=> Settled(d) \/ d = c
  BY <1>2, <1>3, <1>4, <1>5, <1>8 DEF Settled, Bears, c
<1>10. ~Settled(c)
  BY <1>4 DEF Settled
<1>11. ContentOnce' /\ ReadOnce'
  BY <1>2, <1>6, <1>8, <1>9, <1>10 DEF PubIInv, ContentOnce, ReadOnce
<1>12. SubjectsStay'
  <2>1. \A m \in Note : comments[m] # None => comments[m].on \in Core
    BY DEF PubIInv, Shapes, Remark
  <2>2. \A w \in Visitor : vpc[w] # "idle" => req[w].core \in Core
    BY DEF PubIInv, Shapes, Local
  <2>3. \A w \in Visitor : vpc'[w] = "comment" => vpc[w] = "comment" /\ req'[w] = req[w]
    BY <1>2 DEF PubIInv, Shapes
  <2>4. QED
    BY <1>2, <1>6, <1>9, <1>10, <2>1, <2>2, <2>3 DEF PubIInv, SubjectsStay, StaysKind
<1>13. PasswordsKnown'
  BY <1>2 DEF PubIInv, Shapes, PasswordsKnown
<1>14. QED BY <1>7, <1>11, <1>12, <1>13 DEF PubIInv

\* Of all who read the row of a paste, the one whose DELETE finds it sends the body.
LEMMA BurnStep ==
  ASSUME PubIInv, NEW v \in Visitor, Burn(v)
  PROVE  PubIInv'
<1> DEFINE c == req[v].core
<1>1. c \in Core /\ vpc[v] = "burn"
  BY DEF Burn, PubIInv, Shapes, Local
<1>2. CASE ~Content("paste", c)
  BY <1>2, EndStep DEF Burn, Wanes, PubIInv, Shapes
<1>3. CASE Content("paste", c)
  <2>1. /\ content' = [content EXCEPT ![c] = None]
        /\ reads' = [reads EXCEPT ![c] = IF @ < Twice THEN @ + 1 ELSE @]
        /\ vpc' = [vpc EXCEPT ![v] = "body"]
        /\ UNCHANGED <<req, handed, comments, keys, proved, doomed>>
    BY <1>3 DEF Burn, VGoto
  <2>2. content[c] # None /\ Settled(c) /\ reads[c] = 0
    BY <1>1, <1>3 DEF Content, PubIInv, Shapes, ContentOnce, ReadOnce
  <2> HIDE DEF c
  <2>3. reads' = [reads EXCEPT ![c] = 1]
    BY <1>1, <2>1, <2>2 DEF PubIInv, Shapes, Twice
  <2>4. Shapes'
    BY <1>1, <2>1, <2>3 DEF PubIInv, Shapes, PC
  <2>5. \A w \in Visitor, d \in Core : Bears(w, d)' <=> Bears(w, d)
    BY <1>1, <2>1 DEF PubIInv, Shapes, Bears
  <2>6. \A d \in Core : Settled(d)' <=> Settled(d)
    BY <2>1, <2>5 DEF Settled
  <2>7. ContentOnce' /\ ReadOnce'
    BY <1>1, <2>1, <2>2, <2>3, <2>5, <2>6 DEF PubIInv, Shapes, ContentOnce, ReadOnce
  <2>8. SubjectsStay'
    BY <1>1, <2>1, <2>6 DEF PubIInv, Shapes, Remark, Local, SubjectsStay, StaysKind
  <2>9. PasswordsKnown'
    BY <1>1, <2>1 DEF PubIInv, Shapes, PasswordsKnown, c
  <2>10. QED BY <2>4, <2>7, <2>8, <2>9 DEF PubIInv
<1>4. QED BY <1>2, <1>3

\* A comment is of the kind and the generation of what was read, gone or not.
LEMMA CommentStep ==
  ASSUME PubIInv, NEW v \in Visitor, InsertComment(v)
  PROVE  PubIInv'
<1>1. PICK n \in Note :
        comments' = [comments EXCEPT ![n] =
          [on |-> req[v].core, kind |-> req[v].kind, by |-> req[v].user,
           gen |-> req[v].row.gen]]
  BY DEF InsertComment
<1>2. /\ vpc[v] = "comment" /\ vpc' = [vpc EXCEPT ![v] = "idle"]
      /\ req' = [req EXCEPT ![v] = None]
      /\ UNCHANGED <<content, handed, keys, proved, reads, doomed>>
  BY DEF InsertComment, VEnds, VGoto
<1>3. /\ req[v].core \in Core /\ req[v].kind \in Kinds /\ req[v].user \in Author
      /\ req[v].row.gen = 1 /\ StaysKind(req[v].core, req[v].kind)
  BY <1>2 DEF PubIInv, Shapes, Local, SubjectsStay
<1>4. Shapes'
  BY <1>1, <1>2, <1>3 DEF PubIInv, Shapes, PC, Remark, Twice
<1>5. \A w \in Visitor, d \in Core : Bears(w, d)' <=> Bears(w, d)
  BY <1>2 DEF PubIInv, Shapes, Bears
<1>6. \A d \in Core : Settled(d)' <=> Settled(d)
  BY <1>2, <1>5 DEF Settled
<1>7. ContentOnce' /\ ReadOnce'
  BY <1>2, <1>5, <1>6 DEF PubIInv, ContentOnce, ReadOnce
<1>8. SubjectsStay'
  <2>1. \A m \in Note : comments'[m] # None =>
          comments'[m].on \in Core /\ comments'[m].gen = 1
          /\ StaysKind(comments'[m].on, comments'[m].kind)
    BY <1>1, <1>3 DEF PubIInv, Shapes, Remark, SubjectsStay
  <2>2. \A w \in Visitor : vpc'[w] = "comment" =>
          vpc[w] = "comment" /\ req'[w] = req[w] /\ req[w].core \in Core
    BY <1>2 DEF PubIInv, Shapes, Local
  <2>3. QED
    BY <1>2, <1>6, <2>1, <2>2 DEF PubIInv, SubjectsStay, StaysKind
<1>9. PasswordsKnown'
  BY <1>2 DEF PubIInv, Shapes, PasswordsKnown
<1>10. QED BY <1>4, <1>7, <1>8, <1>9 DEF PubIInv

\* The session remembers a core only together with its password.
LEMMA UnlockStep ==
  ASSUME PubIInv, NEW v \in Visitor, Unlock(v)
  PROVE  PubIInv'
<1>1. PICK c \in Core :
        /\ content[c] # None
        /\ keys' = [keys EXCEPT ![v] = @ \cup {c}]
        /\ proved' = proved \cup {<<v, c, content[c].gen>>}
        /\ UNCHANGED <<content, handed, comments, reads, requests, doomed>>
  BY DEF Unlock, Live, Content
<1>2. proved' = proved \cup {<<v, c, 1>>}
  BY <1>1 DEF PubIInv, ContentOnce
<1>3. Shapes' /\ ContentOnce' /\ ReadOnce'
  BY <1>1 DEF PubIInv, Shapes, ContentOnce, ReadOnce, Bears, Settled, requests
<1>4. SubjectsStay'
  BY <1>1 DEF PubIInv, SubjectsStay, StaysKind, Bears, Settled, requests
<1>5. PasswordsKnown'
  BY <1>1, <1>2 DEF PubIInv, Shapes, PasswordsKnown, requests
<1>6. QED BY <1>3, <1>4, <1>5 DEF PubIInv

\* A paste with a password is read with the password or after it was given.
LEMMA RawStep ==
  ASSUME PubIInv, NEW v \in Visitor, RawPaste(v)
  PROVE  PubIInv'
<1>1. PICK c \in Core :
        /\ content[c] # None
        /\ \/ ~content[c].locked /\ UNCHANGED proved
           \/ content[c].locked /\ c \in keys[v] /\ UNCHANGED proved
           \/ content[c].locked /\ proved' = proved \cup {<<v, c, content[c].gen>>}
        /\ AsksOf(v, "paste", c, None, IF content[c].burn THEN "burn" ELSE "body")
        /\ UNCHANGED <<content, handed, comments, keys, reads, doomed>>
  BY DEF RawPaste, Live, Content, Asks
<1>2. proved \subseteq proved' /\ (content[c].locked => <<v, c, 1>> \in proved')
  BY <1>1 DEF PubIInv, ContentOnce, PasswordsKnown
<1>3. (IF content[c].burn THEN "burn" ELSE "body") \in {"burn", "body"}
  OBVIOUS
<1>4. QED
  BY <1>1, <1>2, <1>3, AskStep DEF PC, Kinds

\* Every statement of every handler keeps the invariant.
LEMMA PubStep == PubIInv /\ [PubNext]_pubvars => PubIInv'
<1> SUFFICES ASSUME PubIInv, [PubNext]_pubvars PROVE PubIInv'
  OBVIOUS
<1>1. CASE UNCHANGED pubvars
  BY <1>1, WaneStep DEF pubvars, posted, Wanes, PubIInv, Shapes
<1>2. ASSUME NEW v \in Visitor,
             ClaimCore(v) \/ InsertContent(v) \/ Unlock(v) \/ RawPaste(v) \/ Burn(v)
             \/ InsertComment(v)
      PROVE  PubIInv'
  BY <1>2, ClaimStep, InsertStep, UnlockStep, RawStep, BurnStep, CommentStep
<1>3. ASSUME NEW v \in Visitor, FindToToggle(v) \/ FindToDelete(v) PROVE PubIInv'
  BY <1>3, AskStep DEF FindToToggle, FindToDelete, Asks, posted, PC
<1>4. ASSUME NEW v \in Visitor, ResolveTarget(v) PROVE PubIInv'
  BY <1>4, AskStep DEF ResolveTarget, Asks, Live, posted, PC
<1>5. ASSUME NEW v \in Visitor, FindComment(v) PROVE PubIInv'
  <2>1. PICK n \in Note :
          /\ comments[n] # None
          /\ AsksOf(v, comments[n].kind, comments[n].on, n, "uncomment")
    BY <1>5 DEF FindComment
  <2>2. comments[n].kind \in Kinds /\ comments[n].on \in Core
    BY <2>1 DEF PubIInv, Shapes, Remark
  <2>3. QED
    BY <1>5, <2>1, <2>2, AskStep DEF FindComment, posted, PC
<1>6. ASSUME NEW v \in Visitor, SetVisibility(v) PROVE PubIInv'
  <2>1. req[v].core \in Core
    BY <1>6 DEF SetVisibility, PubIInv, Shapes, Local
  <2>2. Wanes
    BY <1>6, <2>1 DEF SetVisibility, Wanes, PubIInv, Shapes, Row, Content
  <2>3. QED
    BY <1>6, <2>2, EndStep DEF SetVisibility, PubIInv, Shapes
<1>7. ASSUME NEW v \in Visitor, DeleteContent(v) PROVE PubIInv'
  BY <1>7, EndStep DEF DeleteContent, Wanes, PubIInv, Shapes
<1>8. ASSUME NEW v \in Visitor, DeleteComment(v) PROVE PubIInv'
  BY <1>8, EndStep DEF DeleteComment, Wanes, PubIInv, Shapes
<1>9. ASSUME NEW v \in Visitor, SendBody(v) \/ VisitFails(v) PROVE PubIInv'
  BY <1>9, EndStep DEF SendBody, VisitFails, posted, Wanes, PubIInv, Shapes
<1>10. ASSUME NEW c \in Core, ExpireContent(c) PROVE PubIInv'
  <2>1. content[c] \in Row /\ content' = [content EXCEPT ![c].expired = TRUE]
    BY <1>10 DEF ExpireContent, PubIInv, Shapes
  <2>2. Wanes
    <3>1. content' \in [Core -> Row \cup {None}]
      <4>1. [content[c] EXCEPT !.expired = TRUE] \in Row
        BY <2>1 DEF Row
      <4>2. QED BY <2>1, <4>1 DEF PubIInv, Shapes
    <3>2. ASSUME NEW d \in Core, content'[d] # None
          PROVE  /\ content[d] # None
                 /\ content'[d].kind = content[d].kind /\ content'[d].gen = content[d].gen
      <4>1. CASE d = c
        <5>1. content'[d] = [content[d] EXCEPT !.expired = TRUE]
          BY <2>1, <4>1 DEF PubIInv, Shapes
        <5>2. QED BY <1>10, <2>1, <4>1, <5>1 DEF ExpireContent, Row
      <4>2. CASE d # c
        BY <2>1, <3>2, <4>2 DEF PubIInv, Shapes
      <4>3. QED BY <4>1, <4>2
    <3>3. QED BY <3>1, <3>2 DEF Wanes
  <2>3. QED
    BY <1>10, <2>2, WaneStep DEF ExpireContent, PubIInv, Shapes
<1>11. ASSUME NEW c \in Core, SweepPaste(c) \/ SweepPasteFails(c) PROVE PubIInv'
  BY <1>11, WaneStep DEF SweepPaste, SweepPasteFails, posted, Wanes, PubIInv, Shapes
<1>12. CASE ScanPastes
  BY <1>12, WaneStep DEF ScanPastes, Pastes, posted, Wanes, PubIInv, Shapes
<1>13. QED
  BY <1>1, <1>2, <1>3, <1>4, <1>5, <1>6, <1>7, <1>8, <1>9, <1>10, <1>11, <1>12 DEF PubNext

-----------------------------------------------------------------------------
\* A core has content once, and what is remembered of it is of that content.
THEOREM PubInductive == PubSpec => []PubIInv
BY PubInitial, PubStep, PTL DEF PubSpec

\* The body of a burn-after-read paste goes out at most once (raw_paste).
THEOREM BurnsOnce == PubSpec => []BurnOnce
<1>1. PubIInv => BurnOnce
  BY DEF PubIInv, BurnOnce, Shapes, ReadOnce, Content
<1>2. QED BY <1>1, PubInductive, PTL

\* No comment turns up under other content than it was written about.
THEOREM CommentsStay == PubSpec => []CommentsKeepTheirSubject
<1>1. PubIInv => CommentsKeepTheirSubject
  BY DEF PubIInv, CommentsKeepTheirSubject, Shapes, Remark, ContentOnce, SubjectsStay, StaysKind
<1>2. QED BY <1>1, PubInductive, PTL

\* Nobody is sent a paste with a password that they have not given for it.
THEOREM PasswordsAsked == PubSpec => []LockedForStrangers
<1>1. PubIInv => LockedForStrangers
  BY DEF PubIInv, LockedForStrangers, PasswordsKnown
<1>2. QED BY <1>1, PubInductive, PTL

-----------------------------------------------------------------------------
(***************************************************************************)
(* Publishing implements FileVault.                                        *)
(***************************************************************************)
\* v is about to be sent the body of a burn-after-read paste.
Sends(v) == vpc[v] = "body" /\ req[v].row.burn

\* Only the burn that found the row leads to a delivery, and to one.
SentOnce ==
  /\ served \subseteq Visitor \X Core
  /\ \A s \in Visitor, c \in Core : <<s, c>> \in served => reads[c] = 1
  /\ \A v \in Visitor : Sends(v) =>
       /\ reads[req[v].core] = 1
       /\ \A s \in Visitor : <<s, req[v].core>> \notin served
       /\ \A w \in Visitor : Sends(w) /\ req[w].core = req[v].core => w = v

\* What is kept while nobody comes to be sent a body.
LEMMA SentKept ==
  ASSUME SentOnce, UNCHANGED <<reads, served>>,
         \A w \in Visitor : Sends(w)' => Sends(w) /\ req'[w] = req[w]
  PROVE  SentOnce'
BY DEF SentOnce

\* A request comes to be sent a body by its burn only.
LEMMA NoMoreSend ==
  ASSUME PubIInv, SentOnce, UNCHANGED <<reads, served>>, NEW v \in Visitor, NEW pc, NEW local,
         vpc' = [vpc EXCEPT ![v] = pc], req' = [req EXCEPT ![v] = local],
         pc = "body" => ~local.row.burn
  PROVE  SentOnce'
<1>1. \A w \in Visitor : Sends(w)' => Sends(w) /\ req'[w] = req[w]
  BY DEF PubIInv, Shapes, Sends
<1>2. QED BY <1>1, SentKept

\* The winner's body goes out, and nobody else's.
LEMMA SentStep == PubIInv /\ SentOnce /\ [PubNext]_pubvars => SentOnce'
<1> SUFFICES ASSUME PubIInv, SentOnce, [PubNext]_pubvars PROVE SentOnce'
  OBVIOUS
<1>1. ASSUME UNCHANGED <<vpc, req, reads, served>> PROVE SentOnce'
  BY <1>1, SentKept DEF Sends
<1>2. ASSUME NEW v \in Visitor, VEnds(v), UNCHANGED <<reads, served>> PROVE SentOnce'
  BY <1>2, NoMoreSend DEF VEnds, VGoto
<1>3. ASSUME NEW v \in Visitor, NEW kind, NEW c, NEW n, NEW next,
             AsksOf(v, kind, c, n, next), next = "body" => ~content[c].burn,
             UNCHANGED <<reads, served>>
      PROVE  SentOnce'
  <2>1. PICK u \in Author \cup {None} :
          req' = [req EXCEPT ![v] =
            [user |-> u, kind |-> kind, core |-> c, row |-> content[c], note |-> n]]
    BY <1>3 DEF AsksOf
  <2> DEFINE local == [user |-> u, kind |-> kind, core |-> c, row |-> content[c], note |-> n]
  <2>2. local.row = content[c] /\ req' = [req EXCEPT ![v] = local]
    BY <2>1
  <2> HIDE DEF local
  <2>3. vpc' = [vpc EXCEPT ![v] = next] /\ (next = "body" => ~local.row.burn)
    BY <1>3, <2>2 DEF AsksOf, VGoto
  <2>4. QED BY <1>3, <2>2, <2>3, NoMoreSend
<1>4. ASSUME NEW v \in Visitor,
             \/ ClaimCore(v) \/ FindToToggle(v) \/ FindToDelete(v) \/ ResolveTarget(v)
             \/ FindComment(v) \/ RawPaste(v)
      PROVE  SentOnce'
  <2>1. CASE ClaimCore(v) \/ FindToToggle(v) \/ FindToDelete(v) \/ ResolveTarget(v)
    BY <1>3, <2>1 DEF ClaimCore, FindToToggle, FindToDelete, ResolveTarget, Asks, posted
  <2>2. CASE FindComment(v)
    BY <1>3, <2>2 DEF FindComment, posted
  <2>3. CASE RawPaste(v)
    <3>1. PICK c \in Core :
            /\ AsksOf(v, "paste", c, None, IF content[c].burn THEN "burn" ELSE "body")
            /\ UNCHANGED <<reads, served>>
      BY <2>3 DEF RawPaste, Asks
    <3>2. QED BY <1>3, <3>1
  <2>4. QED BY <1>4, <2>1, <2>2, <2>3
<1>5. ASSUME NEW v \in Visitor,
             \/ InsertContent(v) \/ SetVisibility(v) \/ DeleteContent(v) \/ InsertComment(v)
             \/ DeleteComment(v) \/ VisitFails(v)
      PROVE  SentOnce'
  BY <1>2, <1>5 DEF InsertContent, SetVisibility, DeleteContent, InsertComment, DeleteComment,
     VisitFails, posted
<1>6. ASSUME NEW v \in Visitor, Burn(v) PROVE SentOnce'
  <2> DEFINE c == req[v].core
  <2>1. c \in Core /\ vpc[v] = "burn"
    BY <1>6 DEF Burn, PubIInv, Shapes, Local
  <2>2. CASE ~Content("paste", c)
    BY <1>2, <1>6, <2>2 DEF Burn
  <2>3. CASE Content("paste", c)
    <3>1. reads[c] = 0
      BY <2>1, <2>3 DEF Content, PubIInv, Shapes, ReadOnce
    <3>2. reads' = [reads EXCEPT ![c] = 1] /\ vpc' = [vpc EXCEPT ![v] = "body"]
          /\ UNCHANGED <<req, served>>
      BY <1>6, <2>1, <2>3, <3>1 DEF Burn, VGoto, Twice, PubIInv, Shapes
    <3> HIDE DEF c
    <3>3. \A w \in Visitor : Sends(w)' => w = v \/ Sends(w)
      BY <3>2 DEF PubIInv, Shapes, Sends
    <3>4. \A d \in Core : reads[d] = 1 => d # c /\ reads'[d] = 1
      BY <3>1, <3>2 DEF PubIInv, Shapes
    <3>5. reads'[c] = 1
      BY <2>1, <3>2 DEF PubIInv, Shapes
    <3>6. \A w \in Visitor : Sends(w) => req[w].core # c /\ req[w].core \in Core
      BY <3>4 DEF SentOnce, Sends, PubIInv, Shapes, Local
    <3>7. \A s \in Visitor : <<s, c>> \notin served
      BY <2>1, <3>1 DEF SentOnce
    <3>8. QED
      BY <3>2, <3>3, <3>4, <3>5, <3>6, <3>7 DEF SentOnce, c
  <2>4. QED BY <2>2, <2>3
<1>7. ASSUME NEW v \in Visitor, SendBody(v) PROVE SentOnce'
  <2> DEFINE c == req[v].core
  <2>1. CASE ~req[v].row.burn
    BY <1>2, <1>7, <2>1 DEF SendBody
  <2>2. CASE req[v].row.burn
    <3>1. Sends(v) /\ c \in Core
      BY <1>7, <2>2 DEF SendBody, Sends, PubIInv, Shapes, Local
    <3>2. served' = served \cup {<<v, c>>} /\ UNCHANGED reads
          /\ vpc' = [vpc EXCEPT ![v] = "idle"] /\ req' = [req EXCEPT ![v] = None]
      BY <1>7, <2>2 DEF SendBody, VEnds, VGoto
    <3>3. \A w \in Visitor : Sends(w)' => w # v /\ Sends(w) /\ req'[w] = req[w]
      BY <3>2 DEF PubIInv, Shapes, Sends
    <3>4. \A w \in Visitor : Sends(w) /\ w # v => req[w].core # c
      BY <3>1 DEF SentOnce
    <3>5. reads[c] = 1
      BY <3>1 DEF SentOnce
    <3> HIDE DEF c
    <3>6. QED
      BY <3>1, <3>2, <3>3, <3>4, <3>5 DEF SentOnce
  <2>3. QED BY <2>1, <2>2
<1>8. ASSUME NEW v \in Visitor, Unlock(v) PROVE SentOnce'
  BY <1>1, <1>8 DEF Unlock, requests
<1>9. ASSUME NEW c \in Core, ExpireContent(c) \/ SweepPaste(c) \/ SweepPasteFails(c)
      PROVE  SentOnce'
  BY <1>1, <1>9 DEF ExpireContent, SweepPaste, SweepPasteFails, posted, requests
<1>10. CASE ScanPastes \/ UNCHANGED pubvars
  BY <1>1, <1>10 DEF ScanPastes, pubvars, posted, requests
<1>11. QED
  BY <1>4, <1>5, <1>6, <1>7, <1>8, <1>9, <1>10 DEF PubNext

\* Nobody is sent what another one was sent.
LEMMA SentInductive == PubSpec => []SentOnce
<1>1. PubInit => SentOnce
  BY DEF PubInit, SentOnce, Sends
<1>2. QED BY <1>1, SentStep, PubInductive, PTL DEF PubSpec

\* The tables and the locals keep their types.
THEOREM PubTypeCorrect == PubSpec => []PubTypeOK
<1>1. PubIInv /\ SentOnce => PubTypeOK
  BY DEF PubIInv, SentOnce, PubTypeOK, Shapes, Local, Remark, PC
<1>2. QED BY <1>1, PubInductive, SentInductive, PTL

\* Who bears which core is as before.
LEMMA BearsKept ==
  ASSUME PubIInv, NEW v \in Visitor, NEW pc, NEW local,
         vpc' = [vpc EXCEPT ![v] = pc], req' = [req EXCEPT ![v] = local],
         vpc[v] # "insert", pc # "insert"
  PROVE  \A w \in Visitor, d \in Core : Bears(w, d)' <=> Bears(w, d)
BY DEF PubIInv, Shapes, Bears

\* The status of a core, said with Bears.
LEMMA StatusIs ==
  \A c \in Core :
    StatusOf(c) = IF handed[c] = 0 THEN "free"
                  ELSE IF \E v \in Visitor : Bears(v, c) THEN "reserved"
                  ELSE IF content[c] # None THEN "live" ELSE "gone"
BY DEF StatusOf, Bears

\* What keeps the rows but for their visibility does not show in the vault.
LEMMA VaultStutters ==
  ASSUME UNCHANGED <<handed, served>>,
         \A w \in Visitor, d \in Core : Bears(w, d)' <=> Bears(w, d),
         \A d \in Core : content'[d] = content[d]
                         \/ /\ content[d] # None /\ content'[d] # None
                            /\ FixedOf(content'[d]) = FixedOf(content[d])
  PROVE  UNCHANGED Vault!vars
<1>1. \A c \in Core : StatusOf(c)' = StatusOf(c)
  BY DEF StatusOf, Bears
<1>2. Statuses' = Statuses
  BY <1>1 DEF Statuses
<1>3. \A d \in Core : (IF content'[d] = None THEN None ELSE FixedOf(content'[d]))
                      = (IF content[d] = None THEN None ELSE FixedOf(content[d]))
  OBVIOUS
<1>4. Contents' = Contents
  BY <1>3 DEF Contents
<1>5. QED BY <1>2, <1>4 DEF Vault!vars

\* What deletes a row removes the content of its core.
LEMMA VaultRemoves ==
  ASSUME PubIInv, NEW c \in Core, content[c] # None, content' = [content EXCEPT ![c] = None],
         UNCHANGED <<handed, served>>,
         \A w \in Visitor, d \in Core : Bears(w, d)' <=> Bears(w, d)
  PROVE  Vault!Next
<1>1. Settled(c)
  BY DEF PubIInv, ContentOnce
<1>2. content'[c] = None /\ \A d \in Core : d # c => content'[d] = content[d]
  BY DEF PubIInv, Shapes
<1>3. StatusOf(c) = "live" /\ StatusOf(c)' = "gone"
  <2>1. handed[c] = 1 /\ ~(\E v \in Visitor : Bears(v, c)) /\ ~(\E v \in Visitor : Bears(v, c)')
    BY <1>1 DEF Settled
  <2>2. QED BY <1>2, <2>1 DEF StatusOf, Bears
<1>4. \A d \in Core : d # c => StatusOf(d)' = StatusOf(d)
  BY <1>2 DEF StatusOf, Bears
<1>5. Statuses' = [Statuses EXCEPT ![c] = "gone"] /\ Statuses[c] = "live"
  BY <1>3, <1>4 DEF Statuses
<1>6. Contents' = [Contents EXCEPT ![c] = None]
  <2>1. \A d \in Core :
          (IF content'[d] = None THEN None ELSE FixedOf(content'[d]))
          = IF d = c THEN None ELSE IF content[d] = None THEN None ELSE FixedOf(content[d])
    BY <1>2
  <2>2. QED BY <2>1 DEF Contents
<1>7. Vault!Remove(c)
  BY <1>5, <1>6 DEF Vault!Remove
<1>8. QED BY <1>7 DEF Vault!Next

\* A request that bears no core ends or goes on, and deletes a row or changes no more
\* of it than its visibility.
LEMMA VaultAnswered ==
  ASSUME PubIInv, UNCHANGED <<handed, served>>,
         \A w \in Visitor, d \in Core : Bears(w, d)' <=> Bears(w, d),
         NEW c \in Core,
         content' = [content EXCEPT ![c] = None] \/ UNCHANGED content
  PROVE  [Vault!Next]_Vault!vars
<1>1. CASE content[c] # None /\ content' = [content EXCEPT ![c] = None]
  BY <1>1, VaultRemoves
<1>2. CASE \A d \in Core : content'[d] = content[d]
  BY <1>2, VaultStutters
<1>3. QED
  BY <1>1, <1>2 DEF PubIInv, Shapes

\* try_claim_core reserves a core.
LEMMA VaultReserves ==
  ASSUME PubIInv, NEW v \in Visitor, ClaimCore(v)
  PROVE  Vault!Next
<1>1. PICK kind \in Kinds, c \in Core, u \in Author \cup {None} :
        /\ handed[c] = 0 /\ handed' = [handed EXCEPT ![c] = @ + 1]
        /\ vpc[v] = "idle" /\ vpc' = [vpc EXCEPT ![v] = "insert"]
        /\ req' = [req EXCEPT ![v] =
             [user |-> u, kind |-> kind, core |-> c, row |-> content[c], note |-> None]]
        /\ UNCHANGED <<content, served>>
  BY DEF ClaimCore, Asks, AsksOf, VGoto
<1>2. req'[v].core = c /\ vpc'[v] = "insert"
      /\ \A w \in Visitor : w # v => vpc'[w] = vpc[w] /\ req'[w] = req[w]
  BY <1>1 DEF PubIInv, Shapes
<1>3. \A w \in Visitor, d \in Core : Bears(w, d)' <=> Bears(w, d) \/ (w = v /\ d = c)
  BY <1>1, <1>2 DEF Bears
<1>4. handed'[c] = 1 /\ \A d \in Core : d # c => handed'[d] = handed[d]
  BY <1>1 DEF PubIInv, Shapes
<1>5. StatusOf(c) = "free" /\ StatusOf(c)' = "reserved"
  BY <1>1, <1>2, <1>4 DEF StatusOf
<1>6. \A d \in Core : d # c => StatusOf(d)' = StatusOf(d)
  <2> SUFFICES ASSUME NEW d \in Core, d # c PROVE StatusOf(d)' = StatusOf(d)
    OBVIOUS
  <2>1. (\E w \in Visitor : Bears(w, d)') <=> (\E w \in Visitor : Bears(w, d))
    BY <1>3
  <2>2. handed'[d] = handed[d] /\ content'[d] = content[d]
    BY <1>1, <1>4
  <2>3. QED BY <2>1, <2>2 DEF StatusOf, Bears
<1>7. Statuses' = [Statuses EXCEPT ![c] = "reserved"] /\ Statuses[c] = "free"
  BY <1>5, <1>6 DEF Statuses
<1>8. Contents' = Contents
  BY <1>1 DEF Contents
<1>9. Vault!Reserve(c)
  BY <1>1, <1>7, <1>8 DEF Vault!Reserve
<1>10. QED BY <1>9 DEF Vault!Next

\* An INSERT publishes what the core stands for; one that fails abandons the core.
LEMMA VaultSettles ==
  ASSUME PubIInv, NEW v \in Visitor, vpc[v] = "insert", VEnds(v), UNCHANGED <<handed, served>>,
         InsertContent(v) \/ UNCHANGED content
  PROVE  Vault!Next
<1> PICK c \in Core : c = req[v].core
  BY DEF PubIInv, Shapes, Local
<1>1. /\ vpc' = [vpc EXCEPT ![v] = "idle"] /\ req' = [req EXCEPT ![v] = None]
  BY DEF VEnds, VGoto
<1>2. c \in Core /\ req[v].kind \in Kinds /\ req[v].user \in Author \cup {None} /\ Bears(v, c)
  BY DEF PubIInv, Shapes, Local, Bears
<1>3. handed[c] = 1 /\ \A w \in Visitor : Bears(w, c) => w = v
  BY <1>2 DEF PubIInv, ContentOnce
<1>4. content[c] = None
  BY <1>2 DEF PubIInv, ContentOnce, Settled
<1>5. \A w \in Visitor, d \in Core : Bears(w, d)' <=> Bears(w, d) /\ w # v
  BY <1>1 DEF PubIInv, Shapes, Bears
<1>6. \A d \in Core : d # c => ~Bears(v, d)
  BY DEF Bears
<1>7. \A d \in Core : d # c /\ content'[d] = content[d] => StatusOf(d)' = StatusOf(d)
  <2> SUFFICES ASSUME NEW d \in Core, d # c, content'[d] = content[d]
               PROVE  StatusOf(d)' = StatusOf(d)
    OBVIOUS
  <2>1. (\E w \in Visitor : Bears(w, d)') <=> (\E w \in Visitor : Bears(w, d))
    BY <1>5, <1>6
  <2>2. QED BY <2>1 DEF StatusOf, Bears
<1>8. StatusOf(c) = "reserved"
  BY <1>2, <1>3 DEF StatusOf, Bears
<1>9. StatusOf(c)' = IF content'[c] # None THEN "live" ELSE "gone"
  <2>1. ~(\E w \in Visitor : Bears(w, c)') /\ handed'[c] = 1
    BY <1>2, <1>3, <1>5
  <2>2. QED BY <2>1 DEF StatusOf, Bears
<1>10. CASE UNCHANGED content
  <2>1. Statuses' = [Statuses EXCEPT ![c] = "gone"] /\ Statuses[c] = "reserved"
    BY <1>2, <1>4, <1>7, <1>8, <1>9, <1>10 DEF Statuses
  <2>2. Contents' = Contents
    BY <1>10 DEF Contents
  <2>3. Vault!Abandon(c)
    BY <2>1, <2>2 DEF Vault!Abandon
  <2>4. QED BY <1>2, <2>3 DEF Vault!Next
<1>11. CASE InsertContent(v)
  <2>1. PICK public, burn, locked \in BOOLEAN :
          content' = [content EXCEPT ![c] =
            [kind |-> req[v].kind, owner |-> req[v].user, public |-> public,
             burn |-> burn /\ req[v].kind = "paste", locked |-> locked,
             expired |-> FALSE, gen |-> handed[c]]]
    BY <1>11 DEF InsertContent
  <2> DEFINE row == [kind |-> req[v].kind, owner |-> req[v].user, public |-> public,
                     burn |-> burn /\ req[v].kind = "paste", locked |-> locked,
                     expired |-> FALSE, gen |-> handed[c]]
  <2>2. row \in Row /\ FixedOf(row) \in Fixed
    BY <1>2, <1>3 DEF Row, Fixed, FixedOf, Twice
  <2>3. content' = [content EXCEPT ![c] = row]
    BY <2>1
  <2> HIDE DEF row
  <2>4. content'[c] = row /\ \A d \in Core : d # c => content'[d] = content[d]
    BY <1>2, <2>3 DEF PubIInv, Shapes
  <2>5. row # None
    BY <2>2, PubNoneAssumption
  <2>6. Statuses' = [Statuses EXCEPT ![c] = "live"] /\ Statuses[c] = "reserved"
    BY <1>2, <1>7, <1>8, <1>9, <2>4, <2>5 DEF Statuses
  <2>7. Contents' = [Contents EXCEPT ![c] = FixedOf(row)]
    BY <1>2, <2>4, <2>5 DEF Contents
  <2>8. Vault!Publish(c)
    BY <2>2, <2>6, <2>7 DEF Vault!Publish
  <2>9. QED BY <1>2, <2>8 DEF Vault!Next
<1>12. QED BY <1>10, <1>11

\* The body of a paste that its reader has burnt is a delivery.
LEMMA VaultDelivers ==
  ASSUME PubIInv, SentOnce, NEW v \in Visitor, SendBody(v)
  PROVE  [Vault!Next]_Vault!vars
<1>1. \A w \in Visitor, d \in Core : Bears(w, d)' <=> Bears(w, d)
  BY BearsKept DEF SendBody, VEnds, VGoto
<1>2. CASE ~req[v].row.burn
  BY <1>1, <1>2, VaultStutters DEF SendBody
<1>3. CASE req[v].row.burn
  <2> DEFINE c == req[v].core
  <2>1. Sends(v) /\ c \in Core
    BY <1>3 DEF SendBody, Sends, PubIInv, Shapes, Local
  <2>2. \A s \in Visitor : <<s, c>> \notin served
    BY <2>1 DEF SentOnce
  <2>3. Settled(c) /\ content[c] = None
    BY <2>1 DEF SentOnce, PubIInv, ReadOnce
  <2>4. StatusOf(c) = "gone"
    BY <2>3 DEF StatusOf, Settled, Bears
  <2>5. \A d \in Core : StatusOf(d)' = StatusOf(d)
    BY <1>1 DEF StatusOf, Bears, SendBody
  <2>6. Statuses' = Statuses /\ Statuses[c] = "gone" /\ Contents' = Contents
    BY <2>1, <2>4, <2>5 DEF Statuses, Contents, SendBody
  <2>7. served' = served \cup {<<v, c>>}
    BY <1>3 DEF SendBody
  <2>8. Vault!Deliver(v, c)
    BY <2>2, <2>6, <2>7 DEF Vault!Deliver
  <2>9. QED BY <2>1, <2>8 DEF Vault!Next
<1>4. QED BY <1>2, <1>3

\* Each statement of each handler is a step of the vault, or does not show in it.
LEMMA VaultStep == PubIInv /\ SentOnce /\ [PubNext]_pubvars => [Vault!Next]_Vault!vars
<1> SUFFICES ASSUME PubIInv, SentOnce, [PubNext]_pubvars PROVE [Vault!Next]_Vault!vars
  OBVIOUS
<1>1. ASSUME UNCHANGED <<vpc, req>> PROVE \A w \in Visitor, d \in Core : Bears(w, d)' <=> Bears(w, d)
  BY <1>1 DEF Bears
<1>2. ASSUME NEW v \in Visitor, ClaimCore(v) PROVE [Vault!Next]_Vault!vars
  BY <1>2, VaultReserves
<1>3. ASSUME NEW v \in Visitor, InsertContent(v) PROVE [Vault!Next]_Vault!vars
  BY <1>3, VaultSettles DEF InsertContent
<1>4. ASSUME NEW v \in Visitor, VisitFails(v) PROVE [Vault!Next]_Vault!vars
  <2>1. CASE vpc[v] = "insert"
    BY <1>4, <2>1, VaultSettles DEF VisitFails, posted
  <2>2. CASE vpc[v] # "insert"
    BY <1>4, <2>2, BearsKept, VaultStutters DEF VisitFails, posted, VEnds, VGoto
  <2>3. QED BY <2>1, <2>2
<1>5. ASSUME NEW v \in Visitor, NEW kind, NEW c, NEW n, NEW next,
             AsksOf(v, kind, c, n, next), next # "insert", UNCHANGED <<content, handed, served>>
      PROVE  [Vault!Next]_Vault!vars
  BY <1>5, BearsKept, VaultStutters DEF AsksOf, VGoto
<1>6. ASSUME NEW v \in Visitor,
             \/ FindToToggle(v) \/ FindToDelete(v) \/ ResolveTarget(v) \/ FindComment(v)
             \/ RawPaste(v)
      PROVE  [Vault!Next]_Vault!vars
  <2>1. CASE FindToToggle(v) \/ FindToDelete(v) \/ ResolveTarget(v)
    BY <1>5, <2>1 DEF FindToToggle, FindToDelete, ResolveTarget, Asks, posted
  <2>2. CASE FindComment(v)
    BY <1>5, <2>2 DEF FindComment, posted
  <2>3. CASE RawPaste(v)
    <3>1. PICK c \in Core :
            /\ AsksOf(v, "paste", c, None, IF content[c].burn THEN "burn" ELSE "body")
            /\ UNCHANGED <<content, handed, served>>
      BY <2>3 DEF RawPaste, Asks
    <3>2. QED BY <1>5, <3>1
  <2>4. QED BY <1>6, <2>1, <2>2, <2>3
<1>7. ASSUME NEW v \in Visitor, Unlock(v) PROVE [Vault!Next]_Vault!vars
  BY <1>1, <1>7, VaultStutters DEF Unlock, requests
<1>8. ASSUME NEW v \in Visitor, VEnds(v), vpc[v] # "insert"
      PROVE  \A w \in Visitor, d \in Core : Bears(w, d)' <=> Bears(w, d)
  BY <1>8, BearsKept DEF VEnds, VGoto
<1>9. ASSUME NEW v \in Visitor, InsertComment(v) \/ DeleteComment(v)
      PROVE  [Vault!Next]_Vault!vars
  BY <1>8, <1>9, VaultStutters DEF InsertComment, DeleteComment
<1>10. ASSUME NEW v \in Visitor, SetVisibility(v) PROVE [Vault!Next]_Vault!vars
  <2>1. PICK public \in BOOLEAN :
          content' = IF Content(req[v].kind, req[v].core)
                     THEN [content EXCEPT ![req[v].core].public = public] ELSE content
    BY <1>10 DEF SetVisibility
  <2>2. \A d \in Core : content'[d] = content[d]
                         \/ /\ content[d] # None /\ content'[d] # None
                            /\ FixedOf(content'[d]) = FixedOf(content[d])
    <3> SUFFICES ASSUME NEW d \in Core, content'[d] # content[d]
                 PROVE  /\ content[d] # None /\ content'[d] # None
                        /\ FixedOf(content'[d]) = FixedOf(content[d])
      OBVIOUS
    <3>1. content[d] # None /\ content[d] \in Row
          /\ content'[d] = [content[d] EXCEPT !.public = public]
      BY <2>1 DEF Content, PubIInv, Shapes
    <3>2. content'[d] \in Row
      BY <3>1 DEF Row
    <3>3. QED BY <3>1, <3>2, PubNoneAssumption DEF FixedOf, Row
  <2>3. QED BY <1>8, <1>10, <2>2, VaultStutters DEF SetVisibility
<1>11. ASSUME NEW v \in Visitor, DeleteContent(v) PROVE [Vault!Next]_Vault!vars
  <2>1. req[v].core \in Core
    BY <1>11 DEF DeleteContent, PubIInv, Shapes, Local
  <2>2. QED BY <1>8, <1>11, <2>1, VaultAnswered DEF DeleteContent
<1>12. ASSUME NEW v \in Visitor, Burn(v) PROVE [Vault!Next]_Vault!vars
  <2>1. req[v].core \in Core /\ vpc[v] = "burn"
    BY <1>12 DEF Burn, PubIInv, Shapes, Local
  <2>2. \A w \in Visitor, d \in Core : Bears(w, d)' <=> Bears(w, d)
    BY <1>8, <1>12, <2>1 DEF Burn, VGoto, Bears, PubIInv, Shapes
  <2>3. QED BY <1>12, <2>1, <2>2, VaultAnswered DEF Burn
<1>13. ASSUME NEW v \in Visitor, SendBody(v) PROVE [Vault!Next]_Vault!vars
  BY <1>13, VaultDelivers
<1>14. ASSUME NEW c \in Core, ExpireContent(c) PROVE [Vault!Next]_Vault!vars
  <2>1. content[c] \in Row /\ content[c] # None /\ content' = [content EXCEPT ![c].expired = TRUE]
    BY <1>14 DEF ExpireContent, PubIInv, Shapes
  <2>2. content'[c] = [content[c] EXCEPT !.expired = TRUE] /\ content'[c] \in Row
        /\ \A d \in Core : d # c => content'[d] = content[d]
    BY <2>1 DEF PubIInv, Shapes, Row
  <2>3. content'[c] # None /\ FixedOf(content'[c]) = FixedOf(content[c])
    <3>1. content'[c] # None
      BY <2>2, PubNoneAssumption
    <3>2. \A row \in Row : FixedOf([row EXCEPT !.expired = TRUE]) = FixedOf(row)
      BY DEF FixedOf, Row
    <3>3. QED BY <2>1, <2>2, <3>1, <3>2
  <2>4. QED BY <1>1, <1>14, <2>1, <2>2, <2>3, VaultStutters DEF ExpireContent, requests
<1>15. ASSUME NEW c \in Core, SweepPaste(c) \/ SweepPasteFails(c) PROVE [Vault!Next]_Vault!vars
  BY <1>1, <1>15, VaultAnswered DEF SweepPaste, SweepPasteFails, posted, requests
<1>16. CASE ScanPastes \/ UNCHANGED pubvars
  BY <1>1, <1>16, VaultStutters DEF ScanPastes, pubvars, posted, requests
<1>17. QED
  BY <1>2, <1>3, <1>4, <1>6, <1>7, <1>9, <1>10, <1>11, <1>12, <1>13, <1>14, <1>15, <1>16
  DEF PubNext

\* Pastes keep the promise of FileVault as files do: a core is handed out once, stands for
\* one content and never for another, and a burn-after-read body goes out once.
THEOREM PastesImplementVault == PubSpec => KeepsCores
<1>1. PubInit => Vault!Init
  BY DEF PubInit, Vault!Init, Statuses, StatusOf, Contents
<1>2. QED
  BY <1>1, VaultStep, PubInductive, SentInductive, PTL DEF PubSpec, KeepsCores, Vault!Spec

-----------------------------------------------------------------------------
(***************************************************************************)
(* Collections: the inductive invariant.                                   *)
(***************************************************************************)
Locking == {"max", "insert", "members", "positions"}

Holds(k) == cpc[k] \in Locking

\* The variables are functions, and a call has its four fields.
ColShapes ==
  /\ items \in [Item -> (0 .. Top) \cup {None}]
  /\ cpc \in [Caller -> Locking \cup {"idle", "lock", "update"}]
  /\ call = [k \in Caller |-> call[k]]
  /\ \A k \in Caller :
       call[k] = [item |-> call[k].item, position |-> call[k].position,
                  order |-> call[k].order, row |-> call[k].row]

Exclusive == \A k, l \in Caller : Holds(k) /\ Holds(l) => k = l

IdleIsEmpty == \A k \in Caller : cpc[k] # "idle" \/ call[k] = NoCall

\* add_item: what will be inserted, and that no item has reached its position since.
ReadyToInsert ==
  \A k \in Caller :
    /\ cpc[k] \in {"lock", "max", "insert"} => call[k].item \in Item
    /\ cpc[k] = "insert" =>
         call[k].position \in Nat /\ \A j \in Members : items[j] < call[k].position

\* reorder: the order still covers every item.
ReadyToReorder ==
  \A k \in Caller : cpc[k] = "positions" =>
    LET order == call[k].order IN
      /\ order \in [DOMAIN order -> 0 .. Top]
      /\ Members \subseteq DOMAIN order
      /\ \A i, j \in DOMAIN order : order[i] = order[j] => i = j

ColIInv ==
  /\ ColShapes /\ Exclusive /\ IdleIsEmpty
  /\ ReadyToInsert /\ ReadyToReorder /\ PositionsDistinct

-----------------------------------------------------------------------------
\* COALESCE(MAX(position), -1) is defined, and no position is beyond it.
LEMMA MaxPosition ==
  ASSUME NEW S \in SUBSET (-1 .. Top), S # {}
  PROVE  Max(S) \in S /\ \A y \in S : Max(S) >= y
<1> DEFINE T == {n \in Nat : Top - n \in S}
<1>1. T # {} /\ T \subseteq Nat
  <2>1. PICK x \in S : TRUE
    OBVIOUS
  <2>2. Top - x \in T
    BY CollectionsAssumption
  <2>3. QED BY <2>2
<1>2. PICK n \in T : \A m \in T : ~(<<m, n>> \in OpToRel(<, Nat))
  BY <1>1, NatLessThanWellFounded, WFMin
<1>3. \A m \in T : ~(m < n)
  BY <1>2, <1>1, Zenon DEF OpToRel
<1>4. Top - n \in S /\ \A y \in S : Top - n >= y
  BY <1>3, CollectionsAssumption
<1>5. QED
  BY <1>4 DEF Max

\* The position that add_item computes is above every item's.
LEMMA NextIsAbove ==
  ASSUME ColShapes
  PROVE  LET next == Max({items[i] : i \in Members} \cup {-1}) + 1
         IN  next \in Nat /\ \A j \in Members : items[j] < next
<1> DEFINE S == {items[i] : i \in Members} \cup {-1}
<1>1. S \in SUBSET (-1 .. Top) /\ S # {}
  BY CollectionsAssumption DEF ColShapes, Members
<1>2. Max(S) \in S /\ \A y \in S : Max(S) >= y
  BY <1>1, MaxPosition
<1>3. Max(S) \in -1 .. Top /\ Max(S) + 1 \in Nat
  <2> DEFINE m == Max(S)
  <2>1. m \in -1 .. Top
    BY <1>1, <1>2
  <2> HIDE DEF m
  <2>2. m + 1 \in Nat
    BY <2>1, CollectionsAssumption
  <2>3. QED BY <2>1, <2>2 DEF m
<1>4. \A j \in Members : items[j] \in S /\ items[j] \in 0 .. Top
  BY DEF ColShapes, Members
<1>5. \A j \in Members : items[j] < Max(S) + 1
  <2> SUFFICES ASSUME NEW j \in Members PROVE items[j] < Max(S) + 1
    OBVIOUS
  <2> DEFINE m == Max(S)
  <2>1. m \in Int /\ items[j] \in Int /\ m >= items[j]
    BY <1>2, <1>3, <1>4, CollectionsAssumption
  <2> HIDE DEF m
  <2>2. items[j] < m + 1
    BY <2>1
  <2>3. QED BY <2>2 DEF m
<1>6. QED
  BY <1>3, <1>5

-----------------------------------------------------------------------------
(***************************************************************************)
(* The invariant holds at first, and every step keeps it.                  *)
(***************************************************************************)
LEMMA ColInitial == ColInit => ColIInv
BY DEF ColInit, ColIInv, ColShapes, Exclusive, IdleIsEmpty, ReadyToInsert, ReadyToReorder,
       PositionsDistinct, Holds, Locking, NoCall, Members

\* A handler that ends, or goes on without the lock, leaves the rest as it was.
LEMMA ColEndStep ==
  ASSUME ColIInv, NEW k \in Caller, CEnds(k), UNCHANGED items
  PROVE  ColIInv'
BY DEF ColIInv, CEnds, CGoto, ColShapes, Exclusive, IdleIsEmpty, ReadyToInsert, ReadyToReorder,
       PositionsDistinct, Holds, Locking, NoCall, Members

\* Removing items takes nothing from what a transaction has read.
LEMMA RemovalStep ==
  ASSUME ColIInv, UNCHANGED <<cpc, call>>,
         items' \in [Item -> (0 .. Top) \cup {None}],
         \A i \in Item : items'[i] \in {items[i], None}
  PROVE  ColIInv'
<1>1. Members' \subseteq Members /\ \A i \in Members' : items'[i] = items[i]
  BY DEF Members
<1>2. ColShapes' /\ Exclusive' /\ IdleIsEmpty'
  BY DEF ColIInv, ColShapes, Exclusive, IdleIsEmpty, Holds, NoCall
<1>3. ReadyToInsert' /\ ReadyToReorder' /\ PositionsDistinct'
  BY <1>1 DEF ColIInv, ReadyToInsert, ReadyToReorder, PositionsDistinct
<1>4. QED
  BY <1>2, <1>3 DEF ColIInv

\* Every statement of every handler keeps the invariant.
LEMMA ColStep == ColIInv /\ [ColNext]_colvars => ColIInv'
<1> SUFFICES ASSUME ColIInv, [ColNext]_colvars PROVE ColIInv'
  OBVIOUS
<1>1. CASE UNCHANGED colvars
  BY <1>1 DEF ColIInv, colvars, shelf, ColShapes, Exclusive, IdleIsEmpty, ReadyToInsert,
              ReadyToReorder, PositionsDistinct, Holds, NoCall, Members
<1>2. ASSUME NEW k \in Caller, AddItem(k) PROVE ColIInv'
  BY <1>2 DEF AddItem, CGoto, shelf, ColIInv, ColShapes, Exclusive, IdleIsEmpty, ReadyToInsert,
              ReadyToReorder, PositionsDistinct, Holds, Locking, NoCall, Members
<1>3. ASSUME NEW k \in Caller, LockToAdd(k) PROVE ColIInv'
  <2>1. CASE CEnds(k)
    BY <1>3, <2>1, ColEndStep DEF LockToAdd, shelf
  <2>2. CASE CGoto(k, "max") /\ UNCHANGED call
    BY <1>3, <2>2 DEF LockToAdd, RowLocked, CGoto, shelf, ColIInv, ColShapes, Exclusive,
                      IdleIsEmpty, ReadyToInsert, ReadyToReorder, PositionsDistinct, Holds,
                      Locking, NoCall, Members
  <2>3. QED BY <1>3, <2>1, <2>2 DEF LockToAdd
<1>4. ASSUME NEW k \in Caller, NextPosition(k) PROVE ColIInv'
  <2> DEFINE next == Max({items[i] : i \in Members} \cup {-1}) + 1
  <2>1. next \in Nat /\ \A j \in Members : items[j] < next
    BY NextIsAbove DEF ColIInv
  <2>2. call' = [call EXCEPT ![k].position = next]
    BY <1>4 DEF NextPosition
  <2> HIDE DEF next
  <2>3. /\ cpc' = [cpc EXCEPT ![k] = "insert"] /\ cpc[k] = "max"
        /\ UNCHANGED <<items, Members>>
    BY <1>4 DEF NextPosition, CGoto, shelf, Members
  <2>4. call'[k] = [call[k] EXCEPT !.position = next]
        /\ \A l \in Caller \ {k} : call'[l] = call[l]
    BY <2>2 DEF ColIInv, ColShapes
  <2>5. ColShapes'
    BY <2>2, <2>3, <2>4 DEF ColIInv, ColShapes, Locking
  <2>6. Exclusive' /\ IdleIsEmpty'
    BY <2>3, <2>4 DEF ColIInv, ColShapes, Exclusive, IdleIsEmpty, Holds, Locking, NoCall
  <2>7. ReadyToInsert'
    <3>1. call'[k].item = call[k].item /\ call'[k].position = next
      BY <2>4 DEF ColIInv, ColShapes
    <3>2. QED
      BY <2>1, <2>3, <2>4, <3>1 DEF ColIInv, ColShapes, ReadyToInsert
  <2>8. ReadyToReorder' /\ PositionsDistinct'
    BY <2>3, <2>4 DEF ColIInv, ColShapes, ReadyToReorder, PositionsDistinct
  <2>9. QED BY <2>5, <2>6, <2>7, <2>8 DEF ColIInv
<1>5. ASSUME NEW k \in Caller, InsertItem(k) PROVE ColIInv'
  <2>1. CASE call[k].position > Top \/ call[k].item \in Members
    BY <1>5, <2>1, ColEndStep DEF InsertItem
  <2>2. CASE ~(call[k].position > Top \/ call[k].item \in Members)
    <3> DEFINE i == call[k].item  n == call[k].position
    <3>1. items' = [items EXCEPT ![i] = n] /\ i \in Item /\ n \in 0 .. Top
          /\ \A j \in Members : items[j] < n
      BY <1>5, <2>2, CollectionsAssumption DEF InsertItem, ColIInv, ReadyToInsert
    <3>2. cpc' = [cpc EXCEPT ![k] = "idle"] /\ call' = [call EXCEPT ![k] = NoCall]
      BY <1>5 DEF InsertItem, CEnds, CGoto
    <3>3. \A l \in Caller : l # k => ~Holds(l)
      BY <1>5 DEF InsertItem, ColIInv, Exclusive, Holds, Locking
    <3> HIDE DEF i, n
    <3>4. ColShapes' /\ Exclusive' /\ IdleIsEmpty'
      BY <3>1, <3>2 DEF ColIInv, ColShapes, Exclusive, IdleIsEmpty, Holds, Locking, NoCall
    <3>5. ReadyToInsert' /\ ReadyToReorder'
      BY <3>2, <3>3 DEF ColIInv, ColShapes, ReadyToInsert, ReadyToReorder, Holds, Locking
    <3>6. Members' \subseteq Members \cup {i}
          /\ \A j \in Members' : j # i => items'[j] = items[j] /\ items[j] < n
      BY <3>1 DEF ColIInv, ColShapes, Members
    <3>7. PositionsDistinct'
      <4> SUFFICES ASSUME NEW x \in Members', NEW y \in Members', items'[x] = items'[y]
                   PROVE  x = y
        BY DEF PositionsDistinct
      <4>1. items'[i] = n /\ \A j \in Members : items[j] \in Int /\ items[j] # n
        BY <3>1 DEF ColIInv, ColShapes, Members
      <4>2. QED
        BY <3>6, <4>1 DEF ColIInv, PositionsDistinct
    <3>8. QED BY <3>4, <3>5, <3>7 DEF ColIInv
  <2>3. QED BY <2>1, <2>2
<1>6. ASSUME NEW k \in Caller, RemoveItem(k) PROVE ColIInv'
  BY <1>6, RemovalStep DEF RemoveItem, ColIInv, ColShapes, Members
<1>7. ASSUME NEW k \in Caller, LockToReorder(k) PROVE ColIInv'
  BY <1>7 DEF LockToReorder, RowLocked, CGoto, shelf, ColIInv, ColShapes, Exclusive, IdleIsEmpty,
     ReadyToInsert, ReadyToReorder, PositionsDistinct, Holds, Locking, NoCall, Members
<1>8. ASSUME NEW k \in Caller, CheckOrder(k) PROVE ColIInv'
  <2>1. CASE CEnds(k)
    BY <1>8, <2>1, ColEndStep DEF CheckOrder, shelf
  <2>2. ASSUME NEW order \in [Members -> 0 .. Top],
               \A i, j \in Members : order[i] = order[j] => i = j,
               call' = [call EXCEPT ![k].order = order], CGoto(k, "positions")
        PROVE  ColIInv'
    <3>1. /\ cpc' = [cpc EXCEPT ![k] = "positions"] /\ cpc[k] = "members"
          /\ UNCHANGED <<items, Members>>
      BY <1>8, <2>2 DEF CheckOrder, CGoto, shelf, Members
    <3>2. call'[k] = [call[k] EXCEPT !.order = order]
          /\ \A l \in Caller \ {k} : call'[l] = call[l]
      BY <2>2 DEF ColIInv, ColShapes
    <3>3. ColShapes'
      BY <2>2, <3>1, <3>2 DEF ColIInv, ColShapes, Locking
    <3>4. Exclusive' /\ IdleIsEmpty'
      BY <3>1, <3>2 DEF ColIInv, ColShapes, Exclusive, IdleIsEmpty, Holds, Locking, NoCall
    <3>5. ReadyToInsert' /\ PositionsDistinct'
      BY <3>1, <3>2 DEF ColIInv, ColShapes, ReadyToInsert, PositionsDistinct
    <3>6. ReadyToReorder'
      <4>1. call'[k].order = order
        BY <3>2 DEF ColIInv, ColShapes
      <4>2. QED
        BY <2>2, <3>1, <3>2, <4>1 DEF ColIInv, ColShapes, ReadyToReorder
    <3>7. QED BY <3>3, <3>4, <3>5, <3>6 DEF ColIInv
  <2>3. QED BY <1>8, <2>1, <2>2 DEF CheckOrder
<1>9. ASSUME NEW k \in Caller, WriteOrder(k) PROVE ColIInv'
  <2> DEFINE order == call[k].order
  <2>1. /\ order \in [DOMAIN order -> 0 .. Top] /\ Members \subseteq DOMAIN order
        /\ \A i, j \in DOMAIN order : order[i] = order[j] => i = j
    BY <1>9 DEF WriteOrder, ColIInv, ReadyToReorder
  <2>2. items' = [i \in Item |-> IF i \in Members THEN order[i] ELSE items[i]]
    BY <1>9, <2>1 DEF WriteOrder
  <2>3. cpc' = [cpc EXCEPT ![k] = "idle"] /\ call' = [call EXCEPT ![k] = NoCall]
    BY <1>9 DEF WriteOrder, CEnds, CGoto
  <2>4. \A l \in Caller : l # k => ~Holds(l)
    BY <1>9 DEF WriteOrder, ColIInv, Exclusive, Holds, Locking
  <2> HIDE DEF order
  <2>5. items' \in [Item -> (0 .. Top) \cup {None}]
    BY <2>1, <2>2 DEF ColIInv, ColShapes, Members
  <2>6. ColShapes' /\ Exclusive' /\ IdleIsEmpty'
    BY <2>3, <2>5 DEF ColIInv, ColShapes, Exclusive, IdleIsEmpty, Holds, Locking, NoCall
  <2>7. ReadyToInsert' /\ ReadyToReorder'
    BY <2>3, <2>4 DEF ColIInv, ColShapes, ReadyToInsert, ReadyToReorder, Holds, Locking
  <2>8. Members' \subseteq Members /\ \A i \in Members' : items'[i] = order[i]
    BY <2>2 DEF Members
  <2>9. PositionsDistinct'
    BY <2>1, <2>8 DEF PositionsDistinct
  <2>10. QED BY <2>6, <2>7, <2>9 DEF ColIInv
<1>10. ASSUME NEW k \in Caller, ReadToUpdate(k) PROVE ColIInv'
  BY <1>10 DEF ReadToUpdate, CGoto, shelf, ColIInv, ColShapes, Exclusive, IdleIsEmpty,
     ReadyToInsert, ReadyToReorder, PositionsDistinct, Holds, Locking, NoCall, Members
<1>11. ASSUME NEW k \in Caller, DeleteCollection(k) PROVE ColIInv'
  BY <1>11, RemovalStep DEF DeleteCollection
<1>12. ASSUME NEW k \in Caller, CreateCollection(k) PROVE ColIInv'
  BY <1>12, RemovalStep DEF CreateCollection, ColIInv, ColShapes
<1>13. ASSUME NEW k \in Caller, UpdateCollection(k) \/ CallFails(k) PROVE ColIInv'
  BY <1>13, ColEndStep DEF UpdateCollection, CallFails, shelf
<1>14. QED
  BY <1>1, <1>2, <1>3, <1>4, <1>5, <1>6, <1>7, <1>8, <1>9, <1>10, <1>11, <1>12, <1>13
  DEF ColNext

-----------------------------------------------------------------------------
\* What a transaction has read under the lock stays true until it writes.
THEOREM ColInductive == ColSpec => []ColIInv
BY ColInitial, ColStep, PTL DEF ColSpec

\* No two items of a collection ever share a position (add_item, reorder).
THEOREM PositionsStayDistinct == ColSpec => []PositionsDistinct
<1>1. ColIInv => PositionsDistinct
  BY DEF ColIInv
<1>2. QED BY <1>1, ColInductive, PTL

\* What add_item inserts comes after every item of that moment.
LEMMA AppendStep == ColIInv /\ [ColNext]_colvars => Appended
<1> SUFFICES ASSUME ColIInv, [ColNext]_colvars,
                    NEW i \in Item, items[i] = None, items'[i] # None,
                    NEW j \in Members
             PROVE  items[j] < items'[i]
  BY DEF Appended
<1>1. items' # items
  OBVIOUS
<1>2. ASSUME NEW k \in Caller, InsertItem(k) PROVE items[j] < items'[i]
  BY <1>2 DEF InsertItem, ColIInv, ColShapes, ReadyToInsert
<1>3. ASSUME NEW k \in Caller, RemoveItem(k) \/ DeleteCollection(k) PROVE FALSE
  BY <1>3 DEF RemoveItem, DeleteCollection, ColIInv, ColShapes, Members
<1>4. ASSUME NEW k \in Caller, WriteOrder(k) PROVE FALSE
  BY <1>4 DEF WriteOrder, Members
<1>5. ASSUME NEW k \in Caller,
             \/ CreateCollection(k) \/ UpdateCollection(k) \/ AddItem(k) \/ LockToAdd(k)
             \/ NextPosition(k) \/ LockToReorder(k) \/ CheckOrder(k) \/ ReadToUpdate(k)
             \/ CallFails(k)
      PROVE  FALSE
  BY <1>1, <1>5 DEF CreateCollection, UpdateCollection, AddItem, LockToAdd, NextPosition,
     LockToReorder, CheckOrder, ReadToUpdate, CallFails, shelf
<1>6. QED
  BY <1>1, <1>2, <1>3, <1>4, <1>5 DEF ColNext, colvars, shelf

\* What add_item inserts comes last, although its position was computed a statement before.
THEOREM AdditionsAppend == ColSpec => AppendsLast
BY AppendStep, ColInductive, PTL DEF ColSpec, AppendsLast

\* Positions that are distinct put the items into an order.
LEMMA PositionsOrder == ColIInv => List!IsOrder(Ahead, Members)
<1> SUFFICES ASSUME ColShapes, PositionsDistinct PROVE List!IsOrder(Ahead, Members)
  BY DEF ColIInv
<1>1. \A i \in Members : items[i] \in Int
  BY DEF ColShapes, Members
<1>2. \A i, j \in Members : i # j => items[i] < items[j] \/ items[j] < items[i]
  BY <1>1 DEF PositionsDistinct
<1>3. \A i, j \in Members : <<i, j>> \in Ahead <=> items[i] < items[j]
  BY DEF Ahead
<1>4. Ahead \subseteq Members \X Members
  BY DEF Ahead
<1>5. QED BY <1>1, <1>2, <1>3, <1>4 DEF List!IsOrder

\* Where fewer items have the positions they had, the rest of the list is removed.
LEMMA ListShrinks ==
  ASSUME Members' \subseteq Members, \A i \in Members' : items'[i] = items[i]
  PROVE  \E S \in SUBSET Members : List!Remove(S)
<1> WITNESS Members \ Members' \in SUBSET Members
<1>1. Ahead' = Ahead \cap (Members' \X Members')
  BY DEF Ahead
<1>2. QED BY <1>1 DEF List!Remove

\* add_item inserts at the end of the list, or nowhere.
LEMMA ListGrows ==
  ASSUME ColIInv, NEW k \in Caller, InsertItem(k)
  PROVE  [List!Next]_List!listvars
<1> DEFINE i == call[k].item
           n == call[k].position
<1>1. CASE UNCHANGED items
  BY <1>1 DEF List!listvars, Members, Ahead
<1>2. CASE ~(n > Top \/ i \in Members)
  <2>1. /\ items' = [items EXCEPT ![i] = n] /\ i \in Item /\ n \in Nat
        /\ i \notin Members /\ \A j \in Members : items[j] < n
    BY <1>2 DEF InsertItem, ColIInv, ReadyToInsert
  <2>2. /\ Members' = Members \cup {i} /\ items'[i] = n
        /\ \A j \in Members : items'[j] = items[j] /\ items[j] \in Int
    BY <2>1, CollectionsNoneAssumption DEF ColIInv, ColShapes, Members
  <2> HIDE DEF i, n
  <2>3. ~(n < n) /\ \A j \in Members : ~(n < items[j])
    BY <2>1, <2>2
  <2>4. Ahead' = Ahead \cup (Members \X {i})
    <3>1. ASSUME NEW p \in Members' \X Members'
          PROVE  items'[p[1]] < items'[p[2]] <=> p \in Ahead \cup (Members \X {i})
      <4>1. CASE p[1] = i
        BY <2>1, <2>2, <2>3, <4>1 DEF Ahead
      <4>2. CASE p[1] \in Members /\ p[2] = i
        BY <2>1, <2>2, <4>2
      <4>3. CASE p[1] \in Members /\ p[2] \in Members
        BY <2>1, <2>2, <4>3 DEF Ahead
      <4>4. QED BY <2>2, <4>1, <4>2, <4>3
    <3>2. Ahead \cup (Members \X {i}) \subseteq Members' \X Members'
      BY <2>2 DEF Ahead
    <3>3. QED BY <3>1, <3>2 DEF Ahead
  <2>5. List!Add(i)
    BY <2>1, <2>2, <2>4 DEF List!Add
  <2>6. QED BY <2>1, <2>5 DEF List!Next
<1>3. QED BY <1>1, <1>2 DEF InsertItem

\* Each statement of each handler is a step of the list, or does not show in it.
LEMMA ListStep ==
  ColIInv /\ List!IsOrder(Ahead, Members)' /\ [ColNext]_colvars => [List!Next]_List!listvars
<1> SUFFICES ASSUME ColIInv, List!IsOrder(Ahead, Members)', [ColNext]_colvars
             PROVE  [List!Next]_List!listvars
  OBVIOUS
<1>1. CASE UNCHANGED items
  BY <1>1 DEF List!listvars, Members, Ahead
<1>2. ASSUME NEW k \in Caller, InsertItem(k) PROVE [List!Next]_List!listvars
  BY <1>2, ListGrows
<1>3. ASSUME NEW k \in Caller, RemoveItem(k) \/ DeleteCollection(k)
      PROVE  [List!Next]_List!listvars
  <2>1. Members' \subseteq Members /\ \A i \in Members' : items'[i] = items[i]
    BY <1>3 DEF RemoveItem, DeleteCollection, ColIInv, ColShapes, Members
  <2>2. QED BY <2>1, ListShrinks DEF List!Next
<1>4. ASSUME NEW k \in Caller, WriteOrder(k) PROVE [List!Next]_List!listvars
  <2>1. Members' = Members
    BY <1>4, CollectionsNoneAssumption DEF WriteOrder, ColIInv, ColShapes, ReadyToReorder, Members
  <2>2. QED BY <2>1 DEF List!Next, List!Reorder, List!IsOrder
<1>5. ASSUME NEW k \in Caller,
             \/ CreateCollection(k) \/ UpdateCollection(k) \/ AddItem(k) \/ LockToAdd(k)
             \/ NextPosition(k) \/ LockToReorder(k) \/ CheckOrder(k) \/ ReadToUpdate(k)
             \/ CallFails(k)
      PROVE  UNCHANGED items
  BY <1>5 DEF CreateCollection, UpdateCollection, AddItem, LockToAdd, NextPosition,
     LockToReorder, CheckOrder, ReadToUpdate, CallFails, shelf
<1>6. QED
  BY <1>1, <1>2, <1>3, <1>4, <1>5 DEF ColNext, colvars, shelf

\* A collection is a list to its owner, whatever requests overlap: positions, locks and the
\* statements of a transaction do not show.
THEOREM ImplementsList == ColSpec => KeepsList
<1>1. ColInit => List!Init
  BY DEF ColInit, List!Init, Members, Ahead
<1>2. QED
  BY <1>1, ListStep, PositionsOrder, ColInductive, PTL DEF ColSpec, KeepsList, List!Spec

-----------------------------------------------------------------------------
(***************************************************************************)
(* Collections: the row.  Whoever holds its lock finds it there to the     *)
(* end, so no item is added to a collection that has been deleted.         *)
(***************************************************************************)
ColRow == [title : Title, public : BOOLEAN]

RowFits ==
  /\ collection \in ColRow \cup {None}
  /\ collection = None => Members = {}
  /\ \A k \in Caller : Holds(k) => collection # None
  /\ \A k \in Caller : cpc[k] = "update" => call[k].row \in ColRow

\* A handler ends, and whatever it has written is of a collection that is there.
LEMMA RowEndStep ==
  ASSUME ColIInv, RowFits, NEW k \in Caller, CEnds(k), UNCHANGED collection,
         collection = None => Members' = {}
  PROVE  RowFits'
BY DEF ColIInv, ColShapes, RowFits, CEnds, CGoto, Holds, Locking

\* A handler goes on; if it takes the lock, then of a row that is there.
LEMMA RowGoesOn ==
  ASSUME ColIInv, RowFits, NEW k \in Caller, NEW next \in Locking \cup {"lock", "update"},
         CGoto(k, next), UNCHANGED shelf, next = "lock" \/ collection # None,
         \A l \in Caller : l # k => call'[l] = call[l],
         next = "update" => call'[k].row \in ColRow
  PROVE  RowFits'
<1>1. Members' = Members /\ collection' = collection
  BY DEF shelf, Members
<1>2. cpc'[k] = next /\ \A l \in Caller : l # k => cpc'[l] = cpc[l]
  BY DEF CGoto, ColIInv, ColShapes
<1>3. \A l \in Caller : Holds(l)' => collection' # None
  BY <1>1, <1>2 DEF Holds, Locking, RowFits
<1>4. \A l \in Caller : cpc'[l] = "update" => call'[l].row \in ColRow
  BY <1>2 DEF RowFits
<1>5. QED BY <1>1, <1>3, <1>4 DEF RowFits

\* Every statement keeps the row and its items together.
LEMMA RowStep == ColIInv /\ RowFits /\ [ColNext]_colvars => RowFits'
<1> SUFFICES ASSUME ColIInv, RowFits, [ColNext]_colvars PROVE RowFits'
  OBVIOUS
<1>1. CASE UNCHANGED colvars
  BY <1>1 DEF colvars, shelf, RowFits, Holds, Members
<1>2. ASSUME NEW k \in Caller, CreateCollection(k) PROVE RowFits'
  <2>1. collection = None /\ collection' \in ColRow /\ UNCHANGED <<items, cpc, call>>
    BY <1>2 DEF CreateCollection, ColRow
  <2>2. QED BY <2>1 DEF RowFits, Holds, Members
<1>3. ASSUME NEW k \in Caller, UpdateCollection(k) PROVE RowFits'
  <2>1. /\ cpc[k] = "update" /\ ~RowLocked /\ CEnds(k) /\ UNCHANGED items
        /\ collection' = IF collection = None THEN None ELSE call[k].row
    BY <1>3 DEF UpdateCollection
  <2>2. call[k].row \in ColRow /\ call[k].row # None
    BY <2>1, CollectionsNoneAssumption DEF RowFits, ColRow
  <2>3. (collection' = None <=> collection = None) /\ collection' \in ColRow \cup {None}
    BY <2>1, <2>2
  <2>4. /\ \A l \in Caller : Holds(l)' => Holds(l)
        /\ \A l \in Caller : cpc'[l] = "update" => cpc[l] = "update" /\ call'[l] = call[l]
    BY <2>1 DEF CEnds, CGoto, Holds, Locking, ColIInv, ColShapes
  <2>5. QED BY <2>1, <2>3, <2>4 DEF RowFits, Members
<1>4. ASSUME NEW k \in Caller, DeleteCollection(k) PROVE RowFits'
  <2>1. ~RowLocked /\ collection' = None /\ items' = [i \in Item |-> None]
        /\ UNCHANGED <<cpc, call>>
    BY <1>4 DEF DeleteCollection
  <2>2. Members' = {} /\ \A l \in Caller : ~Holds(l)'
    BY <2>1 DEF Members, RowLocked, Holds, Locking
  <2>3. QED BY <2>1, <2>2 DEF RowFits
<1>5. ASSUME NEW k \in Caller, AddItem(k) \/ LockToReorder(k) \/ NextPosition(k)
      PROVE  RowFits'
  <2>1. \E next \in Locking \cup {"lock", "update"} :
          CGoto(k, next) /\ next # "update" /\ (next = "lock" \/ collection # None)
    BY <1>5 DEF AddItem, LockToReorder, NextPosition, Locking, RowFits, Holds
  <2>2. UNCHANGED shelf /\ \A l \in Caller : l # k => call'[l] = call[l]
    BY <1>5 DEF AddItem, LockToReorder, NextPosition, ColIInv, ColShapes
  <2>3. QED BY <2>1, <2>2, RowGoesOn
<1>6. ASSUME NEW k \in Caller, LockToAdd(k) PROVE RowFits'
  <2>1. CASE CEnds(k)
    BY <1>6, <2>1, RowEndStep DEF LockToAdd, shelf, RowFits, Members
  <2>2. CASE CGoto(k, "max") /\ collection # None /\ UNCHANGED call
    BY <1>6, <2>2, RowGoesOn DEF LockToAdd, Locking
  <2>3. QED BY <1>6, <2>1, <2>2 DEF LockToAdd
<1>7. ASSUME NEW k \in Caller, CheckOrder(k) PROVE RowFits'
  <2>1. CASE CEnds(k)
    BY <1>7, <2>1, RowEndStep DEF CheckOrder, shelf, RowFits, Members
  <2>2. CASE CGoto(k, "positions") /\ \A l \in Caller : l # k => call'[l] = call[l]
    BY <1>7, <2>2, RowGoesOn DEF CheckOrder, Locking, RowFits, Holds
  <2>3. QED BY <1>7, <2>1, <2>2 DEF CheckOrder, ColIInv, ColShapes
<1>8. ASSUME NEW k \in Caller, ReadToUpdate(k) PROVE RowFits'
  <2>1. PICK t \in Title \cup {collection.title}, p \in BOOLEAN :
          call' = [call EXCEPT ![k].row = [title |-> t, public |-> p]]
    BY <1>8 DEF ReadToUpdate
  <2>2. collection # None /\ CGoto(k, "update") /\ UNCHANGED shelf
    BY <1>8 DEF ReadToUpdate
  <2>3. [title |-> t, public |-> p] \in ColRow
    BY <2>2 DEF RowFits, ColRow
  <2>4. call'[k].row \in ColRow /\ \A l \in Caller : l # k => call'[l] = call[l]
    BY <2>1, <2>3 DEF ColIInv, ColShapes
  <2>5. QED BY <2>2, <2>4, RowGoesOn
<1>9. ASSUME NEW k \in Caller, InsertItem(k) \/ WriteOrder(k) PROVE RowFits'
  <2>1. CEnds(k) /\ UNCHANGED collection /\ Holds(k)
    BY <1>9 DEF InsertItem, WriteOrder, Holds, Locking
  <2>2. collection # None
    BY <2>1 DEF RowFits
  <2>3. QED BY <2>1, <2>2, RowEndStep
<1>10. ASSUME NEW k \in Caller, RemoveItem(k) PROVE RowFits'
  BY <1>10 DEF RemoveItem, RowFits, Holds
<1>11. ASSUME NEW k \in Caller, CallFails(k) PROVE RowFits'
  BY <1>11, RowEndStep DEF CallFails, shelf, RowFits, Members
<1>12. QED
  BY <1>1, <1>2, <1>3, <1>4, <1>5, <1>6, <1>7, <1>8, <1>9, <1>10, <1>11 DEF ColNext

\* No item outlives its collection or is added to one that was deleted meanwhile
\* (add_item, reorder, delete), and one transaction at most has the row locked.
THEOREM ColTyped == ColSpec => []ColTypeOK
<1>1. ColInit => RowFits
  BY DEF ColInit, RowFits, Members, Holds, Locking
<1>2. ColSpec => []RowFits
  BY <1>1, ColInductive, RowStep, PTL DEF ColSpec
<1>3. ColIInv /\ RowFits => ColTypeOK
  BY DEF ColIInv, ColShapes, RowFits, ColRow, Exclusive, Holds, Locking, IdleIsEmpty, ColTypeOK
<1>4. QED BY <1>2, <1>3, ColInductive, PTL

-----------------------------------------------------------------------------
(***************************************************************************)
(* Feeds: how many items are newer than one.                               *)
(***************************************************************************)
\* The k newest items of a list, and the others.
Newest(S, k) == {t \in S : Rank(S, t) < k}
Older(S, k) == {t \in S : Rank(S, t) >= k}

\* Sets of items are finite, and none is larger than one it is part of.
LEMMA ItemsFinite ==
  ASSUME NEW S \in SUBSET (1..Items)
  PROVE  /\ S \subseteq Nat /\ IsFiniteSet(S) /\ Cardinality(S) \in Nat
         /\ \A T \in SUBSET S : IsFiniteSet(T) /\ Cardinality(T) \in Nat
                                /\ Cardinality(T) <= Cardinality(S)
<1>1. IsFiniteSet(1..Items) /\ S \subseteq Nat
  BY FeedsAssumption, FS_Interval
<1>2. IsFiniteSet(S) /\ \A T \in SUBSET S : IsFiniteSet(T) /\ Cardinality(T) <= Cardinality(S)
  BY <1>1, FS_Subset
<1>3. QED BY <1>1, <1>2, FS_CardinalityType

\* Two sets that have nothing in common.
LEMMA PartsAddUp ==
  ASSUME NEW S \in SUBSET (1..Items), NEW T \in SUBSET (1..Items), S \cap T = {}
  PROVE  Cardinality(S \cup T) = Cardinality(S) + Cardinality(T)
<1>1. Cardinality(S \cup T) = Cardinality(S) + Cardinality(T) - Cardinality(S \cap T)
  BY ItemsFinite, FS_Union
<1>2. Cardinality(S \cap T) = 0
  BY FS_EmptySet
<1>3. QED BY <1>1, <1>2, ItemsFinite

\* Two sets that may overlap.
LEMMA UnionAtMost ==
  ASSUME NEW S \in SUBSET (1..Items), NEW T \in SUBSET (1..Items)
  PROVE  Cardinality(S \cup T) <= Cardinality(S) + Cardinality(T)
<1>1. Cardinality(S \cup T) = Cardinality(S) + Cardinality(T \ S)
  <2>1. S \cup T = S \cup (T \ S) /\ S \cap (T \ S) = {} /\ T \ S \in SUBSET (1..Items)
    OBVIOUS
  <2>2. QED BY <2>1, PartsAddUp
<1>2. Cardinality(T \ S) <= Cardinality(T) /\ Cardinality(T \ S) \in Nat
  BY ItemsFinite
<1>3. QED BY <1>1, <1>2, ItemsFinite

\* What a set has more than another one, by way of a third.
LEMMA ByWayOf ==
  ASSUME NEW S \in SUBSET (1..Items), NEW T \in SUBSET (1..Items), NEW U \in SUBSET (1..Items)
  PROVE  Cardinality(S \ U) <= Cardinality(S \ T) + Cardinality(T \ U)
<1>1. S \ U \subseteq (S \ T) \cup (T \ U) /\ (S \ T) \cup (T \ U) \in SUBSET (1..Items)
  OBVIOUS
<1>2. Cardinality(S \ U) <= Cardinality((S \ T) \cup (T \ U))
  BY <1>1, ItemsFinite
<1>3. Cardinality((S \ T) \cup (T \ U)) <= Cardinality(S \ T) + Cardinality(T \ U)
  BY UnionAtMost
<1>4. /\ Cardinality(S \ U) \in Nat /\ Cardinality(S \ T) \in Nat /\ Cardinality(T \ U) \in Nat
      /\ Cardinality((S \ T) \cup (T \ U)) \in Nat
  BY <1>1, ItemsFinite
<1>5. QED BY <1>2, <1>3, <1>4

\* A rank is a number, is less further up, and less where there are fewer.
LEMMA Ranks ==
  ASSUME NEW S \in SUBSET (1..Items), NEW t \in Nat
  PROVE  /\ Rank(S, t) \in Nat
         /\ \A u \in Nat : t <= u => Rank(S, u) <= Rank(S, t)
         /\ \A T \in SUBSET S : Rank(T, t) <= Rank(S, t)
<1>1. Rank(S, t) \in Nat
  BY ItemsFinite DEF Rank
<1>2. ASSUME NEW u \in Nat, t <= u
      PROVE  Rank(S, u) <= Rank(S, t)
  <2>1. S \subseteq Nat
    BY ItemsFinite
  <2>2. \A w \in S : w > u => w > t
    BY <1>2, <2>1
  <2>3. {w \in S : w > u} \subseteq {w \in S : w > t} /\ {w \in S : w > t} \in SUBSET (1..Items)
    BY <2>2
  <2>4. QED BY <2>3, ItemsFinite DEF Rank
<1>3. ASSUME NEW T \in SUBSET S
      PROVE  Rank(T, t) <= Rank(S, t)
  <2>1. {w \in T : w > t} \subseteq {w \in S : w > t} /\ {w \in S : w > t} \in SUBSET (1..Items)
    BY <1>3
  <2>2. QED BY <2>1, ItemsFinite DEF Rank
<1>4. QED BY <1>1, <1>2, <1>3

\* The oldest item of a list.
LEMMA OldestOf ==
  ASSUME NEW S \in SUBSET (1..Items), S # {}
  PROVE  \E m \in S : \A u \in S : m <= u
<1>1. S \in SUBSET Nat
  BY ItemsFinite
<1>2. PICK m \in S : \A u \in S : ~(<<u, m>> \in OpToRel(<, Nat))
  BY <1>1, NatLessThanWellFounded, WFMin
<1>3. \A u \in S : ~(u < m)
  BY <1>1, <1>2, Zenon DEF OpToRel
<1>4. QED BY <1>1, <1>3

\* The newest item of a list.
LEMMA NewestOf ==
  ASSUME NEW S \in SUBSET (1..Items), S # {}
  PROVE  \E m \in S : \A u \in S : u <= m
<1> DEFINE R == {Items + 1 - t : t \in S}
<1>1. R \in SUBSET (1..Items) /\ R # {}
  <2>1. \A t \in S : Items + 1 - t \in 1..Items
    BY FeedsAssumption
  <2>2. QED BY <2>1
<1>2. PICK r \in R : \A u \in R : r <= u
  BY <1>1, OldestOf
<1>3. PICK m \in S : r = Items + 1 - m
  BY <1>2
<1>4. \A u \in S : Items + 1 - m <= Items + 1 - u
  BY <1>2, <1>3
<1>5. \A u \in S : u <= m
  BY <1>4, FeedsAssumption
<1>6. QED BY <1>5

\* An item and those that are newer than it.
LEMMA RankCounts ==
  ASSUME NEW S \in SUBSET (1..Items), NEW t \in 1..Items
  PROVE  Cardinality({t} \cup {u \in S : u > t}) = Rank(S, t) + 1
<1>1. {t} \cap {u \in S : u > t} = {}
  BY FeedsAssumption
<1>2. Cardinality({t}) = 1 /\ {t} \in SUBSET (1..Items) /\ {u \in S : u > t} \in SUBSET (1..Items)
  BY FS_Singleton
<1>3. QED BY <1>1, <1>2, PartsAddUp, Ranks DEF Rank

\* There are at most k newest items, and as many if there is another one.
LEMMA NewestCount ==
  ASSUME NEW S \in SUBSET (1..Items), NEW k \in Nat
  PROVE  /\ Cardinality(Newest(S, k)) <= k
         /\ Older(S, k) # {} => /\ Cardinality(Newest(S, k)) >= k
                                /\ Cardinality(Newest(S, k + 1)) >= k + 1
<1>1. /\ S \subseteq Nat /\ Newest(S, k) \in SUBSET (1..Items) /\ Newest(S, k + 1) \in SUBSET (1..Items)
      /\ Older(S, k) \in SUBSET (1..Items)
  BY ItemsFinite DEF Newest, Older
<1>2. Cardinality(Newest(S, k)) <= k
  <2>1. CASE Newest(S, k) = {}
    BY <2>1, FS_EmptySet
  <2>2. CASE Newest(S, k) # {}
    <3>1. PICK m \in Newest(S, k) : \A u \in Newest(S, k) : m <= u
      BY <1>1, <2>2, OldestOf
    <3>2. m \in 1..Items /\ Rank(S, m) < k /\ Rank(S, m) \in Nat
      BY <1>1, <3>1, Ranks DEF Newest
    <3>3. Newest(S, k) \subseteq {m} \cup {u \in S : u > m}
      BY <1>1, <3>1 DEF Newest
    <3>4. {m} \cup {u \in S : u > m} \in SUBSET (1..Items)
      BY <3>2
    <3>5. /\ Cardinality(Newest(S, k)) <= Cardinality({m} \cup {u \in S : u > m})
          /\ Cardinality(Newest(S, k)) \in Nat
      BY <3>3, <3>4, ItemsFinite
    <3>6. QED BY <3>2, <3>5, RankCounts
  <2>3. QED BY <2>1, <2>2
<1>3. ASSUME Older(S, k) # {}
      PROVE  Cardinality(Newest(S, k)) >= k /\ Cardinality(Newest(S, k + 1)) >= k + 1
  <2>1. PICK t \in Older(S, k) : \A u \in Older(S, k) : u <= t
    BY <1>1, <1>3, NewestOf
  <2>2. t \in 1..Items /\ t \in S /\ Rank(S, t) >= k /\ Rank(S, t) \in Nat
    BY <1>1, <2>1, Ranks DEF Older
  <2>3. \A u \in S : Rank(S, u) \in Nat
    BY <1>1, Ranks
  <2>4. {u \in S : u > t} \subseteq Newest(S, k)
    <3> SUFFICES ASSUME NEW u \in S, u > t PROVE Rank(S, u) < k
      BY DEF Newest
    <3>1. ~(u <= t)
      BY <1>1, <2>2
    <3>2. ~(Rank(S, u) >= k)
      BY <2>1, <3>1 DEF Older
    <3>3. QED BY <2>3, <3>2
  <2>5. Rank(S, t) <= Cardinality(Newest(S, k)) /\ Cardinality(Newest(S, k)) \in Nat
    BY <1>1, <2>4, ItemsFinite DEF Rank
  <2>6. Rank(S, t) < k + 1
    BY <1>2, <2>2, <2>5
  <2>7. {t} \cup {u \in S : u > t} \subseteq Newest(S, k + 1)
    <3>1. \A u \in Newest(S, k) : u \in S /\ Rank(S, u) < k + 1
      BY <2>3 DEF Newest
    <3>2. \A u \in {t} \cup {u \in S : u > t} : u \in S /\ Rank(S, u) < k + 1
      BY <2>2, <2>4, <2>6, <3>1
    <3>3. QED BY <3>2 DEF Newest
  <2>8. /\ Cardinality({t} \cup {u \in S : u > t}) <= Cardinality(Newest(S, k + 1))
        /\ Cardinality(Newest(S, k + 1)) \in Nat
    BY <1>1, <2>7, ItemsFinite
  <2>9. Cardinality({t} \cup {u \in S : u > t}) = Rank(S, t) + 1
    BY <2>2, RankCounts
  <2>10. QED BY <2>2, <2>5, <2>8, <2>9
<1>4. QED BY <1>2, <1>3

\* Whatever is taken from a list and added to it, no more items move up past an
\* offset, or are gone from behind it, than were taken.
LEMMA AtMostMoved ==
  ASSUME NEW S \in SUBSET (1..Items), NEW T \in SUBSET (1..Items), NEW k \in Nat
  PROVE  Cardinality(Older(S, k) \ Older(T, k)) <= Cardinality(S \ T)
<1> DEFINE H == Newest(S, k)
           L == Older(S, k)
           Y == L \cap Newest(T, k)
<1>1. /\ S \subseteq Nat /\ T \subseteq Nat
      /\ \A t \in S : Rank(S, t) \in Nat
      /\ \A t \in T : Rank(T, t) \in Nat
  BY ItemsFinite, Ranks
<1>2. L \ Older(T, k) = (L \ T) \cup Y /\ L \cup H = S /\ L \cap H = {}
  <2>1. \A t \in S : Rank(S, t) < k <=> ~(Rank(S, t) >= k)
    BY <1>1
  <2>2. \A t \in T : Rank(T, t) < k <=> ~(Rank(T, t) >= k)
    BY <1>1
  <2>3. QED BY <2>1, <2>2 DEF Newest, Older
<1>3. L \in SUBSET (1..Items) /\ H \in SUBSET (1..Items) /\ Y \in SUBSET (1..Items)
  BY DEF Newest, Older
<1>4. /\ \A t \in H : t \in S /\ Rank(S, t) < k
      /\ \A t \in L : t \in S /\ Rank(S, t) >= k
      /\ \A t \in Y : t \in L /\ t \in T /\ Rank(T, t) < k
      /\ Cardinality(H) >= k \/ L = {}
  BY NewestCount DEF Newest, Older
<1> HIDE DEF H, L, Y
<1>5. Cardinality(Y) <= Cardinality(H \ T)
  <2>1. CASE Y = {}
    BY <1>3, <2>1, FS_EmptySet, ItemsFinite
  <2>2. CASE Y # {}
    <3>1. PICK m \in Y : \A u \in Y : m <= u
      BY <1>3, <2>2, OldestOf
    <3>2. m \in 1..Items /\ m \in L /\ m \in S /\ m \in T /\ Rank(S, m) >= k /\ Rank(T, m) < k
      BY <1>3, <1>4, <3>1
    <3>3. \A u \in H \cap T : u > m
      <4> SUFFICES ASSUME NEW u \in H \cap T, u <= m PROVE FALSE
        BY <1>1, <1>3, <3>2
      <4>1. Rank(S, u) < k /\ u \in Nat /\ m \in Nat
        BY <1>1, <1>4, <3>2
      <4>2. Rank(S, m) <= Rank(S, u)
        BY <4>1, Ranks
      <4>3. QED BY <1>1, <1>4, <3>2, <4>1, <4>2
    <3>4. Y \cup (H \cap T) \subseteq {m} \cup {u \in T : u > m}
      <4>1. \A u \in Y : u \in T /\ (u = m \/ u > m)
        BY <1>1, <1>4, <3>1, <3>2
      <4>2. QED BY <3>3, <4>1
    <3>5. {m} \cup {u \in T : u > m} \in SUBSET (1..Items)
      BY <3>2
    <3>6. Cardinality({m} \cup {u \in T : u > m}) = Rank(T, m) + 1 /\ Rank(T, m) + 1 <= k
      BY <1>1, <3>2, RankCounts
    <3>7. /\ Cardinality(Y \cup (H \cap T)) <= Cardinality({m} \cup {u \in T : u > m})
          /\ Cardinality(Y \cup (H \cap T)) \in Nat
      BY <3>4, <3>5, ItemsFinite
    <3>8. Cardinality(Y \cup (H \cap T)) = Cardinality(Y) + Cardinality(H \cap T)
      <4>1. Y \cap (H \cap T) = {} /\ H \cap T \in SUBSET (1..Items)
        BY <1>2, <1>3, <1>4
      <4>2. QED BY <1>3, <4>1, PartsAddUp
    <3>9. Cardinality(H) = Cardinality(H \cap T) + Cardinality(H \ T)
      <4>1. /\ H = (H \cap T) \cup (H \ T) /\ (H \cap T) \cap (H \ T) = {}
            /\ H \cap T \in SUBSET (1..Items) /\ H \ T \in SUBSET (1..Items)
        BY <1>3
      <4>2. QED BY <4>1, PartsAddUp
    <3>10. Cardinality(H) >= k
      BY <1>4, <3>2
    <3>11. /\ Cardinality(Y) \in Nat /\ Cardinality(H) \in Nat
           /\ Cardinality(H \cap T) \in Nat /\ Cardinality(H \ T) \in Nat
      BY <1>3, ItemsFinite
    <3>12. QED BY <1>1, <3>2, <3>6, <3>7, <3>8, <3>9, <3>10, <3>11
  <2>3. QED BY <2>1, <2>2
<1>6. Cardinality(S \ T) = Cardinality(L \ T) + Cardinality(H \ T)
  <2>1. /\ S \ T = (L \ T) \cup (H \ T) /\ (L \ T) \cap (H \ T) = {}
        /\ L \ T \in SUBSET (1..Items) /\ H \ T \in SUBSET (1..Items)
    BY <1>2, <1>3
  <2>2. QED BY <2>1, PartsAddUp
<1>7. Cardinality((L \ T) \cup Y) <= Cardinality(L \ T) + Cardinality(Y)
  BY <1>3, UnionAtMost
<1>8. /\ Cardinality(L \ T) \in Nat /\ Cardinality(Y) \in Nat /\ Cardinality(H \ T) \in Nat
      /\ Cardinality((L \ T) \cup Y) \in Nat
  BY <1>3, ItemsFinite
<1>9. Cardinality(L \ Older(T, k)) <= Cardinality(S \ T)
  BY <1>2, <1>5, <1>6, <1>7, <1>8
<1>10. QED BY <1>9 DEF L

-----------------------------------------------------------------------------
(***************************************************************************)
(* Feeds: pages.                                                           *)
(***************************************************************************)
\* A slice is the newest items without those that are newer still.
LEMMA SliceIs ==
  ASSUME NEW S \in SUBSET (1..Items), NEW o \in Nat, NEW l \in Nat
  PROVE  Slice(S, o, l) = Newest(S, o + l) \ Newest(S, o)
<1>1. \A t \in S : Rank(S, t) \in Nat
  BY ItemsFinite, Ranks
<1>2. \A t \in S : Rank(S, t) \in o..(o + l - 1) <=> Rank(S, t) < o + l /\ ~(Rank(S, t) < o)
  BY <1>1
<1>3. QED BY <1>2 DEF Slice, Newest

\* A page is the older items without those that are older still.
LEMMA SliceBetween ==
  ASSUME NEW S \in SUBSET (1..Items), NEW o \in Nat
  PROVE  Slice(S, o, PerPage) = Older(S, o) \ Older(S, o + PerPage)
<1>1. PerPage \in Nat /\ \A t \in S : Rank(S, t) \in Nat
  BY ItemsFinite, Ranks, FeedsAssumption
<1>2. \A t \in S : Rank(S, t) \in o..(o + PerPage - 1)
                  <=> Rank(S, t) >= o /\ ~(Rank(S, t) >= o + PerPage)
  BY <1>1
<1>3. QED BY <1>2 DEF Slice, Older

\* A slice that is not full is the last one.
LEMMA LastSlice ==
  ASSUME NEW S \in SUBSET (1..Items), NEW o \in Nat, NEW l \in Nat,
         Cardinality(Slice(S, o, l + 1)) <= l
  PROVE  Older(S, o + l) = {}
<1> SUFFICES ASSUME Older(S, o + l) # {} PROVE FALSE
  OBVIOUS
<1> DEFINE A == Newest(S, o + l + 1)
           B == Newest(S, o)
<1>1. A \in SUBSET (1..Items) /\ B \in SUBSET (1..Items)
  BY DEF Newest
<1>2. Cardinality(A) >= o + l + 1 /\ Cardinality(B) <= o
  BY NewestCount
<1>3. Slice(S, o, l + 1) = A \ B
  <2>1. o + (l + 1) = o + l + 1
    OBVIOUS
  <2>2. QED BY <2>1, SliceIs
<1> HIDE DEF A, B
<1>4. Cardinality(A \cup B) = Cardinality(A \ B) + Cardinality(B)
  <2>1. A \cup B = (A \ B) \cup B /\ (A \ B) \cap B = {} /\ A \ B \in SUBSET (1..Items)
    BY <1>1
  <2>2. QED BY <1>1, <2>1, PartsAddUp
<1>5. /\ Cardinality(A) <= Cardinality(A \cup B) /\ Cardinality(A) \in Nat
      /\ Cardinality(A \cup B) \in Nat /\ Cardinality(A \ B) \in Nat /\ Cardinality(B) \in Nat
  BY <1>1, ItemsFinite
<1>6. QED BY <1>2, <1>3, <1>4, <1>5

\* A page is the beginning of what was fetched of it.
LEMMA SliceOfSlice ==
  ASSUME NEW S \in SUBSET (1..Items), NEW o \in Nat, NEW l \in Nat
  PROVE  Older(S, o) \ Older(S, o + l) \subseteq Slice(Slice(S, o, l + 1), 0, l)
<1> SUFFICES ASSUME NEW t \in S, Rank(S, t) >= o, ~(Rank(S, t) >= o + l)
             PROVE  t \in Slice(Slice(S, o, l + 1), 0, l)
  BY DEF Older
<1> DEFINE Q == Slice(S, o, l + 1)
           A == {u \in Q : u > t}
           B == Newest(S, o)
<1>1. Rank(S, t) \in Nat /\ t \in Nat /\ S \subseteq Nat
  BY ItemsFinite, Ranks
<1>2. t \in Q
  BY <1>1 DEF Slice
<1>3. A \in SUBSET (1..Items) /\ B \in SUBSET (1..Items) /\ {u \in S : u > t} \in SUBSET (1..Items)
  BY DEF Slice, Newest
<1>4. A \cap B = {}
  <2>1. l + 1 \in Nat
    OBVIOUS
  <2>2. Q = Newest(S, o + (l + 1)) \ Newest(S, o)
    BY <2>1, SliceIs
  <2>3. QED BY <2>2
<1>5. A \cup B \subseteq {u \in S : u > t}
  <2>1. A \subseteq {u \in S : u > t}
    BY DEF Slice
  <2>2. ASSUME NEW u \in B PROVE u > t
    <3>1. u \in S /\ Rank(S, u) < o
      BY DEF Newest
    <3>2. u <= t => Rank(S, t) <= Rank(S, u) /\ Rank(S, u) \in Nat
      BY <1>1, <3>1, Ranks
    <3>3. QED BY <1>1, <3>1, <3>2
  <2>3. QED BY <2>1, <2>2 DEF Newest
<1>6. Cardinality(B) >= o
  BY NewestCount DEF Older
<1>7. Rank(Q, t) = Cardinality(A)
  BY DEF Rank
<1> HIDE DEF Q, A, B
<1>8. Cardinality(A) + Cardinality(B) <= Rank(S, t)
  <2>1. Cardinality(A \cup B) = Cardinality(A) + Cardinality(B)
    BY <1>3, <1>4, PartsAddUp
  <2>2. Cardinality(A \cup B) <= Rank(S, t)
    BY <1>3, <1>5, ItemsFinite DEF Rank
  <2>3. QED BY <2>1, <2>2
<1>9. Cardinality(A) \in Nat /\ Cardinality(B) \in Nat
  BY <1>3, ItemsFinite
<1>10. Rank(Q, t) \in 0..(0 + l - 1)
  BY <1>1, <1>6, <1>7, <1>8, <1>9
<1>11. QED BY <1>2, <1>10 DEF Slice, Q

\* The newest of two lists together are among the newest of each.
LEMMA MergeOfTwo ==
  ASSUME NEW F \in SUBSET (1..Items), NEW P \in SUBSET (1..Items),
         NEW n \in Nat, NEW k \in 0..n
  PROVE  Newest(Newest(F, n) \cup Newest(P, n), k) = Newest(F \cup P, k)
<1> DEFINE M == Newest(F, n) \cup Newest(P, n)
           V == F \cup P
<1>1. /\ M \in SUBSET (1..Items) /\ V \in SUBSET (1..Items) /\ M \in SUBSET V
      /\ V \subseteq Nat /\ F \in SUBSET V /\ P \in SUBSET V
  BY ItemsFinite DEF Newest
<1>2. \A t \in V : /\ Rank(M, t) \in Nat /\ Rank(V, t) \in Nat /\ Rank(M, t) <= Rank(V, t)
                   /\ Rank(F, t) \in Nat /\ Rank(F, t) <= Rank(V, t)
                   /\ Rank(P, t) \in Nat /\ Rank(P, t) <= Rank(V, t)
  BY <1>1, Ranks
<1>3. ASSUME NEW t \in V, Rank(V, t) < k
      PROVE  t \in M /\ Rank(M, t) < k
  BY <1>2, <1>3 DEF Newest
<1>4. ASSUME NEW S \in {F, P}, NEW u \in S, u \notin M, NEW t \in M, u > t
      PROVE  Rank(M, t) >= n
  <2>1. /\ S \in SUBSET (1..Items) /\ S \subseteq Nat /\ Newest(S, n) \subseteq M
        /\ u \notin Newest(S, n) /\ t \in Nat /\ u \in Nat
    BY <1>1, <1>4
  <2>2. Rank(S, u) \in Nat /\ Rank(S, u) >= n
    BY <2>1, Ranks DEF Newest
  <2>3. Older(S, n) # {}
    BY <2>2 DEF Older
  <2>4. Cardinality(Newest(S, n)) >= n
    BY <2>1, <2>3, NewestCount
  <2>5. ASSUME NEW w \in Newest(S, n) PROVE w > t
    <3>1. w \in S /\ Rank(S, w) < n /\ w \in Nat
      BY <2>1 DEF Newest
    <3>2. w <= u => Rank(S, u) <= Rank(S, w) /\ Rank(S, w) \in Nat
      BY <2>1, <3>1, Ranks
    <3>3. QED BY <1>4, <2>1, <2>2, <3>1, <3>2
  <2>6. Newest(S, n) \subseteq {w \in M : w > t} /\ {w \in M : w > t} \in SUBSET (1..Items)
    BY <1>1, <2>1, <2>5
  <2>7. Cardinality(Newest(S, n)) <= Rank(M, t) /\ Cardinality(Newest(S, n)) \in Nat
    BY <2>6, ItemsFinite DEF Rank
  <2>8. QED BY <1>1, <1>2, <2>4, <2>7
<1>5. ASSUME NEW t \in M, Rank(M, t) < k
      PROVE  Rank(V, t) < k
  <2>1. ~(Rank(M, t) >= n) /\ t \in V
    BY <1>1, <1>2, <1>5
  <2>2. \A u \in V : u > t => u \in M
    BY <1>4, <2>1
  <2>3. {u \in V : u > t} = {u \in M : u > t}
    BY <1>1, <2>2
  <2>4. QED BY <1>5, <2>3 DEF Rank
<1>6. \A t : t \in M /\ Rank(M, t) < k <=> t \in V /\ Rank(V, t) < k
  BY <1>1, <1>3, <1>5
<1>7. QED BY <1>6 DEF Newest

-----------------------------------------------------------------------------
(***************************************************************************)
(* Feeds: the inductive invariant.                                         *)
(***************************************************************************)
\* The items of the first and of the second query.
Firsts == Of(First)
Seconds == IF feed = "comments" THEN {} ELSE Of("paste")

\* What is behind the position k of a list f of F and P.
Behind(f, F, P, k) ==
  IF f = "explore" THEN Older(F \cup P, k) ELSE Older(F, k) \cup Older(P, k)

\* What the query for the page from position k on returns of S.
Fetched(f, S, k) == IF f = "explore" THEN Slice(S, 0, k + PerPage + 1) ELSE Slice(S, k, PerPage + 1)

Unseen == listed \ shown

\* Between two pages, the next ones still have to show what was not seen, but for
\* one item for each that was removed.
BetweenPages ==
  files = None /\ page > 1 =>
    Cardinality(Unseen \ Behind(feed, Firsts, Seconds, Offset)) <= gone

\* Between the queries of a page, the first of which found the items F.
BetweenQueries ==
  files # None =>
    \E F \in SUBSET (1..Items) :
      /\ files = Fetched(feed, F, Offset)
      /\ Cardinality(Unseen \ Behind(feed, F, Seconds, Offset)) + Cardinality(F \ Firsts) <= gone

FeedIInv ==
  FeedTypeOK /\ (page = 0 => files = None /\ more) /\ BetweenPages /\ BetweenQueries /\ FeedComplete

-----------------------------------------------------------------------------
(***************************************************************************)
(* Feeds: every step keeps it.                                             *)
(***************************************************************************)
\* Whatever is taken from the two lists and added to them.
LEMMA BehindMoved ==
  ASSUME NEW f, NEW F \in SUBSET (1..Items), NEW P \in SUBSET (1..Items),
         NEW G \in SUBSET (1..Items), NEW R \in SUBSET (1..Items), NEW k \in Nat
  PROVE  Cardinality(Behind(f, F, P, k) \ Behind(f, G, R, k)) <= Cardinality(F \ G) + Cardinality(P \ R)
<1>1. /\ Cardinality(F \ G) \in Nat /\ Cardinality(P \ R) \in Nat
      /\ Cardinality((F \ G) \cup (P \ R)) \in Nat
      /\ (F \ G) \cup (P \ R) \in SUBSET (1..Items)
  BY ItemsFinite
<1>2. Cardinality((F \ G) \cup (P \ R)) <= Cardinality(F \ G) + Cardinality(P \ R)
  BY UnionAtMost
<1>3. CASE f = "explore"
  <2> DEFINE V == F \cup P
             B == G \cup R
  <2>1. V \in SUBSET (1..Items) /\ B \in SUBSET (1..Items) /\ V \ B \subseteq (F \ G) \cup (P \ R)
    OBVIOUS
  <2>2. Behind(f, F, P, k) = Older(V, k) /\ Behind(f, G, R, k) = Older(B, k)
    BY <1>3 DEF Behind
  <2> HIDE DEF V, B
  <2>3. Cardinality(Older(V, k) \ Older(B, k)) <= Cardinality(V \ B)
    BY <2>1, AtMostMoved
  <2>4. Cardinality(V \ B) <= Cardinality((F \ G) \cup (P \ R)) /\ Cardinality(V \ B) \in Nat
    BY <1>1, <2>1, ItemsFinite
  <2>5. Older(V, k) \ Older(B, k) \in SUBSET (1..Items)
    BY <2>1 DEF Older
  <2>6. Cardinality(Older(V, k) \ Older(B, k)) \in Nat
    BY <2>5, ItemsFinite
  <2>7. QED BY <1>1, <1>2, <2>2, <2>3, <2>4, <2>6
<1>4. CASE f # "explore"
  <2> DEFINE A == Older(F, k) \ Older(G, k)
             C == Older(P, k) \ Older(R, k)
             D == Behind(f, F, P, k) \ Behind(f, G, R, k)
  <2>1. D \subseteq A \cup C /\ A \in SUBSET (1..Items) /\ C \in SUBSET (1..Items)
    BY <1>4 DEF Behind, Older
  <2>2. Cardinality(A) <= Cardinality(F \ G) /\ Cardinality(C) <= Cardinality(P \ R)
    BY AtMostMoved
  <2> HIDE DEF A, C, D
  <2>3. A \cup C \in SUBSET (1..Items) /\ Cardinality(A \cup C) <= Cardinality(A) + Cardinality(C)
    BY <2>1, UnionAtMost
  <2>4. /\ Cardinality(D) <= Cardinality(A \cup C) /\ Cardinality(D) \in Nat
        /\ Cardinality(A \cup C) \in Nat /\ Cardinality(A) \in Nat /\ Cardinality(C) \in Nat
    BY <2>1, <2>3, ItemsFinite
  <2>5. Cardinality(D) <= Cardinality(F \ G) + Cardinality(P \ R)
    BY <1>1, <2>2, <2>3, <2>4
  <2>6. QED BY <2>5 DEF D
<1>5. QED BY <1>3, <1>4

\* What is not seen and not behind the offset, once the lists have changed.
LEMMA UnseenMoved ==
  ASSUME NEW U \in SUBSET (1..Items), NEW f, NEW F \in SUBSET (1..Items), NEW P \in SUBSET (1..Items),
         NEW G \in SUBSET (1..Items), NEW R \in SUBSET (1..Items), NEW k \in Nat
  PROVE  /\ Cardinality(U \ Behind(f, G, R, k))
              <= Cardinality(U \ Behind(f, F, P, k)) + Cardinality(F \ G) + Cardinality(P \ R)
         /\ Cardinality(U \ Behind(f, G, R, k)) \in Nat
         /\ Cardinality(F \ G) \in Nat /\ Cardinality(P \ R) \in Nat
<1> DEFINE S == Behind(f, F, P, k)
           T == Behind(f, G, R, k)
<1>1. S \in SUBSET (1..Items) /\ T \in SUBSET (1..Items)
  BY DEF Behind, Older
<1>2. Cardinality(S \ T) <= Cardinality(F \ G) + Cardinality(P \ R)
  BY BehindMoved
<1> HIDE DEF S, T
<1>3. Cardinality(U \ T) <= Cardinality(U \ S) + Cardinality(S \ T)
  BY <1>1, ByWayOf
<1>4. /\ Cardinality(U \ T) \in Nat /\ Cardinality(U \ S) \in Nat /\ Cardinality(S \ T) \in Nat
      /\ Cardinality(F \ G) \in Nat /\ Cardinality(P \ R) \in Nat
  BY <1>1, ItemsFinite
<1>5. Cardinality(U \ T) <= Cardinality(U \ S) + Cardinality(F \ G) + Cardinality(P \ R)
  BY <1>2, <1>3, <1>4
<1>6. QED BY <1>4, <1>5 DEF S, T

\* The sets of the items are what the types say.
LEMMA FeedSets ==
  ASSUME FeedIInv
  PROVE  /\ Firsts \in SUBSET (1..Items) /\ Seconds \in SUBSET (1..Items)
         /\ Unseen \in SUBSET (1..Items) /\ gone \in Nat
         /\ page > 0 => Offset \in Nat
         /\ Listed = Firsts \cup Seconds
<1>1. /\ Firsts \in SUBSET (1..Items) /\ Seconds \in SUBSET (1..Items)
      /\ Unseen \in SUBSET (1..Items) /\ gone \in Nat
  BY FeedsAssumption DEF FeedIInv, FeedTypeOK, Firsts, Seconds, Of, Unseen
<1>2. page > 0 => Offset \in Nat
  <2> SUFFICES ASSUME page > 0 PROVE Offset \in Nat
    OBVIOUS
  <2>1. page - 1 \in Nat /\ PerPage \in Nat
    BY FeedsAssumption DEF FeedIInv, FeedTypeOK
  <2>2. QED BY <2>1 DEF Offset
<1>3. Listed = Firsts \cup Seconds
  <2>1. \A t \in 1..Items : kindOf[t] \in {None} \cup Listable
    BY DEF FeedIInv, FeedTypeOK
  <2>2. \A t \in 1..Items :
          kindOf[t] # None <=> (kindOf[t] = First \/ (feed # "comments" /\ kindOf[t] = "paste"))
    BY <2>1, FeedsNoneAssumption DEF Listable, First
  <2>3. QED BY <2>2 DEF Listed, Firsts, Seconds, Of
<1>4. QED BY <1>1, <1>2, <1>3

\* An item comes or goes.
LEMMA ItemStep ==
  ASSUME FeedIInv, page \in 1..Items, more,
         (\E t \in 1..Items : Withdraw(t) \/ \E k \in Listable : Publish(t, k))
  PROVE  FeedIInv'
<1>1. /\ UNCHANGED <<feed, page, files, more, listed, shown>>
      /\ gone' \in Nat /\ gone' \in 0..Removals
  <2>1. gone \in 0..Removals /\ Removals \in Nat
    BY FeedsAssumption DEF FeedIInv, FeedTypeOK
  <2>2. gone' = gone \/ (gone < Removals /\ gone' = gone + 1)
    BY DEF Withdraw, Publish
  <2>3. UNCHANGED <<feed, page, files, more, listed, shown>>
    BY DEF Withdraw, Publish
  <2>4. QED BY <2>1, <2>2, <2>3
<1>2. /\ Firsts \in SUBSET (1..Items) /\ Seconds \in SUBSET (1..Items)
      /\ Unseen \in SUBSET (1..Items) /\ gone \in Nat /\ Offset \in Nat
  BY FeedSets, FeedsAssumption
<1>3. FeedTypeOK'
  BY <1>1 DEF FeedIInv, FeedTypeOK, Withdraw, Publish, Listable
<1>4. Offset' = Offset /\ Unseen' = Unseen /\ Listable' = Listable /\ First' = First
  BY <1>1 DEF Offset, Unseen, Listable, First
<1>5. Firsts' \in SUBSET (1..Items) /\ Seconds' \in SUBSET (1..Items)
  BY DEF Firsts, Seconds, Of
<1>6. Cardinality(Firsts \ Firsts') + Cardinality(Seconds \ Seconds') <= gone' - gone
  <2>1. CASE \E t \in 1..Items : Withdraw(t)
    <3>1. PICK t \in 1..Items : Withdraw(t)
      BY <2>1
    <3>2. gone' = gone + 1 /\ \A u \in 1..Items : u # t => kindOf'[u] = kindOf[u]
      BY <3>1 DEF Withdraw, FeedIInv, FeedTypeOK
    <3>3. Firsts \ Firsts' \subseteq {t} /\ Seconds \ Seconds' \subseteq {t}
      BY <1>1, <1>4, <3>2 DEF Firsts, Seconds, Of
    <3>4. Firsts \cap Seconds = {}
      BY DEF Firsts, Seconds, Of, First
    <3>5. /\ Firsts \ Firsts' = {} \/ Firsts \ Firsts' = {t}
          /\ Seconds \ Seconds' = {} \/ Seconds \ Seconds' = {t}
          /\ Firsts \ Firsts' = {} \/ Seconds \ Seconds' = {}
      BY <3>3, <3>4
    <3>6. Cardinality({t}) = 1 /\ Cardinality({}) = 0
      BY FS_Singleton, FS_EmptySet
    <3> DEFINE A == Firsts \ Firsts'
               B == Seconds \ Seconds'
    <3>7. (Cardinality(A) = 0 /\ Cardinality(B) = 0) \/ (Cardinality(A) = 1 /\ Cardinality(B) = 0)
          \/ (Cardinality(A) = 0 /\ Cardinality(B) = 1)
      BY <3>5, <3>6
    <3> HIDE DEF A, B
    <3>8. Cardinality(A) + Cardinality(B) <= gone' - gone
      BY <1>2, <3>2, <3>7
    <3>9. QED BY <3>8 DEF A, B
  <2>2. CASE \E t \in 1..Items, k \in Listable : Publish(t, k)
    <3>1. PICK t \in 1..Items, k \in Listable : Publish(t, k)
      BY <2>2
    <3>2. /\ gone' = gone /\ kindOf[t] = None
          /\ \A u \in 1..Items : u # t => kindOf'[u] = kindOf[u]
      BY <3>1 DEF Publish, FeedIInv, FeedTypeOK
    <3>3. t \notin Firsts /\ t \notin Seconds
      BY <3>2, FeedsNoneAssumption DEF Firsts, Seconds, Of, First
    <3>4. Firsts \ Firsts' = {} /\ Seconds \ Seconds' = {}
      BY <1>1, <1>4, <3>2, <3>3 DEF Firsts, Seconds, Of
    <3>5. Cardinality({}) = 0
      BY FS_EmptySet
    <3>6. QED BY <1>2, <3>2, <3>4, <3>5
  <2>3. QED BY <2>1, <2>2
<1>7. BetweenPages'
  <2> SUFFICES ASSUME files' = None, page' > 1
               PROVE  Cardinality(Unseen' \ Behind(feed', Firsts', Seconds', Offset')) <= gone'
    BY DEF BetweenPages
  <2>1. Cardinality(Unseen \ Behind(feed, Firsts, Seconds, Offset)) <= gone
    BY <1>1 DEF FeedIInv, BetweenPages
  <2>2. /\ Cardinality(Unseen \ Behind(feed, Firsts', Seconds', Offset))
             <= Cardinality(Unseen \ Behind(feed, Firsts, Seconds, Offset))
                + Cardinality(Firsts \ Firsts') + Cardinality(Seconds \ Seconds')
        /\ Cardinality(Unseen \ Behind(feed, Firsts', Seconds', Offset)) \in Nat
        /\ Cardinality(Firsts \ Firsts') \in Nat /\ Cardinality(Seconds \ Seconds') \in Nat
    BY <1>2, <1>5, UnseenMoved
  <2>3. Cardinality(Unseen \ Behind(feed, Firsts, Seconds, Offset)) \in Nat
    BY <1>2, UnseenMoved
  <2>4. Cardinality(Unseen \ Behind(feed, Firsts', Seconds', Offset)) <= gone'
    BY <1>1, <1>2, <1>6, <2>1, <2>2, <2>3
  <2>5. QED BY <1>1, <1>4, <2>4
<1>8. BetweenQueries'
  <2> SUFFICES ASSUME files' # None
               PROVE  \E F \in SUBSET (1..Items) :
                        /\ files' = Fetched(feed', F, Offset')
                        /\ Cardinality(Unseen' \ Behind(feed', F, Seconds', Offset'))
                             + Cardinality(F \ Firsts') <= gone'
    BY DEF BetweenQueries
  <2>1. PICK F \in SUBSET (1..Items) :
          /\ files = Fetched(feed, F, Offset)
          /\ Cardinality(Unseen \ Behind(feed, F, Seconds, Offset)) + Cardinality(F \ Firsts) <= gone
    BY <1>1 DEF FeedIInv, BetweenQueries
  <2>2. /\ Cardinality(Unseen \ Behind(feed, F, Seconds', Offset))
             <= Cardinality(Unseen \ Behind(feed, F, Seconds, Offset))
                + Cardinality(F \ F) + Cardinality(Seconds \ Seconds')
        /\ Cardinality(Unseen \ Behind(feed, F, Seconds', Offset)) \in Nat
        /\ Cardinality(Seconds \ Seconds') \in Nat
    BY <1>2, <1>5, UnseenMoved
  <2>3. Cardinality(F \ F) = 0
    BY FS_EmptySet
  <2>4. Cardinality(F \ Firsts') <= Cardinality(F \ Firsts) + Cardinality(Firsts \ Firsts')
    BY <1>2, <1>5, ByWayOf
  <2>5. /\ Cardinality(Unseen \ Behind(feed, F, Seconds, Offset)) \in Nat
        /\ Cardinality(F \ Firsts) \in Nat
    BY <1>2, UnseenMoved
  <2>6. Cardinality(F \ Firsts') \in Nat /\ Cardinality(Firsts \ Firsts') \in Nat
    BY <1>2, <1>5, ItemsFinite
  <2>7. Cardinality(Unseen \ Behind(feed, F, Seconds', Offset)) + Cardinality(F \ Firsts') <= gone'
    BY <1>1, <1>2, <1>6, <2>1, <2>2, <2>3, <2>4, <2>5, <2>6
  <2>8. QED BY <1>1, <1>4, <2>1, <2>7
<1>9. FeedComplete' /\ (page' = 0 => files' = None /\ more')
  BY <1>1 DEF FeedComplete, FeedIInv
<1>10. QED BY <1>3, <1>7, <1>8, <1>9 DEF FeedIInv

\* The first query of a page.
LEMMA FirstStep ==
  ASSUME FeedIInv, page \in 1..Items, QueryFirst
  PROVE  FeedIInv'
<1>1. /\ more /\ files = None /\ files' = Query(First)
      /\ listed' = IF page = 1 THEN Listed ELSE listed
      /\ gone' = IF page = 1 THEN 0 ELSE gone
      /\ UNCHANGED <<feed, kindOf, page, more, shown>>
  BY DEF QueryFirst
<1>2. /\ Firsts \in SUBSET (1..Items) /\ Seconds \in SUBSET (1..Items)
      /\ Unseen \in SUBSET (1..Items) /\ gone \in Nat /\ Offset \in Nat
      /\ Listed = Firsts \cup Seconds
  BY FeedSets, FeedsAssumption
<1>3. Offset' = Offset /\ Firsts' = Firsts /\ Seconds' = Seconds /\ page \in Nat
  BY <1>1, FeedsAssumption DEF Offset, Firsts, Seconds, Of, First
<1>4. files' = Fetched(feed, Firsts, Offset)
  <2>1. Through = Offset + PerPage + 1
    <3>1. page * PerPage = (page - 1) * PerPage + PerPage
      BY <1>3, FeedsAssumption
    <3>2. QED BY <3>1 DEF Through, Offset
  <2>2. QED BY <1>1, <2>1 DEF Query, Fetched, Firsts
<1>5. files' \subseteq 1..Items /\ files' # None
  <2>1. files' \subseteq 1..Items
    BY <1>2, <1>4 DEF Fetched, Slice
  <2>2. QED BY <2>1, FeedsNoneAssumption
<1>6. FeedTypeOK'
  <2>1. listed' \subseteq 1..Items /\ gone' \in 0..Removals
    <3>1. /\ listed \subseteq 1..Items /\ Listed \subseteq 1..Items
          /\ gone \in 0..Removals /\ 0 \in 0..Removals
      BY FeedsAssumption DEF FeedIInv, FeedTypeOK, Listed
    <3>2. QED BY <1>1, <3>1, Zenon
  <2>2. QED BY <1>1, <1>5, <2>1 DEF FeedIInv, FeedTypeOK, Listable
<1>7. Cardinality(Unseen' \ Behind(feed, Firsts, Seconds, Offset)) <= gone'
  <2>1. CASE page = 1
    <3>1. Offset = 0 /\ gone' = 0 /\ listed' = Firsts \cup Seconds
      BY <1>1, <1>2, <2>1, FeedsAssumption DEF Offset
    <3>2. \A S \in SUBSET (1..Items) : Older(S, 0) = S
      <4>1. \A S \in SUBSET (1..Items) : \A t \in S : Rank(S, t) \in Nat
        BY ItemsFinite, Ranks
      <4>2. \A S \in SUBSET (1..Items) : \A t \in S : Rank(S, t) >= 0
        BY <4>1
      <4>3. QED BY <4>2 DEF Older
    <3>3. Behind(feed, Firsts, Seconds, 0) = Firsts \cup Seconds
      BY <1>2, <3>2 DEF Behind
    <3>4. Unseen' \ Behind(feed, Firsts, Seconds, Offset) = {}
      BY <3>1, <3>3 DEF Unseen
    <3>5. QED BY <3>1, <3>4, FS_EmptySet
  <2>2. CASE page # 1
    <3>1. page > 1 /\ listed' = listed /\ gone' = gone /\ shown' = shown
      BY <1>1, <1>3, <2>2
    <3>2. QED BY <1>1, <3>1 DEF FeedIInv, BetweenPages, Unseen
  <2>3. QED BY <2>1, <2>2
<1>8. BetweenQueries'
  <2>1. Cardinality(Firsts \ Firsts) = 0
    BY FS_EmptySet
  <2>2. Unseen' \ Behind(feed, Firsts, Seconds, Offset) \in SUBSET (1..Items)
    BY <1>6 DEF FeedTypeOK, Unseen
  <2>3. Cardinality(Unseen' \ Behind(feed, Firsts, Seconds, Offset)) \in Nat
    BY <2>2, ItemsFinite
  <2>4. Cardinality(Unseen' \ Behind(feed, Firsts, Seconds, Offset)) + Cardinality(Firsts \ Firsts) <= gone'
    BY <1>7, <2>1, <2>3
  <2>5. QED BY <1>1, <1>2, <1>3, <1>4, <2>4 DEF BetweenQueries
<1>9. BetweenPages' /\ FeedComplete' /\ (page' = 0 => files' = None /\ more')
  BY <1>1, <1>3, <1>5 DEF BetweenPages, FeedComplete, FeedIInv
<1>10. QED BY <1>6, <1>8, <1>9 DEF FeedIInv

\* What a page shows is what is behind its beginning and not behind its end, and
\* what was fetched tells whether anything is behind its end.
LEMMA PageShows ==
  ASSUME NEW f, NEW F \in SUBSET (1..Items), NEW P \in SUBSET (1..Items), NEW k \in Nat,
         NEW a, a = Fetched(f, F, k), NEW b, b = Fetched(f, P, k)
  PROVE  /\ f = "explore" =>
              /\ Behind(f, F, P, k) \ Behind(f, F, P, k + PerPage) \subseteq Slice(a \cup b, k, PerPage)
              /\ Cardinality(Slice(a \cup b, k, PerPage + 1)) <= PerPage => Behind(f, F, P, k + PerPage) = {}
         /\ f # "explore" =>
              /\ Behind(f, F, P, k) \ Behind(f, F, P, k + PerPage)
                   \subseteq Slice(a, 0, PerPage) \cup Slice(b, 0, PerPage)
              /\ Cardinality(a) <= PerPage /\ Cardinality(b) <= PerPage =>
                   Behind(f, F, P, k + PerPage) = {}
<1>1. PerPage \in Nat /\ PerPage + 1 \in Nat /\ k + PerPage \in Nat
  BY FeedsAssumption
<1>2. ASSUME f = "explore"
      PROVE  /\ Behind(f, F, P, k) \ Behind(f, F, P, k + PerPage) \subseteq Slice(a \cup b, k, PerPage)
             /\ Cardinality(Slice(a \cup b, k, PerPage + 1)) <= PerPage => Behind(f, F, P, k + PerPage) = {}
  <2> DEFINE V == F \cup P
             n == k + PerPage + 1
             M == Newest(F, n) \cup Newest(P, n)
  <2>1. /\ n \in Nat /\ k \in 0..n /\ k + PerPage \in 0..n /\ k + (PerPage + 1) \in 0..n
        /\ 0 + n = n
    BY <1>1
  <2>2. V \in SUBSET (1..Items) /\ M \in SUBSET (1..Items)
    BY DEF Newest
  <2>3. \A S \in SUBSET (1..Items) : Newest(S, 0) = {}
    <3>1. \A S \in SUBSET (1..Items) : \A t \in S : Rank(S, t) \in Nat
      BY ItemsFinite, Ranks
    <3>2. \A S \in SUBSET (1..Items) : \A t \in S : ~(Rank(S, t) < 0)
      BY <3>1
    <3>3. QED BY <3>2 DEF Newest
  <2>4. a = Newest(F, n) /\ b = Newest(P, n)
    <3>1. \A S \in SUBSET (1..Items) : Slice(S, 0, n) = Newest(S, 0 + n) \ Newest(S, 0)
      BY <2>1, SliceIs
    <3>2. \A S \in SUBSET (1..Items) : Slice(S, 0, n) = Newest(S, n)
      BY <2>1, <2>3, <3>1
    <3>3. QED BY <1>2, <3>2 DEF Fetched
  <2>5. Newest(M, k) = Newest(V, k)
    BY <2>1, MergeOfTwo
  <2>6. Newest(M, k + PerPage) = Newest(V, k + PerPage)
    BY <2>1, MergeOfTwo
  <2>7. Newest(M, k + (PerPage + 1)) = Newest(V, k + (PerPage + 1))
    BY <2>1, MergeOfTwo
  <2>8. Behind(f, F, P, k) = Older(V, k) /\ Behind(f, F, P, k + PerPage) = Older(V, k + PerPage)
    BY <1>2 DEF Behind
  <2>9. a \cup b = M
    BY <2>4
  <2> HIDE DEF V, M, n
  <2>10. Slice(M, k, PerPage) = Slice(V, k, PerPage)
    <3>1. \A S \in SUBSET (1..Items) : Slice(S, k, PerPage) = Newest(S, k + PerPage) \ Newest(S, k)
      BY <1>1, SliceIs, Zenon
    <3>2. QED BY <2>2, <2>5, <2>6, <3>1, Zenon
  <2>11. Slice(M, k, PerPage + 1) = Slice(V, k, PerPage + 1)
    <3>1. \A S \in SUBSET (1..Items) :
            Slice(S, k, PerPage + 1) = Newest(S, k + (PerPage + 1)) \ Newest(S, k)
      BY <1>1, SliceIs, Zenon
    <3>2. QED BY <2>2, <2>5, <2>7, <3>1, Zenon
  <2>12. Slice(V, k, PerPage) = Older(V, k) \ Older(V, k + PerPage)
    BY <2>2, SliceBetween
  <2>13. Cardinality(Slice(V, k, PerPage + 1)) <= PerPage => Older(V, k + PerPage) = {}
    BY <1>1, <2>2, LastSlice
  <2>14. QED BY <2>8, <2>9, <2>10, <2>11, <2>12, <2>13
<1>3. ASSUME f # "explore"
      PROVE  /\ Behind(f, F, P, k) \ Behind(f, F, P, k + PerPage)
                  \subseteq Slice(a, 0, PerPage) \cup Slice(b, 0, PerPage)
             /\ Cardinality(a) <= PerPage /\ Cardinality(b) <= PerPage =>
                  Behind(f, F, P, k + PerPage) = {}
  <2>1. a = Slice(F, k, PerPage + 1) /\ b = Slice(P, k, PerPage + 1)
    BY <1>3 DEF Fetched
  <2>2. /\ Older(F, k) \ Older(F, k + PerPage) \subseteq Slice(a, 0, PerPage)
        /\ Older(P, k) \ Older(P, k + PerPage) \subseteq Slice(b, 0, PerPage)
    BY <1>1, <2>1, SliceOfSlice
  <2>3. /\ Cardinality(a) <= PerPage => Older(F, k + PerPage) = {}
        /\ Cardinality(b) <= PerPage => Older(P, k + PerPage) = {}
    BY <1>1, <2>1, LastSlice
  <2>4. QED BY <1>3, <2>2, <2>3 DEF Behind
<1>4. QED BY <1>2, <1>3

\* The second query, and the page is put together.
LEMMA AnswerStep ==
  ASSUME FeedIInv, page \in 1..Items, more, Answer
  PROVE  FeedIInv'
<1> DEFINE pastes == IF feed = "comments" THEN {} ELSE Query("paste")
<1>1. /\ files # None /\ files' = None /\ page' = page + 1
      /\ UNCHANGED <<feed, kindOf, listed, gone>>
      /\ feed = "explore" =>
           /\ shown' = shown \cup Slice(files \cup pastes, Offset, PerPage)
           /\ more' = (Cardinality(Slice(files \cup pastes, Offset, PerPage + 1)) > PerPage)
      /\ feed # "explore" =>
           /\ shown' = shown \cup Slice(files, 0, PerPage) \cup Slice(pastes, 0, PerPage)
           /\ more' = (Cardinality(files) > PerPage \/ Cardinality(pastes) > PerPage)
  BY Zenon DEF Answer
<1>2. /\ Firsts \in SUBSET (1..Items) /\ Seconds \in SUBSET (1..Items)
      /\ Unseen \in SUBSET (1..Items) /\ gone \in Nat /\ Offset \in Nat
      /\ PerPage \in Nat /\ page \in Nat
  BY FeedSets, FeedsAssumption
<1>3. /\ Offset' = Offset + PerPage /\ Through = Offset + PerPage + 1
      /\ Firsts' = Firsts /\ Seconds' = Seconds
  <2>1. page * PerPage = (page - 1) * PerPage + PerPage /\ page + 1 - 1 = page
    BY <1>2
  <2>2. QED BY <1>1, <2>1 DEF Offset, Through, Firsts, Seconds, Of, First
<1>4. pastes = Fetched(feed, Seconds, Offset)
  <2>1. CASE feed = "comments"
    BY <2>1 DEF Fetched, Seconds, Slice
  <2>2. CASE feed # "comments"
    BY <1>3, <2>2 DEF Query, Fetched, Seconds
  <2>3. QED BY <2>1, <2>2
<1>5. PICK F \in SUBSET (1..Items) :
        /\ files = Fetched(feed, F, Offset)
        /\ Cardinality(Unseen \ Behind(feed, F, Seconds, Offset)) + Cardinality(F \ Firsts) <= gone
  BY <1>1 DEF FeedIInv, BetweenQueries
<1>6. files \subseteq 1..Items /\ pastes \subseteq 1..Items
  BY <1>2, <1>4, <1>5 DEF Fetched, Slice
<1> HIDE DEF pastes
<1> DEFINE here == Behind(feed, F, Seconds, Offset)
           next == Behind(feed, F, Seconds, Offset + PerPage)
<1>7. here \ next \subseteq shown'
  BY <1>1, <1>2, <1>4, <1>5, PageShows
<1>8. more' \in BOOLEAN /\ (~more' => next = {})
  <2>1. CASE feed = "explore"
    <3>1. Cardinality(Slice(files \cup pastes, Offset, PerPage + 1)) \in Nat
      <4>1. Slice(files \cup pastes, Offset, PerPage + 1) \in SUBSET (1..Items)
        BY <1>6 DEF Slice
      <4>2. QED BY <4>1, ItemsFinite
    <3>2. /\ more' <=> (Cardinality(Slice(files \cup pastes, Offset, PerPage + 1)) > PerPage)
          /\ more' \in BOOLEAN
      <4> DEFINE C == Cardinality(Slice(files \cup pastes, Offset, PerPage + 1))
      <4>1. more' = (C > PerPage)
        BY <1>1, <2>1
      <4> HIDE DEF C
      <4>2. more' <=> C > PerPage
        BY <4>1
      <4>3. (C > PerPage) \in BOOLEAN
        OBVIOUS
      <4>4. more' \in BOOLEAN
        BY <4>1, <4>3, Zenon
      <4>5. QED BY <4>2, <4>4 DEF C
    <3>3. Cardinality(Slice(files \cup pastes, Offset, PerPage + 1)) <= PerPage => next = {}
      BY <1>2, <1>4, <1>5, <2>1, PageShows
    <3> HIDE DEF next
    <3>4. QED BY <1>2, <3>1, <3>2, <3>3
  <2>2. CASE feed # "explore"
    <3>1. Cardinality(files) \in Nat /\ Cardinality(pastes) \in Nat
      BY <1>6, ItemsFinite
    <3>2. /\ more' <=> (Cardinality(files) > PerPage \/ Cardinality(pastes) > PerPage)
          /\ more' \in BOOLEAN
      BY <1>1, <2>2
    <3>3. Cardinality(files) <= PerPage /\ Cardinality(pastes) <= PerPage => next = {}
      BY <1>2, <1>4, <1>5, <2>2, PageShows
    <3> HIDE DEF next
    <3>4. QED BY <1>2, <3>1, <3>2, <3>3
  <2>3. QED BY <2>1, <2>2
<1>9. shown \subseteq shown' /\ shown' \subseteq 1..Items
  <2>1. shown \subseteq 1..Items
    BY DEF FeedIInv, FeedTypeOK
  <2>2. QED BY <1>1, <1>6, <2>1 DEF Slice
<1>10. FeedTypeOK'
  <2>1. page' \in 0..Items + 1
    BY <1>1, FeedsAssumption
  <2>2. QED BY <1>1, <1>8, <1>9, <2>1 DEF FeedIInv, FeedTypeOK, Listable
<1>11. /\ Unseen' \in SUBSET (1..Items) /\ Unseen' \subseteq Unseen
       /\ Unseen' \ next \subseteq Unseen \ here
  BY <1>1, <1>2, <1>7, <1>9 DEF Unseen
<1>12. /\ Cardinality(Unseen' \ next) <= Cardinality(Unseen \ here)
       /\ Cardinality(Unseen' \ next) \in Nat /\ Cardinality(Unseen \ here) \in Nat
       /\ Cardinality(F \ Firsts) \in Nat
  <2> HIDE DEF here, next
  <2>1. Unseen \ here \in SUBSET (1..Items)
    BY <1>2
  <2>2. QED BY <1>11, <2>1, ItemsFinite
<1>13. Cardinality(Unseen' \ next) + Cardinality(F \ Firsts) <= gone
  BY <1>2, <1>5, <1>12
<1>14. Cardinality(Unseen' \ Behind(feed, Firsts, Seconds, Offset + PerPage)) <= gone
  <2> DEFINE last == Behind(feed, Firsts, Seconds, Offset + PerPage)
  <2>1. /\ Cardinality(Unseen' \ last)
             <= Cardinality(Unseen' \ next) + Cardinality(F \ Firsts) + Cardinality(Seconds \ Seconds)
        /\ Cardinality(Unseen' \ last) \in Nat
    <3>1. Offset + PerPage \in Nat
      BY <1>2
    <3>2. QED BY <1>2, <1>11, <3>1, UnseenMoved
  <2>2. Cardinality(Seconds \ Seconds) = 0
    BY FS_EmptySet
  <2> HIDE DEF last, next
  <2>3. Cardinality(Unseen' \ last) <= gone
    BY <1>2, <1>12, <1>13, <2>1, <2>2
  <2>4. QED BY <2>3 DEF last
<1>15. BetweenPages' /\ BetweenQueries'
  BY <1>1, <1>3, <1>14 DEF BetweenPages, BetweenQueries
<1>16. FeedComplete'
  <2> SUFFICES ASSUME ~more' PROVE Cardinality((listed' \cap Listed') \ shown') <= gone'
    BY DEF FeedComplete
  <2>1. (listed' \cap Listed') \ shown' \subseteq Unseen' \ next
    BY <1>8 DEF Unseen
  <2> HIDE DEF next
  <2>2. Unseen' \ next \in SUBSET (1..Items)
    BY <1>11
  <2>3. /\ Cardinality((listed' \cap Listed') \ shown') <= Cardinality(Unseen' \ next)
        /\ Cardinality((listed' \cap Listed') \ shown') \in Nat
    BY <2>1, <2>2, ItemsFinite
  <2>4. QED BY <1>1, <1>2, <1>12, <1>13, <2>3
<1>17. page' # 0
  BY <1>1, <1>2
<1>18. QED BY <1>10, <1>15, <1>16, <1>17 DEF FeedIInv

\* A list is opened.
LEMMA OpenStep ==
  ASSUME FeedIInv, page = 0, NEW f \in {"explore", "profile", "comments"},
         NEW ks \in [1..Items -> {None} \cup (IF f = "comments" THEN {"comment"} ELSE {"file", "paste"})],
         Open(f, ks)
  PROVE  FeedIInv'
<1>1. /\ feed' = f /\ kindOf' = ks /\ page' = 1 /\ files' = None /\ more'
      /\ UNCHANGED <<files, more, listed, shown, gone>>
  BY DEF Open, FeedIInv
<1>2. page' \in 0..Items + 1
  BY <1>1, FeedsAssumption
<1>3. FeedTypeOK'
  BY <1>1, <1>2 DEF FeedIInv, FeedTypeOK, Listable
<1>4. BetweenPages' /\ BetweenQueries' /\ FeedComplete' /\ (page' = 0 => files' = None /\ more')
  BY <1>1 DEF BetweenPages, BetweenQueries, FeedComplete
<1>5. QED BY <1>3, <1>4 DEF FeedIInv

\* Every step keeps the invariant.
LEMMA FeedStep == FeedIInv /\ [FeedNext]_feedvars => FeedIInv'
<1> SUFFICES ASSUME FeedIInv, [FeedNext]_feedvars PROVE FeedIInv'
  OBVIOUS
<1>1. CASE page = 0 /\ \E ks \in [1..Items -> {None, "file", "paste"}], f \in {"explore", "profile"} :
                         Open(f, ks)
  <2>1. PICK ks \in [1..Items -> {None, "file", "paste"}], f \in {"explore", "profile"} : Open(f, ks)
    BY <1>1
  <2>2. ks \in [1..Items -> {None} \cup (IF f = "comments" THEN {"comment"} ELSE {"file", "paste"})]
    <3>1. {None} \cup (IF f = "comments" THEN {"comment"} ELSE {"file", "paste"}) = {None, "file", "paste"}
      OBVIOUS
    <3>2. QED BY <3>1
  <2>3. QED BY <1>1, <2>1, <2>2, OpenStep
<1>2. CASE page = 0 /\ \E ks \in [1..Items -> {None, "comment"}] : Open("comments", ks)
  <2>1. PICK ks \in [1..Items -> {None, "comment"}] : Open("comments", ks)
    BY <1>2
  <2>2. {None} \cup {"comment"} = {None, "comment"}
    OBVIOUS
  <2>3. QED BY <1>2, <2>1, <2>2, OpenStep
<1>3. CASE /\ page \in 1..Items /\ more
           /\ \E t \in 1..Items : Withdraw(t) \/ \E k \in Listable : Publish(t, k)
  BY <1>3, ItemStep
<1>4. CASE page \in 1..Items /\ more /\ QueryFirst
  BY <1>4, FirstStep
<1>5. CASE page \in 1..Items /\ more /\ Answer
  BY <1>5, AnswerStep
<1>6. CASE UNCHANGED feedvars
  <2>1. /\ FeedTypeOK' /\ FeedComplete' /\ Offset' = Offset /\ Unseen' = Unseen
        /\ Firsts' = Firsts /\ Seconds' = Seconds
    BY <1>6 DEF feedvars, FeedIInv, FeedTypeOK, FeedComplete, Listed, Listable, Offset, Unseen,
                Firsts, Seconds, Of, First
  <2>2. UNCHANGED <<feed, page, files, more, gone>>
    BY <1>6 DEF feedvars
  <2>3. QED BY <2>1, <2>2 DEF FeedIInv, BetweenPages, BetweenQueries
<1>7. QED BY <1>1, <1>2, <1>3, <1>4, <1>5, <1>6 DEF FeedNext

\* The invariant of Feeds.
THEOREM FeedInductive == FeedSpec => []FeedIInv
<1>1. FeedInit => FeedIInv
  <2> SUFFICES ASSUME FeedInit PROVE FeedIInv
    OBVIOUS
  <2>1. 0 \in 0..Removals /\ 0 \in 0..Items + 1
    BY FeedsAssumption
  <2>2. FeedTypeOK
    BY <2>1 DEF FeedInit, FeedTypeOK, Listable
  <2>3. QED BY <2>2 DEF FeedInit, FeedIInv, BetweenPages, BetweenQueries, FeedComplete
<1>2. QED BY <1>1, FeedStep, PTL DEF FeedSpec

\* The list, the page and what was fetched of it keep their types.
THEOREM FeedTyped == FeedSpec => []FeedTypeOK
<1>1. FeedIInv => FeedTypeOK
  BY DEF FeedIInv
<1>2. QED BY <1>1, FeedInductive, PTL

\* Who follows has_next to the end misses at most as many items as were removed.
THEOREM NothingSkipped == FeedSpec => []FeedComplete
<1>1. FeedIInv => FeedComplete
  BY DEF FeedIInv
<1>2. QED BY <1>1, FeedInductive, PTL
=============================================================================
