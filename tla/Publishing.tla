----------------------------- MODULE Publishing -----------------------------
(***************************************************************************)
(* Pastes and the comments on them and on files: creating content under a  *)
(* core, reading it once or with a password, hiding it, commenting on it,  *)
(* removing it, and the sweeper.  A handler reads a row in one statement   *)
(* and acts on it in the next.  Only what the handlers here ask of a file  *)
(* is kept of it: ObjectStore models the rest.                             *)
(***************************************************************************)
EXTENDS Common, Naturals, FiniteSets

CONSTANTS
  Core,    \* the cores of ids
  Author,  \* users
  Visitor, \* who sends requests, each one at a time with a session of its own
  Note     \* ids of comments

VARIABLES
  content,  \* files and pastes: [kind, owner, public, burn, locked, expired, gen]
  handed,   \* used_id_cores: how often a core was handed out, counted to Twice
  comments, \* comments: [on, kind, by], and in gen, history, what they were about
  keys,     \* cores that the session of a visitor has unlocked
  proved,   \* history: content whose password a visitor has given
  reads,    \* history: how often a burn-after-read paste was burnt to be sent
  served,   \* history: who was sent the body of which burn-after-read paste
  vpc,      \* where each visitor's request is
  req,      \* its locals: who, the kind and the core, the row that was read,
            \* the comment
  doomed    \* the sweeper: pastes of its scan that it has still to delete

requests == <<vpc, req>>
posted == <<content, handed, comments, keys, proved, reads, served>>
pubvars == <<posted, requests, doomed>>

Kinds == {"file", "paste"}
Twice == 2
Row == [kind : Kinds, owner : Author \cup {None}, public : BOOLEAN, burn : BOOLEAN,
        locked : BOOLEAN, expired : BOOLEAN, gen : 1..Twice]

\* What stands for no row is no row.
ASSUME PubNoneAssumption == None \notin Row

Content(kind, c) == content[c] # None /\ content[c].kind = kind
Live(kind, c) == Content(kind, c) /\ ~content[c].expired
Pastes == {c \in Core : Content("paste", c)}

VGoto(v, next) == vpc' = [vpc EXCEPT ![v] = next]
VEnds(v) == VGoto(v, "idle") /\ req' = [req EXCEPT ![v] = None]

\* A request about a core, or about the comment n on it: by a user or by nobody.
\* (A token without the scope that a handler asks for counts as nobody.)
AsksOf(v, kind, c, n, next) ==
  /\ vpc[v] = "idle"
  /\ \E u \in Author \cup {None} :
       req' = [req EXCEPT ![v] =
         [user |-> u, kind |-> kind, core |-> c, row |-> content[c], note |-> n]]
  /\ VGoto(v, next)

Asks(v, kind, c, next) == AsksOf(v, kind, c, None, next)

(***************************************************************************)
(* Creating.                                                               *)
(***************************************************************************)
\* Mutant: a core is free once its content is gone.
ClaimCoreGone(v) ==
  /\ \E kind \in Kinds, c \in Core :
       /\ content[c] = None /\ handed[c] < Twice
       /\ handed' = [handed EXCEPT ![c] = @ + 1]
       /\ Asks(v, kind, c, "insert")
  /\ UNCHANGED <<content, comments, keys, proved, reads, served, doomed>>

\* try_claim_core, after the checks of the input: one row for a core, for ever.
ClaimCore(v) ==
  /\ \E kind \in Kinds, c \in Core :
       /\ handed[c] = 0
       /\ handed' = [handed EXCEPT ![c] = @ + 1]
       /\ Asks(v, kind, c, "insert")
  /\ UNCHANGED <<content, comments, keys, proved, reads, served, doomed>>

\* INSERT INTO pastes (upload_inner's INSERT INTO files).
InsertContent(v) ==
  /\ vpc[v] = "insert"
  /\ \E public, burn, locked \in BOOLEAN :
       content' = [content EXCEPT ![req[v].core] =
         [kind |-> req[v].kind, owner |-> req[v].user, public |-> public,
          burn |-> burn /\ req[v].kind = "paste", locked |-> locked,
          expired |-> FALSE, gen |-> handed[req[v].core]]]
  /\ VEnds(v)
  /\ UNCHANGED <<handed, comments, keys, proved, reads, served, doomed>>

(***************************************************************************)
(* Reading.                                                                *)
(***************************************************************************)
\* unlock: the password is right; the session remembers the core.
Unlock(v) ==
  /\ vpc[v] = "idle"
  /\ \E c \in Core :
       /\ Live("paste", c) /\ content[c].locked
       /\ keys' = [keys EXCEPT ![v] = @ \cup {c}]
       /\ proved' = proved \cup {<<v, c, content[c].gen>>}
  /\ UNCHANGED <<content, handed, comments, reads, served, requests, doomed>>

\* Mutant: the password is asked for by the page, not by the raw body.
RawPasteOpen(v) ==
  /\ \E c \in Core :
       /\ Live("paste", c)
       /\ Asks(v, "paste", c, IF content[c].burn THEN "burn" ELSE "body")
  /\ UNCHANGED <<posted, doomed>>

\* raw_paste: load_live_paste, then the session or the password of the query.
RawPaste(v) ==
  /\ \E c \in Core :
       /\ Live("paste", c)
       /\ \/ ~content[c].locked /\ UNCHANGED proved
          \/ content[c].locked /\ c \in keys[v] /\ UNCHANGED proved
          \/ content[c].locked /\ proved' = proved \cup {<<v, c, content[c].gen>>}
       /\ Asks(v, "paste", c, IF content[c].burn THEN "burn" ELSE "body")
  /\ UNCHANGED <<content, handed, comments, keys, reads, served, doomed>>

\* Mutant: whether the DELETE found the row is not looked at.
BurnUnconditional(v) ==
  /\ vpc[v] = "burn"
  /\ LET c == req[v].core IN
       /\ content' = [content EXCEPT ![c] = None]
       /\ reads' = [reads EXCEPT ![c] = IF @ < Twice THEN @ + 1 ELSE @]
       /\ VGoto(v, "body") /\ UNCHANGED req
  /\ UNCHANGED <<handed, comments, keys, proved, served, doomed>>

\* DELETE ... RETURNING: "the atomic winner".
Burn(v) ==
  /\ vpc[v] = "burn"
  /\ LET c == req[v].core IN
       IF Content("paste", c)
       THEN /\ content' = [content EXCEPT ![c] = None]
            /\ reads' = [reads EXCEPT ![c] = IF @ < Twice THEN @ + 1 ELSE @]
            /\ VGoto(v, "body") /\ UNCHANGED req
       ELSE VEnds(v) /\ UNCHANGED <<content, reads>>
  /\ UNCHANGED <<handed, comments, keys, proved, served, doomed>>

\* The body goes out.
SendBody(v) ==
  /\ vpc[v] = "body"
  /\ served' = IF req[v].row.burn THEN served \cup {<<v, req[v].core>>} ELSE served
  /\ VEnds(v)
  /\ UNCHANGED <<content, handed, comments, keys, proved, reads, doomed>>

(***************************************************************************)
(* Hiding and removing.                                                    *)
(***************************************************************************)
Owned(u, c) == u # None /\ content[c].owner = u

\* toggle_file, toggle_paste and the dashboard's forms ask for the owner.
FindToToggle(v) ==
  /\ \E kind \in Kinds, c \in Core :
       /\ Content(kind, c)
       /\ Asks(v, kind, c, "toggle")
       /\ Owned(req'[v].user, c)
  /\ UNCHANGED <<posted, doomed>>

SetVisibility(v) ==
  /\ vpc[v] = "toggle"
  /\ LET c == req[v].core IN
       \E public \in BOOLEAN :
         content' = IF Content(req[v].kind, c)
                    THEN [content EXCEPT ![c].public = public] ELSE content
  /\ VEnds(v)
  /\ UNCHANGED <<handed, comments, keys, proved, reads, served, doomed>>

\* delete_paste, dashboard_delete_paste, delete_file: who has the delete token, or
\* the owner.
FindToDelete(v) ==
  /\ \E kind \in Kinds, c \in Core : Content(kind, c) /\ Asks(v, kind, c, "delete")
  /\ UNCHANGED <<posted, doomed>>

DeleteContent(v) ==
  /\ vpc[v] = "delete"
  /\ LET c == req[v].core IN
       content' = IF Content(req[v].kind, c) THEN [content EXCEPT ![c] = None] ELSE content
  /\ VEnds(v)
  /\ UNCHANGED <<handed, comments, keys, proved, reads, served, doomed>>

(***************************************************************************)
(* Comments.                                                               *)
(***************************************************************************)
\* resolve_target: the content that a comment goes to is there and not expired.
ResolveTarget(v) ==
  /\ \E kind \in Kinds, c \in Core :
       /\ Live(kind, c)
       /\ Asks(v, kind, c, "comment") /\ req'[v].user # None
  /\ UNCHANGED <<posted, doomed>>

InsertComment(v) ==
  /\ vpc[v] = "comment"
  /\ \E n \in Note :
       /\ comments[n] = None
       /\ comments' = [comments EXCEPT ![n] =
            [on |-> req[v].core, kind |-> req[v].kind, by |-> req[v].user,
             gen |-> req[v].row.gen]]
  /\ VEnds(v)
  /\ UNCHANGED <<content, handed, keys, proved, reads, served, doomed>>

\* delete, by its author, by the owner of what it is on, or by a moderator: what it
\* is on must still be there.
FindComment(v) ==
  /\ \E n \in Note :
       /\ comments[n] # None /\ Live(comments[n].kind, comments[n].on)
       /\ AsksOf(v, comments[n].kind, comments[n].on, n, "uncomment")
       /\ req'[v].user # None
  /\ UNCHANGED <<posted, doomed>>

DeleteComment(v) ==
  /\ vpc[v] = "uncomment"
  /\ comments' = [comments EXCEPT ![req[v].note] = None]
  /\ VEnds(v)
  /\ UNCHANGED <<content, handed, keys, proved, reads, served, doomed>>

\* A statement fails, or the request is dropped: a core that was claimed stays so.
VisitFails(v) ==
  /\ vpc[v] # "idle"
  /\ VEnds(v)
  /\ UNCHANGED <<posted, doomed>>

(***************************************************************************)
(* Time and the sweeper.                                                   *)
(***************************************************************************)
ExpireContent(c) ==
  /\ content[c] # None /\ ~content[c].expired
  /\ content' = [content EXCEPT ![c].expired = TRUE]
  /\ UNCHANGED <<handed, comments, keys, proved, reads, served, requests, doomed>>

\* expired_pastes.
ScanPastes ==
  /\ doomed = {}
  /\ doomed' = {c \in Pastes : content[c].expired}
  /\ doomed' # {}
  /\ UNCHANGED <<posted, requests>>

\* One DELETE for each; one that fails is left for the next scan.
SweepPaste(c) ==
  /\ c \in doomed
  /\ doomed' = doomed \ {c}
  /\ content' = IF Content("paste", c) THEN [content EXCEPT ![c] = None] ELSE content
  /\ UNCHANGED <<handed, comments, keys, proved, reads, served, requests>>

SweepPasteFails(c) ==
  /\ c \in doomed
  /\ doomed' = doomed \ {c}
  /\ UNCHANGED <<posted, requests>>

-----------------------------------------------------------------------------
PubInit ==
  /\ content = [c \in Core |-> None] /\ handed = [c \in Core |-> 0]
  /\ comments = [n \in Note |-> None]
  /\ keys = [v \in Visitor |-> {}] /\ proved = {}
  /\ reads = [c \in Core |-> 0] /\ served = {}
  /\ vpc = [v \in Visitor |-> "idle"] /\ req = [v \in Visitor |-> None]
  /\ doomed = {}

PubNext ==
  \/ \E v \in Visitor :
       \/ ClaimCore(v) \/ InsertContent(v) \/ Unlock(v) \/ RawPaste(v) \/ Burn(v) \/ SendBody(v)
       \/ FindToToggle(v) \/ SetVisibility(v) \/ FindToDelete(v) \/ DeleteContent(v)
       \/ ResolveTarget(v) \/ InsertComment(v) \/ FindComment(v) \/ DeleteComment(v)
       \/ VisitFails(v)
  \/ \E c \in Core : ExpireContent(c) \/ SweepPaste(c) \/ SweepPasteFails(c)
  \/ ScanPastes

PubSpec == PubInit /\ [][PubNext]_pubvars

-----------------------------------------------------------------------------
\* The tables and the locals have the values of their types.
PubTypeOK ==
  /\ content \in [Core -> Row \cup {None}]
  /\ comments \in [Note -> [on : Core, kind : Kinds, by : Author, gen : 1..Twice] \cup {None}]
  /\ keys \in [Visitor -> SUBSET Core] /\ served \subseteq Visitor \X Core
  /\ \A v \in Visitor :
       /\ vpc[v] \in {"idle", "insert", "burn", "body", "toggle", "delete", "comment", "uncomment"}
       /\ vpc[v] # "idle" => req[v].row \in Row \cup {None}
  /\ doomed \subseteq Core

\* The body of a burn-after-read paste goes out at most once, and to nobody once
\* its row was removed in another way: "a concurrent loser cannot receive the
\* one-read body".
BurnOnce ==
  \A c \in Core : reads[c] <= 1 /\ (reads[c] = 1 => ~Content("paste", c))

\* A comment is shown under the content it was written about or under none,
\* although it outlives the content and may even be inserted after it is gone.
CommentsKeepTheirSubject ==
  \A n \in Note : comments[n] # None =>
    LET row == content[comments[n].on] IN
      row # None => row.kind = comments[n].kind /\ row.gen = comments[n].gen

\* Whoever is being sent a paste with a password has given the password of that
\* very paste, at this request or earlier in the session.
LockedForStrangers ==
  \A v \in Visitor : vpc[v] = "body" /\ req[v].row.locked =>
    <<v, req[v].core, req[v].row.gen>> \in proved

\* Pastes, too, keep the promise of FileVault: a core is handed out once, stands for one
\* content while it is live (what is fixed of it, not its visibility), never for anything
\* again, and a burn-after-read body goes out once, when the paste is gone.
Fixed == [kind : Kinds, owner : Author \cup {None}, burn : BOOLEAN, locked : BOOLEAN,
          gen : 1..Twice]
FixedOf(row) == [kind |-> row.kind, owner |-> row.owner, burn |-> row.burn,
                 locked |-> row.locked, gen |-> row.gen]
StatusOf(c) ==
  IF handed[c] = 0 THEN "free"
  ELSE IF \E v \in Visitor : vpc[v] = "insert" /\ req[v].core = c THEN "reserved"
  ELSE IF content[c] # None THEN "live" ELSE "gone"
Statuses == [c \in Core |-> StatusOf(c)]
Contents == [c \in Core |-> IF content[c] = None THEN None ELSE FixedOf(content[c])]
Vault == INSTANCE FileVault WITH
  Digest <- Fixed, Reader <- Visitor, status <- Statuses, content <- Contents
KeepsCores == Vault!Spec
=============================================================================
