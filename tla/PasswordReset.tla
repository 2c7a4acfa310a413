---------------------------- MODULE PasswordReset ----------------------------
(***************************************************************************)
(* Reset links: a row of password_resets for each, made by forgot_post and *)
(* spent by the transaction of reset_post.  What a transaction has written *)
(* is seen once it commits; until then it holds the locks of the rows it   *)
(* wrote, and a statement that wants one of them waits.                    *)
(***************************************************************************)
EXTENDS Common, FiniteSets

CONSTANTS
  Holder, \* users that have an e-mail address
  Link,   \* reset tokens, never handed out twice
  Poster  \* handlers of reset_post

\* What stands for NULL is no row.
ASSUME ResetNoneAssumption == None \notin [user : Holder, used : BOOLEAN, expired : BOOLEAN]

VARIABLES
  resets,  \* password_resets: [user, used, expired] by link
  mailing, \* links whose mail is being sent
  drawn,   \* history: links issued so far
  spent,   \* history: by link that changed a password, whose it was and the links
           \* there had been when its DELETE ran
  xpc,     \* where each transaction is
  reset    \* its locals: the link, whether BEGIN found it in time, whose it is,
           \* what it has deleted, the links there had been then

resetvars == <<resets, mailing, drawn, spent, xpc, reset>>

Issued == {l \in Link : resets[l] # None}

\* The locks a transaction holds: its own link, the user's row, what it deleted.
Writing(x) == IF xpc[x] \in {"user", "delete", "commit"}
              THEN {reset[x].link} \cup reset[x].gone ELSE {}
Busy(l) == \E x \in Poster : l \in Writing(x)
UserBusy(u) == \E x \in Poster : xpc[x] \in {"delete", "commit"} /\ reset[x].user = u

ResetGoto(x, next) == xpc' = [xpc EXCEPT ![x] = next]
ResetEnds(x) == ResetGoto(x, "idle") /\ reset' = [reset EXCEPT ![x] = None]

\* forgot_post: the row, then the mail; a row whose mail failed is removed, unless
\* that fails too.
IssueLink ==
  /\ \E u \in Holder, l \in Link \ drawn :
       /\ drawn' = drawn \cup {l}
       /\ resets' = [resets EXCEPT ![l] = [user |-> u, used |-> FALSE, expired |-> FALSE]]
       /\ mailing' = mailing \cup {l}
  /\ UNCHANGED <<spent, xpc, reset>>

MailSent(l) ==
  /\ l \in mailing
  /\ mailing' = mailing \ {l}
  /\ UNCHANGED <<resets, drawn, spent, xpc, reset>>

MailFails(l) ==
  /\ l \in mailing /\ ~Busy(l)
  /\ mailing' = mailing \ {l}
  /\ resets' = [resets EXCEPT ![l] = None]
  /\ UNCHANGED <<drawn, spent, xpc, reset>>

\* BEGIN fixes now(); the link may be any that was mailed.
BeginReset(x) ==
  /\ xpc[x] = "idle"
  /\ \E l \in Issued :
       reset' = [reset EXCEPT ![x] =
         [link |-> l, fresh |-> ~resets[l].expired, user |-> None, gone |-> {}, seen |-> {}]]
  /\ ResetGoto(x, "use")
  /\ UNCHANGED <<resets, mailing, drawn, spent>>

\* UPDATE ... SET used_at, which waits for the row and looks at it again.
UseLink(x) ==
  /\ xpc[x] = "use"
  /\ LET l == reset[x].link IN
       /\ ~Busy(l)
       /\ IF resets[l] # None /\ ~resets[l].used /\ reset[x].fresh
          THEN /\ reset' = [reset EXCEPT ![x].user = resets[l].user]
               /\ ResetGoto(x, "user")
          ELSE ResetEnds(x)
  /\ UNCHANGED <<resets, mailing, drawn, spent>>

\* UPDATE users.
SetPassword(x) ==
  /\ xpc[x] = "user" /\ ~UserBusy(reset[x].user)
  /\ ResetGoto(x, "delete")
  /\ UNCHANGED <<resets, mailing, drawn, spent, reset>>

\* Mutant: only the link that was used is spent.
DeleteOthersNone(x) ==
  /\ xpc[x] = "delete"
  /\ reset' = [reset EXCEPT ![x].seen = drawn]
  /\ ResetGoto(x, "commit")
  /\ UNCHANGED <<resets, mailing, drawn, spent>>

\* DELETE of the user's other links, which waits for those another transaction
\* has used or deleted.
DeleteOthers(x) ==
  /\ xpc[x] = "delete"
  /\ LET others == {l \in Issued : resets[l].user = reset[x].user} \ {reset[x].link} IN
       /\ \A l \in others : ~Busy(l)
       /\ reset' = [reset EXCEPT ![x].gone = others, ![x].seen = drawn]
  /\ ResetGoto(x, "commit")
  /\ UNCHANGED <<resets, mailing, drawn, spent>>

CommitReset(x) ==
  /\ xpc[x] = "commit"
  /\ resets' = [l \in Link |-> IF l \in reset[x].gone THEN None
                               ELSE IF l = reset[x].link THEN [resets[l] EXCEPT !.used = TRUE]
                               ELSE resets[l]]
  /\ spent' = [spent EXCEPT ![reset[x].link] = [user |-> reset[x].user, seen |-> reset[x].seen]]
  /\ ResetEnds(x)
  /\ UNCHANGED <<mailing, drawn>>

\* The transaction is rolled back: a statement fails, the request is dropped, or
\* two of them wait for each other and the database picks this one.
RollBack(x) ==
  /\ xpc[x] # "idle"
  /\ ResetEnds(x)
  /\ UNCHANGED <<resets, mailing, drawn, spent>>

\* An hour has passed.
LinkExpires(l) ==
  /\ l \in Issued /\ ~resets[l].expired
  /\ resets' = [resets EXCEPT ![l].expired = TRUE]
  /\ UNCHANGED <<mailing, drawn, spent, xpc, reset>>

-----------------------------------------------------------------------------
ResetInit ==
  /\ resets = [l \in Link |-> None] /\ mailing = {}
  /\ drawn = {} /\ spent = [l \in Link |-> None]
  /\ xpc = [x \in Poster |-> "idle"] /\ reset = [x \in Poster |-> None]

ResetNext ==
  \/ IssueLink
  \/ \E l \in Link : MailSent(l) \/ MailFails(l) \/ LinkExpires(l)
  \/ \E x \in Poster : BeginReset(x) \/ UseLink(x) \/ SetPassword(x) \/ DeleteOthers(x)
                         \/ CommitReset(x) \/ RollBack(x)

ResetSpec == ResetInit /\ [][ResetNext]_resetvars

-----------------------------------------------------------------------------
\* The links and the locals have the values of their types, and the locks are
\* exclusive.
ResetTypeOK ==
  /\ resets \in [Link -> [user : Holder, used : BOOLEAN, expired : BOOLEAN] \cup {None}]
  /\ mailing \subseteq Link
  /\ \A x \in Poster :
       /\ xpc[x] \in {"idle", "use", "user", "delete", "commit"}
       /\ reset[x] \in [link : Link, fresh : BOOLEAN, user : Holder \cup {None},
                        gone : SUBSET Link, seen : SUBSET Link] \cup {None}
  /\ \A x, y \in Poster : x # y => Writing(x) \cap Writing(y) = {}

\* A link that changes a password was issued after every earlier change of that
\* password: a change spends all links there were, also those that were being used
\* at the same time, while no link is spent twice.
Supersedes ==
  \A l, k \in Link :
    spent'[l] # spent[l] /\ spent[k] # None /\ spent[k].user = spent'[l].user
      => l \notin spent[k].seen
ResetSupersedes == [][Supersedes]_resetvars
=============================================================================
