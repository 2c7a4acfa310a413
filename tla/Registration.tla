---------------------------- MODULE Registration ----------------------------
(***************************************************************************)
(* How accounts come to exist: the register form, the first login of an    *)
(* identity at the OpenID provider, invite codes, and what an admin does   *)
(* to invites, to the registration mode and to who else is an admin.  Each *)
(* statement is a step of its own, so every handler may act on a           *)
(* configuration, a count or a row that has changed since it read it.  A   *)
(* transaction that redeems an invite holds the lock of its row until it   *)
(* commits.  The session a handler signs in is in Sessions.                *)
(***************************************************************************)
EXTENDS Common, Naturals, FiniteSets

CONSTANTS
  Name,    \* usernames, which stand for the ids as well: no user is renamed or
           \* removed; an e-mail address is unique in the same way
  Code,    \* invite codes, never handed out twice
  Subject, \* identities at the provider: the claims (issuer, sub)
  Request, \* handlers of register_post and of callback
  Panel,   \* handlers of the admin's forms
  Uses     \* the values of max_uses an admin gives, None among them

ASSUME RegistrationAssumption == Uses \subseteq (Nat \ {0}) \cup {None}

\* What stands for NULL is no code and no row.
ASSUME RegistrationNoneAssumption ==
  /\ None \notin Code
  /\ None \notin [admin : BOOLEAN, via : Code \cup {None}]
  /\ None \notin [uses : Nat, max : Uses, expired : BOOLEAN]

VARIABLES
  mode,     \* instance_config.registration_mode
  users,    \* users: [admin, via], via the invite_redemptions row
  invites,  \* invite_codes: [uses, max, expired]
  identity, \* oidc_identities: whose a subject is
  rpc,      \* where each handler is
  form,     \* its locals
  ppc,      \* where each admin handler is
  edit      \* its locals

registering == <<rpc, form>>
administering == <<ppc, edit>>
regvars == <<mode, users, invites, identity, registering, administering>>

Mode == {"open", "invite", "closed"}
Known == {n \in Name : users[n] # None}
Admins == {a \in Known : users[a].admin}
Expired == {c \in Code : invites[c] # None /\ invites[c].expired}

\* Transactions that have redeemed c hold the lock of its row.
Locked(c) ==
  \E r \in Request : rpc[r] = "insert" /\ form[r].mode = "invite" /\ form[r].code = c

Form == [mode : Mode, name : Name \cup {None}, code : Code \cup {None},
         subject : Subject \cup {None}, admin : BOOLEAN, late : BOOLEAN]
          \cup [subject : Subject, link : Name]

\* The locals of a handler are not what stands for none.
ASSUME RegistrationFormAssumption == None \notin Form

\* The locals a handler starts with.
Draft(n, c, s) ==
  [mode |-> mode, name |-> n, code |-> c, subject |-> s, admin |-> FALSE, late |-> FALSE]

\* The codes that matter: without the mode "invite" a code is not looked at.
Codes == IF mode = "invite" THEN Code ELSE {None}

Goto(r, next) == rpc' = [rpc EXCEPT ![r] = next]
GotoLink(r, s, a) ==
  Goto(r, "link") /\ form' = [form EXCEPT ![r] = [subject |-> s, link |-> a]]
Return(r) == Goto(r, "idle") /\ form' = [form EXCEPT ![r] = None]

(***************************************************************************)
(* register_post and callback, up to the account they sign in.             *)
(***************************************************************************)
\* register_post reads the configuration and checks what the form holds.
RegisterPost(r) ==
  /\ rpc[r] = "idle" /\ mode # "closed"
  /\ \E n \in Name, c \in Codes : form' = [form EXCEPT ![r] = Draft(n, c, None)]
  /\ Goto(r, "count")
  /\ UNCHANGED <<mode, users, invites, identity>>

\* callback reads the configuration, and the session for the account to link and
\* for an invite; the provider says whose login it is.
Callback(r) ==
  /\ rpc[r] = "idle"
  /\ \E s \in Subject :
       \/ \E a \in Known : GotoLink(r, s, a)
       \/ \E c \in Codes \cup {None} :
            Goto(r, "find") /\ form' = [form EXCEPT ![r] = Draft(None, c, s)]
  /\ UNCHANGED <<mode, users, invites, identity>>

\* find_oidc_user; who is unknown needs an open door, and an invite where asked.
FindSubject(r) ==
  /\ rpc[r] = "find"
  /\ IF \/ identity[form[r].subject] # None
        \/ form[r].mode = "closed"
        \/ form[r].mode = "invite" /\ form[r].code = None
     THEN Return(r)
     ELSE Goto(r, "count") /\ UNCHANGED form
  /\ UNCHANGED <<mode, users, invites, identity>>

\* Mutant: the account of a subject is linked before it is there.
CountUsersLinks(r) ==
  /\ rpc[r] = "count"
  /\ \E n \in Name :
       IF form[r].subject = None
       THEN /\ n = form[r].name
            /\ form' = [form EXCEPT ![r].admin = Known = {}]
            /\ Goto(r, IF form[r].mode = "open" THEN "insert" ELSE "begin")
       ELSE n \notin Known /\ GotoLink(r, form[r].subject, n)
  /\ UNCHANGED <<mode, users, invites, identity>>

\* The loop over username_taken (a local user has typed a name), then user_count.
CountUsers(r) ==
  /\ rpc[r] = "count"
  /\ \E n \in Name :
       /\ IF form[r].subject = None THEN n = form[r].name
          ELSE n \in Known => Name = Known
       /\ form' = [form EXCEPT ![r].name = n, ![r].admin = Known = {}]
  /\ Goto(r, IF form[r].mode = "open" THEN "insert" ELSE "begin")
  /\ UNCHANGED <<mode, users, invites, identity>>

\* create_user: BEGIN fixes now(), which expires_at is compared with.
BeginRedemption(r) ==
  /\ rpc[r] = "begin"
  /\ form' = [form EXCEPT ![r].late = form[r].code \in Expired]
  /\ Goto(r, "redeem")
  /\ UNCHANGED <<mode, users, invites, identity>>

\* Mutant: the uses were counted before the transaction.
RedeemPreflight(r) ==
  /\ rpc[r] = "redeem"
  /\ LET c == form[r].code
         valid == invites[c] # None /\ ~form[r].late
     IN IF valid THEN Goto(r, "insert") /\ UNCHANGED form ELSE Return(r)
  /\ UNCHANGED <<mode, users, invites, identity>>

\* redeem: UPDATE invite_codes, which waits for the lock of the row and looks at
\* it again; uses counts this use once the transaction commits.
Redeem(r) ==
  /\ rpc[r] = "redeem" /\ ~Locked(form[r].code)
  /\ LET c == form[r].code
         valid == /\ invites[c] # None /\ ~form[r].late
                  /\ invites[c].max # None => invites[c].uses < invites[c].max
     IN IF valid THEN Goto(r, "insert") /\ UNCHANGED form ELSE Return(r)
  /\ UNCHANGED <<mode, users, invites, identity>>

\* INSERT INTO users, alone or as the rest of the transaction: with its row of
\* invite_redemptions, then the COMMIT.  A name that is taken violates the unique
\* key, and everything is rolled back.
InsertUser(r) ==
  /\ rpc[r] = "insert"
  /\ LET f == form[r]
         via == IF f.mode = "invite" THEN f.code ELSE None
     IN IF f.name \in Known
        THEN Return(r) /\ UNCHANGED <<users, invites>>
        ELSE /\ users' = [users EXCEPT ![f.name] = [admin |-> f.admin, via |-> via]]
             /\ invites' = IF via = None THEN invites ELSE [invites EXCEPT ![via].uses = @ + 1]
             /\ IF f.subject = None THEN Return(r) ELSE GotoLink(r, f.subject, f.name)
  /\ UNCHANGED <<mode, identity>>

\* link_oidc: the last to bind a subject has it.
LinkSubject(r) ==
  /\ rpc[r] = "link"
  /\ identity' = [identity EXCEPT ![form[r].subject] = form[r].link]
  /\ Return(r)
  /\ UNCHANGED <<mode, users, invites>>

\* A statement or the provider fails, or the request is dropped.
RegistrationFails(r) ==
  /\ rpc[r] # "idle"
  /\ Return(r)
  /\ UNCHANGED <<mode, users, invites, identity>>

RequestStep(r) ==
  /\ \/ RegisterPost(r) \/ Callback(r) \/ FindSubject(r) \/ CountUsers(r)
     \/ BeginRedemption(r) \/ Redeem(r) \/ InsertUser(r) \/ LinkSubject(r)
     \/ RegistrationFails(r)
  /\ UNCHANGED administering

(***************************************************************************)
(* The admin's forms: require_admin and what else is read first, then the  *)
(* statement.                                                              *)
(***************************************************************************)
\* Mutant: nothing keeps an admin from revoking their own rights.
GrantsAnyone(a) == [op : {"grant", "revoke"}, on : Known]

\* grant: nobody may revoke their own rights.
Grants(a) == [op : {"grant"}, on : Known] \cup [op : {"revoke"}, on : Known \ {a}]

\* create_invite with a random code, revoke_invite, and the mode in update_config.
Edits(a) ==
  Grants(a)
    \cup [op : {"invite"}, on : {c \in Code : invites[c] = None}, max : Uses]
    \cup [op : {"expire"}, on : {c \in Code : invites[c] # None}]
    \cup [op : {"mode"}, on : Mode]

Edit == [op : {"grant", "revoke"}, on : Name] \cup [op : {"invite"}, on : Code, max : Uses]
          \cup [op : {"expire"}, on : Code] \cup [op : {"mode"}, on : Mode]

Authorize(p) ==
  /\ ppc[p] = "idle"
  /\ \E a \in Admins : \E e \in Edits(a) : edit' = [edit EXCEPT ![p] = e]
  /\ ppc' = [ppc EXCEPT ![p] = "apply"]
  /\ UNCHANGED <<mode, users, invites, identity>>

Applied(p) == ppc' = [ppc EXCEPT ![p] = "idle"] /\ edit' = [edit EXCEPT ![p] = None]

\* set_admin.
SetAdmin(p) ==
  /\ ppc[p] = "apply" /\ edit[p].op \in {"grant", "revoke"}
  /\ users' = [users EXCEPT ![edit[p].on].admin = edit[p].op = "grant"]
  /\ Applied(p)
  /\ UNCHANGED <<mode, invites, identity>>

\* create.
CreateInvite(p) ==
  /\ ppc[p] = "apply" /\ edit[p].op = "invite"
  /\ invites[edit[p].on] = None
  /\ invites' = [invites EXCEPT ![edit[p].on] =
       [uses |-> 0, max |-> edit[p].max, expired |-> FALSE]]
  /\ Applied(p)
  /\ UNCHANGED <<mode, users, identity>>

\* revoke: SET expires_at = now(), once no redemption holds the row.
RevokeInvite(p) ==
  /\ ppc[p] = "apply" /\ edit[p].op = "expire" /\ ~Locked(edit[p].on)
  /\ invites' = [invites EXCEPT ![edit[p].on].expired = TRUE]
  /\ Applied(p)
  /\ UNCHANGED <<mode, users, identity>>

SetMode(p) ==
  /\ ppc[p] = "apply" /\ edit[p].op = "mode"
  /\ mode' = edit[p].on
  /\ Applied(p)
  /\ UNCHANGED <<users, invites, identity>>

\* The statement fails, or the request is dropped before it.
PanelFails(p) ==
  /\ ppc[p] = "apply"
  /\ Applied(p)
  /\ UNCHANGED <<mode, users, invites, identity>>

PanelStep(p) ==
  /\ \/ Authorize(p) \/ SetAdmin(p) \/ CreateInvite(p) \/ RevokeInvite(p)
     \/ SetMode(p) \/ PanelFails(p)
  /\ UNCHANGED registering

\* The time an invite was given runs out.
Lapse(c) ==
  /\ invites[c] # None /\ ~invites[c].expired
  /\ invites' = [invites EXCEPT ![c].expired = TRUE]
  /\ UNCHANGED <<mode, users, identity, registering, administering>>

-----------------------------------------------------------------------------
\* The migrations: no user, and registration open.
RegInit ==
  /\ mode = "open"
  /\ users = [n \in Name |-> None]
  /\ invites = [c \in Code |-> None]
  /\ identity = [s \in Subject |-> None]
  /\ rpc = [r \in Request |-> "idle"] /\ form = [r \in Request |-> None]
  /\ ppc = [p \in Panel |-> "idle"] /\ edit = [p \in Panel |-> None]

RegNext ==
  \/ \E r \in Request : RequestStep(r)
  \/ \E p \in Panel : PanelStep(p)
  \/ \E c \in Code : Lapse(c)

RegSpec == RegInit /\ [][RegNext]_regvars

-----------------------------------------------------------------------------
\* The tables and the locals of the handlers have the values of their types; a
\* subject is linked to a user that exists.
RegTypeOK ==
  /\ mode \in Mode
  /\ users \in [Name -> [admin : BOOLEAN, via : Code \cup {None}] \cup {None}]
  /\ invites \in [Code -> [uses : Nat, max : Uses, expired : BOOLEAN] \cup {None}]
  /\ identity \in [Subject -> Known \cup {None}]
  /\ \A r \in Request :
       /\ rpc[r] \in {"idle", "find", "count", "begin", "redeem", "insert", "link"}
       /\ form[r] \in Form \cup {None}
       /\ rpc[r] = "idle" <=> form[r] = None
  /\ \A p \in Panel :
       /\ ppc[p] \in {"idle", "apply"}
       /\ edit[p] \in Edit \cup {None}

Redeemed(c) == {a \in Known : users[a].via = c}

\* The uses of an invite are the accounts it made, and never more than it was
\* given, whatever registrations race for the last use, fail or are rolled back
\* ("no preflight count can race").
InvitesNotOverspent ==
  \A c \in Code : invites[c] # None =>
    /\ invites[c].uses = Cardinality(Redeemed(c))
    /\ invites[c].max # None => invites[c].uses <= invites[c].max

\* As long as the admin's forms are served one at a time, an instance with users
\* has an admin: the first account is one though count and INSERT are two steps,
\* and nobody revokes the last.
AdminRemains == (\A p, q \in Panel : p = q) /\ Known # {} => Admins # {}
=============================================================================
