------------------------- MODULE RegistrationProofs -------------------------
(***************************************************************************)
(* Proofs about Registration for every set of usernames, invite codes,     *)
(* requests and forms of admins.  That invites are not overspent is not    *)
(* inductive: RegIInv adds that a transaction which has redeemed a code is *)
(* the only one that has, and that its row still has a use left.           *)
(***************************************************************************)
EXTENDS Registration, FiniteSetTheorems, TLAPS

-----------------------------------------------------------------------------
(***************************************************************************)
(* The inductive invariant.                                                *)
(***************************************************************************)
User == [admin : BOOLEAN, via : Code \cup {None}]
Invite == [uses : Nat, max : Uses, expired : BOOLEAN]
Drafts == [mode : Mode, name : Name \cup {None}, code : Code \cup {None},
           subject : Subject \cup {None}, admin : BOOLEAN, late : BOOLEAN]
Links == [subject : Subject, link : Name]

\* Transactions that insert a user on the invite c.
Redeems(r, c) == rpc[r] = "insert" /\ form[r].mode = "invite" /\ form[r].code = c

TablesShape ==
  /\ mode \in Mode
  /\ users \in [Name -> User \cup {None}]
  /\ invites \in [Code -> Invite \cup {None}]

RequestsShape ==
  /\ rpc \in [Request -> {"idle", "find", "count", "begin", "redeem", "insert", "link"}]
  /\ form = [r \in Request |-> form[r]]
  /\ \A r \in Request :
       /\ rpc[r] \in {"find", "count", "begin", "redeem", "insert"} => form[r] \in Drafts
       /\ rpc[r] \in {"begin", "redeem", "insert"} => form[r].name \in Name
       /\ rpc[r] \in {"begin", "redeem"} => form[r].mode = "invite"
       /\ rpc[r] \in {"count", "begin", "redeem", "insert"} =>
            form[r].mode # "closed" /\ (form[r].mode = "invite" => form[r].code \in Code)

PanelsShape ==
  /\ ppc \in [Panel -> {"idle", "apply"}]
  /\ edit = [p \in Panel |-> edit[p]]
  /\ \A p \in Panel : ppc[p] = "apply" =>
       /\ edit[p] \in Edit
       /\ edit[p].op \in {"grant", "revoke"} => edit[p].on \in Known
       /\ edit[p].op = "expire" => invites[edit[p].on] # None

\* Every use of an invite is an account, and an account is a use of a known invite.
Spent ==
  /\ IsFiniteSet(Known)
  /\ \A c \in Code :
       /\ invites[c] = None => Redeemed(c) = {}
       /\ invites[c] # None =>
            /\ invites[c].uses = Cardinality(Redeemed(c))
            /\ invites[c].max # None => invites[c].uses <= invites[c].max

\* The lock of an invite's row: one transaction, and a use for it.
UseLeft ==
  \A c \in Code, r \in Request : Redeems(r, c) =>
    /\ invites[c] # None
    /\ invites[c].max # None => invites[c].uses < invites[c].max
    /\ \A q \in Request : Redeems(q, c) => q = r

RegIInv == TablesShape /\ RequestsShape /\ PanelsShape /\ Spent /\ UseLeft

-----------------------------------------------------------------------------
(***************************************************************************)
(* The invariant holds at first, and every step keeps it.                  *)
(***************************************************************************)
LEMMA RegInitial == RegInit => RegIInv
<1> SUFFICES ASSUME RegInit PROVE RegIInv
  OBVIOUS
<1>1. TablesShape /\ RequestsShape /\ PanelsShape /\ UseLeft
  BY DEF RegInit, TablesShape, Mode, RequestsShape, PanelsShape, UseLeft, Redeems
<1>2. Spent
  BY FS_EmptySet DEF RegInit, Spent, Redeemed, Known
<1>3. QED BY <1>1, <1>2 DEF RegIInv

\* A request that goes on without redeeming or inserting: its next place and locals.
LEMMA PlainStep ==
  ASSUME RegIInv, NEW r \in Request, UNCHANGED <<mode, users, invites, administering>>,
         NEW next, NEW f, rpc' = [rpc EXCEPT ![r] = next], form' = [form EXCEPT ![r] = f],
         next \in {"idle", "find", "count", "begin", "redeem", "insert", "link"},
         next \in {"find", "count", "begin", "redeem", "insert"} => f \in Drafts,
         next \in {"begin", "redeem", "insert"} => f.name \in Name,
         next \in {"begin", "redeem"} => f.mode = "invite",
         next \in {"count", "begin", "redeem", "insert"} =>
           f.mode # "closed" /\ (f.mode = "invite" => f.code \in Code),
         next = "insert" => f.mode # "invite"
  PROVE  RegIInv'
<1>1. rpc'[r] = next /\ form'[r] = f
      /\ \A q \in Request : q # r => rpc'[q] = rpc[q] /\ form'[q] = form[q]
  BY DEF RegIInv, RequestsShape
<1>2. Known' = Known /\ \A c \in Code : Redeemed(c)' = Redeemed(c)
  BY DEF Redeemed, Known
<1>3. TablesShape' /\ PanelsShape' /\ Spent'
  BY <1>2 DEF RegIInv, TablesShape, PanelsShape, Spent, administering
<1>4. RequestsShape'
  BY <1>1 DEF RegIInv, RequestsShape
<1>5. UseLeft'
  BY <1>1 DEF RegIInv, UseLeft, Redeems
<1>6. QED BY <1>3, <1>4, <1>5 DEF RegIInv

\* A handler that returns changes no table.
LEMMA ReturnStep ==
  ASSUME RegIInv, NEW r \in Request, Return(r),
         UNCHANGED <<mode, users, invites, administering>>
  PROVE  RegIInv'
BY PlainStep DEF Return, Goto

\* Statements that change no table, and those that link an identity.
LEMMA GoesOnStep ==
  ASSUME RegIInv, NEW r \in Request, UNCHANGED administering,
         \/ RegisterPost(r) \/ Callback(r) \/ FindSubject(r) \/ CountUsers(r)
         \/ BeginRedemption(r) \/ LinkSubject(r) \/ RegistrationFails(r)
  PROVE  RegIInv'
<1>1. UNCHANGED <<mode, users, invites, administering>> /\ mode \in Mode
  BY DEF RegisterPost, Callback, FindSubject, CountUsers, BeginRedemption, LinkSubject,
         RegistrationFails, RegIInv, TablesShape
<1>2. CASE RegisterPost(r)
  <2>1. PICK n \in Name, c \in Codes : form' = [form EXCEPT ![r] = Draft(n, c, None)]
    BY <1>2 DEF RegisterPost
  <2> DEFINE f == Draft(n, c, None)
  <2>2. /\ f \in Drafts /\ f.name \in Name /\ f.mode # "closed"
        /\ f.mode = "invite" => f.code \in Code
    BY <1>1, <1>2 DEF RegisterPost, Draft, Drafts, Codes, Mode
  <2>3. rpc' = [rpc EXCEPT ![r] = "count"]
    BY <1>2 DEF RegisterPost, Goto
  <2> HIDE DEF f
  <2>4. form' = [form EXCEPT ![r] = f]
    BY <2>1 DEF f
  <2>5. QED BY <1>1, <2>2, <2>3, <2>4, PlainStep
<1>3. CASE Callback(r)
  <2>1. CASE \E s \in Subject, a \in Known : GotoLink(r, s, a)
    BY <1>1, <2>1, PlainStep DEF GotoLink, Goto
  <2>2. ASSUME NEW s \in Subject, NEW c \in Codes \cup {None},
               Goto(r, "find"), form' = [form EXCEPT ![r] = Draft(None, c, s)]
        PROVE  RegIInv'
    <3> DEFINE f == Draft(None, c, s)
    <3>1. f \in Drafts
      BY <1>1 DEF Draft, Drafts, Codes
    <3>2. rpc' = [rpc EXCEPT ![r] = "find"] /\ form' = [form EXCEPT ![r] = f]
      BY <2>2 DEF Goto
    <3> HIDE DEF f
    <3>3. QED BY <1>1, <3>1, <3>2, PlainStep
  <2>3. QED BY <1>3, <2>1, <2>2 DEF Callback
<1>4. CASE FindSubject(r)
  <2>1. CASE Return(r)
    BY <1>1, <2>1, ReturnStep
  <2>2. CASE Goto(r, "count") /\ UNCHANGED form /\ form[r].mode # "closed"
             /\ ~(form[r].mode = "invite" /\ form[r].code = None)
    <3>1. form[r] \in Drafts /\ form' = [form EXCEPT ![r] = form[r]]
      BY <1>4, <2>2 DEF FindSubject, RegIInv, RequestsShape
    <3>2. form[r].mode = "invite" => form[r].code \in Code
      BY <2>2, <3>1 DEF Drafts
    <3>3. QED BY <1>1, <2>2, <3>1, <3>2, PlainStep DEF Goto
  <2>3. QED BY <1>4, <2>1, <2>2 DEF FindSubject
<1>5. CASE CountUsers(r)
  <2>1. PICK n \in Name : form' = [form EXCEPT ![r].name = n, ![r].admin = Known = {}]
    BY <1>5 DEF CountUsers
  <2> DEFINE f == [form[r] EXCEPT !.name = n, !.admin = Known = {}]
             next == IF form[r].mode = "open" THEN "insert" ELSE "begin"
  <2>2. /\ form[r] \in Drafts /\ form[r].mode \in {"open", "invite"}
        /\ form[r].mode = "invite" => form[r].code \in Code
    BY <1>5 DEF CountUsers, RegIInv, RequestsShape, Drafts, Mode
  <2>3. /\ f \in Drafts /\ f.name = n /\ f.mode = form[r].mode /\ f.code = form[r].code
    BY <2>2 DEF Drafts
  <2>4. form' = [form EXCEPT ![r] = f] /\ rpc' = [rpc EXCEPT ![r] = next]
    BY <1>5, <2>1 DEF CountUsers, Goto, RegIInv, RequestsShape
  <2>5. /\ next \in {"insert", "begin"}
        /\ next = "insert" => form[r].mode # "invite"
        /\ next = "begin" => form[r].mode = "invite"
    BY <2>2
  <2> HIDE DEF f, next
  <2>6. QED BY <1>1, <2>2, <2>3, <2>4, <2>5, PlainStep
<1>6. CASE BeginRedemption(r)
  <2> DEFINE late == form[r].code \in Expired
             f == [form[r] EXCEPT !.late = late]
  <2>1. late \in BOOLEAN
    OBVIOUS
  <2>2. form' = [form EXCEPT ![r] = f]
    BY <1>6, Zenon DEF BeginRedemption
  <2> HIDE DEF late
  <2>3. /\ form[r] \in Drafts /\ form[r].mode = "invite" /\ form[r].code \in Code
        /\ form[r].name \in Name
    BY <1>6 DEF BeginRedemption, RegIInv, RequestsShape
  <2>4. f \in Drafts /\ f.mode = "invite" /\ f.code \in Code /\ f.name \in Name
    BY <2>1, <2>3 DEF Drafts
  <2>5. rpc' = [rpc EXCEPT ![r] = "redeem"]
    BY <1>6 DEF BeginRedemption, Goto
  <2> HIDE DEF f
  <2>6. QED BY <1>1, <2>4, <2>5, <2>2, PlainStep
<1>7. CASE LinkSubject(r) \/ RegistrationFails(r)
  BY <1>1, <1>7, ReturnStep DEF LinkSubject, RegistrationFails
<1>8. QED BY <1>2, <1>3, <1>4, <1>5, <1>6, <1>7

\* UPDATE invite_codes: the row is locked, and looked at under the lock.
LEMMA RedeemStep ==
  ASSUME RegIInv, NEW r \in Request, Redeem(r), UNCHANGED administering
  PROVE  RegIInv'
<1> DEFINE c == form[r].code
<1>1. UNCHANGED <<mode, users, invites, administering>> /\ rpc[r] = "redeem" /\ ~Locked(c)
  BY DEF Redeem
<1>2. CASE Return(r)
  BY <1>1, <1>2, ReturnStep
<1>3. CASE Goto(r, "insert") /\ UNCHANGED form
           /\ invites[c] # None /\ (invites[c].max # None => invites[c].uses < invites[c].max)
  <2>1. /\ form[r] \in Drafts /\ form[r].mode = "invite" /\ c \in Code
        /\ rpc' = [rpc EXCEPT ![r] = "insert"] /\ UNCHANGED form
    BY <1>1, <1>3 DEF Goto, RegIInv, RequestsShape
  <2>2. TablesShape' /\ PanelsShape' /\ Spent'
    <3>1. Known' = Known /\ \A d \in Code : Redeemed(d)' = Redeemed(d)
      BY <1>1 DEF Redeemed, Known
    <3>2. QED
      BY <1>1, <3>1 DEF RegIInv, TablesShape, PanelsShape, Spent, administering
  <2>3. RequestsShape'
    BY <1>1, <2>1 DEF RegIInv, RequestsShape
  <2>4. \A q \in Request, d \in Code : Redeems(q, d)' <=> Redeems(q, d) \/ (q = r /\ d = c)
    BY <1>1, <2>1 DEF Redeems, RegIInv, RequestsShape
  <2>5. \A q \in Request : ~Redeems(q, c)
    BY <1>1 DEF Locked, Redeems
  <2> HIDE DEF c
  <2>6. UseLeft'
    BY <1>1, <1>3, <2>4, <2>5 DEF RegIInv, UseLeft
  <2>7. QED BY <2>2, <2>3, <2>6 DEF RegIInv
<1>4. QED BY <1>2, <1>3 DEF Redeem

\* The account and the use of its invite come to be together.
LEMMA InsertStep ==
  ASSUME RegIInv, NEW r \in Request, InsertUser(r), UNCHANGED administering
  PROVE  RegIInv'
<1>1. CASE form[r].name \in Known
  BY <1>1, ReturnStep DEF InsertUser
<1>2. CASE form[r].name \notin Known
  <2>1. /\ rpc[r] = "insert" /\ form[r] \in Drafts /\ form[r].name \in Name
        /\ form[r].mode = "invite" => form[r].code \in Code
    BY DEF InsertUser, RegIInv, RequestsShape
  <2>2. PICK via \in Code \cup {None} :
          via = IF form[r].mode = "invite" THEN form[r].code ELSE None
    BY <2>1
  <2>3. PICK a \in Name : a = form[r].name
    BY <2>1
  <2>4. PICK u \in User : u = [admin |-> form[r].admin, via |-> via]
    BY <2>1, <2>2 DEF User, Drafts
  <2>5. /\ mode' = mode /\ users' = [users EXCEPT ![a] = u]
        /\ invites' = IF via = None THEN invites ELSE [invites EXCEPT ![via].uses = @ + 1]
        /\ Return(r) \/ GotoLink(r, form[r].subject, a)
    BY <1>2, <2>2, <2>3, <2>4 DEF InsertUser
  <2>6. \A q \in Request : q # r => rpc'[q] = rpc[q] /\ form'[q] = form[q]
    BY <2>5 DEF Return, GotoLink, Goto, RegIInv, RequestsShape
  <2>7. rpc' \in [Request -> {"idle", "find", "count", "begin", "redeem", "insert", "link"}]
        /\ rpc'[r] \in {"idle", "link"} /\ form' = [q \in Request |-> form'[q]]
    BY <2>5 DEF Return, GotoLink, Goto, RegIInv, RequestsShape
  <2>8. a \notin Known /\ u.via = via /\ u # None
    BY <1>2, <2>3, <2>4, RegistrationNoneAssumption DEF User
  <2>9. \A c \in Code : c # via => invites'[c] = invites[c]
    BY <2>5 DEF RegIInv, TablesShape
  <2>10. via \in Code => /\ via # None /\ Redeems(r, via)
                         /\ invites[via] # None /\ invites[via] \in Invite
                         /\ invites[via].max # None => invites[via].uses < invites[via].max
    <3>1. via \in Code => via # None /\ Redeems(r, via)
      BY <2>1, <2>2, RegistrationNoneAssumption DEF Redeems
    <3>2. QED BY <3>1 DEF RegIInv, UseLeft, TablesShape
  <2>11. via \in Code =>
           /\ invites'[via].uses = invites[via].uses + 1 /\ invites'[via].max = invites[via].max
           /\ invites'[via] \in Invite /\ invites'[via] # None
    <3> HAVE via \in Code
    <3>1. invites'[via] = [invites[via] EXCEPT !.uses = @ + 1]
      BY <2>5, <2>10 DEF RegIInv, TablesShape
    <3>2. invites[via].uses + 1 \in Nat
      BY <2>10 DEF Invite
    <3>3. /\ invites'[via].uses = invites[via].uses + 1 /\ invites'[via].max = invites[via].max
          /\ invites'[via] \in Invite
      BY <2>10, <3>1, <3>2 DEF Invite
    <3>4. QED BY <3>3, RegistrationNoneAssumption DEF Invite
  <2>12. TablesShape'
    BY <2>5, <2>9, <2>11 DEF RegIInv, TablesShape
  <2>13. RequestsShape'
    BY <2>6, <2>7 DEF RegIInv, RequestsShape
  <2>14. Known' = Known \cup {a}
    BY <2>5, <2>8 DEF Known, RegIInv, TablesShape
  <2>15. \A c \in Code : invites[c] # None => invites'[c] # None
    BY <2>9, <2>11
  <2>16. PanelsShape'
    BY <2>14, <2>15 DEF RegIInv, PanelsShape, administering, Edit
  <2>17. \A c \in Code : Redeemed(c)' = IF c = via THEN Redeemed(c) \cup {a} ELSE Redeemed(c)
    BY <2>5, <2>8, <2>14 DEF Redeemed, Known, RegIInv, TablesShape
  <2>18. Spent'
    <3>1. IsFiniteSet(Known')
      BY <2>14, FS_AddElement DEF RegIInv, Spent
    <3>2. ASSUME NEW c \in Code, c # via
          PROVE  /\ invites'[c] = None => Redeemed(c)' = {}
                 /\ invites'[c] # None =>
                      /\ invites'[c].uses = Cardinality(Redeemed(c)')
                      /\ invites'[c].max # None => invites'[c].uses <= invites'[c].max
      BY <2>9, <2>17, <3>2 DEF RegIInv, Spent
    <3>3. ASSUME NEW c \in Code, c = via
          PROVE  /\ invites'[c] # None
                 /\ invites'[c].uses = Cardinality(Redeemed(c)')
                 /\ invites'[c].max # None => invites'[c].uses <= invites'[c].max
      <4>1. IsFiniteSet(Redeemed(c)) /\ a \notin Redeemed(c)
        BY <2>8, FS_Subset DEF Redeemed, RegIInv, Spent
      <4>2. Cardinality(Redeemed(c)') = Cardinality(Redeemed(c)) + 1
        BY <2>17, <3>3, <4>1, FS_AddElement
      <4>3. invites'[c].uses = Cardinality(Redeemed(c)')
        BY <2>10, <2>11, <3>3, <4>2 DEF RegIInv, Spent
      <4>4. ASSUME invites[c].max # None PROVE invites[c].uses + 1 <= invites[c].max
        <5>1. invites[c].max \in Nat
          BY <2>10, <3>3, <4>4, RegistrationAssumption DEF Invite
        <5>2. invites[c].uses \in Nat /\ invites[c].uses < invites[c].max
          BY <2>10, <3>3, <4>4 DEF Invite
        <5>3. QED BY <5>1, <5>2
      <4>5. QED BY <2>11, <3>3, <4>3, <4>4
    <3>4. QED BY <3>1, <3>2, <3>3 DEF Spent
  <2>19. \A q \in Request, c \in Code : Redeems(q, c)' => Redeems(q, c) /\ q # r
    BY <2>6, <2>7 DEF Redeems
  <2>20. UseLeft'
    <3> SUFFICES ASSUME NEW c \in Code, NEW q \in Request, Redeems(q, c)'
                 PROVE  /\ invites'[c] # None
                        /\ invites'[c].max # None => invites'[c].uses < invites'[c].max
                        /\ \A p \in Request : Redeems(p, c)' => p = q
      BY DEF UseLeft
    <3>1. Redeems(q, c) /\ q # r
      BY <2>19
    <3>2. c # via
      BY <2>10, <3>1 DEF RegIInv, UseLeft
    <3>3. QED BY <2>9, <2>19, <3>1, <3>2 DEF RegIInv, UseLeft
  <2>21. QED BY <2>12, <2>13, <2>16, <2>18, <2>20 DEF RegIInv
<1>3. QED BY <1>1, <1>2

\* An admin's edit is chosen; it may name the users that are there.
LEMMA AuthorizeStep ==
  ASSUME RegIInv, NEW p \in Panel, Authorize(p), UNCHANGED registering
  PROVE  RegIInv'
<1>1. PICK a \in Admins : \E e \in Edits(a) : edit' = [edit EXCEPT ![p] = e]
  BY DEF Authorize
<1>2. PICK e \in Edits(a) : edit' = [edit EXCEPT ![p] = e]
  BY <1>1
<1>3. /\ e \in Edit /\ (e.op \in {"grant", "revoke"} => e.on \in Known)
      /\ e.op = "expire" => invites[e.on] # None
  BY DEF Edits, Grants, Edit, Known
<1>4. PanelsShape'
  <2>1. ppc' = [ppc EXCEPT ![p] = "apply"] /\ UNCHANGED <<users, invites>>
    BY DEF Authorize
  <2>2. Known' = Known
    BY <2>1 DEF Known
  <2>3. ppc' \in [Panel -> {"idle", "apply"}] /\ edit' = [q \in Panel |-> edit'[q]]
    BY <1>2, <2>1 DEF RegIInv, PanelsShape
  <2>4. ASSUME NEW q \in Panel, ppc'[q] = "apply"
        PROVE  /\ edit'[q] \in Edit
               /\ edit'[q].op \in {"grant", "revoke"} => edit'[q].on \in Known
               /\ edit'[q].op = "expire" => invites[edit'[q].on] # None
    BY <1>2, <1>3, <2>1, <2>4 DEF RegIInv, PanelsShape
  <2>5. QED BY <2>1, <2>2, <2>3, <2>4 DEF PanelsShape
<1>5. UNCHANGED <<mode, users, invites, identity, rpc, form>>
  BY DEF Authorize, registering
<1>6. TablesShape' /\ RequestsShape'
  BY <1>5 DEF RegIInv, TablesShape, RequestsShape
<1>7. Spent' /\ UseLeft'
  BY <1>5 DEF RegIInv, Spent, UseLeft, Redeems, Redeemed, Known
<1>8. QED BY <1>4, <1>6, <1>7 DEF RegIInv

\* Statements on users and invites that leave the accounts and the uses alone.
LEMMA TablesStep ==
  ASSUME RegIInv, UNCHANGED registering, TablesShape', PanelsShape',
         Known' = Known, \A a \in Known : users'[a].via = users[a].via,
         \A c \in Code : invites[c] # None =>
           /\ invites'[c] # None
           /\ invites'[c].uses = invites[c].uses /\ invites'[c].max = invites[c].max,
         \A c \in Code : invites[c] = None /\ invites'[c] # None =>
           invites'[c].uses = 0 /\ (invites'[c].max # None => 0 <= invites'[c].max)
  PROVE  RegIInv'
<1>1. \A c \in Code : Redeemed(c)' = Redeemed(c)
  BY DEF Redeemed
<1>2. Spent'
  BY <1>1, FS_EmptySet DEF RegIInv, Spent
<1>3. RequestsShape' /\ UseLeft'
  BY DEF RegIInv, RequestsShape, UseLeft, Redeems, registering
<1>4. QED BY <1>2, <1>3 DEF RegIInv

\* A form that was applied leaves its admin with nothing to apply.
LEMMA PanelIsIdle ==
  ASSUME RegIInv, NEW p \in Panel, Applied(p), Known' = Known,
         \A c \in Code : invites[c] # None => invites'[c] # None
  PROVE  PanelsShape'
BY DEF Applied, RegIInv, PanelsShape, Edit

\* Nothing but the expiry of an invite that is there changes.
LEMMA ExpiryStep ==
  ASSUME RegIInv, NEW c \in Code, invites[c] # None,
         invites' = [invites EXCEPT ![c].expired = TRUE], UNCHANGED <<mode, users>>
  PROVE  /\ TablesShape'
         /\ \A d \in Code : invites[d] # None =>
              /\ invites'[d] # None
              /\ invites'[d].uses = invites[d].uses /\ invites'[d].max = invites[d].max
         /\ \A d \in Code : invites[d] = None => invites'[d] = None
<1>1. invites[c] \in Invite
  BY DEF RegIInv, TablesShape
<1>2. /\ [invites[c] EXCEPT !.expired = TRUE] \in Invite
      /\ [invites[c] EXCEPT !.expired = TRUE].uses = invites[c].uses
      /\ [invites[c] EXCEPT !.expired = TRUE].max = invites[c].max
  BY <1>1 DEF Invite
<1>3. [invites[c] EXCEPT !.expired = TRUE] # None
  BY <1>2, RegistrationNoneAssumption DEF Invite
<1>4. invites'[c] = [invites[c] EXCEPT !.expired = TRUE]
      /\ \A d \in Code : d # c => invites'[d] = invites[d]
  BY DEF RegIInv, TablesShape
<1>5. QED
  BY <1>2, <1>3, <1>4 DEF RegIInv, TablesShape

\* Every statement of the forms of admins keeps the invariant.
LEMMA RegPanelStep ==
  ASSUME RegIInv, NEW p \in Panel, PanelStep(p)
  PROVE  RegIInv'
<1> DEFINE e == edit[p]
<1>1. CASE Authorize(p)
  BY <1>1, AuthorizeStep DEF PanelStep
<1>2. CASE SetAdmin(p)
  <2>1. /\ users' = [users EXCEPT ![e.on].admin = e.op = "grant"] /\ e.on \in Known
        /\ Applied(p) /\ UNCHANGED <<mode, invites, registering>>
    BY <1>2 DEF SetAdmin, PanelStep, RegIInv, PanelsShape
  <2> DEFINE n == e.on  u == [users[n] EXCEPT !.admin = e.op = "grant"]
  <2>2. u \in User /\ u # None /\ u.via = users[n].via /\ n \in Name /\ users[n] # None
    BY <2>1, RegistrationNoneAssumption DEF Known, User, RegIInv, TablesShape
  <2>3. users' = [users EXCEPT ![n] = u]
    BY <2>1
  <2> HIDE DEF u, n
  <2>4. TablesShape' /\ Known' = Known /\ \A a \in Known : users'[a].via = users[a].via
    BY <2>1, <2>2, <2>3 DEF Known, RegIInv, TablesShape
  <2>5. QED BY <2>1, <2>4, PanelIsIdle, TablesStep DEF RegIInv, Spent
<1>3. CASE CreateInvite(p)
  <2> DEFINE c == e.on  i == [uses |-> 0, max |-> e.max, expired |-> FALSE]
  <2>1. /\ invites' = [invites EXCEPT ![c] = i] /\ invites[c] = None /\ e.op = "invite"
        /\ e \in Edit /\ Applied(p) /\ UNCHANGED <<mode, users, registering>>
    BY <1>3 DEF CreateInvite, PanelStep, RegIInv, PanelsShape
  <2>2. c \in Code /\ e.max \in Uses
    BY <2>1 DEF Edit
  <2>3. i \in Invite /\ i # None /\ i.uses = 0 /\ (i.max # None => 0 <= i.max)
    <3>1. i \in Invite /\ i.uses = 0 /\ i.max = e.max
      BY <2>2 DEF Invite
    <3>2. e.max # None => e.max \in Nat
      BY <2>2, RegistrationAssumption
    <3> HIDE DEF i
    <3>3. i # None
      BY <3>1, RegistrationNoneAssumption DEF Invite
    <3>4. i.max # None => 0 <= i.max
      BY <3>1, <3>2
    <3>5. QED BY <3>1, <3>3, <3>4
  <2> HIDE DEF i, c, e
  <2>4. TablesShape' /\ Known' = Known
    BY <2>1, <2>2, <2>3 DEF Known, RegIInv, TablesShape
  <2>5. invites'[c] = i /\ \A d \in Code : d # c => invites'[d] = invites[d]
    BY <2>1, <2>2 DEF RegIInv, TablesShape
  <2>6. QED BY <2>1, <2>3, <2>4, <2>5, PanelIsIdle, TablesStep
<1>4. CASE RevokeInvite(p)
  <2>1. PICK c \in Code : c = e.on /\ invites[c] # None
    BY <1>4 DEF RevokeInvite, RegIInv, PanelsShape, Edit
  <2>2. /\ invites' = [invites EXCEPT ![c].expired = TRUE]
        /\ Applied(p) /\ UNCHANGED <<mode, users, registering>>
    BY <1>4, <2>1 DEF RevokeInvite, PanelStep
  <2>3. QED BY <2>1, <2>2, ExpiryStep, PanelIsIdle, TablesStep DEF Known
<1>5. CASE SetMode(p)
  <2>1. e.on \in Mode /\ mode' = e.on /\ Applied(p) /\ UNCHANGED <<users, invites, registering>>
    BY <1>5 DEF SetMode, PanelStep, RegIInv, PanelsShape, Edit
  <2>2. TablesShape' /\ Known' = Known
    BY <2>1 DEF Known, RegIInv, TablesShape
  <2>3. QED BY <2>1, <2>2, PanelIsIdle, TablesStep
<1>6. CASE PanelFails(p)
  <2>1. Applied(p) /\ UNCHANGED <<mode, users, invites, registering>>
    BY <1>6 DEF PanelFails, PanelStep
  <2>2. TablesShape' /\ Known' = Known
    BY <2>1 DEF Known, RegIInv, TablesShape
  <2>3. QED BY <2>1, <2>2, PanelIsIdle, TablesStep
<1>7. QED
  BY <1>1, <1>2, <1>3, <1>4, <1>5, <1>6 DEF PanelStep

\* Every step of requests, forms and time keeps the invariant.
LEMMA RegStep == RegIInv /\ [RegNext]_regvars => RegIInv'
<1> SUFFICES ASSUME RegIInv, [RegNext]_regvars PROVE RegIInv'
  OBVIOUS
<1>1. CASE UNCHANGED regvars
  <2>1. UNCHANGED <<mode, users, invites, rpc, form, ppc, edit>>
    BY <1>1 DEF regvars, registering, administering
  <2>2. TablesShape' /\ PanelsShape' /\ Known' = Known
    BY <2>1 DEF RegIInv, TablesShape, PanelsShape, Known
  <2>3. QED BY <2>1, <2>2, TablesStep DEF registering
<1>2. ASSUME NEW r \in Request, RequestStep(r) PROVE RegIInv'
  BY <1>2, GoesOnStep, RedeemStep, InsertStep DEF RequestStep
<1>3. ASSUME NEW p \in Panel, PanelStep(p) PROVE RegIInv'
  BY <1>3, RegPanelStep
<1>4. ASSUME NEW c \in Code, Lapse(c) PROVE RegIInv'
  <2>1. /\ invites' = [invites EXCEPT ![c].expired = TRUE] /\ invites[c] # None
        /\ UNCHANGED <<mode, users, registering, administering>>
    BY <1>4 DEF Lapse
  <2>2. /\ TablesShape' /\ Known' = Known
        /\ \A d \in Code : invites[d] # None => invites'[d] # None
    BY <2>1, ExpiryStep DEF Known
  <2>3. PanelsShape'
    BY <2>1, <2>2 DEF RegIInv, PanelsShape, administering, Edit
  <2>4. QED BY <2>1, <2>2, <2>3, ExpiryStep, TablesStep
<1>5. QED
  BY <1>1, <1>2, <1>3, <1>4 DEF RegNext

-----------------------------------------------------------------------------
(***************************************************************************)
(* What else the tables and the locals hold.                               *)
(***************************************************************************)
\* An identity, and the handler about to link one, names an account that exists.
Linked ==
  /\ identity \in [Subject -> Known \cup {None}]
  /\ \A r \in Request :
       /\ rpc[r] = "idle" => form[r] = None
       /\ rpc[r] = "link" => form[r] \in Links /\ form[r].link \in Known
  /\ \A p \in Panel : ppc[p] = "idle" => edit[p] = None

\* Who is inserted without rights is not the first, and who revokes rights has some
\* that are not those revoked.
Seated ==
  /\ Known # {} => Admins # {}
  /\ \A r \in Request : rpc[r] \in {"begin", "redeem", "insert"} => form[r].admin \/ Known # {}
  /\ \A p \in Panel : ppc[p] = "apply" /\ edit[p].op = "revoke" => Admins \ {edit[p].on} # {}

\* A request touches its own locals, and no account goes away or loses its rights.
LEMMA RequestFrame ==
  ASSUME RegIInv, NEW r \in Request, RequestStep(r)
  PROVE  /\ UNCHANGED <<ppc, edit>>
         /\ \A q \in Request : q # r => rpc'[q] = rpc[q] /\ form'[q] = form[q]
         /\ Known \subseteq Known' /\ Admins \subseteq Admins'
<1>1. UNCHANGED <<ppc, edit>>
  BY DEF RequestStep, administering
<1>2. \A q \in Request : q # r => rpc'[q] = rpc[q] /\ form'[q] = form[q]
  <2>1. /\ rpc' = [rpc EXCEPT ![r] = rpc'[r]]
        /\ form' = [form EXCEPT ![r] = form'[r]]
    BY DEF RequestStep, RegisterPost, Callback, FindSubject, CountUsers, BeginRedemption, Redeem,
           InsertUser, LinkSubject, RegistrationFails, Return, Goto, GotoLink, RegIInv,
           RequestsShape
  <2>2. QED BY <2>1 DEF RegIInv, RequestsShape
<1>3. \/ users' = users
      \/ InsertUser(r) /\ \A n \in Known : n \in Name /\ users'[n] = users[n]
  <2>1. CASE InsertUser(r)
    BY <2>1 DEF InsertUser, Known, RegIInv, TablesShape
  <2>2. CASE ~InsertUser(r)
    BY <2>2 DEF RequestStep, RegisterPost, Callback, FindSubject, CountUsers, BeginRedemption,
           Redeem, LinkSubject, RegistrationFails
  <2>3. QED BY <2>1, <2>2
<1>4. Known \subseteq Known' /\ Admins \subseteq Admins'
  BY <1>3 DEF Known, Admins
<1>5. QED BY <1>1, <1>2, <1>4

\* What a request links is an account that it found or made.
LEMMA LinkedRequest ==
  ASSUME RegIInv, Linked, NEW r \in Request, RequestStep(r)
  PROVE  Linked'
<1>1. /\ UNCHANGED <<ppc, edit>> /\ Known \subseteq Known'
      /\ \A q \in Request : q # r => rpc'[q] = rpc[q] /\ form'[q] = form[q]
  BY RequestFrame
<1>2. identity' \in [Subject -> Known' \cup {None}]
  <2>1. CASE LinkSubject(r)
    <3>1. form[r].subject \in Subject /\ form[r].link \in Known
      BY <2>1 DEF LinkSubject, Linked, Links
    <3>2. QED BY <1>1, <2>1, <3>1 DEF LinkSubject, Linked
  <2>2. CASE identity' = identity
    BY <1>1, <2>2 DEF Linked
  <2>3. QED
    BY <2>1, <2>2 DEF RequestStep, RegisterPost, Callback, FindSubject, CountUsers,
           BeginRedemption, Redeem, InsertUser, RegistrationFails
<1>3. /\ rpc'[r] = "idle" => form'[r] = None
      /\ rpc'[r] = "link" => form'[r] \in Links /\ form'[r].link \in Known'
  <2>1. r \in DOMAIN rpc /\ r \in DOMAIN form
    BY DEF RegIInv, RequestsShape
  <2>2. ASSUME Return(r) PROVE rpc'[r] = "idle" /\ form'[r] = None
    BY <2>1, <2>2 DEF Return, Goto
  <2>3. ASSUME NEW s \in Subject, NEW a \in Name, a \in Known', GotoLink(r, s, a)
        PROVE  form'[r] \in Links /\ form'[r].link \in Known' /\ rpc'[r] = "link"
    BY <2>1, <2>3 DEF GotoLink, Goto, Links
  <2>4. ASSUME NEW next \in {"find", "count", "begin", "redeem", "insert"}, Goto(r, next)
        PROVE  rpc'[r] \notin {"idle", "link"}
    BY <2>1, <2>4 DEF Goto
  <2>5. CASE Callback(r)
    <3>1. Known \subseteq Name
      BY DEF Known
    <3>2. QED BY <1>1, <2>3, <2>4, <2>5, <3>1 DEF Callback
  <2>6. CASE InsertUser(r)
    <3>1. form[r] \in Drafts /\ form[r].name \in Name
      BY <2>6 DEF InsertUser, RegIInv, RequestsShape
    <3>2. CASE Return(r)
      BY <2>2, <3>2
    <3>3. CASE ~Return(r)
      <4>1. /\ form[r].subject # None /\ GotoLink(r, form[r].subject, form[r].name)
            /\ users'[form[r].name] = [admin |-> form[r].admin,
                 via |-> IF form[r].mode = "invite" THEN form[r].code ELSE None]
        BY <2>6, <3>1, <3>3 DEF InsertUser, RegIInv, TablesShape
      <4>2. users'[form[r].name] \in User
        <5>1. form[r].mode = "invite" => form[r].code \in Code
          BY <2>6 DEF InsertUser, RegIInv, RequestsShape
        <5>2. QED BY <3>1, <4>1, <5>1 DEF Drafts, User
      <4>3. form[r].name \in Known'
        BY <3>1, <4>2, RegistrationNoneAssumption DEF Known, User
      <4>4. form[r].subject \in Subject
        BY <3>1, <4>1 DEF Drafts
      <4>5. QED BY <2>3, <3>1, <4>1, <4>3, <4>4
    <3>4. QED BY <3>2, <3>3
  <2>7. CASE RegisterPost(r) \/ CountUsers(r) \/ BeginRedemption(r)
    BY <2>4, <2>7 DEF RegisterPost, CountUsers, BeginRedemption
  <2>8. CASE FindSubject(r) \/ Redeem(r)
    BY <2>2, <2>4, <2>8 DEF FindSubject, Redeem
  <2>9. CASE LinkSubject(r) \/ RegistrationFails(r)
    BY <2>2, <2>9 DEF LinkSubject, RegistrationFails
  <2>10. QED
    BY <2>5, <2>6, <2>7, <2>8, <2>9 DEF RequestStep
<1>4. QED BY <1>1, <1>2, <1>3 DEF Linked

\* An admin's form names an account that exists, and removes none.
LEMMA LinkedPanel ==
  ASSUME RegIInv, Linked, NEW p \in Panel, PanelStep(p)
  PROVE  Linked'
<1>1. /\ UNCHANGED <<identity, rpc, form>>
      /\ \A q \in Panel : q # p => ppc'[q] = ppc[q] /\ edit'[q] = edit[q]
      /\ ppc'[p] = "idle" => edit'[p] = None
  BY DEF PanelStep, Authorize, SetAdmin, CreateInvite, RevokeInvite, SetMode, PanelFails, Applied,
         RegIInv, PanelsShape, registering
<1>2. Known' = Known
  <2>1. CASE SetAdmin(p)
    <3>1. edit[p].on \in Known
      BY <2>1 DEF SetAdmin, RegIInv, PanelsShape
    <3>2. users[edit[p].on] \in User /\ edit[p].on \in Name
      BY <3>1 DEF Known, RegIInv, TablesShape
    <3>3. [users[edit[p].on] EXCEPT !.admin = edit[p].op = "grant"] \in User
      BY <3>2 DEF User
    <3>4. QED
      BY <2>1, <3>1, <3>2, <3>3, RegistrationNoneAssumption
         DEF SetAdmin, Known, User, RegIInv, TablesShape
  <2>2. CASE ~SetAdmin(p)
    BY <2>2 DEF PanelStep, Authorize, CreateInvite, RevokeInvite, SetMode, PanelFails, Known
  <2>3. QED BY <2>1, <2>2
<1>3. QED BY <1>1, <1>2 DEF Linked

\* Every step keeps what is linked.
LEMMA LinkedStep == RegIInv /\ Linked /\ [RegNext]_regvars => Linked'
<1> SUFFICES ASSUME RegIInv, Linked, [RegNext]_regvars PROVE Linked'
  OBVIOUS
<1>1. CASE UNCHANGED <<users, identity, registering, administering>>
  BY <1>1 DEF registering, administering, Linked, Known
<1>2. QED
  BY <1>1, LinkedRequest, LinkedPanel DEF RegNext, Lapse, regvars

\* A request seats the first account as an admin.
LEMMA SeatedRequest ==
  ASSUME RegIInv, Seated, NEW r \in Request, RequestStep(r)
  PROVE  Seated'
<1>1. /\ UNCHANGED <<ppc, edit>> /\ Known \subseteq Known' /\ Admins \subseteq Admins'
      /\ \A q \in Request : q # r => rpc'[q] = rpc[q] /\ form'[q] = form[q]
  BY RequestFrame
<1>2. Known' # {} => Admins' # {}
  <2>1. CASE Known # {}
    BY <1>1, <2>1 DEF Seated
  <2>2. CASE Known = {} /\ users' = users
    BY <2>2 DEF Known
  <2>3. CASE Known = {} /\ InsertUser(r) /\ users' # users
    <3>1. form[r].name \in Name /\ form[r].admin = TRUE
      BY <2>3 DEF InsertUser, RegIInv, RequestsShape, Seated, Drafts
    <3>2. /\ users'[form[r].name] = [admin |-> form[r].admin,
               via |-> IF form[r].mode = "invite" THEN form[r].code ELSE None]
      BY <2>3, <3>1 DEF InsertUser, RegIInv, TablesShape
    <3>3. users'[form[r].name] \in User
      <4>1. form[r].mode = "invite" => form[r].code \in Code
        BY <2>3 DEF InsertUser, RegIInv, RequestsShape
      <4>2. form[r] \in Drafts
        BY <2>3 DEF InsertUser, RegIInv, RequestsShape
      <4>3. QED BY <3>2, <4>1, <4>2 DEF Drafts, User
    <3>4. form[r].name \in Known' /\ users'[form[r].name].admin = TRUE
      BY <3>1, <3>2, <3>3, RegistrationNoneAssumption DEF Known, User
    <3>5. QED BY <3>4 DEF Admins
  <2>4. users' = users \/ InsertUser(r)
    BY DEF RequestStep, RegisterPost, Callback, FindSubject, CountUsers, BeginRedemption, Redeem,
           LinkSubject, RegistrationFails
  <2>5. QED BY <2>1, <2>2, <2>3, <2>4
<1>3. rpc'[r] \in {"begin", "redeem", "insert"} => form'[r].admin \/ Known' # {}
  <2>1. r \in DOMAIN rpc /\ r \in DOMAIN form
    BY DEF RegIInv, RequestsShape
  <2>2. CASE CountUsers(r)
    <3>1. form[r] \in Drafts /\ users' = users
      BY <2>2 DEF CountUsers, RegIInv, RequestsShape
    <3>2. PICK n \in Name : form' = [form EXCEPT ![r].name = n, ![r].admin = Known = {}]
      BY <2>2 DEF CountUsers
    <3>3. form'[r].admin = (Known = {})
      BY <2>1, <3>1, <3>2 DEF Drafts
    <3>4. QED BY <1>1, <3>3
  <2>3. CASE BeginRedemption(r)
    <3>1. form[r] \in Drafts /\ rpc[r] = "begin"
      BY <2>3 DEF BeginRedemption, RegIInv, RequestsShape
    <3>2. form'[r].admin = form[r].admin
      BY <2>1, <2>3, <3>1 DEF BeginRedemption, Drafts
    <3>3. QED BY <1>1, <3>1, <3>2 DEF Seated
  <2>4. CASE Redeem(r) /\ rpc'[r] # "idle"
    BY <1>1, <2>1, <2>4 DEF Redeem, Seated, Return, Goto
  <2>5. CASE ~CountUsers(r) /\ ~BeginRedemption(r) /\ ~Redeem(r)
    BY <2>1, <2>5 DEF RequestStep, RegisterPost, Callback, FindSubject, InsertUser, LinkSubject,
           RegistrationFails, Return, Goto, GotoLink
  <2>6. QED BY <2>2, <2>3, <2>4, <2>5
<1>4. QED BY <1>1, <1>2, <1>3 DEF Seated

\* The only form of an admin to be served revokes no rights of the admin who sent it.
LEMMA SeatedPanel ==
  ASSUME RegIInv, Seated, NEW p \in Panel, \A q \in Panel : q = p, PanelStep(p)
  PROVE  Seated'
<1>1. UNCHANGED <<rpc, form>> /\ p \in DOMAIN ppc /\ p \in DOMAIN edit
  BY DEF PanelStep, registering, RegIInv, PanelsShape
<1>2. CASE SetAdmin(p)
  <2> DEFINE on == edit[p].on
  <2>1. /\ ppc'[p] = "idle" /\ on \in Known
        /\ users' = [users EXCEPT ![on].admin = edit[p].op = "grant"]
        /\ edit[p].op \in {"grant", "revoke"} /\ ppc[p] = "apply"
    BY <1>1, <1>2 DEF SetAdmin, Applied, RegIInv, PanelsShape
  <2>2. users[on] \in User /\ on \in Name
    BY <2>1 DEF Known, RegIInv, TablesShape
  <2>3. /\ users'[on] \in User /\ users'[on].admin = (edit[p].op = "grant")
        /\ \A n \in Name : n # on => users'[n] = users[n]
    BY <2>1, <2>2 DEF User, RegIInv, TablesShape
  <2>4. Known \subseteq Known'
    BY <2>2, <2>3, RegistrationNoneAssumption DEF Known, User
  <2>5. Admins' # {}
    <3>1. CASE edit[p].op = "grant"
      <4>1. on \in Admins'
        BY <2>1, <2>3, <2>4, <3>1 DEF Admins
      <4>2. QED BY <4>1
    <3>2. CASE edit[p].op = "revoke"
      <4>1. PICK a \in Admins : a # on
        BY <2>1, <3>2 DEF Seated
      <4>2. a \in Admins'
        BY <2>3, <2>4, <4>1 DEF Admins, Known
      <4>3. QED BY <4>2
    <3>3. QED BY <2>1, <3>1, <3>2
  <2>6. QED BY <1>1, <2>1, <2>4, <2>5 DEF Seated
<1>3. CASE Authorize(p)
  <2>1. UNCHANGED users
    BY <1>3 DEF Authorize
  <2>2. PICK a \in Admins : edit'[p] \in Edits(a)
    BY <1>1, <1>3 DEF Authorize
  <2>3. edit'[p].op = "revoke" => edit'[p].on # a
    BY <2>2 DEF Edits, Grants
  <2>4. edit'[p].op = "revoke" => Admins' \ {edit'[p].on} # {}
    BY <2>1, <2>2, <2>3 DEF Admins, Known
  <2>5. Known' = Known /\ Admins' = Admins
    BY <2>1 DEF Admins, Known
  <2>6. QED BY <1>1, <2>4, <2>5 DEF Seated
<1>4. CASE ~SetAdmin(p) /\ ~Authorize(p)
  <2>1. UNCHANGED users /\ ppc'[p] = "idle"
    BY <1>1, <1>4 DEF PanelStep, CreateInvite, RevokeInvite, SetMode, PanelFails, Applied
  <2>2. Known' = Known /\ Admins' = Admins
    BY <2>1 DEF Admins, Known
  <2>3. QED BY <1>1, <2>1, <2>2 DEF Seated
<1>5. QED BY <1>2, <1>3, <1>4

\* Every step keeps an admin, where the forms of admins are served one at a time.
LEMMA SeatedStep ==
  ASSUME \A p, q \in Panel : p = q
  PROVE  RegIInv /\ Seated /\ [RegNext]_regvars => Seated'
<1> SUFFICES ASSUME RegIInv, Seated, [RegNext]_regvars PROVE Seated'
  OBVIOUS
<1>1. CASE UNCHANGED <<users, registering, administering>>
  BY <1>1 DEF registering, administering, Seated, Admins, Known
<1>2. QED
  BY <1>1, SeatedRequest, SeatedPanel DEF RegNext, Lapse, regvars

-----------------------------------------------------------------------------
\* A redemption holds its row from the check of the uses to the COMMIT.
THEOREM RegInductive == RegSpec => []RegIInv
BY RegInitial, RegStep, PTL DEF RegSpec

\* An invite has as many uses as it made accounts, and no more than it was given.
THEOREM InvitesKept == RegSpec => []InvitesNotOverspent
<1>1. RegIInv => InvitesNotOverspent
  BY DEF RegIInv, InvitesNotOverspent, Spent
<1>2. QED BY <1>1, RegInductive, PTL

\* The tables and the locals have the values of their types, and a subject is linked to
\* an account that exists: none goes away between the look and the link.
THEOREM RegTyped == RegSpec => []RegTypeOK
<1>1. RegInit => Linked
  BY DEF RegInit, Linked
<1>2. RegIInv /\ Linked => RegTypeOK
  <2> SUFFICES ASSUME RegIInv, Linked PROVE RegTypeOK
    OBVIOUS
  <2>1. /\ mode \in Mode
        /\ users \in [Name -> [admin : BOOLEAN, via : Code \cup {None}] \cup {None}]
        /\ invites \in [Code -> [uses : Nat, max : Uses, expired : BOOLEAN] \cup {None}]
        /\ identity \in [Subject -> Known \cup {None}]
    BY DEF RegIInv, TablesShape, User, Invite, Linked
  <2>2. ASSUME NEW r \in Request
        PROVE  /\ rpc[r] \in {"idle", "find", "count", "begin", "redeem", "insert", "link"}
               /\ form[r] \in Form \cup {None}
               /\ rpc[r] = "idle" <=> form[r] = None
    <3>1. Form = Drafts \cup Links
      BY DEF Form, Drafts, Links
    <3>2. QED
      BY <3>1, RegistrationFormAssumption DEF RegIInv, RequestsShape, Linked
  <2>3. ASSUME NEW p \in Panel
        PROVE  ppc[p] \in {"idle", "apply"} /\ edit[p] \in Edit \cup {None}
    BY DEF RegIInv, PanelsShape, Linked
  <2>4. QED BY <2>1, <2>2, <2>3 DEF RegTypeOK
<1>3. QED
  BY <1>1, <1>2, LinkedStep, RegInductive, PTL DEF RegSpec

\* The first account is an admin's, and one always is: count and INSERT are two steps, but
\* whoever counted none inserts an admin, and nobody revokes the last.
THEOREM AdminStays == RegSpec => []AdminRemains
<1>1. CASE \A p, q \in Panel : p = q
  <2>1. RegInit => Seated
    BY DEF RegInit, Seated, Known
  <2>2. Seated => AdminRemains
    BY DEF Seated, AdminRemains
  <2>3. RegIInv /\ Seated /\ [RegNext]_regvars => Seated'
    BY <1>1, SeatedStep
  <2>4. QED
    BY <2>1, <2>2, <2>3, RegInductive, PTL DEF RegSpec
<1>2. CASE ~ \A p, q \in Panel : p = q
  <2>1. AdminRemains
    BY <1>2 DEF AdminRemains
  <2>2. QED BY <2>1, PTL
<1>3. QED BY <1>1, <1>2
=============================================================================
