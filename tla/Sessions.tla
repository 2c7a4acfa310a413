------------------------------ MODULE Sessions ------------------------------
(***************************************************************************)
(* Signing in: the sessions of the browsers and what handlers keep in      *)
(* them, the passkeys of the users, and the ceremonies that register one   *)
(* and sign in with one.  A handler works on a copy of the record of its   *)
(* session, which the session layer writes back whole when the handler has *)
(* returned; the cookie of a request may be any id that was ever handed    *)
(* out, since a browser may have sent it before it was given a newer one.  *)
(***************************************************************************)
EXTENDS Common, Naturals, FiniteSets

CONSTANTS
  Person,    \* ids of users
  Sid,       \* ids of sessions, never handed out twice
  Handler,   \* requests under way
  Challenge, \* challenges of passkey ceremonies, never used twice; the
             \* credential made for one is named by it
  Count      \* the signature counters an authenticator may show

ASSUME SessionsAssumption == Count \subseteq Nat

\* What stands for NULL is no id of a session, and no row.
ASSUME SessionsNoneAssumption ==
  /\ None \notin [for : {"key", "login"}, user : Person]
  /\ None \notin [user : Person, counter : Count \cup {0}]
  /\ None \notin [user : Person \cup {None}]
  /\ None \notin [chal : Challenge, user : Person]
  /\ None \notin Sid

VARIABLES
  store,    \* the table of sessions
  born,     \* history: whom the id of a session was minted for
  issued,   \* history: what a challenge was issued for, and to whom
  answer,   \* the assertion made for a challenge of a sign-in
  passkeys, \* passkeys: [user, counter] by credential
  signed,   \* history: how many sign-ins an assertion was good for, while its
            \* passkey is registered
  hpc,      \* where each request is
  session,  \* its session: the id and its copy of the record
  tx        \* the rest of its locals: the challenge, the row that is locked

handling == <<hpc, session, tx>>
ceremonies == <<issued, answer, passkeys, signed>>
sessionvars == <<store, born, ceremonies, handling>>

\* SESSION_USER_ID, oidc_link_uid, oidc_csrf and what goes with it,
\* REGISTRATION_STATE with REGISTRATION_USER, AUTHENTICATION_STATE with
\* AUTHENTICATION_USER.
Empty == [user |-> None, link |-> None, flow |-> FALSE, registration |-> None,
          authentication |-> None]

Ceremony == [chal : Challenge, user : Person] \cup {None}
Session == [user : Person \cup {None}, link : Person \cup {None}, flow : BOOLEAN,
            registration : Ceremony, authentication : Ceremony]

\* Who the request h speaks for, and what is read of its session.
User(h) == session[h].data.user
Data(h) == session[h].data

Ends(h) ==
  /\ hpc' = [hpc EXCEPT ![h] = "idle"]
  /\ session' = [session EXCEPT ![h] = None]
  /\ tx' = [tx EXCEPT ![h] = None]

\* The handler returns, its session d to be saved.
Keeps(h, d) ==
  /\ hpc' = [hpc EXCEPT ![h] = "save"]
  /\ session' = [session EXCEPT ![h].data = d]
  /\ tx' = [tx EXCEPT ![h] = None]

\* Mutant: the session keeps its id through a sign-in.
SignsInSameId(h, d) == Keeps(h, d) /\ UNCHANGED store

\* session.insert(SESSION_USER_ID) and cycle_id: the old id leaves the store at
\* once, and a new one is minted when the session is saved.
SignsIn(h, d) ==
  /\ store' = IF session[h].id = None THEN store ELSE [store EXCEPT ![session[h].id] = None]
  /\ hpc' = [hpc EXCEPT ![h] = "save"]
  /\ session' = [session EXCEPT ![h] = [id |-> None, data |-> d]]
  /\ tx' = [tx EXCEPT ![h] = None]

(***************************************************************************)
(* The session layer.                                                      *)
(***************************************************************************)
\* The record of a cookie is read once; without one the session is new.
Load(h) ==
  /\ hpc[h] = "idle"
  /\ \E s \in {x \in Sid : born[x] # None} \cup {None} :
       session' = [session EXCEPT ![h] =
         IF s = None \/ store[s] = None THEN [id |-> None, data |-> Empty]
         ELSE [id |-> s, data |-> store[s]]]
  /\ hpc' = [hpc EXCEPT ![h] = "run"]
  /\ UNCHANGED <<store, born, tx, ceremonies>>

\* The whole copy is written, whether or not the row is still there; an empty
\* session is removed.
Save(h) ==
  /\ hpc[h] = "save"
  /\ LET s == session[h] IN
       IF s.id # None
       THEN /\ store' = [store EXCEPT ![s.id] = IF s.data = Empty THEN None ELSE s.data]
            /\ UNCHANGED born
       ELSE IF s.data = Empty THEN UNCHANGED <<store, born>>
       ELSE \E new \in {x \in Sid : born[x] = None} :
              /\ store' = [store EXCEPT ![new] = s.data]
              /\ born' = [born EXCEPT ![new] = [user |-> s.data.user]]
  /\ Ends(h)
  /\ UNCHANGED ceremonies

\* The request is dropped, or answers 5xx, which leaves the session unsaved.
HandlerFails(h) ==
  /\ hpc[h] # "idle"
  /\ Ends(h)
  /\ UNCHANGED <<store, born, ceremonies>>

(***************************************************************************)
(* Passwords and the provider.                                             *)
(***************************************************************************)
\* login_post with the right password, and register_post.
LoginPost(h) ==
  /\ hpc[h] = "run"
  /\ \E p \in Person : SignsIn(h, [Data(h) EXCEPT !.user = p])
  /\ UNCHANGED <<born, ceremonies>>

\* session.delete removes the row and nothing else.
Logout(h) ==
  /\ hpc[h] = "run" /\ session[h].id # None
  /\ store' = [store EXCEPT ![session[h].id] = None]
  /\ Ends(h)
  /\ UNCHANGED <<born, ceremonies>>

\* login, and link_start for the user of the session or of a token.
StartLogin(h) ==
  /\ hpc[h] = "run"
  /\ \E p \in IF User(h) = None THEN Person \cup {None} ELSE {User(h), None} :
       Keeps(h, [Data(h) EXCEPT !.link = p, !.flow = TRUE])
  /\ UNCHANGED <<store, born, ceremonies>>

\* callback: the account that asked to be linked, or the one of the identity.
CallbackFinish(h) ==
  /\ hpc[h] = "run" /\ Data(h).flow
  /\ \E p \in IF Data(h).link = None THEN Person ELSE {Data(h).link} :
       SignsIn(h, [Data(h) EXCEPT !.user = p, !.link = None])
  /\ UNCHANGED <<born, ceremonies>>

(***************************************************************************)
(* Passkeys.                                                               *)
(***************************************************************************)
Fresh == {c \in Challenge : issued[c] = None}
KeysOf(p) == {c \in Challenge : passkeys[c] # None /\ passkeys[c].user = p}

RegistrationStart(h) ==
  /\ hpc[h] = "run" /\ User(h) # None
  /\ \E c \in Fresh :
       /\ issued' = [issued EXCEPT ![c] = [for |-> "key", user |-> User(h)]]
       /\ Keeps(h, [Data(h) EXCEPT !.registration = [chal |-> c, user |-> User(h)]])
  /\ UNCHANGED <<store, born, answer, passkeys, signed>>

\* Mutant: the credential goes to whoever the session speaks for now.
RegistrationFinishAnyone(h) ==
  /\ hpc[h] = "run" /\ User(h) # None /\ Data(h).registration # None
  /\ LET started == Data(h).registration IN
       \E n \in Count \cup {0} :
         passkeys' = IF passkeys[started.chal] = None
                     THEN [passkeys EXCEPT ![started.chal] = [user |-> User(h), counter |-> n]]
                     ELSE passkeys
  /\ Keeps(h, [Data(h) EXCEPT !.registration = None])
  /\ UNCHANGED <<store, born, issued, answer, signed>>

\* "Passkey registration session changed" if it is not the user's who started it;
\* a credential is registered once, with the counter its authenticator shows.
RegistrationFinish(h) ==
  /\ hpc[h] = "run" /\ User(h) # None /\ Data(h).registration # None
  /\ LET started == Data(h).registration IN
       \E n \in Count \cup {0} :
         passkeys' = IF started.user = User(h) /\ passkeys[started.chal] = None
                     THEN [passkeys EXCEPT ![started.chal] = [user |-> User(h), counter |-> n]]
                     ELSE passkeys
  /\ Keeps(h, [Data(h) EXCEPT !.registration = None])
  /\ UNCHANGED <<store, born, issued, answer, signed>>

\* The challenge is for the passkeys of the user who is named.
AuthenticationStart(h) ==
  /\ hpc[h] = "run"
  /\ \E p \in Person, c \in Fresh :
       /\ KeysOf(p) # {}
       /\ issued' = [issued EXCEPT ![c] = [for |-> "login", user |-> p]]
       /\ Keeps(h, [Data(h) EXCEPT !.authentication = [chal |-> c, user |-> p]])
  /\ UNCHANGED <<store, born, answer, passkeys, signed>>

\* The user's authenticator signs the challenge: an authenticator either counts
\* its signatures, or shows 0 in each.  Whether it counts on from what it showed when
\* it was registered is for the server to see.
SignChallenge(c) ==
  /\ issued[c] # None /\ issued[c].for = "login" /\ answer[c] = None
  /\ \E key \in KeysOf(issued[c].user), n \in Count :
       /\ \A d \in Challenge :
            answer[d] # None /\ answer[d].key = key /\ n # 0 => answer[d].count < n
       /\ answer' = [answer EXCEPT ![c] = [key |-> key, count |-> n]]
  /\ UNCHANGED <<store, born, issued, passkeys, signed, handling>>

\* authentication_finish: the ceremony is taken out of the session, and the
\* assertion posted must be for its challenge.
AuthenticationFinish(h) ==
  /\ hpc[h] = "run" /\ Data(h).authentication # None
  /\ LET started == Data(h).authentication
         d == [Data(h) EXCEPT !.authentication = None]
     IN IF answer[started.chal] = None THEN Keeps(h, d)
        ELSE /\ session' = [session EXCEPT ![h].data = d]
             /\ tx' = [tx EXCEPT ![h] = [chal |-> started.chal, user |-> started.user]]
             /\ hpc' = [hpc EXCEPT ![h] = "lock"]
  /\ UNCHANGED <<store, born, ceremonies>>

KeyLocked(key) ==
  \E h \in Handler : hpc[h] = "advance" /\ answer[tx[h].chal].key = key

\* Mutant: the counter that was read is not compared.
LockPasskeyUnchecked(h) ==
  /\ hpc[h] = "lock"
  /\ LET key == answer[tx[h].chal].key IN
       /\ ~KeyLocked(key)
       /\ IF passkeys[key] # None
          THEN hpc' = [hpc EXCEPT ![h] = "advance"] /\ UNCHANGED <<session, tx>>
          ELSE Keeps(h, Data(h))
  /\ UNCHANGED <<store, born, ceremonies>>

\* SELECT ... FOR UPDATE: "passkey counter did not advance" unless it does, or the
\* authenticator has never counted.
LockPasskey(h) ==
  /\ hpc[h] = "lock"
  /\ LET now == answer[tx[h].chal]
         row == passkeys[now.key]
     IN /\ ~KeyLocked(now.key)
        /\ IF row # None /\ (row.counter > 0 => now.count > row.counter)
           THEN hpc' = [hpc EXCEPT ![h] = "advance"] /\ UNCHANGED <<session, tx>>
           ELSE Keeps(h, Data(h))
  /\ UNCHANGED <<store, born, ceremonies>>

\* The history of an assertion counts no further.
Often == 2

\* UPDATE passkeys and COMMIT, then the sign-in.
AdvanceCounter(h) ==
  /\ hpc[h] = "advance"
  /\ LET c == tx[h].chal IN
       /\ passkeys' = [passkeys EXCEPT ![answer[c].key].counter = answer[c].count]
       /\ signed' = [signed EXCEPT ![c] = IF @ < Often THEN @ + 1 ELSE @]
  /\ SignsIn(h, [Data(h) EXCEPT !.user = tx[h].user])
  /\ UNCHANGED <<born, issued, answer>>

DeletePasskey(h) ==
  /\ hpc[h] = "run" /\ User(h) # None
  /\ \E key \in KeysOf(User(h)) :
       /\ ~KeyLocked(key)
       /\ passkeys' = [passkeys EXCEPT ![key] = None]
       /\ signed' = [c \in Challenge |->
            IF answer[c] # None /\ answer[c].key = key THEN 0 ELSE signed[c]]
  /\ Ends(h)
  /\ UNCHANGED <<store, born, issued, answer>>

-----------------------------------------------------------------------------
SessionsInit ==
  /\ store = [s \in Sid |-> None] /\ born = [s \in Sid |-> None]
  /\ issued = [c \in Challenge |-> None] /\ answer = [c \in Challenge |-> None]
  /\ passkeys = [c \in Challenge |-> None] /\ signed = [c \in Challenge |-> 0]
  /\ hpc = [h \in Handler |-> "idle"] /\ session = [h \in Handler |-> None]
  /\ tx = [h \in Handler |-> None]

SessionsNext ==
  \/ \E h \in Handler :
       \/ Load(h) \/ Save(h) \/ HandlerFails(h)
       \/ LoginPost(h) \/ Logout(h) \/ StartLogin(h) \/ CallbackFinish(h)
       \/ RegistrationStart(h) \/ RegistrationFinish(h)
       \/ AuthenticationStart(h) \/ AuthenticationFinish(h)
       \/ LockPasskey(h) \/ AdvanceCounter(h) \/ DeletePasskey(h)
  \/ \E c \in Challenge : SignChallenge(c)

SessionsSpec == SessionsInit /\ [][SessionsNext]_sessionvars

-----------------------------------------------------------------------------
\* The sessions, the passkeys and the locals have the values of their types.
SessionsTypeOK ==
  /\ \A s \in Sid : store[s] \in Session \cup {None}
  /\ \A s \in Sid : born[s] = None => store[s] = None
  /\ \A c \in Challenge :
       /\ passkeys[c] \in [user : Person, counter : Count \cup {0}] \cup {None}
       /\ answer[c] \in [key : Challenge, count : Count] \cup {None}
       /\ passkeys[c] # None => issued[c].for = "key"
  /\ \A h \in Handler :
       /\ hpc[h] \in {"idle", "run", "save", "lock", "advance"}
       /\ session[h] \in [id : Sid \cup {None}, data : Session] \cup {None}
       /\ hpc[h] \in {"lock", "advance"} => tx[h] \in Ceremony \ {None}

\* A session speaks for a user only under an id that was minted when that user
\* signed in: an id that was known before, to another user or to nobody, never
\* turns into a user's, however the saves of concurrent requests overwrite each
\* other.
SignInMintsId ==
  \A s \in Sid : store[s] # None /\ store[s].user # None => born[s].user = store[s].user

\* A credential belongs to the user its challenge was issued to, for a registration,
\* though the session may have changed hands, or begun to sign in, during the ceremony.
PasskeyOwner ==
  \A c \in Challenge : passkeys[c] # None =>
    passkeys[c].user = issued[c].user /\ issued[c].for = "key"

\* The assertion of an authenticator that counts is good for one sign-in, though
\* two requests may carry it with two copies of the session its challenge is in,
\* until its passkey is deleted.
OneSignInPerAssertion ==
  \A c \in Challenge : answer[c] # None /\ answer[c].count > 0 => signed[c] <= 1
=============================================================================
