--------------------------- MODULE SessionsProofs ---------------------------
(***************************************************************************)
(* Proofs about Sessions for every set of users, sessions, requests and    *)
(* challenges.  SessionsIInv says of the copies of records that requests   *)
(* work on what the properties say of the tables, and what the lock of a   *)
(* passkey's row keeps true between the check of its counter and the sign- *)
(* in.                                                                     *)
(***************************************************************************)
EXTENDS Sessions, TLAPS

-----------------------------------------------------------------------------
(***************************************************************************)
(* The inductive invariant.                                                *)
(***************************************************************************)
HandlerPC == {"idle", "run", "save", "lock", "advance"}
Copy == [id : Sid \cup {None}, data : Session]
Started == [chal : Challenge, user : Person]
Issue == [for : {"key", "login"}, user : Person]
Passkey == [user : Person, counter : Count \cup {0}]
Assertion == [key : Challenge, count : Count]

SessionShapes ==
  /\ store \in [Sid -> Session \cup {None}]
  /\ born \in [Sid -> [user : Person \cup {None}] \cup {None}]
  /\ issued \in [Challenge -> Issue \cup {None}]
  /\ hpc \in [Handler -> HandlerPC]
  /\ session \in [Handler -> Copy \cup {None}]
  /\ \A h \in Handler : hpc[h] # "idle" => session[h] \in Copy

KeyShapes ==
  /\ answer \in [Challenge -> Assertion \cup {None}]
  /\ passkeys \in [Challenge -> Passkey \cup {None}]
  /\ signed \in [Challenge -> 0 .. Often]
  /\ tx \in [Handler -> Started \cup {None}]
  /\ \A h \in Handler : hpc[h] \in {"lock", "advance"} => tx[h] \in Started

\* A record d of the id: who it speaks for is whom the id was minted for, and the
\* ceremony in it is the one its challenge was issued for.
Fits(id, d) ==
  /\ id # None => born[id] # None /\ (d.user # None => born[id].user = d.user)
  /\ d.registration # None =>
       /\ issued[d.registration.chal] # None
       /\ issued[d.registration.chal].for = "key"
       /\ issued[d.registration.chal].user = d.registration.user

SessionsFit ==
  /\ \A s \in Sid : store[s] # None => Fits(s, store[s])
  /\ \A h \in Handler : hpc[h] # "idle" => Fits(session[h].id, session[h].data)

KeysFit ==
  \A c \in Challenge : passkeys[c] # None =>
    issued[c] # None /\ issued[c].for = "key" /\ passkeys[c].user = issued[c].user

\* Under the lock: the row is there, and has not reached the counter of the assertion.
KeyOf(h) == answer[tx[h].chal].key
LocksHold ==
  /\ \A h \in Handler : hpc[h] \in {"lock", "advance"} => answer[tx[h].chal] # None
  /\ \A h \in Handler : hpc[h] = "advance" =>
       /\ passkeys[KeyOf(h)] # None
       /\ passkeys[KeyOf(h)].counter > 0 => answer[tx[h].chal].count > passkeys[KeyOf(h)].counter
  /\ \A h, k \in Handler :
       hpc[h] = "advance" /\ hpc[k] = "advance" /\ KeyOf(h) = KeyOf(k) => h = k

\* An assertion that was good once is not above the counter of its passkey any more.
SpentOnce ==
  \A c \in Challenge : signed[c] > 0 =>
    /\ answer[c] # None
    /\ passkeys[answer[c].key] # None
    /\ passkeys[answer[c].key].counter >= answer[c].count
    /\ answer[c].count > 0 => signed[c] = 1

SessionsIInv ==
  SessionShapes /\ KeyShapes /\ SessionsFit /\ KeysFit /\ LocksHold /\ SpentOnce

\* Ids are minted once, and challenges issued once.
Grows ==
  /\ born' \in [Sid -> [user : Person \cup {None}] \cup {None}]
  /\ issued' \in [Challenge -> Issue \cup {None}]
  /\ \A s \in Sid : born[s] # None => born'[s] = born[s]
  /\ \A c \in Challenge : issued[c] # None => issued'[c] = issued[c]

\* Fits in the next state, of values of this one.
FitsThen(id, d) ==
  /\ id # None => born'[id] # None /\ (d.user # None => born'[id].user = d.user)
  /\ d.registration # None =>
       /\ issued'[d.registration.chal] # None
       /\ issued'[d.registration.chal].for = "key"
       /\ issued'[d.registration.chal].user = d.registration.user

-----------------------------------------------------------------------------
(***************************************************************************)
(* The invariant holds at first, and every step keeps it.                  *)
(***************************************************************************)
LEMMA SessionsInitial == SessionsInit => SessionsIInv
BY DEF SessionsInit, SessionsIInv, SessionShapes, KeyShapes, HandlerPC, SessionsFit, KeysFit,
       LocksHold, SpentOnce, Often

\* What fits goes on to.
LEMMA FitsStays ==
  ASSUME SessionShapes, Grows, NEW id \in Sid \cup {None}, NEW d \in Session, Fits(id, d)
  PROVE  FitsThen(id, d)
BY DEF SessionShapes, Grows, Fits, FitsThen, Session, Ceremony

\* The sessions after a step of one request, whose copy becomes c, and which may
\* write d to the row s.
LEMMA CopyStep ==
  ASSUME SessionsIInv, Grows, NEW h \in Handler, NEW next \in HandlerPC,
         NEW c \in Copy \cup {None},
         hpc' = [hpc EXCEPT ![h] = next], session' = [session EXCEPT ![h] = c],
         next # "idle" => c \in Copy /\ FitsThen(c.id, c.data),
         store' \in [Sid -> Session \cup {None}],
         \A s \in Sid : store'[s] # None => store'[s] = store[s] \/ FitsThen(s, store'[s])
  PROVE  SessionShapes' /\ SessionsFit'
<1>1. SessionShapes'
  BY DEF SessionsIInv, SessionShapes, Grows
<1>2. \A s \in Sid : store'[s] # None => FitsThen(s, store'[s])
  BY FitsStays DEF SessionsIInv, SessionShapes, SessionsFit
<1>3. \A k \in Handler : hpc'[k] # "idle" => FitsThen(session'[k].id, session'[k].data)
  <2> SUFFICES ASSUME NEW k \in Handler, hpc'[k] # "idle"
               PROVE  FitsThen(session'[k].id, session'[k].data)
    OBVIOUS
  <2>1. CASE k = h
    BY <2>1 DEF SessionsIInv, SessionShapes
  <2>2. CASE k # h
    <3>1. session'[k] = session[k] /\ hpc[k] # "idle" /\ session[k] \in Copy
      BY <2>2 DEF SessionsIInv, SessionShapes
    <3>2. Fits(session[k].id, session[k].data)
      BY <3>1 DEF SessionsIInv, SessionsFit
    <3>3. session[k].id \in Sid \cup {None} /\ session[k].data \in Session
      BY <3>1 DEF Copy
    <3>4. QED BY <3>1, <3>2, <3>3, FitsStays DEF SessionsIInv
  <2>3. QED BY <2>1, <2>2
<1>4. SessionsFit'
  BY <1>2, <1>3 DEF SessionsFit, Fits, FitsThen
<1>5. QED BY <1>1, <1>4

\* The passkeys after a step of a request that neither takes nor uses the lock.
LEMMA KeysStep ==
  ASSUME SessionsIInv, Grows, NEW h \in Handler, NEW next \in HandlerPC \ {"advance"},
         NEW t \in Started \cup {None},
         hpc' = [hpc EXCEPT ![h] = next], tx' = [tx EXCEPT ![h] = t],
         next = "lock" => t \in Started /\ answer[t.chal] # None,
         UNCHANGED <<answer, passkeys, signed>>
  PROVE  KeyShapes' /\ KeysFit' /\ LocksHold' /\ SpentOnce'
<1>1. KeyShapes'
  BY DEF SessionsIInv, SessionShapes, KeyShapes
<1>2. KeysFit' /\ SpentOnce'
  BY DEF SessionsIInv, KeysFit, SpentOnce, Grows
<1>3. LocksHold'
  BY DEF SessionsIInv, SessionShapes, KeyShapes, LocksHold, KeyOf
<1>4. QED BY <1>1, <1>2, <1>3

\* Issues and mints only what is new, and stores and copies what fits.
LEMMA RequestStep ==
  ASSUME SessionsIInv, Grows, NEW h \in Handler, NEW next \in HandlerPC \ {"advance"},
         NEW c \in Copy \cup {None}, NEW t \in Started \cup {None},
         hpc' = [hpc EXCEPT ![h] = next], session' = [session EXCEPT ![h] = c],
         tx' = [tx EXCEPT ![h] = t],
         next # "idle" => c \in Copy /\ FitsThen(c.id, c.data),
         next = "lock" => t \in Started /\ answer[t.chal] # None,
         store' \in [Sid -> Session \cup {None}],
         \A s \in Sid : store'[s] # None => store'[s] = store[s] \/ FitsThen(s, store'[s]),
         UNCHANGED <<answer, passkeys, signed>>
  PROVE  SessionsIInv'
BY CopyStep, KeysStep DEF SessionsIInv

\* A request that ends, whatever it has removed or saved of its session.
LEMMA EndsStep ==
  ASSUME SessionsIInv, Grows, NEW h \in Handler, Ends(h),
         store' \in [Sid -> Session \cup {None}],
         \A s \in Sid : store'[s] # None => store'[s] = store[s] \/ FitsThen(s, store'[s]),
         UNCHANGED <<answer, passkeys, signed>>
  PROVE  SessionsIInv'
BY RequestStep DEF Ends, HandlerPC

\* A handler that returns: its copy keeps its id and its user.
LEMMA KeepsCopy ==
  ASSUME SessionsIInv, Grows, NEW h \in Handler, hpc[h] # "idle", NEW d \in Session, Keeps(h, d),
         d.user = Data(h).user,
         d.registration \in {None, Data(h).registration} \/ FitsThen(None, d),
         UNCHANGED store
  PROVE  SessionShapes' /\ SessionsFit'
<1>1. session[h] \in Copy /\ Fits(session[h].id, session[h].data)
  BY DEF SessionsIInv, SessionShapes, SessionsFit
<1>2. FitsThen(session[h].id, session[h].data)
  BY <1>1, FitsStays DEF SessionsIInv, Copy
<1> DEFINE c == [id |-> session[h].id, data |-> d]
<1>3. c \in Copy /\ c.id = session[h].id /\ c.data = d
  BY <1>1 DEF Copy
<1>4. FitsThen(c.id, c.data)
  BY <1>2, <1>3 DEF FitsThen, Data
<1>5. session' = [session EXCEPT ![h] = c]
  <2>1. [session[h] EXCEPT !.data = d] = c
    BY <1>1 DEF Copy
  <2>2. QED BY <2>1 DEF Keeps
<1> HIDE DEF c
<1>6. hpc' = [hpc EXCEPT ![h] = "save"] /\ tx' = [tx EXCEPT ![h] = None]
  BY DEF Keeps
<1>7. store' \in [Sid -> Session \cup {None}]
  BY DEF SessionsIInv, SessionShapes
<1>8. QED
  BY <1>3, <1>4, <1>5, <1>6, <1>7, CopyStep DEF HandlerPC

\* A handler that goes on with a record whose user it has not changed.
LEMMA KeepsStep ==
  ASSUME SessionsIInv, Grows, NEW h \in Handler, hpc[h] # "idle", NEW d \in Session, Keeps(h, d),
         d.user = Data(h).user,
         d.registration \in {None, Data(h).registration} \/ FitsThen(None, d),
         UNCHANGED <<store, answer, passkeys, signed>>
  PROVE  SessionsIInv'
BY KeepsCopy, KeysStep DEF Keeps, HandlerPC, SessionsIInv

\* A sign-in leaves the id of the session behind, and whom it was minted for with it.
LEMMA SignsInCopy ==
  ASSUME SessionsIInv, NEW h \in Handler, hpc[h] # "idle", NEW d \in Session, SignsIn(h, d),
         d.registration = Data(h).registration,
         UNCHANGED <<born, issued>>
  PROVE  SessionShapes' /\ SessionsFit'
<1>1. session[h] \in Copy /\ Fits(session[h].id, session[h].data)
  BY DEF SessionsIInv, SessionShapes, SessionsFit
<1> DEFINE c == [id |-> None, data |-> d]
<1>2. c \in Copy /\ c.id = None /\ c.data = d
  BY DEF Copy
<1>3. FitsThen(c.id, c.data)
  BY <1>1, <1>2 DEF Fits, FitsThen, Data
<1>4. Grows
  BY DEF Grows, SessionsIInv, SessionShapes
<1>5. /\ store' \in [Sid -> Session \cup {None}]
      /\ \A s \in Sid : store'[s] # None => store'[s] = store[s]
  BY DEF SignsIn, SessionsIInv, SessionShapes
<1>6. /\ hpc' = [hpc EXCEPT ![h] = "save"] /\ tx' = [tx EXCEPT ![h] = None]
      /\ session' = [session EXCEPT ![h] = c]
  BY DEF SignsIn
<1> HIDE DEF c
<1>7. QED
  BY <1>2, <1>3, <1>4, <1>5, <1>6, CopyStep DEF HandlerPC

\* A sign-in by password or provider: a new id, the user, and no other table.
LEMMA SignsInStep ==
  ASSUME SessionsIInv, NEW h \in Handler, hpc[h] # "idle", NEW d \in Session, SignsIn(h, d),
         d.registration = Data(h).registration,
         UNCHANGED <<born, issued, answer, passkeys, signed>>
  PROVE  SessionsIInv'
<1>1. Grows
  BY DEF Grows, SessionsIInv, SessionShapes
<1>2. QED
  BY <1>1, SignsInCopy, KeysStep DEF SignsIn, HandlerPC, SessionsIInv

\* A request starts from a copy of a stored session, or from an empty one.
LEMMA LoadStep ==
  ASSUME SessionsIInv, NEW h \in Handler, Load(h)
  PROVE  SessionsIInv'
<1>1. PICK s \in Sid \cup {None} :
        session' = [session EXCEPT ![h] =
          IF s = None \/ store[s] = None THEN [id |-> None, data |-> Empty]
          ELSE [id |-> s, data |-> store[s]]]
  BY DEF Load
<1> DEFINE c == IF s = None \/ store[s] = None THEN [id |-> None, data |-> Empty]
                ELSE [id |-> s, data |-> store[s]]
<1>2. c \in Copy
  BY DEF SessionsIInv, SessionShapes, Copy, Session, Empty, Ceremony
<1>3. Grows
  BY DEF Load, ceremonies, Grows, SessionsIInv, SessionShapes
<1>4. FitsThen(c.id, c.data)
  BY DEF Load, ceremonies, FitsThen, Fits, SessionsIInv, SessionsFit, Empty
<1>5. tx' = [tx EXCEPT ![h] = tx[h]] /\ tx[h] \in Started \cup {None}
  BY DEF Load, SessionsIInv, KeyShapes
<1>6. store' \in [Sid -> Session \cup {None}]
  BY DEF Load, SessionsIInv, SessionShapes
<1>7. hpc' = [hpc EXCEPT ![h] = "run"] /\ UNCHANGED <<store, answer, passkeys, signed>>
  BY DEF Load, ceremonies
<1>8. session' = [session EXCEPT ![h] = c]
  BY <1>1
<1> HIDE DEF c
<1>9. QED
  BY <1>2, <1>3, <1>4, <1>5, <1>6, <1>7, <1>8, RequestStep DEF HandlerPC

\* The copy is stored over what other requests have stored meanwhile.
LEMMA SaveStep ==
  ASSUME SessionsIInv, NEW h \in Handler, Save(h)
  PROVE  SessionsIInv'
<1> DEFINE c == session[h]
<1>1. c \in Copy /\ Fits(c.id, c.data) /\ c.id \in Sid \cup {None} /\ c.data \in Session
  BY DEF Save, SessionsIInv, SessionShapes, SessionsFit, Copy
<1>2. Ends(h) /\ UNCHANGED <<issued, answer, passkeys, signed>>
  BY DEF Save, ceremonies
<1>3. CASE c.id # None
  <2>1. /\ store' = [store EXCEPT ![c.id] = IF c.data = Empty THEN None ELSE c.data]
        /\ UNCHANGED born
    BY <1>3 DEF Save
  <2>2. Grows
    BY <1>2, <2>1 DEF Grows, SessionsIInv, SessionShapes
  <2>3. FitsThen(c.id, c.data)
    BY <1>1, <2>2, FitsStays DEF SessionsIInv
  <2> HIDE DEF c
  <2>4. /\ store' \in [Sid -> Session \cup {None}]
        /\ \A s \in Sid : store'[s] # None => store'[s] = store[s] \/ FitsThen(s, store'[s])
    BY <1>1, <1>3, <2>1, <2>3 DEF SessionsIInv, SessionShapes
  <2>5. QED BY <1>2, <2>2, <2>4, EndsStep
<1>4. CASE c.id = None /\ c.data # Empty
  <2>1. PICK new \in Sid :
          /\ born[new] = None
          /\ store' = [store EXCEPT ![new] = c.data]
          /\ born' = [born EXCEPT ![new] = [user |-> c.data.user]]
    BY <1>4 DEF Save
  <2>2. c.data.user \in Person \cup {None}
    BY <1>1 DEF Session
  <2>3. Grows
    BY <1>2, <2>1, <2>2 DEF Grows, SessionsIInv, SessionShapes
  <2>4. born'[new] # None /\ born'[new].user = c.data.user
    BY <2>1, <2>2, SessionsNoneAssumption DEF SessionsIInv, SessionShapes
  <2>5. FitsThen(new, c.data)
    BY <1>1, <1>2, <2>4 DEF Fits, FitsThen
  <2> HIDE DEF c
  <2>6. /\ store' \in [Sid -> Session \cup {None}]
        /\ \A s \in Sid : store'[s] # None => store'[s] = store[s] \/ FitsThen(s, store'[s])
    BY <1>1, <2>1, <2>5 DEF SessionsIInv, SessionShapes
  <2>7. QED BY <1>2, <2>3, <2>6, EndsStep
<1>5. CASE c.id = None /\ c.data = Empty
  <2>1. UNCHANGED <<store, born>>
    BY <1>5 DEF Save
  <2>2. Grows /\ store' \in [Sid -> Session \cup {None}]
    BY <1>2, <2>1 DEF Grows, SessionsIInv, SessionShapes
  <2>3. QED BY <1>2, <2>1, <2>2, EndsStep
<1>6. QED BY <1>3, <1>4, <1>5

\* A challenge is issued and goes to the copy of the user who asked.
LEMMA RegistrationStartStep ==
  ASSUME SessionsIInv, NEW h \in Handler, RegistrationStart(h)
  PROVE  SessionsIInv'
<1>1. PICK q \in Fresh :
        /\ issued' = [issued EXCEPT ![q] = [for |-> "key", user |-> User(h)]]
        /\ Keeps(h, [Data(h) EXCEPT !.registration = [chal |-> q, user |-> User(h)]])
  BY DEF RegistrationStart
<1>2. /\ hpc[h] # "idle" /\ Data(h) \in Session /\ User(h) \in Person
      /\ q \in Challenge /\ issued[q] = None
  BY <1>1 DEF RegistrationStart, SessionsIInv, SessionShapes, Copy, Data, User, Session, Fresh
<1>3. UNCHANGED <<store, born, answer, passkeys, signed>>
  BY DEF RegistrationStart
<1> DEFINE i == [for |-> "key", user |-> User(h)]
           r == [chal |-> q, user |-> User(h)]
           d == [Data(h) EXCEPT !.registration = r]
<1>4. i \in Issue /\ i # None /\ i.for = "key" /\ i.user = User(h)
  BY <1>2, SessionsNoneAssumption DEF Issue
<1>5. /\ d \in Session /\ d.user = Data(h).user /\ d.registration = r
      /\ r.chal = q /\ r.user = User(h)
  BY <1>2 DEF Session, Ceremony
<1>6. issued' = [issued EXCEPT ![q] = i] /\ Keeps(h, d)
  BY <1>1
<1> HIDE DEF i, r, d
<1>7. Grows /\ issued'[q] = i
  BY <1>2, <1>3, <1>4, <1>6 DEF Grows, SessionsIInv, SessionShapes
<1>8. FitsThen(None, d)
  BY <1>4, <1>5, <1>7 DEF FitsThen
<1>9. QED
  BY <1>2, <1>3, <1>5, <1>6, <1>7, <1>8, KeepsStep

\* A challenge is issued for whoever was named, signed in or not.
LEMMA AuthenticationStartStep ==
  ASSUME SessionsIInv, NEW h \in Handler, AuthenticationStart(h)
  PROVE  SessionsIInv'
<1>1. PICK p \in Person, q \in Fresh :
        /\ issued' = [issued EXCEPT ![q] = [for |-> "login", user |-> p]]
        /\ Keeps(h, [Data(h) EXCEPT !.authentication = [chal |-> q, user |-> p]])
  BY DEF AuthenticationStart
<1>2. hpc[h] # "idle" /\ Data(h) \in Session /\ q \in Challenge /\ issued[q] = None
  BY <1>1 DEF AuthenticationStart, SessionsIInv, SessionShapes, Copy, Data, Fresh
<1>3. UNCHANGED <<store, born, answer, passkeys, signed>>
  BY DEF AuthenticationStart
<1> DEFINE d == [Data(h) EXCEPT !.authentication = [chal |-> q, user |-> p]]
<1>4. d \in Session /\ d.user = Data(h).user /\ d.registration = Data(h).registration
  BY <1>2 DEF Session, Ceremony
<1>5. Keeps(h, d)
  BY <1>1
<1> HIDE DEF d
<1>6. Grows
  BY <1>1, <1>2, <1>3 DEF Grows, SessionsIInv, SessionShapes, Issue
<1>7. QED BY <1>2, <1>3, <1>4, <1>5, <1>6, KeepsStep

\* A login that starts or ends with a password or at the provider.
LEMMA LoginStep ==
  ASSUME SessionsIInv, NEW h \in Handler, StartLogin(h) \/ LoginPost(h) \/ CallbackFinish(h)
  PROVE  SessionsIInv'
<1>1. /\ hpc[h] # "idle" /\ Data(h) \in Session /\ Grows
      /\ Data(h).user \in Person \cup {None} /\ Data(h).link \in Person \cup {None}
      /\ UNCHANGED <<born, issued, answer, passkeys, signed>>
  BY DEF StartLogin, LoginPost, CallbackFinish, ceremonies, SessionsIInv, SessionShapes, Copy,
         Data, Session, Grows
<1>2. CASE StartLogin(h)
  <2>1. PICK p \in Person \cup {None} : Keeps(h, [Data(h) EXCEPT !.link = p, !.flow = TRUE])
    BY <1>1, <1>2 DEF StartLogin, User, Data
  <2> DEFINE d == [Data(h) EXCEPT !.link = p, !.flow = TRUE]
  <2>2. d \in Session /\ d.user = Data(h).user /\ d.registration = Data(h).registration
    BY <1>1 DEF Session
  <2>3. QED BY <1>1, <1>2, <2>1, <2>2, KeepsStep DEF StartLogin
<1>3. CASE LoginPost(h)
  <2>1. PICK p \in Person : SignsIn(h, [Data(h) EXCEPT !.user = p])
    BY <1>3 DEF LoginPost
  <2>2. /\ [Data(h) EXCEPT !.user = p] \in Session
        /\ [Data(h) EXCEPT !.user = p].registration = Data(h).registration
    BY <1>1 DEF Session
  <2>3. QED BY <1>1, <2>1, <2>2, SignsInStep
<1>4. CASE CallbackFinish(h)
  <2>1. PICK p \in Person : SignsIn(h, [Data(h) EXCEPT !.user = p, !.link = None])
    BY <1>1, <1>4 DEF CallbackFinish
  <2>2. /\ [Data(h) EXCEPT !.user = p, !.link = None] \in Session
        /\ [Data(h) EXCEPT !.user = p, !.link = None].registration = Data(h).registration
    BY <1>1 DEF Session
  <2>3. QED BY <1>1, <2>1, <2>2, SignsInStep
<1>5. QED BY <1>2, <1>3, <1>4

\* An assertion is made once for a challenge, by a passkey of its user.
LEMMA SignStep ==
  ASSUME SessionsIInv, NEW c \in Challenge, SignChallenge(c)
  PROVE  SessionsIInv'
<1>1. PICK key \in Challenge, n \in Count : answer' = [answer EXCEPT ![c] = [key |-> key, count |-> n]]
  BY DEF SignChallenge, KeysOf
<1>2. answer[c] = None /\ UNCHANGED <<store, born, issued, passkeys, signed, hpc, session, tx>>
  BY DEF SignChallenge, handling
<1>3. answer' \in [Challenge -> Assertion \cup {None}]
  BY <1>1 DEF Assertion, SessionsIInv, KeyShapes
<1>4. \A q \in Challenge : answer[q] # None => answer'[q] = answer[q]
  BY <1>1, <1>2 DEF SessionsIInv, KeyShapes
<1>5. SessionShapes' /\ KeyShapes' /\ SessionsFit' /\ KeysFit'
  BY <1>2, <1>3 DEF SessionsIInv, SessionShapes, KeyShapes, SessionsFit, KeysFit, Fits
<1>6. \A h \in Handler : hpc[h] \in {"lock", "advance"} =>
        tx[h].chal \in Challenge /\ answer[tx[h].chal] # None
  BY DEF SessionsIInv, KeyShapes, LocksHold, Started
<1>7. LocksHold'
  BY <1>2, <1>4, <1>6 DEF SessionsIInv, LocksHold, KeyOf
<1>8. SpentOnce'
  BY <1>2, <1>4 DEF SessionsIInv, SpentOnce
<1>9. QED BY <1>5, <1>7, <1>8 DEF SessionsIInv

\* authentication_finish takes the ceremony out of the copy it works on.
LEMMA AuthenticationFinishStep ==
  ASSUME SessionsIInv, NEW h \in Handler, AuthenticationFinish(h)
  PROVE  SessionsIInv'
<1> DEFINE started == Data(h).authentication
           d == [Data(h) EXCEPT !.authentication = None]
           c == [id |-> session[h].id, data |-> d]
<1>1. /\ hpc[h] # "idle" /\ session[h] \in Copy /\ Data(h) \in Session /\ started \in Started
      /\ UNCHANGED <<store, born, issued, answer, passkeys, signed>> /\ Grows
  BY DEF AuthenticationFinish, ceremonies, SessionsIInv, SessionShapes, Copy, Data, Session,
         Ceremony, Started, Grows
<1>2. d \in Session /\ d.user = Data(h).user /\ d.registration = Data(h).registration
  BY <1>1 DEF Session, Ceremony
<1>3. CASE answer[started.chal] = None
  <2>1. Keeps(h, d)
    BY <1>3 DEF AuthenticationFinish
  <2> HIDE DEF d
  <2>2. QED BY <1>1, <1>2, <2>1, KeepsStep
<1>4. CASE answer[started.chal] # None
  <2>1. /\ session' = [session EXCEPT ![h].data = d]
        /\ tx' = [tx EXCEPT ![h] = [chal |-> started.chal, user |-> started.user]]
        /\ hpc' = [hpc EXCEPT ![h] = "lock"]
    BY <1>4 DEF AuthenticationFinish
  <2>2. [session[h] EXCEPT !.data = d] = c
    BY <1>1 DEF Copy
  <2>3. session' = [session EXCEPT ![h] = c]
    BY <2>1, <2>2
  <2>4. [chal |-> started.chal, user |-> started.user] = started
    BY <1>1 DEF Started
  <2>5. c \in Copy /\ c.id = session[h].id /\ c.data = d
    BY <1>1, <1>2 DEF Copy
  <2>6. Fits(session[h].id, Data(h))
    BY <1>1 DEF SessionsIInv, SessionsFit, Data
  <2>7. FitsThen(c.id, c.data)
    BY <1>1, <1>2, <2>5, <2>6 DEF Fits, FitsThen
  <2>8. store' \in [Sid -> Session \cup {None}]
    BY <1>1 DEF SessionsIInv, SessionShapes
  <2> HIDE DEF c, d, started
  <2>9. QED
    BY <1>1, <1>4, <2>1, <2>3, <2>4, <2>5, <2>7, <2>8, RequestStep DEF HandlerPC
<1>5. QED BY <1>3, <1>4

\* SELECT ... FOR UPDATE, and the comparison under it.
LEMMA LockStep ==
  ASSUME SessionsIInv, NEW h \in Handler, LockPasskey(h)
  PROVE  SessionsIInv'
<1>1. /\ hpc[h] = "lock" /\ ~KeyLocked(KeyOf(h)) /\ Grows /\ Data(h) \in Session
      /\ UNCHANGED <<store, born, issued, answer, passkeys, signed>>
  BY DEF LockPasskey, KeyOf, ceremonies, Grows, SessionsIInv, SessionShapes, Copy, Data
<1>2. CASE Keeps(h, Data(h))
  BY <1>1, <1>2, KeepsStep
<1>3. CASE ~Keeps(h, Data(h))
  <2>1. /\ hpc' = [hpc EXCEPT ![h] = "advance"] /\ UNCHANGED <<session, tx>>
        /\ passkeys[KeyOf(h)] # None
        /\ passkeys[KeyOf(h)].counter > 0 =>
             answer[tx[h].chal].count > passkeys[KeyOf(h)].counter
    BY <1>3 DEF LockPasskey, KeyOf
  <2>2. SessionShapes' /\ SessionsFit'
    BY <1>1, <2>1 DEF SessionsIInv, SessionShapes, SessionsFit, Fits, HandlerPC
  <2>3. KeyShapes' /\ KeysFit' /\ SpentOnce'
    BY <1>1, <2>1 DEF SessionsIInv, SessionShapes, KeyShapes, KeysFit, SpentOnce
  <2>4. \A k \in Handler : hpc[k] = "advance" => KeyOf(k) # KeyOf(h)
    BY <1>1 DEF KeyLocked, KeyOf
  <2>5. \A k \in Handler : KeyOf(k)' = KeyOf(k)
    BY <1>1, <2>1 DEF KeyOf
  <2>6. LocksHold'
    BY <1>1, <2>1, <2>4, <2>5 DEF SessionsIInv, SessionShapes, LocksHold
  <2>7. QED BY <2>2, <2>3, <2>6 DEF SessionsIInv
<1>4. QED BY <1>2, <1>3

\* The credential goes to the user its challenge was issued to, who is also the
\* one the session speaks for.
LEMMA RegistrationFinishStep ==
  ASSUME SessionsIInv, NEW h \in Handler, RegistrationFinish(h)
  PROVE  SessionsIInv'
<1> DEFINE started == Data(h).registration
           d == [Data(h) EXCEPT !.registration = None]
<1>1. /\ hpc[h] # "idle" /\ hpc[h] # "advance" /\ Data(h) \in Session
      /\ started \in Started /\ started # None /\ Fits(session[h].id, Data(h))
  BY DEF RegistrationFinish, SessionsIInv, SessionShapes, SessionsFit, Copy, Data, Session,
         Ceremony, Started
<1>2. Keeps(h, d) /\ Grows /\ UNCHANGED <<store, born, issued, answer, signed>>
  BY DEF RegistrationFinish, Grows, SessionsIInv, SessionShapes
<1>3. d \in Session /\ d.user = Data(h).user /\ d.registration = None
  BY <1>1 DEF Session, Ceremony
<1> HIDE DEF d
<1>4. CASE UNCHANGED passkeys
  BY <1>1, <1>2, <1>3, <1>4, KeepsStep
<1>5. CASE /\ started.user = User(h) /\ passkeys[started.chal] = None
           /\ \E n \in Count \cup {0} :
                passkeys' = [passkeys EXCEPT ![started.chal] = [user |-> User(h), counter |-> n]]
  <2> DEFINE q == started.chal
  <2>1. /\ q \in Challenge /\ User(h) \in Person
        /\ issued[q] # None /\ issued[q].for = "key" /\ issued[q].user = User(h)
    BY <1>1, <1>5 DEF Started, Fits
  <2>2. SessionShapes' /\ SessionsFit'
    BY <1>1, <1>2, <1>3, KeepsCopy
  <2>3. hpc' = [hpc EXCEPT ![h] = "save"] /\ tx' = [tx EXCEPT ![h] = None]
    BY <1>2 DEF Keeps
  <2>4. KeyShapes'
    BY <1>2, <1>5, <2>1, <2>3 DEF SessionsIInv, SessionShapes, KeyShapes, Passkey
  <2>5. passkeys'[q].user = User(h) /\ \A c \in Challenge : c # q => passkeys'[c] = passkeys[c]
    BY <1>5, <2>1 DEF SessionsIInv, KeyShapes
  <2>6. KeysFit'
    BY <1>2, <2>1, <2>5 DEF SessionsIInv, KeysFit
  <2>7. \A k \in Handler : hpc'[k] \in {"lock", "advance"} =>
          /\ hpc'[k] = hpc[k] /\ tx'[k] = tx[k] /\ tx[k] \in Started
          /\ answer[tx[k].chal] # None /\ KeyOf(k)' = KeyOf(k)
          /\ hpc[k] = "advance" => KeyOf(k) # q /\ KeyOf(k) \in Challenge
    <3> SUFFICES ASSUME NEW k \in Handler, hpc'[k] \in {"lock", "advance"}
                 PROVE  /\ hpc'[k] = hpc[k] /\ tx'[k] = tx[k] /\ tx[k] \in Started
                        /\ answer[tx[k].chal] # None /\ KeyOf(k)' = KeyOf(k)
                        /\ hpc[k] = "advance" => KeyOf(k) # q /\ KeyOf(k) \in Challenge
      OBVIOUS
    <3>1. hpc'[k] = hpc[k] /\ tx'[k] = tx[k] /\ tx[k] \in Started
      BY <2>3 DEF SessionsIInv, SessionShapes, KeyShapes
    <3>2. answer[tx[k].chal] \in Assertion
      BY <3>1 DEF SessionsIInv, KeyShapes, LocksHold, Started
    <3>3. answer[tx[k].chal] # None
      BY <3>1 DEF SessionsIInv, LocksHold
    <3>4. KeyOf(k)' = KeyOf(k) /\ KeyOf(k) \in Challenge
      BY <1>2, <3>1, <3>2 DEF KeyOf, Assertion
    <3>5. hpc[k] = "advance" => KeyOf(k) # q
      BY <1>5 DEF SessionsIInv, LocksHold
    <3>6. QED BY <3>1, <3>3, <3>4, <3>5
  <2>8. LocksHold'
    BY <1>2, <2>5, <2>7 DEF SessionsIInv, LocksHold
  <2>9. SpentOnce'
    <3>1. \A c \in Challenge : signed[c] > 0 =>
            answer[c].key # q /\ answer[c].key \in Challenge
      BY <1>5 DEF SessionsIInv, KeyShapes, Assertion, SpentOnce
    <3>2. QED
      BY <1>2, <2>5, <3>1 DEF SessionsIInv, SpentOnce
  <2>10. QED BY <2>2, <2>4, <2>6, <2>8, <2>9 DEF SessionsIInv
<1>6. QED BY <1>4, <1>5 DEF RegistrationFinish

\* The counter never falls, and passes that of the assertion.
LEMMA AdvanceStep ==
  ASSUME SessionsIInv, NEW h \in Handler, AdvanceCounter(h)
  PROVE  SessionsIInv'
<1> DEFINE c == tx[h].chal
           key == answer[c].key
           n == answer[c].count
<1>1. /\ hpc[h] = "advance" /\ c \in Challenge /\ tx[h].user \in Person
      /\ answer[c] # None /\ answer[c] \in Assertion /\ key \in Challenge /\ n \in Nat
      /\ n \in Count
  BY SessionsAssumption DEF AdvanceCounter, SessionsIInv, KeyShapes, LocksHold, Started, Assertion
<1>2. /\ passkeys[key] # None /\ passkeys[key] \in Passkey
      /\ passkeys[key].counter > 0 => n > passkeys[key].counter
  BY <1>1 DEF SessionsIInv, LocksHold, KeyShapes, KeyOf
<1>3. /\ passkeys' = [passkeys EXCEPT ![key].counter = n]
      /\ signed' = [signed EXCEPT ![c] = IF @ < Often THEN @ + 1 ELSE @]
      /\ SignsIn(h, [Data(h) EXCEPT !.user = tx[h].user])
      /\ UNCHANGED <<born, issued, answer>>
  BY DEF AdvanceCounter
<1> DEFINE d == [Data(h) EXCEPT !.user = tx[h].user]
<1>4. d \in Session /\ d.registration = Data(h).registration
  <2>1. Data(h) \in Session
    BY <1>1 DEF SessionsIInv, SessionShapes, Copy, Data
  <2>2. QED BY <1>1, <2>1 DEF Session
<1>5. SessionShapes' /\ SessionsFit'
  <2> HIDE DEF d
  <2>1. SignsIn(h, d)
    BY <1>3 DEF d
  <2>2. QED BY <1>1, <1>3, <1>4, <2>1, SignsInCopy
<1>6. hpc' = [hpc EXCEPT ![h] = "save"] /\ tx' = [tx EXCEPT ![h] = None]
  BY <1>3 DEF SignsIn
<1> HIDE DEF d
<1>7. /\ passkeys'[key].counter = n /\ passkeys'[key].user = passkeys[key].user
      /\ passkeys'[key] \in Passkey /\ passkeys'[key] # None
      /\ \A q \in Challenge : q # key => passkeys'[q] = passkeys[q]
  <2>1. passkeys'[key] = [passkeys[key] EXCEPT !.counter = n]
        /\ \A q \in Challenge : q # key => passkeys'[q] = passkeys[q]
    BY <1>1, <1>3 DEF SessionsIInv, KeyShapes
  <2>2. [passkeys[key] EXCEPT !.counter = n] \in Passkey
    BY <1>1, <1>2 DEF Passkey
  <2>3. QED BY <1>2, <2>1, <2>2, SessionsNoneAssumption DEF Passkey
<1>8. /\ signed'[c] = IF signed[c] < 2 THEN signed[c] + 1 ELSE signed[c]
      /\ signed[c] \in 0 .. 2 /\ signed' \in [Challenge -> 0 .. Often]
      /\ \A q \in Challenge : q # c => signed'[q] = signed[q]
  BY <1>1, <1>3 DEF SessionsIInv, KeyShapes, Often
<1> HIDE DEF c, key, n
<1>9. KeyShapes'
  BY <1>1, <1>3, <1>6, <1>7, <1>8 DEF SessionsIInv, SessionShapes, KeyShapes
<1>10. KeysFit'
  BY <1>2, <1>3, <1>7 DEF SessionsIInv, KeysFit
<1>11. LocksHold'
  <2>1. \A k \in Handler : hpc'[k] \in {"lock", "advance"} =>
          hpc'[k] = hpc[k] /\ tx'[k] = tx[k] /\ k # h /\ KeyOf(k)' = KeyOf(k)
    BY <1>3, <1>6 DEF SessionsIInv, SessionShapes, KeyShapes, KeyOf
  <2>2. \A k \in Handler : hpc[k] = "advance" => KeyOf(k) \in Challenge
    BY DEF SessionsIInv, KeyShapes, LocksHold, Started, Assertion, KeyOf
  <2>3. KeyOf(h) = key
    BY DEF KeyOf, key, c
  <2>4. \A k \in Handler : hpc[k] = "advance" /\ k # h => KeyOf(k) # key
    BY <1>1, <2>3 DEF SessionsIInv, LocksHold
  <2>5. QED
    BY <1>3, <1>7, <2>1, <2>2, <2>4 DEF SessionsIInv, LocksHold
<1>12. SpentOnce'
  <2> SUFFICES ASSUME NEW q \in Challenge, signed'[q] > 0
               PROVE  /\ answer[q] # None
                      /\ passkeys'[answer[q].key] # None
                      /\ passkeys'[answer[q].key].counter >= answer[q].count
                      /\ answer[q].count > 0 => signed'[q] = 1
    BY <1>3 DEF SpentOnce
  <2>1. CASE q = c
    <3>1. n > 0 => signed[c] = 0
      <4>1. passkeys[key].counter \in Nat
        <5>1. passkeys[key].counter \in Count \cup {0}
          BY <1>2 DEF Passkey
        <5>2. Count \cup {0} \subseteq Nat
          BY SessionsAssumption
        <5>3. QED BY <5>1, <5>2
      <4>2. signed[c] > 0 => passkeys[key].counter >= n
        BY <1>1 DEF SessionsIInv, SpentOnce, key, n
      <4>3. QED BY <1>1, <1>2, <1>8, <4>1, <4>2
    <3>2. answer[q].key = key /\ answer[q].count = n
      BY <2>1 DEF key, n
    <3>3. QED BY <1>1, <1>7, <1>8, <2>1, <3>1, <3>2
  <2>2. CASE q # c
    <3>1. /\ answer[q] # None /\ passkeys[answer[q].key] # None
          /\ passkeys[answer[q].key].counter >= answer[q].count
          /\ answer[q].count > 0 => signed'[q] = 1
          /\ answer[q].key \in Challenge /\ answer[q].count \in Nat
      BY <1>8, <2>2, SessionsAssumption DEF SessionsIInv, SpentOnce, KeyShapes, Assertion
    <3>2. CASE answer[q].key = key
      <4>1. passkeys[key].counter \in Nat
        <5>1. passkeys[key].counter \in Count \cup {0}
          BY <1>2 DEF Passkey
        <5>2. Count \cup {0} \subseteq Nat
          BY SessionsAssumption
        <5>3. QED BY <5>1, <5>2
      <4>2. n >= answer[q].count
        BY <1>1, <1>2, <3>1, <3>2, <4>1
      <4>3. QED BY <1>7, <3>1, <3>2, <4>2
    <3>3. CASE answer[q].key # key
      BY <1>7, <3>1, <3>3
    <3>4. QED BY <3>2, <3>3
  <2>3. QED BY <2>1, <2>2
<1>13. QED BY <1>5, <1>9, <1>10, <1>11, <1>12 DEF SessionsIInv

\* A passkey that no sign-in holds goes, and what it has signed with it.
LEMMA DeleteStep ==
  ASSUME SessionsIInv, NEW h \in Handler, DeletePasskey(h)
  PROVE  SessionsIInv'
<1>1. PICK key \in Challenge :
        /\ ~KeyLocked(key)
        /\ passkeys' = [passkeys EXCEPT ![key] = None]
        /\ signed' = [c \in Challenge |->
             IF answer[c] # None /\ answer[c].key = key THEN 0 ELSE signed[c]]
  BY DEF DeletePasskey, KeysOf
<1>2. /\ hpc' = [hpc EXCEPT ![h] = "idle"] /\ session' = [session EXCEPT ![h] = None]
      /\ tx' = [tx EXCEPT ![h] = None] /\ UNCHANGED <<store, born, issued, answer>>
  BY DEF DeletePasskey, Ends
<1>3. Grows /\ store' \in [Sid -> Session \cup {None}]
  BY <1>2 DEF Grows, SessionsIInv, SessionShapes
<1>4. SessionShapes' /\ SessionsFit'
  BY <1>2, <1>3, CopyStep DEF HandlerPC
<1>5. KeyShapes' /\ KeysFit'
  BY <1>1, <1>2 DEF SessionsIInv, SessionShapes, KeyShapes, KeysFit, Often
<1>6. LocksHold'
  <2>1. \A k \in Handler : hpc'[k] \in {"lock", "advance"} =>
          hpc'[k] = hpc[k] /\ tx'[k] = tx[k] /\ KeyOf(k)' = KeyOf(k)
    BY <1>2 DEF SessionsIInv, SessionShapes, KeyShapes, KeyOf
  <2>2. \A k \in Handler : hpc[k] = "advance" => KeyOf(k) # key
    BY <1>1 DEF KeyLocked, KeyOf
  <2>3. \A q : q # key => passkeys'[q] = passkeys[q]
    BY <1>1 DEF SessionsIInv, KeyShapes
  <2>4. QED
    BY <1>2, <2>1, <2>2, <2>3 DEF SessionsIInv, LocksHold
<1>7. SpentOnce'
  BY <1>1, <1>2 DEF SessionsIInv, KeyShapes, SpentOnce, Assertion
<1>8. QED BY <1>4, <1>5, <1>6, <1>7 DEF SessionsIInv

\* Every step of every request keeps the invariant.
LEMMA SessionsStep == SessionsIInv /\ [SessionsNext]_sessionvars => SessionsIInv'
<1> SUFFICES ASSUME SessionsIInv, [SessionsNext]_sessionvars PROVE SessionsIInv'
  OBVIOUS
<1>1. CASE UNCHANGED sessionvars
  <2>1. UNCHANGED <<store, born, issued, answer, passkeys, signed, hpc, session, tx>>
    BY <1>1 DEF sessionvars, ceremonies, handling
  <2>2. SessionShapes' /\ SessionsFit' /\ KeysFit'
    BY <2>1 DEF SessionsIInv, SessionShapes, SessionsFit, Fits, KeysFit
  <2>3. KeyShapes' /\ LocksHold' /\ SpentOnce'
    BY <2>1 DEF SessionsIInv, KeyShapes, LocksHold, KeyOf, SpentOnce
  <2>4. QED BY <2>2, <2>3 DEF SessionsIInv
<1>2. ASSUME NEW h \in Handler, HandlerFails(h) \/ Logout(h) PROVE SessionsIInv'
  <2>1. /\ Grows /\ Ends(h) /\ UNCHANGED <<answer, passkeys, signed>>
        /\ store' \in [Sid -> Session \cup {None}]
        /\ \A s \in Sid : store'[s] # None => store'[s] = store[s]
    BY <1>2 DEF HandlerFails, Logout, ceremonies, Grows, SessionsIInv, SessionShapes
  <2>2. QED BY <2>1, EndsStep
<1>3. ASSUME NEW h \in Handler,
             \/ Load(h) \/ Save(h) \/ LoginPost(h) \/ StartLogin(h) \/ CallbackFinish(h)
             \/ RegistrationStart(h) \/ RegistrationFinish(h)
             \/ AuthenticationStart(h) \/ AuthenticationFinish(h)
             \/ LockPasskey(h) \/ AdvanceCounter(h) \/ DeletePasskey(h)
      PROVE  SessionsIInv'
  BY <1>3, LoadStep, SaveStep, LoginStep, RegistrationStartStep, RegistrationFinishStep,
     AuthenticationStartStep, AuthenticationFinishStep, LockStep, AdvanceStep, DeleteStep
<1>4. ASSUME NEW c \in Challenge, SignChallenge(c) PROVE SessionsIInv'
  BY <1>4, SignStep
<1>5. QED
  BY <1>1, <1>2, <1>3, <1>4 DEF SessionsNext

-----------------------------------------------------------------------------
\* The copies of the requests under way agree with the tables, whatever they overwrite.
THEOREM SessionsInductive == SessionsSpec => []SessionsIInv
BY SessionsInitial, SessionsStep, PTL DEF SessionsSpec

\* A session speaks for a user only under an id minted at that user's sign-in.
THEOREM SignInMints == SessionsSpec => []SignInMintsId
<1>1. SessionsIInv => SignInMintsId
  BY SessionsNoneAssumption DEF SessionsIInv, SignInMintsId, SessionsFit, Fits
<1>2. QED BY <1>1, SessionsInductive, PTL

\* A credential belongs to the user its challenge was issued to.
THEOREM PasskeysOwned == SessionsSpec => []PasskeyOwner
<1>1. SessionsIInv => PasskeyOwner
  BY DEF SessionsIInv, PasskeyOwner, KeysFit
<1>2. QED BY <1>1, SessionsInductive, PTL

\* An assertion with a counter signs in once, as the row is locked over check and write.
THEOREM AssertionsSpentOnce == SessionsSpec => []OneSignInPerAssertion
<1>1. SessionsIInv => OneSignInPerAssertion
  BY DEF SessionsIInv, OneSignInPerAssertion, SpentOnce, KeyShapes, Often
<1>2. QED BY <1>1, SessionsInductive, PTL

\* The tables and the locals have the values of their types: a session is under an id
\* that was minted, and a passkey has a challenge of a registration.
THEOREM SessionsTyped == SessionsSpec => []SessionsTypeOK
<1>1. SessionsIInv => SessionsTypeOK
  <2> SUFFICES ASSUME SessionsIInv PROVE SessionsTypeOK
    OBVIOUS
  <2>1. ASSUME NEW s \in Sid
        PROVE  /\ store[s] \in Session \cup {None}
               /\ born[s] = None => store[s] = None
    BY <2>1, SessionsNoneAssumption DEF SessionsIInv, SessionShapes, SessionsFit, Fits
  <2>2. ASSUME NEW c \in Challenge
        PROVE  /\ passkeys[c] \in [user : Person, counter : Count \cup {0}] \cup {None}
               /\ answer[c] \in [key : Challenge, count : Count] \cup {None}
               /\ passkeys[c] # None => issued[c].for = "key"
    BY <2>2 DEF SessionsIInv, KeyShapes, KeysFit, Passkey, Assertion
  <2>3. ASSUME NEW h \in Handler
        PROVE  /\ hpc[h] \in {"idle", "run", "save", "lock", "advance"}
               /\ session[h] \in [id : Sid \cup {None}, data : Session] \cup {None}
               /\ hpc[h] \in {"lock", "advance"} => tx[h] \in Ceremony \ {None}
    BY <2>3, SessionsNoneAssumption
       DEF SessionsIInv, SessionShapes, KeyShapes, HandlerPC, Copy, Started, Ceremony
  <2>4. QED BY <2>1, <2>2, <2>3 DEF SessionsTypeOK
<1>2. QED BY <1>1, SessionsInductive, PTL
=============================================================================
