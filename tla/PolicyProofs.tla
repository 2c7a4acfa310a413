---------------------------- MODULE PolicyProofs ----------------------------
(***************************************************************************)
(* Proofs about what the administrators set and about the reset of         *)
(* passwords, for any number of users, forms, logins, editors and links:   *)
(* Roles, whose foreign keys hold although every form acts on what it read *)
(* before, and where a login never takes a role away; Configuration, which *)
(* stays valid as every edit writes all of the one that it has validated;  *)
(* Lifetimes, of which each is within its limits; Quotas, where the sizes  *)
(* of the files are added up, and an upload that is alone keeps what it    *)
(* has found room for; and PasswordReset, where a change of a password     *)
(* spends the links there were by the locks of its transaction.            *)
(***************************************************************************)
EXTENDS Roles, Configuration, Lifetimes, Quotas, PasswordReset, FiniteSetTheorems,
        WellFoundedInduction, TLAPS

-----------------------------------------------------------------------------
(***************************************************************************)
(* Roles: the inductive invariant.                                         *)
(***************************************************************************)
LoginLocal == [user : Member, groups : SUBSET Group, pick : Role \cup {None}]

\* The rows, and what they refer to.
RowsFit ==
  /\ roles \subseteq Role /\ past \subseteq Role
  /\ mapping \in [Role \X Group -> Priority \cup {None}]
  /\ \A x \in Role \X Group : mapping[x] # None => x[1] \in roles
  /\ role \in [Member -> roles \cup {None}]

LoginsFit ==
  /\ lpc \in [Login -> {"idle", "select", "assign"}]
  /\ login \in [Login -> LoginLocal \cup {None}]
  /\ \A l \in Login : lpc[l] # "idle" => login[l] \in LoginLocal

FormsFit ==
  /\ fpc \in [Post -> {"idle", "apply"}]
  /\ change \in [Post -> Change \cup {None}]
  /\ \A f \in Post : fpc[f] # "idle" => change[f] \in Change

RolesIInv == RowsFit /\ LoginsFit /\ FormsFit

-----------------------------------------------------------------------------
\* A set of natural numbers that is not empty has a least one.
LEMMA LeastOf ==
  ASSUME NEW T \in SUBSET Nat, T # {}
  PROVE  \E n \in T : \A m \in T : n <= m
<1>1. PICK n \in T : \A m \in T : ~(<<m, n>> \in OpToRel(<, Nat))
  BY NatLessThanWellFounded, WFMin
<1>2. \A m \in T : ~(m < n)
  BY <1>1, Zenon DEF OpToRel
<1>3. n \in T /\ \A m \in T : n <= m
  BY <1>2
<1>4. QED BY <1>3

\* It is what Min gives.
LEMMA MinIsLeast ==
  ASSUME NEW S \in SUBSET Nat, S # {}
  PROVE  Min(S) \in S /\ \A m \in S : Min(S) <= m
BY LeastOf DEF Min

\* ORDER BY priority, role_id LIMIT 1 yields a role, if any group is mapped.
LEMMA BestIsRole ==
  ASSUME RowsFit, NEW groups \in SUBSET Group
  PROVE  Best(groups) \in Role \cup {None}
<1> DEFINE hits == {x \in Role \X groups : mapping[x] # None}
           values == {mapping[x] : x \in hits}
           low == Min(values)
           first == {x[1] : x \in {y \in hits : mapping[y] = low}}
<1>1. CASE hits = {}
  BY <1>1 DEF Best
<1>2. CASE hits # {}
  <2>1. values \in SUBSET Nat /\ values # {}
    <3>1. \A x \in hits : x \in Role \X Group /\ mapping[x] # None
      OBVIOUS
    <3>2. \A x \in hits : mapping[x] \in Priority
      BY <3>1 DEF RowsFit
    <3>3. QED BY <1>2, <3>2, RolesAssumption
  <2>2. low \in values
    BY <2>1, MinIsLeast
  <2>3. first # {} /\ first \subseteq Role
    <3>1. PICK x \in hits : mapping[x] = low
      BY <2>2
    <3>2. x[1] \in first
      BY <3>1
    <3>3. ASSUME NEW y \in Role \X groups PROVE y[1] \in Role
      OBVIOUS
    <3>4. QED BY <3>2, <3>3
  <2>4. Min(first) \in Role
    BY <2>3, MinIsLeast, RolesAssumption
  <2>5. Best(groups) = Min(first)
    BY <1>2 DEF Best
  <2>6. QED BY <2>4, <2>5
<1>3. QED BY <1>1, <1>2

-----------------------------------------------------------------------------
(***************************************************************************)
(* The invariant holds at first, and every step keeps it.                  *)
(***************************************************************************)
LEMMA RolesInitial == RolesInit => RolesIInv
BY DEF RolesInit, RolesIInv, RowsFit, LoginsFit, FormsFit

\* A login that ends has nothing left to assign.
LEMMA LoginEndsFits ==
  ASSUME LoginsFit, NEW l \in Login, LoginEnds(l)
  PROVE  LoginsFit'
BY DEF LoginsFit, LoginEnds, LoginGoto

\* A form that ends has nothing left to apply.
LEMMA FormEndsFits ==
  ASSUME FormsFit, NEW f \in Post, FormEnds(f)
  PROVE  FormsFit'
BY DEF FormsFit, FormEnds, FormGoto

\* What a login has picked is there when it is assigned, or is not assigned.
LEMMA LoginStepFits ==
  ASSUME RolesIInv, NEW l \in Login, LoginStep(l)
  PROVE  RolesIInv'
<1>1. FormsFit'
  BY DEF LoginStep, posting, RolesIInv, FormsFit
<1>2. CASE ReadUser(l)
  <2>1. RowsFit'
    BY <1>2 DEF ReadUser, tables, RolesIInv, RowsFit
  <2>2. LoginsFit'
    BY <1>2 DEF ReadUser, LoginGoto, RolesIInv, LoginsFit, LoginLocal
  <2>3. QED BY <1>1, <2>1, <2>2 DEF RolesIInv
<1>3. CASE SelectMapping(l)
  <2>1. RowsFit'
    BY <1>3 DEF SelectMapping, tables, RolesIInv, RowsFit
  <2>2. CASE LoginEnds(l)
    BY <1>1, <2>1, <2>2, LoginEndsFits DEF RolesIInv
  <2>3. CASE /\ LoginGoto(l, "assign")
             /\ login' = [login EXCEPT ![l].pick = Best(login[l].groups)]
    <3> DEFINE best == Best(login[l].groups)
    <3>1. login[l] \in LoginLocal
      BY <1>3 DEF SelectMapping, RolesIInv, LoginsFit
    <3>2. best \in Role \cup {None}
      BY <3>1, BestIsRole DEF LoginLocal, RolesIInv
    <3>3. login' = [login EXCEPT ![l].pick = best]
      BY <2>3
    <3> HIDE DEF best
    <3>4. LoginsFit'
      BY <2>3, <3>1, <3>2, <3>3 DEF LoginGoto, LoginLocal, RolesIInv, LoginsFit
    <3>5. QED BY <1>1, <2>1, <3>4 DEF RolesIInv
  <2>4. QED BY <1>3, <2>2, <2>3 DEF SelectMapping
<1>4. CASE AssignRole(l)
  <2>1. login[l] \in LoginLocal
    BY <1>4 DEF AssignRole, RolesIInv, LoginsFit
  <2>2. RowsFit'
    BY <1>4, <2>1 DEF AssignRole, RolesIInv, RowsFit, LoginLocal
  <2>3. LoginsFit'
    BY <1>4, LoginEndsFits DEF AssignRole, RolesIInv
  <2>4. QED BY <1>1, <2>2, <2>3 DEF RolesIInv
<1>5. CASE LoginFails(l)
  BY <1>1, <1>5, LoginEndsFits DEF LoginFails, tables, RolesIInv, RowsFit
<1>6. QED BY <1>2, <1>3, <1>4, <1>5 DEF LoginStep

\* The foreign keys hold after every form, the deletion of a role included.
LEMMA FormStepFits ==
  ASSUME RolesIInv, NEW f \in Post, FormStep(f)
  PROVE  RolesIInv'
<1>1. LoginsFit'
  BY DEF FormStep, logging, RolesIInv, LoginsFit
<1>2. CASE ReadRole(f)
  <2>1. RowsFit'
    BY <1>2 DEF ReadRole, tables, RolesIInv, RowsFit
  <2>2. FormsFit'
    BY <1>2 DEF ReadRole, FormGoto, RolesIInv, FormsFit
  <2>3. QED BY <1>1, <2>1, <2>2 DEF RolesIInv
<1>3. ASSUME NEW c \in Change, c = change[f], FormEnds(f), RowsFit' PROVE RolesIInv'
  BY <1>1, <1>3, FormEndsFits DEF RolesIInv
<1>4. ASSUME fpc[f] = "apply" PROVE change[f] \in Change
  BY <1>4 DEF RolesIInv, FormsFit
<1>5. CASE CreateRole(f)
  <2>1. change[f].on \in Role
    BY <1>4, <1>5 DEF CreateRole, Change
  <2>2. RowsFit'
    BY <1>5, <2>1 DEF CreateRole, RolesIInv, RowsFit
  <2>3. QED BY <1>3, <1>4, <1>5, <2>2 DEF CreateRole
<1>6. CASE DeleteRole(f)
  <2>1. PICK gone \in Role : gone = change[f].on
    BY <1>4, <1>6 DEF DeleteRole, Change
  <2>2. /\ roles' = roles \ {gone} /\ past' = past \cup {gone}
        /\ mapping' = [x \in Role \X Group |-> IF x[1] = gone THEN None ELSE mapping[x]]
        /\ role' = [m \in Member |-> IF role[m] = gone THEN None ELSE role[m]]
    BY <1>6, <2>1 DEF DeleteRole
  <2>3. RowsFit'
    BY <2>2 DEF RolesIInv, RowsFit
  <2>4. QED BY <1>3, <1>4, <1>6, <2>3 DEF DeleteRole
<1>7. CASE SetUserRole(f)
  <2>1. change[f].on \in Member
    BY <1>4, <1>7 DEF SetUserRole, Change
  <2>2. RowsFit'
    BY <1>7, <2>1 DEF SetUserRole, RolesIInv, RowsFit
  <2>3. QED BY <1>3, <1>4, <1>7, <2>2 DEF SetUserRole
<1>8. CASE SetMapping(f)
  <2>1. change[f].on \in Role \X Group
    BY <1>4, <1>8 DEF SetMapping, Change
  <2>2. PICK to \in Priority \cup {None} :
          mapping' = IF change[f].on[1] \in roles
                     THEN [mapping EXCEPT ![change[f].on] = to] ELSE mapping
    BY <1>4, <1>8 DEF SetMapping, Change
  <2>3. RowsFit'
    BY <1>8, <2>1, <2>2 DEF SetMapping, RolesIInv, RowsFit
  <2>4. QED BY <1>3, <1>4, <1>8, <2>3 DEF SetMapping
<1>9. CASE FormFails(f)
  BY <1>1, <1>9, FormEndsFits DEF FormFails, tables, RolesIInv, RowsFit
<1>10. QED BY <1>2, <1>5, <1>6, <1>7, <1>8, <1>9 DEF FormStep

\* Every statement of logins and forms keeps the invariant.
LEMMA RolesStep == RolesIInv /\ [RolesNext]_rolevars => RolesIInv'
<1> SUFFICES ASSUME RolesIInv, [RolesNext]_rolevars PROVE RolesIInv'
  OBVIOUS
<1>1. CASE UNCHANGED rolevars
  BY <1>1 DEF rolevars, tables, logging, posting, RolesIInv, RowsFit, LoginsFit, FormsFit
<1>2. QED
  BY <1>1, LoginStepFits, FormStepFits DEF RolesNext

-----------------------------------------------------------------------------
\* Rows refer to roles that exist, whatever was deleted after a form looked.
THEOREM RolesInductive == RolesSpec => []RolesIInv
BY RolesInitial, RolesStep, PTL DEF RolesSpec

\* Tables and locals keep their types, and the logins their picks.
THEOREM RolesTypeCorrect == RolesSpec => []RolesTypeOK
<1>1. RolesIInv => RolesTypeOK
  BY DEF RolesIInv, RolesTypeOK, RowsFit, LoginsFit, FormsFit, LoginLocal
<1>2. QED BY <1>1, RolesInductive, PTL

\* A step that takes or replaces the role of a user is of a form and of no login.
LEMMA StickyStep == RolesIInv /\ [RolesNext]_rolevars => StickyRole
<1> SUFFICES ASSUME RolesIInv, [RolesNext]_rolevars,
                    NEW m \in Member, role[m] # None, role'[m] # role[m]
             PROVE  UNCHANGED logging
  BY DEF StickyRole
<1>1. ASSUME NEW l \in Login, LoginStep(l) PROVE FALSE
  <2>1. role' # role
    OBVIOUS
  <2>2. AssignRole(l)
    BY <1>1, <2>1 DEF LoginStep, ReadUser, SelectMapping, LoginFails, tables
  <2>3. role[login[l].user] = None /\ role' = [role EXCEPT ![login[l].user] = login[l].pick]
    BY <2>1, <2>2 DEF AssignRole
  <2>4. QED BY <2>3 DEF RolesIInv, RowsFit
<1>2. ASSUME NEW f \in Post, FormStep(f) PROVE UNCHANGED logging
  BY <1>2 DEF FormStep
<1>3. QED BY <1>1, <1>2 DEF RolesNext, rolevars, tables

\* A login never changes the role of a user who has one.
THEOREM AssignmentsStick == RolesSpec => RolesSticky
BY StickyStep, RolesInductive, PTL DEF RolesSpec, RolesSticky

-----------------------------------------------------------------------------
(***************************************************************************)
(* Configuration: the inductive invariant, of which what an edit carries   *)
(* from its read to its write is part.                                     *)
(***************************************************************************)
\* Configurations of the type of the rows.
Config == {c \in [Numbers \cup {Flag} -> Amount \cup BOOLEAN] : IsConfig(c)}

\* The rows, the cap, and what the refresher has read.
ConfigRowsFit ==
  /\ stored \in Config /\ validate(stored)
  /\ refresher \in Config \cup {None}
  /\ cap \in Amount

\* What an edit will write is valid.
EditsFit ==
  /\ edit \in [Editor -> {"new", "write", "store", "done", "failed"}]
  /\ before \in [Editor -> Config \cup {None}] /\ cfg \in [Editor -> Config \cup {None}]
  /\ \A e \in Editor : edit[e] \in {"write", "store"} =>
       before[e] \in Config /\ cfg[e] \in Config /\ validate(cfg[e])

ConfigIInv == ConfigRowsFit /\ EditsFit

-----------------------------------------------------------------------------
\* The defaults are valid.
LEMMA ConfigInitial == ConfigInit => ConfigIInv
<1> SUFFICES ASSUME ConfigInit PROVE ConfigIInv
  OBVIOUS
<1>1. Default \in Config
  BY ConfigurationAssumption DEF Default, Config, IsConfig, Numbers, Flag
<1>2. validate(Default)
  BY DEF Default, validate, Numbers, Flag
<1>3. body_limit(Default) \in Amount
  BY ConfigurationAssumption DEF body_limit, Default, Numbers, Flag
<1>4. QED
  BY <1>1, <1>2, <1>3 DEF ConfigInit, ConfigIInv, ConfigRowsFit, EditsFit

\* A form turns a configuration into one.
LEMMA EditedIsConfig ==
  ASSUME NEW c \in Config, NEW f \in Forms, NEW flag \in BOOLEAN
  PROVE  Edited(c, f, flag) \in Config
<1>1. \A k \in Numbers : k # Flag
  BY DEF Numbers, Flag
<1>2. \A k \in DOMAIN f : f[k] \in Amount
  <2>1. PICK p \in Numbers \X Numbers : f \in [{p[1], p[2]} -> Amount]
    BY DEF Forms
  <2>2. QED BY <2>1
<1>3. DOMAIN c = Numbers \cup {Flag} /\ \A k \in Numbers : c[k] \in Amount
  BY DEF Config, IsConfig
<1> DEFINE d == Edited(c, f, flag)
<1>4. d = [k \in Numbers \cup {Flag} |->
            IF k = Flag THEN flag ELSE IF k \in DOMAIN f THEN f[k] ELSE c[k]]
  BY <1>3 DEF Edited
<1> HIDE DEF d
<1>5. DOMAIN d = Numbers \cup {Flag} /\ d[Flag] = flag
  BY <1>4
<1>6. \A k \in Numbers : d[k] \in Amount
  BY <1>1, <1>2, <1>3, <1>4
<1>7. d \in [Numbers \cup {Flag} -> Amount \cup BOOLEAN]
  BY <1>1, <1>2, <1>3, <1>4
<1>8. d \in Config
  BY <1>5, <1>6, <1>7 DEF Config, IsConfig
<1>9. QED BY <1>8 DEF d

\* The cap on bodies is one of the numbers of the configuration.
LEMMA LimitIsAmount ==
  ASSUME NEW c \in Config
  PROVE  body_limit(c) \in Amount
BY DEF body_limit, Config, IsConfig, Numbers

\* An edit that ends carries nothing on.
LEMMA EditEndsFits ==
  ASSUME EditsFit, NEW e \in Editor, NEW how \in {"done", "failed"}, EditEnds(e, how)
  PROVE  EditsFit'
BY DEF EditsFit, EditEnds

\* Every step of the edits and of the refresher keeps the invariant.
LEMMA ConfigStep == ConfigIInv /\ [ConfigNext]_configvars => ConfigIInv'
<1> SUFFICES ASSUME ConfigIInv, [ConfigNext]_configvars PROVE ConfigIInv'
  OBVIOUS
<1>1. CASE UNCHANGED configvars
  BY <1>1 DEF configvars, ConfigIInv, ConfigRowsFit, EditsFit
<1>2. ASSUME NEW e \in Editor, NEW f \in Forms, NEW flag \in BOOLEAN, ReadConfig(e, f, flag)
      PROVE  ConfigIInv'
  <2> DEFINE c == Edited(stored, f, flag)
  <2>1. ConfigRowsFit'
    BY <1>2 DEF ReadConfig, ConfigIInv, ConfigRowsFit
  <2>2. c \in Config
    BY EditedIsConfig DEF ConfigIInv, ConfigRowsFit
  <2>3. CASE EditEnds(e, "failed")
    BY <2>1, <2>3, EditEndsFits DEF ConfigIInv
  <2>4. CASE /\ validate(c)
             /\ before' = [before EXCEPT ![e] = stored] /\ cfg' = [cfg EXCEPT ![e] = c]
             /\ edit' = [edit EXCEPT ![e] = "write"]
    <3> HIDE DEF c
    <3>1. EditsFit'
      BY <2>2, <2>4 DEF ConfigIInv, ConfigRowsFit, EditsFit
    <3>2. QED BY <2>1, <3>1 DEF ConfigIInv
  <2>5. QED BY <1>2, <2>3, <2>4 DEF ReadConfig
<1>3. ASSUME NEW e \in Editor, WriteConfig(e) PROVE ConfigIInv'
  <2>1. edit[e] = "write" /\ stored' \in {stored, cfg[e]} /\ UNCHANGED <<cap, refresher>>
    BY <1>3 DEF WriteConfig
  <2>2. ConfigRowsFit'
    BY <2>1 DEF ConfigIInv, ConfigRowsFit, EditsFit
  <2>3. CASE EditEnds(e, "failed")
    BY <2>2, <2>3, EditEndsFits DEF ConfigIInv
  <2>4. CASE edit' = [edit EXCEPT ![e] = "store"] /\ UNCHANGED <<before, cfg>>
    BY <2>1, <2>2, <2>4 DEF ConfigIInv, EditsFit
  <2>5. QED BY <1>3, <2>3, <2>4 DEF WriteConfig
<1>4. ASSUME NEW e \in Editor, StoreCap(e) PROVE ConfigIInv'
  <2>1. cfg[e] \in Config
    BY <1>4 DEF StoreCap, ConfigIInv, EditsFit
  <2>2. ConfigRowsFit'
    BY <1>4, <2>1, LimitIsAmount DEF StoreCap, ConfigIInv, ConfigRowsFit
  <2>3. EditsFit'
    BY <1>4, EditEndsFits DEF StoreCap, ConfigIInv
  <2>4. QED BY <2>2, <2>3 DEF ConfigIInv
<1>5. CASE RefreshRead
  BY <1>5 DEF RefreshRead, ConfigIInv, ConfigRowsFit, EditsFit
<1>6. CASE RefreshSwap
  <2>1. ConfigRowsFit'
    BY <1>6, LimitIsAmount DEF RefreshSwap, ConfigIInv, ConfigRowsFit
  <2>2. EditsFit'
    BY <1>6 DEF RefreshSwap, ConfigIInv, EditsFit
  <2>3. QED BY <2>1, <2>2 DEF ConfigIInv
<1>7. QED
  BY <1>1, <1>2, <1>3, <1>4, <1>5, <1>6 DEF ConfigNext

-----------------------------------------------------------------------------
\* An edit carries a valid configuration from its read to its write.
THEOREM ConfigInductive == ConfigSpec => []ConfigIInv
BY ConfigInitial, ConfigStep, PTL DEF ConfigSpec

\* The rows, the cap and the locals of the edits keep their types.
THEOREM ConfigTypeCorrect == ConfigSpec => []ConfigTypeOK
<1>1. ConfigIInv => ConfigTypeOK
  BY DEF ConfigIInv, ConfigTypeOK, ConfigRowsFit, EditsFit, Config
<1>2. QED BY <1>1, ConfigInductive, PTL

\* Whatever edits overlap, what is stored satisfies every inequality.
THEOREM ConfigStaysValid == ConfigSpec => []ConfigValid
<1>1. ConfigIInv => ConfigValid
  BY DEF ConfigIInv, ConfigValid, ConfigRowsFit
<1>2. QED BY <1>1, ConfigInductive, PTL

-----------------------------------------------------------------------------
(***************************************************************************)
(* Lifetimes.                                                              *)
(***************************************************************************)
\* Both sets of limits are validated, and the last lifetime came from them.
LifeIInv ==
  /\ instance \in Instances /\ ownlimits \in Limits(Secs \cup {None})
  /\ validate_role(ownlimits)
  /\ applied = None \/ applied \in Limits(Secs)
  /\ lifetime \in {SecsOf(n) : n \in Secs}
                   \cup {Verdict(v) : v \in {"none", "never", "refused", "panic"}}
  /\ LifetimeInLimits

\* Validated limits leave the lifetime that was asked for between them.
LEMMA ClampFits ==
  ASSUME NEW l \in Limits(Secs), NEW w \in Wishes, NEW never \in BOOLEAN
  PROVE  LET c == clamp_expiry(w, l, never)
         IN /\ c \in {SecsOf(n) : n \in Secs} \cup {Verdict(v) : v \in {"never", "refused", "panic"}}
            /\ Ordered(l) => /\ c.is # "panic"
                             /\ c.is = "secs" => c.secs \in l.min..l.max
            /\ c.is = "never" => never = TRUE
<1> DEFINE c == clamp_expiry(w, l, never)
<1>1. /\ l.min \in Secs /\ l.default \in Secs /\ l.max \in Secs
      /\ \A n \in Secs : n \in Int
  BY LifetimesAssumption DEF Limits, Secs
<1>2. \A n : /\ SecsOf(n).is = "secs" /\ SecsOf(n).secs = n
             /\ Verdict(n).is = n
  BY DEF SecsOf, Verdict
<1>3. CASE w.from = "junk"
  <2>1. c = Verdict("refused")
    BY <1>3 DEF clamp_expiry, Never
  <2>2. QED BY <1>2, <2>1
<1>4. CASE w.from = "absent"
  <2>1. c = SecsOf(l.default)
    BY <1>4 DEF clamp_expiry, Never
  <2>2. Ordered(l) => l.default \in l.min..l.max
    BY <1>1 DEF Ordered
  <2>3. QED BY <1>1, <1>2, <2>1, <2>2
<1>5. CASE w.from \notin {"junk", "absent"} /\ Never(w)
  <2>1. c = Verdict(IF never THEN "never" ELSE "refused")
    BY <1>5 DEF clamp_expiry
  <2>2. QED BY <1>2, <2>1
<1>6. CASE w.from \notin {"junk", "absent"} /\ ~Never(w)
  <2>1. c = clamp(w.secs, l)
    BY <1>6 DEF clamp_expiry
  <2>2. w.secs \in Int
    BY <1>6, LifetimesAssumption DEF Wishes, Never
  <2>3. CASE l.min > l.max
    <3>1. c = Verdict("panic") /\ ~Ordered(l)
      BY <1>1, <2>1, <2>3 DEF clamp, Ordered
    <3>2. QED BY <1>2, <3>1
  <2>4. CASE ~(l.min > l.max)
    <3> DEFINE n == IF w.secs < l.min THEN l.min ELSE IF w.secs > l.max THEN l.max ELSE w.secs
    <3>1. c = SecsOf(n)
      BY <2>1, <2>4 DEF clamp
    <3>2. n \in Secs /\ n \in l.min..l.max
      BY <1>1, <2>2, <2>4, LifetimesAssumption DEF Secs
    <3> HIDE DEF n
    <3>3. QED BY <1>2, <3>1, <3>2
  <2>5. QED BY <2>3, <2>4
<1>7. QED BY <1>3, <1>4, <1>5, <1>6

\* Limits of a role stand in for those of the instance, all of them or none.
LEMMA EffectiveLimitsFit ==
  ASSUME LifeIInv
  PROVE  /\ effective_limits \in Limits(Secs) /\ instance.limits \in Limits(Secs)
         /\ Ordered(instance.limits)
         /\ (ownlimits.min = None <=> ownlimits.default = None)
            /\ (ownlimits.min = None <=> ownlimits.max = None) => Ordered(effective_limits)
<1>1. /\ instance.limits \in Limits(Secs) /\ Ordered(instance.limits)
      /\ ownlimits \in Limits(Secs \cup {None}) /\ validate_role(ownlimits)
  BY DEF LifeIInv, Instances
<1>2. DOMAIN ownlimits = {"min", "default", "max"}
  BY <1>1 DEF Limits
<1>3. /\ effective_limits = [min |-> effective_limits.min, default |-> effective_limits.default,
                             max |-> effective_limits.max]
      /\ \A f \in {"min", "default", "max"} :
           effective_limits[f] = IF ownlimits[f] = None THEN instance.limits[f] ELSE ownlimits[f]
  BY <1>2 DEF effective_limits
<1>4. /\ effective_limits.min = IF ownlimits.min = None THEN instance.limits.min ELSE ownlimits.min
      /\ effective_limits.default =
           IF ownlimits.default = None THEN instance.limits.default ELSE ownlimits.default
      /\ effective_limits.max = IF ownlimits.max = None THEN instance.limits.max ELSE ownlimits.max
  BY <1>3
<1>5. effective_limits \in Limits(Secs)
  BY <1>1, <1>3, <1>4 DEF Limits
<1>6. ASSUME ownlimits.min # None, ownlimits.default # None, ownlimits.max # None
      PROVE  Ordered(effective_limits)
  <2>1. Ordered(ownlimits)
    BY <1>1, <1>2, <1>6 DEF validate_role
  <2>2. QED BY <1>4, <1>6, <2>1 DEF Ordered
<1>7. ASSUME ownlimits.min = None, ownlimits.default = None, ownlimits.max = None
      PROVE  Ordered(effective_limits)
  BY <1>1, <1>4, <1>7 DEF Ordered
<1>8. QED BY <1>1, <1>5, <1>6, <1>7

\* The instance starts with limits that are in order, and a role without any.

\* The first configuration is in order, and the user's role sets no limit.
LEMMA LifeInitial == LifeInit => LifeIInv
<1> SUFFICES ASSUME LifeInit PROVE LifeIInv
  OBVIOUS
<1>1. instance \in Instances
  <2>1. 1 \in Secs
    BY LifetimesAssumption DEF Secs
  <2>2. QED BY <2>1 DEF LifeInit, Instances, Limits, Ordered
<1>2. ownlimits \in Limits(Secs \cup {None}) /\ validate_role(ownlimits)
  BY DEF LifeInit, Limits, validate_role
<1>3. lifetime = Verdict("none") /\ lifetime.is = "none"
  BY DEF LifeInit, Verdict
<1>4. QED BY <1>1, <1>2, <1>3 DEF LifeInit, LifeIInv, LifetimeInLimits

\* Every step keeps the invariant: limits change only before a lifetime is had of them.
LEMMA LifeStep == LifeIInv /\ [LifeNext]_lifevars => LifeIInv'
<1> SUFFICES ASSUME LifeIInv, [LifeNext]_lifevars PROVE LifeIInv'
  OBVIOUS
<1>1. ASSUME NEW c \in Instances, lifetime.is = "none", SetInstance(c) PROVE LifeIInv'
  BY <1>1 DEF SetInstance, LifeIInv, LifetimeInLimits
<1>2. ASSUME NEW r \in Limits(Secs \cup {None}), lifetime.is = "none", SetRole(r)
      PROVE  LifeIInv'
  BY <1>2 DEF SetRole, LifeIInv, LifetimeInLimits
<1>3. ASSUME NEW authed \in BOOLEAN, NEW w \in Wishes, Resolve(authed, w) PROVE LifeIInv'
  <2> DEFINE l == IF authed THEN effective_limits ELSE instance.limits
             c == clamp_expiry(w, l, allow_never(authed))
  <2>1. applied' = l /\ lifetime' = c /\ UNCHANGED <<instance, ownlimits>>
    BY <1>3 DEF Resolve
  <2>2. /\ l \in Limits(Secs)
        /\ (ownlimits.min = None <=> ownlimits.default = None)
           /\ (ownlimits.min = None <=> ownlimits.max = None) => Ordered(l)
    BY EffectiveLimitsFit
  <2>3. allow_never(authed) \in BOOLEAN /\ (allow_never(authed) = TRUE => instance.allow_never)
    BY DEF allow_never
  <2> HIDE DEF l
  <2>4. /\ c \in {SecsOf(n) : n \in Secs} \cup {Verdict(v) : v \in {"never", "refused", "panic"}}
        /\ Ordered(l) => /\ c.is # "panic"
                         /\ c.is = "secs" => c.secs \in l.min..l.max
        /\ c.is = "never" => allow_never(authed) = TRUE
    BY <2>2, <2>3, ClampFits
  <2> HIDE DEF c
  <2>5. LifetimeInLimits'
    BY <2>1, <2>2, <2>3, <2>4 DEF LifetimeInLimits
  <2>6. QED BY <2>1, <2>2, <2>4, <2>5 DEF LifeIInv
<1>4. CASE UNCHANGED lifevars
  BY <1>4 DEF lifevars, LifeIInv, LifetimeInLimits
<1>5. QED BY <1>1, <1>2, <1>3, <1>4 DEF LifeNext

\* Every lifetime is within the limits it was resolved against, whatever the limits are,
\* and none is without end unless the instance allows it.
THEOREM LifetimesInLimits == LifeSpec => []LifetimeInLimits
<1>1. LifeIInv => LifetimeInLimits
  BY DEF LifeIInv
<1>2. QED BY <1>1, LifeInitial, LifeStep, PTL DEF LifeSpec

\* Limits and verdicts keep their types, whatever limits are set.
THEOREM LifetimesTyped == LifeSpec => []LifetimesTypeOK
<1>1. LifeIInv => LifetimesTypeOK
  BY DEF LifeIInv, LifetimesTypeOK
<1>2. QED BY <1>1, LifeInitial, LifeStep, PTL DEF LifeSpec

-----------------------------------------------------------------------------
(***************************************************************************)
(* Quotas: what the sizes of the files add up to.                          *)
(***************************************************************************)
Chosen(s) == CHOOSE f \in s : TRUE

\* F gives the sum of g over every set of files.
SumOf(F, g) ==
  F = [s \in SUBSET (1..Files) |-> IF s = {} THEN 0 ELSE g[Chosen(s)] + F[s \ {Chosen(s)}]]

\* The sets of at most n files.
UpTo(n) == {s \in SUBSET (1..Files) : Cardinality(s) <= n}

\* Sets of files have a size, and one file less if one is taken out.
LEMMA SetsOfFiles ==
  ASSUME NEW s \in SUBSET (1..Files)
  PROVE  /\ IsFiniteSet(s) /\ Cardinality(s) \in Nat /\ Cardinality(s) <= Files
         /\ s # {} => /\ Chosen(s) \in s /\ Cardinality(s) > 0
                      /\ Cardinality(s \ {Chosen(s)}) = Cardinality(s) - 1
                      /\ s \ {Chosen(s)} \in SUBSET (1..Files)
<1>1. IsFiniteSet(1..Files) /\ Cardinality(1..Files) = Files
  BY FS_Interval, QuotasAssumption
<1>2. IsFiniteSet(s) /\ Cardinality(s) <= Files
  BY <1>1, FS_Subset
<1>3. Cardinality(s) \in Nat
  BY <1>2, FS_CardinalityType
<1>4. ASSUME s # {}
      PROVE  Chosen(s) \in s /\ Cardinality(s) > 0
             /\ Cardinality(s \ {Chosen(s)}) = Cardinality(s) - 1
  <2>1. Chosen(s) \in s
    BY <1>4 DEF Chosen
  <2>2. Cardinality(s) # 0
    BY <1>2, <1>4, FS_EmptySet
  <2>3. Cardinality(s \ {Chosen(s)}) = Cardinality(s) - 1
    BY <1>2, <2>1, FS_RemoveElement
  <2>4. QED BY <1>3, <2>1, <2>2, <2>3
<1>5. QED BY <1>2, <1>3, <1>4

\* There is such a sum for the sets of any size.
LEMMA SumExists ==
  ASSUME NEW g \in [1..Files -> Nat]
  PROVE  \E F : SumOf(F, g) /\ F \in [SUBSET (1..Files) -> Nat]
<1> DEFINE Partial(F, n) ==
      /\ F \in [UpTo(n) -> Nat]
      /\ \A s \in UpTo(n) : F[s] = IF s = {} THEN 0 ELSE g[Chosen(s)] + F[s \ {Chosen(s)}]
    T == {n \in Nat : ~ \E F : Partial(F, n)}
<1>1. T = {}
  <2> SUFFICES ASSUME T # {} PROVE FALSE
    OBVIOUS
  <2>1. PICK n \in T : \A m \in T : n <= m
    BY LeastOf
  <2>2. n \in Nat
    OBVIOUS
  <2>3. n # 0
    <3> SUFFICES ASSUME n = 0 PROVE FALSE
      OBVIOUS
    <3> DEFINE F == [s \in UpTo(0) |-> 0]
    <3>1. \A s \in UpTo(0) : s = {}
      <4> SUFFICES ASSUME NEW s \in UpTo(0), s # {} PROVE FALSE
        OBVIOUS
      <4>1. s \in SUBSET (1..Files) /\ Cardinality(s) <= 0
        BY DEF UpTo
      <4>2. Cardinality(s) \in Nat /\ Cardinality(s) > 0
        BY <4>1, SetsOfFiles
      <4>3. QED BY <4>1, <4>2
    <3>2. Partial(F, 0)
      BY <3>1
    <3>3. QED BY <3>2, <2>1
  <2>4. n - 1 \in Nat /\ n - 1 \notin T
    <3>1. n - 1 \in Nat /\ ~(n <= n - 1)
      BY <2>2, <2>3
    <3> HIDE DEF T
    <3>2. QED BY <2>1, <3>1
  <2>5. PICK F : Partial(F, n - 1)
    BY <2>4
  <2> DEFINE H == [s \in UpTo(n) |-> IF s = {} THEN 0 ELSE g[Chosen(s)] + F[s \ {Chosen(s)}]]
  <2>6. ASSUME NEW s \in UpTo(n), s # {}
        PROVE  s \ {Chosen(s)} \in UpTo(n - 1) /\ s \ {Chosen(s)} \in UpTo(n) /\ Chosen(s) \in 1..Files
    <3>1. s \in SUBSET (1..Files) /\ Cardinality(s) <= n
      BY DEF UpTo
    <3>2. /\ Chosen(s) \in s /\ s \ {Chosen(s)} \in SUBSET (1..Files)
          /\ Cardinality(s \ {Chosen(s)}) = Cardinality(s) - 1 /\ Cardinality(s) \in Nat
      BY <2>6, <3>1, SetsOfFiles
    <3>3. Cardinality(s \ {Chosen(s)}) <= n - 1 /\ Cardinality(s \ {Chosen(s)}) <= n
      BY <2>2, <3>1, <3>2
    <3>4. QED BY <3>1, <3>2, <3>3 DEF UpTo
  <2>7. \A s \in UpTo(n - 1) : s \in UpTo(n) /\ H[s] = F[s]
    <3>1. ASSUME NEW s \in UpTo(n - 1) PROVE s \in UpTo(n)
      <4>1. s \in SUBSET (1..Files) /\ Cardinality(s) <= n - 1 /\ Cardinality(s) \in Nat
        BY SetsOfFiles DEF UpTo
      <4>2. Cardinality(s) <= n
        BY <2>2, <4>1
      <4>3. QED BY <4>1, <4>2 DEF UpTo
    <3>2. QED BY <2>5, <3>1
  <2>8. \A s \in UpTo(n) : H[s] \in Nat
    BY <2>5, <2>6
  <2>9. \A s \in UpTo(n) : H[s] = IF s = {} THEN 0 ELSE g[Chosen(s)] + H[s \ {Chosen(s)}]
    BY <2>6, <2>7
  <2>10. Partial(H, n)
    <3>1. H \in [UpTo(n) -> Nat]
      BY <2>8
    <3>2. QED BY <2>9, <3>1
  <2>11. QED BY <2>1, <2>10
<1>2. PICK F : Partial(F, Files)
  BY <1>1, QuotasAssumption
<1>3. UpTo(Files) = SUBSET (1..Files)
  BY SetsOfFiles DEF UpTo
<1>4. QED BY <1>2, <1>3 DEF SumOf

\* There are no two.
LEMMA SumUnique ==
  ASSUME NEW g \in [1..Files -> Nat], NEW F, NEW G, SumOf(F, g), SumOf(G, g)
  PROVE  F = G
<1> DEFINE T == {n \in Nat : \E s \in SUBSET (1..Files) : Cardinality(s) = n /\ F[s] # G[s]}
<1>1. T = {}
  <2> SUFFICES ASSUME T # {} PROVE FALSE
    OBVIOUS
  <2>1. PICK n \in T : \A m \in T : n <= m
    BY LeastOf
  <2>2. PICK s \in SUBSET (1..Files) : Cardinality(s) = n /\ F[s] # G[s]
    BY <2>1
  <2>3. s # {}
    BY <2>2 DEF SumOf
  <2>4. /\ s \ {Chosen(s)} \in SUBSET (1..Files)
        /\ Cardinality(s \ {Chosen(s)}) = Cardinality(s) - 1
        /\ Cardinality(s) \in Nat /\ Cardinality(s) > 0
    BY <2>3, SetsOfFiles
  <2>5. Cardinality(s \ {Chosen(s)}) \in Nat /\ ~(n <= Cardinality(s \ {Chosen(s)}))
    BY <2>2, <2>4
  <2>6. Cardinality(s \ {Chosen(s)}) \notin T
    <3> HIDE DEF T
    <3>1. QED BY <2>1, <2>5
  <2>7. F[s \ {Chosen(s)}] = G[s \ {Chosen(s)}]
    BY <2>4, <2>5, <2>6
  <2>8. /\ F[s] = g[Chosen(s)] + F[s \ {Chosen(s)}]
        /\ G[s] = g[Chosen(s)] + G[s \ {Chosen(s)}]
    BY <2>3 DEF SumOf
  <2>9. QED BY <2>2, <2>7, <2>8
<1>2. ASSUME NEW s \in SUBSET (1..Files) PROVE F[s] = G[s]
  <2>1. Cardinality(s) \in Nat /\ Cardinality(s) \notin T
    BY <1>1, SetsOfFiles
  <2>2. QED BY <2>1
<1>3. DOMAIN F = SUBSET (1..Files) /\ DOMAIN G = SUBSET (1..Files)
  BY DEF SumOf
<1>4. F = [s \in SUBSET (1..Files) |-> F[s]] /\ G = [s \in SUBSET (1..Files) |-> G[s]]
  BY DEF SumOf
<1>5. QED BY <1>2, <1>4

\* Sums that differ in a size still do when the same is added to both.
LEMMA AddToBoth ==
  ASSUME NEW a \in Nat, NEW b \in Nat, NEW c \in Nat, NEW x \in Nat, NEW y \in Nat,
         b + x = a + y
  PROVE  (c + b) + x = (c + a) + y
OBVIOUS

\* F is the sum of sizes g; the sizes g and h differ in that of f at most, and the sums
\* by as much.
Sums(F, g) ==
  SumOf(F, g) /\ g \in [1..Files -> Nat] /\ F \in [SUBSET (1..Files) -> Nat]
DifferAt(f, g, h) == f \in 1..Files /\ \A e \in 1..Files : e # f => h[e] = g[e]
Shifted(F, G, f, g, h) == G[1..Files] + g[f] = F[1..Files] + h[f]

\* A change of one size changes the sum by as much.
LEMMA SumChanges ==
  ASSUME NEW g, NEW h, NEW F, NEW G, NEW f, Sums(F, g), Sums(G, h), DifferAt(f, g, h)
  PROVE  Shifted(F, G, f, g, h)
<1> USE DEF Sums, DifferAt, Shifted
<1> DEFINE T == {n \in Nat : \E s \in SUBSET (1..Files) :
                   /\ Cardinality(s) = n
                   /\ ~ (IF f \in s THEN G[s] + g[f] = F[s] + h[f] ELSE G[s] = F[s])}
<1>1. T = {}
  <2> SUFFICES ASSUME T # {} PROVE FALSE
    OBVIOUS
  <2>1. PICK n \in T : \A m \in T : n <= m
    BY LeastOf
  <2>2. PICK s \in SUBSET (1..Files) :
          /\ Cardinality(s) = n
          /\ ~ (IF f \in s THEN G[s] + g[f] = F[s] + h[f] ELSE G[s] = F[s])
    BY <2>1
  <2>3. s # {}
    BY <2>2 DEF SumOf
  <2>4. PICK c \in s, t \in SUBSET (1..Files) :
          /\ c = Chosen(s) /\ t = s \ {c}
          /\ Cardinality(t) = n - 1 /\ n - 1 \in Nat /\ n \in Nat
    <3>1. /\ Chosen(s) \in s /\ s \ {Chosen(s)} \in SUBSET (1..Files)
          /\ Cardinality(s \ {Chosen(s)}) = Cardinality(s) - 1
          /\ Cardinality(s) \in Nat /\ Cardinality(s) > 0
      BY <2>3, SetsOfFiles
    <3>2. n - 1 \in Nat /\ n \in Nat
      BY <2>2, <3>1
    <3>3. QED BY <2>2, <3>1, <3>2
  <2>5. G[s] = h[c] + G[t] /\ F[s] = g[c] + F[t]
    BY <2>3, <2>4 DEF SumOf
  <2>6. n - 1 \notin T
    <3>1. ~(n <= n - 1)
      BY <2>4
    <3> HIDE DEF T
    <3>2. QED BY <2>1, <3>1
  <2>7. IF f \in t THEN G[t] + g[f] = F[t] + h[f] ELSE G[t] = F[t]
    BY <2>4, <2>6
  <2>8. /\ G[t] \in Nat /\ F[t] \in Nat /\ g[c] \in Nat /\ h[c] \in Nat
        /\ g[f] \in Nat /\ h[f] \in Nat
    BY <2>4
  <2>9. CASE c = f
    <3>1. f \in s /\ f \notin t
      BY <2>4, <2>9
    <3>2. QED BY <2>2, <2>5, <2>7, <2>8, <2>9, <3>1
  <2>10. CASE c # f
    <3>1. (f \in s <=> f \in t) /\ h[c] = g[c]
      BY <2>4, <2>10
    <3>2. ASSUME f \in s PROVE G[s] + g[f] = F[s] + h[f]
      <4>1. G[t] + g[f] = F[t] + h[f] /\ G[s] = g[c] + G[t] /\ F[s] = g[c] + F[t]
        BY <2>5, <2>7, <3>1, <3>2
      <4>2. PICK a \in Nat, b \in Nat, d \in Nat, x \in Nat, y \in Nat :
              a = F[t] /\ b = G[t] /\ d = g[c] /\ x = g[f] /\ y = h[f]
        BY <2>8, Zenon
      <4>3. b + x = a + y
        BY <4>1, <4>2, Zenon
      <4>4. (d + b) + x = (d + a) + y
        BY <4>3, AddToBoth
      <4>5. QED BY <4>1, <4>2, <4>4, Zenon
    <3>3. ASSUME f \notin s PROVE G[s] = F[s]
      BY <2>5, <2>7, <3>1, <3>3
    <3>4. QED BY <2>2, <3>2, <3>3
  <2>11. QED BY <2>9, <2>10
<1>2. Cardinality(1..Files) \notin T /\ Cardinality(1..Files) \in Nat
  BY <1>1, SetsOfFiles
<1>3. IF f \in 1..Files THEN G[1..Files] + g[f] = F[1..Files] + h[f] ELSE G[1..Files] = F[1..Files]
  BY <1>2
<1>4. QED BY <1>3

\* Sizes add up to a number.
LEMMA SizesSum ==
  ASSUME NEW g \in [1..Files -> Nat]
  PROVE  SizeSum(g) \in Nat /\ \E F : Sums(F, g) /\ SizeSum(g) = F[1..Files]
<1> DEFINE F == CHOOSE H : SumOf(H, g)
<1>1. PICK G : SumOf(G, g) /\ G \in [SUBSET (1..Files) -> Nat]
  BY SumExists
<1>2. SumOf(F, g)
  BY <1>1
<1>3. SizeSum(g) = F[1..Files]
  BY DEF SumOf, Chosen, SizeSum, MapThenSumSet, MapThenFoldSet
<1>4. F \in [SUBSET (1..Files) -> Nat]
  BY <1>1, <1>2, SumUnique
<1>5. F[1..Files] \in Nat
  BY <1>4
<1>6. QED BY <1>2, <1>3, <1>4, <1>5, Zenon DEF Sums

\* If one of them is another, the sum differs by as much.
LEMMA SizesDiffer ==
  ASSUME NEW g \in [1..Files -> Nat], NEW h \in [1..Files -> Nat], NEW f,
         DifferAt(f, g, h)
  PROVE  /\ SizeSum(g) \in Nat /\ SizeSum(h) \in Nat
         /\ SizeSum(h) + g[f] = SizeSum(g) + h[f]
<1>1. PICK F : Sums(F, g) /\ SizeSum(g) = F[1..Files]
  BY SizesSum
<1>2. PICK G : Sums(G, h) /\ SizeSum(h) = G[1..Files]
  BY SizesSum
<1>3. Shifted(F, G, f, g, h)
  BY <1>1, <1>2, SumChanges
<1>4. SizeSum(h) + g[f] = SizeSum(g) + h[f]
  BY <1>1, <1>2, <1>3, Zenon DEF Shifted
<1>5. QED BY <1>4, SizesSum

\* One size is set to n.
LEMMA SizeSet ==
  ASSUME NEW g \in [1..Files -> Nat], NEW f \in 1..Files, NEW n \in Nat,
         NEW h, h = [g EXCEPT ![f] = n]
  PROVE  h \in [1..Files -> Nat] /\ h[f] = n /\ DifferAt(f, g, h)
BY DEF DifferAt

\* The sum is no larger if a size is set to nothing.
LEMMA LessWithout ==
  ASSUME NEW g \in [1..Files -> Nat], NEW f \in 1..Files, NEW h, h = [g EXCEPT ![f] = 0]
  PROVE  SizeSum(h) <= SizeSum(g) /\ SizeSum(h) \in Nat
<1>1. \A a, b, n \in Nat : a + n = b + 0 => a <= b
  OBVIOUS
<1>2. h \in [1..Files -> Nat] /\ h[f] = 0 /\ DifferAt(f, g, h) /\ g[f] \in Nat
  BY SizeSet
<1>3. /\ SizeSum(g) \in Nat /\ SizeSum(h) \in Nat
      /\ SizeSum(h) + g[f] = SizeSum(g) + h[f]
  BY <1>2, SizesDiffer
<1>4. QED BY <1>1, <1>2, <1>3, Zenon

-----------------------------------------------------------------------------
(***************************************************************************)
(* Quotas: the inductive invariant.                                        *)
(***************************************************************************)
QuotasShape ==
  /\ sizes \in [1..Files -> Nat]
  /\ upc \in [Uploader -> {"idle", "used", "spool", "insert"}]
  /\ user \in [Uploader -> {"user", "anonymous"}]
  /\ quota \in [Uploader -> Quota \cup {None}]
  /\ limit \in [Uploader -> Nat] /\ spooled \in [Uploader -> Nat]
  /\ newer \in [Uploader -> SUBSET (1..Files)]

\* What an upload may take in, with what it found, is within the quota that it has read.
Fits(u) ==
  /\ spooled[u] <= limit[u]
  /\ ~Metered(u) => spooled[u] = 0 /\ newer[u] = {}
  /\ Metered(u) /\ quota[u] # None => limit[u] + SizeSum(Found(u)) <= quota[u]
RoomLeft == \A u \in Uploader : Fits(u)

QuotaIInv == QuotasShape /\ RoomLeft

\* Nobody uploads at first.
LEMMA QuotaInitial == QuotaInit => QuotaIInv
BY DEF QuotaInit, QuotaIInv, QuotasShape, RoomLeft, Fits, Metered

\* What was found is some of the files.
LEMMA FoundSizes ==
  ASSUME QuotasShape, NEW u \in Uploader
  PROVE  /\ Found(u) \in [1..Files -> Nat] /\ SizeSum(Found(u)) \in Nat
         /\ newer[u] = {} => SizeSum(Found(u)) = storage_used
<1>1. Found(u) \in [1..Files -> Nat] /\ sizes \in [1..Files -> Nat]
  BY DEF QuotasShape, Found
<1>2. newer[u] = {} => Found(u) = sizes
  BY <1>1 DEF Found
<1>3. QED BY <1>1, <1>2, SizesSum DEF storage_used

\* An upload's part of the invariant lasts while nobody touches its locals and it finds no
\* more.
LEMMA FitsStill ==
  ASSUME QuotaIInv, NEW u \in Uploader,
         upc'[u] = upc[u], quota'[u] = quota[u], limit'[u] = limit[u],
         spooled'[u] = spooled[u], newer[u] = {} => newer'[u] = {} \/ Metered(u),
         Metered(u) => SizeSum(Found(u))' \in Nat /\ SizeSum(Found(u))' <= SizeSum(Found(u))
  PROVE  Fits(u)'
<1>1. Fits(u)
  BY DEF QuotaIInv, RoomLeft
<1>2. Metered(u)' = Metered(u)
  BY DEF Metered
<1>3. spooled'[u] <= limit'[u] /\ (~Metered(u)' => spooled'[u] = 0 /\ newer'[u] = {})
  BY <1>1, <1>2 DEF Fits
<1>4. ASSUME Metered(u), quota[u] # None
      PROVE  limit[u] + SizeSum(Found(u))' <= quota[u]
  <2>1. PICK l \in Nat, q \in Nat, a \in Nat, b \in Nat :
          /\ l = limit[u] /\ q = quota[u] /\ a = SizeSum(Found(u)) /\ b = SizeSum(Found(u))'
          /\ b <= a /\ l + a <= q
    BY <1>1, <1>4, FoundSizes, QuotasAssumption DEF QuotaIInv, QuotasShape, Fits
  <2>2. l + b <= q
    BY <2>1
  <2>3. QED BY <2>1, <2>2
<1>5. QED BY <1>2, <1>3, <1>4 DEF Fits

\* The files are the same, and so is what was found of them.
LEMMA SameFiles ==
  ASSUME QuotasShape, UNCHANGED sizes
  PROVE  /\ storage_used' = storage_used /\ storage_used \in Nat
         /\ \A u \in Uploader : newer'[u] = newer[u] =>
              /\ SizeSum(Found(u))' = SizeSum(Found(u)) /\ SizeSum(Found(u))' \in Nat
              /\ SizeSum(Found(u))' <= SizeSum(Found(u))
<1>1. storage_used' = storage_used /\ storage_used \in Nat
  <2>1. storage_used' = storage_used
    BY DEF storage_used, SizeSum, MapThenSumSet, MapThenFoldSet
  <2>2. storage_used \in Nat
    BY SizesSum DEF QuotasShape, storage_used
  <2>3. QED BY <2>1, <2>2
<1>2. ASSUME NEW u \in Uploader, newer'[u] = newer[u]
      PROVE  SizeSum(Found(u))' = SizeSum(Found(u))
  <2>1. Found(u)' = Found(u)
    BY <1>2 DEF Found
  <2>2. QED BY <2>1 DEF SizeSum, MapThenSumSet, MapThenFoldSet
<1>3. ASSUME NEW u \in Uploader, newer'[u] = newer[u]
      PROVE  SizeSum(Found(u))' \in Nat /\ SizeSum(Found(u))' <= SizeSum(Found(u))
  <2>1. PICK a \in Nat : a = SizeSum(Found(u))
    BY FoundSizes
  <2>2. a <= a
    OBVIOUS
  <2>3. QED BY <1>2, <1>3, <2>1, <2>2
<1>4. QED BY <1>1, <1>2, <1>3

\* A step of one upload that leaves the files as they are.
LEMMA OwnStep ==
  ASSUME QuotaIInv, QuotasShape', NEW u \in Uploader, UNCHANGED sizes, Fits(u)',
         \A v \in Uploader \ {u} :
           /\ upc'[v] = upc[v] /\ quota'[v] = quota[v] /\ limit'[v] = limit[v]
           /\ spooled'[v] = spooled[v] /\ newer'[v] = newer[v]
  PROVE  QuotaIInv'
<1>1. ASSUME NEW v \in Uploader, v # u PROVE Fits(v)'
  <2>1. SizeSum(Found(v))' \in Nat /\ SizeSum(Found(v))' <= SizeSum(Found(v))
    BY <1>1, SameFiles DEF QuotaIInv
  <2>2. QED BY <1>1, <2>1, FitsStill
<1>2. QED BY <1>1 DEF QuotaIInv, RoomLeft

\* An upload is refused.
LEMMA EndsStep ==
  ASSUME QuotaIInv, NEW u \in Uploader, UploadRefused(u), UNCHANGED <<sizes, user>>
  PROVE  QuotaIInv'
<1>1. /\ upc' = [upc EXCEPT ![u] = "idle"] /\ quota' = [quota EXCEPT ![u] = None]
      /\ limit' = [limit EXCEPT ![u] = 0] /\ spooled' = [spooled EXCEPT ![u] = 0]
      /\ newer' = [newer EXCEPT ![u] = {}]
  BY DEF UploadRefused, UploadEnds, UGoto
<1>2. QuotasShape'
  BY <1>1 DEF QuotaIInv, QuotasShape
<1>3. /\ upc'[u] = "idle" /\ spooled'[u] = 0 /\ limit'[u] = 0 /\ newer'[u] = {}
      /\ \A v \in Uploader \ {u} :
           /\ upc'[v] = upc[v] /\ quota'[v] = quota[v] /\ limit'[v] = limit[v]
           /\ spooled'[v] = spooled[v] /\ newer'[v] = newer[v]
  BY <1>1 DEF QuotaIInv, QuotasShape
<1>4. Fits(u)'
  BY <1>3 DEF Fits, Metered
<1>5. QED BY <1>2, <1>3, <1>4, OwnStep

\* An upload goes on.
LEMMA GoesOnStep ==
  ASSUME QuotaIInv, NEW u \in Uploader, NEW next \in {"spool", "insert"},
         NEW n \in Nat, NEW l \in Nat, n <= l,
         upc' = [upc EXCEPT ![u] = next],
         limit' = [limit EXCEPT ![u] = l], spooled' = [spooled EXCEPT ![u] = n],
         UNCHANGED <<sizes, user, quota, newer>>,
         quota[u] # None => l + SizeSum(Found(u)) <= quota[u]
  PROVE  QuotaIInv'
<1>1. QuotasShape'
  BY DEF QuotaIInv, QuotasShape
<1>2. SizeSum(Found(u))' = SizeSum(Found(u))
  BY SameFiles DEF QuotaIInv
<1>3. /\ upc'[u] = next /\ limit'[u] = l /\ spooled'[u] = n
      /\ \A v \in Uploader \ {u} :
           upc'[v] = upc[v] /\ limit'[v] = limit[v] /\ spooled'[v] = spooled[v]
  BY DEF QuotaIInv, QuotasShape
<1>4. Fits(u)'
  BY <1>2, <1>3 DEF Fits, Metered
<1>5. QED BY <1>1, <1>3, <1>4, OwnStep

\* Files go away, also of what was found.
LEMMA DeleteStep ==
  ASSUME QuotaIInv, NEW f \in 1..Files, DeleteFile(f)
  PROVE  QuotaIInv'
<1>1. /\ sizes' = [sizes EXCEPT ![f] = 0] /\ newer' = [u \in Uploader |-> newer[u] \ {f}]
      /\ UNCHANGED <<upc, user, quota, limit, spooled>>
      /\ QuotasShape
  BY DEF DeleteFile, QuotaIInv
<1>2. QuotasShape'
  BY <1>1 DEF QuotasShape
<1>3. ASSUME NEW u \in Uploader PROVE Fits(u)'
  <2>1. Found(u) \in [1..Files -> Nat]
    BY <1>1, FoundSizes
  <2>2. Found(u)' = [Found(u) EXCEPT ![f] = 0]
    BY <1>1, <2>1 DEF Found, QuotasShape
  <2>3. SizeSum(Found(u))' = SizeSum([Found(u) EXCEPT ![f] = 0])
    BY <2>2 DEF SizeSum, MapThenSumSet, MapThenFoldSet
  <2>4. SizeSum(Found(u))' \in Nat /\ SizeSum(Found(u))' <= SizeSum(Found(u))
    <3>1. PICK h : h = [Found(u) EXCEPT ![f] = 0]
      OBVIOUS
    <3>2. SizeSum(h) <= SizeSum(Found(u)) /\ SizeSum(h) \in Nat
      BY <2>1, <3>1, LessWithout, Zenon
    <3>3. QED BY <2>3, <3>1, <3>2, Zenon
  <2>5. newer[u] = {} => newer'[u] = {}
    BY <1>1
  <2>6. QED BY <1>1, <2>4, <2>5, FitsStill
<1>4. QED BY <1>2, <1>3 DEF QuotaIInv, RoomLeft

\* An upload begins with the limits of its user.
LEMMA LimitsStep ==
  ASSUME QuotaIInv, NEW u \in Uploader, ReadLimits(u)
  PROVE  QuotaIInv'
<1>1. PICK w \in {"user", "anonymous"}, q \in Quota \cup {None}, most \in FileCap :
        /\ user' = [user EXCEPT ![u] = w]
        /\ quota' = [quota EXCEPT ![u] = IF w = "user" THEN q ELSE None]
        /\ limit' = [limit EXCEPT ![u] = IF w = "user" THEN most ELSE Min({most, AnonCap})]
  BY DEF ReadLimits
<1>2. upc[u] = "idle" /\ upc' = [upc EXCEPT ![u] = "used"] /\ UNCHANGED <<sizes, spooled, newer>>
  BY DEF ReadLimits, UGoto
<1>3. most \in Nat /\ Min({most, AnonCap}) \in Nat
  <2>1. {most, AnonCap} \in SUBSET Nat /\ most \in Nat
    BY QuotasAssumption
  <2>2. Min({most, AnonCap}) \in {most, AnonCap}
    BY <2>1, MinIsLeast
  <2>3. QED BY <2>1, <2>2
<1>4. limit' \in [Uploader -> Nat] /\ limit'[u] \in Nat
      /\ \A v \in Uploader \ {u} : limit'[v] = limit[v]
  BY <1>1, <1>3 DEF QuotaIInv, QuotasShape
<1>5. QuotasShape'
  BY <1>1, <1>2, <1>4 DEF QuotaIInv, QuotasShape
<1>6. \A v \in Uploader \ {u} :
        /\ upc'[v] = upc[v] /\ quota'[v] = quota[v] /\ limit'[v] = limit[v]
        /\ spooled'[v] = spooled[v] /\ newer'[v] = newer[v]
  BY <1>1, <1>2, <1>4 DEF QuotaIInv, QuotasShape
<1>7. Fits(u)'
  <2>1. upc'[u] = "used" /\ spooled'[u] = 0 /\ newer'[u] = {}
    BY <1>2 DEF QuotaIInv, QuotasShape, RoomLeft, Fits, Metered
  <2>2. QED BY <1>4, <2>1 DEF Fits, Metered
<1>8. QED BY <1>2, <1>5, <1>6, <1>7, OwnStep

\* The quota caps what an upload may take in.
LEMMA UsedStep ==
  ASSUME QuotaIInv, NEW u \in Uploader, ReadUsed(u)
  PROVE  QuotaIInv'
<1>1. /\ upc[u] = "used" /\ UNCHANGED <<sizes, user, newer>>
      /\ spooled[u] = 0 /\ newer[u] = {}
      /\ SizeSum(Found(u)) = storage_used /\ storage_used \in Nat
  <2>1. upc[u] = "used" /\ UNCHANGED <<sizes, user, newer>>
    BY DEF ReadUsed
  <2>2. spooled[u] = 0 /\ newer[u] = {}
    BY <2>1 DEF QuotaIInv, RoomLeft, Fits, Metered
  <2>3. QED BY <2>1, <2>2, FoundSizes DEF QuotaIInv
<1>2. CASE UploadEnds(u)
  <2>1. newer' = [newer EXCEPT ![u] = {}]
    BY <1>1 DEF QuotaIInv, QuotasShape
  <2>2. QED BY <1>1, <1>2, <2>1, EndsStep DEF UploadRefused
<1>3. CASE ~UploadEnds(u)
  <2> DEFINE left == quota[u] - storage_used
             l == IF quota[u] = None THEN limit[u] ELSE Min({limit[u], left})
  <2>1. /\ upc' = [upc EXCEPT ![u] = "spool"] /\ UNCHANGED <<quota, spooled>>
        /\ limit' = IF quota[u] = None THEN limit ELSE [limit EXCEPT ![u] = Min({@, left})]
        /\ ~(quota[u] # None /\ storage_used + 1 > quota[u])
    BY <1>3 DEF ReadUsed, UGoto
  <2>2. limit \in [Uploader -> Nat] /\ spooled \in [Uploader -> Nat]
        /\ quota[u] \in Quota \cup {None} /\ limit[u] \in Nat
    BY DEF QuotaIInv, QuotasShape
  <2>3. quota[u] # None => /\ l \in Nat /\ l <= left /\ left \in Nat /\ quota[u] \in Nat
    <3> SUFFICES ASSUME quota[u] # None
                 PROVE  l \in Nat /\ l <= left /\ left \in Nat /\ quota[u] \in Nat
      OBVIOUS
    <3>1. quota[u] \in Nat /\ left \in Nat
      <4>1. quota[u] \in Nat /\ ~(storage_used + 1 > quota[u])
        BY <2>1, <2>2, QuotasAssumption
      <4>2. QED BY <1>1, <4>1
    <3> HIDE DEF left
    <3>2. {limit[u], left} \in SUBSET Nat
      BY <2>2, <3>1
    <3>3. Min({limit[u], left}) \in Nat /\ Min({limit[u], left}) <= left
      BY <3>2, MinIsLeast
    <3>4. QED BY <3>1, <3>3
  <2>4. quota[u] # None => l + storage_used <= quota[u]
    BY <1>1, <2>3
  <2>5. l \in Nat /\ limit' = [limit EXCEPT ![u] = l]
    BY <2>1, <2>2, <2>3
  <2>6. spooled' = [spooled EXCEPT ![u] = 0]
    BY <1>1, <2>1, <2>2
  <2> HIDE DEF l
  <2>7. 0 <= l /\ 0 \in Nat
    BY <2>5
  <2>8. quota[u] # None => l + SizeSum(Found(u)) <= quota[u]
    BY <1>1, <2>4
  <2>9. QED BY <1>1, <2>1, <2>5, <2>6, <2>7, <2>8, GoesOnStep
<1>4. QED BY <1>2, <1>3

\* The body arrives within the cap, again or shorter.
LEMMA BodyStep ==
  ASSUME QuotaIInv, NEW u \in Uploader,
         (\E n \in Piece : Spool(u, n)) \/ SpoolAgain(u) \/ BodyEnds(u)
  PROVE  QuotaIInv'
<1>1. upc[u] = "spool" /\ UNCHANGED <<sizes, user>>
  BY DEF Spool, SpoolAgain, BodyEnds
<1>2. CASE UploadRefused(u)
  BY <1>1, <1>2, EndsStep
<1>3. CASE ~UploadRefused(u)
  <2>1. /\ upc \in [Uploader -> {"idle", "used", "spool", "insert"}]
        /\ limit \in [Uploader -> Nat] /\ spooled \in [Uploader -> Nat]
        /\ limit[u] \in Nat /\ spooled[u] \in Nat /\ spooled[u] <= limit[u]
        /\ quota[u] # None => limit[u] + SizeSum(Found(u)) <= quota[u]
    BY <1>1 DEF QuotaIInv, QuotasShape, RoomLeft, Fits, Metered
  <2>2. \E n \in Nat, next \in {"spool", "insert"} :
          /\ n <= limit[u] /\ spooled' = [spooled EXCEPT ![u] = n]
          /\ upc' = [upc EXCEPT ![u] = next] /\ UNCHANGED <<limit, quota, newer>>
    <3>1. CASE \E m \in Piece : Spool(u, m)
      <4>1. PICK m \in Piece : Spool(u, m)
        BY <3>1
      <4>2. /\ ~(m > limit[u] - spooled[u]) /\ UNCHANGED <<upc, quota, limit, newer>>
            /\ spooled' = [spooled EXCEPT ![u] = spooled[u] + m] /\ m \in Nat
        BY <1>3, <2>1, <4>1, QuotasAssumption DEF Spool
      <4>3. spooled[u] + m \in Nat /\ spooled[u] + m <= limit[u]
        BY <2>1, <4>2
      <4>4. upc' = [upc EXCEPT ![u] = "spool"]
        BY <1>1, <2>1, <4>2
      <4>5. QED BY <4>2, <4>3, <4>4
    <3>2. CASE SpoolAgain(u)
      <4>1. spooled' = [spooled EXCEPT ![u] = 0] /\ UNCHANGED <<upc, quota, limit, newer>>
        BY <3>2 DEF SpoolAgain
      <4>2. upc' = [upc EXCEPT ![u] = "spool"] /\ 0 <= limit[u]
        BY <1>1, <2>1, <4>1
      <4>3. QED BY <4>1, <4>2
    <3>3. CASE BodyEnds(u)
      <4>1. PICK n \in 1..spooled[u] :
              /\ spooled' = [spooled EXCEPT ![u] = n]
              /\ upc' = [upc EXCEPT ![u] = "insert"] /\ UNCHANGED <<quota, limit, newer>>
        BY <1>3, <3>3 DEF BodyEnds, UGoto
      <4>2. n \in Nat /\ n <= limit[u]
        BY <2>1
      <4>3. QED BY <4>1, <4>2
    <3>4. QED BY <3>1, <3>2, <3>3
  <2>3. limit' = [limit EXCEPT ![u] = limit[u]]
    BY <2>1, <2>2
  <2>4. QED BY <1>1, <2>1, <2>2, <2>3, GoesOnStep
<1>4. QED BY <1>2, <1>3

\* A file is stored where there is none, of the size of what was taken in.
LEMMA InsertMakes ==
  ASSUME NEW u \in Uploader, InsertFile(u)
  PROVE  /\ upc[u] = "insert" /\ UNCHANGED user
         /\ \/ UNCHANGED sizes /\ UploadRefused(u)
            \/ /\ UploadEnds(u)
               /\ \E f \in 1..Files :
                    /\ sizes[f] = 0 /\ sizes' = [sizes EXCEPT ![f] = spooled[u]]
                    /\ newer' = [v \in Uploader |->
                                   IF v # u /\ Metered(v) THEN newer[v] \cup {f} ELSE {}]
BY DEF InsertFile

\* For the other uploads the new file is newer than what they found.
LEMMA QuotaInsertStep ==
  ASSUME QuotaIInv, NEW u \in Uploader, InsertFile(u)
  PROVE  QuotaIInv'
<1>1. CASE UNCHANGED sizes /\ UploadRefused(u)
  BY <1>1, InsertMakes, EndsStep
<1>2. CASE ~(UNCHANGED sizes /\ UploadRefused(u))
  <2>1. PICK f \in 1..Files :
          /\ sizes[f] = 0 /\ sizes' = [sizes EXCEPT ![f] = spooled[u]]
          /\ newer' = [v \in Uploader |->
                         IF v # u /\ Metered(v) THEN newer[v] \cup {f} ELSE {}]
    BY <1>2, InsertMakes
  <2>2. /\ upc' = [upc EXCEPT ![u] = "idle"] /\ quota' = [quota EXCEPT ![u] = None]
        /\ limit' = [limit EXCEPT ![u] = 0] /\ spooled' = [spooled EXCEPT ![u] = 0]
        /\ UNCHANGED user /\ QuotasShape
    BY <1>2, InsertMakes DEF UploadEnds, UGoto, QuotaIInv
  <2>3. newer' \in [Uploader -> SUBSET (1..Files)]
    BY <2>1, <2>2 DEF QuotasShape
  <2>4. QuotasShape'
    BY <2>1, <2>2, <2>3 DEF QuotasShape
  <2>5. Fits(u)'
    <3>1. upc'[u] = "idle" /\ spooled'[u] = 0 /\ limit'[u] = 0 /\ newer'[u] = {}
      BY <2>1, <2>2 DEF QuotasShape
    <3>2. QED BY <3>1 DEF Fits, Metered
  <2>6. ASSUME NEW v \in Uploader, v # u PROVE Fits(v)'
    <3>1. /\ upc'[v] = upc[v] /\ quota'[v] = quota[v] /\ limit'[v] = limit[v]
          /\ spooled'[v] = spooled[v]
          /\ newer'[v] = IF Metered(v) THEN newer[v] \cup {f} ELSE {}
      BY <2>1, <2>2, <2>6 DEF QuotasShape
    <3>2. ASSUME Metered(v)
          PROVE  SizeSum(Found(v))' \in Nat /\ SizeSum(Found(v))' <= SizeSum(Found(v))
      <4>1. Found(v)' = Found(v)
        BY <2>1, <2>2, <3>1, <3>2 DEF Found, QuotasShape
      <4>2. SizeSum(Found(v))' = SizeSum(Found(v))
        BY <4>1 DEF SizeSum, MapThenSumSet, MapThenFoldSet
      <4>3. PICK a \in Nat : a = SizeSum(Found(v))
        BY <2>2, FoundSizes
      <4>4. a <= a
        OBVIOUS
      <4>5. QED BY <4>2, <4>3, <4>4
    <3>3. newer[v] = {} => newer'[v] = {} \/ Metered(v)
      BY <3>1
    <3>4. QED BY <3>1, <3>2, <3>3, FitsStill
  <2>7. QED BY <2>4, <2>5, <2>6 DEF QuotaIInv, RoomLeft
<1>3. QED BY <1>1, <1>2

\* Every step keeps the invariant.
LEMMA QuotaStep == QuotaIInv /\ [QuotaNext]_quotavars => QuotaIInv'
<1> SUFFICES ASSUME QuotaIInv, [QuotaNext]_quotavars PROVE QuotaIInv'
  OBVIOUS
<1>1. CASE UNCHANGED quotavars
  <2>1. UNCHANGED <<sizes, upc, user, quota, limit, spooled, newer>>
    BY <1>1 DEF quotavars
  <2>2. QuotasShape'
    BY <2>1 DEF QuotaIInv, QuotasShape
  <2>3. ASSUME NEW u \in Uploader PROVE Fits(u)'
    <3>1. SizeSum(Found(u))' \in Nat /\ SizeSum(Found(u))' <= SizeSum(Found(u))
      BY <2>1, SameFiles DEF QuotaIInv
    <3>2. QED BY <2>1, <3>1, FitsStill
  <2>4. QED BY <2>2, <2>3 DEF QuotaIInv, RoomLeft
<1>2. QED BY <1>1, LimitsStep, UsedStep, BodyStep, QuotaInsertStep, DeleteStep DEF QuotaNext

\* The upload whose file it is has left room for it.
LEMMA QuotaKeptStep == QuotaIInv /\ [QuotaNext]_quotavars => WithinQuota
<1> DEFINE Room(u) == [f \in 1..Files |-> IF f \in newer[u] THEN 0 ELSE sizes'[f]]
<1> SUFFICES ASSUME QuotaIInv, [QuotaNext]_quotavars, NEW u \in Uploader,
                    upc[u] = "insert", upc'[u] = "idle", sizes' # sizes, quota[u] # None
             PROVE  SizeSum(Room(u)) <= quota[u]
  BY DEF WithinQuota
<1>1. \E v \in Uploader : InsertFile(v)
  BY DEF QuotaNext, quotavars, ReadLimits, ReadUsed, Spool, SpoolAgain, BodyEnds, DeleteFile
<1>2. PICK v \in Uploader : InsertFile(v)
  BY <1>1
<1>3. v = u
  BY <1>2 DEF InsertFile, UploadRefused, UploadEnds, UGoto, QuotaIInv, QuotasShape
<1>4. PICK f \in 1..Files : sizes[f] = 0 /\ sizes' = [sizes EXCEPT ![f] = spooled[u]]
  BY <1>2, <1>3, InsertMakes
<1>5. PICK n \in Nat : n <= spooled[u] /\ Room(u) = [Found(u) EXCEPT ![f] = n]
  <2> DEFINE n == IF f \in newer[u] THEN 0 ELSE spooled[u]
  <2>1. n \in Nat /\ n <= spooled[u]
    BY DEF QuotaIInv, QuotasShape
  <2>2. Room(u) = [Found(u) EXCEPT ![f] = n]
    BY <1>4 DEF Found, QuotaIInv, QuotasShape
  <2>3. QED BY <2>1, <2>2
<1>6. /\ limit[u] + SizeSum(Found(u)) <= quota[u] /\ spooled[u] <= limit[u]
      /\ limit[u] \in Nat /\ spooled[u] \in Nat /\ quota[u] \in Nat
  BY QuotasAssumption DEF QuotaIInv, QuotasShape, RoomLeft, Fits, Metered
<1>7. Found(u) \in [1..Files -> Nat] /\ Found(u)[f] = 0
  BY <1>4, FoundSizes DEF QuotaIInv, Found
<1>8. PICK a \in Nat, b \in Nat :
        a = SizeSum(Found(u)) /\ b = SizeSum(Room(u)) /\ b + 0 = a + n
  <2>1. PICK g, h : g = Found(u) /\ h = Room(u)
    OBVIOUS
  <2>2. g \in [1..Files -> Nat] /\ g[f] = 0 /\ h = [g EXCEPT ![f] = n]
    BY <1>5, <1>7, <2>1, Zenon
  <2>3. h \in [1..Files -> Nat] /\ h[f] = n /\ DifferAt(f, g, h)
    BY <2>2, SizeSet
  <2>4. SizeSum(g) \in Nat /\ SizeSum(h) \in Nat /\ SizeSum(h) + 0 = SizeSum(g) + n
    <3>1. /\ SizeSum(g) \in Nat /\ SizeSum(h) \in Nat
          /\ SizeSum(h) + g[f] = SizeSum(g) + h[f]
      BY <2>2, <2>3, SizesDiffer
    <3>2. QED BY <2>2, <2>3, <3>1, Zenon
  <2>5. QED BY <2>1, <2>4, Zenon
<1>9. PICK l \in Nat, q \in Nat, m \in Nat :
        l = limit[u] /\ q = quota[u] /\ m = spooled[u] /\ l + a <= q /\ m <= l /\ n <= m
  BY <1>5, <1>6, <1>8
<1>10. b <= q
  BY <1>8, <1>9
<1>11. QED BY <1>8, <1>9, <1>10

-----------------------------------------------------------------------------
(***************************************************************************)
(* Quotas: no file is larger than some cap that its user has had.          *)
(***************************************************************************)
\* An upload takes in what some cap allows, and so does the file it leaves.
Capped(n) == n > 0 => \E most \in FileCap : n <= most
CapsFit ==
  /\ \A u \in Uploader : Capped(limit[u])
  /\ \A f \in 1..Files : Capped(sizes[f])

\* What is no larger than something capped is capped.
LEMMA CappedBelow ==
  ASSUME NEW n \in Nat, NEW m \in 0..n, Capped(n)
  PROVE  Capped(m)
<1>1. ASSUME m > 0 PROVE \E most \in FileCap : m <= most
  <2>1. n > 0
    BY <1>1
  <2>2. PICK most \in FileCap : n <= most
    BY <2>1 DEF Capped
  <2>3. most \in Nat
    BY QuotasAssumption
  <2>4. QED BY <2>2, <2>3
<1>2. QED BY <1>1 DEF Capped

\* A step changes one limit at most, to a cap or to less than it was.
LEMMA LimitFalls ==
  ASSUME QuotaIInv, NEW u \in Uploader,
         ReadUsed(u) \/ (\E n \in Piece : Spool(u, n)) \/ SpoolAgain(u) \/ BodyEnds(u)
           \/ InsertFile(u)
  PROVE  \E n \in 0..limit[u] : limit' = [limit EXCEPT ![u] = n]
<1>1. limit \in [Uploader -> Nat] /\ limit[u] \in Nat /\ limit = [limit EXCEPT ![u] = limit[u]]
  BY DEF QuotaIInv, QuotasShape
<1>2. CASE UploadEnds(u)
  <2>1. limit' = [limit EXCEPT ![u] = 0] /\ 0 \in 0..limit[u]
    BY <1>1, <1>2 DEF UploadEnds
  <2>2. QED BY <2>1
<1>3. CASE ~UploadEnds(u) /\ UNCHANGED limit
  <2>1. limit[u] \in 0..limit[u]
    BY <1>1
  <2>2. QED BY <1>1, <1>3, <2>1
<1>4. CASE ~UploadEnds(u) /\ ~UNCHANGED limit
  <2> DEFINE left == quota[u] - storage_used
  <2>1. ReadUsed(u)
    BY <1>4 DEF Spool, SpoolAgain, BodyEnds, InsertFile, UploadRefused
  <2>2. /\ limit' = [limit EXCEPT ![u] = Min({limit[u], left})] /\ quota[u] # None
        /\ ~(storage_used + 1 > quota[u])
    BY <1>1, <1>4, <2>1 DEF ReadUsed
  <2>3. left \in Nat
    <3>1. storage_used \in Nat /\ quota[u] \in Nat
      BY <2>2, SizesSum, QuotasAssumption DEF QuotaIInv, QuotasShape, storage_used
    <3>2. QED BY <2>2, <3>1
  <2> HIDE DEF left
  <2>4. {limit[u], left} \in SUBSET Nat
    BY <1>1, <2>3
  <2>5. Min({limit[u], left}) \in Nat /\ Min({limit[u], left}) <= limit[u]
    BY <2>4, MinIsLeast
  <2>6. Min({limit[u], left}) \in 0..limit[u]
    BY <1>1, <2>5
  <2>7. QED BY <2>2, <2>6 DEF left
<1>5. QED BY <1>2, <1>3, <1>4

\* Limits stay capped, and with them the files.
LEMMA CapsStep == QuotaIInv /\ CapsFit /\ [QuotaNext]_quotavars => CapsFit'
<1> SUFFICES ASSUME QuotaIInv, CapsFit, [QuotaNext]_quotavars PROVE CapsFit'
  OBVIOUS
<1>1. limit \in [Uploader -> Nat] /\ sizes \in [1..Files -> Nat] /\ spooled \in [Uploader -> Nat]
  BY DEF QuotaIInv, QuotasShape
<1>2. ASSUME NEW u \in Uploader, ReadLimits(u) PROVE CapsFit'
  <2>1. PICK most \in FileCap : \E n \in {most, Min({most, AnonCap})} :
          limit' = [limit EXCEPT ![u] = n] /\ UNCHANGED sizes
    BY <1>2 DEF ReadLimits
  <2>2. PICK n \in {most, Min({most, AnonCap})} :
          limit' = [limit EXCEPT ![u] = n] /\ UNCHANGED sizes
    BY <2>1
  <2>3. n \in Nat /\ n <= most
    <3>1. {most, AnonCap} \in SUBSET Nat /\ most \in Nat
      BY QuotasAssumption
    <3>2. Min({most, AnonCap}) \in Nat /\ Min({most, AnonCap}) <= most
      BY <3>1, MinIsLeast
    <3>3. QED BY <3>1, <3>2
  <2>4. Capped(n)
    BY <2>3 DEF Capped
  <2>5. QED BY <1>1, <2>2, <2>4 DEF CapsFit
<1>3. ASSUME NEW u \in Uploader,
             ReadUsed(u) \/ (\E n \in Piece : Spool(u, n)) \/ SpoolAgain(u) \/ BodyEnds(u)
               \/ InsertFile(u)
      PROVE  CapsFit'
  <2>1. PICK n \in 0..limit[u] : limit' = [limit EXCEPT ![u] = n]
    BY <1>3, LimitFalls
  <2>2. limit[u] \in Nat /\ Capped(limit[u])
    BY <1>1 DEF CapsFit
  <2>3. Capped(n)
    BY <2>1, <2>2, CappedBelow
  <2>4. \A v \in Uploader : Capped(limit'[v])
    BY <1>1, <2>1, <2>3 DEF CapsFit
  <2>5. spooled[u] \in 0..limit[u]
    BY <1>1 DEF QuotaIInv, RoomLeft, Fits
  <2>6. Capped(spooled[u])
    BY <2>2, <2>5, CappedBelow
  <2>7. UNCHANGED sizes \/ \E f \in 1..Files : sizes' = [sizes EXCEPT ![f] = spooled[u]]
    BY <1>3 DEF ReadUsed, Spool, SpoolAgain, BodyEnds, InsertFile
  <2>8. \A f \in 1..Files : Capped(sizes'[f])
    BY <1>1, <2>6, <2>7 DEF CapsFit
  <2>9. QED BY <2>4, <2>8 DEF CapsFit, Capped
<1>4. ASSUME NEW f \in 1..Files, DeleteFile(f) PROVE CapsFit'
  <2>1. sizes' = [sizes EXCEPT ![f] = 0] /\ UNCHANGED limit /\ Capped(0)
    BY <1>4 DEF DeleteFile, Capped
  <2>2. QED BY <1>1, <2>1 DEF CapsFit
<1>5. CASE UNCHANGED quotavars
  BY <1>5 DEF quotavars, CapsFit, Capped
<1>6. QED BY <1>2, <1>3, <1>4, <1>5 DEF QuotaNext

-----------------------------------------------------------------------------
\* What an upload may still take in, with what it found of its user's files, is within the
\* quota that it has read, whatever is stored and deleted meanwhile.
THEOREM QuotaInductive == QuotaSpec => []QuotaIInv
BY QuotaInitial, QuotaStep, PTL DEF QuotaSpec

\* No upload stores more than the quota leaves beside what it found, whatever the sizes, the
\* caps, the number of files and of uploads, and however these overlap.
THEOREM QuotasKept == QuotaSpec => QuotaKept
BY QuotaInductive, QuotaKeptStep, PTL DEF QuotaSpec, QuotaKept

\* A file of a user is no larger than some cap on files that the user has had
\* (effective_limits, spool_file_field), however the caps change meanwhile.
THEOREM QuotasTyped == QuotaSpec => []QuotasTypeOK
<1>1. QuotaInit => CapsFit
  BY DEF QuotaInit, CapsFit, Capped
<1>2. QuotaSpec => []CapsFit
  BY <1>1, QuotaInductive, CapsStep, PTL DEF QuotaSpec
<1>3. QuotaIInv /\ CapsFit => QuotasTypeOK
  <2> SUFFICES ASSUME QuotaIInv, CapsFit PROVE QuotasTypeOK
    OBVIOUS
  <2>1. \A u \in Uploader : spooled[u] \in 0..limit[u]
    BY DEF QuotaIInv, QuotasShape, RoomLeft, Fits
  <2>2. QED BY <2>1 DEF QuotaIInv, QuotasShape, CapsFit, Capped, QuotasTypeOK
<1>4. QED BY <1>2, <1>3, QuotaInductive, PTL

-----------------------------------------------------------------------------
(***************************************************************************)
(* PasswordReset: the inductive invariant.                                 *)
(***************************************************************************)
LinkRow == [user : Holder, used : BOOLEAN, expired : BOOLEAN]
ResetLocal == [link : Link, fresh : BOOLEAN, user : Holder \cup {None},
               gone : SUBSET Link, seen : SUBSET Link]
InWriting == {"user", "delete", "commit"}

LinksShape ==
  /\ resets \in [Link -> LinkRow \cup {None}]
  /\ mailing \subseteq Link /\ drawn \subseteq Link /\ Issued \subseteq drawn
  /\ spent \in [Link -> [user : Holder, seen : SUBSET Link] \cup {None}]
  /\ \A k \in Link : spent[k] # None => spent[k].seen \subseteq drawn

\* A transaction that writes holds the row of its link, which is nobody else's then and
\* which it will be the first to use.
WritersShape ==
  /\ xpc \in [Poster -> {"idle", "use"} \cup InWriting]
  /\ reset \in [Poster -> ResetLocal \cup {None}]
  /\ \A x \in Poster :
       /\ xpc[x] # "idle" => reset[x] \in ResetLocal
       /\ xpc[x] \in {"use", "user", "delete"} => reset[x].gone = {}
       /\ xpc[x] \in InWriting =>
            /\ reset[x].user \in Holder /\ resets[reset[x].link] # None
            /\ resets[reset[x].link].user = reset[x].user
            /\ resets[reset[x].link].used = FALSE
  /\ \A x, y \in Poster : x # y => Writing(x) \cap Writing(y) = {}

\* Of the links there had been when the DELETE of a transaction ran, the user has none
\* left but those that it writes.
DeletesAll ==
  \A x \in Poster : xpc[x] = "commit" =>
    /\ reset[x].seen \subseteq drawn
    /\ \A l \in reset[x].seen : resets[l] # None /\ resets[l].user = reset[x].user
         => l \in Writing(x)

\* Of the links there had been when a password was changed, the user has none left that
\* is not used.
SpendsAll ==
  \A k, l \in Link :
    spent[k] # None /\ l \in spent[k].seen /\ resets[l] # None /\ resets[l].user = spent[k].user
      => resets[l].used = TRUE

ResetIInv == LinksShape /\ WritersShape /\ DeletesAll /\ SpendsAll

-----------------------------------------------------------------------------
\* At first there is no link and no transaction.
LEMMA ResetInitial == ResetInit => ResetIInv
BY DEF ResetInit, ResetIInv, LinksShape, WritersShape, DeletesAll, SpendsAll, Issued, Writing,
       InWriting

\* A transaction goes on, or ends and leaves the links as they are.
LEMMA PosterStep ==
  ASSUME ResetIInv, NEW x \in Poster, NEW next \in {"idle", "use"} \cup InWriting,
         NEW local \in ResetLocal \cup {None},
         ResetGoto(x, next), reset' = [reset EXCEPT ![x] = local],
         UNCHANGED <<resets, mailing, drawn, spent>>,
         next # "idle" => local \in ResetLocal,
         next \in {"use", "user", "delete"} => local.gone = {},
         next \in InWriting =>
           /\ local.user \in Holder /\ resets[local.link] # None
           /\ resets[local.link].user = local.user /\ resets[local.link].used = FALSE
           /\ \A y \in Poster \ {x} : ({local.link} \cup local.gone) \cap Writing(y) = {},
         next = "commit" =>
           /\ local.seen \subseteq drawn
           /\ \A l \in local.seen : resets[l] # None /\ resets[l].user = local.user
                => l \in {local.link} \cup local.gone
  PROVE  ResetIInv'
<1>1. /\ xpc' \in [Poster -> {"idle", "use"} \cup InWriting] /\ xpc'[x] = next
      /\ reset' \in [Poster -> ResetLocal \cup {None}] /\ reset'[x] = local
      /\ \A y \in Poster \ {x} : xpc'[y] = xpc[y] /\ reset'[y] = reset[y]
  BY DEF ResetIInv, WritersShape, ResetGoto
<1>2. \A y \in Poster \ {x} : Writing(y)' = Writing(y)
  BY <1>1 DEF Writing
<1>3. Writing(x)' = IF next \in InWriting THEN {local.link} \cup local.gone ELSE {}
  BY <1>1 DEF Writing, InWriting
<1>4. LinksShape' /\ SpendsAll'
  BY DEF ResetIInv, LinksShape, SpendsAll, Issued
<1>5. WritersShape'
  <2>1. \A y, z \in Poster : y # z => Writing(y)' \cap Writing(z)' = {}
    <3> SUFFICES ASSUME NEW y \in Poster, NEW z \in Poster, y # z
                 PROVE  Writing(y)' \cap Writing(z)' = {}
      OBVIOUS
    <3>1. CASE y = x
      BY <1>2, <1>3, <3>1
    <3>2. CASE z = x
      BY <1>2, <1>3, <3>2
    <3>3. CASE y # x /\ z # x
      BY <1>2, <3>3 DEF ResetIInv, WritersShape
    <3>4. QED BY <3>1, <3>2, <3>3
  <2>2. ASSUME NEW y \in Poster
        PROVE  /\ xpc'[y] # "idle" => reset'[y] \in ResetLocal
               /\ xpc'[y] \in {"use", "user", "delete"} => reset'[y].gone = {}
               /\ xpc'[y] \in InWriting =>
                    /\ reset'[y].user \in Holder /\ resets'[reset'[y].link] # None
                    /\ resets'[reset'[y].link].user = reset'[y].user
                    /\ resets'[reset'[y].link].used = FALSE
    <3>1. CASE y = x
      BY <1>1, <3>1
    <3>2. CASE y # x
      BY <1>1, <3>2 DEF ResetIInv, WritersShape
    <3>3. QED BY <3>1, <3>2
  <2>3. QED BY <1>1, <2>1, <2>2 DEF WritersShape
<1>6. DeletesAll'
  <2> SUFFICES ASSUME NEW y \in Poster, xpc'[y] = "commit"
               PROVE  /\ reset'[y].seen \subseteq drawn
                      /\ \A l \in reset'[y].seen :
                           resets[l] # None /\ resets[l].user = reset'[y].user
                             => l \in Writing(y)'
    BY DEF DeletesAll
  <2>1. CASE y = x
    BY <1>1, <1>3, <2>1 DEF InWriting
  <2>2. CASE y # x
    BY <1>1, <1>2, <2>2 DEF ResetIInv, DeletesAll
  <2>3. QED BY <2>1, <2>2
<1>7. QED BY <1>4, <1>5, <1>6 DEF ResetIInv

\* A link is issued, or one that nobody writes is removed, or it expires.
LEMMA LinkStep ==
  ASSUME ResetIInv, NEW l \in Link, NEW row \in LinkRow \cup {None},
         resets' = [resets EXCEPT ![l] = row], mailing' \subseteq Link,
         UNCHANGED <<spent, xpc, reset>>,
         \/ l \notin drawn /\ drawn' = drawn \cup {l}
         \/ ~Busy(l) /\ row = None /\ drawn' = drawn
         \/ /\ resets[l] # None /\ row # None /\ drawn' = drawn
            /\ row.user = resets[l].user /\ row.used = resets[l].used
  PROVE  ResetIInv'
<1>1. /\ resets' \in [Link -> LinkRow \cup {None}] /\ resets'[l] = row
      /\ \A k \in Link \ {l} : resets'[k] = resets[k]
      /\ l \in drawn \/ resets[l] = None
  BY DEF ResetIInv, LinksShape, Issued
<1>2. LinksShape'
  BY <1>1 DEF ResetIInv, LinksShape, Issued
<1>3. \A y \in Poster : Writing(y)' = Writing(y)
  BY DEF Writing
<1>4. \A y \in Poster : xpc[y] \in InWriting =>
        /\ reset[y].link \in Link /\ resets'[reset[y].link] # None
        /\ resets'[reset[y].link].user = reset[y].user
        /\ resets'[reset[y].link].used = FALSE
  <2> SUFFICES ASSUME NEW y \in Poster, xpc[y] \in InWriting
               PROVE  /\ reset[y].link \in Link /\ resets'[reset[y].link] # None
                      /\ resets'[reset[y].link].user = reset[y].user
                      /\ resets'[reset[y].link].used = FALSE
    OBVIOUS
  <2>1. /\ reset[y] \in ResetLocal /\ resets[reset[y].link] # None
        /\ resets[reset[y].link].user = reset[y].user
        /\ resets[reset[y].link].used = FALSE
    BY DEF ResetIInv, WritersShape, InWriting
  <2>2. reset[y].link \in Link
    BY <2>1 DEF ResetLocal
  <2>3. reset[y].link = l => Busy(l)
    BY DEF Busy, Writing, InWriting
  <2>4. CASE reset[y].link = l
    BY <1>1, <2>1, <2>2, <2>3, <2>4
  <2>5. CASE reset[y].link # l
    BY <1>1, <2>1, <2>2, <2>5
  <2>6. QED BY <2>4, <2>5
<1>5. WritersShape'
  BY <1>3, <1>4 DEF ResetIInv, WritersShape
<1>6. DeletesAll'
  <2> SUFFICES ASSUME NEW y \in Poster, xpc[y] = "commit"
               PROVE  /\ reset[y].seen \subseteq drawn'
                      /\ \A k \in reset[y].seen :
                           resets'[k] # None /\ resets'[k].user = reset[y].user
                             => k \in Writing(y)'
    BY DEF DeletesAll
  <2>1. /\ reset[y].seen \subseteq drawn /\ reset[y].seen \subseteq Link
        /\ \A k \in reset[y].seen : resets[k] # None /\ resets[k].user = reset[y].user
             => k \in Writing(y)
    BY DEF ResetIInv, DeletesAll, LinksShape
  <2>2. QED BY <1>1, <1>3, <2>1
<1>7. SpendsAll'
  <2> SUFFICES ASSUME NEW k \in Link, NEW m \in Link, spent[k] # None, m \in spent[k].seen,
                      resets'[m] # None, resets'[m].user = spent[k].user
               PROVE  resets'[m].used = TRUE
    BY DEF SpendsAll
  <2>1. m \in drawn
    BY DEF ResetIInv, LinksShape
  <2>2. QED BY <1>1, <2>1 DEF ResetIInv, SpendsAll
<1>8. QED BY <1>2, <1>5, <1>6, <1>7 DEF ResetIInv

\* What a commit finds and what it makes of the links.
LEMMA CommitMakes ==
  ASSUME ResetIInv, NEW x \in Poster, CommitReset(x)
  PROVE  LET link == reset[x].link
             gone == reset[x].gone
         IN /\ reset[x] \in ResetLocal /\ link \in Link /\ gone \subseteq Link
            /\ Writing(x) = {link} \cup gone
            /\ resets' \in [Link -> LinkRow \cup {None}]
            /\ \A l \in Link : l \notin Writing(x) => resets'[l] = resets[l]
            /\ \A l \in Link : resets'[l] # None =>
                 resets[l] # None /\ resets'[l].user = resets[l].user /\ l \notin gone
            /\ \A l \in Link : resets'[l] # None /\ (l = link \/ resets[l].used = TRUE)
                 => resets'[l].used = TRUE
            /\ spent' = [spent EXCEPT ![link] = [user |-> reset[x].user, seen |-> reset[x].seen]]
            /\ reset[x].user \in Holder /\ reset[x].seen \subseteq drawn
            /\ UNCHANGED <<mailing, drawn>> /\ ResetEnds(x)
            /\ resets[link] # None /\ resets[link].user = reset[x].user
            /\ resets[link].used = FALSE
<1> DEFINE link == reset[x].link
           gone == reset[x].gone
<1>1. /\ xpc[x] = "commit" /\ UNCHANGED <<mailing, drawn>> /\ ResetEnds(x)
      /\ resets' = [l \in Link |-> IF l \in gone THEN None
                                   ELSE IF l = link THEN [resets[l] EXCEPT !.used = TRUE]
                                   ELSE resets[l]]
      /\ spent' = [spent EXCEPT ![link] = [user |-> reset[x].user, seen |-> reset[x].seen]]
  BY DEF CommitReset
<1>2. /\ reset[x] \in ResetLocal /\ resets[link] # None /\ resets[link].user = reset[x].user
      /\ reset[x].user \in Holder /\ resets[link].used = FALSE
  BY <1>1 DEF ResetIInv, WritersShape, InWriting
<1>3. link \in Link /\ gone \subseteq Link /\ Writing(x) = {link} \cup gone
  BY <1>1, <1>2 DEF ResetLocal, Writing
<1>4. \A l \in Link : resets[l] \in LinkRow \cup {None}
  BY DEF ResetIInv, LinksShape
<1> DEFINE row == [resets[link] EXCEPT !.used = TRUE]
<1>5. row \in LinkRow /\ row.user = resets[link].user /\ row.used = TRUE
  <2>1. resets[link] \in LinkRow
    BY <1>2, <1>3, <1>4
  <2>2. QED BY <2>1 DEF LinkRow
<1>6. \A l \in Link : resets'[l] = IF l \in gone THEN None ELSE IF l = link THEN row ELSE resets[l]
  BY <1>1
<1> HIDE DEF row
<1>7. resets' \in [Link -> LinkRow \cup {None}]
  <2>1. DOMAIN resets' = Link /\ resets' = [l \in Link |-> resets'[l]]
    BY <1>1
  <2>2. \A l \in Link : resets'[l] \in LinkRow \cup {None}
    BY <1>4, <1>5, <1>6
  <2>3. QED BY <2>1, <2>2
<1>8. reset[x].seen \subseteq drawn
  BY <1>1 DEF ResetIInv, DeletesAll
<1>9. QED BY <1>1, <1>2, <1>3, <1>5, <1>6, <1>7, <1>8

\* A commit takes the user's links but the one that it marks as used.
LEMMA CommitStep ==
  ASSUME ResetIInv, NEW x \in Poster, CommitReset(x)
  PROVE  ResetIInv'
<1> DEFINE link == reset[x].link
           gone == reset[x].gone
<1>1. /\ reset[x] \in ResetLocal /\ link \in Link /\ gone \subseteq Link
      /\ Writing(x) = {link} \cup gone
      /\ resets' \in [Link -> LinkRow \cup {None}]
      /\ \A l \in Link : l \notin Writing(x) => resets'[l] = resets[l]
      /\ \A l \in Link : resets'[l] # None =>
           resets[l] # None /\ resets'[l].user = resets[l].user /\ l \notin gone
      /\ \A l \in Link : resets'[l] # None /\ (l = link \/ resets[l].used = TRUE)
           => resets'[l].used = TRUE
      /\ spent' = [spent EXCEPT ![link] = [user |-> reset[x].user, seen |-> reset[x].seen]]
      /\ reset[x].user \in Holder /\ reset[x].seen \subseteq drawn
      /\ UNCHANGED <<mailing, drawn>> /\ ResetEnds(x) /\ xpc[x] = "commit"
  BY CommitMakes DEF CommitReset
<1> DEFINE entry == [user |-> reset[x].user, seen |-> reset[x].seen]
<1>2. /\ spent' \in [Link -> [user : Holder, seen : SUBSET Link] \cup {None}]
      /\ spent'[link] = entry /\ \A k \in Link \ {link} : spent'[k] = spent[k]
  <2>1. entry \in [user : Holder, seen : SUBSET Link]
    BY <1>1 DEF ResetIInv, LinksShape
  <2>2. QED BY <1>1, <2>1 DEF ResetIInv, LinksShape
<1>3. entry.user = reset[x].user /\ entry.seen = reset[x].seen
  OBVIOUS
<1> HIDE DEF entry
<1>4. /\ xpc' \in [Poster -> {"idle", "use"} \cup InWriting] /\ xpc'[x] = "idle"
      /\ reset' \in [Poster -> ResetLocal \cup {None}]
      /\ \A y \in Poster \ {x} : xpc'[y] = xpc[y] /\ reset'[y] = reset[y]
  BY <1>1 DEF ResetIInv, WritersShape, ResetEnds, ResetGoto
<1>5. Writing(x)' = {} /\ \A y \in Poster \ {x} : Writing(y)' = Writing(y)
  BY <1>4 DEF Writing
<1>6. LinksShape'
  <2>1. Issued' \subseteq Issued
    BY <1>1 DEF Issued
  <2>2. \A k \in Link : spent'[k] # None => spent'[k].seen \subseteq drawn
    BY <1>1, <1>2, <1>3 DEF ResetIInv, LinksShape
  <2>3. QED BY <1>1, <1>2, <2>1, <2>2 DEF ResetIInv, LinksShape
<1>7. WritersShape'
  <2>1. ASSUME NEW y \in Poster, y # x, xpc[y] \in InWriting
        PROVE  resets'[reset[y].link] = resets[reset[y].link]
    <3>1. reset[y].link \in Writing(y) /\ Writing(x) \cap Writing(y) = {}
      BY <2>1 DEF Writing, InWriting, ResetIInv, WritersShape
    <3>2. reset[y].link \in Link
      BY <2>1 DEF ResetIInv, WritersShape, ResetLocal, InWriting
    <3>3. QED BY <1>1, <3>1, <3>2
  <2>2. ASSUME NEW y \in Poster
        PROVE  /\ xpc'[y] # "idle" => reset'[y] \in ResetLocal
               /\ xpc'[y] \in {"use", "user", "delete"} => reset'[y].gone = {}
               /\ xpc'[y] \in InWriting =>
                    /\ reset'[y].user \in Holder /\ resets'[reset'[y].link] # None
                    /\ resets'[reset'[y].link].user = reset'[y].user
                    /\ resets'[reset'[y].link].used = FALSE
    <3>1. CASE y = x
      BY <1>4, <3>1 DEF InWriting
    <3>2. CASE y # x
      BY <1>4, <2>1, <3>2 DEF ResetIInv, WritersShape
    <3>3. QED BY <3>1, <3>2
  <2>3. \A y, z \in Poster : y # z => Writing(y)' \cap Writing(z)' = {}
    BY <1>5 DEF ResetIInv, WritersShape
  <2>4. QED BY <1>4, <2>2, <2>3 DEF WritersShape
<1>8. DeletesAll'
  <2> SUFFICES ASSUME NEW y \in Poster, xpc'[y] = "commit"
               PROVE  /\ reset'[y].seen \subseteq drawn
                      /\ \A l \in reset'[y].seen :
                           resets'[l] # None /\ resets'[l].user = reset'[y].user
                             => l \in Writing(y)'
    BY <1>1 DEF DeletesAll
  <2>1. y # x /\ xpc[y] = "commit" /\ reset'[y] = reset[y] /\ Writing(y)' = Writing(y)
    BY <1>4, <1>5
  <2>2. /\ reset[y].seen \subseteq drawn /\ reset[y].seen \subseteq Link
        /\ \A l \in reset[y].seen : resets[l] # None /\ resets[l].user = reset[y].user
             => l \in Writing(y)
    BY <2>1 DEF ResetIInv, DeletesAll, LinksShape
  <2>3. QED BY <1>1, <2>1, <2>2
<1>9. SpendsAll'
  <2> SUFFICES ASSUME NEW k \in Link, NEW l \in Link, spent'[k] # None, l \in spent'[k].seen,
                      resets'[l] # None, resets'[l].user = spent'[k].user
               PROVE  resets'[l].used = TRUE
    BY DEF SpendsAll
  <2>1. resets[l] # None /\ resets[l].user = spent'[k].user /\ l \notin gone
    BY <1>1
  <2>2. CASE k = link
    <3>1. l \in reset[x].seen /\ resets[l].user = reset[x].user
      BY <1>2, <1>3, <2>1, <2>2
    <3>2. l \in Writing(x)
      BY <1>1, <2>1, <3>1 DEF ResetIInv, DeletesAll
    <3>3. QED BY <1>1, <2>1, <3>2
  <2>3. CASE k # link
    <3>1. resets[l].used = TRUE
      BY <1>2, <2>1, <2>3 DEF ResetIInv, SpendsAll
    <3>2. QED BY <1>1, <3>1
  <2>4. QED BY <2>2, <2>3
<1>10. QED BY <1>6, <1>7, <1>8, <1>9 DEF ResetIInv

\* The statements of a transaction before its commit.
LEMMA StatementStep ==
  ASSUME ResetIInv, NEW x \in Poster,
         BeginReset(x) \/ UseLink(x) \/ SetPassword(x) \/ DeleteOthers(x) \/ RollBack(x)
  PROVE  ResetIInv'
<1>1. reset \in [Poster -> ResetLocal \cup {None}] /\ resets \in [Link -> LinkRow \cup {None}]
  BY DEF ResetIInv, WritersShape, LinksShape
<1>2. CASE ResetEnds(x) /\ UNCHANGED <<resets, mailing, drawn, spent>>
  BY <1>2, PosterStep DEF ResetEnds, InWriting
<1>3. CASE BeginReset(x)
  <2>1. PICK l \in Issued :
          reset' = [reset EXCEPT ![x] = [link |-> l, fresh |-> ~resets[l].expired, user |-> None,
                                         gone |-> {}, seen |-> {}]]
    BY <1>3 DEF BeginReset
  <2> DEFINE local == [link |-> l, fresh |-> ~resets[l].expired, user |-> None,
                       gone |-> {}, seen |-> {}]
  <2>2. local \in ResetLocal /\ local.gone = {}
    BY <1>1 DEF ResetLocal, LinkRow, Issued
  <2> HIDE DEF local
  <2>3. reset' = [reset EXCEPT ![x] = local]
    BY <2>1 DEF local
  <2>4. QED BY <1>3, <2>2, <2>3, PosterStep DEF BeginReset, InWriting
<1>4. CASE UseLink(x) /\ ~ResetEnds(x)
  <2> DEFINE l == reset[x].link
             local == [reset[x] EXCEPT !.user = resets[l].user]
  <2>1. /\ xpc[x] = "use" /\ ~Busy(l) /\ resets[l] # None /\ ~resets[l].used
        /\ reset' = [reset EXCEPT ![x].user = resets[l].user] /\ ResetGoto(x, "user")
        /\ UNCHANGED <<resets, mailing, drawn, spent>>
    BY <1>4 DEF UseLink
  <2>2. reset[x] \in ResetLocal /\ reset[x].gone = {} /\ l \in Link
    BY <2>1 DEF ResetIInv, WritersShape, ResetLocal
  <2>3. resets[l].user \in Holder /\ resets[l].used = FALSE
    BY <1>1, <2>1, <2>2 DEF LinkRow
  <2>4. /\ local \in ResetLocal /\ local.gone = {} /\ local.link = l
        /\ local.user = resets[l].user
    BY <2>2, <2>3 DEF ResetLocal
  <2>5. reset' = [reset EXCEPT ![x] = local]
    BY <1>1, <2>1
  <2>6. \A y \in Poster \ {x} : ({l} \cup {}) \cap Writing(y) = {}
    BY <2>1 DEF Busy
  <2> HIDE DEF local, l
  <2>7. QED BY <2>1, <2>3, <2>4, <2>5, <2>6, PosterStep DEF InWriting
<1>5. CASE SetPassword(x)
  <2>1. /\ xpc[x] = "user" /\ ResetGoto(x, "delete")
        /\ UNCHANGED <<resets, mailing, drawn, spent, reset>>
    BY <1>5 DEF SetPassword
  <2>2. /\ reset[x] \in ResetLocal /\ reset[x].gone = {} /\ reset[x].user \in Holder
        /\ resets[reset[x].link] # None /\ resets[reset[x].link].user = reset[x].user
        /\ resets[reset[x].link].used = FALSE
    BY <2>1 DEF ResetIInv, WritersShape, InWriting
  <2>3. \A y \in Poster \ {x} : ({reset[x].link} \cup reset[x].gone) \cap Writing(y) = {}
    BY <2>1 DEF ResetIInv, WritersShape, Writing
  <2>4. reset' = [reset EXCEPT ![x] = reset[x]]
    BY <1>1, <2>1
  <2>5. QED BY <2>1, <2>2, <2>3, <2>4, PosterStep DEF InWriting
<1>6. CASE DeleteOthers(x)
  <2> DEFINE link == reset[x].link
             others == {l \in Issued : resets[l].user = reset[x].user} \ {link}
             local == [reset[x] EXCEPT !.gone = others, !.seen = drawn]
  <2>1. /\ xpc[x] = "delete" /\ ResetGoto(x, "commit") /\ \A l \in others : ~Busy(l)
        /\ reset' = [reset EXCEPT ![x].gone = others, ![x].seen = drawn]
        /\ UNCHANGED <<resets, mailing, drawn, spent>>
    BY <1>6 DEF DeleteOthers
  <2>2. /\ reset[x] \in ResetLocal /\ reset[x].gone = {} /\ reset[x].user \in Holder
        /\ resets[link] # None /\ resets[link].user = reset[x].user
        /\ resets[link].used = FALSE
    BY <2>1 DEF ResetIInv, WritersShape, InWriting
  <2>3. /\ others \subseteq Link /\ drawn \subseteq Link
        /\ \A l \in drawn : resets[l] # None /\ resets[l].user = reset[x].user
             => l \in {link} \cup others
    BY DEF ResetIInv, LinksShape, Issued
  <2>4. \A y \in Poster \ {x} : ({link} \cup others) \cap Writing(y) = {}
    <3>1. \A y \in Poster \ {x} : {link} \cap Writing(y) = {}
      BY <2>1 DEF ResetIInv, WritersShape, Writing
    <3>2. \A y \in Poster \ {x} : others \cap Writing(y) = {}
      BY <2>1 DEF Busy
    <3>3. QED BY <3>1, <3>2
  <2> HIDE DEF others
  <2>5. /\ local \in ResetLocal /\ local.gone = others /\ local.seen = drawn
        /\ local.link = link /\ local.user = reset[x].user
    BY <2>2, <2>3 DEF ResetLocal
  <2>6. reset' = [reset EXCEPT ![x] = local]
    BY <1>1, <2>1
  <2> HIDE DEF local, link
  <2>7. QED BY <2>1, <2>2, <2>3, <2>4, <2>5, <2>6, PosterStep DEF InWriting
<1>7. QED BY <1>2, <1>3, <1>4, <1>5, <1>6 DEF UseLink, RollBack

\* Every step keeps the invariant.
LEMMA ResetStep == ResetIInv /\ [ResetNext]_resetvars => ResetIInv'
<1> SUFFICES ASSUME ResetIInv, [ResetNext]_resetvars PROVE ResetIInv'
  OBVIOUS
<1>1. resets \in [Link -> LinkRow \cup {None}] /\ mailing \subseteq Link
  BY DEF ResetIInv, LinksShape
<1>2. ASSUME IssueLink PROVE ResetIInv'
  <2>1. PICK u \in Holder, l \in Link \ drawn :
          /\ drawn' = drawn \cup {l} /\ mailing' = mailing \cup {l}
          /\ resets' = [resets EXCEPT ![l] = [user |-> u, used |-> FALSE, expired |-> FALSE]]
    BY <1>2 DEF IssueLink
  <2>2. [user |-> u, used |-> FALSE, expired |-> FALSE] \in LinkRow
    BY DEF LinkRow
  <2>3. QED BY <1>1, <1>2, <2>1, <2>2, LinkStep DEF IssueLink
<1>3. ASSUME NEW l \in Link, MailFails(l) PROVE ResetIInv'
  BY <1>1, <1>3, LinkStep DEF MailFails
<1>4. ASSUME NEW l \in Link, LinkExpires(l) PROVE ResetIInv'
  <2> DEFINE row == [resets[l] EXCEPT !.expired = TRUE]
  <2>1. /\ l \in Issued /\ resets' = [resets EXCEPT ![l].expired = TRUE]
        /\ UNCHANGED <<mailing, drawn, spent, xpc, reset>>
    BY <1>4 DEF LinkExpires
  <2>2. /\ row \in LinkRow /\ resets[l] # None
        /\ row.user = resets[l].user /\ row.used = resets[l].used
    BY <1>1, <2>1 DEF LinkRow, Issued
  <2>3. resets' = [resets EXCEPT ![l] = row]
    BY <1>1, <2>1
  <2> HIDE DEF row
  <2>4. row # None
    BY <2>2, ResetNoneAssumption DEF LinkRow
  <2>5. QED BY <1>1, <2>1, <2>2, <2>3, <2>4, LinkStep
<1>5. ASSUME UNCHANGED <<resets, drawn, spent, xpc, reset>>, mailing' \subseteq Link
      PROVE  ResetIInv'
  <2>1. \A y \in Poster : Writing(y)' = Writing(y)
    BY <1>5 DEF Writing
  <2>2. QED
    BY <1>5, <2>1 DEF ResetIInv, LinksShape, WritersShape, DeletesAll, SpendsAll, Issued
<1>6. ASSUME NEW l \in Link, MailSent(l) PROVE ResetIInv'
  BY <1>1, <1>5, <1>6 DEF MailSent
<1>7. ASSUME UNCHANGED resetvars PROVE ResetIInv'
  BY <1>1, <1>5, <1>7 DEF resetvars
<1>8. QED
  BY <1>2, <1>3, <1>4, <1>6, <1>7, StatementStep, CommitStep DEF ResetNext

\* A password is changed by a link that every earlier change has left alone.
LEMMA SupersedesStep == ResetIInv /\ [ResetNext]_resetvars => Supersedes
<1> SUFFICES ASSUME ResetIInv, [ResetNext]_resetvars,
                    NEW l \in Link, NEW k \in Link, spent'[l] # spent[l], spent[k] # None,
                    spent[k].user = spent'[l].user
             PROVE  l \notin spent[k].seen
  BY DEF Supersedes
<1>1. PICK x \in Poster : CommitReset(x)
  BY DEF ResetNext, resetvars, IssueLink, MailSent, MailFails, LinkExpires, BeginReset, UseLink,
         SetPassword, DeleteOthers, RollBack
<1>2. /\ reset[x].link \in Link /\ resets[reset[x].link] # None
      /\ resets[reset[x].link].user = reset[x].user /\ resets[reset[x].link].used = FALSE
      /\ spent' = [spent EXCEPT ![reset[x].link] =
                     [user |-> reset[x].user, seen |-> reset[x].seen]]
  BY <1>1, CommitMakes
<1>3. l = reset[x].link /\ spent'[l].user = reset[x].user
  BY <1>2 DEF ResetIInv, LinksShape
<1>4. QED BY <1>2, <1>3 DEF ResetIInv, SpendsAll

-----------------------------------------------------------------------------
\* Locks keep the links of transactions apart, and a change of a password leaves its user
\* no unused link of those there had been.
THEOREM ResetInductive == ResetSpec => []ResetIInv
BY ResetInitial, ResetStep, PTL DEF ResetSpec

\* No link is written by two transactions, however many there are.
THEOREM ResetTyped == ResetSpec => []ResetTypeOK
<1>1. ResetIInv => ResetTypeOK
  BY DEF ResetIInv, LinksShape, WritersShape, ResetTypeOK, LinkRow, ResetLocal, InWriting
<1>2. QED BY <1>1, ResetInductive, PTL

\* However the transactions of reset_post overlap, no link that was issued before a change
\* of the password changes it again.
THEOREM LinksSuperseded == ResetSpec => ResetSupersedes
BY ResetInductive, SupersedesStep, PTL DEF ResetSpec, ResetSupersedes
=============================================================================
