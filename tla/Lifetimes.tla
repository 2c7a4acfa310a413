----------------------------- MODULE Lifetimes ------------------------------
(***************************************************************************)
(* How long an upload or a paste lives: the lifetime the client asks for,  *)
(* resolved against the limits of the user's role, each of which stands in *)
(* for one of the instance configuration.  Both are edited by the admin,   *)
(* validated each by itself.                                               *)
(***************************************************************************)
EXTENDS Common, Integers

CONSTANT LongestLife   \* a bound on the seconds of a limit

ASSUME LifetimesAssumption == LongestLife \in Nat \ {0}

VARIABLES
  instance,   \* the limits of the instance, and who may ask for "never"
  ownlimits,  \* the user's role: its limits, None where they are NULL
  applied,    \* the limits the last lifetime was resolved against
  lifetime    \* what it came to: "secs" and their number, "never", "refused" or "panic"

lifevars == <<instance, ownlimits, applied, lifetime>>

Secs == 1..LongestLife
Limits(S) == [min : S, default : S, max : S]
Ordered(l) == l.min <= l.default /\ l.default <= l.max

\* InstanceConfig: validate sees to the order.
Instances ==
  {c \in [limits : Limits(Secs), allow_never : BOOLEAN, anonymous_never : BOOLEAN] :
     Ordered(c.limits)}

\* Mutant: the least limit is compared with the greatest.
validateEnds(r) == (\A f \in DOMAIN r : r[f] # None) => r.min <= r.max

\* roles::validate compares the limits if all of them are set.
validate_role(r) == (\A f \in DOMAIN r : r[f] # None) => Ordered(r)

\* db::effective_limits.
effective_limits == [f \in DOMAIN ownlimits |-> IF ownlimits[f] = None THEN instance.limits[f] ELSE ownlimits[f]]

\* InstanceConfig::allow_never
allow_never(authed) == instance.allow_never /\ (authed \/ instance.anonymous_never)

\* What a form, or the body of a request in JSON, says about the lifetime.
Wishes == [from : {"form", "json"}, secs : -1..LongestLife + 1] \cup [from : {"absent", "never", "junk"}]

\* parse_expiry_param and parse_expiry_json: a form says never with 0, JSON with
\* any number that is not positive.
Never(w) ==
  \/ w.from = "never"
  \/ w.from = "form" /\ w.secs = 0
  \/ w.from = "json" /\ w.secs <= 0

Verdict(v) == [is |-> v, secs |-> 0]
SecsOf(n) == [is |-> "secs", secs |-> n]

\* i64::clamp asserts min <= max.
clamp(n, l) ==
  IF l.min > l.max THEN Verdict("panic")
  ELSE SecsOf(IF n < l.min THEN l.min ELSE IF n > l.max THEN l.max ELSE n)

\* ids::clamp_expiry
clamp_expiry(w, l, never_allowed) ==
  CASE w.from = "junk"   -> Verdict("refused")
    [] w.from = "absent" -> SecsOf(l.default)
    [] Never(w)          -> Verdict(IF never_allowed THEN "never" ELSE "refused")
    [] OTHER             -> clamp(w.secs, l)

-----------------------------------------------------------------------------
SetInstance(c) == instance' = c /\ UNCHANGED <<ownlimits, applied, lifetime>>

\* create and update of a role, or another role for the user; a form that does not
\* validate changes nothing.
SetRole(r) == validate_role(r) /\ ownlimits' = r /\ UNCHANGED <<instance, applied, lifetime>>

\* upload_inner and create_paste_inner; an anonymous client has no ownlimits.
Resolve(authed, w) ==
  /\ applied' = IF authed THEN effective_limits ELSE instance.limits
  /\ lifetime' = clamp_expiry(w, applied', allow_never(authed))
  /\ UNCHANGED <<instance, ownlimits>>

LifeInit ==
  /\ instance = [limits |-> [min |-> 1, default |-> 1, max |-> 1],
                 allow_never |-> FALSE, anonymous_never |-> FALSE]
  /\ ownlimits = [min |-> None, default |-> None, max |-> None]
  /\ applied = None /\ lifetime = Verdict("none")

LifeNext ==
  \/ lifetime.is = "none" /\ \E c \in Instances : SetInstance(c)
  \/ lifetime.is = "none" /\ \E r \in Limits(Secs \cup {None}) : SetRole(r)
  \/ \E authed \in BOOLEAN, w \in Wishes : Resolve(authed, w)

LifeSpec == LifeInit /\ [][LifeNext]_lifevars

-----------------------------------------------------------------------------
LifetimesTypeOK ==
  /\ instance \in Instances /\ ownlimits \in Limits(Secs \cup {None})
  /\ applied = None \/ applied \in Limits(Secs)
  /\ lifetime \in {SecsOf(n) : n \in Secs}
                   \cup {Verdict(v) : v \in {"none", "never", "refused", "panic"}}

\* A role that sets all of the limits or none has passed what makes them apply: any
\* lifetime, the default one included, is within them, and "never" is never had
\* without the instance's consent.
LifetimeInLimits ==
  /\ (ownlimits.min = None <=> ownlimits.default = None) /\ (ownlimits.min = None <=> ownlimits.max = None)
     => /\ lifetime.is # "panic"
        /\ lifetime.is = "secs" => lifetime.secs \in applied.min..applied.max
  /\ lifetime.is = "never" => instance.allow_never
=============================================================================
