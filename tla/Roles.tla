-------------------------------- MODULE Roles --------------------------------
(***************************************************************************)
(* Roles, who has one, and the groups of the OpenID provider they are      *)
(* mapped to: the admin's forms next to logins through callback, which     *)
(* fill a role that is still NULL.  Every statement is a step of its own;  *)
(* the foreign keys of users and role_oidc_groups are checked by each.     *)
(***************************************************************************)
EXTENDS Common, Naturals, FiniteSets, FiniteSetsExt

CONSTANTS
  Member,   \* users
  Role,     \* ids of roles in their order, created once each
  Group,    \* groups a token may assert for the one issuer
  Priority, \* priorities of mappings
  Login,    \* handlers of callback
  Post      \* handlers of the admin's forms

ASSUME RolesAssumption == Role \subseteq Nat /\ Priority \subseteq Nat

VARIABLES
  roles,   \* the rows of roles
  past,    \* history: roles that were deleted; an id is never handed out again
  mapping, \* role_oidc_groups: a priority by role and group
  role,    \* users.role_id
  lpc,     \* where each login is
  login,   \* its locals: the user, whether the row read had no role, the groups
           \* asserted, the role picked
  fpc,     \* where each form is
  change   \* its locals

logging == <<lpc, login>>
posting == <<fpc, change>>
tables == <<roles, past, mapping, role>>
rolevars == <<tables, logging, posting>>

(***************************************************************************)
(* apply_group_role, after callback has found, linked or made the user.    *)
(***************************************************************************)
LoginGoto(l, next) == lpc' = [lpc EXCEPT ![l] = next]
LoginEnds(l) == LoginGoto(l, "idle") /\ login' = [login EXCEPT ![l] = None]

\* The user's row is read; nothing is left to do if it has a role, or the token
\* asserts no group.
ReadUser(l) ==
  /\ lpc[l] = "idle"
  /\ \E m \in Member, g \in SUBSET Group \ {{}} :
       /\ role[m] = None
       /\ login' = [login EXCEPT ![l] = [user |-> m, groups |-> g, pick |-> None]]
  /\ LoginGoto(l, "select")
  /\ UNCHANGED tables

\* ORDER BY priority, role_id LIMIT 1.
Best(groups) ==
  LET hits == {x \in Role \X groups : mapping[x] # None}
      low == Min({mapping[x] : x \in hits})
  IN IF hits = {} THEN None ELSE Min({x[1] : x \in {y \in hits : mapping[y] = low}})

SelectMapping(l) ==
  /\ lpc[l] = "select"
  /\ LET best == Best(login[l].groups) IN
       IF best = None THEN LoginEnds(l)
       ELSE LoginGoto(l, "assign") /\ login' = [login EXCEPT ![l].pick = best]
  /\ UNCHANGED tables

\* Mutant: the row read at the start is relied on.
AssignRoleRead(l) ==
  /\ lpc[l] = "assign"
  /\ role' = IF login[l].pick \in roles
             THEN [role EXCEPT ![login[l].user] = login[l].pick] ELSE role
  /\ LoginEnds(l)
  /\ UNCHANGED <<roles, past, mapping>>

\* UPDATE users ... WHERE role_id IS NULL, which fails if the role is gone.
AssignRole(l) ==
  /\ lpc[l] = "assign"
  /\ LET u == login[l].user IN
       role' = IF role[u] = None /\ login[l].pick \in roles
               THEN [role EXCEPT ![u] = login[l].pick] ELSE role
  /\ LoginEnds(l)
  /\ UNCHANGED <<roles, past, mapping>>

LoginFails(l) == lpc[l] # "idle" /\ LoginEnds(l) /\ UNCHANGED tables

(***************************************************************************)
(* The admin's forms: require_admin and roles::get, then the statement.    *)
(***************************************************************************)
FormGoto(f, next) == fpc' = [fpc EXCEPT ![f] = next]
FormEnds(f) == FormGoto(f, "idle") /\ change' = [change EXCEPT ![f] = None]

Change == [op : {"create", "delete"}, on : Role]
            \cup [op : {"assign"}, on : Member, to : Role \cup {None}]
            \cup [op : {"map"}, on : Role \X Group, to : Priority]
            \cup [op : {"unmap"}, on : Role \X Group]

\* create_role, delete_role, update_user_role, add_oidc_mapping and
\* remove_oidc_mapping: a role that is named must exist.
ReadRole(f) ==
  /\ fpc[f] = "idle"
  /\ \E c \in Change :
       /\ c.op = "create" => c.on \notin roles \cup past
       /\ c.op = "delete" => c.on \in roles
       /\ c.op = "assign" => c.to \in roles \cup {None}
       /\ c.op = "map" => c.on[1] \in roles
       /\ c.op = "unmap" => mapping[c.on] # None
       /\ change' = [change EXCEPT ![f] = c]
  /\ FormGoto(f, "apply")
  /\ UNCHANGED tables

CreateRole(f) ==
  /\ fpc[f] = "apply" /\ change[f].op = "create"
  /\ roles' = IF change[f].on \in past THEN roles ELSE roles \cup {change[f].on}
  /\ FormEnds(f)
  /\ UNCHANGED <<past, mapping, role>>

\* Mutant: members keep the id of a role that is gone.
DeleteRoleRestrict(f) ==
  /\ fpc[f] = "apply" /\ change[f].op = "delete"
  /\ LET gone == change[f].on IN
       /\ roles' = roles \ {gone}
       /\ past' = past \cup {gone}
       /\ mapping' = [x \in Role \X Group |-> IF x[1] = gone THEN None ELSE mapping[x]]
  /\ UNCHANGED role
  /\ FormEnds(f)

\* ON DELETE SET NULL for the members, ON DELETE CASCADE for the mappings.
DeleteRole(f) ==
  /\ fpc[f] = "apply" /\ change[f].op = "delete"
  /\ LET gone == change[f].on IN
       /\ roles' = roles \ {gone}
       /\ past' = past \cup {gone}
       /\ mapping' = [x \in Role \X Group |-> IF x[1] = gone THEN None ELSE mapping[x]]
       /\ role' = [m \in Member |-> IF role[m] = gone THEN None ELSE role[m]]
  /\ FormEnds(f)

\* set_user_role: an error if the role has been deleted since it was read.
SetUserRole(f) ==
  /\ fpc[f] = "apply" /\ change[f].op = "assign"
  /\ role' = IF change[f].to \in roles \cup {None}
             THEN [role EXCEPT ![change[f].on] = change[f].to] ELSE role
  /\ FormEnds(f)
  /\ UNCHANGED <<roles, past, mapping>>

\* add_mapping is an upsert, remove_mapping a DELETE.
SetMapping(f) ==
  /\ fpc[f] = "apply" /\ change[f].op \in {"map", "unmap"}
  /\ LET c == change[f]
         to == IF c.op = "map" THEN c.to ELSE None
     IN mapping' = IF c.on[1] \in roles THEN [mapping EXCEPT ![c.on] = to] ELSE mapping
  /\ FormEnds(f)
  /\ UNCHANGED <<roles, past, role>>

FormFails(f) == fpc[f] # "idle" /\ FormEnds(f) /\ UNCHANGED tables

-----------------------------------------------------------------------------
RolesInit ==
  /\ roles = {} /\ past = {}
  /\ mapping = [x \in Role \X Group |-> None]
  /\ role = [m \in Member |-> None]
  /\ lpc = [l \in Login |-> "idle"] /\ login = [l \in Login |-> None]
  /\ fpc = [f \in Post |-> "idle"] /\ change = [f \in Post |-> None]

LoginStep(l) ==
  /\ ReadUser(l) \/ SelectMapping(l) \/ AssignRole(l) \/ LoginFails(l)
  /\ UNCHANGED posting

FormStep(f) ==
  /\ \/ ReadRole(f) \/ CreateRole(f) \/ DeleteRole(f) \/ SetUserRole(f)
     \/ SetMapping(f) \/ FormFails(f)
  /\ UNCHANGED logging

RolesNext == (\E l \in Login : LoginStep(l)) \/ (\E f \in Post : FormStep(f))

RolesSpec == RolesInit /\ [][RolesNext]_rolevars

-----------------------------------------------------------------------------
\* The tables and the locals have the values of their types, and every role a
\* user has or a group is mapped to exists.
RolesTypeOK ==
  /\ roles \subseteq Role /\ past \subseteq Role
  /\ mapping \in [Role \X Group -> Priority \cup {None}]
  /\ \A x \in Role \X Group : mapping[x] # None => x[1] \in roles
  /\ role \in [Member -> roles \cup {None}]
  /\ \A l \in Login :
       /\ lpc[l] \in {"idle", "select", "assign"}
       /\ login[l] \in [user : Member, groups : SUBSET Group, pick : Role \cup {None}] \cup {None}
  /\ \A f \in Post : fpc[f] \in {"idle", "apply"} /\ change[f] \in Change \cup {None}

\* "Only fills an empty role (admin assignment is sticky)": whatever logins and
\* forms are under way, a role that a user has is taken or replaced by a form, and
\* a login only gives one to a user who has none.
StickyRole ==
  \A m \in Member : role[m] # None /\ role'[m] # role[m] => UNCHANGED logging
RolesSticky == [][StickyRole]_rolevars
=============================================================================
