----------------------------- MODULE MCRequests -----------------------------
(***************************************************************************)
(* One small instance of each module about requests that share no state    *)
(* with those of another one: a behaviour is a behaviour of the part that  *)
(* its first state names, and the others keep still.                       *)
(***************************************************************************)
EXTENDS PasswordReset, Roles, Publishing, Collections, ObjectWrites, ObjectReads,
        Configuration, Feeds, Quotas, Lifetimes, Thumbnails

VARIABLE part

vars == <<part, resetvars, rolevars, pubvars, colvars, writevars, readvars, configvars,
          feedvars, quotavars, lifevars, thumbvars>>

accounts == <<resetvars, rolevars>>
contents == <<pubvars, colvars, feedvars>>
storage == <<writevars, readvars, thumbvars>>
policy == <<configvars, quotavars, lifevars>>

Init ==
  /\ part \in {"reset", "roles", "publishing", "collections", "writes", "reads",
               "configuration", "feeds", "quotas", "lifetimes", "thumbnails"}
  /\ ResetInit /\ RolesInit /\ PubInit /\ ColInit /\ WritesInit /\ ReadsInit
  /\ ConfigInit /\ FeedInit /\ QuotaInit /\ LifeInit /\ ThumbInit

AccountsNext ==
  /\ \/ part = "reset" /\ ResetNext /\ UNCHANGED rolevars
     \/ part = "roles" /\ RolesNext /\ UNCHANGED resetvars
  /\ UNCHANGED <<part, contents, storage, policy>>

ContentsNext ==
  /\ \/ part = "publishing" /\ PubNext /\ UNCHANGED <<colvars, feedvars>>
     \/ part = "collections" /\ ColNext /\ UNCHANGED <<pubvars, feedvars>>
     \/ part = "feeds" /\ FeedNext /\ UNCHANGED <<pubvars, colvars>>
  /\ UNCHANGED <<part, accounts, storage, policy>>

StorageNext ==
  /\ \/ part = "writes" /\ WritesNext /\ UNCHANGED <<readvars, thumbvars>>
     \/ part = "reads" /\ ReadsNext /\ UNCHANGED <<writevars, thumbvars>>
     \/ part = "thumbnails" /\ ThumbNext /\ UNCHANGED <<writevars, readvars>>
  /\ UNCHANGED <<part, accounts, contents, policy>>

PolicyNext ==
  /\ \/ part = "configuration" /\ ConfigNext /\ UNCHANGED <<quotavars, lifevars>>
     \/ part = "quotas" /\ QuotaNext /\ UNCHANGED <<configvars, lifevars>>
     \/ part = "lifetimes" /\ LifeNext /\ UNCHANGED <<configvars, quotavars>>
  /\ UNCHANGED <<part, accounts, contents, storage>>

Next == AccountsNext \/ ContentsNext \/ StorageNext \/ PolicyNext

\* The refresher ticks in its own part only; a task of ObjectWrites that could go on
\* is one of its part anyhow.
Fairness ==
  /\ WritesFairness
  /\ WF_configvars(part = "configuration" /\ RefreshRead)
  /\ WF_configvars(part = "configuration" /\ RefreshSwap)

Spec == Init /\ [][Next]_vars /\ Fairness

\* Every part keeps to the types of its variables.
TypeOK ==
  /\ ResetTypeOK /\ RolesTypeOK /\ PubTypeOK /\ ColTypeOK /\ FeedTypeOK
  /\ WritesTypeOK /\ ReadsTypeOK /\ ConfigTypeOK /\ QuotasTypeOK /\ LifetimesTypeOK
  /\ ThumbsTypeOK
=============================================================================
