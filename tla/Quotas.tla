------------------------------- MODULE Quotas -------------------------------
(***************************************************************************)
(* How large an upload may be: upload_inner reads the limits of its user,  *)
(* then the bytes the user's files add up to, and takes the body in up to  *)
(* the smaller of the two while other uploads of the user do the same,     *)
(* files are deleted and the admin changes the limits.  What happens to    *)
(* the bytes after that is the matter of ObjectStore.                      *)
(***************************************************************************)
EXTENDS Common, Integers, FiniteSetsExt

CONSTANTS
  Uploader,  \* handlers of upload
  Files,     \* a bound on the files of the user
  Quota,     \* values of quota_bytes that are not NULL
  FileCap,   \* values of max_file_bytes
  AnonCap,   \* anonymous_max_bytes
  Piece      \* sizes of the pieces a body arrives in

ASSUME QuotasAssumption ==
  /\ Files \in Nat /\ Quota \subseteq Nat /\ FileCap \subseteq Nat \ {0}
  /\ AnonCap \in Nat \ {0} /\ Piece \subseteq Nat \ {0}

VARIABLES
  sizes,     \* the sizes of the user's files, 0 for a file there is not
  upc,       \* where each upload is
  user,      \* its user: "user" or "anonymous"
  quota,     \* the quota it has read
  limit,     \* its stream_cap, before that the cap of its role
  spooled,   \* bytes of the spooled file
  newer      \* history: the files other uploads have stored since each read storage_used

quotavars == <<sizes, upc, user, quota, limit, spooled, newer>>

SizeSum(size) == MapThenSumSet(LAMBDA f : size[f], 1..Files)
storage_used == SizeSum(sizes)

UGoto(u, next) == upc' = [upc EXCEPT ![u] = next]
UploadEnds(u) ==
  /\ UGoto(u, "idle") /\ quota' = [quota EXCEPT ![u] = None]
  /\ limit' = [limit EXCEPT ![u] = 0] /\ spooled' = [spooled EXCEPT ![u] = 0]
UploadRefused(u) == UploadEnds(u) /\ newer' = [newer EXCEPT ![u] = {}]

\* It has read storage_used.
Metered(u) == upc[u] \in {"spool", "insert"}

\* What it found then, without what has been deleted since.
Found(u) == [f \in 1..Files |-> IF f \in newer[u] THEN 0 ELSE sizes[f]]

-----------------------------------------------------------------------------
\* instance_config and effective_limits: whatever the admin has set by then.
ReadLimits(u) ==
  /\ upc[u] = "idle"
  /\ \E w \in {"user", "anonymous"}, q \in Quota \cup {None}, cap \in FileCap :
       /\ user' = [user EXCEPT ![u] = w]
       /\ quota' = [quota EXCEPT ![u] = IF w = "user" THEN q ELSE None]
       /\ limit' = [limit EXCEPT ![u] = IF w = "user" THEN cap ELSE Min({cap, AnonCap})]
  /\ UGoto(u, "used")
  /\ UNCHANGED <<sizes, spooled, newer>>

\* Mutant: the cap of the role is not lowered to what is left of the quota.
ReadUsedUncapped(u) ==
  /\ upc[u] = "used"
  /\ IF quota[u] # None /\ storage_used + 1 > quota[u] THEN UploadEnds(u)
     ELSE UGoto(u, "spool") /\ UNCHANGED <<quota, limit, spooled>>
  /\ UNCHANGED <<sizes, user, newer>>

\* storage_used, of a user with a quota; one who has nothing left is refused.
ReadUsed(u) ==
  /\ upc[u] = "used"
  /\ IF quota[u] # None /\ storage_used + 1 > quota[u] THEN UploadEnds(u)
     ELSE /\ limit' = IF quota[u] = None THEN limit
                      ELSE [limit EXCEPT ![u] = Min({@, quota[u] - storage_used})]
          /\ UGoto(u, "spool") /\ UNCHANGED <<quota, spooled>>
  /\ UNCHANGED <<sizes, user, newer>>

\* spool_file_field: a piece that does not fit ends the upload with 413.
Spool(u, n) ==
  /\ upc[u] = "spool"
  /\ IF n > limit[u] - spooled[u] THEN UploadRefused(u)
     ELSE /\ spooled' = [spooled EXCEPT ![u] = @ + n]
          /\ UNCHANGED <<upc, quota, limit, newer>>
  /\ UNCHANGED <<sizes, user>>

\* Another field of the name "file": the last one wins.
SpoolAgain(u) ==
  /\ upc[u] = "spool" /\ spooled[u] > 0
  /\ spooled' = [spooled EXCEPT ![u] = 0]
  /\ UNCHANGED <<sizes, upc, user, quota, limit, newer>>

\* The body ends, is empty, malformed or refused by what follows: the type, the
\* archive, the scanner, the options; or metadata is stripped from the image.
BodyEnds(u) ==
  /\ upc[u] = "spool"
  /\ \/ UploadRefused(u)
     \/ \E n \in 1..spooled[u] :
          /\ spooled' = [spooled EXCEPT ![u] = n]
          /\ UGoto(u, "insert") /\ UNCHANGED <<quota, limit, newer>>
  /\ UNCHANGED <<sizes, user>>

\* INSERT INTO files, or an error before it.
InsertFile(u) ==
  /\ upc[u] = "insert"
  /\ \/ UNCHANGED sizes /\ UploadRefused(u)
     \/ user[u] = "user" /\ \E f \in 1..Files :
          /\ f = Min({g \in 1..Files : sizes[g] = 0} \cup {Files}) /\ sizes[f] = 0
          /\ sizes' = [sizes EXCEPT ![f] = spooled[u]]
          /\ UploadEnds(u)
          /\ newer' = [v \in Uploader |->
                         IF v # u /\ Metered(v) THEN newer[v] \cup {f} ELSE {}]
  /\ UNCHANGED user

\* A file of the user is deleted or expires.
DeleteFile(f) ==
  /\ sizes[f] > 0
  /\ sizes' = [sizes EXCEPT ![f] = 0]
  /\ newer' = [u \in Uploader |-> newer[u] \ {f}]
  /\ UNCHANGED <<upc, user, quota, limit, spooled>>

-----------------------------------------------------------------------------
QuotaInit ==
  /\ sizes = [f \in 1..Files |-> 0]
  /\ upc = [u \in Uploader |-> "idle"] /\ user = [u \in Uploader |-> "anonymous"]
  /\ quota = [u \in Uploader |-> None]
  /\ limit = [u \in Uploader |-> 0] /\ spooled = [u \in Uploader |-> 0]
  /\ newer = [u \in Uploader |-> {}]

QuotaNext ==
  \/ \E u \in Uploader :
       \/ ReadLimits(u) \/ ReadUsed(u)
       \/ \E n \in Piece : Spool(u, n)
       \/ SpoolAgain(u) \/ BodyEnds(u) \/ InsertFile(u)
  \/ \E f \in 1..Files : DeleteFile(f)

QuotaSpec == QuotaInit /\ [][QuotaNext]_quotavars

-----------------------------------------------------------------------------
QuotasTypeOK ==
  /\ sizes \in [1..Files -> Nat]
  /\ \A f \in 1..Files : sizes[f] > 0 => \E cap \in FileCap : sizes[f] <= cap
  /\ upc \in [Uploader -> {"idle", "used", "spool", "insert"}]
  /\ user \in [Uploader -> {"user", "anonymous"}]
  /\ quota \in [Uploader -> Quota \cup {None}]
  /\ \A u \in Uploader : spooled[u] \in 0..limit[u]
  /\ newer \in [Uploader -> SUBSET (1..Files)]

\* However uploads of one user overlap and files are deleted meanwhile, the file that an
\* upload stores and what it found of its user's files add up to no more than the quota
\* that it has read, however its body arrives and however often the field is sent.  What
\* takes the user beyond the quota can only be files that other uploads have stored since
\* it looked.
WithinQuota ==
  \A u \in Uploader :
    upc[u] = "insert" /\ upc'[u] = "idle" /\ sizes' # sizes /\ quota[u] # None =>
      SizeSum([f \in 1..Files |-> IF f \in newer[u] THEN 0 ELSE sizes'[f]]) <= quota[u]
QuotaKept == [][WithinQuota]_quotavars
=============================================================================
