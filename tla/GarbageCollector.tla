-------------------------- MODULE GarbageCollector --------------------------
(***************************************************************************)
(* The garbage collector an admin runs from POST /admin/gc, next to the    *)
(* uploads, removals and sweeps of ObjectStore and to the uploads of       *)
(* avatars, which keep their bytes in the same backend under a key that is *)
(* not reference counted.  inspect lists the backend and then reads the    *)
(* tables; reclaim takes the orphans one by one, each in a transaction     *)
(* that locks the row of objects and checks again.  A dry run only reads.  *)
(***************************************************************************)
EXTENDS ObjectStore

CONSTANTS
  User,     \* users with an avatar, or none yet
  Ext,      \* the extensions avatar_ext allows
  Painter   \* handlers that upload an avatar

AvatarKey == User \X Ext \* avatars/<uuid><ext>

ASSUME AvatarAssumption == AvatarKey \cap Key = {} /\ None \notin AvatarKey

VARIABLES
  avatars,   \* users.avatar_key
  pictures,  \* the keys stored under avatars/
  apc,       \* where each upload of an avatar is
  draft,     \* its locals: the user, the new key, the key users had before
  gpc,       \* where the collector is
  inventory, \* the keys it listed in the backend
  orphans,   \* those of its report that it has still to reclaim
  key,       \* the one it is at
  locked,    \* the rows of objects its transaction has locked, by digest
  alone,     \* history: nobody else has done anything since its run began
  sole,      \* history: neither another upload of an avatar of the user nor the
             \* collector has been at work during this one
  steady     \* history: such an upload was the last to touch the user's avatar

painting == <<avatars, pictures, apc, draft>>
collecting == <<gpc, inventory, orphans, key, locked>>
keeping == <<sole, steady>>
gcvars == <<vars, painting, collecting, alone, keeping>>

Draft == {d \in [user : User, key : AvatarKey, old : AvatarKey \cup {None}] :
            d.key[1] = d.user}

(***************************************************************************)
(* upload_avatar.                                                          *)
(***************************************************************************)
AvatarGoto(p, next) == apc' = [apc EXCEPT ![p] = next]

PaintersOf(u) == {p \in Painter : apc[p] # "idle" /\ draft[p].user = u}

\* current_user reads the row; the extension is that of the sniffed type.
LoadUser(p) ==
  /\ apc[p] = "idle"
  /\ \E u \in User, e \in Ext :
       /\ draft' = [draft EXCEPT ![p] = [user |-> u, key |-> <<u, e>>, old |-> avatars[u]]]
       /\ sole' = [q \in Painter |-> IF q = p THEN gpc = "idle" /\ PaintersOf(u) = {}
                                     ELSE sole[q] /\ q \notin PaintersOf(u)]
  /\ AvatarGoto(p, "put")
  /\ UNCHANGED <<avatars, pictures, steady>>

\* Mutant: the old key is deleted even if it is the new one.
PutAvatarDropsAny(p) ==
  /\ apc[p] = "put"
  /\ pictures' = pictures \cup {draft[p].key}
  /\ AvatarGoto(p, IF draft[p].old = None THEN "set" ELSE "drop")
  /\ UNCHANGED <<avatars, draft, keeping>>

\* store.put, then the deletion of the old key, if it is another.
PutAvatar(p) ==
  /\ apc[p] = "put"
  /\ pictures' = pictures \cup {draft[p].key}
  /\ AvatarGoto(p, IF draft[p].old \in {None, draft[p].key} THEN "set" ELSE "drop")
  /\ UNCHANGED <<avatars, draft, keeping>>

\* An error of store.delete is logged.
DropOldAvatar(p) ==
  /\ apc[p] = "drop"
  /\ \/ pictures' = pictures \ {draft[p].old}
     \/ "erase" \in Faults /\ UNCHANGED pictures
  /\ steady' = [steady EXCEPT ![draft[p].user] = FALSE]
  /\ AvatarGoto(p, "set")
  /\ UNCHANGED <<avatars, draft, sole>>

\* set_avatar_key.
SetAvatar(p) ==
  /\ apc[p] = "set"
  /\ avatars' = [avatars EXCEPT ![draft[p].user] = draft[p].key]
  /\ steady' = [steady EXCEPT ![draft[p].user] = sole[p]]
  /\ AvatarGoto(p, "idle")
  /\ draft' = [draft EXCEPT ![p] = None]
  /\ UNCHANGED <<pictures, sole>>

\* The put fails, having stored the bytes or not, the UPDATE fails, or the
\* handler is dropped.
AvatarFails(p) ==
  /\ \/ "put" \in Faults /\ apc[p] = "put"
     \/ "sql" \in Faults /\ apc[p] = "set"
     \/ "cancel" \in Faults /\ apc[p] # "idle"
  /\ IF apc[p] = "put" THEN pictures' \in {pictures, pictures \cup {draft[p].key}}
     ELSE UNCHANGED pictures
  /\ AvatarGoto(p, "idle")
  /\ draft' = [draft EXCEPT ![p] = None]
  /\ UNCHANGED <<avatars, keeping>>

(***************************************************************************)
(* inspect.                                                                *)
(***************************************************************************)
\* inventory lists files/ ...
ListFiles ==
  /\ gpc = "idle"
  /\ inventory' = {k \in {"file"} \X Core : blobs[k] # None}
  /\ gpc' = "avatars"
  /\ UNCHANGED <<orphans, key, locked>>

\* ... and avatars/, but not thumbs/.
ListAvatars ==
  /\ gpc = "avatars"
  /\ inventory' = inventory \cup pictures
  /\ gpc' = "objects"
  /\ UNCHANGED <<orphans, key, locked>>

\* Mutant: only what the backend lists is looked up in objects.
ReadObjectsListed ==
  /\ gpc = "objects"
  /\ orphans' = {k \in inventory \cap Key : \A d \in RowsOf(k) : objects[d].refcount <= 0}
  /\ gpc' = "users"
  /\ UNCHANGED <<inventory, key, locked>>

\* SELECT FROM objects: rows without references, and bytes without a row.
ReadObjects ==
  /\ gpc = "objects"
  /\ orphans' = {k \in Key : \E d \in RowsOf(k) : objects[d].refcount <= 0}
                  \cup {k \in inventory \cap Key : RowsOf(k) = {}}
  /\ gpc' = "users"
  /\ UNCHANGED <<inventory, key, locked>>

\* SELECT avatar_key FROM users: pictures that are nobody's.
ReadUsers ==
  /\ gpc = "users"
  /\ orphans' = orphans \cup {k \in inventory \cap AvatarKey : \A u \in User : avatars[u] # k}
  /\ gpc' = "reclaim"
  /\ UNCHANGED <<inventory, key, locked>>

(***************************************************************************)
(* reclaim.                                                                *)
(***************************************************************************)
Referenced(k) ==
  \/ \E c \in Core : files[c] # None /\ files[c].key = k
  \/ \E u \in User : avatars[u] = k

\* The transaction ends, and its lock with it.
Unlock == locked' = {} /\ key' = None /\ gpc' = "reclaim"

\* BEGIN; SELECT refcount FROM objects ... FOR UPDATE.
Begin ==
  /\ gpc = "reclaim"
  /\ \E k \in orphans :
       /\ orphans' = orphans \ {k}
       /\ key' = k
       /\ locked' = RowsOf(k)
  /\ gpc' = "check"
  /\ UNCHANGED inventory

\* SELECT EXISTS: a key that became referenced is skipped, with a ROLLBACK.
Check ==
  /\ gpc = "check"
  /\ IF Referenced(key) \/ \E d \in locked : objects[d].refcount > 0
     THEN Unlock
     ELSE gpc' = "erase" /\ UNCHANGED <<key, locked>>
  /\ UNCHANGED <<inventory, orphans>>

\* store.delete, for what the inventory lists.
Reclaim ==
  /\ gpc = "erase"
  /\ blobs' = [k \in Key |-> IF k = key /\ k \in inventory THEN None ELSE blobs[k]]
  /\ pictures' = pictures \ ({key} \cap inventory)
  /\ gpc' = "commit"
  /\ UNCHANGED <<inventory, orphans, key, locked>>

\* DELETE FROM objects ... AND refcount <= 0; COMMIT.
Commit ==
  /\ gpc = "commit"
  /\ objects' = [d \in Digest |->
       IF d \in locked /\ objects[d].refcount <= 0 THEN None ELSE objects[d]]
  /\ Unlock
  /\ UNCHANGED <<inventory, orphans>>

Finish ==
  /\ gpc = "reclaim" /\ orphans = {}
  /\ gpc' = "idle" /\ inventory' = {}
  /\ UNCHANGED <<orphans, key, locked>>

\* The request fails at a statement or at store.delete, or is dropped: what the
\* backend has done stays, the transaction is rolled back.
GiveUp ==
  /\ \/ {"sql", "cancel"} \cap Faults # {} /\ gpc # "idle"
     \/ "erase" \in Faults /\ gpc = "erase"
  /\ gpc' = "idle" /\ inventory' = {} /\ orphans' = {} /\ key' = None /\ locked' = {}

-----------------------------------------------------------------------------
GCInit ==
  /\ Init
  /\ avatars = [u \in User |-> None]
  /\ pictures = {}
  /\ apc = [p \in Painter |-> "idle"]
  /\ draft = [p \in Painter |-> None]
  /\ gpc = "idle" /\ inventory = {} /\ orphans = {} /\ key = None /\ locked = {}
  /\ alone = FALSE
  /\ sole = [p \in Painter |-> FALSE] /\ steady = [u \in User |-> FALSE]

\* Mutant: the SELECT is FOR KEY SHARE, which a DELETE waits for but no UPDATE.
StoreStepUnlocked ==
  /\ Next
  /\ \A d \in locked : objects'[d] # None
  /\ alone' = (alone /\ UNCHANGED vars)
  /\ UNCHANGED <<painting, collecting, keeping>>

\* A statement that would change a locked row waits for the collector's
\* transaction to end.
StoreStep ==
  /\ Next
  /\ \A d \in locked : objects'[d] = objects[d]
  /\ alone' = (alone /\ UNCHANGED vars)
  /\ UNCHANGED <<painting, collecting, keeping>>

PainterStep(p) ==
  /\ LoadUser(p) \/ PutAvatar(p) \/ DropOldAvatar(p) \/ SetAvatar(p) \/ AvatarFails(p)
  /\ alone' = FALSE
  /\ UNCHANGED <<vars, collecting>>

InspectStep ==
  /\ \/ ListFiles /\ alone' = TRUE /\ sole' = [p \in Painter |-> FALSE]
     \/ (ListAvatars \/ ReadObjects \/ ReadUsers) /\ UNCHANGED <<alone, sole>>
  /\ UNCHANGED <<vars, painting, steady>>

ReclaimStep ==
  \/ (Begin \/ Check \/ Finish) /\ UNCHANGED <<vars, painting, alone, keeping>>
  \/ /\ Reclaim
     /\ UNCHANGED <<db, local, todo, debt, served, avatars, apc, draft, alone, keeping>>
  \/ /\ Commit
     /\ UNCHANGED <<cores, blobs, files, local, todo, debt, served, painting, alone, keeping>>
  \/ GiveUp /\ alone' = FALSE /\ UNCHANGED <<vars, painting, keeping>>

GCNext == StoreStep \/ (\E p \in Painter : PainterStep(p)) \/ InspectStep \/ ReclaimStep

GCSpec == GCInit /\ [][GCNext]_gcvars

-----------------------------------------------------------------------------
\* The collector's locals and the tables of avatars have the values of their
\* types, and what the collector has locked is locked for the key it is at.
GCTypeOK ==
  /\ avatars \in [User -> AvatarKey \cup {None}]
  /\ pictures \subseteq AvatarKey
  /\ apc \in [Painter -> {"idle", "put", "drop", "set"}]
  /\ draft \in [Painter -> Draft \cup {None}]
  /\ gpc \in {"idle", "avatars", "objects", "users", "reclaim", "check", "erase", "commit"}
  /\ inventory \subseteq Key \cup AvatarKey
  /\ orphans \subseteq Key \cup AvatarKey
  /\ key \in Key \cup AvatarKey \cup {None}
  /\ locked \subseteq Digest
  /\ alone \in BOOLEAN /\ sole \in [Painter -> BOOLEAN] /\ steady \in [User -> BOOLEAN]
  /\ key # None <=> gpc \in {"check", "erase", "commit"}
  /\ locked # {} => key # None

\* What the collector erases is no longer counted on by anybody: no upload has
\* begun to share it since the report, and none can until the row is gone.
ReclaimsUncounted ==
  gpc = "erase" /\ key \in Key => RowsOf(key) = {} \/ Holders(key) = {}

\* A run during which nothing else happens leaves no file and no avatar without
\* a reference, and no row of objects that counts none (what failed handlers
\* and failed deletions leave behind is found by inspect).
LeavesClean ==
  alone /\ gpc = "idle" =>
    /\ \A c \in Core : blobs[<<"file", c>>] # None =>
         RowsOf(<<"file", c>>) # {} \/ Referenced(<<"file", c>>)
    /\ \A d \in Digest : objects[d] # None => objects[d].refcount > 0
    /\ \A k \in pictures : Referenced(k)

\* An avatar that an upload has set stays stored, of whatever type it and the one
\* before are, whatever later uploads of others and the collector do, and though a
\* later upload of the user fails before it deletes it.  (Two uploads of one user, or
\* one next to the collector, may erase what the other has stored or set.)
AvatarStored == \A u \in User : steady[u] => avatars[u] \in pictures

\* templates/admin.html: "Reclaim scans again and deletes only keys that are
\* still unreferenced".
ReclaimsUnreferenced == gpc = "erase" => ~Referenced(key)
=============================================================================
