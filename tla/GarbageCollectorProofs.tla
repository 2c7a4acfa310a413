----------------------- MODULE GarbageCollectorProofs -----------------------
(***************************************************************************)
(* Proofs about GarbageCollector for every set of cores, contents, users,  *)
(* handlers and faults.  The collector only takes rows and bytes away, so  *)
(* the invariant of ObjectStore survives it; what it has locked or found   *)
(* without a row stays so because no upload inserts a key that the backend *)
(* or the tables have ever known.                                          *)
(***************************************************************************)
EXTENDS GarbageCollector, ObjectStoreProofs

-----------------------------------------------------------------------------
(***************************************************************************)
(* Keys that no upload will insert.                                        *)
(***************************************************************************)
\* The upload u has still to acquire its reference x.
Pending(u, x) ==
  \/ pc[u] \in {"acquire", "bump"} /\ part[u] = x
  \/ pc[u] \in AcquirePC /\ part[u] = "file" /\ x = "thumb"

\* The content c was issued, and its reference x is acquired, given up or unwanted.
Spent(x, c) == c \in cores /\ \A u \in Upload : core[u] = c => ~Pending(u, x)

\* Where the key of a reference turns up, the reference is spent.
LEMMA KnownIsSpent ==
  ASSUME IInv, NEW x \in Part, NEW c \in Core, ~Unknown(<<x, c>>)
  PROVE  Spent(x, c)
<1>1. c \in cores
  BY DEF IInv, Freshness, Fresh
<1>2. ASSUME NEW u \in Upload, core[u] = c, Pending(u, x) PROVE FALSE
  BY <1>2 DEF IInv, Freshness, Fresh, Pending
<1>. QED  BY <1>1, <1>2 DEF Spent

\* A spent reference stays spent: cores are issued once, and uploads go forward.
LEMMA SpentStep ==
  ASSUME IInv, [Next]_vars, NEW x \in Part, NEW c \in Core, Spent(x, c)
  PROVE  Spent(x, c)'
<1>0. TypeOK /\ LocalsOK /\ Shape
  BY TypesOfLocals DEF IInv
<1>1. c \in cores /\ cores \subseteq cores'
  BY <1>0, OwnerStep DEF Spent, Claims, Publishes, Retires, SameFiles
<1>2. ASSUME NEW u \in Upload, core'[u] = c, Pending(u, x)' PROVE FALSE
  <2>1. pc'[u] \in AcquirePC
    BY <1>2 DEF Pending, AcquirePC
  <2>2. CASE core'[u] \in Core \ cores
    BY <1>1, <1>2, <2>2
  <2>3. CASE /\ pc[u] \in AcquirePC /\ core'[u] = core[u] /\ part'[u] = part[u]
             /\ pc'[u] \in {"acquire", "bump"} => pc[u] \in {"acquire", "bump"}
    BY <1>2, <2>3 DEF Pending, Spent
  <2>4. CASE /\ pc[u] \in AcquirePC /\ core'[u] = core[u]
             /\ part[u] = "file" /\ part'[u] = "thumb"
    BY <1>2, <2>4 DEF Pending, Spent
  <2>. QED  BY <1>0, <2>1, <2>2, <2>3, <2>4, AcquireStep
<1>. QED  BY <1>1, <1>2 DEF Spent

\* No row comes to have the key of a spent reference.
LEMMA NoNewRow ==
  ASSUME IInv, [Next]_vars, NEW x \in Part, NEW c \in Core, Spent(x, c)
  PROVE  RowsOf(<<x, c>>)' \subseteq RowsOf(<<x, c>>)
<1>0. TypeOK /\ LocalsOK /\ Shape /\ objects \in [Digest -> ObjectRow \cup {None}]
  BY TypesOfLocals DEF IInv, TypeOK
<1>1. CASE SameRows
  BY <1>1 DEF SameRows, RowsOf
<1>2. ASSUME NEW u \in Upload, NEW k \in Key, Takes(u, k)
      PROVE  RowsOf(<<x, c>>)' \subseteq RowsOf(<<x, c>>)
  <2>1. CASE Inserts(u, k) /\ \E e \in Digest : objects' = [objects EXCEPT ![e] = [key |-> k, refcount |-> 1]]
    <3>1. k # <<x, c>>
      BY <1>2, <2>1 DEF Takes, Inserts, Spent, Pending
    <3>2. PICK e \in Digest : objects' = [objects EXCEPT ![e] = [key |-> k, refcount |-> 1]]
      BY <2>1
    <3>3. objects'[e].key = k /\ \A d \in Digest : d # e => objects'[d] = objects[d]
      BY <1>0, <3>2
    <3>. QED  BY <3>1, <3>3 DEF RowsOf
  <2>2. CASE \E e \in RowsOf(k) : objects' = [objects EXCEPT ![e].refcount = @ + 1]
    BY <1>0, <2>2 DEF RowsOf, ObjectRow
  <2>. QED  BY <1>2, <2>1, <2>2 DEF Takes
<1>. QED  BY <1>0, <1>1, <1>2, RowStep

-----------------------------------------------------------------------------
(***************************************************************************)
(* The invariant.                                                          *)
(***************************************************************************)
\* The transaction has locked the rows of its key, and no others; past the
\* check they count nothing.
Locking ==
  /\ key \in Key => locked = RowsOf(key)
  /\ key \notin Key => locked = {}
  /\ gpc \in {"erase", "commit"} => \A d \in locked : objects[d].refcount <= 0

\* An upload of an avatar under way has a draft.
Drafting == \A p \in Painter : apc[p] # "idle" => draft[p] \in Draft

\* The references whose keys the collector knows are spent.
AllSpent ==
  \A x \in Part, c \in Core :
    <<x, c>> \in inventory \cup orphans \cup {key} => Spent(x, c)

GCIInv == IInv /\ GCTypeOK /\ Drafting /\ Locking /\ AllSpent

\* Taking rows and bytes away keeps the invariant of ObjectStore.
LEMMA TakingAway ==
  ASSUME IInv, UNCHANGED <<cores, files, local, todo, debt, served>>,
         objects' \in [Digest -> ObjectRow \cup {None}],
         blobs' \in [Key -> Digest \cup {None}],
         \A d \in Digest : objects'[d] \in {objects[d], None},
         \A k \in Key : blobs'[k] \in {blobs[k], None}
  PROVE  IInv'
<1>. USE DEF local
<1>1. TypeOK' /\ Shape' /\ Ownership' /\ Lookups'
  BY DEF IInv, TypeOK, Shape, ShapeOf, Ownership, Owns, Lookups, Published, RemovesWhatItLoaded
<1>2. \A k \in Key : Unknown(k) => Unknown(k)'
  BY DEF Unknown, Owns
<1>3. Freshness'
  <2>1. \A x \in Part, c \in Core : Fresh(x, c) => Fresh(x, c)'
    BY <1>2, Keys DEF Fresh
  <2>2. \A u \in Upload : pc[u] \in AcquirePC => core[u] \in Core /\ part[u] \in Part
    BY Procs DEF IInv, TypeOK, Shape, ShapeOf, AcquirePC
  <2>. QED  BY <2>1, <2>2, Keys DEF IInv, Freshness, AcquirePC
<1>4. Debts' /\ Deliveries'
  BY DEF IInv, Debts, Releasing, Deliveries, BurnOnce, Owns
<1>5. \A d \in Digest : objects'[d] # None => objects'[d] = objects[d]
  OBVIOUS
<1>6. Counts'
  <2>1. Count' = Count
    BY DEF Count, Holders
  <2>. QED  BY <1>5, <2>1 DEF IInv, Counts
<1>7. Erasures'
  <2>1. \A k : RowsOf(k)' \subseteq RowsOf(k)
    BY <1>5 DEF RowsOf
  <2>. QED  BY <2>1 DEF IInv, Erasures
<1>. QED  BY <1>1, <1>3, <1>4, <1>6, <1>7 DEF IInv

\* Steps that change no core and no local of a handler leave what is spent spent.
LEMMA SpentFrame ==
  ASSUME UNCHANGED <<cores, local>>, NEW x, NEW c
  PROVE  Spent(x, c)' <=> Spent(x, c)
  BY DEF local, Spent, Pending

\* The collector's state at the start.
LEMMA InitGCIInv == GCInit => GCIInv
<1>. SUFFICES ASSUME GCInit PROVE GCIInv
  OBVIOUS
<1>1. IInv
  BY InitIInv DEF GCInit
<1>2. GCTypeOK /\ Drafting
  BY DEF GCInit, GCTypeOK, Drafting
<1>3. None \notin Key
  BY DataAssumption
<1>4. Locking /\ AllSpent
  BY <1>3, Keys DEF GCInit, Locking, AllSpent
<1>. QED  BY <1>1, <1>2, <1>4 DEF GCIInv

\* Uploads, removals and sweeps keep the invariant: what is locked waits, and
\* where nothing is locked nothing is inserted.
LEMMA StoreKeeps == GCIInv /\ StoreStep => GCIInv'
<1>. SUFFICES ASSUME GCIInv, StoreStep PROVE GCIInv'
  OBVIOUS
<1>0. IInv /\ [Next]_vars /\ UNCHANGED <<painting, collecting>>
  BY DEF GCIInv, StoreStep
<1>1. IInv'
  BY <1>0, NextIInv
<1>2. GCTypeOK' /\ Drafting'
  BY <1>0 DEF GCIInv, GCTypeOK, Drafting, StoreStep, painting, collecting, keeping
<1>3. AllSpent'
  BY <1>0, SpentStep DEF GCIInv, AllSpent, collecting
<1>4. Locking'
  <2>1. ASSUME key \in Key PROVE locked = RowsOf(key)'
    <3>1. PICK x \in Part, c \in Core : key = <<x, c>>
      BY <2>1 DEF Key
    <3>2. Spent(x, c)
      BY <3>1 DEF GCIInv, AllSpent
    <3>3. RowsOf(key)' \subseteq RowsOf(key)
      BY <1>0, <3>1, <3>2, NoNewRow DEF collecting
    <3>4. locked = RowsOf(key) /\ \A d \in locked : objects'[d] = objects[d]
      BY <2>1 DEF GCIInv, Locking, StoreStep
    <3>. QED  BY <1>0, <3>3, <3>4 DEF RowsOf, collecting
  <2>2. \A d \in locked : objects'[d] = objects[d]
    BY DEF StoreStep
  <2>. QED  BY <1>0, <2>1, <2>2 DEF GCIInv, Locking, collecting
<1>. QED  BY <1>1, <1>2, <1>3, <1>4 DEF GCIInv

\* An upload of an avatar touches nothing of the collector's.
LEMMA PainterKeeps == \A p \in Painter : GCIInv /\ PainterStep(p) => GCIInv'
<1>. SUFFICES ASSUME NEW p \in Painter, GCIInv, PainterStep(p) PROVE GCIInv'
  OBVIOUS
<1>0. UNCHANGED <<vars, collecting>> /\ alone' = FALSE /\ GCTypeOK /\ Drafting
  BY DEF PainterStep, GCIInv
<1>1. IInv'
  BY <1>0, NextIInv DEF GCIInv
<1>2. AllSpent' /\ Locking'
  BY <1>0, SpentFrame DEF GCIInv, AllSpent, Locking, RowsOf, vars, local, collecting
<1>. DEFINE Painted ==
  /\ avatars' \in [User -> AvatarKey \cup {None}] /\ pictures' \subseteq AvatarKey
  /\ apc' \in [Painter -> {"idle", "put", "drop", "set"}]
  /\ draft' \in [Painter -> Draft \cup {None}] /\ Drafting'
  /\ sole' \in [Painter -> BOOLEAN] /\ steady' \in [User -> BOOLEAN]
<1>3. /\ avatars \in [User -> AvatarKey \cup {None}] /\ pictures \subseteq AvatarKey
      /\ apc \in [Painter -> {"idle", "put", "drop", "set"}]
      /\ draft \in [Painter -> Draft \cup {None}]
      /\ sole \in [Painter -> BOOLEAN] /\ steady \in [User -> BOOLEAN]
      /\ apc[p] # "idle" => draft[p] \in Draft /\ draft[p].user \in User /\ draft[p].key \in AvatarKey
  BY <1>0 DEF GCTypeOK, Drafting, Draft
<1>4. LoadUser(p) => Painted
  <2>. SUFFICES ASSUME LoadUser(p) PROVE Painted
    OBVIOUS
  <2>1. PICK u \in User, e \in Ext :
          draft' = [draft EXCEPT ![p] = [user |-> u, key |-> <<u, e>>, old |-> avatars[u]]]
    BY DEF LoadUser
  <2>2. [user |-> u, key |-> <<u, e>>, old |-> avatars[u]] \in Draft
    BY <1>3, <2>1 DEF Draft, AvatarKey
  <2>3. /\ apc' = [apc EXCEPT ![p] = "put"] /\ UNCHANGED <<avatars, pictures, steady>>
        /\ sole' \in [Painter -> BOOLEAN]
    BY <1>3 DEF LoadUser, AvatarGoto
  <2>. QED  BY <1>0, <1>3, <2>1, <2>2, <2>3 DEF Drafting
<1>5. PutAvatar(p) => Painted
  BY <1>0, <1>3 DEF PutAvatar, AvatarGoto, Drafting, keeping
<1>6. DropOldAvatar(p) => Painted
  BY <1>0, <1>3 DEF DropOldAvatar, AvatarGoto, Drafting, keeping
<1>7. SetAvatar(p) => Painted
  BY <1>0, <1>3 DEF SetAvatar, AvatarGoto, Drafting, keeping
<1>8. AvatarFails(p) => Painted
  BY <1>0, <1>3 DEF AvatarFails, AvatarGoto, Drafting, keeping
<1>9. Painted
  BY <1>4, <1>5, <1>6, <1>7, <1>8 DEF PainterStep
<1>10. GCTypeOK'
  BY <1>0, <1>9 DEF GCTypeOK, collecting
<1>. QED  BY <1>1, <1>2, <1>9, <1>10 DEF GCIInv

\* inspect reads; what it finds in the backend or in a row is spent.
LEMMA InspectKeeps == GCIInv /\ InspectStep => GCIInv'
<1>. SUFFICES ASSUME GCIInv, InspectStep PROVE GCIInv'
  OBVIOUS
<1>0. UNCHANGED <<vars, painting>> /\ GCTypeOK /\ Locking /\ AllSpent /\ IInv /\ Drafting
  BY DEF InspectStep, GCIInv
<1>1. IInv' /\ Drafting'
  BY <1>0, NextIInv DEF Drafting, painting
<1>2. \A x \in Part, c \in Core : <<x, c>> \notin AvatarKey /\ <<x, c>> # None
  BY AvatarAssumption, Keys
<1>3. \A x, c : Spent(x, c)' <=> Spent(x, c)
  BY <1>0, SpentFrame DEF vars, local
<1>4. UNCHANGED <<key, locked>> /\ RowsOf(key)' = RowsOf(key)
  BY <1>0 DEF InspectStep, ListFiles, ListAvatars, ReadObjects, ReadUsers, RowsOf, vars
<1>5. Locking'
  BY <1>0, <1>4 DEF InspectStep, ListFiles, ListAvatars, ReadObjects, ReadUsers, Locking, vars
<1>6. GCTypeOK'
  BY <1>0 DEF InspectStep, ListFiles, ListAvatars, ReadObjects, ReadUsers, GCTypeOK, painting,
              keeping, Key, Part
<1>7. AllSpent'
  <2>1. CASE ListFiles
    <3>1. \A x \in Part, c \in Core : <<x, c>> \in inventory' => ~Unknown(<<x, c>>)
      BY <2>1 DEF ListFiles, Unknown
    <3>. QED  BY <1>0, <1>3, <2>1, <3>1, KnownIsSpent DEF ListFiles, AllSpent
  <2>2. CASE ListAvatars
    <3>1. pictures \subseteq AvatarKey
      BY <1>0 DEF GCTypeOK
    <3>. QED  BY <1>0, <1>2, <1>3, <2>2, <3>1 DEF ListAvatars, AllSpent
  <2>3. CASE ReadObjects
    <3>1. ASSUME NEW x \in Part, NEW c \in Core, <<x, c>> \in orphans', <<x, c>> \notin inventory
          PROVE  ~Unknown(<<x, c>>)
      BY <2>3, <3>1 DEF ReadObjects, RowsOf, Unknown
    <3>. QED  BY <1>0, <1>3, <2>3, <3>1, KnownIsSpent DEF ReadObjects, AllSpent
  <2>4. CASE ReadUsers
    BY <1>0, <1>3, <2>4 DEF ReadUsers, AllSpent
  <2>. QED  BY <2>1, <2>2, <2>3, <2>4 DEF InspectStep
<1>. QED  BY <1>1, <1>5, <1>6, <1>7 DEF GCIInv

\* reclaim takes rows and bytes away.
LEMMA ReclaimKeeps == GCIInv /\ ReclaimStep => GCIInv'
<1>. SUFFICES ASSUME GCIInv, ReclaimStep PROVE GCIInv'
  OBVIOUS
<1>0. GCTypeOK /\ Locking /\ AllSpent /\ IInv /\ Drafting
  BY DEF GCIInv
<1>1. /\ UNCHANGED <<cores, files, local, todo, debt, served, avatars, apc, draft>>
      /\ inventory' \subseteq inventory /\ orphans' \subseteq orphans
      /\ key' \in orphans \cup {key, None}
      /\ alone' \in BOOLEAN /\ pictures' \subseteq pictures /\ UNCHANGED <<sole, steady>>
  BY <1>0 DEF ReclaimStep, Begin, Check, Unlock, Reclaim, Commit, Finish, GiveUp, vars, db,
              painting, keeping, local, GCTypeOK
<1>2. Drafting'
  BY <1>0, <1>1 DEF Drafting
<1>3. AllSpent'
  <2>1. \A x \in Part, c \in Core : <<x, c>> # None
    BY Keys
  <2>2. \A x, c : Spent(x, c)' <=> Spent(x, c)
    BY <1>1, SpentFrame
  <2>. QED  BY <1>0, <1>1, <2>1, <2>2 DEF AllSpent
<1>4. objects \in [Digest -> ObjectRow \cup {None}] /\ blobs \in [Key -> Digest \cup {None}]
  BY <1>0 DEF IInv, TypeOK
<1>5. IInv'
  <2>1. /\ objects' \in [Digest -> ObjectRow \cup {None}]
        /\ \A d \in Digest : objects'[d] \in {objects[d], None}
    BY <1>4 DEF ReclaimStep, Reclaim, Commit, vars, db
  <2>2. /\ blobs' \in [Key -> Digest \cup {None}]
        /\ \A k \in Key : blobs'[k] \in {blobs[k], None}
    BY <1>4 DEF ReclaimStep, Reclaim, Commit, vars, db
  <2>. QED  BY <1>0, <1>1, <2>1, <2>2, TakingAway
<1>6. None \notin Key /\ None \notin AvatarKey
  BY DataAssumption, AvatarAssumption
<1>7. \A k : RowsOf(k) \subseteq Digest /\ (k \notin Key => RowsOf(k) = {})
  BY <1>4 DEF RowsOf, ObjectRow
<1>8. GCTypeOK'
  <2>1. key' \in Key \cup AvatarKey \cup {None}
    BY <1>0, <1>1 DEF GCTypeOK
  <2>2. gpc' \in {"idle", "avatars", "objects", "users", "reclaim", "check", "erase", "commit"}
    BY <1>0 DEF ReclaimStep, Begin, Check, Unlock, Reclaim, Commit, Finish, GiveUp, GCTypeOK
  <2>3. key' # None <=> gpc' \in {"check", "erase", "commit"}
    BY <1>0, <1>6 DEF ReclaimStep, Begin, Check, Unlock, Reclaim, Commit, Finish, GiveUp, GCTypeOK
  <2>4. locked' \subseteq Digest /\ (locked' # {} => key' # None)
    BY <1>0, <1>6, <1>7 DEF ReclaimStep, Begin, Check, Unlock, Reclaim, Commit, Finish, GiveUp, GCTypeOK
  <2>. QED  BY <1>0, <1>1, <2>1, <2>2, <2>3, <2>4 DEF GCTypeOK
<1>9. Locking'
  <2>1. CASE Begin /\ UNCHANGED <<vars, painting, alone, keeping>>
    BY <1>7, <2>1 DEF Begin, Locking, RowsOf, vars
  <2>2. CASE Check /\ UNCHANGED <<vars, painting, alone, keeping>>
    <3>1. CASE Unlock
      BY <1>6, <3>1 DEF Unlock, Locking
    <3>2. CASE gpc' = "erase" /\ UNCHANGED <<key, locked>> /\ ~\E d \in locked : objects[d].refcount > 0
      <4>1. \A d \in locked : objects[d].refcount \in Nat
        BY <1>0, <1>4 DEF Locking, RowsOf, ObjectRow
      <4>. QED  BY <1>0, <2>2, <3>2, <4>1 DEF Locking, RowsOf, vars
    <3>. QED  BY <2>2, <3>1, <3>2 DEF Check
  <2>3. CASE Finish /\ UNCHANGED <<vars, painting, alone, keeping>>
    BY <1>0, <2>3 DEF Finish, Locking, RowsOf, vars
  <2>4. CASE Reclaim /\ UNCHANGED <<db, local, todo, debt, served, avatars, apc, draft, alone, keeping>>
    BY <1>0, <2>4 DEF Reclaim, Locking, RowsOf, db
  <2>5. CASE Commit \/ GiveUp
    BY <1>6, <2>5 DEF Commit, Unlock, GiveUp, Locking
  <2>. QED  BY <2>1, <2>2, <2>3, <2>4, <2>5 DEF ReclaimStep
<1>. QED  BY <1>2, <1>3, <1>5, <1>8, <1>9 DEF GCIInv

-----------------------------------------------------------------------------
(***************************************************************************)
(* The theorems.                                                           *)
(***************************************************************************)
\* Whoever takes the step, the invariant is kept.
LEMMA GCStep == GCIInv /\ [GCNext]_gcvars => GCIInv'
<1>. SUFFICES ASSUME GCIInv, [GCNext]_gcvars PROVE GCIInv'
  OBVIOUS
<1>1. CASE UNCHANGED gcvars
  <2>1. UNCHANGED <<vars, painting, collecting, alone, keeping, local>>
    BY <1>1 DEF gcvars, vars, local
  <2>2. IInv'
    BY <2>1, NextIInv DEF GCIInv
  <2>3. GCTypeOK' /\ Drafting' /\ Locking'
    BY <2>1 DEF GCIInv, GCTypeOK, Drafting, Locking, RowsOf, painting, collecting, keeping, vars
  <2>4. AllSpent'
    BY <2>1, SpentFrame DEF GCIInv, AllSpent, collecting, vars
  <2>. QED  BY <2>2, <2>3, <2>4 DEF GCIInv
<1>. QED  BY <1>1, StoreKeeps, PainterKeeps, InspectKeeps, ReclaimKeeps DEF GCNext

\* The invariant holds in every reachable state.
THEOREM GCInductive == GCSpec => []GCIInv
  BY InitGCIInv, GCStep, PTL DEF GCSpec

\* The collector and the uploads of avatars keep their types.
THEOREM GCTypeCorrect == GCSpec => []GCTypeOK
<1>1. GCIInv => GCTypeOK
  BY DEF GCIInv
<1>. QED  BY <1>1, GCInductive, PTL

\* With a collector at work, too, refcounts are exact: it deletes no row that
\* counts a reference, whenever it is dropped and whatever it has read before.
THEOREM CollectorKeepsRefcounts == GCSpec => []ReferencesCounted
<1>1. GCIInv => ReferencesCounted
  BY InvariantCounts DEF GCIInv
<1>. QED  BY <1>1, GCInductive, PTL

\* A step that leaves cores, files and deliveries alone does not show in the vault.
LEMMA CollectorInvisible ==
  UNCHANGED <<cores, files, core, served>> => UNCHANGED Vault!vars
<1>. SUFFICES ASSUME UNCHANGED <<cores, files, core, served>> PROVE UNCHANGED Vault!vars
  OBVIOUS
<1>1. StatusOf' = StatusOf
  BY DEF StatusOf, Status
<1>2. ContentOf' = ContentOf
  BY DEF ContentOf
<1>. QED  BY <1>1, <1>2 DEF Vault!vars

\* With a collector at work, the service implements FileVault as it does without: what
\* collector and avatars do is not seen by whoever has an id, and no key that the collector
\* reclaims makes a core resolve to anything else.
THEOREM CollectorKeepsVault == GCSpec => KeepsVault
<1>1. GCInit => Vault!Init
  BY VaultInit DEF GCInit
<1>2. GCIInv /\ GCIInv' /\ [GCNext]_gcvars => VaultStep
  <2>. SUFFICES ASSUME GCIInv, GCIInv', [GCNext]_gcvars PROVE VaultStep
    OBVIOUS
  <2>1. CASE StoreStep
    BY <2>1, VaultNext DEF StoreStep, GCIInv
  <2>2. CASE InspectStep \/ (\E p \in Painter : PainterStep(p)) \/ UNCHANGED gcvars
    <3>1. UNCHANGED <<cores, files, core, served>>
      BY <2>2 DEF InspectStep, PainterStep, gcvars, vars, db, local
    <3>. QED  BY <3>1, CollectorInvisible DEF VaultStep
  <2>3. CASE ReclaimStep
    <3>1. UNCHANGED <<cores, files, core, served>>
      BY <2>3 DEF ReclaimStep, vars, db, local, painting
    <3>. QED  BY <3>1, CollectorInvisible DEF VaultStep
  <2>. QED  BY <2>1, <2>2, <2>3 DEF GCNext
<1>. QED  BY <1>1, <1>2, GCInductive, PTL DEF GCSpec, KeepsVault, Vault!Spec, VaultStep

\* A row that counts no reference is the row of a key that nothing is counted on.
LEMMA ZeroIsUncounted ==
  ASSUME IInv, NEW d \in Digest, objects[d] # None, objects[d].refcount <= 0
  PROVE  Holders(objects[d].key) = {}
<1>. DEFINE k == objects[d].key
<1>1. objects[d] \in ObjectRow /\ k \in Key
  BY DEF IInv, TypeOK, ObjectRow
<1>2. objects[d].refcount = Count[k] /\ debt \in [Key -> Key \cup {None}]
  BY DEF IInv, Counts, TypeOK
<1>3. IsFiniteSet(Holders(k)) /\ Cardinality(Holders(k)) \in Nat
  BY <1>1, <1>2, HoldersFinite
<1>4. Cardinality(Holders(k)) = 0
  BY <1>1, <1>2, <1>3 DEF Count
<1>. QED  BY <1>3, <1>4, FS_EmptySet

\* What the collector is about to erase is counted on by nobody.
LEMMA ErasesUncounted == GCIInv => ReclaimsUncounted
<1>. SUFFICES ASSUME GCIInv, gpc = "erase", key \in Key, NEW d \in RowsOf(key)
              PROVE  Holders(key) = {}
  BY DEF ReclaimsUncounted
<1>1. /\ objects[d].refcount <= 0 /\ objects[d] # None /\ objects[d].key = key
      /\ d \in Digest /\ IInv
  BY DEF GCIInv, Locking, RowsOf
<1>. QED  BY <1>1, ZeroIsUncounted

\* What the collector erases is counted on by nobody: the row it has locked
\* counts no reference, and where there is no row to lock none comes to be.
THEOREM CollectorReclaimsUncounted == GCSpec => []ReclaimsUncounted
  BY ErasesUncounted, GCInductive, PTL

-----------------------------------------------------------------------------
(***************************************************************************)
(* Contents: the collector takes keys away and gives none a new meaning.   *)
(***************************************************************************)
\* Steps of the collector, of painters and of nobody at all leave keys what they
\* stand for, or take it away.
LEMMA CollectorBindsNothing ==
  ASSUME GCIInv, UNCHANGED <<files, local>>,
         \A d \in Digest : objects'[d] \in {objects[d], None},
         \A k \in Key : blobs'[k] \in {blobs[k], None}, Agreement
  PROVE  Agreement'
<1>1. ASSUME NEW k \in Key, NEW d \in Digest \cup {None}, Binds(k, d)' PROVE Binds(k, d)
  <2>1. d \in RowsOf(k)' => d \in RowsOf(k)
    BY DEF RowsOf
  <2>2. FileBinds(k, d)' => FileBinds(k, d)
    BY DEF FileBinds
  <2>3. UploadBinds(k, d)' => UploadBinds(k, d)
    BY DEF UploadBinds, Owns, local
  <2>. QED  BY <1>1, <2>1, <2>2, <2>3 DEF Binds
<1>. QED  BY <1>1 DEF Agreement

\* No step of anybody makes a key stand for two contents.
LEMMA CollectorAgrees ==
  ASSUME GCIInv, Agreement, [GCNext]_gcvars
  PROVE  Agreement'
<1>0. IInv /\ TypeOK /\ LocalsOK /\ Shape /\ Freshness /\ Debts
  BY TypesOfLocals DEF GCIInv, IInv
<1>1. CASE [Next]_vars
  BY <1>0, <1>1, AgreementStep
<1>2. CASE ReclaimStep
  <2>1. UNCHANGED <<files, local>>
    BY <1>2 DEF ReclaimStep, vars, db, local
  <2>2. /\ \A d \in Digest : objects'[d] \in {objects[d], None}
        /\ \A k \in Key : blobs'[k] \in {blobs[k], None}
    BY <1>2 DEF ReclaimStep, Reclaim, Commit, vars, db
  <2>. QED  BY <2>1, <2>2, CollectorBindsNothing
<1>. QED  BY <1>1, <1>2 DEF GCNext, StoreStep, PainterStep, InspectStep, gcvars

\* With a collector at work, too, everybody gets back what they stored.
THEOREM CollectorKeepsContents == GCSpec => []ContentIntegrity
<1>1. GCInit => Agreement
  BY InitAgreement DEF GCInit
<1>2. GCIInv /\ Agreement /\ [GCNext]_gcvars => Agreement'
  BY CollectorAgrees
<1>3. GCIInv /\ Agreement => ContentIntegrity
  BY AgreementKeeps DEF GCIInv, IInv
<1>. QED  BY <1>1, <1>2, <1>3, GCInductive, PTL DEF GCSpec

\* A key that a reference of its own is counted on is neither erased by the collector,
\* nor does its row go.
LEMMA CollectorSparesOwn ==
  ASSUME GCIInv, OwnRows, OwnBytes, ReclaimStep
  PROVE  OwnRows' /\ OwnBytes'
<1>0. /\ IInv /\ UNCHANGED <<files, local, debt>>
      /\ blobs \in [Key -> Digest \cup {None}] /\ objects \in [Digest -> ObjectRow \cup {None}]
  BY DEF GCIInv, IInv, TypeOK, ReclaimStep, Reclaim, Commit, vars, db, local
<1>1. ASSUME NEW k \in Key, debt[k] = k PROVE RowsOf(k)' # {} /\ blobs'[k] = blobs[k]
  <2>1. PICK d \in Digest : objects[d] # None /\ objects[d].key = k
    BY <1>1 DEF OwnRows, RowsOf
  <2>2. Holders(k) # {}
    BY <1>1 DEF Holders
  <2>3. ~(objects[d].refcount <= 0)
    BY <1>0, <2>1, <2>2, ZeroIsUncounted
  <2>4. objects'[d] = objects[d]
    BY <1>0, <2>3 DEF ReclaimStep, Reclaim, Commit, vars, db
  <2>5. d \in RowsOf(k)'
    BY <2>1, <2>4 DEF RowsOf
  <2>6. Reclaim => k # key
    BY <2>1, <2>2, ErasesUncounted DEF ReclaimsUncounted, Reclaim, RowsOf
  <2>7. blobs'[k] = blobs[k]
    BY <1>0, <2>6 DEF ReclaimStep, Reclaim, vars, db
  <2>. QED  BY <2>5, <2>7
<1>2. OwnRows'
  BY <1>0, <1>1 DEF OwnRows, local
<1>3. ASSUME NEW x \in Part, NEW c \in Core, Keeping(x, c)' PROVE blobs'[<<x, c>>] # None
  <2>1. Keeping(x, c)
    BY <1>0, <1>3 DEF Keeping, UploadKeeps, HasStored, Owns, KeyAs, local
  <2>2. <<x, c>> \in Key /\ debt[<<x, c>>] = <<x, c>> /\ blobs[<<x, c>>] # None
    BY <1>0, <2>1, Keys, KeepingIsCounted DEF OwnBytes
  <2>. QED  BY <1>1, <2>2
<1>. QED  BY <1>2, <1>3 DEF OwnBytes

\* Whatever the collector has read, listed or locked, and whenever it is dropped: a file
\* or thumbnail stored under a key of its own keeps its row and its bytes.
THEOREM CollectorKeepsOwnBytes == GCSpec => []OwnBytesStay
<1>1. GCInit => Agreement /\ OwnRows /\ OwnBytes
  BY InitAgreement, InitOwn DEF GCInit
<1>2. GCIInv /\ Agreement /\ [GCNext]_gcvars => Agreement'
  BY CollectorAgrees
<1>3. GCIInv /\ OwnRows /\ OwnBytes /\ [GCNext]_gcvars => OwnRows' /\ OwnBytes'
  <2>1. IInv /\ OwnRows /\ OwnBytes /\ [Next]_vars => OwnRows' /\ OwnBytes'
    BY OwnRowsStep, OwnBytesStep
  <2>. QED  BY <2>1, CollectorSparesOwn
           DEF GCIInv, GCNext, StoreStep, PainterStep, InspectStep, gcvars
<1>4. GCIInv /\ Agreement /\ OwnRows /\ OwnBytes => OwnBytesStay
  BY OwnInvariant DEF GCIInv
<1>. QED  BY <1>1, <1>2, <1>3, <1>4, GCInductive, PTL DEF GCSpec

-----------------------------------------------------------------------------
(***************************************************************************)
(* A run during which nothing else happens finds everything that is left   *)
(* over: what each stage of it has found so far, and what it has erased.   *)
(***************************************************************************)
FileKey(c) == <<"file", c>>

StrayFile(c) == blobs[FileKey(c)] # None /\ RowsOf(FileKey(c)) = {} /\ ~Referenced(FileKey(c))
StrayRow(d) == objects[d] # None /\ objects[d].refcount <= 0
StrayPicture(k) == k \in pictures /\ ~Referenced(k)

\* The keys that the run has in its report.
Report == orphans \cup {key}

FilesListed ==
  gpc # "idle" => \A c \in Core : blobs[FileKey(c)] # None => FileKey(c) \in inventory

PicturesListed == gpc \notin {"idle", "avatars"} => pictures \subseteq inventory

StraysReported ==
  gpc \notin {"idle", "avatars", "objects"} =>
    /\ \A c \in Core : StrayFile(c) => FileKey(c) \in Report
    /\ \A d \in Digest : StrayRow(d) => objects[d].key \in Report

PicturesReported ==
  gpc \notin {"idle", "avatars", "objects", "users"} =>
    \A k \in pictures : StrayPicture(k) => k \in Report

KeyErased ==
  gpc = "commit" => key \notin pictures /\ \A c \in Core : key = FileKey(c) => blobs[key] = None

Progress ==
  /\ FilesListed /\ PicturesListed /\ StraysReported /\ PicturesReported /\ KeyErased
  /\ LeavesClean

\* A key that is referenced, or whose row counts references, is no stray.
LEMMA CheckedIsNoStray ==
  ASSUME GCIInv, gpc = "check",
         Referenced(key) \/ \E d \in locked : objects[d].refcount > 0
  PROVE  /\ \A c \in Core : key = FileKey(c) => ~StrayFile(c)
         /\ \A d \in Digest : StrayRow(d) => objects[d].key # key
         /\ ~StrayPicture(key)
<1>0. /\ IInv /\ TypeOK /\ Debts /\ Counts /\ GCTypeOK /\ Locking
      /\ \A d \in Digest : objects[d] # None => objects[d].key \in Key /\ objects[d].refcount \in Nat
      /\ \A k \in Key : k \notin AvatarKey
  BY AvatarAssumption DEF GCIInv, IInv, TypeOK, ObjectRow
<1>1. CASE Referenced(key)
  <2>1. ASSUME NEW d \in Digest, StrayRow(d), objects[d].key = key PROVE FALSE
    <3>1. key \in Key /\ objects[d].refcount = Count[key] /\ objects[d].refcount <= 0
      BY <1>0, <2>1 DEF StrayRow, Counts
    <3>2. \A u \in User : avatars[u] # key
      BY <1>0, <3>1, Keys DEF GCTypeOK
    <3>3. PICK c \in Core : files[c] # None /\ files[c].key = key
      BY <1>1, <3>2 DEF Referenced
    <3>4. FileKey(c) \in Key /\ debt[FileKey(c)] = key
      BY <1>0, <3>3, Keys DEF Debts, FileKey
    <3>5. FileKey(c) \in Holders(key)
      BY <3>4 DEF Holders
    <3>6. Cardinality(Holders(key)) \in Nat /\ Cardinality(Holders(key)) # 0
      BY <3>1, <3>5, HoldersFinite, FS_EmptySet
    <3>. QED  BY <1>0, <2>1, <3>1, <3>6 DEF Count
  <2>. QED  BY <1>1, <2>1 DEF StrayFile, StrayPicture
<1>2. ASSUME NEW d \in locked, objects[d].refcount > 0
      PROVE  /\ \A c \in Core : key = FileKey(c) => ~StrayFile(c)
             /\ \A e \in Digest : StrayRow(e) => objects[e].key # key
             /\ ~StrayPicture(key)
  <2>1. key \in Key /\ d \in RowsOf(key)
    BY <1>0, <1>2 DEF Locking
  <2>2. \A e \in Digest : objects[e] # None /\ objects[e].key = key => e = d
    BY <1>0, <2>1 DEF Counts, RowsOf
  <2>3. ~(objects[d].refcount <= 0)
    BY <1>0, <1>2, <2>1 DEF RowsOf
  <2>4. key \notin pictures
    BY <1>0, <2>1 DEF GCTypeOK
  <2>. QED  BY <2>1, <2>2, <2>3, <2>4 DEF StrayFile, StrayRow, StrayPicture
<1>. QED  BY <1>1, <1>2

\* Where no table and no bytes change, strays are what they were.
LEMMA StraysSame ==
  ASSUME UNCHANGED <<objects, blobs, files, avatars, pictures>>
  PROVE  /\ \A c : StrayFile(c)' <=> StrayFile(c)
         /\ \A d : StrayRow(d)' <=> StrayRow(d)
         /\ \A k : StrayPicture(k)' <=> StrayPicture(k)
  BY DEF StrayFile, StrayRow, StrayPicture, RowsOf, Referenced, FileKey

\* What inspect has found, it has found all of.
LEMMA InspectProgress ==
  ASSUME GCIInv, GCIInv', alone => Progress, alone', InspectStep
  PROVE  Progress'
<1>0. /\ UNCHANGED <<objects, blobs, files, avatars, pictures, key, locked>>
      /\ GCTypeOK /\ GCTypeOK' /\ key = None
      /\ \A k \in pictures : k \in AvatarKey
      /\ \A c \in Core : FileKey(c) \in Key
      /\ \A d \in Digest : objects[d] # None => objects[d].key \in Key
  BY Keys DEF InspectStep, ListFiles, ListAvatars, ReadObjects, ReadUsers, vars, painting,
     GCIInv, GCTypeOK, IInv, TypeOK, ObjectRow, FileKey
<1>1. CASE ListFiles
  <2>1. gpc' = "avatars" /\ inventory' = {k \in {"file"} \X Core : blobs[k] # None}
    BY <1>1 DEF ListFiles
  <2>2. FilesListed'
    BY <1>0, <2>1 DEF FilesListed, FileKey
  <2>. QED  BY <2>1, <2>2 DEF Progress, PicturesListed, StraysReported, PicturesReported,
                             KeyErased, LeavesClean
<1>2. CASE ListAvatars /\ alone
  <2>1. gpc = "avatars" /\ gpc' = "objects" /\ inventory' = inventory \cup pictures
    BY <1>2 DEF ListAvatars
  <2>2. FilesListed' /\ PicturesListed'
    BY <1>0, <1>2, <2>1 DEF Progress, FilesListed, PicturesListed, FileKey
  <2>. QED  BY <2>1, <2>2 DEF Progress, StraysReported, PicturesReported, KeyErased, LeavesClean
<1>3. CASE ReadObjects /\ alone
  <2>1. /\ gpc = "objects" /\ gpc' = "users" /\ inventory' = inventory
        /\ orphans' = {k \in Key : \E d \in RowsOf(k) : objects[d].refcount <= 0}
                        \cup {k \in inventory \cap Key : RowsOf(k) = {}}
    BY <1>3 DEF ReadObjects
  <2>2. FilesListed' /\ PicturesListed'
    BY <1>0, <1>3, <2>1 DEF Progress, FilesListed, PicturesListed, FileKey
  <2>3. ASSUME NEW c \in Core, StrayFile(c) PROVE FileKey(c) \in orphans'
    BY <1>0, <1>3, <2>1, <2>3 DEF Progress, FilesListed, StrayFile
  <2>4. ASSUME NEW d \in Digest, StrayRow(d) PROVE objects[d].key \in orphans'
    <3>1. d \in RowsOf(objects[d].key) /\ objects[d].refcount <= 0 /\ objects[d].key \in Key
      BY <1>0, <2>4 DEF StrayRow, RowsOf
    <3>. QED  BY <2>1, <3>1
  <2>5. StraysReported'
    BY <1>0, <2>3, <2>4, StraysSame DEF StraysReported, Report, FileKey
  <2>. QED  BY <2>1, <2>2, <2>5 DEF Progress, PicturesReported, KeyErased, LeavesClean
<1>4. CASE ReadUsers /\ alone
  <2>1. /\ gpc = "users" /\ gpc' = "reclaim" /\ inventory' = inventory
        /\ orphans' = orphans \cup {k \in inventory \cap AvatarKey : \A u \in User : avatars[u] # k}
    BY <1>4 DEF ReadUsers
  <2>2. FilesListed' /\ PicturesListed'
    BY <1>0, <1>4, <2>1 DEF Progress, FilesListed, PicturesListed, FileKey
  <2>3. StraysReported'
    <3>1. StraysReported /\ orphans \subseteq orphans'
      BY <1>4, <2>1 DEF Progress
    <3>. QED  BY <1>0, <2>1, <3>1, StraysSame DEF StraysReported, Report, FileKey
  <2>4. ASSUME NEW k \in pictures, StrayPicture(k) PROVE k \in orphans'
    <3>1. k \in inventory \cap AvatarKey
      BY <1>0, <1>4, <2>1 DEF Progress, PicturesListed
    <3>2. \A u \in User : avatars[u] # k
      BY <2>4 DEF StrayPicture, Referenced
    <3>. QED  BY <2>1, <3>1, <3>2
  <2>5. PicturesReported'
    BY <1>0, <2>4, StraysSame DEF PicturesReported, Report
  <2>. QED  BY <2>1, <2>2, <2>3, <2>5 DEF Progress, KeyErased, LeavesClean
<1>. QED  BY <1>1, <1>2, <1>3, <1>4 DEF InspectStep

\* Reclaiming takes out of the report only what is no stray, or none any more.
LEMMA ReclaimProgress ==
  ASSUME GCIInv, GCIInv', Progress, alone', ReclaimStep
  PROVE  Progress'
<1>0. /\ IInv /\ TypeOK /\ GCTypeOK /\ GCTypeOK' /\ Locking
      /\ FilesListed /\ PicturesListed /\ StraysReported /\ PicturesReported /\ KeyErased
      /\ \A k \in pictures : k \in AvatarKey
      /\ \A c \in Core : FileKey(c) \in Key
      /\ \A d \in Digest : objects[d] # None => objects[d].key \in Key /\ objects[d].refcount \in Nat
      /\ \A k \in Key : k \notin AvatarKey /\ k # None
      /\ blobs \in [Key -> Digest \cup {None}] /\ objects \in [Digest -> ObjectRow \cup {None}]
  BY Keys, AvatarAssumption DEF GCIInv, IInv, GCTypeOK, TypeOK, ObjectRow, FileKey, Progress
<1>1. CASE Begin /\ UNCHANGED <<vars, painting, alone, keeping>>
  <2>1. UNCHANGED <<objects, blobs, files, avatars, pictures, inventory>>
    BY <1>1 DEF Begin, vars, painting
  <2>2. gpc = "reclaim" /\ gpc' = "check" /\ orphans \subseteq Report'
    BY <1>1 DEF Begin, Report
  <2>3. key = None
    BY <1>0, <2>2 DEF GCTypeOK
  <2>4. \A k : k \in Report /\ k # None => k \in Report'
    BY <2>2, <2>3 DEF Report
  <2>5. /\ \A c \in Core : FileKey(c) # None
        /\ \A d \in Digest : StrayRow(d) => objects[d].key # None
        /\ \A k \in pictures : k # None
    BY <1>0, AvatarAssumption DEF StrayRow
  <2>6. /\ \A c \in Core : StrayFile(c) => FileKey(c) \in Report'
        /\ \A d \in Digest : StrayRow(d) => objects[d].key \in Report'
        /\ \A k \in pictures : StrayPicture(k) => k \in Report'
    BY <1>0, <2>2, <2>4, <2>5 DEF StraysReported, PicturesReported
  <2>7. StraysReported' /\ PicturesReported'
    BY <2>1, <2>6, StraysSame DEF StraysReported, PicturesReported, FileKey
  <2>. QED  BY <1>0, <2>1, <2>2, <2>7
           DEF Progress, FilesListed, PicturesListed, KeyErased, LeavesClean, FileKey
<1>2. CASE Check /\ UNCHANGED <<vars, painting, alone, keeping>>
  <2>1. /\ UNCHANGED <<objects, blobs, files, avatars, pictures, inventory, orphans>>
        /\ gpc = "check" /\ gpc' \in {"reclaim", "erase"}
    BY <1>2 DEF Check, Unlock, vars, painting
  <2>2. CASE key' = key
    <3>1. StraysReported' /\ PicturesReported'
      BY <1>0, <2>1, <2>2, StraysSame DEF StraysReported, PicturesReported, Report
    <3>. QED  BY <1>0, <2>1, <3>1
             DEF Progress, FilesListed, PicturesListed, KeyErased, LeavesClean, FileKey
  <2>3. CASE Referenced(key) \/ \E d \in locked : objects[d].refcount > 0
    <3>1. /\ \A c \in Core : StrayFile(c) => FileKey(c) \in orphans
          /\ \A d \in Digest : StrayRow(d) => objects[d].key \in orphans
          /\ \A k \in pictures : StrayPicture(k) => k \in orphans
      BY <1>0, <2>1, <2>3, CheckedIsNoStray DEF StraysReported, PicturesReported, Report
    <3>2. StraysReported' /\ PicturesReported'
      BY <2>1, <3>1, StraysSame DEF StraysReported, PicturesReported, Report
    <3>. QED  BY <1>0, <2>1, <3>2
             DEF Progress, FilesListed, PicturesListed, KeyErased, LeavesClean, FileKey
  <2>. QED  BY <1>2, <2>2, <2>3 DEF Check
<1>3. CASE Finish /\ UNCHANGED <<vars, painting, alone, keeping>>
  <2>1. /\ UNCHANGED <<objects, blobs, files, avatars, pictures, orphans, key>>
        /\ gpc = "reclaim" /\ gpc' = "idle" /\ orphans = {}
    BY <1>3 DEF Finish, vars, painting
  <2>2. key = None
    BY <1>0, <2>1 DEF GCTypeOK
  <2>3. /\ \A c \in Core : ~StrayFile(c)
        /\ \A d \in Digest : ~StrayRow(d)
        /\ \A k \in pictures : ~StrayPicture(k)
    <3>1. Report = {None}
      BY <2>1, <2>2 DEF Report
    <3>. QED  BY <1>0, <2>1, <3>1, AvatarAssumption DEF StraysReported, PicturesReported, StrayRow
  <2>4. /\ \A c \in Core : blobs[FileKey(c)] # None =>
             RowsOf(FileKey(c)) # {} \/ Referenced(FileKey(c))
        /\ \A d \in Digest : objects[d] # None => objects[d].refcount > 0
        /\ \A k \in pictures : Referenced(k)
    BY <1>0, <2>3 DEF StrayFile, StrayRow, StrayPicture
  <2>5. LeavesClean'
    BY <2>1, <2>4 DEF LeavesClean, FileKey, RowsOf, Referenced
  <2>. QED  BY <2>1, <2>5
           DEF Progress, FilesListed, PicturesListed, StraysReported, PicturesReported, KeyErased
<1>4. CASE Reclaim /\ UNCHANGED <<db, local, todo, debt, served, avatars, apc, draft, alone, keeping>>
  <2>1. /\ UNCHANGED <<objects, files, avatars, inventory, orphans, key>>
        /\ gpc = "erase" /\ gpc' = "commit"
        /\ blobs' = [k \in Key |-> IF k = key /\ k \in inventory THEN None ELSE blobs[k]]
        /\ pictures' = pictures \ ({key} \cap inventory)
    BY <1>4 DEF Reclaim, db
  <2>2. \A k \in Key : blobs'[k] # None => blobs[k] # None
    BY <2>1
  <2>3. FilesListed' /\ PicturesListed'
    BY <1>0, <2>1, <2>2 DEF FilesListed, PicturesListed, FileKey
  <2>4. /\ \A c \in Core : StrayFile(c)' => StrayFile(c)
        /\ \A d \in Digest : StrayRow(d)' => StrayRow(d)
        /\ \A k \in pictures' : k \in pictures /\ (StrayPicture(k)' => StrayPicture(k))
    BY <1>0, <2>1, <2>2 DEF StrayFile, StrayRow, StrayPicture, RowsOf, Referenced, FileKey
  <2>5. StraysReported'
    BY <1>0, <2>1, <2>4 DEF StraysReported, Report, FileKey
  <2>6. PicturesReported'
    BY <1>0, <2>1, <2>4 DEF PicturesReported, Report
  <2>7. KeyErased'
    <3>1. key \notin pictures'
      BY <1>0, <2>1 DEF PicturesListed
    <3>2. ASSUME NEW c \in Core, key = FileKey(c) PROVE blobs'[key] = None
      <4>1. key \in Key /\ (blobs[key] # None => key \in inventory)
        BY <1>0, <2>1, <3>2 DEF FilesListed
      <4>. QED  BY <2>1, <4>1
    <3>. QED  BY <2>1, <3>1, <3>2 DEF KeyErased, FileKey
  <2>. QED  BY <2>1, <2>3, <2>5, <2>6, <2>7 DEF Progress, LeavesClean
<1>5. CASE Commit /\ UNCHANGED <<cores, blobs, files, local, todo, debt, served, painting, alone, keeping>>
  <2>1. /\ UNCHANGED <<blobs, files, avatars, pictures, inventory, orphans>>
        /\ gpc = "commit" /\ gpc' = "reclaim" /\ key' = None
        /\ objects' = [d \in Digest |->
             IF d \in locked /\ objects[d].refcount <= 0 THEN None ELSE objects[d]]
    BY <1>5 DEF Commit, Unlock, painting
  <2>2. ASSUME NEW c \in Core, StrayFile(c)' PROVE FileKey(c) \in orphans
    <3>1. blobs[FileKey(c)] # None /\ ~Referenced(FileKey(c)) /\ RowsOf(FileKey(c))' = {}
      BY <2>1, <2>2 DEF StrayFile, Referenced, FileKey
    <3>2. key # FileKey(c)
      BY <1>0, <2>1, <3>1 DEF KeyErased
    <3>3. ASSUME NEW d \in RowsOf(FileKey(c)) PROVE FALSE
      <4>1. d \in Digest /\ objects[d] # None /\ objects[d].key = FileKey(c)
        BY DEF RowsOf
      <4>2. d \notin locked
        BY <1>0, <3>2, <4>1 DEF Locking, RowsOf
      <4>3. objects'[d] = objects[d]
        BY <2>1, <4>1, <4>2
      <4>. QED  BY <3>1, <4>1, <4>3 DEF RowsOf, FileKey
    <3>. QED  BY <1>0, <2>1, <3>1, <3>2, <3>3 DEF StrayFile, StraysReported, Report
  <2>3. ASSUME NEW d \in Digest, StrayRow(d)' PROVE objects'[d].key \in orphans
    <3>1. objects'[d] = objects[d] /\ StrayRow(d) /\ d \notin locked
      BY <2>1, <2>3 DEF StrayRow
    <3>2. objects[d].key # key
      BY <1>0, <3>1 DEF Locking, RowsOf, StrayRow
    <3>. QED  BY <1>0, <2>1, <3>1, <3>2 DEF StraysReported, Report
  <2>4. ASSUME NEW k \in pictures, StrayPicture(k)' PROVE k \in orphans
    <3>1. StrayPicture(k) /\ k # key
      BY <1>0, <2>1, <2>4 DEF StrayPicture, Referenced, KeyErased
    <3>. QED  BY <1>0, <2>1, <3>1 DEF PicturesReported, Report
  <2>5. StraysReported' /\ PicturesReported'
    BY <2>1, <2>2, <2>3, <2>4 DEF StraysReported, PicturesReported, Report, FileKey
  <2>. QED  BY <1>0, <2>1, <2>5
           DEF Progress, FilesListed, PicturesListed, KeyErased, LeavesClean, FileKey
<1>6. CASE GiveUp /\ alone' = FALSE
  BY <1>6
<1>. QED  BY <1>1, <1>2, <1>3, <1>4, <1>5, <1>6 DEF ReclaimStep

\* Steps of others end the run that was alone, or change nothing.
LEMMA AloneProgress ==
  ASSUME GCIInv, GCIInv', alone => Progress, alone', [GCNext]_gcvars
  PROVE  Progress'
<1>1. CASE alone /\ UNCHANGED <<vars, painting, collecting>>
  <2>1. UNCHANGED <<objects, blobs, files, avatars, pictures, gpc, inventory, orphans, key>>
    BY <1>1 DEF vars, painting, collecting
  <2>2. LeavesClean'
    BY <1>1, <2>1 DEF Progress, LeavesClean, RowsOf, Referenced
  <2>. QED  BY <1>1, <2>1, <2>2, StraysSame
           DEF Progress, FilesListed, PicturesListed, StraysReported, PicturesReported,
               KeyErased, Report, FileKey
<1>2. CASE StoreStep
  BY <1>1, <1>2 DEF StoreStep
<1>3. CASE \E p \in Painter : PainterStep(p)
  BY <1>3 DEF PainterStep
<1>4. CASE InspectStep
  BY <1>4, InspectProgress
<1>5. CASE ReclaimStep
  <2>1. alone \/ ~alone'
    BY <1>5 DEF ReclaimStep
  <2>. QED  BY <1>5, <2>1, ReclaimProgress
<1>6. CASE UNCHANGED gcvars
  BY <1>1, <1>6 DEF gcvars
<1>. QED  BY <1>2, <1>3, <1>4, <1>5, <1>6 DEF GCNext

\* A run of the collector during which nothing else happens leaves no file and no
\* picture without a reference and no row that counts none.
THEOREM CollectorLeavesClean == GCSpec => []LeavesClean
<1>. DEFINE Tidy == alone => Progress
<1>1. GCInit => GCIInv /\ Tidy
  BY InitGCIInv DEF GCInit
<1>2. GCIInv /\ Tidy /\ [GCNext]_gcvars => GCIInv' /\ Tidy'
  BY GCStep, AloneProgress
<1>3. Tidy => LeavesClean
  BY DEF Progress, LeavesClean
<1>. QED
  <2>. HIDE DEF Tidy
  <2>. QED  BY <1>1, <1>2, <1>3, PTL DEF GCSpec

-----------------------------------------------------------------------------
(***************************************************************************)
(* Avatars: what an upload that is alone has stored, the collector and the *)
(* uploads of other users leave alone.                                     *)
(***************************************************************************)
\* Users have avatars of their own.
OwnKeys ==
  /\ \A u \in User : avatars[u] # None => avatars[u][1] = u
  /\ \A p \in Painter : apc[p] # "idle" /\ draft[p].old # None =>
       draft[p].old[1] = draft[p].user

\* Who is alone has company neither of the collector nor of the user's other uploads.
SoleAlone ==
  \A p \in Painter : apc[p] # "idle" /\ sole[p] = TRUE =>
    gpc = "idle" /\ PaintersOf(draft[p].user) = {p}

\* It has stored what it will set, and deletes something else.
SoleStored ==
  \A p \in Painter :
    /\ apc[p] \in {"drop", "set"} /\ sole[p] = TRUE => draft[p].key \in pictures
    /\ apc[p] = "drop" => draft[p].old \notin {None, draft[p].key}

\* The collector is about to erase no avatar that a sole upload has set.
SparesSteady == gpc = "erase" => \A u \in User : steady[u] = TRUE => avatars[u] # key

AvatarInv == OwnKeys /\ SoleAlone /\ SoleStored /\ SparesSteady /\ AvatarStored

\* Nobody is alone while the collector is at work.
LEMMA CollectingAlone ==
  ASSUME AvatarInv, gpc # "idle", NEW p \in Painter, apc[p] # "idle"
  PROVE  sole[p] # TRUE
BY DEF AvatarInv, SoleAlone

\* A step that changes no avatar and no upload of one, while the collector is at work.
LEMMA CollectingStep ==
  ASSUME GCIInv, AvatarInv, UNCHANGED <<avatars, apc, draft, steady>>,
         \A p \in Painter : apc[p] # "idle" => sole'[p] # TRUE,
         \A u \in User : steady[u] = TRUE /\ avatars[u] \in pictures => avatars[u] \in pictures',
         SparesSteady'
  PROVE  AvatarInv'
<1>1. OwnKeys' /\ SoleAlone' /\ SoleStored'
  BY DEF AvatarInv, OwnKeys, SoleAlone, SoleStored
<1>2. AvatarStored'
  BY DEF AvatarInv, AvatarStored, GCIInv, GCTypeOK
<1>. QED  BY <1>1, <1>2 DEF AvatarInv

\* inspect reads.
LEMMA InspectSpares == GCIInv /\ AvatarInv /\ InspectStep => AvatarInv'
<1>. SUFFICES ASSUME GCIInv, AvatarInv, InspectStep PROVE AvatarInv'
  OBVIOUS
<1>1. UNCHANGED <<avatars, apc, draft, pictures, steady>> /\ gpc' # "erase"
  BY DEF InspectStep, ListFiles, ListAvatars, ReadObjects, ReadUsers, painting
<1>2. ASSUME NEW p \in Painter, apc[p] # "idle" PROVE sole'[p] # TRUE
  <2>1. CASE ListFiles /\ sole' = [q \in Painter |-> FALSE]
    BY <2>1
  <2>2. CASE gpc # "idle" /\ sole' = sole
    BY <1>2, <2>2, CollectingAlone
  <2>. QED  BY <2>1, <2>2 DEF InspectStep, ListAvatars, ReadObjects, ReadUsers
<1>. QED  BY <1>1, <1>2, CollectingStep DEF SparesSteady

\* reclaim erases what nobody named when it was checked, and who has set an avatar since was
\* not alone.
LEMMA ReclaimSpares == GCIInv /\ AvatarInv /\ ReclaimStep => AvatarInv'
<1>. SUFFICES ASSUME GCIInv, AvatarInv, ReclaimStep PROVE AvatarInv'
  OBVIOUS
<1>1. UNCHANGED <<avatars, apc, draft, sole, steady>> /\ gpc # "idle"
  BY DEF ReclaimStep, Begin, Check, Reclaim, Commit, Finish, GiveUp, painting, keeping
<1>2. \A p \in Painter : apc[p] # "idle" => sole'[p] # TRUE
  BY <1>1, CollectingAlone
<1>3. SparesSteady'
  <2>1. CASE gpc' = "erase"
    <3>1. Check /\ key' = key /\ ~Referenced(key)
      BY <2>1 DEF ReclaimStep, Begin, Check, Unlock, Reclaim, Commit, Finish, GiveUp
    <3>. QED  BY <1>1, <3>1 DEF Referenced, SparesSteady
  <2>. QED  BY <2>1 DEF SparesSteady
<1>4. \A u \in User : steady[u] = TRUE /\ avatars[u] \in pictures => avatars[u] \in pictures'
  <2>1. CASE gpc = "erase" /\ pictures' = pictures \ ({key} \cap inventory)
    BY <2>1 DEF AvatarInv, SparesSteady
  <2>2. CASE pictures' = pictures
    BY <2>2
  <2>. QED  BY <2>1, <2>2 DEF ReclaimStep, Reclaim, painting
<1>. QED  BY <1>1, <1>2, <1>3, <1>4, CollectingStep

\* What a handler other than p is doing is not touched by a step of p.
LEMMA PainterFrame ==
  ASSUME GCIInv, NEW p \in Painter, PainterStep(p)
  PROVE  /\ UNCHANGED <<gpc, key>>
         /\ \A q \in Painter : q # p => apc'[q] = apc[q] /\ draft'[q] = draft[q]
<1>1. /\ UNCHANGED <<gpc, key>>
      /\ \E next : apc' = [apc EXCEPT ![p] = next]
      /\ draft' = draft \/ \E d : draft' = [draft EXCEPT ![p] = d]
  BY DEF PainterStep, LoadUser, PutAvatar, DropOldAvatar, SetAvatar, AvatarFails, AvatarGoto,
         collecting
<1>. QED  BY <1>1 DEF GCIInv, GCTypeOK

\* current_user: who comes second ends the solitude of the first.
LEMMA LoadUserSpares ==
  ASSUME GCIInv, AvatarInv, NEW p \in Painter, PainterStep(p), LoadUser(p)
  PROVE  AvatarInv'
<1>0. /\ GCTypeOK /\ OwnKeys /\ SoleAlone /\ SoleStored /\ SparesSteady /\ AvatarStored
      /\ UNCHANGED <<avatars, pictures, steady, gpc, key>>
      /\ apc[p] = "idle" /\ apc' = [apc EXCEPT ![p] = "put"]
  BY PainterFrame DEF GCIInv, AvatarInv, LoadUser, AvatarGoto
<1>1. PICK u \in User, e \in Ext :
        /\ draft' = [draft EXCEPT ![p] = [user |-> u, key |-> <<u, e>>, old |-> avatars[u]]]
        /\ sole' = [q \in Painter |-> IF q = p THEN gpc = "idle" /\ PaintersOf(u) = {}
                                      ELSE sole[q] /\ q \notin PaintersOf(u)]
  BY DEF LoadUser
<1>2. /\ apc'[p] = "put"
      /\ draft'[p] = [user |-> u, key |-> <<u, e>>, old |-> avatars[u]]
      /\ \A q \in Painter \ {p} : apc'[q] = apc[q] /\ draft'[q] = draft[q]
  BY <1>0, <1>1 DEF GCTypeOK
<1>3. OwnKeys'
  BY <1>0, <1>2 DEF OwnKeys
<1>4. PaintersOf(u)' = PaintersOf(u) \cup {p}
  BY <1>0, <1>2 DEF PaintersOf
<1>5. \A w \in User \ {u} : PaintersOf(w)' = PaintersOf(w)
  BY <1>0, <1>2 DEF PaintersOf
<1>6. SoleAlone'
  <2>1. ASSUME sole'[p] = TRUE PROVE gpc' = "idle" /\ PaintersOf(draft[p].user)' = {p}
    <3>1. gpc = "idle" /\ PaintersOf(u) = {}
      BY <1>1, <2>1
    <3>. QED  BY <1>0, <1>2, <1>4, <3>1
  <2>2. ASSUME NEW q \in Painter \ {p}, apc'[q] # "idle", sole'[q] = TRUE
        PROVE  gpc' = "idle" /\ PaintersOf(draft[q].user)' = {q}
    <3>1. sole[q] = TRUE /\ q \notin PaintersOf(u)
      BY <1>0, <1>1, <2>2 DEF GCTypeOK
    <3>2. gpc = "idle" /\ PaintersOf(draft[q].user) = {q}
      BY <1>0, <1>2, <2>2, <3>1 DEF SoleAlone
    <3>3. draft[q].user \in User \ {u}
      BY <1>2, <2>2, <3>1 DEF GCIInv, Drafting, Draft, PaintersOf
    <3>. QED  BY <1>0, <1>2, <1>5, <3>2, <3>3
  <2>. QED  BY <2>1, <2>2 DEF SoleAlone
<1>7. SoleStored'
  <2>1. \A q \in Painter \ {p} : sole'[q] = TRUE => sole[q] = TRUE
    BY <1>0, <1>1 DEF GCTypeOK
  <2>. QED  BY <1>0, <1>2, <2>1 DEF SoleStored
<1>. QED  BY <1>0, <1>3, <1>6, <1>7 DEF AvatarInv, SparesSteady, AvatarStored

\* The put adds to what is stored.
LEMMA PutAvatarSpares ==
  ASSUME GCIInv, AvatarInv, NEW p \in Painter, PainterStep(p), PutAvatar(p)
  PROVE  AvatarInv'
<1>0. /\ GCTypeOK /\ OwnKeys /\ SoleAlone /\ SoleStored /\ SparesSteady /\ AvatarStored
      /\ UNCHANGED <<avatars, draft, sole, steady, gpc, key>>
      /\ apc[p] = "put" /\ pictures' = pictures \cup {draft[p].key}
      /\ apc' = [apc EXCEPT ![p] = IF draft[p].old \in {None, draft[p].key} THEN "set" ELSE "drop"]
  BY PainterFrame DEF GCIInv, AvatarInv, PutAvatar, AvatarGoto, keeping
<1>1. \A q \in Painter :
        /\ apc'[q] # "idle" <=> apc[q] # "idle"
        /\ q # p => apc'[q] = apc[q]
        /\ apc'[p] = "drop" => draft[p].old \notin {None, draft[p].key}
  BY <1>0 DEF GCTypeOK
<1>2. OwnKeys' /\ SoleAlone'
  <2>1. \A w : PaintersOf(w)' = PaintersOf(w)
    BY <1>0, <1>1 DEF PaintersOf
  <2>. QED  BY <1>0, <1>1, <2>1 DEF OwnKeys, SoleAlone
<1>3. SoleStored'
  BY <1>0, <1>1 DEF SoleStored
<1>. QED  BY <1>0, <1>2, <1>3 DEF AvatarInv, SparesSteady, AvatarStored

\* What is deleted is the key of a user who has lost the promise, and of nobody else.
LEMMA DropOldSpares ==
  ASSUME GCIInv, AvatarInv, NEW p \in Painter, PainterStep(p), DropOldAvatar(p)
  PROVE  AvatarInv'
<1>0. /\ GCTypeOK /\ OwnKeys /\ SoleAlone /\ SoleStored /\ SparesSteady /\ AvatarStored
      /\ UNCHANGED <<avatars, draft, sole, gpc, key>>
      /\ apc[p] = "drop" /\ apc' = [apc EXCEPT ![p] = "set"]
      /\ steady' = [steady EXCEPT ![draft[p].user] = FALSE]
      /\ pictures \ {draft[p].old} \subseteq pictures'
  BY PainterFrame DEF GCIInv, AvatarInv, DropOldAvatar, AvatarGoto
<1>1. \A q \in Painter :
        /\ apc'[q] # "idle" <=> apc[q] # "idle"
        /\ apc'[q] # "drop" \/ apc'[q] = apc[q]
        /\ q # p => apc'[q] = apc[q]
        /\ apc[q] # "idle" => draft[q] \in Draft
  BY <1>0 DEF GCTypeOK, GCIInv, Drafting
<1>2. /\ draft[p].user \in User
      /\ draft[p].old # draft[p].key /\ draft[p].old # None
      /\ draft[p].old[1] = draft[p].user
  BY <1>0, <1>1 DEF SoleStored, OwnKeys, Draft
<1>3. OwnKeys' /\ SoleAlone'
  <2>1. \A w : PaintersOf(w)' = PaintersOf(w)
    BY <1>0, <1>1 DEF PaintersOf
  <2>. QED  BY <1>0, <1>1, <2>1 DEF OwnKeys, SoleAlone
<1>4. SoleStored'
  <2>1. ASSUME NEW q \in Painter, apc'[q] \in {"drop", "set"}, sole[q] = TRUE
        PROVE  draft[q].key \in pictures'
    <3>1. CASE q = p
      BY <1>0, <1>2, <2>1, <3>1 DEF SoleStored
    <3>2. CASE q # p
      <4>1. apc[q] \in {"drop", "set"} /\ draft[q].key \in pictures /\ draft[q] \in Draft
        BY <1>0, <1>1, <2>1, <3>2 DEF SoleStored
      <4>2. p \notin PaintersOf(draft[q].user)
        BY <1>0, <2>1, <3>2, <4>1 DEF SoleAlone
      <4>3. draft[p].user # draft[q].user
        BY <1>0, <4>2 DEF PaintersOf
      <4>4. draft[q].key # draft[p].old
        BY <1>2, <4>1, <4>3 DEF Draft
      <4>. QED  BY <1>0, <4>1, <4>4
    <3>. QED  BY <3>1, <3>2
  <2>. QED  BY <1>0, <1>1, <2>1 DEF SoleStored
<1>5. SparesSteady' /\ AvatarStored'
  <2>1. \A u \in User : steady'[u] = TRUE => u # draft[p].user /\ steady[u] = TRUE
    BY <1>0, <1>2 DEF GCTypeOK
  <2>2. ASSUME NEW u \in User, steady'[u] = TRUE PROVE avatars[u] \in pictures'
    <3>1. avatars[u] \in pictures
      BY <1>0, <2>1, <2>2 DEF AvatarStored
    <3>2. avatars[u] # None
      BY <1>0, <3>1, AvatarAssumption DEF GCTypeOK
    <3>3. avatars[u] # draft[p].old
      BY <1>0, <1>2, <2>1, <2>2, <3>2 DEF OwnKeys
    <3>. QED  BY <1>0, <3>1, <3>3
  <2>3. \A u \in User : steady'[u] \in BOOLEAN
    BY <1>0 DEF GCTypeOK
  <2>. QED  BY <1>0, <2>1, <2>2, <2>3 DEF SparesSteady, AvatarStored
<1>. QED  BY <1>3, <1>4, <1>5 DEF AvatarInv

\* A sole upload sets what it has stored.
LEMMA SetAvatarSpares ==
  ASSUME GCIInv, AvatarInv, NEW p \in Painter, PainterStep(p), SetAvatar(p)
  PROVE  AvatarInv'
<1>0. /\ GCTypeOK /\ OwnKeys /\ SoleAlone /\ SoleStored /\ SparesSteady /\ AvatarStored
      /\ UNCHANGED <<pictures, sole, gpc, key>>
      /\ apc[p] = "set" /\ apc' = [apc EXCEPT ![p] = "idle"]
      /\ draft' = [draft EXCEPT ![p] = None]
      /\ avatars' = [avatars EXCEPT ![draft[p].user] = draft[p].key]
      /\ steady' = [steady EXCEPT ![draft[p].user] = sole[p]]
      /\ draft[p] \in Draft
  BY PainterFrame DEF GCIInv, Drafting, AvatarInv, SetAvatar, AvatarGoto
<1>1. /\ apc'[p] = "idle"
      /\ \A q \in Painter \ {p} : apc'[q] = apc[q] /\ draft'[q] = draft[q]
      /\ \A u \in User : IF u = draft[p].user
                         THEN avatars'[u] = draft[p].key /\ steady'[u] = sole[p]
                         ELSE avatars'[u] = avatars[u] /\ steady'[u] = steady[u]
  BY <1>0 DEF GCTypeOK
<1>2. OwnKeys'
  BY <1>0, <1>1 DEF OwnKeys, Draft
<1>3. SoleAlone'
  <2>1. \A w : PaintersOf(w)' = PaintersOf(w) \ {p}
    BY <1>1 DEF PaintersOf
  <2>. QED  BY <1>0, <1>1, <2>1 DEF SoleAlone
<1>4. SoleStored'
  BY <1>0, <1>1 DEF SoleStored
<1>5. SparesSteady'
  <2>1. gpc = "erase" => sole[p] # TRUE
    BY <1>0, CollectingAlone
  <2>. QED  BY <1>0, <1>1, <2>1 DEF SparesSteady
<1>6. AvatarStored'
  <2>1. sole[p] => draft[p].key \in pictures
    BY <1>0 DEF SoleStored, GCTypeOK
  <2>. QED  BY <1>0, <1>1, <2>1 DEF AvatarStored
<1>. QED  BY <1>2, <1>3, <1>4, <1>5, <1>6 DEF AvatarInv

\* An upload that fails leaves bytes behind at most.
LEMMA AvatarFailsSpares ==
  ASSUME GCIInv, AvatarInv, NEW p \in Painter, PainterStep(p), AvatarFails(p)
  PROVE  AvatarInv'
<1>0. /\ GCTypeOK /\ OwnKeys /\ SoleAlone /\ SoleStored /\ SparesSteady /\ AvatarStored
      /\ UNCHANGED <<avatars, sole, steady, gpc, key>>
      /\ apc' = [apc EXCEPT ![p] = "idle"]
      /\ pictures \subseteq pictures'
  BY PainterFrame DEF GCIInv, AvatarInv, AvatarFails, AvatarGoto, keeping
<1>1. /\ apc'[p] = "idle"
      /\ \A q \in Painter \ {p} : apc'[q] = apc[q] /\ draft'[q] = draft[q]
  BY <1>0, PainterFrame DEF GCTypeOK
<1>2. \A w : PaintersOf(w)' = PaintersOf(w) \ {p}
  BY <1>1 DEF PaintersOf
<1>3. OwnKeys' /\ SoleAlone' /\ SoleStored'
  BY <1>0, <1>1, <1>2 DEF OwnKeys, SoleAlone, SoleStored
<1>. QED  BY <1>0, <1>3 DEF AvatarInv, SparesSteady, AvatarStored

\* Every step spares what a sole upload has set.
LEMMA StepSpares == GCIInv /\ AvatarInv /\ [GCNext]_gcvars => AvatarInv'
<1>. SUFFICES ASSUME GCIInv, AvatarInv, [GCNext]_gcvars PROVE AvatarInv'
  OBVIOUS
<1>1. CASE StoreStep \/ UNCHANGED gcvars
  <2>1. UNCHANGED <<painting, collecting, keeping>>
    BY <1>1 DEF StoreStep, gcvars
  <2>. QED  BY <2>1 DEF painting, collecting, keeping, AvatarInv, OwnKeys, SoleAlone, SoleStored,
                        SparesSteady, AvatarStored, PaintersOf
<1>2. ASSUME NEW p \in Painter, PainterStep(p) PROVE AvatarInv'
  <2>1. LoadUser(p) \/ PutAvatar(p) \/ DropOldAvatar(p) \/ SetAvatar(p) \/ AvatarFails(p)
    BY <1>2 DEF PainterStep
  <2>. QED  BY <1>2, <2>1, LoadUserSpares, PutAvatarSpares, DropOldSpares, SetAvatarSpares,
               AvatarFailsSpares
<1>. QED  BY <1>1, <1>2, InspectSpares, ReclaimSpares DEF GCNext

\* For every set of users, handlers and types: the avatar a user has stays stored, when the
\* upload that set it had no company of its own user's uploads or of the collector, until
\* the user's next upload deletes it, while uploads of others, the collector and its
\* failures go on.
THEOREM AvatarsStayStored == GCSpec => []AvatarStored
<1>1. GCInit => AvatarInv
  BY DEF GCInit, AvatarInv, OwnKeys, SoleAlone, SoleStored, SparesSteady, AvatarStored
<1>2. GCIInv /\ AvatarInv /\ [GCNext]_gcvars => AvatarInv'
  BY StepSpares
<1>3. AvatarInv => AvatarStored
  BY DEF AvatarInv
<1>. QED  BY <1>1, <1>2, <1>3, GCInductive, PTL DEF GCSpec
=============================================================================
