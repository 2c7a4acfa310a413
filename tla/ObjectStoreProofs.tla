------------------------- MODULE ObjectStoreProofs -------------------------
(***************************************************************************)
(* Proofs about ObjectStore for every set of cores, contents, requests,    *)
(* handlers and faults.  The properties are seldom inductive by themselves:*)
(* IInv adds who owns the references of a core, that what an owner holds   *)
(* is counted, and that a key about to be inserted is not known anywhere.  *)
(***************************************************************************)
EXTENDS ObjectStore, FiniteSetTheorems, TLAPS

-----------------------------------------------------------------------------
(***************************************************************************)
(* The inductive invariant.                                                *)
(***************************************************************************)
UploadPC == {"idle", "acquire", "bump", "put", "insert",
             "release", "purge", "erase", "done"}
RemoverPC == {"idle", "collect", "remove", "release", "purge", "erase", "done"}
AcquirePC == {"acquire", "bump", "put"}
OwnPC == {"acquire", "bump", "put", "insert", "release", "purge", "erase"}

\* p answers for the references of core[p]: its content is not, or no longer, a row of files.
Owns(p) == pc[p] \in OwnPC

\* What the program counter of a handler says about its locals.
ShapeOf(p) ==
  /\ p \in Remover => pc[p] \in RemoverPC
  /\ pc[p] \in {"collect", "remove"} => part[p] = "file"
  /\ pc[p] = "collect" => p \in Reader
  /\ p \in Upload =>
       /\ pc[p] \in UploadPC
       /\ pc[p] \notin {"idle", "done"} => want[p] \in Request
       /\ pc[p] = "insert" => held[p]["file"] # None
       /\ pc[p] \in AcquirePC /\ part[p] = "thumb" =>
            held[p]["file"] # None /\ ThumbOf[want[p].sha] # None
  /\ pc[p] \notin {"idle", "done"} => core[p] \in Core
  /\ pc[p] \in {"idle", "done"} =>
       core[p] = None /\ part[p] = "file" /\ held[p] = NoKeys
  /\ pc[p] \in {"put", "release", "purge", "erase"} => held[p][part[p]] # None

Shape == \A p \in Proc : ShapeOf(p)

\* A core has one owner at most, and none while it is free or live.
Ownership ==
  /\ \A c \in Core : files[c] # None => c \in cores
  /\ \A p \in Proc : Owns(p) => core[p] \in cores /\ files[core[p]] = None
  /\ \A p, q \in Proc : Owns(p) /\ Owns(q) /\ core[p] = core[q] => p = q

\* Whatever a remover has looked up was published: no upload works on it.
Published(c) == c \in cores /\ \A u \in Upload : core[u] # c

Lookups ==
  /\ \A p \in Remover : pc[p] \in {"collect", "remove"} => Published(core[p])
  /\ \A c \in todo : Published(c)
  /\ RemovesWhatItLoaded

\* No row, reference, owner or stored object mentions the key k.
Unknown(k) ==
  /\ blobs[k] = None
  /\ \A r \in Key : debt[r] # k
  /\ \A d \in Digest : objects[d] # None => objects[d].key # k
  /\ \A p \in Proc, x \in Part : Owns(p) => held[p][x] # k

\* The reference x of the content c is still to be acquired.
Fresh(x, c) == debt[<<x, c>>] = None /\ Unknown(<<x, c>>)

Freshness ==
  /\ \A c \in Core \ cores, x \in Part : Fresh(x, c)
  /\ \A u \in Upload :
       /\ pc[u] \in {"acquire", "bump"} =>
            held[u][part[u]] = None /\ Fresh(part[u], core[u])
       /\ pc[u] \in AcquirePC /\ part[u] = "file" =>
            held[u]["thumb"] = None /\ Fresh("thumb", core[u])

\* The key an owner holds is the one its reference is counted on, except the
\* one it has just released.
Releasing(p, x) == x = part[p] /\ pc[p] \in {"purge", "erase"}

Debts ==
  /\ \A p \in Proc, x \in Part :
       Owns(p) /\ held[p][x] # None /\ ~Releasing(p, x) =>
         debt[<<x, core[p]>>] = held[p][x]
  /\ \A c \in Core : files[c] # None =>
       /\ debt[<<"file", c>>] = files[c].key
       /\ files[c].thumb # None => debt[<<"thumb", c>>] = files[c].thumb

\* Rows have keys of their own, and count the references to them.
Count == [k \in Key |-> Cardinality(Holders(k))]

Counts ==
  /\ \A d, e \in Digest :
       objects[d] # None /\ objects[e] # None /\ objects[d].key = objects[e].key => d = e
  /\ \A d \in Digest : objects[d] # None =>
       objects[d].refcount = Count[objects[d].key]

\* Bytes about to be erased belong to no row.
Erasures == \A p \in Proc : pc[p] = "erase" => RowsOf(held[p][part[p]]) = {}

\* What was delivered is gone, for good.
Deliveries ==
  /\ \A r \in Reader, c \in Core : <<r, c>> \in served =>
       c \in cores /\ files[c] = None /\ \A p \in Proc : Owns(p) => core[p] # c
  /\ BurnOnce

IInv ==
  /\ TypeOK /\ Shape /\ Ownership /\ Lookups
  /\ Freshness /\ Debts /\ Counts /\ Erasures /\ Deliveries

-----------------------------------------------------------------------------
(***************************************************************************)
(* Facts about the constants and about the ways a handler goes on.         *)
(***************************************************************************)
\* A key is made of a part and a core, and tells both.
LEMMA Keys ==
  /\ \A x \in Part, c \in Core : <<x, c>> \in Key
  /\ \A k \in Key : k # None
  /\ "file" \in Part /\ "thumb" \in Part /\ "file" # "thumb"
  /\ \A x \in Part : x = "file" \/ x = "thumb"
  BY DataAssumption DEF Key, Part

\* Uploads and those who remove rows are disjoint, and together all processes.
LEMMA Procs ==
  /\ Upload \subseteq Proc /\ Remover \subseteq Proc /\ Deleter \subseteq Remover
  /\ Reader \subseteq Remover /\ Sweeper \in Remover
  /\ Upload \cap Remover = {} /\ Proc = Upload \cup Remover
  BY ProcAssumption DEF Proc, Handler, Remover

LocalsOK ==
  /\ pc \in [Proc -> PC]
  /\ core \in [Proc -> Core \cup {None}]
  /\ part \in [Proc -> Part]
  /\ held \in [Proc -> [Part -> Key \cup {None}]]
  /\ want \in [Proc -> Request \cup {None}]

\* The types of the locals alone.
LEMMA TypesOfLocals == TypeOK => LocalsOK
  BY DEF TypeOK, LocalsOK


\* Only p moves.
Moves(p) ==
  /\ LocalsOK'
  /\ \A q \in Proc : q # p =>
       /\ pc'[q] = pc[q] /\ core'[q] = core[q] /\ part'[q] = part[q]
       /\ held'[q] = held[q] /\ want'[q] = want[q]

\* The ways p moves: it stays with its core and goes to the pc n with the
\* part x and the keys f and t, or it returns.
Goes(p, n, x, f, t) ==
  /\ Moves(p) /\ core'[p] = core[p] /\ want'[p] = want[p]
  /\ pc'[p] = n /\ part'[p] = x /\ held'[p]["file"] = f /\ held'[p]["thumb"] = t

Returns(p) ==
  /\ Moves(p) /\ core'[p] = None /\ want'[p] = None
  /\ pc'[p] = IF p = Sweeper THEN "idle" ELSE "done"
  /\ part'[p] = "file" /\ held'[p] = NoKeys

\* A handler that returns has no locals left, and nobody else moves.
LEMMA ReturnMoves ==
  ASSUME LocalsOK, NEW p \in Proc, Return(p)
  PROVE  Returns(p)
  BY Keys DEF LocalsOK, Moves, Returns, Return, NoKeys, PC

\* Going to the next statement keeps the locals.
LEMMA GotoMoves ==
  ASSUME LocalsOK, NEW p \in Proc, NEW n \in PC, Goto(p, n), UNCHANGED held
  PROVE  Goes(p, n, part[p], held[p]["file"], held[p]["thumb"])
  BY DEF LocalsOK, Moves, Goes, Goto

\* A failed acquire ends the upload, or goes on without its thumbnail.
LEMMA AcquireFailedMoves ==
  ASSUME LocalsOK, NEW p \in Proc, AcquireFailed(p)
  PROVE  \/ part[p] = "thumb" /\ Goes(p, "insert", "thumb", held[p]["file"], held[p]["thumb"])
         \/ part[p] = "file" /\ Returns(p)
<1>1. CASE part[p] = "thumb"
  BY <1>1, GotoMoves DEF AcquireFailed, PC
<1>2. CASE part[p] # "thumb"
  BY <1>2, Keys, ReturnMoves DEF AcquireFailed, LocalsOK
<1>. QED  BY <1>1, <1>2

\* The three ways a handler goes on once a reference is dealt with.
LEMMA NextPartMoves ==
  ASSUME LocalsOK, NEW p \in Proc, NextPart(p)
  PROVE  \/ /\ part[p] = "file" /\ held[p]["thumb"] # None
            /\ Goes(p, "release", "thumb", None, held[p]["thumb"]) /\ UNCHANGED served
         \/ /\ part[p] = "thumb" /\ held[p]["file"] # None /\ p \in Upload
            /\ Goes(p, "insert", "thumb", held[p]["file"], None) /\ UNCHANGED served
         \/ Returns(p) /\ Deliver(p)
<1>1. CASE part[p] = "file" /\ held[p]["thumb"] # None
  <2>1. /\ pc' = [pc EXCEPT ![p] = "release"] /\ part' = [part EXCEPT ![p] = "thumb"]
        /\ held' = [held EXCEPT ![p]["file"] = None] /\ UNCHANGED <<core, want, served>>
    BY <1>1 DEF NextPart
  <2>. QED  BY <1>1, <2>1, Keys DEF LocalsOK, Moves, Goes, PC
<1>2. CASE p \in Upload /\ part[p] = "thumb" /\ held[p]["file"] # None
  <2>1. /\ pc' = [pc EXCEPT ![p] = "insert"]
        /\ held' = [held EXCEPT ![p]["thumb"] = None] /\ UNCHANGED <<core, part, want, served>>
    BY <1>2, Keys DEF NextPart
  <2>. QED  BY <1>2, <2>1, Keys DEF LocalsOK, Moves, Goes, PC
<1>3. CASE /\ ~(part[p] = "file" /\ held[p]["thumb"] # None)
           /\ ~(p \in Upload /\ part[p] = "thumb" /\ held[p]["file"] # None)
  BY <1>3, ReturnMoves DEF NextPart
<1>. QED  BY <1>1, <1>2, <1>3

\* The two ways an upload goes on once an object is stored.
LEMMA StoredMoves ==
  ASSUME LocalsOK, NEW u \in Proc, NEW k \in Key, Stored(u),
         held' = [held EXCEPT ![u][part[u]] = k]
  PROVE  LET f == IF part[u] = "file" THEN k ELSE held[u]["file"]
             t == IF part[u] = "thumb" THEN k ELSE held[u]["thumb"]
         IN \/ Goes(u, "insert", part[u], f, t)
            \/ part[u] = "file" /\ Thumbed(u) /\ Goes(u, "acquire", "thumb", f, t)
<1>1. CASE Goto(u, "insert")
  BY <1>1, Keys DEF LocalsOK, Goto, Moves, Goes, PC
<1>2. CASE /\ part[u] = "file" /\ Thumbed(u)
           /\ pc' = [pc EXCEPT ![u] = "acquire"]
           /\ part' = [part EXCEPT ![u] = "thumb"]
           /\ UNCHANGED <<core, want>>
  BY <1>2, Keys DEF LocalsOK, Moves, Goes, PC
<1>. QED  BY <1>1, <1>2 DEF Stored

(***************************************************************************)
(* Where each action takes the handler that does it.                       *)
(***************************************************************************)
Keeps(p, n) == Goes(p, n, part[p], held[p]["file"], held[p]["thumb"])

\* A file goes to f, a thumbnail to t.
Pick(p, f, t) == IF part[p] = "file" THEN f ELSE t

Acquires(u, k) ==
  LET f == Pick(u, k, held[u]["file"])
      t == Pick(u, held[u]["thumb"], k)
  IN \/ Goes(u, "insert", part[u], f, t)
     \/ part[u] = "file" /\ Thumbed(u) /\ Goes(u, "acquire", "thumb", f, t)

GivesUp(u) ==
  \/ part[u] = "thumb" /\ Keeps(u, "insert")
  \/ part[u] = "file" /\ Returns(u)

GoesOn(p) ==
  \/ /\ part[p] = "file" /\ held[p]["thumb"] # None
     /\ Goes(p, "release", "thumb", None, held[p]["thumb"]) /\ UNCHANGED served
  \/ /\ part[p] = "thumb" /\ held[p]["file"] # None /\ p \in Upload
     /\ Goes(p, "insert", "thumb", held[p]["file"], None) /\ UNCHANGED served
  \/ Returns(p) /\ Deliver(p)

\* A claimed core is new, and the upload works on it.
LEMMA ClaimCoreMoves ==
  ASSUME LocalsOK, NEW u \in Upload, ClaimCore(u)
  PROVE  \E r \in Request, c \in Core \ cores :
           /\ Moves(u) /\ cores' = cores \cup {c}
           /\ pc'[u] = "acquire" /\ core'[u] = c /\ want'[u] = r
           /\ part'[u] = part[u] /\ held'[u] = held[u]
  BY Procs DEF LocalsOK, Moves, ClaimCore, PC

\* An upload that acquires an object does so for a digest.
LEMMA ShaTyped ==
  ASSUME TypeOK, Shape, NEW u \in Upload, pc[u] \in AcquirePC
  PROVE  Sha(u) \in Digest
<1>1. want[u] \in UploadRequest /\ pc[u] \notin {"idle", "done"}
  BY DataAssumption, Procs DEF Shape, ShapeOf, AcquirePC
<1>2. part[u] \in Part /\ want[u].sha \in Digest
  BY <1>1, Procs DEF TypeOK, UploadRequest
<1>. QED  BY <1>2, Keys, Procs, DataAssumption DEF Shape, ShapeOf, Sha, AcquirePC

\* INSERT INTO objects makes a row under the upload's own key, or gives up.
LEMMA InsertObjectMoves ==
  ASSUME TypeOK, LocalsOK, Shape, NEW u \in Upload, InsertObject(u)
  PROVE  \/ /\ objects' = objects /\ debt' = debt /\ GivesUp(u)
         \/ LET k == <<part[u], core[u]>> IN
            /\ k \in Key /\ RowsOf(k) = {} /\ Sha(u) \in Digest
            /\ objects' = [objects EXCEPT ![Sha(u)] = [key |-> k, refcount |-> 1]]
            /\ debt' = [debt EXCEPT ![k] = k]
            /\ Goes(u, "put", part[u], Pick(u, k, held[u]["file"]), Pick(u, held[u]["thumb"], k))
<1>. DEFINE k == <<part[u], core[u]>>
<1>1. k \in Key /\ Sha(u) \in Digest
  BY Keys, Procs, ShaTyped DEF InsertObject, TypeOK, Shape, ShapeOf, AcquirePC
<1>2. CASE RowsOf(k) = {}
  <2>1. /\ objects' = [objects EXCEPT ![Sha(u)] = [key |-> k, refcount |-> 1]]
        /\ debt' = [debt EXCEPT ![k] = k]
        /\ held' = [held EXCEPT ![u][part[u]] = k] /\ Goto(u, "put")
    BY <1>2 DEF InsertObject
  <2>2. Goes(u, "put", part[u], Pick(u, k, held[u]["file"]), Pick(u, held[u]["thumb"], k))
    BY <1>1, <2>1, Keys, Procs DEF LocalsOK, Goes, Moves, Goto, Pick, PC
  <2>. QED  BY <1>1, <1>2, <2>1, <2>2
<1>3. CASE RowsOf(k) # {}
  BY <1>3, Procs, AcquireFailedMoves DEF InsertObject, GivesUp, Keeps
<1>. QED  BY <1>2, <1>3

\* A bumped row's key becomes the upload's.
LEMMA BumpObjectMoves ==
  ASSUME TypeOK, LocalsOK, Shape, NEW u \in Upload, BumpObject(u)
  PROVE  LET k == objects[Sha(u)].key IN
         k \in Key /\ Sha(u) \in Digest /\ Acquires(u, k)
<1>. DEFINE k == objects[Sha(u)].key
<1>1. Sha(u) \in Digest
  BY ShaTyped DEF BumpObject, AcquirePC
<1>2. k \in Key
  BY <1>1 DEF BumpObject, TypeOK, ObjectRow
<1>3. Stored(u) /\ held' = [held EXCEPT ![u][part[u]] = k]
  BY DEF BumpObject
<1>4. part[u] = "file" \/ part[u] = "thumb"
  BY Keys, Procs DEF LocalsOK
<1>. QED  BY <1>1, <1>2, <1>3, <1>4, StoredMoves, Procs DEF Acquires, Pick

\* A successful PUT leaves the upload with the key it had.
LEMMA PutMoves ==
  ASSUME TypeOK, LocalsOK, Shape, NEW u \in Upload, Put(u)
  PROVE  Acquires(u, held[u][part[u]]) /\ held[u][part[u]] \in Key
<1>1. Stored(u) /\ UNCHANGED held /\ pc[u] = "put"
  BY DEF Put
<1>2. held[u][part[u]] \in Key /\ held' = [held EXCEPT ![u][part[u]] = held[u][part[u]]]
  BY <1>1, Procs DEF LocalsOK, Shape, ShapeOf
<1>3. part[u] = "file" \/ part[u] = "thumb"
  BY Keys, Procs DEF LocalsOK
<1>. QED  BY <1>1, <1>2, <1>3, StoredMoves, Procs DEF Acquires, Pick

\* A failed release goes on, or returns and serves nobody.
LEMMA ReleaseFailedMoves ==
  ASSUME LocalsOK, NEW p \in Proc, ReleaseFailed(p)
  PROVE  GoesOn(p) \/ (Returns(p) /\ UNCHANGED served)
  BY NextPartMoves, ReturnMoves DEF ReleaseFailed, GoesOn

\* What a deleter or a reader looks up is a live file, and it keeps its key.
LEMMA FindFileMoves ==
  ASSUME TypeOK, LocalsOK, Shape, NEW p \in Remover,
         FindFile(p) \/ LoadLiveFile(p)
  PROVE  \E c \in Core :
           /\ files[c] # None /\ files[c].key \in Key /\ pc[p] = "idle"
           /\ Moves(p) /\ core'[p] = c /\ pc'[p] \in {"remove", "collect"}
           /\ part'[p] = part[p] /\ want'[p] = want[p]
           /\ held'[p]["file"] = files[c].key /\ held'[p]["thumb"] = held[p]["thumb"]
<1>1. PICK c \in Core :
        /\ files[c] # None /\ core' = [core EXCEPT ![p] = c]
        /\ held' = [held EXCEPT ![p]["file"] = files[c].key]
  BY DEF FindFile, LoadLiveFile
<1>2. files[c].key \in Key
  BY <1>1 DEF TypeOK, FileRow
<1>3. pc[p] = "idle" /\ UNCHANGED <<part, want>>
        /\ (pc' = [pc EXCEPT ![p] = "remove"] \/ pc' = [pc EXCEPT ![p] = "collect"])
  BY DEF FindFile, LoadLiveFile
<1>4. p \in Proc
  BY Procs
<1>5. held' \in [Proc -> [Part -> Key \cup {None}]]
  BY <1>1, <1>2, <1>4, Keys DEF LocalsOK
<1>6. /\ pc' \in [Proc -> PC] /\ core' \in [Proc -> Core \cup {None}]
      /\ part' \in [Proc -> Part] /\ UNCHANGED want
  BY <1>1, <1>3, <1>4 DEF LocalsOK, PC
<1>7. Moves(p)
  BY <1>1, <1>3, <1>5, <1>6 DEF LocalsOK, Moves
<1>8. /\ core'[p] = c /\ pc'[p] \in {"remove", "collect"}
      /\ held'[p]["file"] = files[c].key /\ held'[p]["thumb"] = held[p]["thumb"]
  BY <1>1, <1>3, <1>4, Keys DEF LocalsOK
<1>. QED  BY <1>1, <1>2, <1>3, <1>7, <1>8

\* The sweeper's next row is one of its batch.
LEMMA SweepNextMoves ==
  ASSUME TypeOK, LocalsOK, SweepNext
  PROVE  \E c \in todo :
           /\ todo' = todo \ {c} /\ Moves(Sweeper) /\ core'[Sweeper] = c
           /\ pc[Sweeper] = "idle" /\ pc'[Sweeper] = "remove"
           /\ part'[Sweeper] = part[Sweeper] /\ held'[Sweeper] = held[Sweeper]
           /\ want'[Sweeper] = want[Sweeper]
  BY Procs DEF TypeOK, LocalsOK, SweepNext, Moves, PC

\* The DELETE hands the keys of the row to the handler that ran it.
LEMMA RemoveRowMoves ==
  ASSUME TypeOK, LocalsOK, Shape, NEW p \in Remover, RemoveRow(p)
  PROVE  /\ core[p] \in Core /\ files[core[p]] \in FileRow
         /\ files' = [files EXCEPT ![core[p]] = None]
         /\ Goes(p, "release", part[p], files[core[p]].key, files[core[p]].thumb)
<1>1. core[p] \in Core /\ files[core[p]] \in FileRow
  BY Procs DEF RemoveRow, Shape, ShapeOf, TypeOK
<1>2. files[core[p]].key \in Key /\ files[core[p]].thumb \in Key \cup {None}
  BY <1>1 DEF FileRow
<1>3. /\ files' = [files EXCEPT ![core[p]] = None] /\ Goto(p, "release")
      /\ held' = [held EXCEPT ![p] = [x \in Part |->
           IF x = "file" THEN files[core[p]].key ELSE files[core[p]].thumb]]
  BY DEF RemoveRow
<1>. QED  BY <1>1, <1>2, <1>3, Procs, Keys DEF LocalsOK, Goes, Moves, Goto, PC

\* The three outcomes of a failed statement.
LEMMA StatementFailsMoves ==
  ASSUME LocalsOK, Shape, NEW p \in Proc, StatementFails(p)
  PROVE  \/ GivesUp(p) /\ UNCHANGED served /\ p \in Upload /\ pc[p] \in {"acquire", "bump"}
         \/ GoesOn(p) /\ pc[p] \in {"release", "purge"}
         \/ Returns(p) /\ UNCHANGED served
<1>1. CASE pc[p] \in {"acquire", "bump"} /\ AcquireFailed(p) /\ UNCHANGED served
  BY <1>1, AcquireFailedMoves, Procs DEF GivesUp, Keeps, Shape, ShapeOf, RemoverPC
<1>2. CASE pc[p] \in {"release", "purge"} /\ ReleaseFailed(p)
  BY <1>2, ReleaseFailedMoves
<1>3. CASE pc[p] = "remove" /\ Return(p) /\ UNCHANGED served
  BY <1>3, ReturnMoves
<1>. QED  BY <1>1, <1>2, <1>3 DEF StatementFails

\* The moves of the actions that touch no local but pc and core.
LEMMA PlainMoves ==
  ASSUME LocalsOK, NEW p \in Proc
  PROVE  /\ ClaimFails(p) => Returns(p)
         /\ ConflictObject(p) => Keeps(p, "bump")
         /\ BumpMisses(p) => GivesUp(p)
         /\ PutFails(p) => Keeps(p, "release")
         /\ InsertFile(p) => Returns(p)
         /\ InsertFails(p) => Goes(p, "release", "file", held[p]["file"], held[p]["thumb"])
         /\ Collect(p) => Keeps(p, "remove") \/ Returns(p)
         /\ RowGone(p) => Returns(p)
         /\ Release(p) => (Keeps(p, "purge") /\ UNCHANGED served) \/ GoesOn(p)
         /\ Purge(p) => Keeps(p, "erase")
         /\ Erase(p) => GoesOn(p)
         /\ EraseFails(p) => GoesOn(p) \/ (Returns(p) /\ UNCHANGED served)
         /\ Cancel(p) => Returns(p)
<1>1. ClaimFails(p) \/ InsertFile(p) \/ RowGone(p) \/ Cancel(p) => Returns(p)
  BY ReturnMoves DEF ClaimFails, InsertFile, RowGone, Cancel
<1>2. /\ ConflictObject(p) => Keeps(p, "bump")
      /\ PutFails(p) => Keeps(p, "release")
      /\ Purge(p) => Keeps(p, "erase")
  BY GotoMoves DEF ConflictObject, PutFails, Purge, Keeps, PC
<1>3. BumpMisses(p) => GivesUp(p)
  BY AcquireFailedMoves DEF BumpMisses, GivesUp, Keeps
<1>4. InsertFails(p) => Goes(p, "release", "file", held[p]["file"], held[p]["thumb"])
  BY Keys DEF InsertFails, Goes, Moves, LocalsOK, PC
<1>5. Collect(p) => Keeps(p, "remove") \/ Returns(p)
  BY GotoMoves, ReturnMoves DEF Collect, Keeps, PC
<1>6. Release(p) => (Keeps(p, "purge") /\ UNCHANGED served) \/ GoesOn(p)
  BY GotoMoves, NextPartMoves DEF Release, Keeps, GoesOn, PC
<1>7. Erase(p) => GoesOn(p)
  BY NextPartMoves DEF Erase, GoesOn
<1>8. EraseFails(p) => GoesOn(p) \/ (Returns(p) /\ UNCHANGED served)
  BY ReleaseFailedMoves DEF EraseFails
<1>. QED  BY <1>1, <1>2, <1>3, <1>4, <1>5, <1>6, <1>7, <1>8

-----------------------------------------------------------------------------
(***************************************************************************)
(* Shape is inductive, given the types.                                    *)
(***************************************************************************)
\* Only the handler that moves can lose its shape.
LEMMA ShapeFrame ==
  ASSUME Shape, NEW p \in Proc, Moves(p), ShapeOf(p)'
  PROVE  Shape'
  BY DEF Shape, ShapeOf, Moves

\* Going on from a release, or returning, keeps the shape.
LEMMA ShapeGoesOn ==
  ASSUME LocalsOK, Shape, NEW p \in Proc, GoesOn(p) \/ Returns(p),
         pc[p] \in {"release", "purge", "erase"} \/ Returns(p)
  PROVE  ShapeOf(p)'
<1>1. CASE Returns(p)
  BY <1>1, ProcAssumption, Procs DEF Returns, ShapeOf, UploadPC, RemoverPC, AcquirePC, NoKeys, Proc, Handler
<1>2. CASE GoesOn(p) /\ ~Returns(p)
  BY <1>2, Procs, Keys DEF GoesOn, Goes, Shape, ShapeOf, UploadPC, RemoverPC, AcquirePC
<1>. QED  BY <1>1, <1>2

\* Giving up an acquire keeps the shape.
LEMMA ShapeGivesUp ==
  ASSUME LocalsOK, Shape, NEW u \in Upload, GivesUp(u), pc[u] \in AcquirePC
  PROVE  ShapeOf(u)'
<1>1. CASE Returns(u)
  BY <1>1, ShapeGoesOn, Procs
<1>2. CASE part[u] = "thumb" /\ Keeps(u, "insert")
  BY <1>2, Procs DEF Keeps, Goes, Shape, ShapeOf, UploadPC, AcquirePC
<1>. QED  BY <1>1, <1>2 DEF GivesUp

\* Acquiring a key keeps the shape.
LEMMA ShapeAcquires ==
  ASSUME LocalsOK, Shape, NEW u \in Upload, NEW k \in Key, Acquires(u, k), pc[u] \in AcquirePC
  PROVE  ShapeOf(u)'
<1>1. held[u]["file"] # None \/ part[u] = "file"
  BY Procs, Keys DEF Shape, ShapeOf, LocalsOK
<1>. QED
  BY <1>1, Procs, Keys DEF Acquires, Thumbed, Pick, Goes, Shape, ShapeOf, UploadPC, AcquirePC

\* Every step of a handler is a move that respects its shape.
LEMMA ShapeStep ==
  ASSUME TypeOK, LocalsOK, Shape, [Next]_vars
  PROVE  LocalsOK' /\ Shape'
<1>. USE Procs
<1>1. ASSUME NEW u \in Upload, ClaimCore(u) PROVE LocalsOK' /\ Shape'
  <2>1. Moves(u)
    BY <1>1, ClaimCoreMoves DEF Returns, Goes, Keeps, GivesUp, GoesOn, Acquires
  <2>2. ShapeOf(u)'
    <3>1. part[u] = "file" /\ u \notin Remover
      BY <1>1 DEF ClaimCore, Shape, ShapeOf
    <3>. QED  BY <1>1, <3>1, ClaimCoreMoves DEF ShapeOf, UploadPC, AcquirePC
  <2>. QED  BY <2>1, <2>2, ShapeFrame DEF Moves
<1>2. ASSUME NEW u \in Upload, ClaimFails(u) PROVE LocalsOK' /\ Shape'
  <2>1. Moves(u)
    BY <1>2, PlainMoves DEF Returns, Goes, Keeps, GivesUp, GoesOn, Acquires
  <2>2. ShapeOf(u)'
    BY <1>2, PlainMoves, ShapeGoesOn, Keys DEF ClaimFails, Keeps, Goes, Shape, ShapeOf, UploadPC, RemoverPC, AcquirePC, NoKeys
  <2>. QED  BY <2>1, <2>2, ShapeFrame DEF Moves
<1>3. ASSUME NEW u \in Upload, InsertObject(u) PROVE LocalsOK' /\ Shape'
  <2>1. Moves(u)
    BY <1>3, InsertObjectMoves DEF Returns, Goes, Keeps, GivesUp, GoesOn, Acquires
  <2>2. ShapeOf(u)'
    <3>1. pc[u] = "acquire" /\ ShapeOf(u) /\ u \notin Remover
      BY <1>3 DEF InsertObject, Shape
    <3>2. CASE GivesUp(u)
      BY <3>1, <3>2, ShapeGivesUp DEF AcquirePC
    <3>3. CASE \E k \in Key : Goes(u, "put", part[u], Pick(u, k, held[u]["file"]), Pick(u, held[u]["thumb"], k))
      <4>1. part[u] \in Part
        BY DEF LocalsOK
      <4>. QED  BY <3>1, <3>3, <4>1, Keys DEF Goes, Pick, ShapeOf, UploadPC, AcquirePC
    <3>. QED  BY <1>3, <3>2, <3>3, InsertObjectMoves
  <2>. QED  BY <2>1, <2>2, ShapeFrame DEF Moves
<1>4. ASSUME NEW u \in Upload, ConflictObject(u) PROVE LocalsOK' /\ Shape'
  <2>1. Moves(u)
    BY <1>4, PlainMoves DEF Returns, Goes, Keeps, GivesUp, GoesOn, Acquires
  <2>2. ShapeOf(u)'
    BY <1>4, PlainMoves, Keys DEF ConflictObject, Keeps, Goes, Shape, ShapeOf, UploadPC, RemoverPC, AcquirePC, NoKeys
  <2>. QED  BY <2>1, <2>2, ShapeFrame DEF Moves
<1>5. ASSUME NEW u \in Upload, BumpObject(u) PROVE LocalsOK' /\ Shape'
  <2>1. Moves(u)
    BY <1>5, BumpObjectMoves DEF Returns, Goes, Keeps, GivesUp, GoesOn, Acquires
  <2>2. ShapeOf(u)'
    BY <1>5, BumpObjectMoves, ShapeAcquires, Keys DEF BumpObject, AcquirePC
  <2>. QED  BY <2>1, <2>2, ShapeFrame DEF Moves
<1>6. ASSUME NEW u \in Upload, BumpMisses(u) PROVE LocalsOK' /\ Shape'
  <2>1. Moves(u)
    BY <1>6, PlainMoves DEF Returns, Goes, Keeps, GivesUp, GoesOn, Acquires
  <2>2. ShapeOf(u)'
    BY <1>6, PlainMoves, ShapeGivesUp, Keys DEF BumpMisses, AcquirePC
  <2>. QED  BY <2>1, <2>2, ShapeFrame DEF Moves
<1>7. ASSUME NEW u \in Upload, Put(u) PROVE LocalsOK' /\ Shape'
  <2>1. Moves(u)
    BY <1>7, PutMoves DEF Returns, Goes, Keeps, GivesUp, GoesOn, Acquires
  <2>2. ShapeOf(u)'
    BY <1>7, PutMoves, ShapeAcquires, Keys DEF Put, AcquirePC
  <2>. QED  BY <2>1, <2>2, ShapeFrame DEF Moves
<1>8. ASSUME NEW u \in Upload, PutFails(u) PROVE LocalsOK' /\ Shape'
  <2>1. Moves(u)
    BY <1>8, PlainMoves DEF Returns, Goes, Keeps, GivesUp, GoesOn, Acquires
  <2>2. ShapeOf(u)'
    BY <1>8, PlainMoves, Keys DEF PutFails, Keeps, Goes, Shape, ShapeOf, UploadPC, RemoverPC, AcquirePC, NoKeys
  <2>. QED  BY <2>1, <2>2, ShapeFrame DEF Moves
<1>9. ASSUME NEW u \in Upload, InsertFile(u) PROVE LocalsOK' /\ Shape'
  <2>1. Moves(u)
    BY <1>9, PlainMoves DEF Returns, Goes, Keeps, GivesUp, GoesOn, Acquires
  <2>2. ShapeOf(u)'
    BY <1>9, PlainMoves, ShapeGoesOn, Keys DEF InsertFile, Keeps, Goes, Shape, ShapeOf, UploadPC, RemoverPC, AcquirePC, NoKeys
  <2>. QED  BY <2>1, <2>2, ShapeFrame DEF Moves
<1>10. ASSUME NEW u \in Upload, InsertFails(u) PROVE LocalsOK' /\ Shape'
  <2>1. Moves(u)
    BY <1>10, PlainMoves DEF Returns, Goes, Keeps, GivesUp, GoesOn, Acquires
  <2>2. ShapeOf(u)'
    <3>1. pc[u] = "insert" /\ ShapeOf(u) /\ u \notin Remover
      BY <1>10 DEF InsertFails, Shape
    <3>. QED  BY <1>10, <3>1, PlainMoves DEF Goes, ShapeOf, UploadPC, AcquirePC
  <2>. QED  BY <2>1, <2>2, ShapeFrame DEF Moves
<1>11. ASSUME NEW p \in Deleter, FindFile(p) PROVE LocalsOK' /\ Shape'
  <2>1. Moves(p)
    BY <1>11, FindFileMoves DEF Returns, Goes, Keeps, GivesUp, GoesOn, Acquires
  <2>2. ShapeOf(p)'
    <3>1. PICK c \in Core : /\ pc[p] = "idle" /\ core'[p] = c /\ part'[p] = part[p]
      BY <1>11, FindFileMoves
    <3>2. pc'[p] = "remove"
      BY <1>11 DEF FindFile, LocalsOK
    <3>. QED  BY <3>1, <3>2 DEF Shape, ShapeOf, RemoverPC
  <2>. QED  BY <2>1, <2>2, ShapeFrame DEF Moves
<1>12. ASSUME NEW r \in Reader, LoadLiveFile(r) PROVE LocalsOK' /\ Shape'
  <2>1. Moves(r)
    BY <1>12, FindFileMoves DEF Returns, Goes, Keeps, GivesUp, GoesOn, Acquires
  <2>2. ShapeOf(r)'
    <3>1. PICK c \in Core : /\ pc[r] = "idle" /\ core'[r] = c /\ part'[r] = part[r]
                            /\ pc'[r] \in {"remove", "collect"}
      BY <1>12, FindFileMoves
    <3>. QED  BY <3>1 DEF Shape, ShapeOf, RemoverPC
  <2>. QED  BY <2>1, <2>2, ShapeFrame DEF Moves
<1>13. ASSUME NEW r \in Reader, Collect(r) PROVE LocalsOK' /\ Shape'
  <2>1. Moves(r)
    BY <1>13, PlainMoves DEF Returns, Goes, Keeps, GivesUp, GoesOn, Acquires
  <2>2. ShapeOf(r)'
    BY <1>13, PlainMoves, ShapeGoesOn, Keys DEF Collect, Keeps, Goes, Shape, ShapeOf, UploadPC, RemoverPC, AcquirePC, NoKeys
  <2>. QED  BY <2>1, <2>2, ShapeFrame DEF Moves
<1>14. ASSUME SweepScan PROVE LocalsOK' /\ Shape'
  BY <1>14 DEF SweepScan, local, LocalsOK, Shape, ShapeOf
<1>15. ASSUME SweepNext PROVE LocalsOK' /\ Shape'
  <2>1. Moves(Sweeper)
    BY <1>15, SweepNextMoves DEF Returns, Goes, Keeps, GivesUp, GoesOn, Acquires
  <2>2. ShapeOf(Sweeper)'
    <3>1. PICK c \in todo : /\ pc[Sweeper] = "idle" /\ core'[Sweeper] = c
                            /\ part'[Sweeper] = part[Sweeper] /\ pc'[Sweeper] = "remove"
      BY <1>15, SweepNextMoves
    <3>. QED  BY <3>1 DEF TypeOK, Shape, ShapeOf, RemoverPC
  <2>. QED  BY <2>1, <2>2, ShapeFrame DEF Moves
<1>16. ASSUME NEW p \in Remover, RemoveRow(p) PROVE LocalsOK' /\ Shape'
  <2>1. Moves(p)
    BY <1>16, RemoveRowMoves DEF Returns, Goes, Keeps, GivesUp, GoesOn, Acquires
  <2>2. ShapeOf(p)'
    <3>1. pc[p] = "remove" /\ ShapeOf(p) /\ p \notin Upload
      BY <1>16 DEF RemoveRow, Shape
    <3>2. part[p] = "file" /\ files[core[p]].key \in Key
      BY <1>16, <3>1, RemoveRowMoves DEF ShapeOf, FileRow
    <3>. QED  BY <1>16, <3>1, <3>2, RemoveRowMoves, Keys DEF Goes, ShapeOf, RemoverPC
  <2>. QED  BY <2>1, <2>2, ShapeFrame DEF Moves
<1>17. ASSUME NEW p \in Remover, RowGone(p) PROVE LocalsOK' /\ Shape'
  <2>1. Moves(p)
    BY <1>17, PlainMoves DEF Returns, Goes, Keeps, GivesUp, GoesOn, Acquires
  <2>2. ShapeOf(p)'
    BY <1>17, PlainMoves, ShapeGoesOn, Keys DEF RowGone, Keeps, Goes, Shape, ShapeOf, UploadPC, RemoverPC, AcquirePC, NoKeys
  <2>. QED  BY <2>1, <2>2, ShapeFrame DEF Moves
<1>18. ASSUME NEW p \in Proc, Release(p) PROVE LocalsOK' /\ Shape'
  <2>1. Moves(p)
    BY <1>18, PlainMoves DEF Returns, Goes, Keeps, GivesUp, GoesOn, Acquires
  <2>2. ShapeOf(p)'
    <3>1. pc[p] = "release" /\ ShapeOf(p)
      BY <1>18 DEF Release, Shape
    <3>2. CASE Keeps(p, "purge")
      BY <3>1, <3>2, Keys DEF Keeps, Goes, ShapeOf, UploadPC, RemoverPC, AcquirePC, LocalsOK
    <3>. QED  BY <1>18, <3>1, <3>2, PlainMoves, ShapeGoesOn
  <2>. QED  BY <2>1, <2>2, ShapeFrame DEF Moves
<1>19. ASSUME NEW p \in Proc, Purge(p) PROVE LocalsOK' /\ Shape'
  <2>1. Moves(p)
    BY <1>19, PlainMoves DEF Returns, Goes, Keeps, GivesUp, GoesOn, Acquires
  <2>2. ShapeOf(p)'
    BY <1>19, PlainMoves, Keys DEF Purge, Keeps, Goes, Shape, ShapeOf, UploadPC, RemoverPC, AcquirePC, NoKeys
  <2>. QED  BY <2>1, <2>2, ShapeFrame DEF Moves
<1>20. ASSUME NEW p \in Proc, Erase(p) PROVE LocalsOK' /\ Shape'
  <2>1. Moves(p)
    BY <1>20, PlainMoves DEF Returns, Goes, Keeps, GivesUp, GoesOn, Acquires
  <2>2. ShapeOf(p)'
    BY <1>20, PlainMoves, ShapeGoesOn, Keys DEF Erase, Keeps, Goes, Shape, ShapeOf, UploadPC, RemoverPC, AcquirePC, NoKeys
  <2>. QED  BY <2>1, <2>2, ShapeFrame DEF Moves
<1>21. ASSUME NEW p \in Proc, EraseFails(p) PROVE LocalsOK' /\ Shape'
  <2>1. Moves(p)
    BY <1>21, PlainMoves DEF Returns, Goes, Keeps, GivesUp, GoesOn, Acquires
  <2>2. ShapeOf(p)'
    BY <1>21, PlainMoves, ShapeGoesOn, Keys DEF EraseFails, Keeps, Goes, Shape, ShapeOf, UploadPC, RemoverPC, AcquirePC, NoKeys
  <2>. QED  BY <2>1, <2>2, ShapeFrame DEF Moves
<1>22. ASSUME NEW p \in Proc, StatementFails(p) PROVE LocalsOK' /\ Shape'
  <2>1. Moves(p)
    BY <1>22, StatementFailsMoves DEF Returns, Goes, Keeps, GivesUp, GoesOn, Acquires
  <2>2. ShapeOf(p)'
    BY <1>22, StatementFailsMoves, ShapeGoesOn, ShapeGivesUp, Keys DEF StatementFails, Keeps, Goes, Shape, ShapeOf, UploadPC, RemoverPC, AcquirePC, NoKeys
  <2>. QED  BY <2>1, <2>2, ShapeFrame DEF Moves
<1>23. ASSUME NEW p \in Proc, Cancel(p) PROVE LocalsOK' /\ Shape'
  <2>1. Moves(p)
    BY <1>23, PlainMoves DEF Returns, Goes, Keeps, GivesUp, GoesOn, Acquires
  <2>2. ShapeOf(p)'
    BY <1>23, PlainMoves, ShapeGoesOn, Keys DEF Cancel, Keeps, Goes, Shape, ShapeOf, UploadPC, RemoverPC, AcquirePC, NoKeys
  <2>. QED  BY <2>1, <2>2, ShapeFrame DEF Moves
<1>24. ASSUME NEW c \in Core, Expire(c) PROVE LocalsOK' /\ Shape'
  BY <1>24 DEF Expire, local, LocalsOK, Shape, ShapeOf
<1>25. CASE UNCHANGED vars
  BY <1>25 DEF vars, LocalsOK, Shape, ShapeOf
<1>. QED
  BY <1>1, <1>2, <1>3, <1>4, <1>5, <1>6, <1>7, <1>8, <1>9, <1>10, <1>11, <1>12, <1>13, <1>14, <1>15, <1>16, <1>17, <1>18, <1>19, <1>20, <1>21, <1>22, <1>23, <1>24, <1>25
     DEF Next, UploadStep, RemoveStep, ReleaseStep, Quiet

-----------------------------------------------------------------------------
(***************************************************************************)
(* Who owns the references of a core: an upload from its claim to its      *)
(* INSERT into files, the remover of its row afterwards, and nobody else.  *)
(***************************************************************************)
SameOwners(P) ==
  \A p \in P : Owns(p)' => Owns(p) /\ core'[p] = core[p]

Claims(u) ==
  /\ Moves(u) /\ ~Owns(u) /\ UNCHANGED files /\ SameOwners(Proc \ {u})
  /\ core'[u] \in Core \ cores /\ cores' = cores \cup {core'[u]}

Publishes(u) ==
  /\ Moves(u) /\ pc[u] = "insert" /\ Owns(u) /\ ~Owns(u)' /\ SameOwners(Proc) /\ core[u] \in Core
  /\ UNCHANGED <<cores, objects, blobs, debt, served>>
  /\ \E row \in FileRow :
       /\ files' = [files EXCEPT ![core[u]] = row]
       /\ row.key = held[u]["file"] /\ row.thumb = held[u]["thumb"] /\ row.sha = want[u].sha

Retires(p) ==
  /\ Moves(p) /\ pc[p] = "remove" /\ core[p] \in Core /\ files[core[p]] # None
  /\ UNCHANGED cores /\ files' = [files EXCEPT ![core[p]] = None]
  /\ core'[p] = core[p] /\ SameOwners(Proc \ {p})

\* Expiry is the only change of a live row.
SameFiles ==
  /\ UNCHANGED cores
  /\ \A c \in Core :
       \/ files'[c] = files[c]
       \/ files[c] # None /\ files'[c] = [files[c] EXCEPT !.expires = "passed"]
  /\ SameOwners(Proc)

\* INSERT INTO files moves the upload's ownership of its core to the row.
LEMMA InsertFilePublishes ==
  ASSUME TypeOK, LocalsOK, Shape, NEW u \in Upload, InsertFile(u)
  PROVE  Publishes(u)
<1>. USE Procs
<1>1. pc[u] = "insert" /\ core[u] \in Core /\ want[u] \in UploadRequest
  BY DataAssumption DEF InsertFile, Shape, ShapeOf
<1>2. held[u]["file"] \in Key /\ held[u]["thumb"] \in Key \cup {None}
  BY <1>1, Keys DEF LocalsOK, Shape, ShapeOf
<1>. DEFINE row == [sha |-> want[u].sha, key |-> held[u]["file"], thumb |-> held[u]["thumb"],
                    burn |-> want[u].burn, expires |-> want[u].expires]
<1>3. /\ row \in FileRow /\ files' = [files EXCEPT ![core[u]] = row]
      /\ UNCHANGED <<cores, objects, blobs, debt, served>>
  BY <1>1, <1>2 DEF InsertFile, FileRow, UploadRequest, Expiry
<1>4. Returns(u)
  BY PlainMoves
<1>. QED  BY <1>1, <1>3, <1>4, ProcAssumption DEF Publishes, Returns, Moves, SameOwners, Owns, OwnPC, Proc, Handler

\* A core changes owners by a claim, an INSERT or a DELETE, and by nothing else.
LEMMA OwnerStep ==
  ASSUME TypeOK, LocalsOK, Shape, [Next]_vars
  PROVE  \/ \E u \in Upload : Claims(u) \/ Publishes(u)
         \/ \E p \in Remover : Retires(p)
         \/ SameFiles
<1>. USE Procs
<1>. DEFINE Goal == \/ \E u \in Upload : Claims(u) \/ Publishes(u)
                    \/ \E p \in Remover : Retires(p)
                    \/ SameFiles
<1>1. ASSUME NEW u \in Upload, ClaimCore(u) PROVE Goal
  <2>1. PICK c \in Core \ cores : Moves(u) /\ cores' = cores \cup {c} /\ core'[u] = c
    BY <1>1, ClaimCoreMoves
  <2>2. pc[u] = "idle" /\ UNCHANGED files
    BY <1>1 DEF ClaimCore
  <2>. QED  BY <2>1, <2>2 DEF Claims, SameOwners, Moves, Owns, OwnPC
<1>2. ASSUME NEW u \in Upload, ClaimFails(u) PROVE Goal
  <2>1. UNCHANGED <<cores, files>>
    BY <1>2 DEF ClaimFails, local
  <2>2. SameOwners(Proc)
    BY <1>2, PlainMoves DEF ClaimFails, Returns, Goes, Keeps, GivesUp, GoesOn, Acquires, Moves, SameOwners, Owns, OwnPC
  <2>. QED  BY <2>1, <2>2 DEF SameFiles
<1>3. ASSUME NEW u \in Upload, InsertObject(u) PROVE Goal
  <2>1. UNCHANGED <<cores, files>>
    BY <1>3 DEF InsertObject, local
  <2>2. SameOwners(Proc)
    BY <1>3, InsertObjectMoves DEF InsertObject, Returns, Goes, Keeps, GivesUp, GoesOn, Acquires, Moves, SameOwners, Owns, OwnPC
  <2>. QED  BY <2>1, <2>2 DEF SameFiles
<1>4. ASSUME NEW u \in Upload, ConflictObject(u) PROVE Goal
  <2>1. UNCHANGED <<cores, files>>
    BY <1>4 DEF ConflictObject, local
  <2>2. SameOwners(Proc)
    BY <1>4, PlainMoves DEF ConflictObject, Returns, Goes, Keeps, GivesUp, GoesOn, Acquires, Moves, SameOwners, Owns, OwnPC
  <2>. QED  BY <2>1, <2>2 DEF SameFiles
<1>5. ASSUME NEW u \in Upload, BumpObject(u) PROVE Goal
  <2>1. UNCHANGED <<cores, files>>
    BY <1>5 DEF BumpObject, local
  <2>2. SameOwners(Proc)
    BY <1>5, BumpObjectMoves DEF BumpObject, Returns, Goes, Keeps, GivesUp, GoesOn, Acquires, Moves, SameOwners, Owns, OwnPC
  <2>. QED  BY <2>1, <2>2 DEF SameFiles
<1>6. ASSUME NEW u \in Upload, BumpMisses(u) PROVE Goal
  <2>1. UNCHANGED <<cores, files>>
    BY <1>6 DEF BumpMisses, local
  <2>2. SameOwners(Proc)
    BY <1>6, PlainMoves DEF BumpMisses, Returns, Goes, Keeps, GivesUp, GoesOn, Acquires, Moves, SameOwners, Owns, OwnPC
  <2>. QED  BY <2>1, <2>2 DEF SameFiles
<1>7. ASSUME NEW u \in Upload, Put(u) PROVE Goal
  <2>1. UNCHANGED <<cores, files>>
    BY <1>7 DEF Put, local
  <2>2. SameOwners(Proc)
    BY <1>7, PutMoves DEF Put, Returns, Goes, Keeps, GivesUp, GoesOn, Acquires, Moves, SameOwners, Owns, OwnPC
  <2>. QED  BY <2>1, <2>2 DEF SameFiles
<1>8. ASSUME NEW u \in Upload, PutFails(u) PROVE Goal
  <2>1. UNCHANGED <<cores, files>>
    BY <1>8 DEF PutFails, local
  <2>2. SameOwners(Proc)
    BY <1>8, PlainMoves DEF PutFails, Returns, Goes, Keeps, GivesUp, GoesOn, Acquires, Moves, SameOwners, Owns, OwnPC
  <2>. QED  BY <2>1, <2>2 DEF SameFiles
<1>9. ASSUME NEW u \in Upload, InsertFile(u) PROVE Goal
  BY <1>9, InsertFilePublishes
<1>10. ASSUME NEW u \in Upload, InsertFails(u) PROVE Goal
  <2>1. UNCHANGED <<cores, files>>
    BY <1>10 DEF InsertFails, local
  <2>2. SameOwners(Proc)
    BY <1>10, PlainMoves DEF InsertFails, Returns, Goes, Keeps, GivesUp, GoesOn, Acquires, Moves, SameOwners, Owns, OwnPC
  <2>. QED  BY <2>1, <2>2 DEF SameFiles
<1>11. ASSUME NEW p \in Deleter, FindFile(p) PROVE Goal
  <2>1. UNCHANGED <<cores, files>>
    BY <1>11 DEF FindFile, local
  <2>2. SameOwners(Proc)
    BY <1>11, FindFileMoves DEF FindFile, Returns, Goes, Keeps, GivesUp, GoesOn, Acquires, Moves, SameOwners, Owns, OwnPC
  <2>. QED  BY <2>1, <2>2 DEF SameFiles
<1>12. ASSUME NEW r \in Reader, LoadLiveFile(r) PROVE Goal
  <2>1. UNCHANGED <<cores, files>>
    BY <1>12 DEF LoadLiveFile, local
  <2>2. SameOwners(Proc)
    BY <1>12, FindFileMoves DEF LoadLiveFile, Returns, Goes, Keeps, GivesUp, GoesOn, Acquires, Moves, SameOwners, Owns, OwnPC
  <2>. QED  BY <2>1, <2>2 DEF SameFiles
<1>13. ASSUME NEW r \in Reader, Collect(r) PROVE Goal
  <2>1. UNCHANGED <<cores, files>>
    BY <1>13 DEF Collect, local
  <2>2. SameOwners(Proc)
    BY <1>13, PlainMoves DEF Collect, Returns, Goes, Keeps, GivesUp, GoesOn, Acquires, Moves, SameOwners, Owns, OwnPC
  <2>. QED  BY <2>1, <2>2 DEF SameFiles
<1>14. ASSUME SweepScan PROVE Goal
  BY <1>14 DEF SweepScan, local, SameFiles, SameOwners, Owns
<1>15. ASSUME SweepNext PROVE Goal
  <2>1. UNCHANGED <<cores, files>>
    BY <1>15 DEF SweepNext, local
  <2>2. SameOwners(Proc)
    BY <1>15, SweepNextMoves DEF SweepNext, Returns, Goes, Keeps, GivesUp, GoesOn, Acquires, Moves, SameOwners, Owns, OwnPC
  <2>. QED  BY <2>1, <2>2 DEF SameFiles
<1>16. ASSUME NEW p \in Remover, RemoveRow(p) PROVE Goal
  <2>1. pc[p] = "remove" /\ files[core[p]] # None /\ UNCHANGED cores
    BY <1>16 DEF RemoveRow
  <2>. QED  BY <1>16, <2>1, RemoveRowMoves DEF Retires, Goes, Moves, SameOwners, Owns
<1>17. ASSUME NEW p \in Remover, RowGone(p) PROVE Goal
  <2>1. UNCHANGED <<cores, files>>
    BY <1>17 DEF RowGone, local
  <2>2. SameOwners(Proc)
    BY <1>17, PlainMoves DEF RowGone, Returns, Goes, Keeps, GivesUp, GoesOn, Acquires, Moves, SameOwners, Owns, OwnPC
  <2>. QED  BY <2>1, <2>2 DEF SameFiles
<1>18. ASSUME NEW p \in Proc, Release(p) PROVE Goal
  <2>1. UNCHANGED <<cores, files>>
    BY <1>18 DEF Release, local
  <2>2. SameOwners(Proc)
    <3>1. Keeps(p, "purge") \/ GoesOn(p)
      BY <1>18, PlainMoves
    <3>2. pc[p] = "release"
      BY <1>18 DEF Release
    <3>. QED  BY <3>1, <3>2 DEF Returns, Goes, Keeps, GoesOn, Moves, SameOwners, Owns, OwnPC
  <2>. QED  BY <2>1, <2>2 DEF SameFiles
<1>19. ASSUME NEW p \in Proc, Purge(p) PROVE Goal
  <2>1. UNCHANGED <<cores, files>>
    BY <1>19 DEF Purge, local
  <2>2. SameOwners(Proc)
    BY <1>19, PlainMoves DEF Purge, Returns, Goes, Keeps, GivesUp, GoesOn, Acquires, Moves, SameOwners, Owns, OwnPC
  <2>. QED  BY <2>1, <2>2 DEF SameFiles
<1>20. ASSUME NEW p \in Proc, Erase(p) PROVE Goal
  <2>1. UNCHANGED <<cores, files>>
    BY <1>20 DEF Erase, local
  <2>2. SameOwners(Proc)
    BY <1>20, PlainMoves DEF Erase, Returns, Goes, Keeps, GivesUp, GoesOn, Acquires, Moves, SameOwners, Owns, OwnPC
  <2>. QED  BY <2>1, <2>2 DEF SameFiles
<1>21. ASSUME NEW p \in Proc, EraseFails(p) PROVE Goal
  <2>1. UNCHANGED <<cores, files>>
    BY <1>21 DEF EraseFails, local
  <2>2. SameOwners(Proc)
    BY <1>21, PlainMoves DEF EraseFails, Returns, Goes, Keeps, GivesUp, GoesOn, Acquires, Moves, SameOwners, Owns, OwnPC
  <2>. QED  BY <2>1, <2>2 DEF SameFiles
<1>22. ASSUME NEW p \in Proc, StatementFails(p) PROVE Goal
  <2>1. UNCHANGED <<cores, files>>
    BY <1>22 DEF StatementFails, local
  <2>2. SameOwners(Proc)
    BY <1>22, StatementFailsMoves DEF StatementFails, Returns, Goes, Keeps, GivesUp, GoesOn, Acquires, Moves, SameOwners, Owns, OwnPC
  <2>. QED  BY <2>1, <2>2 DEF SameFiles
<1>23. ASSUME NEW p \in Proc, Cancel(p) PROVE Goal
  <2>1. UNCHANGED <<cores, files>>
    BY <1>23 DEF Cancel, local
  <2>2. SameOwners(Proc)
    BY <1>23, PlainMoves DEF Cancel, Returns, Goes, Keeps, GivesUp, GoesOn, Acquires, Moves, SameOwners, Owns, OwnPC
  <2>. QED  BY <2>1, <2>2 DEF SameFiles
<1>24. ASSUME NEW c \in Core, Expire(c) PROVE Goal
  BY <1>24 DEF Expire, local, SameFiles, SameOwners, Owns, TypeOK
<1>25. CASE UNCHANGED vars
  BY <1>25 DEF vars, SameFiles, SameOwners, Owns
<1>. QED
  BY <1>1, <1>2, <1>3, <1>4, <1>5, <1>6, <1>7, <1>8, <1>9, <1>10, <1>11, <1>12, <1>13, <1>14, <1>15, <1>16, <1>17, <1>18, <1>19, <1>20, <1>21, <1>22, <1>23, <1>24, <1>25
     DEF Next, UploadStep, RemoveStep, ReleaseStep, Quiet

\* Uploads work on the core they claimed until they return.
LEMMA UploadCoreStep ==
  ASSUME TypeOK, LocalsOK, Shape, [Next]_vars, NEW v \in Upload
  PROVE  core'[v] = core[v] \/ core'[v] = None \/ core'[v] \in Core \ cores
<1>. USE Procs
<1>. DEFINE Goal == core'[v] = core[v] \/ core'[v] = None \/ core'[v] \in Core \ cores
<1>1. ASSUME NEW u \in Upload, ClaimCore(u) PROVE Goal
  BY <1>1, ClaimCoreMoves DEF Returns, Goes, Keeps, GivesUp, GoesOn, Acquires, Moves
<1>2. ASSUME NEW u \in Upload, ClaimFails(u) PROVE Goal
  BY <1>2, PlainMoves DEF Returns, Goes, Keeps, GivesUp, GoesOn, Acquires, Moves
<1>3. ASSUME NEW u \in Upload, InsertObject(u) PROVE Goal
  BY <1>3, InsertObjectMoves DEF Returns, Goes, Keeps, GivesUp, GoesOn, Acquires, Moves
<1>4. ASSUME NEW u \in Upload, ConflictObject(u) PROVE Goal
  BY <1>4, PlainMoves DEF Returns, Goes, Keeps, GivesUp, GoesOn, Acquires, Moves
<1>5. ASSUME NEW u \in Upload, BumpObject(u) PROVE Goal
  BY <1>5, BumpObjectMoves DEF Returns, Goes, Keeps, GivesUp, GoesOn, Acquires, Moves
<1>6. ASSUME NEW u \in Upload, BumpMisses(u) PROVE Goal
  BY <1>6, PlainMoves DEF Returns, Goes, Keeps, GivesUp, GoesOn, Acquires, Moves
<1>7. ASSUME NEW u \in Upload, Put(u) PROVE Goal
  BY <1>7, PutMoves DEF Returns, Goes, Keeps, GivesUp, GoesOn, Acquires, Moves
<1>8. ASSUME NEW u \in Upload, PutFails(u) PROVE Goal
  BY <1>8, PlainMoves DEF Returns, Goes, Keeps, GivesUp, GoesOn, Acquires, Moves
<1>9. ASSUME NEW u \in Upload, InsertFile(u) PROVE Goal
  BY <1>9, PlainMoves DEF Returns, Goes, Keeps, GivesUp, GoesOn, Acquires, Moves
<1>10. ASSUME NEW u \in Upload, InsertFails(u) PROVE Goal
  BY <1>10, PlainMoves DEF Returns, Goes, Keeps, GivesUp, GoesOn, Acquires, Moves
<1>11. ASSUME NEW p \in Deleter, FindFile(p) PROVE Goal
  BY <1>11, FindFileMoves DEF Returns, Goes, Keeps, GivesUp, GoesOn, Acquires, Moves
<1>12. ASSUME NEW r \in Reader, LoadLiveFile(r) PROVE Goal
  BY <1>12, FindFileMoves DEF Returns, Goes, Keeps, GivesUp, GoesOn, Acquires, Moves
<1>13. ASSUME NEW r \in Reader, Collect(r) PROVE Goal
  BY <1>13, PlainMoves DEF Returns, Goes, Keeps, GivesUp, GoesOn, Acquires, Moves
<1>14. ASSUME SweepScan PROVE Goal
  BY <1>14 DEF SweepScan, local
<1>15. ASSUME SweepNext PROVE Goal
  BY <1>15, SweepNextMoves DEF Returns, Goes, Keeps, GivesUp, GoesOn, Acquires, Moves
<1>16. ASSUME NEW p \in Remover, RemoveRow(p) PROVE Goal
  BY <1>16, RemoveRowMoves DEF Returns, Goes, Keeps, GivesUp, GoesOn, Acquires, Moves
<1>17. ASSUME NEW p \in Remover, RowGone(p) PROVE Goal
  BY <1>17, PlainMoves DEF Returns, Goes, Keeps, GivesUp, GoesOn, Acquires, Moves
<1>18. ASSUME NEW p \in Proc, Release(p) PROVE Goal
  BY <1>18, PlainMoves DEF Returns, Goes, Keeps, GivesUp, GoesOn, Acquires, Moves
<1>19. ASSUME NEW p \in Proc, Purge(p) PROVE Goal
  BY <1>19, PlainMoves DEF Returns, Goes, Keeps, GivesUp, GoesOn, Acquires, Moves
<1>20. ASSUME NEW p \in Proc, Erase(p) PROVE Goal
  BY <1>20, PlainMoves DEF Returns, Goes, Keeps, GivesUp, GoesOn, Acquires, Moves
<1>21. ASSUME NEW p \in Proc, EraseFails(p) PROVE Goal
  BY <1>21, PlainMoves DEF Returns, Goes, Keeps, GivesUp, GoesOn, Acquires, Moves
<1>22. ASSUME NEW p \in Proc, StatementFails(p) PROVE Goal
  BY <1>22, StatementFailsMoves DEF Returns, Goes, Keeps, GivesUp, GoesOn, Acquires, Moves
<1>23. ASSUME NEW p \in Proc, Cancel(p) PROVE Goal
  BY <1>23, PlainMoves DEF Returns, Goes, Keeps, GivesUp, GoesOn, Acquires, Moves
<1>24. ASSUME NEW c \in Core, Expire(c) PROVE Goal
  BY <1>24 DEF Expire, local
<1>25. CASE UNCHANGED vars
  BY <1>25 DEF vars
<1>. QED
  BY <1>1, <1>2, <1>3, <1>4, <1>5, <1>6, <1>7, <1>8, <1>9, <1>10, <1>11, <1>12, <1>13, <1>14, <1>15, <1>16, <1>17, <1>18, <1>19, <1>20, <1>21, <1>22, <1>23, <1>24, <1>25
     DEF Next, UploadStep, RemoveStep, ReleaseStep, Quiet

\* No core ever has two owners.
LEMMA OwnershipStep ==
  ASSUME TypeOK, LocalsOK, Shape, Ownership, [Next]_vars
  PROVE  Ownership'
<1>. USE Procs
<1>0. /\ files \in [Core -> FileRow \cup {None}]
      /\ \A p \in Proc : Owns(p) => core[p] \in Core
      /\ \A p \in Proc : pc[p] = "remove" => ~Owns(p)
  BY DEF TypeOK, Shape, ShapeOf, Owns, OwnPC
<1>1. ASSUME NEW u \in Upload, Claims(u) PROVE Ownership'
  BY <1>0, <1>1 DEF Claims, SameOwners, Ownership
<1>2. ASSUME NEW u \in Upload, Publishes(u) PROVE Ownership'
  BY <1>0, <1>2 DEF Publishes, SameOwners, Ownership
<1>3. ASSUME NEW p \in Remover, Retires(p) PROVE Ownership'
  BY <1>0, <1>3 DEF Retires, SameOwners, Ownership
<1>4. CASE SameFiles
  BY <1>0, <1>4, DataAssumption DEF SameFiles, SameOwners, Ownership
<1>. QED  BY <1>1, <1>2, <1>3, <1>4, OwnerStep

-----------------------------------------------------------------------------
(***************************************************************************)
(* What a remover has looked up stays what it was until it is gone.        *)
(***************************************************************************)
\* A core with a row is no longer any upload's.
LEMMA LiveIsPublished ==
  ASSUME Shape, Ownership, NEW c \in Core, files[c] # None
  PROVE  Published(c)
<1>1. \A u \in Upload : core[u] = c => Owns(u)
  BY Procs, DataAssumption DEF Shape, ShapeOf, Owns, OwnPC, UploadPC
<1>. QED  BY <1>1, Procs DEF Ownership, Published

\* A published core keeps its row unchanged, but for time, until it is deleted.
LEMMA PublishedStep ==
  ASSUME TypeOK, LocalsOK, Shape, Ownership, [Next]_vars, NEW c \in Core, Published(c)
  PROVE  /\ Published(c)'
         /\ files'[c] # None =>
              /\ files[c] # None /\ files'[c].key = files[c].key
              /\ files'[c].expires = files[c].expires \/ files'[c].expires = "passed"
<1>. USE Procs
<1>1. cores \subseteq cores'
  BY OwnerStep DEF Claims, Publishes, Retires, SameFiles
<1>2. Published(c)'
  BY <1>1, UploadCoreStep, DataAssumption DEF Published
<1>3. files \in [Core -> FileRow \cup {None}]
  BY DEF TypeOK
<1>. DEFINE Kept == files'[c] # None =>
              /\ files[c] # None /\ files'[c].key = files[c].key
              /\ files'[c].expires = files[c].expires \/ files'[c].expires = "passed"
<1>4. ASSUME NEW u \in Upload, Claims(u) \/ Publishes(u) PROVE Kept
  BY <1>3, <1>4 DEF Claims, Publishes, Published
<1>5. ASSUME NEW p \in Remover, Retires(p) PROVE Kept
  BY <1>3, <1>5 DEF Retires
<1>6. ASSUME SameFiles PROVE Kept
  <2>1. CASE files'[c] = files[c]
    BY <2>1
  <2>2. CASE files[c] # None /\ files'[c] = [files[c] EXCEPT !.expires = "passed"]
    <3>1. files[c] \in FileRow
      BY <1>3, <2>2
    <3>. QED  BY <2>2, <3>1 DEF FileRow
  <2>. QED  BY <1>6, <2>1, <2>2 DEF SameFiles
<1>7. Kept
  BY <1>4, <1>5, <1>6, OwnerStep
<1>. QED  BY <1>2, <1>7

Looking(p) == pc[p] \in {"collect", "remove"}

\* A remover looks up a live file, or goes on with the one it looked up; the
\* sweeper's batch grows by expired files only.
LEMMA LookupStep ==
  ASSUME TypeOK, LocalsOK, Shape, [Next]_vars
  PROVE  /\ \A q \in Remover : Looking(q)' =>
              \/ Looking(q) /\ core'[q] = core[q] /\ held'[q]["file"] = held[q]["file"]
              \/ /\ q # Sweeper /\ core'[q] \in Core /\ files[core'[q]] # None
                 /\ held'[q]["file"] = files[core'[q]].key /\ UNCHANGED files
              \/ q = Sweeper /\ core'[q] \in todo /\ UNCHANGED files
         /\ \A c \in todo' :
              \/ c \in todo
              \/ /\ c \in Core /\ files[c] # None /\ files[c].expires = "passed"
                 /\ UNCHANGED files
<1>. USE Procs
<1>. DEFINE Look(q) == Looking(q)' =>
              \/ Looking(q) /\ core'[q] = core[q] /\ held'[q]["file"] = held[q]["file"]
              \/ /\ q # Sweeper /\ core'[q] \in Core /\ files[core'[q]] # None
                 /\ held'[q]["file"] = files[core'[q]].key /\ UNCHANGED files
              \/ q = Sweeper /\ core'[q] \in todo /\ UNCHANGED files
<1>. DEFINE Batch == \A c \in todo' :
              \/ c \in todo
              \/ /\ c \in Core /\ files[c] # None /\ files[c].expires = "passed"
                 /\ UNCHANGED files
<1>. DEFINE Goal == (\A q \in Remover : Look(q)) /\ Batch
<1>1. ASSUME NEW u \in Upload, ClaimCore(u) PROVE Goal
  <2>1. Batch
    BY <1>1 DEF ClaimCore
  <2>2. ASSUME NEW q \in Remover PROVE Look(q)
    BY <1>1, ClaimCoreMoves DEF Returns, Goes, Keeps, GivesUp, GoesOn, Acquires, Moves, Looking
  <2>. QED  BY <2>1, <2>2
<1>2. ASSUME NEW u \in Upload, ClaimFails(u) PROVE Goal
  <2>1. Batch
    BY <1>2 DEF ClaimFails
  <2>2. ASSUME NEW q \in Remover PROVE Look(q)
    BY <1>2, PlainMoves DEF Returns, Goes, Keeps, GivesUp, GoesOn, Acquires, Moves, Looking
  <2>. QED  BY <2>1, <2>2
<1>3. ASSUME NEW u \in Upload, InsertObject(u) PROVE Goal
  <2>1. Batch
    BY <1>3 DEF InsertObject
  <2>2. ASSUME NEW q \in Remover PROVE Look(q)
    BY <1>3, InsertObjectMoves DEF Returns, Goes, Keeps, GivesUp, GoesOn, Acquires, Moves, Looking
  <2>. QED  BY <2>1, <2>2
<1>4. ASSUME NEW u \in Upload, ConflictObject(u) PROVE Goal
  <2>1. Batch
    BY <1>4 DEF ConflictObject
  <2>2. ASSUME NEW q \in Remover PROVE Look(q)
    BY <1>4, PlainMoves DEF Returns, Goes, Keeps, GivesUp, GoesOn, Acquires, Moves, Looking
  <2>. QED  BY <2>1, <2>2
<1>5. ASSUME NEW u \in Upload, BumpObject(u) PROVE Goal
  <2>1. Batch
    BY <1>5 DEF BumpObject
  <2>2. ASSUME NEW q \in Remover PROVE Look(q)
    BY <1>5, BumpObjectMoves DEF Returns, Goes, Keeps, GivesUp, GoesOn, Acquires, Moves, Looking
  <2>. QED  BY <2>1, <2>2
<1>6. ASSUME NEW u \in Upload, BumpMisses(u) PROVE Goal
  <2>1. Batch
    BY <1>6 DEF BumpMisses
  <2>2. ASSUME NEW q \in Remover PROVE Look(q)
    BY <1>6, PlainMoves DEF Returns, Goes, Keeps, GivesUp, GoesOn, Acquires, Moves, Looking
  <2>. QED  BY <2>1, <2>2
<1>7. ASSUME NEW u \in Upload, Put(u) PROVE Goal
  <2>1. Batch
    BY <1>7 DEF Put
  <2>2. ASSUME NEW q \in Remover PROVE Look(q)
    BY <1>7, PutMoves DEF Returns, Goes, Keeps, GivesUp, GoesOn, Acquires, Moves, Looking
  <2>. QED  BY <2>1, <2>2
<1>8. ASSUME NEW u \in Upload, PutFails(u) PROVE Goal
  <2>1. Batch
    BY <1>8 DEF PutFails
  <2>2. ASSUME NEW q \in Remover PROVE Look(q)
    BY <1>8, PlainMoves DEF Returns, Goes, Keeps, GivesUp, GoesOn, Acquires, Moves, Looking
  <2>. QED  BY <2>1, <2>2
<1>9. ASSUME NEW u \in Upload, InsertFile(u) PROVE Goal
  <2>1. Batch
    BY <1>9 DEF InsertFile
  <2>2. ASSUME NEW q \in Remover PROVE Look(q)
    BY <1>9, PlainMoves DEF Returns, Goes, Keeps, GivesUp, GoesOn, Acquires, Moves, Looking
  <2>. QED  BY <2>1, <2>2
<1>10. ASSUME NEW u \in Upload, InsertFails(u) PROVE Goal
  <2>1. Batch
    BY <1>10 DEF InsertFails
  <2>2. ASSUME NEW q \in Remover PROVE Look(q)
    BY <1>10, PlainMoves DEF Returns, Goes, Keeps, GivesUp, GoesOn, Acquires, Moves, Looking
  <2>. QED  BY <2>1, <2>2
<1>11. ASSUME NEW p \in Deleter, FindFile(p) PROVE Goal
  <2>1. PICK c \in Core :
          /\ files[c] # None /\ Moves(p) /\ core'[p] = c
          /\ held'[p]["file"] = files[c].key
    BY <1>11, FindFileMoves
  <2>2. UNCHANGED <<files, todo>> /\ p # Sweeper
    BY <1>11, ProcAssumption DEF FindFile, Handler
  <2>. QED  BY <2>1, <2>2 DEF Moves, Looking
<1>12. ASSUME NEW r \in Reader, LoadLiveFile(r) PROVE Goal
  <2>1. PICK c \in Core :
          /\ files[c] # None /\ Moves(r) /\ core'[r] = c
          /\ held'[r]["file"] = files[c].key
    BY <1>12, FindFileMoves
  <2>2. UNCHANGED <<files, todo>> /\ r # Sweeper
    BY <1>12, ProcAssumption DEF LoadLiveFile, Handler
  <2>. QED  BY <2>1, <2>2 DEF Moves, Looking
<1>13. ASSUME NEW r \in Reader, Collect(r) PROVE Goal
  <2>1. Batch
    BY <1>13 DEF Collect
  <2>2. ASSUME NEW q \in Remover PROVE Look(q)
    BY <1>13, PlainMoves DEF Collect, Returns, Goes, Keeps, GivesUp, GoesOn, Acquires, Moves, Looking
  <2>. QED  BY <2>1, <2>2
<1>14. ASSUME SweepScan PROVE Goal
  BY <1>14 DEF SweepScan, local, Looking
<1>15. ASSUME SweepNext PROVE Goal
  <2>1. UNCHANGED files
    BY <1>15 DEF SweepNext
  <2>. QED  BY <1>15, <2>1, SweepNextMoves DEF Moves, Looking
<1>16. ASSUME NEW p \in Remover, RemoveRow(p) PROVE Goal
  <2>1. Batch
    BY <1>16 DEF RemoveRow
  <2>2. ASSUME NEW q \in Remover PROVE Look(q)
    BY <1>16, RemoveRowMoves DEF Returns, Goes, Keeps, GivesUp, GoesOn, Acquires, Moves, Looking
  <2>. QED  BY <2>1, <2>2
<1>17. ASSUME NEW p \in Remover, RowGone(p) PROVE Goal
  <2>1. Batch
    BY <1>17 DEF RowGone
  <2>2. ASSUME NEW q \in Remover PROVE Look(q)
    BY <1>17, PlainMoves DEF Returns, Goes, Keeps, GivesUp, GoesOn, Acquires, Moves, Looking
  <2>. QED  BY <2>1, <2>2
<1>18. ASSUME NEW p \in Proc, Release(p) PROVE Goal
  <2>1. Batch
    BY <1>18 DEF Release
  <2>2. ASSUME NEW q \in Remover PROVE Look(q)
    BY <1>18, PlainMoves DEF Returns, Goes, Keeps, GivesUp, GoesOn, Acquires, Moves, Looking
  <2>. QED  BY <2>1, <2>2
<1>19. ASSUME NEW p \in Proc, Purge(p) PROVE Goal
  <2>1. Batch
    BY <1>19 DEF Purge
  <2>2. ASSUME NEW q \in Remover PROVE Look(q)
    BY <1>19, PlainMoves DEF Returns, Goes, Keeps, GivesUp, GoesOn, Acquires, Moves, Looking
  <2>. QED  BY <2>1, <2>2
<1>20. ASSUME NEW p \in Proc, Erase(p) PROVE Goal
  <2>1. Batch
    BY <1>20 DEF Erase
  <2>2. ASSUME NEW q \in Remover PROVE Look(q)
    BY <1>20, PlainMoves DEF Returns, Goes, Keeps, GivesUp, GoesOn, Acquires, Moves, Looking
  <2>. QED  BY <2>1, <2>2
<1>21. ASSUME NEW p \in Proc, EraseFails(p) PROVE Goal
  <2>1. Batch
    BY <1>21 DEF EraseFails
  <2>2. ASSUME NEW q \in Remover PROVE Look(q)
    BY <1>21, PlainMoves DEF Returns, Goes, Keeps, GivesUp, GoesOn, Acquires, Moves, Looking
  <2>. QED  BY <2>1, <2>2
<1>22. ASSUME NEW p \in Proc, StatementFails(p) PROVE Goal
  <2>1. Batch
    BY <1>22 DEF StatementFails
  <2>2. ASSUME NEW q \in Remover PROVE Look(q)
    BY <1>22, StatementFailsMoves DEF Returns, Goes, Keeps, GivesUp, GoesOn, Acquires, Moves, Looking
  <2>. QED  BY <2>1, <2>2
<1>23. ASSUME NEW p \in Proc, Cancel(p) PROVE Goal
  <2>1. Batch
    BY <1>23 DEF Cancel
  <2>2. ASSUME NEW q \in Remover PROVE Look(q)
    BY <1>23, PlainMoves DEF Returns, Goes, Keeps, GivesUp, GoesOn, Acquires, Moves, Looking
  <2>. QED  BY <2>1, <2>2
<1>24. ASSUME NEW c \in Core, Expire(c) PROVE Goal
  BY <1>24 DEF Expire, local, Looking
<1>25. CASE UNCHANGED vars
  BY <1>25 DEF vars, Looking
<1>. QED
  BY <1>1, <1>2, <1>3, <1>4, <1>5, <1>6, <1>7, <1>8, <1>9, <1>10, <1>11, <1>12, <1>13, <1>14, <1>15, <1>16, <1>17, <1>18, <1>19, <1>20, <1>21, <1>22, <1>23, <1>24, <1>25
     DEF Next, UploadStep, RemoveStep, ReleaseStep, Quiet

\* What was looked up stays either the same row or no row.
LEMMA LookupsStep ==
  ASSUME TypeOK, LocalsOK, LocalsOK', Shape, Shape', Ownership, Lookups, [Next]_vars
  PROVE  Lookups'
<1>. USE Procs, LookupStep, PublishedStep, LiveIsPublished
<1>0. todo \subseteq Core /\ \A q \in Remover : Looking(q) => core[q] \in Core
  BY DEF TypeOK, Shape, ShapeOf, Looking
<1>1. ASSUME NEW q \in Remover, Looking(q)' PROVE core'[q] \in Core /\ Published(core[q])'
  <2>1. core'[q] \in Core /\ Published(core'[q])
    BY <1>0, <1>1 DEF Lookups, Looking
  <2>2. \A c \in Core : Published(c) => c \in cores' /\ \A u \in Upload : core'[u] # c
    BY DEF Published
  <2>. QED  BY <2>1, <2>2 DEF Published
<1>2. ASSUME NEW c \in todo' PROVE Published(c)'
  BY <1>0, <1>2 DEF Lookups
<1>3. ASSUME NEW q \in Deleter \cup Reader, Looking(q)', files'[core'[q]] # None
      PROVE  files'[core'[q]].key = held'[q]["file"]
  <2>1. q # Sweeper /\ q \in Remover
    BY ProcAssumption DEF Handler
  <2>2. CASE Looking(q) /\ core'[q] = core[q] /\ held'[q]["file"] = held[q]["file"]
    <3>1. core[q] \in Core /\ Published(core[q])
      BY <1>0, <2>1, <2>2 DEF Lookups, Looking
    <3>2. files[core[q]] # None /\ files'[core[q]].key = files[core[q]].key
      BY <1>3, <2>2, <3>1
    <3>. QED  BY <2>2, <3>2 DEF Lookups, RemovesWhatItLoaded, Looking
  <2>3. CASE /\ core'[q] \in Core /\ files[core'[q]] # None
             /\ held'[q]["file"] = files[core'[q]].key /\ UNCHANGED files
    BY <2>3
  <2>. QED  BY <1>3, <2>1, <2>2, <2>3
<1>4. ASSUME NEW c \in Core, files'[c] # None,
             c \in todo' \/ (Looking(Sweeper)' /\ core'[Sweeper] = c)
      PROVE  files'[c].expires = "passed"
  <2>1. CASE c \in todo \/ (Looking(Sweeper) /\ pc[Sweeper] = "remove" /\ core[Sweeper] = c)
    <3>1. Published(c)
      BY <1>0, <2>1 DEF Lookups, Looking
    <3>2. files[c] # None /\ files[c].expires = "passed"
      BY <1>4, <2>1, <3>1 DEF Lookups, RemovesWhatItLoaded
    <3>. QED  BY <1>4, <3>1, <3>2
  <2>2. CASE files[c] # None /\ files[c].expires = "passed" /\ UNCHANGED files
    BY <2>2
  <2>3. Looking(Sweeper) => pc[Sweeper] = "remove"
    BY ProcAssumption DEF Looking, Shape, ShapeOf, Handler
  <2>. QED  BY <1>4, <2>1, <2>2, <2>3
<1>. QED  BY <1>1, <1>2, <1>3, <1>4 DEF Lookups, RemovesWhatItLoaded, Looking

-----------------------------------------------------------------------------
(***************************************************************************)
(* What an owner holds is counted.                                         *)
(***************************************************************************)
\* p holds nothing it did not hold as the owner of the same core, and what it
\* had released it does not take back.
Less(p) ==
  \A x \in Part : Owns(p)' /\ held'[p][x] # None =>
    /\ Owns(p) /\ core'[p] = core[p] /\ want'[p] = want[p] /\ held'[p][x] = held[p][x]
    /\ Releasing(p, x) => Releasing(p, x)'

\* An upload acquires the key k for the reference it is at: a new row has a
\* new key, or the upload shares the key of a row.
Inserts(u, k) == k = <<part[u], core[u]>> /\ pc'[u] = "put" /\ part'[u] = part[u]

SameRows ==
  \A d \in Digest : objects'[d] # None =>
    objects[d] # None /\ objects'[d].key = objects[d].key

Takes(u, k) ==
  /\ pc[u] \in {"acquire", "bump"} /\ k \in Key /\ Sha(u) \in Digest
  /\ Moves(u) /\ core'[u] = core[u] /\ want'[u] = want[u]
  /\ pc'[u] \in {"put", "insert"}
       \/ (pc'[u] = "acquire" /\ part[u] = "file" /\ part'[u] = "thumb")
  /\ held'[u][part[u]] = k /\ \A x \in Part : x # part[u] => held'[u][x] = held[u][x]
  /\ debt' = [debt EXCEPT ![<<part[u], core[u]>>] = k]
  /\ UNCHANGED <<files, blobs>>
  /\ \/ /\ Inserts(u, k) /\ RowsOf(k) = {} /\ objects[Sha(u)] = None
        /\ objects' = [objects EXCEPT ![Sha(u)] = [key |-> k, refcount |-> 1]]
     \/ /\ Sha(u) \in RowsOf(k)
        /\ objects' = [objects EXCEPT ![Sha(u)].refcount = @ + 1]

\* The remover of a row holds the keys of the row.
Inherits(p) ==
  /\ pc[p] = "remove" /\ core[p] \in Core /\ files[core[p]] \in FileRow
  /\ files' = [files EXCEPT ![core[p]] = None] /\ UNCHANGED <<debt, objects, blobs>>
  /\ Goes(p, "release", part[p], files[core[p]].key, files[core[p]].thumb)

\* How INSERT and UPDATE of objects hand a key to an upload.
LEMMA TakesStep ==
  ASSUME TypeOK, LocalsOK, Shape, NEW u \in Upload
  PROVE  /\ InsertObject(u) =>
              \/ Takes(u, <<part[u], core[u]>>)
              \/ Less(u) /\ pc'[u] # "put" /\ UNCHANGED <<objects, debt>>
         /\ BumpObject(u) => Takes(u, objects[Sha(u)].key)
<1>. USE Procs
<1>1. part[u] \in Part
  BY DEF LocalsOK
<1>2. ASSUME InsertObject(u)
      PROVE  \/ Takes(u, <<part[u], core[u]>>)
             \/ Less(u) /\ pc'[u] # "put" /\ UNCHANGED <<objects, debt>>
  <2>1. pc[u] = "acquire" /\ objects[Sha(u)] = None /\ UNCHANGED <<files, blobs>>
    BY <1>2 DEF InsertObject
  <2>2. CASE /\ objects' = objects /\ debt' = debt /\ GivesUp(u)
    BY <2>1, <2>2, Keys DEF GivesUp, Keeps, Goes, Returns, Less, Owns, OwnPC, Releasing
  <2>3. CASE LET k == <<part[u], core[u]>> IN
            /\ k \in Key /\ RowsOf(k) = {} /\ Sha(u) \in Digest
            /\ objects' = [objects EXCEPT ![Sha(u)] = [key |-> k, refcount |-> 1]]
            /\ debt' = [debt EXCEPT ![k] = k]
            /\ Goes(u, "put", part[u], Pick(u, k, held[u]["file"]), Pick(u, held[u]["thumb"], k))
    BY <1>1, <2>1, <2>3, Keys DEF Takes, Inserts, Goes, Pick
  <2>. QED  BY <1>2, <2>2, <2>3, InsertObjectMoves
<1>3. ASSUME BumpObject(u) PROVE Takes(u, objects[Sha(u)].key)
  <2>1. /\ pc[u] = "bump" /\ UNCHANGED <<files, blobs>>
        /\ debt' = [debt EXCEPT ![<<part[u], core[u]>>] = objects[Sha(u)].key]
    BY <1>3 DEF BumpObject
  <2>2. /\ Sha(u) \in Digest /\ Sha(u) \in RowsOf(objects[Sha(u)].key)
        /\ objects' = [objects EXCEPT ![Sha(u)].refcount = @ + 1]
    BY <1>3, BumpObjectMoves DEF BumpObject, RowsOf
  <2>. DEFINE k == objects[Sha(u)].key
  <2>3. k \in Key /\ Acquires(u, k)
    BY <1>3, BumpObjectMoves
  <2>4. /\ Moves(u) /\ core'[u] = core[u] /\ want'[u] = want[u]
        /\ pc'[u] = "insert"
             \/ (pc'[u] = "acquire" /\ part[u] = "file" /\ part'[u] = "thumb")
        /\ held'[u][part[u]] = k /\ \A x \in Part : x # part[u] => held'[u][x] = held[u][x]
    BY <1>1, <2>3, Keys DEF Acquires, Goes, Pick
  <2>. QED  BY <2>1, <2>2, <2>3, <2>4 DEF Takes
<1>. QED  BY <1>2, <1>3

\* Going on after a release, a handler holds less than before.
LEMMA GoesOnLess ==
  ASSUME LocalsOK, NEW p \in Proc, GoesOn(p), pc[p] \in {"release", "purge", "erase"}
  PROVE  Less(p)
<1>1. CASE /\ part[p] = "file"
           /\ Goes(p, "release", "thumb", None, held[p]["thumb"])
  BY <1>1, Keys DEF Goes, Less, Owns, OwnPC, Releasing
<1>2. CASE /\ part[p] = "thumb"
           /\ Goes(p, "insert", "thumb", held[p]["file"], None)
  BY <1>2, Keys DEF Goes, Less, Owns, OwnPC, Releasing
<1>3. CASE Returns(p)
  BY <1>3 DEF Returns, Less, Owns, OwnPC
<1>. QED  BY <1>1, <1>2, <1>3 DEF GoesOn

\* Keys come to a handler by an acquire or by the DELETE of a row only.
LEMMA HeldStep ==
  ASSUME TypeOK, LocalsOK, Shape, [Next]_vars
  PROVE  \/ \E u \in Upload, k \in Key : Takes(u, k)
         \/ \E p \in Remover : Inherits(p)
         \/ \A q \in Proc : Less(q)
<1>. USE Procs
<1>. DEFINE Goal == \/ \E u \in Upload, k \in Key : Takes(u, k)
                    \/ \E p \in Remover : Inherits(p)
                    \/ \A q \in Proc : Less(q)
<1>0. ASSUME NEW p \in Proc, Moves(p), Less(p) PROVE Goal
  BY <1>0 DEF Moves, Less, Owns, Releasing
<1>1. ASSUME NEW u \in Upload, ClaimCore(u) PROVE Goal
  <2>1. Moves(u)
    BY <1>1, ClaimCoreMoves DEF Returns, Goes, Keeps, GivesUp, GoesOn, Acquires
  <2>2. Less(u)
    BY <1>1, ClaimCoreMoves, Keys DEF ClaimCore, Shape, ShapeOf, NoKeys, Returns, Goes, Keeps, GivesUp, GoesOn, Acquires, Pick, Less, Releasing, Owns, OwnPC
  <2>. QED  BY <1>0, <2>1, <2>2
<1>2. ASSUME NEW u \in Upload, ClaimFails(u) PROVE Goal
  <2>1. Moves(u)
    BY <1>2, PlainMoves DEF Returns, Goes, Keeps, GivesUp, GoesOn, Acquires
  <2>2. Less(u)
    BY <1>2, PlainMoves, Keys DEF ClaimFails, Shape, ShapeOf, NoKeys, Returns, Goes, Keeps, GivesUp, GoesOn, Acquires, Pick, Less, Releasing, Owns, OwnPC
  <2>. QED  BY <1>0, <2>1, <2>2
<1>3. ASSUME NEW u \in Upload, InsertObject(u) PROVE Goal
  <2>1. Moves(u)
    BY <1>3, InsertObjectMoves DEF Goes, Keeps, GivesUp, Returns
  <2>2. Takes(u, <<part[u], core[u]>>) => <<part[u], core[u]>> \in Key
    BY DEF Takes
  <2>. QED  BY <1>0, <1>3, <2>1, <2>2, TakesStep
<1>4. ASSUME NEW u \in Upload, ConflictObject(u) PROVE Goal
  <2>1. Moves(u)
    BY <1>4, PlainMoves DEF Returns, Goes, Keeps, GivesUp, GoesOn, Acquires
  <2>2. Less(u)
    BY <1>4, PlainMoves, Keys DEF ConflictObject, Shape, ShapeOf, NoKeys, Returns, Goes, Keeps, GivesUp, GoesOn, Acquires, Pick, Less, Releasing, Owns, OwnPC
  <2>. QED  BY <1>0, <2>1, <2>2
<1>5. ASSUME NEW u \in Upload, BumpObject(u) PROVE Goal
  BY <1>5, TakesStep, BumpObjectMoves
<1>6. ASSUME NEW u \in Upload, BumpMisses(u) PROVE Goal
  <2>1. Moves(u)
    BY <1>6, PlainMoves DEF Returns, Goes, Keeps, GivesUp, GoesOn, Acquires
  <2>2. Less(u)
    BY <1>6, PlainMoves, Keys DEF BumpMisses, Shape, ShapeOf, NoKeys, Returns, Goes, Keeps, GivesUp, GoesOn, Acquires, Pick, Less, Releasing, Owns, OwnPC
  <2>. QED  BY <1>0, <2>1, <2>2
<1>7. ASSUME NEW u \in Upload, Put(u) PROVE Goal
  <2>1. Moves(u)
    BY <1>7, PutMoves DEF Returns, Goes, Keeps, GivesUp, GoesOn, Acquires
  <2>2. Less(u)
    BY <1>7, PutMoves, Keys DEF Put, Shape, ShapeOf, NoKeys, Returns, Goes, Keeps, GivesUp, GoesOn, Acquires, Pick, Less, Releasing, Owns, OwnPC
  <2>. QED  BY <1>0, <2>1, <2>2
<1>8. ASSUME NEW u \in Upload, PutFails(u) PROVE Goal
  <2>1. Moves(u)
    BY <1>8, PlainMoves DEF Returns, Goes, Keeps, GivesUp, GoesOn, Acquires
  <2>2. Less(u)
    BY <1>8, PlainMoves, Keys DEF PutFails, Shape, ShapeOf, NoKeys, Returns, Goes, Keeps, GivesUp, GoesOn, Acquires, Pick, Less, Releasing, Owns, OwnPC
  <2>. QED  BY <1>0, <2>1, <2>2
<1>9. ASSUME NEW u \in Upload, InsertFile(u) PROVE Goal
  <2>1. Moves(u)
    BY <1>9, PlainMoves DEF Returns, Goes, Keeps, GivesUp, GoesOn, Acquires
  <2>2. Less(u)
    BY <1>9, PlainMoves, Keys DEF InsertFile, Shape, ShapeOf, NoKeys, Returns, Goes, Keeps, GivesUp, GoesOn, Acquires, Pick, Less, Releasing, Owns, OwnPC
  <2>. QED  BY <1>0, <2>1, <2>2
<1>10. ASSUME NEW u \in Upload, InsertFails(u) PROVE Goal
  <2>1. Moves(u)
    BY <1>10, PlainMoves DEF Returns, Goes, Keeps, GivesUp, GoesOn, Acquires
  <2>2. Less(u)
    BY <1>10, PlainMoves, Keys DEF InsertFails, Shape, ShapeOf, NoKeys, Returns, Goes, Keeps, GivesUp, GoesOn, Acquires, Pick, Less, Releasing, Owns, OwnPC
  <2>. QED  BY <1>0, <2>1, <2>2
<1>11. ASSUME NEW p \in Deleter, FindFile(p) PROVE Goal
  <2>1. Moves(p)
    BY <1>11, FindFileMoves DEF Returns, Goes, Keeps, GivesUp, GoesOn, Acquires
  <2>2. Less(p)
    BY <1>11, FindFileMoves, Keys DEF FindFile, Shape, ShapeOf, NoKeys, Returns, Goes, Keeps, GivesUp, GoesOn, Acquires, Pick, Less, Releasing, Owns, OwnPC
  <2>. QED  BY <1>0, <2>1, <2>2
<1>12. ASSUME NEW r \in Reader, LoadLiveFile(r) PROVE Goal
  <2>1. Moves(r)
    BY <1>12, FindFileMoves DEF Returns, Goes, Keeps, GivesUp, GoesOn, Acquires
  <2>2. Less(r)
    BY <1>12, FindFileMoves, Keys DEF LoadLiveFile, Shape, ShapeOf, NoKeys, Returns, Goes, Keeps, GivesUp, GoesOn, Acquires, Pick, Less, Releasing, Owns, OwnPC
  <2>. QED  BY <1>0, <2>1, <2>2
<1>13. ASSUME NEW r \in Reader, Collect(r) PROVE Goal
  <2>1. Moves(r)
    BY <1>13, PlainMoves DEF Returns, Goes, Keeps, GivesUp, GoesOn, Acquires
  <2>2. Less(r)
    BY <1>13, PlainMoves, Keys DEF Collect, Shape, ShapeOf, NoKeys, Returns, Goes, Keeps, GivesUp, GoesOn, Acquires, Pick, Less, Releasing, Owns, OwnPC
  <2>. QED  BY <1>0, <2>1, <2>2
<1>14. ASSUME SweepScan PROVE Goal
  BY <1>14 DEF SweepScan, local, Less, Owns, Releasing
<1>15. ASSUME SweepNext PROVE Goal
  <2>1. Moves(Sweeper)
    BY <1>15, SweepNextMoves DEF Returns, Goes, Keeps, GivesUp, GoesOn, Acquires
  <2>2. Less(Sweeper)
    BY <1>15, SweepNextMoves, Keys DEF SweepNext, Shape, ShapeOf, NoKeys, Returns, Goes, Keeps, GivesUp, GoesOn, Acquires, Pick, Less, Releasing, Owns, OwnPC
  <2>. QED  BY <1>0, <2>1, <2>2
<1>16. ASSUME NEW p \in Remover, RemoveRow(p) PROVE Goal
  <2>1. pc[p] = "remove" /\ UNCHANGED <<debt, objects, blobs>>
    BY <1>16 DEF RemoveRow
  <2>. QED  BY <1>16, <2>1, RemoveRowMoves DEF Inherits
<1>17. ASSUME NEW p \in Remover, RowGone(p) PROVE Goal
  <2>1. Moves(p)
    BY <1>17, PlainMoves DEF Returns, Goes, Keeps, GivesUp, GoesOn, Acquires
  <2>2. Less(p)
    BY <1>17, PlainMoves, Keys DEF RowGone, Shape, ShapeOf, NoKeys, Returns, Goes, Keeps, GivesUp, GoesOn, Acquires, Pick, Less, Releasing, Owns, OwnPC
  <2>. QED  BY <1>0, <2>1, <2>2
<1>18. ASSUME NEW p \in Proc, Release(p) PROVE Goal
  <2>1. Moves(p)
    BY <1>18, PlainMoves DEF Returns, Goes, Keeps, GivesUp, GoesOn, Acquires
  <2>2. Less(p)
    <3>1. pc[p] = "release"
      BY <1>18 DEF Release
    <3>2. CASE Keeps(p, "purge")
      BY <3>1, <3>2, Keys DEF Keeps, Goes, Less, Owns, OwnPC, Releasing
    <3>. QED  BY <1>18, <3>1, <3>2, PlainMoves, GoesOnLess
  <2>. QED  BY <1>0, <2>1, <2>2
<1>19. ASSUME NEW p \in Proc, Purge(p) PROVE Goal
  <2>1. Moves(p)
    BY <1>19, PlainMoves DEF Returns, Goes, Keeps, GivesUp, GoesOn, Acquires
  <2>2. Less(p)
    BY <1>19, PlainMoves, Keys DEF Purge, Shape, ShapeOf, NoKeys, Returns, Goes, Keeps, GivesUp, GoesOn, Acquires, Pick, Less, Releasing, Owns, OwnPC
  <2>. QED  BY <1>0, <2>1, <2>2
<1>20. ASSUME NEW p \in Proc, Erase(p) PROVE Goal
  <2>1. Moves(p)
    BY <1>20, PlainMoves DEF Returns, Goes, Keeps, GivesUp, GoesOn, Acquires
  <2>2. Less(p)
    BY <1>20, PlainMoves, GoesOnLess DEF Erase
  <2>. QED  BY <1>0, <2>1, <2>2
<1>21. ASSUME NEW p \in Proc, EraseFails(p) PROVE Goal
  <2>1. Moves(p)
    BY <1>21, PlainMoves DEF Returns, Goes, Keeps, GivesUp, GoesOn, Acquires
  <2>2. Less(p)
    BY <1>21, PlainMoves, Keys DEF EraseFails, Shape, ShapeOf, NoKeys, Returns, Goes, Keeps, GivesUp, GoesOn, Acquires, Pick, Less, Releasing, Owns, OwnPC
  <2>. QED  BY <1>0, <2>1, <2>2
<1>22. ASSUME NEW p \in Proc, StatementFails(p) PROVE Goal
  <2>1. Moves(p)
    BY <1>22, StatementFailsMoves DEF Returns, Goes, Keeps, GivesUp, GoesOn, Acquires
  <2>2. Less(p)
    BY <1>22, StatementFailsMoves, Keys DEF StatementFails, Shape, ShapeOf, NoKeys, Returns, Goes, Keeps, GivesUp, GoesOn, Acquires, Pick, Less, Releasing, Owns, OwnPC
  <2>. QED  BY <1>0, <2>1, <2>2
<1>23. ASSUME NEW p \in Proc, Cancel(p) PROVE Goal
  <2>1. Moves(p)
    BY <1>23, PlainMoves DEF Returns, Goes, Keeps, GivesUp, GoesOn, Acquires
  <2>2. Less(p)
    BY <1>23, PlainMoves, Keys DEF Cancel, Shape, ShapeOf, NoKeys, Returns, Goes, Keeps, GivesUp, GoesOn, Acquires, Pick, Less, Releasing, Owns, OwnPC
  <2>. QED  BY <1>0, <2>1, <2>2
<1>24. ASSUME NEW c \in Core, Expire(c) PROVE Goal
  BY <1>24 DEF Expire, local, Less, Owns, Releasing
<1>25. CASE UNCHANGED vars
  BY <1>25 DEF vars, Less, Owns, Releasing
<1>. QED
  BY <1>1, <1>2, <1>3, <1>4, <1>5, <1>6, <1>7, <1>8, <1>9, <1>10, <1>11, <1>12, <1>13, <1>14, <1>15, <1>16, <1>17, <1>18, <1>19, <1>20, <1>21, <1>22, <1>23, <1>24, <1>25
     DEF Next, UploadStep, RemoveStep, ReleaseStep, Quiet

\* The reference part[p] of the core p owns is released.
Frees(p) ==
  /\ pc[p] = "release" /\ Moves(p) /\ Less(p)
  /\ debt' = [debt EXCEPT ![<<part[p], core[p]>>] = None]
  /\ Owns(p)' /\ held'[p][part[p]] # None => part'[p] = part[p] /\ pc'[p] = "purge"

\* The UPDATE of release_object frees exactly the reference it is at.
LEMMA ReleaseFrees ==
  ASSUME LocalsOK, NEW p \in Proc, Release(p)
  PROVE  Frees(p)
<1>1. pc[p] = "release" /\ debt' = [debt EXCEPT ![<<part[p], core[p]>>] = None]
  BY DEF Release
<1>2. CASE Keeps(p, "purge")
  BY <1>1, <1>2, Keys DEF Keeps, Goes, Less, Owns, OwnPC, Releasing, Frees
<1>3. CASE GoesOn(p)
  <2>1. Moves(p) /\ Less(p)
    BY <1>1, <1>3, GoesOnLess DEF GoesOn, Goes, Returns
  <2>2. Owns(p)' => held'[p][part[p]] = None
    BY <1>3 DEF GoesOn, Goes, Returns, Owns, OwnPC
  <2>. QED  BY <1>1, <2>1, <2>2 DEF Frees
<1>. QED  BY <1>2, <1>3, PlainMoves

\* References are counted by an acquire and freed by a release only.
LEMMA DebtStep ==
  ASSUME TypeOK, LocalsOK, Shape, [Next]_vars
  PROVE  \/ \E u \in Upload, k \in Key : Takes(u, k)
         \/ \E p \in Proc : Frees(p) /\ Release(p)
         \/ UNCHANGED debt
<1>. USE Procs
<1>. DEFINE Goal == \/ \E u \in Upload, k \in Key : Takes(u, k)
                    \/ \E p \in Proc : Frees(p) /\ Release(p)
                    \/ UNCHANGED debt
<1>1. ASSUME NEW u \in Upload, InsertObject(u) \/ BumpObject(u) PROVE Goal
  <2>1. InsertObject(u) => <<part[u], core[u]>> \in Key \/ UNCHANGED debt
    BY InsertObjectMoves
  <2>. QED  BY <1>1, <2>1, TakesStep, BumpObjectMoves
<1>2. ASSUME NEW p \in Proc, Release(p) PROVE Goal
  BY <1>2, ReleaseFrees
<1>3. ASSUME NEW u \in Upload, UploadStep(u), ~InsertObject(u), ~BumpObject(u) PROVE UNCHANGED debt
  BY <1>3 DEF UploadStep, ClaimCore, ClaimFails, ConflictObject, BumpMisses, Put, PutFails, InsertFile, InsertFails
<1>4. ASSUME NEW p \in Proc, ReleaseStep(p) \/ Cancel(p), ~Release(p) PROVE UNCHANGED debt
  BY <1>4 DEF ReleaseStep, Purge, Erase, EraseFails, StatementFails, Cancel
<1>5. ASSUME NEW p \in Remover, RemoveStep(p) \/ FindFile(p) \/ LoadLiveFile(p) \/ Collect(p) PROVE UNCHANGED debt
  BY <1>5 DEF RemoveStep, RemoveRow, RowGone, FindFile, LoadLiveFile, Collect
<1>6. ASSUME SweepScan \/ SweepNext \/ UNCHANGED vars \/ \E c \in Core : Expire(c) PROVE UNCHANGED debt
  BY <1>6 DEF SweepScan, SweepNext, vars, Expire
<1>. QED
  BY <1>1, <1>2, <1>3, <1>4, <1>5, <1>6 DEF Next, Quiet

\* Only the owner of a core changes on what its references are counted.
LEMMA SlotStep ==
  ASSUME TypeOK, LocalsOK, Shape, [Next]_vars,
         NEW x \in Part, NEW c \in Core, debt'[<<x, c>>] # debt[<<x, c>>]
  PROVE  \E p \in Proc : /\ Owns(p) /\ core[p] = c /\ part[p] = x
                         /\ Frees(p) \/ \E k \in Key : Takes(p, k)
<1>1. debt \in [Key -> Key \cup {None}]
  BY DEF TypeOK
<1>2. ASSUME NEW p \in Proc, NEW k, debt' = [debt EXCEPT ![<<part[p], core[p]>>] = k]
      PROVE  core[p] = c /\ part[p] = x
  BY <1>1, <1>2, Keys
<1>3. ASSUME NEW u \in Upload, NEW k \in Key, Takes(u, k)
      PROVE  Owns(u) /\ core[u] = c /\ part[u] = x
  BY <1>2, <1>3, Procs DEF Takes, Owns, OwnPC
<1>4. ASSUME NEW p \in Proc, Frees(p) PROVE Owns(p) /\ core[p] = c /\ part[p] = x
  BY <1>2, <1>4 DEF Frees, Owns, OwnPC
<1>. QED  BY <1>3, <1>4, DebtStep, Procs

\* Whoever holds a key has its reference counted on it.
LEMMA DebtsStep ==
  ASSUME TypeOK, LocalsOK, Shape, Ownership, Debts, [Next]_vars
  PROVE  Debts'
<1>. USE Procs
<1>0. /\ \A p \in Proc : Owns(p) => core[p] \in Core
      /\ "file" \in Part /\ "thumb" \in Part
  BY Keys DEF Shape, ShapeOf, Owns, OwnPC
<1>1. ASSUME NEW q \in Proc, NEW x \in Part, Owns(q)', held'[q][x] # None, ~Releasing(q, x)'
      PROVE  debt'[<<x, core'[q]>>] = held'[q][x]
  <2>1. CASE Less(q)
    <3>1. /\ Owns(q) /\ core'[q] = core[q] /\ held'[q][x] = held[q][x]
          /\ ~Releasing(q, x) /\ core[q] \in Core
      BY <1>0, <1>1, <2>1 DEF Less
    <3>2. debt[<<x, core[q]>>] = held[q][x]
      BY <1>1, <3>1 DEF Debts
    <3>3. ASSUME debt'[<<x, core[q]>>] # debt[<<x, core[q]>>] PROVE debt'[<<x, core'[q]>>] = held'[q][x]
      <4>1. PICK p \in Proc : /\ Owns(p) /\ core[p] = core[q] /\ part[p] = x
                              /\ Frees(p) \/ \E k \in Key : Takes(p, k)
        BY <3>1, <3>3, SlotStep
      <4>2. p = q
        BY <3>1, <4>1 DEF Ownership
      <4>3. CASE Frees(q)
        BY <1>1, <4>1, <4>2, <4>3 DEF Frees, Releasing
      <4>4. CASE \E k \in Key : Takes(q, k)
        BY <3>1, <4>1, <4>2, <4>4, Keys DEF Takes, TypeOK
      <4>. QED  BY <4>1, <4>2, <4>3, <4>4
    <3>. QED  BY <3>1, <3>2, <3>3
  <2>2. ASSUME NEW u \in Upload, NEW k \in Key, Takes(u, k)
        PROVE  debt'[<<x, core'[q]>>] = held'[q][x]
    <3>1. Owns(u) /\ core[u] \in Core /\ part[u] \in Part /\ ~Releasing(u, x)
      BY <1>0, <2>2 DEF Takes, Owns, OwnPC, LocalsOK, Releasing
    <3>2. debt \in [Key -> Key \cup {None}] /\ <<part[u], core[u]>> \in Key
      BY <3>1, Keys DEF TypeOK
    <3>3. CASE q = u /\ x = part[u]
      BY <2>2, <3>2, <3>3 DEF Takes
    <3>4. CASE q = u /\ x # part[u]
      BY <1>1, <2>2, <3>1, <3>2, <3>4 DEF Takes, Debts
    <3>5. CASE q # u
      BY <2>1, <2>2, <3>5 DEF Takes, Moves, Less, Owns, Releasing
    <3>. QED  BY <3>3, <3>4, <3>5
  <2>3. ASSUME NEW p \in Remover, Inherits(p)
        PROVE  debt'[<<x, core'[q]>>] = held'[q][x]
    <3>1. CASE q = p
      <4>1. /\ files[core[p]] # None /\ core'[p] = core[p] /\ UNCHANGED debt
            /\ held'[p]["file"] = files[core[p]].key
            /\ held'[p]["thumb"] = files[core[p]].thumb
        BY <2>3, DataAssumption DEF Inherits, Goes
      <4>2. core[p] \in Core /\ (x = "file" \/ x = "thumb")
        BY <2>3, Keys DEF Inherits
      <4>3. CASE x = "file"
        BY <3>1, <4>1, <4>2, <4>3 DEF Debts
      <4>4. CASE x = "thumb"
        <5>1. files[core[p]].thumb # None
          BY <1>1, <3>1, <4>1, <4>4
        <5>. QED  BY <3>1, <4>1, <4>2, <4>4, <5>1 DEF Debts
      <4>. QED  BY <4>2, <4>3, <4>4
    <3>2. CASE q # p
      BY <2>1, <2>3, <3>2 DEF Inherits, Goes, Moves, Less, Owns, Releasing
    <3>. QED  BY <3>1, <3>2
  <2>. QED  BY <2>1, <2>2, <2>3, HeldStep
<1>2. ASSUME NEW c \in Core, files'[c] # None
      PROVE  /\ debt'[<<"file", c>>] = files'[c].key
             /\ files'[c].thumb # None => debt'[<<"thumb", c>>] = files'[c].thumb
  <2>1. ASSUME files[c] # None, files'[c].key = files[c].key, files'[c].thumb = files[c].thumb
        PROVE  /\ debt'[<<"file", c>>] = files'[c].key
               /\ files'[c].thumb # None => debt'[<<"thumb", c>>] = files'[c].thumb
    <3>1. \A p \in Proc : Owns(p) => core[p] # c
      BY <2>1 DEF Ownership
    <3>2. \A x \in Part : debt'[<<x, c>>] = debt[<<x, c>>]
      BY <3>1, SlotStep
    <3>. QED  BY <1>0, <2>1, <3>2 DEF Debts
  <2>2. ASSUME NEW u \in Upload, Publishes(u)
        PROVE  \/ files'[c] = files[c]
               \/ /\ debt'[<<"file", c>>] = files'[c].key
                  /\ files'[c].thumb # None => debt'[<<"thumb", c>>] = files'[c].thumb
    <3>1. ~Releasing(u, "file") /\ ~Releasing(u, "thumb") /\ held[u]["file"] # None
      BY <2>2 DEF Publishes, Releasing, Shape, ShapeOf
    <3>. QED  BY <1>0, <2>2, <3>1 DEF Publishes, Debts, TypeOK
  <2>3. ASSUME NEW u \in Upload, Claims(u) PROVE files'[c] = files[c]
    BY <2>3 DEF Claims
  <2>4. ASSUME NEW p \in Remover, Retires(p) PROVE files'[c] = files[c]
    BY <1>2, <2>4 DEF Retires, TypeOK
  <2>5. ASSUME SameFiles, files'[c] # files[c]
        PROVE  files[c] # None /\ files'[c].key = files[c].key /\ files'[c].thumb = files[c].thumb
    <3>1. files[c] # None /\ files'[c] = [files[c] EXCEPT !.expires = "passed"]
      BY <2>5 DEF SameFiles
    <3>2. files[c] \in FileRow
      BY <3>1 DEF TypeOK
    <3>. QED  BY <3>1, <3>2 DEF FileRow
  <2>. QED  BY <1>2, <2>1, <2>2, <2>3, <2>4, <2>5, OwnerStep
<1>. QED  BY <1>1, <1>2 DEF Debts

-----------------------------------------------------------------------------
(***************************************************************************)
(* A key that is about to be inserted is not known anywhere.               *)
(***************************************************************************)
\* Rows of objects are made and shared by acquires only; all else drops them.
LEMMA RowStep ==
  ASSUME TypeOK, LocalsOK, Shape, [Next]_vars
  PROVE  SameRows \/ \E u \in Upload, k \in Key : Takes(u, k)
<1>. USE Procs
<1>0. objects \in [Digest -> ObjectRow \cup {None}]
  BY DEF TypeOK
<1>1. ASSUME NEW u \in Upload, InsertObject(u) \/ BumpObject(u)
      PROVE  SameRows \/ \E k \in Key : Takes(u, k)
  <2>1. InsertObject(u) => <<part[u], core[u]>> \in Key \/ UNCHANGED objects
    BY InsertObjectMoves
  <2>. QED  BY <1>1, <2>1, TakesStep, BumpObjectMoves DEF SameRows
<1>2. ASSUME NEW p \in Proc, Release(p) PROVE SameRows
  <2>1. PICK k : objects' = [d \in Digest |->
             IF d \in RowsOf(k) THEN [objects[d] EXCEPT !.refcount = @ - 1] ELSE objects[d]]
    BY <1>2 DEF Release
  <2>. QED  BY <1>0, <2>1 DEF SameRows, RowsOf, ObjectRow
<1>3. ASSUME NEW p \in Proc, Purge(p) PROVE SameRows
  BY <1>3 DEF Purge, SameRows
<1>4. ASSUME NEW u \in Upload, UploadStep(u), ~InsertObject(u), ~BumpObject(u) PROVE UNCHANGED objects
  BY <1>4 DEF UploadStep, ClaimCore, ClaimFails, ConflictObject, BumpMisses, Put, PutFails, InsertFile, InsertFails
<1>5. ASSUME NEW p \in Proc, ReleaseStep(p) \/ Cancel(p), ~Release(p), ~Purge(p) PROVE UNCHANGED objects
  BY <1>5 DEF ReleaseStep, Erase, EraseFails, StatementFails, Cancel
<1>6. ASSUME NEW p \in Remover, RemoveStep(p) \/ FindFile(p) \/ LoadLiveFile(p) \/ Collect(p)
      PROVE  UNCHANGED objects
  BY <1>6 DEF RemoveStep, RemoveRow, RowGone, FindFile, LoadLiveFile, Collect
<1>7. ASSUME SweepScan \/ SweepNext \/ UNCHANGED vars \/ \E c \in Core : Expire(c) PROVE UNCHANGED objects
  BY <1>7 DEF SweepScan, SweepNext, vars, Expire
<1>8. UNCHANGED objects => SameRows
  BY DEF SameRows
<1>. QED  BY <1>1, <1>2, <1>3, <1>4, <1>5, <1>6, <1>7, <1>8 DEF Next, Quiet

\* Bytes come only under a key that an upload holds, and are what it uploads.
LEMMA BlobStep ==
  ASSUME TypeOK, LocalsOK, Shape, [Next]_vars, NEW k \in Key
  PROVE  \/ blobs'[k] = blobs[k] \/ blobs'[k] = None
         \/ \E u \in Upload : pc[u] = "put" /\ held[u][part[u]] = k /\ blobs'[k] = Sha(u)
<1>. USE Procs
<1>. DEFINE Goal ==
  \/ blobs'[k] = blobs[k] \/ blobs'[k] = None
  \/ \E u \in Upload : pc[u] = "put" /\ held[u][part[u]] = k /\ blobs'[k] = Sha(u)
<1>0. blobs \in [Key -> Digest \cup {None}]
  BY DEF TypeOK
<1>1. ASSUME NEW p \in Proc, pc[p] = "put",
             \/ blobs' = blobs
             \/ blobs' = [blobs EXCEPT ![held[p][part[p]]] = Sha(p)]
      PROVE  Goal
  <2>1. p \in Upload
    BY <1>1 DEF Shape, ShapeOf, RemoverPC
  <2>. QED  BY <1>0, <1>1, <2>1
<1>2. ASSUME NEW p \in Proc, blobs' = [blobs EXCEPT ![held[p][part[p]]] = None] PROVE Goal
  BY <1>0, <1>2
<1>3. ASSUME NEW u \in Upload, UploadStep(u) PROVE Goal
  BY <1>1, <1>3 DEF UploadStep, ClaimCore, ClaimFails, InsertObject, ConflictObject, BumpObject,
                    BumpMisses, Put, PutFails, InsertFile, InsertFails
<1>4. ASSUME NEW p \in Proc, ReleaseStep(p) PROVE Goal
  BY <1>2, <1>4 DEF ReleaseStep, Release, Purge, Erase, EraseFails, StatementFails
<1>5. ASSUME NEW p \in Proc, Cancel(p) PROVE Goal
  BY <1>1, <1>5 DEF Cancel
<1>6. ASSUME NEW p \in Remover, RemoveStep(p) \/ FindFile(p) \/ LoadLiveFile(p) \/ Collect(p)
      PROVE  UNCHANGED blobs
  BY <1>6 DEF RemoveStep, RemoveRow, RowGone, FindFile, LoadLiveFile, Collect
<1>7. ASSUME SweepScan \/ SweepNext \/ UNCHANGED vars \/ \E c \in Core : Expire(c) PROVE UNCHANGED blobs
  BY <1>7 DEF SweepScan, SweepNext, vars, Expire
<1>. QED  BY <1>3, <1>4, <1>5, <1>6, <1>7 DEF Next, Quiet

\* A key nobody knows stays so until an upload inserts it.
LEMMA UnknownStep ==
  ASSUME TypeOK, LocalsOK, Shape, Debts, [Next]_vars, NEW k \in Key, Unknown(k)
  PROVE  Unknown(k)' \/ \E u \in Upload : Takes(u, k) /\ Inserts(u, k)
<1>. USE Procs
<1>1. SUFFICES ASSUME ~\E u \in Upload : Takes(u, k) /\ Inserts(u, k)
               PROVE  Unknown(k)'
  OBVIOUS
<1>2. ASSUME NEW u \in Upload PROVE ~Takes(u, k)
  BY <1>1 DEF Takes, Unknown, RowsOf
<1>3. blobs'[k] = None
  BY BlobStep DEF Unknown, Owns, OwnPC, LocalsOK
<1>4. ASSUME NEW r \in Key PROVE debt'[r] # k
  <2>1. debt \in [Key -> Key \cup {None}] /\ debt[r] # k
    BY <1>4 DEF TypeOK, Unknown
  <2>2. ASSUME NEW u \in Upload, NEW l \in Key, Takes(u, l) PROVE debt'[r] # k
    <3>1. l # k /\ debt' = [debt EXCEPT ![<<part[u], core[u]>>] = l]
      BY <1>2, <2>2 DEF Takes
    <3>. QED  BY <1>4, <2>1, <3>1
  <2>3. ASSUME NEW p \in Proc, Frees(p) PROVE debt'[r] # k
    BY <1>4, <2>1, <2>3, Keys DEF Frees
  <2>. QED  BY <2>1, <2>2, <2>3, DebtStep
<1>5. ASSUME NEW d \in Digest, objects'[d] # None PROVE objects'[d].key # k
  <2>1. CASE SameRows
    BY <1>5, <2>1 DEF SameRows, Unknown
  <2>2. ASSUME NEW u \in Upload, NEW l \in Key, Takes(u, l) PROVE objects'[d].key # k
    <3>1. l # k
      BY <1>2, <2>2
    <3>. QED  BY <1>5, <2>2, <3>1 DEF Takes, Unknown, RowsOf, TypeOK, ObjectRow
  <2>. QED  BY <2>1, <2>2, RowStep
<1>6. ASSUME NEW p \in Proc, NEW x \in Part, Owns(p)' PROVE held'[p][x] # k
  <2>1. CASE Less(p)
    BY <1>6, <2>1, Keys DEF Less, Unknown
  <2>2. ASSUME NEW u \in Upload, NEW l \in Key, Takes(u, l) PROVE held'[p][x] # k
    <3>1. CASE p = u
      <4>1. l # k /\ Owns(u) /\ held'[u][part[u]] = l
        BY <1>2, <2>2 DEF Takes, Owns, OwnPC
      <4>2. x # part[u] => held'[u][x] = held[u][x]
        BY <2>2 DEF Takes
      <4>. QED  BY <3>1, <4>1, <4>2 DEF Unknown
    <3>2. CASE p # u
      <4>1. pc'[p] = pc[p] /\ held'[p] = held[p]
        BY <2>2, <3>2 DEF Takes, Moves
      <4>. QED  BY <1>6, <4>1 DEF Owns, Unknown
    <3>. QED  BY <3>1, <3>2
  <2>3. ASSUME NEW q \in Remover, Inherits(q) PROVE held'[p][x] # k
    <3>1. CASE p = q
      <4>1. files[core[q]] # None /\ core[q] \in Core
        BY <2>3, DataAssumption DEF Inherits
      <4>2. /\ debt[<<"file", core[q]>>] = files[core[q]].key
            /\ files[core[q]].thumb # None => debt[<<"thumb", core[q]>>] = files[core[q]].thumb
        BY <4>1 DEF Debts
      <4>3. held'[q]["file"] = files[core[q]].key /\ held'[q]["thumb"] = files[core[q]].thumb
        BY <2>3 DEF Inherits, Goes
      <4>. QED  BY <3>1, <4>1, <4>2, <4>3, Keys DEF Unknown
    <3>2. CASE p # q
      BY <2>1, <2>3, <3>2 DEF Inherits, Goes, Moves, Less, Owns, Releasing
    <3>. QED  BY <3>1, <3>2
  <2>. QED  BY <2>1, <2>2, <2>3, HeldStep
<1>. QED  BY <1>3, <1>4, <1>5, <1>6 DEF Unknown

\* A reference that is still to be acquired is acquired by the upload at it.
LEMMA FreshStep ==
  ASSUME TypeOK, LocalsOK, Shape, Debts, [Next]_vars,
         NEW x \in Part, NEW c \in Core, Fresh(x, c)
  PROVE  \/ Fresh(x, c)'
         \/ \E u \in Upload, k \in Key :
              Takes(u, k) /\ Owns(u) /\ part[u] = x /\ core[u] = c
<1>. USE Procs
<1>. DEFINE Goal == \E u \in Upload, k \in Key :
                      Takes(u, k) /\ Owns(u) /\ part[u] = x /\ core[u] = c
<1>0. <<x, c>> \in Key /\ debt \in [Key -> Key \cup {None}]
  BY Keys DEF TypeOK
<1>1. ASSUME debt'[<<x, c>>] # None PROVE Goal
  <2>1. PICK p \in Proc : /\ Owns(p) /\ core[p] = c /\ part[p] = x
                          /\ Frees(p) \/ \E k \in Key : Takes(p, k)
    BY <1>1, SlotStep DEF Fresh
  <2>2. ~Frees(p)
    BY <1>0, <1>1, <2>1 DEF Frees
  <2>3. PICK k \in Key : Takes(p, k)
    BY <2>1, <2>2
  <2>4. p \in Upload
    BY <2>3 DEF Takes, Shape, ShapeOf, RemoverPC
  <2>. QED  BY <2>1, <2>3, <2>4
<1>2. ASSUME ~Unknown(<<x, c>>)' PROVE Goal
  <2>1. PICK u \in Upload : Takes(u, <<x, c>>) /\ Inserts(u, <<x, c>>)
    BY <1>0, <1>2, UnknownStep DEF Fresh
  <2>2. Owns(u) /\ part[u] = x /\ core[u] = c
    BY <2>1 DEF Takes, Inserts, Owns, OwnPC
  <2>. QED  BY <1>0, <2>1, <2>2
<1>. QED  BY <1>1, <1>2 DEF Fresh

\* A step is one handler's, or changes no local.
StepOf(p) ==
  \/ ReleaseStep(p) \/ Cancel(p)
  \/ p \in Upload /\ UploadStep(p)
  \/ p \in Remover /\ (RemoveStep(p) \/ FindFile(p) \/ LoadLiveFile(p) \/ Collect(p))
  \/ p = Sweeper /\ SweepNext

\* Every step is one handler's, or leaves all locals alone.
LEMMA MoverStep ==
  ASSUME TypeOK, LocalsOK, Shape, [Next]_vars
  PROVE  UNCHANGED local \/ \E p \in Proc : Moves(p) /\ StepOf(p)
<1>. USE Procs
<1>1. ASSUME NEW u \in Upload, UploadStep(u) PROVE Moves(u)
  BY <1>1, ClaimCoreMoves, InsertObjectMoves, BumpObjectMoves, PutMoves, PlainMoves
     DEF UploadStep, Returns, Goes, Keeps, GivesUp, Acquires
<1>2. ASSUME NEW p \in Proc, ReleaseStep(p) \/ Cancel(p) PROVE Moves(p)
  BY <1>2, StatementFailsMoves, PlainMoves
     DEF ReleaseStep, Returns, Goes, Keeps, GivesUp, GoesOn
<1>3. ASSUME NEW p \in Remover, RemoveStep(p) \/ FindFile(p) \/ LoadLiveFile(p) \/ Collect(p)
      PROVE  Moves(p)
  BY <1>3, FindFileMoves, RemoveRowMoves, PlainMoves DEF RemoveStep, Returns, Goes, Keeps
<1>4. SweepNext => Moves(Sweeper)
  BY SweepNextMoves
<1>5. SweepScan \/ UNCHANGED vars \/ (\E c \in Core : Expire(c)) => UNCHANGED local
  BY DEF SweepScan, Expire, vars, local
<1>. QED  BY <1>1, <1>2, <1>3, <1>4, <1>5 DEF Next, Quiet, StepOf

\* How an upload comes to be where it acquires an object.
LEMMA AcquireStep ==
  ASSUME TypeOK, LocalsOK, Shape, [Next]_vars, NEW u \in Upload, pc'[u] \in AcquirePC
  PROVE  \/ /\ core'[u] \in Core \ cores /\ part'[u] = "file" /\ held'[u] = NoKeys
         \/ /\ pc[u] \in AcquirePC /\ core'[u] = core[u] /\ part'[u] = part[u]
            /\ pc'[u] \in {"acquire", "bump"} =>
                 pc[u] \in {"acquire", "bump"} /\ held'[u] = held[u]
            /\ part[u] = "file" => held'[u]["thumb"] = held[u]["thumb"]
         \/ /\ pc[u] \in AcquirePC /\ core'[u] = core[u]
            /\ part[u] = "file" /\ part'[u] = "thumb"
            /\ held'[u]["thumb"] = held[u]["thumb"]
<1>. USE Procs
<1>. DEFINE Stays ==
  /\ pc[u] \in AcquirePC /\ core'[u] = core[u] /\ part'[u] = part[u]
  /\ pc'[u] \in {"acquire", "bump"} =>
       pc[u] \in {"acquire", "bump"} /\ held'[u] = held[u]
  /\ part[u] = "file" => held'[u]["thumb"] = held[u]["thumb"]
<1>. DEFINE Goal ==
  \/ /\ core'[u] \in Core \ cores /\ part'[u] = "file" /\ held'[u] = NoKeys
  \/ Stays
  \/ /\ pc[u] \in AcquirePC /\ core'[u] = core[u]
     /\ part[u] = "file" /\ part'[u] = "thumb"
     /\ held'[u]["thumb"] = held[u]["thumb"]
<1>1. ASSUME UNCHANGED local PROVE Goal
  BY <1>1 DEF local
<1>2. ASSUME NEW p \in Proc, Moves(p), p # u PROVE Goal
  BY <1>2 DEF Moves
<1>3. ASSUME ClaimCore(u) PROVE Goal
  <2>1. part[u] = "file" /\ held[u] = NoKeys
    BY <1>3 DEF ClaimCore, Shape, ShapeOf
  <2>. QED  BY <1>3, <2>1, ClaimCoreMoves
<1>4. ASSUME InsertObject(u) PROVE Goal
  <2>1. pc[u] = "acquire"
    BY <1>4 DEF InsertObject
  <2>2. CASE GivesUp(u)
    BY <2>2, ProcAssumption DEF GivesUp, Keeps, Goes, Returns, AcquirePC, Proc, Handler
  <2>3. CASE \E k \in Key : Goes(u, "put", part[u], Pick(u, k, held[u]["file"]), Pick(u, held[u]["thumb"], k))
    BY <2>1, <2>3 DEF Goes, Pick, AcquirePC
  <2>. QED  BY <1>4, <2>2, <2>3, InsertObjectMoves
<1>5. ASSUME ConflictObject(u) PROVE Goal
  <2>1. pc[u] = "acquire" /\ UNCHANGED <<core, part, held>>
    BY <1>5 DEF ConflictObject, Goto
  <2>. QED  BY <2>1 DEF AcquirePC
<1>6. ASSUME NEW k \in Key, Acquires(u, k), pc[u] \in AcquirePC PROVE Goal
  BY <1>6 DEF Acquires, Goes, Pick, AcquirePC
<1>7. ASSUME BumpObject(u) \/ Put(u) PROVE Goal
  BY <1>6, <1>7, BumpObjectMoves, PutMoves DEF BumpObject, Put, AcquirePC
<1>8. ASSUME BumpMisses(u) \/ StatementFails(u) PROVE Goal
  BY <1>8, PlainMoves, StatementFailsMoves, ProcAssumption
     DEF GivesUp, GoesOn, Keeps, Goes, Returns, AcquirePC, Proc, Handler
<1>9. ASSUME \/ ClaimFails(u) \/ PutFails(u) \/ InsertFile(u) \/ InsertFails(u)
             \/ Release(u) \/ Purge(u) \/ Erase(u) \/ EraseFails(u) \/ Cancel(u)
      PROVE  Goal
  BY <1>9, PlainMoves, ProcAssumption DEF GoesOn, Keeps, Goes, Returns, AcquirePC, Proc, Handler
<1>. QED
  BY <1>1, <1>2, <1>3, <1>4, <1>5, <1>7, <1>8, <1>9, MoverStep
     DEF UploadStep, ReleaseStep, StepOf

\* The references of cores not yet issued, or not yet acquired, are unknown keys.
LEMMA FreshnessStep ==
  ASSUME TypeOK, LocalsOK, LocalsOK', Shape, Shape', Ownership, Debts, Freshness, [Next]_vars
  PROVE  Freshness'
<1>. USE Procs, Keys
<1>0. cores \subseteq cores'
  BY OwnerStep DEF Claims, Publishes, Retires, SameFiles
<1>1. ASSUME NEW c \in Core \ cores, NEW x \in Part PROVE Fresh(x, c)'
  <2>1. \A u \in Upload : Owns(u) => core[u] # c
    BY DEF Ownership
  <2>. QED  BY <2>1, FreshStep DEF Freshness
<1>2. ASSUME NEW u \in Upload, NEW x \in Part, pc[u] \in AcquirePC, Fresh(x, core[u]),
             \A k \in Key : Takes(u, k) => part[u] # x
      PROVE  \A c \in Core : c = core[u] => Fresh(x, c)'
  <2>1. Owns(u) /\ core[u] \in Core
    BY <1>2 DEF Owns, OwnPC, AcquirePC, Shape, ShapeOf
  <2>2. ASSUME NEW v \in Upload, Owns(v), core[v] = core[u] PROVE v = u
    BY <2>1, <2>2 DEF Ownership
  <2>. QED  BY <1>2, <2>1, <2>2, FreshStep
<1>3. ASSUME NEW u \in Upload, pc'[u] \in AcquirePC, NEW c \in Core, c = core'[u],
             NEW x \in Part
      PROVE  /\ pc'[u] \in {"acquire", "bump"} /\ x = part'[u] => held'[u][x] = None /\ Fresh(x, c)'
             /\ part'[u] = "file" => held'[u]["thumb"] = None /\ Fresh("thumb", c)'
  <2>1. CASE core'[u] \in Core \ cores /\ part'[u] = "file" /\ held'[u] = NoKeys
    <3>1. \A v \in Upload : Owns(v) => core[v] # c
      BY <1>3, <2>1 DEF Ownership
    <3>2. Fresh(x, c)' /\ Fresh("thumb", c)'
      BY <1>3, <2>1, <3>1, FreshStep DEF Freshness
    <3>. QED  BY <2>1, <3>2 DEF NoKeys
  <2>2. CASE /\ pc[u] \in AcquirePC /\ core'[u] = core[u] /\ part'[u] = part[u]
             /\ pc'[u] \in {"acquire", "bump"} =>
                  pc[u] \in {"acquire", "bump"} /\ held'[u] = held[u]
             /\ part[u] = "file" => held'[u]["thumb"] = held[u]["thumb"]
    <3>1. ASSUME pc'[u] \in {"acquire", "bump"}, x = part'[u]
          PROVE  held'[u][x] = None /\ Fresh(x, c)'
      <4>1. held'[u][x] = None /\ Fresh(part[u], core[u]) /\ x = part[u]
        BY <2>2, <3>1 DEF Freshness
      <4>2. \A k \in Key : ~Takes(u, k)
        BY <2>2, <3>1 DEF Takes
      <4>. QED  BY <1>2, <1>3, <2>2, <4>1, <4>2
    <3>2. ASSUME part'[u] = "file"
          PROVE  held'[u]["thumb"] = None /\ Fresh("thumb", c)'
      <4>1. held'[u]["thumb"] = None /\ Fresh("thumb", core[u]) /\ part[u] # "thumb"
        BY <2>2, <3>2 DEF Freshness
      <4>. QED  BY <1>2, <1>3, <2>2, <4>1
    <3>. QED  BY <3>1, <3>2
  <2>3. CASE /\ pc[u] \in AcquirePC /\ core'[u] = core[u]
             /\ part[u] = "file" /\ part'[u] = "thumb"
             /\ held'[u]["thumb"] = held[u]["thumb"]
    <3>1. held'[u]["thumb"] = None /\ Fresh("thumb", core[u])
      BY <2>3 DEF Freshness
    <3>2. Fresh("thumb", c)'
      BY <1>2, <1>3, <2>3, <3>1
    <3>. QED  BY <2>3, <3>1, <3>2
  <2>. QED  BY <1>3, <2>1, <2>2, <2>3, AcquireStep
<1>4. \A u \in Upload : pc'[u] \in AcquirePC => core'[u] \in Core /\ part'[u] \in Part
  BY DEF Shape, ShapeOf, LocalsOK, AcquirePC
<1>5. ASSUME NEW u \in Upload, pc'[u] \in {"acquire", "bump"}
      PROVE  held'[u][part'[u]] = None /\ Fresh(part[u], core[u])'
  <2>1. core'[u] \in Core /\ part'[u] \in Part /\ pc'[u] \in AcquirePC
    BY <1>4, <1>5 DEF AcquirePC
  <2>2. \A c \in Core, x \in Part :
          c = core'[u] /\ x = part'[u] => held'[u][x] = None /\ Fresh(x, c)'
    BY <1>3, <1>5, <2>1
  <2>3. held'[u][part'[u]] = None
    BY <2>1, <2>2
  <2>4. debt'[<<part'[u], core'[u]>>] = None
    BY <2>1, <2>2 DEF Fresh
  <2>5. Unknown(<<part[u], core[u]>>)'
    BY <2>1, <2>2 DEF Fresh, Unknown, Owns
  <2>. QED  BY <2>3, <2>4, <2>5 DEF Fresh
<1>6. ASSUME NEW u \in Upload, pc'[u] \in AcquirePC, part'[u] = "file"
      PROVE  held'[u]["thumb"] = None /\ Fresh("thumb", core[u])'
  BY <1>3, <1>4, <1>6 DEF Fresh, Unknown, Owns
<1>7. \A c \in Core \ cores' : c \in Core \ cores
  BY <1>0
<1>. QED  BY <1>1, <1>5, <1>6, <1>7 DEF Freshness

-----------------------------------------------------------------------------
(***************************************************************************)
(* The refcount of a row is the number of references counted on its key.   *)
(***************************************************************************)
\* The statements that change a row or a reference, one at a time.
LEMMA TableStep ==
  ASSUME TypeOK, LocalsOK, Shape, [Next]_vars
  PROVE  \/ \E u \in Upload, k \in Key : Takes(u, k)
         \/ \E p \in Proc : Frees(p) /\ Release(p)
         \/ UNCHANGED debt /\ \E p \in Proc : Purge(p)
         \/ UNCHANGED <<debt, objects>>
<1>. USE Procs
<1>. DEFINE Goal == \/ \E u \in Upload, k \in Key : Takes(u, k)
                    \/ \E p \in Proc : Frees(p) /\ Release(p)
                    \/ UNCHANGED debt /\ \E p \in Proc : Purge(p)
                    \/ UNCHANGED <<debt, objects>>
<1>1. ASSUME NEW u \in Upload, InsertObject(u) \/ BumpObject(u) PROVE Goal
  <2>1. InsertObject(u) => <<part[u], core[u]>> \in Key \/ UNCHANGED <<debt, objects>>
    BY InsertObjectMoves
  <2>. QED  BY <1>1, <2>1, TakesStep, BumpObjectMoves
<1>2. ASSUME NEW p \in Proc, Release(p) PROVE Goal
  BY <1>2, ReleaseFrees
<1>3. ASSUME NEW p \in Proc, Purge(p) PROVE Goal
  BY <1>3 DEF Purge
<1>4. ASSUME NEW u \in Upload, UploadStep(u), ~InsertObject(u), ~BumpObject(u)
      PROVE  UNCHANGED <<debt, objects>>
  BY <1>4 DEF UploadStep, ClaimCore, ClaimFails, ConflictObject, BumpMisses, Put, PutFails, InsertFile, InsertFails
<1>5. ASSUME NEW p \in Proc, ReleaseStep(p) \/ Cancel(p), ~Release(p), ~Purge(p)
      PROVE  UNCHANGED <<debt, objects>>
  BY <1>5 DEF ReleaseStep, Erase, EraseFails, StatementFails, Cancel
<1>6. ASSUME NEW p \in Remover, RemoveStep(p) \/ FindFile(p) \/ LoadLiveFile(p) \/ Collect(p)
      PROVE  UNCHANGED <<debt, objects>>
  BY <1>6 DEF RemoveStep, RemoveRow, RowGone, FindFile, LoadLiveFile, Collect
<1>7. ASSUME SweepScan \/ SweepNext \/ UNCHANGED vars \/ \E c \in Core : Expire(c)
      PROVE  UNCHANGED <<debt, objects>>
  BY <1>7 DEF SweepScan, SweepNext, vars, Expire
<1>. QED  BY <1>1, <1>2, <1>3, <1>4, <1>5, <1>6, <1>7 DEF Next, Quiet

\* There are finitely many references, and so finitely many that one key holds.
LEMMA HoldersFinite ==
  \A k \in Key : IsFiniteSet(Holders(k)) /\ Cardinality(Holders(k)) \in Nat
<1>1. IsFiniteSet(Key)
  <2>1. IsFiniteSet({"file"}) /\ Part = {"file"} \cup {"thumb"}
    BY FS_Singleton DEF Part
  <2>2. IsFiniteSet(Part)
    BY <2>1, FS_AddElement
  <2>. QED  BY <2>2, DataAssumption, FS_Product DEF Key
<1>2. \A k \in Key : Holders(k) \in SUBSET Key
  BY DEF Holders
<1>. QED  BY <1>1, <1>2, FS_Subset, FS_CardinalityType

\* One reference comes to a key, or leaves it, and its count follows.
LEMMA CountStep ==
  ASSUME debt \in [Key -> Key \cup {None}]
  PROVE  /\ Count \in [Key -> Nat]
         /\ debt' = debt => Count' = Count
         /\ \A k \in Key : (\A r \in Key : debt[r] # k) => Count[k] = 0
         /\ \A r, k \in Key :
              /\ debt[r] = None /\ debt' = [debt EXCEPT ![r] = k] =>
                   Count' = [Count EXCEPT ![k] = @ + 1]
              /\ debt[r] = k /\ debt' = [debt EXCEPT ![r] = None] =>
                   Count[k] # 0 /\ Count' = [Count EXCEPT ![k] = @ - 1]
<1>2. \A k \in Key : IsFiniteSet(Holders(k)) /\ Cardinality(Holders(k)) \in Nat
  BY HoldersFinite
<1>3. Count \in [Key -> Nat]
  BY <1>2 DEF Count
<1>4. ASSUME debt' = debt PROVE Count' = Count
  BY <1>4 DEF Count, Holders
<1>5. ASSUME NEW k \in Key, \A r \in Key : debt[r] # k PROVE Count[k] = 0
  <2>1. Holders(k) = {}
    BY <1>5 DEF Holders
  <2>. QED  BY <2>1, FS_EmptySet DEF Count
<1>6. ASSUME NEW r \in Key, NEW k \in Key, NEW v \in Key \cup {None}, NEW l \in Key,
             debt' = [debt EXCEPT ![r] = v], debt[r] # l, v # l
      PROVE  Holders(l)' = Holders(l)
  BY <1>6 DEF Holders
<1>7. ASSUME NEW r \in Key, NEW k \in Key, debt[r] = None, debt' = [debt EXCEPT ![r] = k]
      PROVE  Count' = [Count EXCEPT ![k] = @ + 1]
  <2>1. Holders(k)' = Holders(k) \cup {r} /\ r \notin Holders(k)
    BY <1>7, Keys DEF Holders
  <2>2. Cardinality(Holders(k)') = Cardinality(Holders(k)) + 1
    BY <1>2, <2>1, FS_AddElement
  <2>3. ASSUME NEW l \in Key, l # k PROVE Holders(l)' = Holders(l)
    BY <1>7, <2>3, Keys DEF Holders
  <2>. QED  BY <2>2, <2>3 DEF Count
<1>8. ASSUME NEW r \in Key, NEW k \in Key, debt[r] = k, debt' = [debt EXCEPT ![r] = None]
      PROVE  Count[k] # 0 /\ Count' = [Count EXCEPT ![k] = @ - 1]
  <2>1. Holders(k)' = Holders(k) \ {r} /\ r \in Holders(k)
    BY <1>8, Keys DEF Holders
  <2>2. Cardinality(Holders(k)') = Cardinality(Holders(k)) - 1
    BY <1>2, <2>1, FS_RemoveElement
  <2>3. ASSUME NEW l \in Key, l # k PROVE Holders(l)' = Holders(l)
    BY <1>8, <2>3, Keys DEF Holders
  <2>4. Cardinality(Holders(k)) # 0
    BY <1>2, <2>1, FS_EmptySet
  <2>. QED  BY <2>2, <2>3, <2>4 DEF Count
<1>. QED  BY <1>3, <1>4, <1>5, <1>7, <1>8

\* The refcount of every row stays the number of its holders.
LEMMA CountsStep ==
  ASSUME TypeOK, LocalsOK, Shape, Freshness, Debts, Counts, [Next]_vars
  PROVE  Counts' /\ objects' \in [Digest -> ObjectRow \cup {None}]
<1>. USE Procs
<1>. DEFINE Goal == Counts' /\ objects' \in [Digest -> ObjectRow \cup {None}]
<1>0. /\ objects \in [Digest -> ObjectRow \cup {None}] /\ debt \in [Key -> Key \cup {None}]
      /\ \A d \in Digest : objects[d] # None =>
           objects[d].key \in Key /\ objects[d].refcount \in Nat
      /\ \A k \in Key, n \in Nat : [key |-> k, refcount |-> n] \in ObjectRow
      /\ None \notin ObjectRow /\ None \notin Key
  BY DataAssumption DEF TypeOK, ObjectRow
<1>1. ASSUME NEW u \in Upload, NEW k \in Key, Takes(u, k)
      PROVE  /\ Count \in [Key -> Nat] /\ Count' = [Count EXCEPT ![k] = @ + 1]
             /\ Inserts(u, k) /\ RowsOf(k) = {} => Count[k] = 0
  <2>. DEFINE r == <<part[u], core[u]>>
  <2>1. /\ pc[u] \in {"acquire", "bump"} /\ debt' = [debt EXCEPT ![r] = k]
        /\ Inserts(u, k) => k = r
    BY <1>1 DEF Takes, Inserts
  <2>2. r \in Key
    BY <2>1, Keys DEF LocalsOK, Shape, ShapeOf
  <2>3. Fresh(part[u], core[u])
    BY <2>1 DEF Freshness
  <2>4. debt[r] = None /\ (Inserts(u, k) => \A q \in Key : debt[q] # k)
    BY <2>1, <2>3 DEF Fresh, Unknown
  <2>. QED  BY <1>0, <2>1, <2>2, <2>4, CountStep
<1>2. ASSUME NEW u \in Upload, NEW k \in Key, Takes(u, k), Inserts(u, k), RowsOf(k) = {},
             NEW e \in Digest, objects' = [objects EXCEPT ![e] = [key |-> k, refcount |-> 1]]
      PROVE  Goal
  <2>1. \A d \in Digest : objects[d] # None => objects[d].key # k
    BY <1>2 DEF RowsOf
  <2>. QED  BY <1>0, <1>1, <1>2, <2>1 DEF Counts
<1>3. ASSUME NEW u \in Upload, NEW k \in Key, Takes(u, k),
             NEW e \in RowsOf(k), objects' = [objects EXCEPT ![e].refcount = @ + 1]
      PROVE  Goal
  <2>1. e \in Digest /\ objects[e] # None /\ objects[e].key = k
    BY DEF RowsOf
  <2>2. \A d \in Digest : d # e /\ objects[d] # None => objects[d].key # k
    BY <2>1 DEF Counts
  <2>3. objects'[e] = [key |-> k, refcount |-> objects[e].refcount + 1]
    BY <1>0, <1>3, <2>1 DEF ObjectRow
  <2>4. Count'[k] = Count[k] + 1 /\ \A l \in Key : l # k => Count'[l] = Count[l]
    BY <1>1, <1>3
  <2>5. \A d \in Digest : d # e => objects'[d] = objects[d]
    BY <1>0, <1>3
  <2>6. /\ objects'[e] \in ObjectRow /\ objects'[e].key = k
        /\ objects'[e].refcount = Count'[k]
    BY <1>0, <2>1, <2>3, <2>4 DEF Counts
  <2>7. objects' \in [Digest -> ObjectRow \cup {None}]
    BY <1>0, <1>3, <2>6
  <2>8. ASSUME NEW d \in Digest, objects'[d] # None
        PROVE  objects[d] # None /\ objects'[d].key = objects[d].key
                 /\ objects'[d].refcount = Count'[objects[d].key]
    <3>1. CASE d = e
      BY <2>1, <2>6, <3>1
    <3>2. CASE d # e
      BY <1>0, <2>2, <2>4, <2>5, <2>8, <3>2 DEF Counts
    <3>. QED  BY <3>1, <3>2
  <2>. QED  BY <2>7, <2>8 DEF Counts
<1>4. ASSUME NEW p \in Proc, Release(p) PROVE Goal
  <2>. DEFINE k == held[p][part[p]]
  <2>. DEFINE r == <<part[p], core[p]>>
  <2>1. /\ pc[p] = "release" /\ debt' = [debt EXCEPT ![r] = None]
        /\ objects' = [d \in Digest |->
             IF d \in RowsOf(k) THEN [objects[d] EXCEPT !.refcount = @ - 1] ELSE objects[d]]
    BY <1>4 DEF Release
  <2>2. /\ r \in Key /\ k \in Key /\ part[p] \in Part
        /\ Owns(p) /\ ~Releasing(p, part[p]) /\ k # None
    BY <2>1, Keys DEF LocalsOK, Shape, ShapeOf, Owns, OwnPC, Releasing
  <2>3. debt[r] = k
    BY <2>2 DEF Debts
  <2>4. Count \in [Key -> Nat] /\ Count[k] # 0 /\ Count' = [Count EXCEPT ![k] = @ - 1]
    BY <1>0, <2>1, <2>2, <2>3, CountStep
  <2>5. ASSUME NEW d \in Digest, objects[d] # None
        PROVE  objects'[d] = [key |-> objects[d].key, refcount |->
                 IF objects[d].key = k THEN objects[d].refcount - 1 ELSE objects[d].refcount]
    BY <1>0, <2>1, <2>5 DEF RowsOf, ObjectRow
  <2>6. \A d \in Digest : objects[d] = None => objects'[d] = None
    BY <2>1 DEF RowsOf
  <2>7. ASSUME NEW d \in Digest, objects[d] # None
        PROVE  /\ objects'[d] \in ObjectRow /\ objects'[d].key = objects[d].key
               /\ objects'[d].refcount = Count'[objects[d].key]
    <3>1. /\ objects[d].key \in Key /\ objects[d].refcount \in Nat
          /\ objects[d].refcount = Count[objects[d].key]
      BY <1>0, <2>7 DEF Counts
    <3>2. CASE objects[d].key = k
      <4>1. objects[d].refcount - 1 \in Nat /\ Count'[k] = Count[k] - 1
        BY <2>2, <2>4, <3>1, <3>2
      <4>2. objects'[d] = [key |-> objects[d].key, refcount |-> objects[d].refcount - 1]
        BY <2>5, <2>7, <3>2
      <4>3. objects'[d] \in ObjectRow
        BY <1>0, <3>1, <4>1, <4>2
      <4>. QED  BY <3>1, <3>2, <4>1, <4>2, <4>3
    <3>3. CASE objects[d].key # k
      <4>1. Count'[objects[d].key] = Count[objects[d].key]
        BY <2>2, <2>4, <3>1, <3>3
      <4>2. objects'[d] = [key |-> objects[d].key, refcount |-> objects[d].refcount]
        BY <2>5, <2>7, <3>3
      <4>3. objects'[d] \in ObjectRow
        BY <1>0, <3>1, <4>2
      <4>. QED  BY <3>1, <4>1, <4>2, <4>3
    <3>. QED  BY <3>2, <3>3
  <2>8. objects' \in [Digest -> ObjectRow \cup {None}]
    BY <2>1, <2>6, <2>7
  <2>. QED  BY <2>6, <2>7, <2>8 DEF Counts
<1>5. ASSUME NEW p \in Proc, Purge(p), UNCHANGED debt PROVE Goal
  <2>1. Count' = Count
    BY <1>0, <1>5, CountStep
  <2>2. objects' = [d \in Digest |-> IF d \in RowsOf(held[p][part[p]]) THEN None ELSE objects[d]]
    BY <1>5 DEF Purge
  <2>. QED  BY <1>0, <2>1, <2>2 DEF Counts
<1>6. ASSUME UNCHANGED <<debt, objects>> PROVE Goal
  <2>1. Count' = Count
    BY <1>0, <1>6, CountStep
  <2>. QED  BY <1>0, <1>6, <2>1 DEF Counts
<1>7. ASSUME NEW u \in Upload, NEW k \in Key, Takes(u, k) PROVE Goal
  BY <1>2, <1>3, <1>7 DEF Takes
<1>. QED  BY <1>4, <1>5, <1>6, <1>7, TableStep

-----------------------------------------------------------------------------
(***************************************************************************)
(* Bytes are erased after their row, deliveries come after their row too.  *)
(***************************************************************************)
\* A handler that is about to erase has just purged, or was there already.
LEMMA EraseStep ==
  ASSUME TypeOK, LocalsOK, Shape, [Next]_vars, NEW p \in Proc, pc'[p] = "erase"
  PROVE  /\ pc[p] \in {"purge", "erase"} /\ part'[p] = part[p] /\ held'[p] = held[p]
         /\ pc[p] = "purge" => Purge(p)
<1>. USE Procs
<1>. DEFINE Goal == /\ pc[p] \in {"purge", "erase"} /\ part'[p] = part[p] /\ held'[p] = held[p]
                    /\ pc[p] = "purge" => Purge(p)
<1>1. ASSUME UNCHANGED local PROVE Goal
  BY <1>1 DEF local
<1>2. ASSUME NEW q \in Proc, Moves(q), p # q PROVE Goal
  BY <1>2 DEF Moves
<1>3. ASSUME Purge(p) PROVE Goal
  BY <1>3 DEF Purge, Goto
<1>4. ASSUME p \in Upload, UploadStep(p) PROVE FALSE
  BY <1>4, ClaimCoreMoves, InsertObjectMoves, BumpObjectMoves, PutMoves, PlainMoves
     DEF UploadStep, Returns, Goes, Keeps, GivesUp, Acquires
<1>5. ASSUME ReleaseStep(p) \/ Cancel(p), ~Purge(p) PROVE FALSE
  BY <1>5, StatementFailsMoves, PlainMoves
     DEF ReleaseStep, Returns, Goes, Keeps, GivesUp, GoesOn
<1>6. ASSUME p \in Remover, RemoveStep(p) \/ FindFile(p) \/ LoadLiveFile(p) \/ Collect(p)
      PROVE  FALSE
  BY <1>6, FindFileMoves, RemoveRowMoves, PlainMoves DEF RemoveStep, Returns, Goes, Keeps
<1>7. ASSUME p = Sweeper, SweepNext PROVE FALSE
  BY <1>7, SweepNextMoves
<1>. QED  BY <1>1, <1>2, <1>3, <1>4, <1>5, <1>6, <1>7, MoverStep DEF StepOf

\* Nobody is about to erase bytes that a row of objects lists.
LEMMA ErasuresStep ==
  ASSUME TypeOK, LocalsOK, Shape, Freshness, Erasures, [Next]_vars
  PROVE  Erasures'
<1>. USE Procs
<1>1. SUFFICES ASSUME NEW p \in Proc, pc'[p] = "erase",
                      NEW d \in Digest, objects'[d] # None
               PROVE  objects'[d].key # held'[p][part'[p]]
  BY DEF Erasures, RowsOf
<1>2. PICK k : k = held[p][part[p]] /\ held'[p][part'[p]] = k
  BY <1>1, EraseStep
<1>3. CASE Purge(p)
  BY <1>1, <1>2, <1>3 DEF Purge, RowsOf
<1>4. CASE pc[p] = "erase"
  <2>1. \A e \in Digest : objects[e] # None => objects[e].key # k
    BY <1>2, <1>4 DEF Erasures, RowsOf
  <2>2. CASE SameRows
    BY <1>1, <1>2, <2>1, <2>2 DEF SameRows
  <2>3. ASSUME NEW u \in Upload, NEW l \in Key, Takes(u, l)
        PROVE  objects'[d].key # k
    <3>1. CASE Inserts(u, l)
      <4>1. Fresh(part[u], core[u]) /\ l = <<part[u], core[u]>>
        BY <2>3, <3>1 DEF Freshness, Takes, Inserts
      <4>2. Owns(p) /\ part[p] \in Part
        BY <1>4 DEF Owns, OwnPC, LocalsOK
      <4>3. l # k
        BY <1>2, <4>1, <4>2 DEF Fresh, Unknown
      <4>. QED  BY <1>1, <2>1, <2>3, <4>3 DEF Takes, RowsOf, TypeOK, ObjectRow
    <3>2. CASE ~Inserts(u, l)
      BY <1>1, <2>1, <2>3, <3>2 DEF Takes, RowsOf, TypeOK, ObjectRow
    <3>. QED  BY <3>1, <3>2
  <2>. QED  BY <1>2, <2>2, <2>3, RowStep
<1>. QED  BY <1>1, <1>3, <1>4, EraseStep

\* A reader is served when it returns, as the owner of a core it has removed.
Serves(r) ==
  /\ Owns(r) /\ ~Owns(r)' /\ core[r] \in Core /\ SameFiles /\ UNCHANGED files
  /\ served' = served \cup {<<r, core[r]>>}

\* A delivery is made by a reader that gives up a core it owned.
LEMMA ServedStep ==
  ASSUME TypeOK, LocalsOK, Shape, [Next]_vars
  PROVE  UNCHANGED served \/ \E r \in Reader : Serves(r)
<1>. USE Procs
<1>1. ASSUME NEW p \in Proc, Returns(p), Deliver(p), UNCHANGED <<cores, files>>,
             pc[p] \in {"release", "erase", "purge"}
      PROVE  UNCHANGED served \/ \E r \in Reader : Serves(r)
  <2>1. Owns(p) /\ ~Owns(p)' /\ core[p] \in Core /\ SameFiles
    BY <1>1 DEF Returns, Moves, Owns, OwnPC, Shape, ShapeOf, SameFiles, SameOwners
  <2>. QED  BY <1>1, <2>1 DEF Deliver, Serves
<1>2. ASSUME NEW p \in Proc, ReleaseStep(p)
      PROVE  UNCHANGED served \/ \E r \in Reader : Serves(r)
  <2>1. UNCHANGED <<cores, files>>
    BY <1>2 DEF ReleaseStep, Release, Purge, Erase, EraseFails, StatementFails
  <2>2. UNCHANGED served \/ (GoesOn(p) /\ pc[p] \in {"release", "erase", "purge"})
    BY <1>2, PlainMoves, StatementFailsMoves
       DEF ReleaseStep, Release, Purge, Erase, EraseFails
  <2>. QED  BY <1>1, <2>1, <2>2 DEF GoesOn
<1>3. ASSUME NEW u \in Upload, UploadStep(u) PROVE UNCHANGED served
  BY <1>3 DEF UploadStep, ClaimCore, ClaimFails, InsertObject, ConflictObject, BumpObject,
              BumpMisses, Put, PutFails, InsertFile, InsertFails
<1>4. ASSUME NEW p \in Proc, Cancel(p) PROVE UNCHANGED served
  BY <1>4 DEF Cancel
<1>5. ASSUME NEW p \in Remover, RemoveStep(p) \/ FindFile(p) \/ LoadLiveFile(p) \/ Collect(p)
      PROVE  UNCHANGED served
  BY <1>5 DEF RemoveStep, RemoveRow, RowGone, FindFile, LoadLiveFile, Collect
<1>6. ASSUME SweepScan \/ SweepNext \/ UNCHANGED vars \/ \E c \in Core : Expire(c)
      PROVE  UNCHANGED served
  BY <1>6 DEF SweepScan, SweepNext, vars, Expire
<1>. QED  BY <1>2, <1>3, <1>4, <1>5, <1>6 DEF Next, Quiet

\* A core that is neither free nor live nor owned stays so.
Dead(c) == c \in cores /\ files[c] = None /\ \A p \in Proc : Owns(p) => core[p] # c

\* A core nobody owns any more stays dead.
LEMMA DeadStep ==
  ASSUME TypeOK, LocalsOK, Shape, [Next]_vars, NEW c \in Core, Dead(c)
  PROVE  Dead(c)'
<1>. USE Procs
<1>0. files \in [Core -> FileRow \cup {None}]
  BY DEF TypeOK
<1>1. ASSUME NEW u \in Upload, Claims(u) PROVE Dead(c)'
  BY <1>1 DEF Claims, SameOwners, Dead
<1>2. ASSUME NEW u \in Upload, Publishes(u) PROVE Dead(c)'
  BY <1>0, <1>2 DEF Publishes, SameOwners, Dead
<1>3. ASSUME NEW p \in Remover, Retires(p) PROVE Dead(c)'
  BY <1>0, <1>3 DEF Retires, SameOwners, Dead
<1>4. CASE SameFiles
  BY <1>4 DEF SameFiles, SameOwners, Dead
<1>. QED  BY <1>1, <1>2, <1>3, <1>4, OwnerStep

\* What was delivered is dead, and was delivered once.
LEMMA DeliveriesStep ==
  ASSUME TypeOK, LocalsOK, Shape, Ownership, Deliveries, [Next]_vars
  PROVE  Deliveries' /\ served' \subseteq Reader \X Core
<1>. USE Procs
<1>1. served \subseteq Reader \X Core /\ \A r \in Reader, c \in Core : <<r, c>> \in served => Dead(c)
  BY DEF TypeOK, Deliveries, Dead
<1>2. ASSUME NEW r \in Reader, Serves(r), NEW c \in Core, c = core[r]
      PROVE  Dead(c)' /\ ~Dead(c)
  <2>1. c \in cores /\ files[c] = None /\ ~Dead(c)
    BY <1>2 DEF Serves, Ownership, Dead
  <2>2. ASSUME NEW p \in Proc, Owns(p)' PROVE core'[p] # c
    BY <1>2, <2>2 DEF Serves, SameFiles, SameOwners, Ownership
  <2>. QED  BY <1>2, <2>1, <2>2 DEF Serves, SameFiles, Dead
<1>3. ASSUME NEW s \in Reader, NEW c \in Core, <<s, c>> \in served'
      PROVE  Dead(c)' /\ \A r \in Reader : <<r, c>> \in served' => r = s
  <2>1. CASE UNCHANGED served
    BY <1>1, <1>3, <2>1, DeadStep DEF Deliveries, BurnOnce
  <2>2. ASSUME NEW q \in Reader, Serves(q)
        PROVE  Dead(c)' /\ \A r \in Reader : <<r, c>> \in served' => r = s
    <3>1. CASE core[q] = c
      <4>1. \A r \in Reader : <<r, c>> \notin served
        BY <1>1, <1>2, <2>2, <3>1
      <4>. QED  BY <1>2, <1>3, <2>2, <3>1, <4>1 DEF Serves
    <3>2. CASE core[q] # c
      <4>1. \A r \in Reader : <<r, c>> \in served' => <<r, c>> \in served
        BY <2>2, <3>2 DEF Serves
      <4>. QED  BY <1>1, <1>3, <4>1, DeadStep DEF Deliveries, BurnOnce
    <3>. QED  BY <3>1, <3>2
  <2>. QED  BY <2>1, <2>2, ServedStep
<1>4. Deliveries'
  BY <1>3 DEF Deliveries, BurnOnce, Dead
<1>5. served' \subseteq Reader \X Core
  BY <1>1, ServedStep DEF Serves
<1>. QED  BY <1>4, <1>5

-----------------------------------------------------------------------------
(***************************************************************************)
(* The tables keep their types.                                            *)
(***************************************************************************)
\* The tables, the blobs and the batch keep their types.
LEMMA TablesStep ==
  ASSUME TypeOK, LocalsOK, Shape, [Next]_vars
  PROVE  /\ cores' \subseteq Core /\ todo' \subseteq Core
         /\ blobs' \in [Key -> Digest \cup {None}]
         /\ files' \in [Core -> FileRow \cup {None}]
         /\ debt' \in [Key -> Key \cup {None}]
<1>. USE Procs
<1>0. /\ cores \subseteq Core /\ todo \subseteq Core
      /\ blobs \in [Key -> Digest \cup {None}]
      /\ files \in [Core -> FileRow \cup {None}]
      /\ debt \in [Key -> Key \cup {None}]
  BY DEF TypeOK
<1>1. cores' \subseteq Core
  BY <1>0, OwnerStep DEF Claims, Publishes, Retires, SameFiles
<1>2. todo' \subseteq Core
  BY <1>0, LookupStep
<1>3. debt' \in [Key -> Key \cup {None}]
  <2>1. ASSUME NEW u \in Upload, NEW k \in Key, Takes(u, k)
        PROVE  debt' \in [Key -> Key \cup {None}]
    BY <1>0, <2>1 DEF Takes
  <2>2. ASSUME NEW p \in Proc, Frees(p) PROVE debt' \in [Key -> Key \cup {None}]
    BY <1>0, <2>2 DEF Frees
  <2>. QED  BY <1>0, <2>1, <2>2, DebtStep
<1>4. blobs' \in [Key -> Digest \cup {None}]
  <2>1. ASSUME NEW p \in Proc, pc[p] = "put",
               blobs' = blobs \/ blobs' = [blobs EXCEPT ![held[p][part[p]]] = Sha(p)]
        PROVE  blobs' \in [Key -> Digest \cup {None}]
    <3>1. p \in Upload
      BY <2>1 DEF Shape, ShapeOf, RemoverPC
    <3>2. Sha(p) \in Digest
      BY <2>1, <3>1, ShaTyped DEF AcquirePC
    <3>. QED  BY <1>0, <2>1, <3>2
  <2>2. ASSUME NEW p \in Proc, blobs' = [blobs EXCEPT ![held[p][part[p]]] = None]
        PROVE  blobs' \in [Key -> Digest \cup {None}]
    BY <1>0, <2>2
  <2>3. ASSUME NEW u \in Upload, UploadStep(u) PROVE blobs' \in [Key -> Digest \cup {None}]
    BY <1>0, <2>1, <2>3 DEF UploadStep, ClaimCore, ClaimFails, InsertObject, ConflictObject,
                            BumpObject, BumpMisses, Put, PutFails, InsertFile, InsertFails
  <2>4. ASSUME NEW p \in Proc, ReleaseStep(p) PROVE blobs' \in [Key -> Digest \cup {None}]
    BY <1>0, <2>2, <2>4 DEF ReleaseStep, Release, Purge, Erase, EraseFails, StatementFails
  <2>5. ASSUME NEW p \in Proc, Cancel(p) PROVE blobs' \in [Key -> Digest \cup {None}]
    BY <1>0, <2>1, <2>5 DEF Cancel
  <2>6. ASSUME NEW p \in Remover, RemoveStep(p) \/ FindFile(p) \/ LoadLiveFile(p) \/ Collect(p)
        PROVE  UNCHANGED blobs
    BY <2>6 DEF RemoveStep, RemoveRow, RowGone, FindFile, LoadLiveFile, Collect
  <2>7. ASSUME SweepScan \/ SweepNext \/ UNCHANGED vars \/ \E c \in Core : Expire(c)
        PROVE  UNCHANGED blobs
    BY <2>7 DEF SweepScan, SweepNext, vars, Expire
  <2>. QED  BY <1>0, <2>3, <2>4, <2>5, <2>6, <2>7 DEF Next, Quiet
<1>5. files' \in [Core -> FileRow \cup {None}]
  <2>1. ASSUME NEW c \in Core, Expire(c) PROVE files' \in [Core -> FileRow \cup {None}]
    <3>1. files[c] \in FileRow /\ files' = [files EXCEPT ![c].expires = "passed"]
      BY <1>0, <2>1 DEF Expire
    <3>2. [files[c] EXCEPT !.expires = "passed"] \in FileRow
      BY <3>1 DEF FileRow, Expiry
    <3>. QED  BY <1>0, <3>1, <3>2
  <2>2. ASSUME NEW u \in Upload, Publishes(u) PROVE files' \in [Core -> FileRow \cup {None}]
    BY <1>0, <2>2 DEF Publishes
  <2>3. ASSUME NEW p \in Remover, Retires(p) PROVE files' \in [Core -> FileRow \cup {None}]
    BY <1>0, <2>3 DEF Retires
  <2>4. ASSUME NEW u \in Upload, UploadStep(u), ~InsertFile(u) PROVE UNCHANGED files
    BY <2>4 DEF UploadStep, ClaimCore, ClaimFails, InsertObject, ConflictObject,
                BumpObject, BumpMisses, Put, PutFails, InsertFails
  <2>5. ASSUME NEW u \in Upload, InsertFile(u) PROVE files' \in [Core -> FileRow \cup {None}]
    BY <1>0, <2>5, InsertFilePublishes, <2>2
  <2>6. ASSUME NEW p \in Proc, ReleaseStep(p) \/ Cancel(p) PROVE UNCHANGED files
    BY <2>6 DEF ReleaseStep, Release, Purge, Erase, EraseFails, StatementFails, Cancel
  <2>7. ASSUME NEW p \in Remover, RowGone(p) \/ FindFile(p) \/ LoadLiveFile(p) \/ Collect(p)
        PROVE  UNCHANGED files
    BY <2>7 DEF RowGone, FindFile, LoadLiveFile, Collect
  <2>8. ASSUME NEW p \in Remover, RemoveRow(p) PROVE files' \in [Core -> FileRow \cup {None}]
    BY <1>0, <2>8, RemoveRowMoves
  <2>9. ASSUME SweepScan \/ SweepNext \/ UNCHANGED vars PROVE UNCHANGED files
    BY <2>9 DEF SweepScan, SweepNext, vars
  <2>. QED  BY <1>0, <2>1, <2>4, <2>5, <2>6, <2>7, <2>8, <2>9 DEF Next, Quiet, RemoveStep
<1>. QED  BY <1>1, <1>2, <1>3, <1>4, <1>5

-----------------------------------------------------------------------------
(***************************************************************************)
(* What a key stands for.  Rows of objects, bytes, live files and uploads  *)
(* each say of which content their keys are; a key stands for one content, *)
(* from the INSERT that makes it to the end of time.                       *)
(***************************************************************************)
\* The digest and the key of the file itself, or of its thumbnail.
DigestAs(x, sha) == IF x = "file" THEN sha ELSE ThumbOf[sha]
KeyAs(x, row) == IF x = "file" THEN row.key ELSE row.thumb

FileBinds(k, d) ==
  \E c \in Core, x \in Part :
    files[c] # None /\ KeyAs(x, files[c]) = k /\ d = DigestAs(x, files[c].sha)

UploadBinds(k, d) ==
  \E u \in Upload, x \in Part :
    Owns(u) /\ held[u][x] = k /\ d = DigestAs(x, want[u].sha)

\* Something in the system takes the key k for the content d.
Binds(k, d) ==
  \/ d \in RowsOf(k)
  \/ blobs[k] = d /\ d # None
  \/ FileBinds(k, d)
  \/ UploadBinds(k, d)

Agreement ==
  \A k \in Key : \A d, e \in Digest \cup {None} : Binds(k, d) /\ Binds(k, e) => d = e

\* An upload holds each of its keys for the content it acquired it for.
LEMMA HeldBinds ==
  ASSUME LocalsOK, Shape, NEW u \in Upload, Owns(u)
  PROVE  Binds(held[u][part[u]], Sha(u))
<1>1. part[u] \in Part
  BY Procs DEF LocalsOK
<1>2. Sha(u) = DigestAs(part[u], want[u].sha)
  BY DEF Sha, DigestAs
<1>. QED  BY <1>1, <1>2 DEF Binds, UploadBinds

\* A key comes to stand for a content by the INSERT of its row, and by nothing else.
LEMMA BindingStep ==
  ASSUME TypeOK, LocalsOK, Shape, [Next]_vars,
         NEW k \in Key, NEW d \in Digest \cup {None}, Binds(k, d)'
  PROVE  \/ Binds(k, d)
         \/ \E u \in Upload : Takes(u, k) /\ Inserts(u, k) /\ RowsOf(k) = {} /\ d = Sha(u)
<1>. USE Procs
<1>. DEFINE Goal ==
  \/ Binds(k, d)
  \/ \E u \in Upload : Takes(u, k) /\ Inserts(u, k) /\ RowsOf(k) = {} /\ d = Sha(u)
<1>0. objects \in [Digest -> ObjectRow \cup {None}] /\ None \notin ObjectRow
  BY DataAssumption DEF TypeOK
<1>1. ASSUME d \in Digest, objects'[d] # None, objects'[d].key = k PROVE Goal
  <2>1. CASE SameRows
    BY <1>1, <2>1 DEF SameRows, Binds, RowsOf
  <2>2. ASSUME NEW u \in Upload, NEW l \in Key, Takes(u, l) PROVE Goal
    <3>1. CASE d # Sha(u)
      <4>1. objects'[d] = objects[d]
        BY <1>0, <1>1, <2>2, <3>1 DEF Takes
      <4>. QED  BY <1>1, <4>1 DEF Binds, RowsOf
    <3>2. CASE d = Sha(u) /\ Sha(u) \in RowsOf(l)
      <4>1. objects[d] \in ObjectRow /\ objects[d].key = l
        BY <1>0, <2>2, <3>2 DEF RowsOf
      <4>2. objects'[d].key = objects[d].key \/ (RowsOf(l) = {})
        BY <1>0, <2>2, <3>2, <4>1 DEF Takes, ObjectRow
      <4>. QED  BY <1>1, <3>2, <4>1, <4>2 DEF Binds
    <3>3. CASE d = Sha(u) /\ Sha(u) \notin RowsOf(l)
      <4>1. /\ Inserts(u, l) /\ RowsOf(l) = {}
            /\ objects' = [objects EXCEPT ![Sha(u)] = [key |-> l, refcount |-> 1]]
        BY <2>2, <3>3 DEF Takes
      <4>2. objects'[d].key = l
        BY <1>0, <1>1, <3>3, <4>1
      <4>. QED  BY <1>1, <2>2, <3>3, <4>1, <4>2
    <3>. QED  BY <3>1, <3>2, <3>3
  <2>. QED  BY <2>1, <2>2, RowStep
<1>2. ASSUME blobs'[k] = d, d # None PROVE Goal
  <2>1. CASE blobs'[k] = blobs[k]
    BY <1>2, <2>1 DEF Binds
  <2>2. ASSUME NEW u \in Upload, pc[u] = "put", held[u][part[u]] = k, blobs'[k] = Sha(u)
        PROVE  Goal
    BY <1>2, <2>2, HeldBinds DEF Owns, OwnPC
  <2>. QED  BY <1>2, <2>1, <2>2, BlobStep
<1>3. ASSUME NEW c \in Core, NEW x \in Part, files'[c] # None, KeyAs(x, files'[c]) = k,
             d = DigestAs(x, files'[c].sha)
      PROVE  Goal
  <2>0. files \in [Core -> FileRow \cup {None}]
    BY DEF TypeOK
  <2>1. CASE files'[c] = files[c]
    BY <1>3, <2>1 DEF Binds, FileBinds
  <2>2. ASSUME NEW u \in Upload, Publishes(u), files'[c] # files[c] PROVE Goal
    <3>1. /\ files'[c].key = held[u]["file"] /\ files'[c].thumb = held[u]["thumb"]
          /\ files'[c].sha = want[u].sha /\ Owns(u)
      BY <2>0, <2>2 DEF Publishes
    <3>2. held[u][x] = k
      BY <1>3, <3>1, Keys DEF KeyAs
    <3>. QED  BY <1>3, <3>1, <3>2 DEF Binds, UploadBinds
  <2>3. ASSUME NEW p \in Remover, Retires(p) PROVE files'[c] = files[c]
    BY <1>3, <2>0, <2>3 DEF Retires
  <2>4. ASSUME SameFiles, files'[c] # files[c] PROVE Goal
    <3>1. files[c] # None /\ files'[c] = [files[c] EXCEPT !.expires = "passed"]
      BY <2>4 DEF SameFiles
    <3>2. files[c] \in FileRow
      BY <2>0, <3>1
    <3>3. /\ files'[c].key = files[c].key /\ files'[c].thumb = files[c].thumb
          /\ files'[c].sha = files[c].sha
      BY <3>1, <3>2 DEF FileRow
    <3>. QED  BY <1>3, <3>1, <3>3 DEF Binds, FileBinds, KeyAs
  <2>5. ASSUME NEW u \in Upload, Claims(u) PROVE files'[c] = files[c]
    BY <2>5 DEF Claims
  <2>. QED  BY <2>1, <2>2, <2>3, <2>4, <2>5, OwnerStep
<1>4. ASSUME NEW u \in Upload, NEW x \in Part, Owns(u)', held'[u][x] = k,
             d = DigestAs(x, want'[u].sha)
      PROVE  Goal
  <2>1. CASE Less(u)
    BY <1>4, <2>1, Keys DEF Less, Binds, UploadBinds
  <2>2. ASSUME NEW v \in Upload, NEW l \in Key, Takes(v, l) PROVE Goal
    <3>1. CASE u # v
      <4>1. pc'[u] = pc[u] /\ held'[u] = held[u] /\ want'[u] = want[u]
        BY <2>2, <3>1 DEF Takes, Moves
      <4>. QED  BY <1>4, <4>1 DEF Owns, Binds, UploadBinds
    <3>2. CASE u = v /\ x # part[u]
      <4>1. Owns(u) /\ held'[u][x] = held[u][x] /\ want'[u] = want[u]
        BY <2>2, <3>2 DEF Takes, Owns, OwnPC
      <4>. QED  BY <1>4, <4>1 DEF Binds, UploadBinds
    <3>3. CASE u = v /\ x = part[u]
      <4>1. l = k /\ d = Sha(u)
        BY <1>4, <2>2, <3>3 DEF Takes, Sha, DigestAs
      <4>. QED  BY <2>2, <3>3, <4>1 DEF Takes, Binds
    <3>. QED  BY <3>1, <3>2, <3>3
  <2>3. ASSUME NEW p \in Remover, Inherits(p) PROVE Less(u)
    BY <2>3 DEF Inherits, Goes, Moves, Less, Owns, Releasing
  <2>. QED  BY <2>1, <2>2, <2>3, HeldStep
<1>. QED  BY <1>1, <1>2, <1>3, <1>4 DEF Binds, RowsOf, FileBinds, UploadBinds, Owns

\* A key that nobody knows stands for nothing.
LEMMA UnknownBindsNothing ==
  ASSUME Debts, NEW k \in Key, Unknown(k), NEW d \in Digest \cup {None}
  PROVE  ~Binds(k, d)
<1>1. ~FileBinds(k, d)
  <2>. SUFFICES ASSUME NEW c \in Core, NEW x \in Part, files[c] # None, KeyAs(x, files[c]) = k
                PROVE  FALSE
    BY DEF FileBinds
  <2>1. CASE x = "file"
    BY <2>1, Keys DEF KeyAs, Debts, Unknown
  <2>2. CASE x = "thumb"
    BY <2>2, Keys DEF KeyAs, Debts, Unknown
  <2>. QED  BY <2>1, <2>2, Keys
<1>2. ~UploadBinds(k, d)
  BY Procs DEF UploadBinds, Unknown
<1>. QED  BY <1>1, <1>2 DEF Binds, Unknown, RowsOf

\* Keys never change what they stand for.
LEMMA AgreementStep ==
  ASSUME TypeOK, LocalsOK, Shape, Freshness, Debts, Agreement, [Next]_vars
  PROVE  Agreement'
<1>1. SUFFICES ASSUME NEW k \in Key, NEW d \in Digest \cup {None}, NEW e \in Digest \cup {None},
                      Binds(k, d)', Binds(k, e)'
               PROVE  d = e
  BY DEF Agreement
<1>2. CASE \E u \in Upload : Takes(u, k) /\ Inserts(u, k) /\ RowsOf(k) = {}
  <2>1. PICK u \in Upload : Takes(u, k) /\ Inserts(u, k) /\ RowsOf(k) = {}
    BY <1>2
  <2>2. Unknown(k)
    <3>1. pc[u] \in {"acquire", "bump"} /\ k = <<part[u], core[u]>>
      BY <2>1 DEF Takes, Inserts
    <3>2. Fresh(part[u], core[u])
      BY <3>1 DEF Freshness
    <3>. QED  BY <3>1, <3>2 DEF Fresh
  <2>3. ~Binds(k, d) /\ ~Binds(k, e)
    BY <2>2, UnknownBindsNothing
  <2>4. PICK v \in Upload : Takes(v, k) /\ Inserts(v, k) /\ d = Sha(v)
    BY <1>1, <2>3, BindingStep
  <2>5. PICK w \in Upload : Takes(w, k) /\ Inserts(w, k) /\ e = Sha(w)
    BY <1>1, <2>3, BindingStep
  <2>6. v = w
    BY <2>4, <2>5, Procs DEF Takes, Moves, Inserts
  <2>. QED  BY <2>4, <2>5, <2>6
<1>3. CASE ~\E u \in Upload : Takes(u, k) /\ Inserts(u, k) /\ RowsOf(k) = {}
  <2>1. Binds(k, d) /\ Binds(k, e)
    BY <1>1, <1>3, BindingStep
  <2>. QED  BY <2>1 DEF Agreement
<1>. QED  BY <1>2, <1>3

-----------------------------------------------------------------------------
(***************************************************************************)
(* What is left behind: where handlers leave a PUT, a purge or an erasure, *)
(* and what of it depends on which faults there are.                       *)
(***************************************************************************)
\* p stays where it was.
Stays(p) == pc'[p] = pc[p] /\ part'[p] = part[p] /\ held'[p] = held[p]

\* The statements that end a PUT, the DELETE of a row and the erasure of bytes.
LEMMA LeaveStep ==
  ASSUME TypeOK, LocalsOK, Shape, [Next]_vars,
         NEW p \in Proc, pc[p] \in {"put", "purge", "erase"}
  PROVE  \/ Stays(p) \/ Cancel(p)
         \/ pc[p] = "put" /\ p \in Upload /\ (Put(p) \/ PutFails(p))
         \/ pc[p] = "purge" /\ (Purge(p) \/ StatementFails(p))
         \/ pc[p] = "erase" /\ (Erase(p) \/ EraseFails(p))
<1>. USE Procs
<1>. DEFINE Goal ==
  \/ Stays(p) \/ Cancel(p)
  \/ pc[p] = "put" /\ p \in Upload /\ (Put(p) \/ PutFails(p))
  \/ pc[p] = "purge" /\ (Purge(p) \/ StatementFails(p))
  \/ pc[p] = "erase" /\ (Erase(p) \/ EraseFails(p))
<1>1. ASSUME UNCHANGED local PROVE Goal
  BY <1>1 DEF local, Stays
<1>2. ASSUME NEW q \in Proc, Moves(q), p # q PROVE Goal
  BY <1>2 DEF Moves, Stays
<1>3. ASSUME p \in Upload, UploadStep(p) PROVE Goal
  BY <1>3 DEF UploadStep, ClaimCore, ClaimFails, InsertObject, ConflictObject, BumpObject,
              BumpMisses, Put, PutFails, InsertFile, InsertFails
<1>4. ASSUME ReleaseStep(p) PROVE Goal
  BY <1>4 DEF ReleaseStep, Release, Purge, Erase, EraseFails, StatementFails
<1>5. ASSUME p \in Remover, RemoveStep(p) \/ FindFile(p) \/ LoadLiveFile(p) \/ Collect(p)
      PROVE  FALSE
  BY <1>5 DEF RemoveStep, RemoveRow, RowGone, FindFile, LoadLiveFile, Collect
<1>6. ASSUME p = Sweeper, SweepNext PROVE FALSE
  BY <1>6 DEF SweepNext
<1>. QED  BY <1>1, <1>2, <1>3, <1>4, <1>5, <1>6, MoverStep DEF StepOf

\* How an upload comes to a PUT, and a handler to a purge.
LEMMA ArriveStep ==
  ASSUME TypeOK, LocalsOK, Shape, [Next]_vars, NEW p \in Proc
  PROVE  /\ pc'[p] = "put" =>
              Stays(p) \/ (p \in Upload /\ InsertObject(p) /\ \E k \in Key : Takes(p, k) /\ Inserts(p, k))
         /\ pc'[p] = "purge" => Stays(p) \/ (Release(p) /\ Keeps(p, "purge"))
<1>. USE Procs
<1>. DEFINE Goal ==
  /\ pc'[p] = "put" =>
       Stays(p) \/ (p \in Upload /\ InsertObject(p) /\ \E k \in Key : Takes(p, k) /\ Inserts(p, k))
  /\ pc'[p] = "purge" => Stays(p) \/ (Release(p) /\ Keeps(p, "purge"))
<1>1. ASSUME UNCHANGED local PROVE Goal
  BY <1>1 DEF local, Stays
<1>2. ASSUME NEW q \in Proc, Moves(q), p # q PROVE Goal
  BY <1>2 DEF Moves, Stays
<1>3. ASSUME p \in Upload, InsertObject(p) PROVE Goal
  <2>1. objects[Sha(p)] = None /\ pc[p] = "acquire"
    BY <1>3 DEF InsertObject
  <2>2. CASE Takes(p, <<part[p], core[p]>>)
    <3>1. pc'[p] # "purge"
      BY <2>2 DEF Takes
    <3>2. <<part[p], core[p]>> \in Key /\ Inserts(p, <<part[p], core[p]>>)
      BY <2>1, <2>2 DEF Takes, RowsOf
    <3>. QED  BY <1>3, <2>2, <3>1, <3>2
  <2>3. CASE ~Takes(p, <<part[p], core[p]>>)
    <3>1. pc'[p] # "put"
      BY <1>3, <2>3, TakesStep
    <3>2. pc'[p] # "purge"
      BY <1>3, InsertObjectMoves DEF GivesUp, Keeps, Goes, Returns
    <3>. QED  BY <3>1, <3>2
  <2>. QED  BY <2>2, <2>3
<1>4. ASSUME p \in Upload, UploadStep(p), ~InsertObject(p) PROVE Goal
  BY <1>4, ClaimCoreMoves, BumpObjectMoves, PutMoves, PlainMoves
     DEF UploadStep, Returns, Goes, Keeps, GivesUp, Acquires
<1>5. ASSUME Release(p) PROVE Goal
  BY <1>5, PlainMoves DEF GoesOn, Keeps, Goes, Returns
<1>6. ASSUME ReleaseStep(p) \/ Cancel(p), ~Release(p) PROVE Goal
  BY <1>6, StatementFailsMoves, PlainMoves
     DEF ReleaseStep, Returns, Goes, Keeps, GivesUp, GoesOn
<1>7. ASSUME p \in Remover, RemoveStep(p) \/ FindFile(p) \/ LoadLiveFile(p) \/ Collect(p)
      PROVE  Goal
  BY <1>7, FindFileMoves, RemoveRowMoves, PlainMoves DEF RemoveStep, Returns, Goes, Keeps
<1>8. ASSUME p = Sweeper, SweepNext PROVE Goal
  BY <1>8, SweepNextMoves
<1>. QED  BY <1>1, <1>2, <1>3, <1>4, <1>5, <1>6, <1>7, <1>8, MoverStep DEF StepOf

\* A reference that is being released is counted, so its row has a refcount.
LEMMA HeldIsCounted ==
  ASSUME TypeOK, Shape, Debts, Counts,
         NEW p \in Proc, pc[p] = "release", NEW d \in RowsOf(held[p][part[p]])
  PROVE  /\ d \in Digest /\ objects[d] \in ObjectRow
         /\ objects[d].refcount = Cardinality(Holders(held[p][part[p]]))
         /\ objects[d].refcount \in Nat /\ objects[d].refcount # 0
         /\ held[p][part[p]] \in Key /\ <<part[p], core[p]>> \in Holders(held[p][part[p]])
<1>. DEFINE k == held[p][part[p]]
<1>1. d \in Digest /\ objects[d] \in ObjectRow /\ objects[d].key = k /\ k \in Key
  <2>1. d \in Digest /\ objects[d] # None /\ objects[d].key = k
    BY DEF RowsOf
  <2>. QED  BY <2>1 DEF TypeOK, ObjectRow
<1>2. <<part[p], core[p]>> \in Holders(k)
  <2>1. <<part[p], core[p]>> \in Key
    BY Keys DEF TypeOK, Shape, ShapeOf
  <2>2. Owns(p) /\ k # None /\ ~Releasing(p, part[p]) /\ part[p] \in Part
    BY <1>1, Keys DEF Owns, OwnPC, Releasing, TypeOK
  <2>3. debt[<<part[p], core[p]>>] = k
    BY <2>2 DEF Debts
  <2>. QED  BY <2>1, <2>3 DEF Holders
<1>3. objects[d].refcount = Cardinality(Holders(k)) /\ objects[d].refcount \in Nat
  BY <1>1, DataAssumption DEF Counts, Count, ObjectRow
<1>4. Cardinality(Holders(k)) # 0
  BY <1>1, <1>2, HoldersFinite, FS_EmptySet
<1>. QED  BY <1>1, <1>2, <1>3, <1>4

\* A row and its key stay until a purge of that key.
LEMMA RowKeptStep ==
  ASSUME IInv, [Next]_vars, NEW d \in Digest, objects[d] # None
  PROVE  \/ objects'[d] # None /\ objects'[d].key = objects[d].key
         \/ \E p \in Proc : Purge(p) /\ held[p][part[p]] = objects[d].key
<1>. USE Procs
<1>. DEFINE Kept == objects'[d] # None /\ objects'[d].key = objects[d].key
<1>0. /\ TypeOK /\ LocalsOK /\ Shape /\ Debts /\ Counts
      /\ objects \in [Digest -> ObjectRow \cup {None}] /\ objects[d] \in ObjectRow
      /\ None \notin ObjectRow
  BY TypesOfLocals, DataAssumption DEF IInv, TypeOK
<1>1. ASSUME NEW u \in Upload, NEW k \in Key, Takes(u, k) PROVE Kept
  <2>1. CASE d # Sha(u)
    BY <1>0, <1>1, <2>1 DEF Takes
  <2>2. CASE d = Sha(u) /\ Sha(u) \in RowsOf(k)
    <3>1. objects' = [objects EXCEPT ![d].refcount = @ + 1]
      BY <1>1, <2>2 DEF Takes
    <3>2. objects'[d] = [key |-> objects[d].key, refcount |-> objects[d].refcount + 1]
      BY <1>0, <3>1 DEF ObjectRow
    <3>3. objects[d].key \in Key /\ objects[d].refcount + 1 \in Nat
      BY <1>0 DEF ObjectRow
    <3>. QED  BY <1>0, <3>2, <3>3 DEF ObjectRow
  <2>3. CASE d = Sha(u) /\ Sha(u) \notin RowsOf(k)
    BY <1>1, <2>3 DEF Takes
  <2>. QED  BY <2>1, <2>2, <2>3
<1>2. ASSUME NEW p \in Proc, Release(p) PROVE Kept
  <2>. DEFINE k == held[p][part[p]]
  <2>1. /\ pc[p] = "release"
        /\ objects'[d] = IF d \in RowsOf(k) THEN [objects[d] EXCEPT !.refcount = @ - 1] ELSE objects[d]
    BY <1>2 DEF Release
  <2>2. CASE d \in RowsOf(k)
    <3>1. objects[d].refcount \in Nat /\ objects[d].refcount # 0 /\ objects[d].key \in Key
      BY <1>0, <2>1, <2>2, HeldIsCounted DEF ObjectRow
    <3>2. objects'[d] = [key |-> objects[d].key, refcount |-> objects[d].refcount - 1]
      BY <1>0, <2>1, <2>2 DEF ObjectRow
    <3>3. objects[d].refcount - 1 \in Nat
      BY <3>1
    <3>. QED  BY <1>0, <3>1, <3>2, <3>3 DEF ObjectRow
  <2>3. CASE d \notin RowsOf(k)
    BY <2>1, <2>3
  <2>. QED  BY <2>2, <2>3
<1>3. ASSUME NEW p \in Proc, Purge(p), held[p][part[p]] # objects[d].key PROVE Kept
  BY <1>3 DEF Purge, RowsOf
<1>4. ASSUME UNCHANGED objects PROVE Kept
  BY <1>4
<1>. QED  BY <1>0, <1>1, <1>2, <1>3, <1>4, TableStep

\* Bytes are erased only when no row lists them.
LEMMA ErasedIsUnlisted ==
  ASSUME IInv, [Next]_vars, NEW k \in Key, blobs[k] # None, blobs'[k] = None
  PROVE  RowsOf(k) = {}
<1>. USE Procs
<1>0. TypeOK /\ LocalsOK /\ Shape /\ Erasures /\ blobs \in [Key -> Digest \cup {None}]
  BY TypesOfLocals DEF IInv, TypeOK
<1>1. ASSUME NEW p \in Proc, pc[p] = "put",
             blobs' = blobs \/ blobs' = [blobs EXCEPT ![held[p][part[p]]] = Sha(p)]
      PROVE  FALSE
  <2>1. p \in Upload
    BY <1>0, <1>1 DEF Shape, ShapeOf, RemoverPC
  <2>2. Sha(p) \in Digest
    BY <1>0, <1>1, <2>1, ShaTyped DEF AcquirePC
  <2>. QED  BY <1>0, <1>1, <2>2, DataAssumption
<1>2. ASSUME NEW p \in Proc, Erase(p) PROVE RowsOf(k) = {}
  BY <1>0, <1>2 DEF Erase, Erasures
<1>3. ASSUME NEW u \in Upload, UploadStep(u) PROVE FALSE
  BY <1>1, <1>3 DEF UploadStep, ClaimCore, ClaimFails, InsertObject, ConflictObject,
                    BumpObject, BumpMisses, Put, PutFails, InsertFile, InsertFails
<1>4. ASSUME NEW p \in Proc, ReleaseStep(p), ~Erase(p) PROVE FALSE
  BY <1>4 DEF ReleaseStep, Release, Purge, EraseFails, StatementFails
<1>5. ASSUME NEW p \in Proc, Cancel(p) PROVE FALSE
  BY <1>1, <1>5 DEF Cancel
<1>6. ASSUME NEW p \in Remover, RemoveStep(p) \/ FindFile(p) \/ LoadLiveFile(p) \/ Collect(p)
      PROVE  FALSE
  BY <1>6 DEF RemoveStep, RemoveRow, RowGone, FindFile, LoadLiveFile, Collect
<1>7. ASSUME SweepScan \/ SweepNext \/ UNCHANGED vars \/ \E c \in Core : Expire(c)
      PROVE  FALSE
  BY <1>7 DEF SweepScan, SweepNext, vars, Expire
<1>. QED  BY <1>2, <1>3, <1>4, <1>5, <1>6, <1>7 DEF Next, Quiet

\* While no PUT fails or is cut short, a row keeps its bytes, or the upload that
\* was told to store them.
LEMMA BehindStep ==
  ASSUME IInv, IInv', Agreement, BytesBehindRows, [Next]_vars,
         "put" \notin Faults, "cancel" \notin Faults
  PROVE  BytesBehindRows'
<1>. USE Procs
<1>0. /\ TypeOK /\ LocalsOK /\ Shape
      /\ objects \in [Digest -> ObjectRow \cup {None}] /\ None \notin ObjectRow
      /\ \A d \in Digest : objects[d] # None => objects[d].key \in Key
  BY TypesOfLocals, DataAssumption DEF IInv, TypeOK, ObjectRow
<1>1. ASSUME NEW u \in Upload, pc[u] = "put"
      PROVE  Stays(u) \/ (Put(u) /\ blobs' = [blobs EXCEPT ![held[u][part[u]]] = Sha(u)])
  BY <1>0, <1>1, LeaveStep DEF Cancel, Put, PutFails
<1>2. ASSUME NEW d \in Digest, objects[d] # None, NEW k \in Key, k = objects[d].key
      PROVE  blobs'[k] = d \/ \E u \in Upload : pc'[u] = "put" /\ held'[u][part'[u]] = k
  <2>1. Binds(k, d)
    BY <1>2 DEF Binds, RowsOf
  <2>2. ASSUME NEW u \in Upload, pc[u] = "put", held[u][part[u]] = k PROVE Sha(u) = d
    <3>1. Binds(k, Sha(u)) /\ Sha(u) \in Digest
      BY <1>0, <2>2, HeldBinds, ShaTyped DEF Owns, OwnPC, AcquirePC
    <3>. QED  BY <2>1, <3>1 DEF Agreement
  <2>3. CASE blobs[k] = d
    <3>1. d # None /\ RowsOf(k) # {}
      BY <1>2, DataAssumption DEF RowsOf
    <3>2. blobs'[k] # None
      BY <2>3, <3>1, ErasedIsUnlisted
    <3>. QED  BY <1>0, <2>2, <2>3, <3>2, BlobStep
  <2>4. ASSUME NEW u \in Upload, pc[u] = "put", held[u][part[u]] = k
        PROVE  blobs'[k] = d \/ (pc'[u] = "put" /\ held'[u][part'[u]] = k)
    <3>1. CASE Stays(u)
      BY <2>4, <3>1 DEF Stays
    <3>2. CASE blobs' = [blobs EXCEPT ![held[u][part[u]]] = Sha(u)]
      BY <1>0, <2>2, <2>4, <3>2 DEF TypeOK
    <3>. QED  BY <1>1, <2>4, <3>1, <3>2
  <2>. QED  BY <1>2, <2>3, <2>4 DEF BytesBehindRows
<1>3. ASSUME NEW d \in Digest, objects'[d] # None
      PROVE  \/ blobs'[objects'[d].key] = d
             \/ \E u \in Upload : pc'[u] = "put" /\ held'[u][part'[u]] = objects'[d].key
  <2>1. CASE SameRows
    BY <1>0, <1>2, <1>3, <2>1 DEF SameRows
  <2>2. ASSUME NEW u \in Upload, NEW k \in Key, Takes(u, k), objects[d] = None
        PROVE  pc'[u] = "put" /\ held'[u][part'[u]] = objects'[d].key
    <3>1. d = Sha(u) /\ Sha(u) \notin RowsOf(k)
      BY <1>0, <1>3, <2>2 DEF Takes, RowsOf
    <3>2. Inserts(u, k) /\ objects' = [objects EXCEPT ![Sha(u)] = [key |-> k, refcount |-> 1]]
      BY <2>2, <3>1 DEF Takes
    <3>3. objects'[d].key = k
      BY <1>0, <3>1, <3>2
    <3>. QED  BY <2>2, <3>2, <3>3 DEF Takes, Inserts
  <2>3. ASSUME NEW u \in Upload, NEW k \in Key, Takes(u, k), objects[d] # None
        PROVE  objects'[d].key = objects[d].key
    <3>1. ~\E p \in Proc : Purge(p)
      BY <1>0, <2>3 DEF Takes, Moves, LocalsOK, Purge, Goto
    <3>. QED  BY <2>3, <3>1, RowKeptStep
  <2>. QED  BY <1>0, <1>2, <2>1, <2>2, <2>3, RowStep
<1>. QED  BY <1>3 DEF BytesBehindRows

\* What is left of the failures that the service can roll back: bytes are listed or
\* about to be erased, rows that nothing refers to are about to be purged, and the
\* row of an upload that stores its bytes is not.
BytesListed ==
  \A k \in Key : blobs[k] # None =>
    RowsOf(k) # {} \/ \E p \in Proc : pc[p] = "erase" /\ held[p][part[p]] = k

ZeroPurged ==
  \A d \in Digest : objects[d] # None /\ objects[d].refcount = 0 =>
    \E p \in Proc : pc[p] = "purge" /\ held[p][part[p]] = objects[d].key

PutsListed ==
  \A u \in Upload : pc[u] = "put" =>
    /\ RowsOf(held[u][part[u]]) # {}
    /\ \A p \in Proc : pc[p] = "purge" => held[p][part[p]] # held[u][part[u]]

Cleanup == BytesListed /\ ZeroPurged /\ PutsListed

\* With such failures only, a purge is followed by an erasure, and nothing else.
LEMMA CleanLeaves ==
  ASSUME TypeOK, LocalsOK, Shape, [Next]_vars, Faults \subseteq {"put", "insert"}, NEW p \in Proc
  PROVE  /\ pc[p] = "purge" => Stays(p) \/ (Purge(p) /\ Keeps(p, "erase"))
         /\ pc[p] = "erase" => Stays(p) \/ Erase(p)
<1>1. ~Cancel(p) /\ ~StatementFails(p) /\ ~EraseFails(p)
  BY DEF Cancel, StatementFails, EraseFails
<1>. QED  BY <1>1, LeaveStep, PlainMoves

\* Bytes stay listed, or about to be erased.
LEMMA BytesListedStep ==
  ASSUME IInv, BytesListed, PutsListed, [Next]_vars, Faults \subseteq {"put", "insert"}
  PROVE  BytesListed'
<1>. USE Procs
<1>0. TypeOK /\ LocalsOK /\ Shape
  BY TypesOfLocals DEF IInv
<1>. SUFFICES ASSUME NEW k \in Key, blobs'[k] # None
              PROVE  \/ \E d \in Digest : objects'[d] # None /\ objects'[d].key = k
                     \/ \E p \in Proc : pc'[p] = "erase" /\ held'[p][part'[p]] = k
  BY DEF BytesListed, RowsOf
<1>1. ASSUME NEW d \in Digest, objects[d] # None, objects[d].key = k,
             ~(objects'[d] # None /\ objects'[d].key = k)
      PROVE  \E p \in Proc : pc'[p] = "erase" /\ held'[p][part'[p]] = k
  <2>1. PICK p \in Proc : Purge(p) /\ held[p][part[p]] = k
    BY <1>1, RowKeptStep
  <2>2. pc'[p] = "erase" /\ part'[p] = part[p] /\ held'[p] = held[p]
    BY <1>0, <2>1 DEF Purge, Goto, LocalsOK
  <2>. QED  BY <2>1, <2>2
<1>2. ASSUME NEW p \in Proc, pc[p] = "erase", held[p][part[p]] = k
      PROVE  pc'[p] = "erase" /\ held'[p][part'[p]] = k
  <2>1. ~Erase(p)
    BY <1>0, <1>2 DEF Erase, TypeOK
  <2>. QED  BY <1>0, <1>2, <2>1, CleanLeaves DEF Stays
<1>3. RowsOf(k) # {} \/ \E p \in Proc : pc[p] = "erase" /\ held[p][part[p]] = k
  BY <1>0, BlobStep DEF BytesListed, PutsListed
<1>. QED  BY <1>1, <1>2, <1>3 DEF RowsOf

\* A refcount falls to nothing with a release that goes on to purge the row.
LEMMA ZeroPurgedStep ==
  ASSUME IInv, ZeroPurged, [Next]_vars, Faults \subseteq {"put", "insert"}
  PROVE  ZeroPurged'
<1>. USE Procs
<1>0. /\ TypeOK /\ LocalsOK /\ Shape /\ Debts /\ Counts
      /\ objects \in [Digest -> ObjectRow \cup {None}]
      /\ \A d \in Digest : objects[d] # None => objects[d].refcount \in Nat
  BY TypesOfLocals, DataAssumption DEF IInv, TypeOK, ObjectRow
<1>. SUFFICES ASSUME NEW d \in Digest, objects'[d] # None, objects'[d].refcount = 0
              PROVE  \E p \in Proc : pc'[p] = "purge" /\ held'[p][part'[p]] = objects'[d].key
  BY DEF ZeroPurged
<1>. DEFINE Goal == \E p \in Proc : pc'[p] = "purge" /\ held'[p][part'[p]] = objects'[d].key
<1>1. ASSUME objects'[d] = objects[d] PROVE Goal
  <2>1. PICK p \in Proc : pc[p] = "purge" /\ held[p][part[p]] = objects[d].key
    BY <1>1 DEF ZeroPurged
  <2>2. ~Purge(p)
    <3>1. d \in RowsOf(held[p][part[p]])
      BY <1>1, <2>1 DEF RowsOf
    <3>. QED  BY <3>1 DEF Purge
  <2>. QED  BY <1>0, <1>1, <2>1, <2>2, CleanLeaves DEF Stays
<1>2. ASSUME NEW u \in Upload, NEW k \in Key, Takes(u, k) PROVE Goal
  <2>1. CASE d # Sha(u)
    BY <1>0, <1>1, <1>2, <2>1 DEF Takes
  <2>2. CASE d = Sha(u) /\ objects[d] = None
    <3>1. objects' = [objects EXCEPT ![d] = [key |-> k, refcount |-> 1]]
      BY <1>2, <2>2 DEF Takes, RowsOf
    <3>. QED  BY <1>0, <3>1
  <2>3. CASE d = Sha(u) /\ objects[d] # None
    <3>1. objects' = [objects EXCEPT ![d].refcount = @ + 1]
      BY <1>2, <2>3 DEF Takes
    <3>2. objects'[d].refcount = objects[d].refcount + 1
      BY <1>0, <2>3, <3>1 DEF ObjectRow
    <3>. QED  BY <1>0, <2>3, <3>2
  <2>. QED  BY <2>1, <2>2, <2>3
<1>3. ASSUME NEW p \in Proc, Release(p) PROVE Goal
  <2>. DEFINE k == held[p][part[p]]
  <2>1. /\ pc[p] = "release"
        /\ objects'[d] = IF d \in RowsOf(k) THEN [objects[d] EXCEPT !.refcount = @ - 1] ELSE objects[d]
        /\ (\E e \in RowsOf(k) : objects[e].refcount <= 1) => Goto(p, "purge") /\ UNCHANGED held
    BY <1>3 DEF Release
  <2>2. CASE d \in RowsOf(k)
    <3>1. objects[d] \in ObjectRow /\ objects[d].refcount \in Nat /\ objects[d].key = k
      BY <1>0, <2>1, <2>2, HeldIsCounted DEF RowsOf
    <3>2. objects'[d].key = k /\ objects'[d].refcount = objects[d].refcount - 1
      BY <2>1, <2>2, <3>1 DEF ObjectRow
    <3>3. objects[d].refcount <= 1
      BY <3>1, <3>2
    <3>4. Goto(p, "purge") /\ UNCHANGED held
      BY <2>1, <2>2, <3>3
    <3>. QED  BY <1>0, <3>2, <3>4 DEF Goto, LocalsOK
  <2>3. CASE d \notin RowsOf(k)
    BY <1>1, <2>1, <2>3
  <2>. QED  BY <2>2, <2>3
<1>4. ASSUME NEW p \in Proc, Purge(p) PROVE Goal
  BY <1>1, <1>4 DEF Purge
<1>. QED  BY <1>0, <1>1, <1>2, <1>3, <1>4, TableStep

\* Two references make a count of two at least.
LEMMA TwoHolders ==
  ASSUME NEW k \in Key, NEW r \in Holders(k), NEW t \in Holders(k), r # t
  PROVE  Cardinality(Holders(k)) > 1
<1>. DEFINE others == Holders(k) \ {r}
<1>1. IsFiniteSet(Holders(k)) /\ Cardinality(Holders(k)) \in Nat
  BY HoldersFinite
<1>2. IsFiniteSet(others) /\ Cardinality(others) = Cardinality(Holders(k)) - 1
  BY <1>1, FS_RemoveElement
<1>3. others # {}
  OBVIOUS
<1>4. Cardinality(others) \in Nat /\ Cardinality(others) # 0
  BY <1>2, <1>3, FS_EmptySet, FS_CardinalityType
<1>. QED  BY <1>1, <1>2, <1>4

\* Nobody purges the row of an upload that still stores its bytes: the upload's own
\* reference is counted on it.
LEMMA PutsListedStep ==
  ASSUME IInv, IInv', PutsListed, [Next]_vars, Faults \subseteq {"put", "insert"}
  PROVE  PutsListed'
<1>. USE Procs
<1>0. /\ TypeOK /\ LocalsOK /\ Shape /\ Ownership /\ Freshness /\ Debts /\ Counts
      /\ objects \in [Digest -> ObjectRow \cup {None}]
  BY TypesOfLocals DEF IInv, TypeOK
<1>. SUFFICES ASSUME NEW u \in Upload, pc'[u] = "put"
              PROVE  /\ \E d \in Digest : objects'[d] # None /\ objects'[d].key = held'[u][part'[u]]
                     /\ \A p \in Proc : pc'[p] = "purge" => held'[p][part'[p]] # held'[u][part'[u]]
  BY DEF PutsListed, RowsOf
<1>1. CASE Stays(u)
  <2>. DEFINE k == held[u][part[u]]
  <2>1. pc[u] = "put" /\ held'[u][part'[u]] = k /\ part[u] \in Part /\ k # None /\ k \in Key
    BY <1>0, <1>1 DEF Stays, LocalsOK, Shape, ShapeOf
  <2>2. PICK d \in Digest : objects[d] # None /\ objects[d].key = k
    BY <2>1 DEF PutsListed, RowsOf
  <2>3. objects'[d] # None /\ objects'[d].key = k
    <3>1. \A p \in Proc : Purge(p) => held[p][part[p]] # k
      BY <2>1 DEF Purge, PutsListed
    <3>. QED  BY <2>2, <3>1, RowKeptStep
  <2>4. <<part[u], core[u]>> \in Holders(k)
    <3>1. Owns(u) /\ ~Releasing(u, part[u]) /\ <<part[u], core[u]>> \in Key
      BY <1>0, <2>1, Keys DEF Owns, OwnPC, Releasing, Shape, ShapeOf
    <3>. QED  BY <1>0, <2>1, <3>1 DEF Debts, Holders
  <2>5. ASSUME NEW p \in Proc, Release(p), Keeps(p, "purge"), held[p][part[p]] = k PROVE FALSE
    <3>1. pc[p] = "release" /\ p # u /\ d \in RowsOf(held[p][part[p]])
      BY <2>1, <2>2, <2>5 DEF Release, RowsOf
    <3>2. objects[d].refcount = Cardinality(Holders(k)) /\ <<part[p], core[p]>> \in Holders(k)
      BY <1>0, <2>5, <3>1, HeldIsCounted
    <3>3. core[p] # core[u]
      BY <1>0, <2>1, <3>1 DEF Ownership, Owns, OwnPC
    <3>4. objects[d].refcount > 1
      BY <2>1, <2>4, <3>2, <3>3, TwoHolders
    <3>5. \A e \in RowsOf(k) : e = d
      BY <1>0, <2>2 DEF Counts, RowsOf
    <3>6. ~\E e \in RowsOf(k) : objects[e].refcount <= 1
      <4>1. objects[d].refcount \in Nat
        BY <1>0, <2>5, <3>1, HeldIsCounted
      <4>. QED  BY <3>4, <3>5, <4>1
    <3>7. NextPart(p)
      BY <2>5, <3>6 DEF Release
    <3>. QED  BY <1>0, <2>5, <3>7, NextPartMoves DEF Keeps, Goes, Returns
  <2>6. ASSUME NEW p \in Proc, pc'[p] = "purge" PROVE held'[p][part'[p]] # k
    <3>1. CASE Stays(p)
      BY <2>1, <2>6, <3>1 DEF Stays, PutsListed
    <3>2. CASE Release(p) /\ Keeps(p, "purge")
      <4>1. held'[p][part'[p]] = held[p][part[p]]
        BY <1>0, <3>2, Keys DEF Keeps, Goes, LocalsOK
      <4>. QED  BY <2>5, <3>2, <4>1
    <3>. QED  BY <1>0, <2>6, <3>1, <3>2, ArriveStep
  <2>. QED  BY <2>1, <2>3, <2>6
<1>2. ASSUME NEW k \in Key, InsertObject(u), Takes(u, k), Inserts(u, k)
      PROVE  /\ \E d \in Digest : objects'[d] # None /\ objects'[d].key = held'[u][part'[u]]
             /\ \A p \in Proc : pc'[p] = "purge" => held'[p][part'[p]] # held'[u][part'[u]]
  <2>1. Sha(u) \in Digest /\ objects[Sha(u)] = None /\ pc[u] = "acquire" /\ k = <<part[u], core[u]>>
    BY <1>2 DEF InsertObject, Takes, Inserts
  <2>2. objects' = [objects EXCEPT ![Sha(u)] = [key |-> k, refcount |-> 1]]
    BY <1>2, <2>1 DEF Takes, RowsOf
  <2>3. held'[u][part'[u]] = k /\ part[u] \in Part
    BY <1>0, <1>2 DEF Takes, Inserts, LocalsOK
  <2>4. objects'[Sha(u)] # None /\ objects'[Sha(u)].key = k
    <3>1. [key |-> k, refcount |-> 1] \in ObjectRow
      BY DEF ObjectRow
    <3>. QED  BY <1>0, <2>1, <2>2, <3>1, DataAssumption
  <2>5. Unknown(k)
    BY <1>0, <2>1 DEF Freshness, Fresh
  <2>6. ASSUME NEW p \in Proc, pc'[p] = "purge" PROVE held'[p][part'[p]] # k
    <3>1. pc[p] = "purge" /\ held'[p] = held[p] /\ part'[p] = part[p] /\ part[p] \in Part
      BY <1>0, <1>2, <2>6 DEF Takes, Inserts, Moves, LocalsOK
    <3>. QED  BY <2>5, <3>1 DEF Unknown, Owns, OwnPC
  <2>. QED  BY <2>1, <2>3, <2>4, <2>6
<1>. QED  BY <1>0, <1>1, <1>2, ArriveStep

\* A remover that is at the thumbnail has dealt with the file.
RemoversFit == \A p \in Remover : part[p] = "thumb" => held[p]["file"] = None

\* p answers for the reference x of its core, which is counted.
Owes(p, x) == Owns(p) /\ held[p][x] # None /\ ~Releasing(p, x)

\* A counted reference is a file's, or somebody answers for it.
Owed ==
  \A x \in Part, c \in Core : debt[<<x, c>>] # None =>
    \/ files[c] # None /\ KeyAs(x, files[c]) # None
    \/ \E p \in Proc : core[p] = c /\ Owes(p, x)

\* Only the DELETE of remove_file takes a row of files away.
LEMMA RemovedStep ==
  ASSUME TypeOK, LocalsOK, Shape, [Next]_vars, NEW c \in Core, files[c] # None, files'[c] = None
  PROVE  \E p \in Remover : RemoveRow(p) /\ core[p] = c
<1>. DEFINE Goal == \E p \in Remover : RemoveRow(p) /\ core[p] = c
<1>0. files \in [Core -> FileRow \cup {None}] /\ None \notin FileRow
  BY DataAssumption DEF TypeOK
<1>1. ASSUME NEW u \in Upload, UploadStep(u) PROVE FALSE
  <2>1. CASE InsertFile(u)
    BY <1>0, <2>1, InsertFilePublishes DEF Publishes
  <2>2. CASE ~InsertFile(u)
    BY <1>1, <2>2 DEF UploadStep, ClaimCore, ClaimFails, InsertObject, ConflictObject, BumpObject,
                      BumpMisses, Put, PutFails, InsertFails
  <2>. QED  BY <2>1, <2>2
<1>2. ASSUME NEW p \in Proc, ReleaseStep(p) \/ Cancel(p) PROVE FALSE
  BY <1>2 DEF ReleaseStep, Release, Purge, Erase, EraseFails, StatementFails, Cancel
<1>3. ASSUME NEW p \in Remover, RemoveStep(p) \/ FindFile(p) \/ LoadLiveFile(p) \/ Collect(p) PROVE Goal
  <2>1. CASE RemoveRow(p)
    <3>1. files' = [files EXCEPT ![core[p]] = None]
      BY <2>1 DEF RemoveRow
    <3>. QED  BY <1>0, <2>1, <3>1
  <2>2. CASE ~RemoveRow(p)
    BY <1>3, <2>2 DEF RemoveStep, RowGone, FindFile, LoadLiveFile, Collect
  <2>. QED  BY <2>1, <2>2
<1>4. ASSUME SweepScan \/ SweepNext \/ UNCHANGED vars PROVE FALSE
  BY <1>4 DEF SweepScan, SweepNext, vars
<1>5. ASSUME NEW e \in Core, Expire(e) PROVE FALSE
  <2>1. files[e] # None /\ files' = [files EXCEPT ![e].expires = "passed"]
    BY <1>5 DEF Expire
  <2>2. [files[e] EXCEPT !.expires = "passed"] \in FileRow
    BY <1>0, <2>1 DEF FileRow, Expiry
  <2>. QED  BY <1>0, <2>1, <2>2
<1>. QED
  BY <1>1, <1>2, <1>3, <1>4, <1>5, Procs DEF Next, Quiet

\* Going on to the thumbnail, a remover lets go of the file.
LEMMA RemoversFitStep ==
  ASSUME TypeOK, LocalsOK, Shape, RemoversFit, [Next]_vars
  PROVE  RemoversFit'
<1>. USE Procs
<1>. SUFFICES ASSUME NEW p \in Remover, part'[p] = "thumb" PROVE held'[p]["file"] = None
  BY DEF RemoversFit
<1>. DEFINE Goal == held'[p]["file"] = None
<1>1. ASSUME UNCHANGED local PROVE Goal
  BY <1>1 DEF local, RemoversFit
<1>2. ASSUME NEW q \in Proc, Moves(q), p # q PROVE Goal
  BY <1>2 DEF Moves, RemoversFit
<1>3. ASSUME NEW n, Keeps(p, n) PROVE Goal
  BY <1>3 DEF Keeps, Goes, RemoversFit
<1>4. ~Returns(p)
  BY Keys DEF Returns
<1>5. ASSUME GoesOn(p) PROVE Goal
  BY <1>4, <1>5 DEF GoesOn, Goes
<1>6. ASSUME ReleaseStep(p) \/ Cancel(p) PROVE Goal
  <2>1. Cancel(p) => Returns(p)
    BY PlainMoves
  <2>2. p \notin Upload
    OBVIOUS
  <2>3. StatementFails(p) => GoesOn(p) \/ Returns(p)
    BY <2>2, StatementFailsMoves
  <2>4. ReleaseStep(p) => GoesOn(p) \/ Returns(p) \/ \E n \in PC : Keeps(p, n)
    BY <2>3, PlainMoves DEF ReleaseStep, PC
  <2>. QED  BY <1>3, <1>4, <1>5, <1>6, <2>1, <2>4
<1>7. ASSUME FindFile(p) \/ LoadLiveFile(p) PROVE FALSE
  BY <1>7, FindFileMoves, Keys DEF Shape, ShapeOf
<1>8. ASSUME RemoveStep(p) PROVE FALSE
  <2>1. part[p] = "file"
    BY <1>8 DEF RemoveStep, RemoveRow, RowGone, Shape, ShapeOf
  <2>2. part'[p] = "file"
    BY <1>8, <2>1, RemoveRowMoves, PlainMoves DEF RemoveStep, Goes, Returns
  <2>. QED  BY <2>2, Keys
<1>9. ASSUME Collect(p) PROVE Goal
  BY <1>3, <1>4, <1>9, PlainMoves
<1>10. ASSUME p = Sweeper, SweepNext PROVE FALSE
  BY <1>10, SweepNextMoves, Keys DEF Shape, ShapeOf
<1>11. p \notin Upload
  OBVIOUS
<1>. QED  BY <1>1, <1>2, <1>6, <1>7, <1>8, <1>9, <1>10, <1>11, MoverStep DEF StepOf

\* Who answers for a reference goes on to do so, releases it, or publishes it.
LEMMA OweStep ==
  ASSUME IInv, RemoversFit, [Next]_vars, Faults \subseteq {"put", "insert"},
         NEW p \in Proc, NEW x \in Part, Owes(p, x)
  PROVE  \/ Owes(p, x)' /\ core'[p] = core[p]
         \/ Frees(p) /\ part[p] = x
         \/ p \in Upload /\ InsertFile(p)
<1>. USE Procs
<1>. DEFINE Goal == \/ Owes(p, x)' /\ core'[p] = core[p]
                    \/ Frees(p) /\ part[p] = x
                    \/ p \in Upload /\ InsertFile(p)
<1>0. /\ TypeOK /\ LocalsOK /\ Shape /\ Freshness
      /\ x = "file" \/ x = "thumb"
      /\ part[p] = "file" \/ part[p] = "thumb"
  BY TypesOfLocals, Keys DEF IInv, LocalsOK
<1>1. ASSUME UNCHANGED local PROVE Goal
  BY <1>1 DEF local, Owes, Owns, Releasing
<1>2. ASSUME NEW q \in Proc, Moves(q), p # q PROVE Goal
  BY <1>2 DEF Moves, Owes, Owns, Releasing
<1>3. ASSUME NEW n \in {"bump", "put", "insert", "release"}, Keeps(p, n) PROVE Goal
  BY <1>0, <1>3, Keys DEF Keeps, Goes, Owes, Owns, OwnPC, Releasing
<1>4. ASSUME NEW n \in {"purge", "erase"}, Keeps(p, n), x # part[p] PROVE Goal
  BY <1>0, <1>4, Keys DEF Keeps, Goes, Owes, Owns, OwnPC, Releasing
<1>5. ASSUME p \in Upload, GivesUp(p), pc[p] \in {"acquire", "bump"} PROVE Goal
  <2>1. CASE part[p] = "thumb" /\ Keeps(p, "insert")
    BY <1>3, <2>1
  <2>2. CASE part[p] = "file"
    BY <1>0, <1>5, <2>2 DEF Freshness, AcquirePC, Owes
  <2>. QED  BY <1>5, <2>1, <2>2 DEF GivesUp
<1>6. ASSUME p \in Upload, NEW k \in Key, Acquires(p, k) PROVE Goal
  BY <1>0, <1>6, Keys DEF Acquires, Goes, Pick, Owes, Owns, OwnPC, Releasing
<1>7. ASSUME p \in Upload, InsertObject(p) PROVE Goal
  <2>1. CASE GivesUp(p)
    BY <1>5, <1>7, <2>1 DEF InsertObject
  <2>2. ASSUME NEW k \in Key,
               Goes(p, "put", part[p], Pick(p, k, held[p]["file"]), Pick(p, held[p]["thumb"], k))
        PROVE  Goal
    BY <1>0, <2>2, Keys DEF Goes, Pick, Owes, Owns, OwnPC, Releasing
  <2>. QED  BY <1>0, <1>7, <2>1, <2>2, InsertObjectMoves
<1>8. ASSUME p \in Upload, UploadStep(p) PROVE Goal
  <2>1. ClaimCore(p) \/ ClaimFails(p) => FALSE
    BY DEF ClaimCore, ClaimFails, Owes, Owns, OwnPC
  <2>2. BumpObject(p) => Goal
    BY <1>0, <1>6, <1>8, BumpObjectMoves
  <2>3. Put(p) => Goal
    BY <1>0, <1>6, <1>8, PutMoves
  <2>4. BumpMisses(p) => Goal
    BY <1>0, <1>5, <1>8, PlainMoves DEF BumpMisses
  <2>5. ConflictObject(p) \/ PutFails(p) => Goal
    BY <1>0, <1>3, PlainMoves
  <2>6. InsertFails(p) => Goal
    BY <1>0, PlainMoves, Keys DEF Goes, Owes, Owns, OwnPC, Releasing
  <2>. QED  BY <1>7, <1>8, <2>1, <2>2, <2>3, <2>4, <2>5, <2>6 DEF UploadStep
<1>9. ASSUME NextPart(p), x # part[p] PROVE Goal
  <2>1. held[p][x] # None
    BY DEF Owes
  <2>2. CASE part[p] = "file" /\ x = "thumb"
    <3>1. /\ pc' = [pc EXCEPT ![p] = "release"] /\ part' = [part EXCEPT ![p] = "thumb"]
          /\ held' = [held EXCEPT ![p]["file"] = None] /\ UNCHANGED core
      BY <1>9, <2>1, <2>2 DEF NextPart
    <3>. QED  BY <1>0, <2>1, <2>2, <3>1, Keys DEF LocalsOK, Owes, Owns, OwnPC, Releasing
  <2>3. CASE part[p] = "thumb" /\ x = "file"
    <3>1. p \in Upload
      BY <2>1, <2>3 DEF RemoversFit
    <3>2. /\ pc' = [pc EXCEPT ![p] = "insert"]
          /\ held' = [held EXCEPT ![p]["thumb"] = None] /\ UNCHANGED <<core, part>>
      BY <1>9, <2>1, <2>3, <3>1, Keys DEF NextPart
    <3>. QED  BY <1>0, <2>1, <2>3, <3>2, Keys DEF LocalsOK, Owes, Owns, OwnPC, Releasing
  <2>. QED  BY <1>0, <1>9, <2>2, <2>3
<1>10. ASSUME ReleaseStep(p) \/ Cancel(p) PROVE Goal
  <2>1. ~Cancel(p) /\ ~StatementFails(p) /\ ~EraseFails(p)
    BY DEF Cancel, StatementFails, EraseFails
  <2>2. Release(p) => Goal
    <3>1. Release(p) => Frees(p)
      BY <1>0, ReleaseFrees
    <3>2. Release(p) => (Goto(p, "purge") /\ UNCHANGED held) \/ NextPart(p)
      BY DEF Release
    <3>3. Goto(p, "purge") /\ UNCHANGED held => Keeps(p, "purge")
      BY <1>0, GotoMoves DEF Keeps, PC
    <3>. QED  BY <1>4, <1>9, <3>1, <3>2, <3>3
  <2>3. Purge(p) => Goal
    BY <1>0, <1>4, PlainMoves DEF Purge, Owes, Releasing
  <2>4. Erase(p) => Goal
    BY <1>9 DEF Erase, Owes, Releasing
  <2>. QED  BY <1>10, <2>1, <2>2, <2>3, <2>4 DEF ReleaseStep
<1>11. ASSUME p \in Remover, RemoveStep(p) \/ FindFile(p) \/ LoadLiveFile(p) \/ Collect(p)
       PROVE  FALSE
  BY <1>11 DEF RemoveStep, RemoveRow, RowGone, FindFile, LoadLiveFile, Collect, Owes, Owns, OwnPC
<1>12. ASSUME p = Sweeper, SweepNext PROVE FALSE
  BY <1>12 DEF SweepNext, Owes, Owns, OwnPC
<1>. QED  BY <1>0, <1>1, <1>2, <1>8, <1>10, <1>11, <1>12, MoverStep DEF StepOf

\* Every counted reference stays somebody's to give back.
LEMMA OwedStep ==
  ASSUME IInv, RemoversFit, Owed, [Next]_vars, Faults \subseteq {"put", "insert"}
  PROVE  Owed'
<1>. USE Procs
<1>0. /\ TypeOK /\ LocalsOK /\ Shape /\ Ownership /\ debt \in [Key -> Key \cup {None}]
      /\ files \in [Core -> FileRow \cup {None}] /\ None \notin FileRow
  BY TypesOfLocals, DataAssumption DEF IInv, TypeOK
<1>. SUFFICES ASSUME NEW x \in Part, NEW c \in Core, debt'[<<x, c>>] # None
              PROVE  \/ files'[c] # None /\ KeyAs(x, files'[c]) # None
                     \/ \E p \in Proc : core'[p] = c /\ Owes(p, x)'
  BY DEF Owed, KeyAs
<1>. DEFINE Goal == \/ files'[c] # None /\ KeyAs(x, files'[c]) # None
                    \/ \E p \in Proc : core'[p] = c /\ Owes(p, x)'
<1>1. ASSUME NEW p \in Proc, Frees(p), part[p] = x, core[p] = c PROVE FALSE
  BY <1>0, <1>1, Keys DEF Frees
<1>2. ASSUME NEW u \in Proc, NEW k \in Key, Takes(u, k), part[u] = x, core[u] = c PROVE Goal
  BY <1>2, Keys DEF Takes, Owes, Owns, OwnPC, Releasing
<1>3. ASSUME files[c] # None, KeyAs(x, files[c]) # None PROVE Goal
  <2>1. CASE files'[c] = None
    <3>1. PICK p \in Remover : RemoveRow(p) /\ core[p] = c
      BY <1>0, <1>3, <2>1, RemovedStep
    <3>2. Goes(p, "release", part[p], files[c].key, files[c].thumb)
      BY <1>0, <3>1, RemoveRowMoves
    <3>. QED  BY <1>3, <3>1, <3>2, Keys DEF Goes, KeyAs, Owes, Owns, OwnPC, Releasing
  <2>2. CASE files'[c] # None
    <3>1. ASSUME NEW u \in Upload, Claims(u) PROVE files'[c] = files[c]
      BY <3>1 DEF Claims
    <3>2. ASSUME NEW u \in Upload, Publishes(u) PROVE files'[c] = files[c]
      BY <1>0, <1>3, <3>2 DEF Publishes, Ownership
    <3>3. ASSUME NEW p \in Remover, Retires(p) PROVE files'[c] = files[c]
      BY <1>0, <2>2, <3>3 DEF Retires
    <3>4. ASSUME SameFiles PROVE KeyAs(x, files'[c]) = KeyAs(x, files[c])
      <4>1. CASE files'[c] = [files[c] EXCEPT !.expires = "passed"]
        BY <1>0, <1>3, <4>1 DEF KeyAs, FileRow
      <4>. QED  BY <3>4, <4>1 DEF SameFiles
    <3>5. KeyAs(x, files'[c]) = KeyAs(x, files[c])
      BY <1>0, <3>1, <3>2, <3>3, <3>4, OwnerStep
    <3>. QED  BY <1>3, <2>2, <3>5
  <2>. QED  BY <2>1, <2>2
<1>4. ASSUME NEW p \in Proc, core[p] = c, Owes(p, x) PROVE Goal
  <2>1. CASE p \in Upload /\ InsertFile(p)
    <3>1. PICK row \in FileRow :
            /\ files' = [files EXCEPT ![c] = row]
            /\ row.key = held[p]["file"] /\ row.thumb = held[p]["thumb"]
      BY <1>0, <1>4, <2>1, InsertFilePublishes DEF Publishes
    <3>2. files'[c] = row /\ row # None
      BY <1>0, <3>1
    <3>3. KeyAs(x, row) = held[p][x] /\ held[p][x] # None
      BY <1>4, <3>1, Keys DEF KeyAs, Owes
    <3>. QED  BY <3>2, <3>3
  <2>. QED  BY <1>1, <1>4, <2>1, OweStep
<1>5. CASE debt'[<<x, c>>] = debt[<<x, c>>]
  BY <1>3, <1>4, <1>5 DEF Owed
<1>6. CASE debt'[<<x, c>>] # debt[<<x, c>>]
  BY <1>0, <1>1, <1>2, <1>6, SlotStep
<1>. QED  BY <1>5, <1>6

\* When nothing is under way the references that are counted are those of the files.
LEMMA QuietReferences ==
  ASSUME IInv, Owed, \A p \in Proc : ~Underway(p), NEW k \in Key
  PROVE  References(k) = Holders(k)
<1>0. Debts /\ k # None /\ \A p \in Proc : ~Owns(p)
  BY Keys DEF IInv, Owns, OwnPC, Underway
<1>1. ASSUME NEW x \in Part, NEW c \in Core
      PROVE  <<x, c>> \in Holders(k) <=> files[c] # None /\ KeyAs(x, files[c]) = k
  <2>1. files[c] # None /\ KeyAs(x, files[c]) # None => debt[<<x, c>>] = KeyAs(x, files[c])
    BY <1>0, Keys DEF Debts, KeyAs
  <2>2. debt[<<x, c>>] # None => files[c] # None /\ KeyAs(x, files[c]) # None
    BY <1>0 DEF Owed, Owes
  <2>. QED  BY <1>0, <2>1, <2>2, Keys DEF Holders
<1>2. ASSUME NEW x \in Part, NEW c \in Core
      PROVE  <<x, c>> \in References(k) <=> files[c] # None /\ KeyAs(x, files[c]) = k
  BY Keys DEF References, KeyAs
<1>3. ASSUME NEW r \in Key PROVE r \in References(k) <=> r \in Holders(k)
  <2>1. PICK x \in Part, c \in Core : r = <<x, c>>
    BY DEF Key
  <2>. QED  BY <1>1, <1>2, <2>1
<1>. QED  BY <1>3 DEF References, Holders

-----------------------------------------------------------------------------
(***************************************************************************)
(* What an upload has stored under a key of its own stays: its reference   *)
(* is counted on that key, so no release of another one reaches zero.      *)
(***************************************************************************)
\* A reference counted on its own key has a row, which nobody is about to delete.
OwnRows ==
  /\ \A k \in Key : debt[k] = k => RowsOf(k) # {}
  /\ \A p \in Proc : pc[p] = "purge" => debt[held[p][part[p]]] # held[p][part[p]]

\* The upload is past the PUT of its reference x, and does not give it back.
HasStored(u, x) == pc[u] = "insert" \/ (Owns(u) /\ part[u] = "thumb" /\ x = "file")

\* The references that are published, or stored and not yet published.
UploadKeeps(x, c) ==
  \E u \in Upload : core[u] = c /\ HasStored(u, x) /\ held[u][x] = <<x, c>>

Keeping(x, c) ==
  (files[c] # None /\ KeyAs(x, files[c]) = <<x, c>>) \/ UploadKeeps(x, c)

OwnBytes == \A x \in Part, c \in Core : Keeping(x, c) => blobs[<<x, c>>] # None

\* Who keeps a reference has it counted on its own key.
LEMMA KeepingIsCounted ==
  ASSUME IInv, NEW x \in Part, NEW c \in Core, Keeping(x, c)
  PROVE  debt[<<x, c>>] = <<x, c>>
<1>0. Debts /\ Ownership /\ <<x, c>> # None /\ (x = "file" \/ x = "thumb")
  BY Keys DEF IInv
<1>1. CASE files[c] # None /\ KeyAs(x, files[c]) = <<x, c>>
  BY <1>0, <1>1 DEF Debts, KeyAs
<1>2. ASSUME NEW u \in Upload, core[u] = c, HasStored(u, x), held[u][x] = <<x, c>>
      PROVE  debt[<<x, c>>] = <<x, c>>
  <2>1. Owns(u) /\ ~Releasing(u, x)
    BY <1>2, Keys DEF HasStored, Owns, OwnPC, Releasing
  <2>. QED  BY <1>0, <1>2, <2>1, Procs DEF Debts
<1>. QED  BY <1>1, <1>2 DEF Keeping, UploadKeeps

\* A reference comes to be counted on its own key by the INSERT of that key's row.
LEMMA OwnTaken ==
  ASSUME IInv, [Next]_vars, NEW k \in Key, debt'[k] = k, debt[k] # k
  PROVE  RowsOf(k)' # {} /\ Unknown(k)
<1>0. /\ TypeOK /\ LocalsOK /\ Shape /\ Freshness /\ debt \in [Key -> Key \cup {None}]
      /\ objects \in [Digest -> ObjectRow \cup {None}] /\ None \notin ObjectRow /\ k # None
  BY TypesOfLocals, DataAssumption, Keys DEF IInv, TypeOK
<1>1. PICK u \in Upload, l \in Key : Takes(u, l)
  BY <1>0, DebtStep DEF Frees
<1>2. <<part[u], core[u]>> = k /\ l = k
  BY <1>0, <1>1 DEF Takes
<1>3. Unknown(k)
  BY <1>0, <1>1, <1>2 DEF Takes, Freshness, Fresh
<1>4. /\ objects' = [objects EXCEPT ![Sha(u)] = [key |-> k, refcount |-> 1]]
      /\ Sha(u) \in Digest
  BY <1>1, <1>2, <1>3 DEF Takes, Unknown, RowsOf
<1>5. objects'[Sha(u)] = [key |-> k, refcount |-> 1] /\ [key |-> k, refcount |-> 1] \in ObjectRow
  BY <1>0, <1>4 DEF ObjectRow
<1>6. Sha(u) \in RowsOf(k)'
  BY <1>0, <1>4, <1>5 DEF RowsOf
<1>. QED  BY <1>3, <1>6

\* Whoever else gives back a reference to a key leaves the key's own one counted.
LEMMA OthersRelease ==
  ASSUME IInv, OwnRows, NEW p \in Proc, Release(p), Keeps(p, "purge"), NEW k \in Key,
         held[p][part[p]] = k, debt[k] = k, <<part[p], core[p]>> # k
  PROVE  FALSE
<1>0. /\ TypeOK /\ LocalsOK /\ Shape /\ Debts /\ Counts /\ pc[p] = "release"
  BY TypesOfLocals DEF IInv, Release
<1>1. PICK d \in Digest : d \in RowsOf(k) /\ objects[d] # None /\ objects[d].key = k
  BY DEF OwnRows, RowsOf
<1>2. /\ objects[d].refcount = Cardinality(Holders(k)) /\ <<part[p], core[p]>> \in Holders(k)
      /\ objects[d].refcount \in Nat
  BY <1>0, <1>1, HeldIsCounted
<1>3. objects[d].refcount > 1
  BY <1>2, TwoHolders DEF Holders
<1>4. \A e \in RowsOf(k) : e = d
  BY <1>0, <1>1 DEF Counts, RowsOf
<1>5. ~\E e \in RowsOf(k) : objects[e].refcount <= 1
  BY <1>2, <1>3, <1>4
<1>6. NextPart(p)
  BY <1>5 DEF Release
<1>. QED  BY <1>0, <1>6, NextPartMoves DEF Keeps, Goes, Returns

\* The row of such a reference stays, and is purged only once it is given back.
LEMMA OwnRowsStep ==
  ASSUME IInv, OwnRows, [Next]_vars
  PROVE  OwnRows'
<1>0. /\ TypeOK /\ LocalsOK /\ Shape /\ debt \in [Key -> Key \cup {None}]
  BY TypesOfLocals DEF IInv, TypeOK
<1>1. ASSUME NEW k \in Key, debt'[k] = k PROVE RowsOf(k)' # {}
  <2>1. CASE debt[k] = k
    <3>1. PICK d \in Digest : objects[d] # None /\ objects[d].key = k
      BY <2>1 DEF OwnRows, RowsOf
    <3>2. \A p \in Proc : Purge(p) => held[p][part[p]] # k
      BY <2>1 DEF OwnRows, Purge
    <3>3. objects'[d] # None /\ objects'[d].key = k
      BY <3>1, <3>2, RowKeptStep
    <3>. QED  BY <3>3 DEF RowsOf
  <2>2. CASE debt[k] # k
    BY <1>1, <2>2, OwnTaken
  <2>. QED  BY <2>1, <2>2
<1>2. ASSUME NEW p \in Proc, pc'[p] = "purge" PROVE debt'[held'[p][part'[p]]] # held'[p][part'[p]]
  <2>. DEFINE k == held[p][part[p]]
  <2>. SUFFICES ASSUME debt'[held'[p][part'[p]]] = held'[p][part'[p]] PROVE FALSE
    OBVIOUS
  <2>1. CASE Stays(p)
    <3>1. pc[p] = "purge" /\ held'[p][part'[p]] = k /\ k \in Key /\ part[p] \in Part
      BY <1>0, <1>2, <2>1 DEF Stays, LocalsOK, Shape, ShapeOf
    <3>2. Unknown(k)
      BY <3>1, OwnTaken DEF OwnRows
    <3>. QED  BY <3>1, <3>2 DEF Unknown, Owns, OwnPC
  <2>2. CASE Release(p) /\ Keeps(p, "purge")
    <3>1. /\ pc[p] = "release" /\ held'[p][part'[p]] = k /\ k \in Key
          /\ <<part[p], core[p]>> \in Key
      BY <1>0, <2>2, Keys DEF Release, Keeps, Goes, LocalsOK, Shape, ShapeOf
    <3>2. debt' = [debt EXCEPT ![<<part[p], core[p]>>] = None]
      BY <2>2 DEF Release
    <3>3. debt[k] = k /\ <<part[p], core[p]>> # k
      BY <1>0, <3>1, <3>2, Keys
    <3>. QED  BY <2>2, <3>1, <3>3, OthersRelease
  <2>. QED  BY <1>0, <1>2, <2>1, <2>2, ArriveStep
<1>. QED  BY <1>1, <1>2 DEF OwnRows

\* How an upload comes to have stored a reference: by its PUT, or by sharing another's key.
LEMMA HasStoredStep ==
  ASSUME IInv, [Next]_vars, NEW u \in Upload, NEW x \in Part,
         HasStored(u, x)', held'[u][x] = <<x, core'[u]>>
  PROVE  /\ core'[u] = core[u] /\ core[u] \in Core
         /\ \/ HasStored(u, x) /\ held[u][x] = <<x, core[u]>>
            \/ Put(u) /\ held[u][part[u]] = <<x, core[u]>>
<1>. USE Procs
<1>. DEFINE Before == HasStored(u, x) /\ held[u][x] = <<x, core[u]>>
            Puts == Put(u) /\ held[u][part[u]] = <<x, core[u]>>
            Goal == core'[u] = core[u] /\ (Before \/ Puts)
<1>0. /\ TypeOK /\ LocalsOK /\ Shape /\ Freshness /\ x \in {"file", "thumb"}
      /\ part[u] \in {"file", "thumb"}
  BY TypesOfLocals, Keys DEF IInv, LocalsOK
<1>1. ASSUME UNCHANGED local PROVE Goal
  BY <1>1 DEF local, HasStored, Owns
<1>2. ASSUME NEW p \in Proc, Moves(p), p # u PROVE Goal
  BY <1>2 DEF Moves, HasStored, Owns
<1>3. pc'[u] \in {"insert", "acquire", "bump", "put", "release", "purge", "erase"}
  BY DEF HasStored, Owns, OwnPC
<1>4. \/ pc'[u] = "insert" \/ (part'[u] = "thumb" /\ x = "file")
  BY DEF HasStored
<1>4a. held'[u][x] # None
  <2>1. core'[u] \in Core
    BY <1>0, <1>3, ShapeStep DEF Shape, ShapeOf
  <2>. QED  BY <2>1, Keys
<1>5. ASSUME ClaimCore(u) PROVE FALSE
  BY <1>0, <1>4, <1>5, ClaimCoreMoves DEF ClaimCore, Shape, ShapeOf
<1>6. ASSUME pc[u] \in {"acquire", "bump"}, GivesUp(u) PROVE Goal
  <2>1. part[u] = "thumb" /\ Keeps(u, "insert")
    BY <1>3, <1>6, ProcAssumption DEF GivesUp, Returns, Proc, Handler
  <2>2. held[u]["thumb"] = None
    BY <1>0, <1>6, <2>1 DEF Freshness
  <2>3. /\ x = "file" /\ core'[u] = core[u] /\ held'[u]["file"] = held[u]["file"]
    BY <1>0, <1>4a, <2>1, <2>2, Keys DEF Keeps, Goes
  <2>. QED  BY <1>6, <2>1, <2>3 DEF HasStored, Owns, OwnPC
<1>7. ASSUME InsertObject(u) PROVE Goal
  <2>1. CASE GivesUp(u)
    BY <1>6, <1>7, <2>1 DEF InsertObject
  <2>2. ASSUME NEW k, Goes(u, "put", part[u], Pick(u, k, held[u]["file"]), Pick(u, held[u]["thumb"], k))
        PROVE  Goal
    BY <1>4, <1>7, <2>2 DEF InsertObject, Goes, Pick, HasStored, Owns, OwnPC
  <2>. QED  BY <1>0, <1>7, <2>1, <2>2, InsertObjectMoves
<1>8. ASSUME NEW k \in Key, Acquires(u, k), pc[u] \in AcquirePC, x # part[u] PROVE Goal
  <2>1. part'[u] = part[u] \/ (part[u] = "file" /\ part'[u] = "thumb" /\ x = "thumb")
    BY <1>0, <1>8 DEF Acquires, Goes
  <2>2. core'[u] = core[u] /\ held'[u][x] = held[u][x]
    BY <1>0, <1>8 DEF Acquires, Goes, Pick
  <2>3. CASE part[u] = "thumb"
    BY <1>0, <1>8, <2>2, <2>3 DEF HasStored, Owns, OwnPC, AcquirePC
  <2>4. CASE part[u] = "file"
    <3>1. x = "thumb" /\ held[u]["thumb"] = None
      BY <1>0, <1>8, <2>4 DEF Freshness
    <3>. QED  BY <1>4a, <2>2, <3>1
  <2>. QED  BY <1>0, <2>3, <2>4
<1>9. ASSUME Put(u) PROVE Goal
  <2>1. /\ Acquires(u, held[u][part[u]]) /\ held[u][part[u]] \in Key /\ pc[u] = "put"
        /\ UNCHANGED held
    BY <1>0, <1>9, PutMoves DEF Put
  <2>2. CASE x # part[u]
    BY <1>8, <2>1, <2>2 DEF AcquirePC
  <2>3. CASE x = part[u]
    BY <1>9, <2>1, <2>3 DEF Acquires, Goes
  <2>. QED  BY <2>2, <2>3
<1>10. ASSUME BumpObject(u) PROVE Goal
  <2>. DEFINE k == objects[Sha(u)].key
  <2>1. Acquires(u, k) /\ k \in Key /\ pc[u] = "bump" /\ Sha(u) \in Digest /\ objects[Sha(u)] # None
    BY <1>0, <1>10, BumpObjectMoves DEF BumpObject
  <2>2. CASE x # part[u]
    BY <1>8, <2>1, <2>2 DEF AcquirePC
  <2>3. CASE x = part[u]
    <3>1. held'[u][x] = k /\ core'[u] = core[u]
      BY <1>0, <2>1, <2>3 DEF Acquires, Goes, Pick
    <3>2. k # <<part[u], core[u]>>
      BY <1>0, <2>1 DEF Freshness, Fresh, Unknown
    <3>. QED  BY <2>3, <3>1, <3>2
  <2>. QED  BY <2>2, <2>3
<1>11. ASSUME GoesOn(u), pc[u] \in {"release", "purge", "erase"} PROVE Goal
  <2>1. CASE Goes(u, "release", "thumb", None, held[u]["thumb"])
    BY <1>0, <1>4, <1>4a, <2>1, Keys DEF Goes
  <2>2. CASE part[u] = "thumb" /\ Goes(u, "insert", "thumb", held[u]["file"], None)
    BY <1>0, <1>11, <1>4a, <2>2, Keys DEF Goes, HasStored, Owns, OwnPC
  <2>3. ~Returns(u)
    BY <1>3, ProcAssumption DEF Returns, Proc, Handler
  <2>. QED  BY <1>11, <2>1, <2>2, <2>3 DEF GoesOn
<1>12. ASSUME NEW n \in {"bump", "release", "erase", "purge"}, Keeps(u, n), pc[u] \in OwnPC PROVE Goal
  BY <1>0, <1>4, <1>12, Keys DEF Keeps, Goes, HasStored, Owns
<1>13. ASSUME ConflictObject(u) \/ PutFails(u) \/ Purge(u) PROVE Goal
  BY <1>0, <1>12, <1>13, PlainMoves DEF ConflictObject, PutFails, Purge, OwnPC
<1>14. ASSUME Release(u) \/ Erase(u) \/ EraseFails(u) PROVE Goal
  <2>1. ~Returns(u)
    BY <1>3, ProcAssumption DEF Returns, Proc, Handler
  <2>2. pc[u] \in {"release", "erase"}
    BY <1>14 DEF Release, Erase, EraseFails
  <2>3. Keeps(u, "purge") \/ GoesOn(u)
    BY <1>0, <1>14, <2>1, PlainMoves
  <2>. QED  BY <1>11, <1>12, <2>2, <2>3 DEF OwnPC
<1>15. ASSUME BumpMisses(u) \/ StatementFails(u) PROVE Goal
  <2>1. ~Returns(u)
    BY <1>3, ProcAssumption DEF Returns, Proc, Handler
  <2>2. \/ GivesUp(u) /\ pc[u] \in {"acquire", "bump"}
        \/ GoesOn(u) /\ pc[u] \in {"release", "purge"}
    BY <1>0, <1>15, <2>1, PlainMoves, StatementFailsMoves DEF BumpMisses
  <2>. QED  BY <1>6, <1>11, <2>2
<1>16. ASSUME ClaimFails(u) \/ InsertFile(u) \/ Cancel(u) PROVE FALSE
  BY <1>0, <1>3, <1>16, PlainMoves, ProcAssumption DEF Returns, Proc, Handler
<1>17. ASSUME InsertFails(u) PROVE FALSE
  BY <1>0, <1>4, <1>17, PlainMoves, Keys DEF Goes
<1>18. Goal
  BY <1>0, <1>1, <1>2, <1>5, <1>7, <1>9, <1>10, <1>13, <1>14, <1>15, <1>16, <1>17, MoverStep,
     ProcAssumption DEF StepOf, UploadStep, ReleaseStep, Proc, Handler
<1>19. core[u] \in Core
  BY <1>0, <1>18 DEF HasStored, Put, Owns, OwnPC, Shape, ShapeOf
<1>. QED  BY <1>18, <1>19

\* A reference that is kept has its bytes from its PUT on.
LEMMA OwnBytesStep ==
  ASSUME IInv, OwnRows, OwnBytes, [Next]_vars
  PROVE  OwnBytes'
<1>0. /\ TypeOK /\ LocalsOK /\ Shape /\ blobs \in [Key -> Digest \cup {None}]
      /\ files \in [Core -> FileRow \cup {None}] /\ None \notin Digest
  BY TypesOfLocals, DataAssumption DEF IInv, TypeOK
<1>1. ASSUME NEW x \in Part, NEW c \in Core, Keeping(x, c) PROVE blobs'[<<x, c>>] # None
  <2>1. <<x, c>> \in Key /\ debt[<<x, c>>] = <<x, c>> /\ blobs[<<x, c>>] # None
    BY <1>1, Keys, KeepingIsCounted DEF OwnBytes
  <2>2. RowsOf(<<x, c>>) # {}
    BY <2>1 DEF OwnRows
  <2>. QED  BY <2>1, <2>2, ErasedIsUnlisted
<1>2. ASSUME NEW x \in Part, NEW c \in Core, files'[c] # None, KeyAs(x, files'[c]) = <<x, c>>
      PROVE  Keeping(x, c)
  <2>1. ASSUME NEW u \in Upload, Claims(u) PROVE Keeping(x, c)
    BY <1>2, <2>1 DEF Claims, Keeping, KeyAs
  <2>2. ASSUME NEW u \in Upload, Publishes(u) PROVE Keeping(x, c)
    <3>1. PICK row \in FileRow :
            /\ files' = [files EXCEPT ![core[u]] = row] /\ pc[u] = "insert"
            /\ row.key = held[u]["file"] /\ row.thumb = held[u]["thumb"]
      BY <2>2 DEF Publishes
    <3>2. CASE c # core[u]
      BY <1>0, <1>2, <3>1, <3>2 DEF Keeping
    <3>3. CASE c = core[u]
      <4>1. files'[c] = row
        BY <1>0, <3>1, <3>3
      <4>2. held[u][x] = <<x, c>>
        BY <1>2, <3>1, <4>1, Keys DEF KeyAs
      <4>. QED  BY <3>1, <3>3, <4>2 DEF Keeping, UploadKeeps, HasStored
    <3>. QED  BY <3>2, <3>3
  <2>3. ASSUME NEW p \in Remover, Retires(p) PROVE Keeping(x, c)
    <3>1. c # core[p] /\ files'[c] = files[c]
      BY <1>0, <1>2, <2>3 DEF Retires
    <3>. QED  BY <1>2, <3>1 DEF Keeping
  <2>4. CASE SameFiles
    <3>1. files[c] # None /\ KeyAs(x, files'[c]) = KeyAs(x, files[c])
      <4>1. CASE files'[c] = files[c]
        BY <1>2, <4>1
      <4>2. CASE files[c] # None /\ files'[c] = [files[c] EXCEPT !.expires = "passed"]
        BY <1>0, <4>2 DEF KeyAs, FileRow
      <4>. QED  BY <2>4, <4>1, <4>2 DEF SameFiles
    <3>. QED  BY <1>2, <3>1 DEF Keeping
  <2>. QED  BY <1>0, <2>1, <2>2, <2>3, <2>4, OwnerStep
<1>3. ASSUME NEW x \in Part, NEW c \in Core, NEW u \in Upload,
             core'[u] = c, HasStored(u, x)', held'[u][x] = <<x, c>>
      PROVE  blobs'[<<x, c>>] # None
  <2>1. /\ core[u] = c
        /\ \/ HasStored(u, x) /\ held[u][x] = <<x, c>>
           \/ Put(u) /\ held[u][part[u]] = <<x, c>>
    BY <1>3, HasStoredStep
  <2>2. CASE HasStored(u, x) /\ held[u][x] = <<x, c>>
    BY <1>1, <2>1, <2>2 DEF Keeping, UploadKeeps
  <2>3. CASE Put(u) /\ held[u][part[u]] = <<x, c>>
    <3>1. Sha(u) \in Digest /\ blobs' = [blobs EXCEPT ![<<x, c>>] = Sha(u)]
      BY <1>0, <2>3, ShaTyped DEF Put, AcquirePC
    <3>. QED  BY <1>0, <3>1, Keys
  <2>. QED  BY <2>1, <2>2, <2>3
<1>4. ASSUME NEW x \in Part, NEW c \in Core, Keeping(x, c)' PROVE blobs'[<<x, c>>] # None
  <2>1. CASE files'[c] # None /\ KeyAs(x, files'[c]) = <<x, c>>
    BY <1>1, <1>2, <2>1
  <2>2. CASE \E u \in Upload : core'[u] = c /\ HasStored(u, x)' /\ held'[u][x] = <<x, c>>
    BY <1>3, <2>2
  <2>. QED  BY <1>4, <2>1, <2>2 DEF Keeping, UploadKeeps, KeyAs
<1>. QED  BY <1>4 DEF OwnBytes

\* An empty database keeps nothing.
LEMMA InitOwn == Init => OwnRows /\ OwnBytes
<1>. SUFFICES ASSUME Init PROVE OwnRows /\ OwnBytes
  OBVIOUS
<1>1. \A k \in Key : debt[k] # k
  BY Keys DEF Init
<1>2. \A p \in Proc : pc[p] = "idle"
  BY DEF Init
<1>3. OwnRows
  BY <1>1, <1>2 DEF OwnRows
<1>4. \A x \in Part, c \in Core : ~Keeping(x, c)
  BY <1>2, Procs DEF Init, Keeping, UploadKeeps, HasStored, Owns, OwnPC
<1>. QED  BY <1>3, <1>4 DEF OwnBytes

-----------------------------------------------------------------------------
(***************************************************************************)
(* The theorems.                                                           *)
(***************************************************************************)
\* The invariant holds at the start.
LEMMA InitIInv == Init => IInv
<1>. SUFFICES ASSUME Init PROVE IInv
  OBVIOUS
<1>. USE Procs, Keys
<1>1. TypeOK
  BY DEF Init, TypeOK, PC, NoKeys, Part
<1>2. \A p \in Proc : pc[p] = "idle" /\ core[p] = None /\ part[p] = "file" /\ held[p] = NoKeys
  BY DEF Init
<1>3. Shape /\ Ownership
  BY <1>2 DEF Init, Shape, ShapeOf, Ownership, Owns, OwnPC, UploadPC, RemoverPC, AcquirePC
<1>4. Lookups
  BY <1>2 DEF Init, Lookups, RemovesWhatItLoaded
<1>5. Freshness
  BY <1>2 DEF Init, Freshness, Fresh, Unknown, Owns, OwnPC, AcquirePC
<1>6. Debts /\ Counts /\ Erasures /\ Deliveries
  BY <1>2 DEF Init, Debts, Counts, Erasures, Deliveries, BurnOnce, Owns, OwnPC
<1>. QED  BY <1>1, <1>3, <1>4, <1>5, <1>6 DEF IInv

\* The invariant is inductive: one lemma for each of its parts.
LEMMA NextIInv == IInv /\ [Next]_vars => IInv'
<1>. SUFFICES ASSUME IInv, [Next]_vars PROVE IInv'
  OBVIOUS
<1>0. /\ TypeOK /\ LocalsOK /\ Shape /\ Ownership /\ Lookups
      /\ Freshness /\ Debts /\ Counts /\ Erasures /\ Deliveries
  BY TypesOfLocals DEF IInv
<1>1. LocalsOK' /\ Shape'
  BY <1>0, ShapeStep
<1>2. Counts' /\ objects' \in [Digest -> ObjectRow \cup {None}]
  BY <1>0, CountsStep
<1>3. Deliveries' /\ served' \subseteq Reader \X Core
  BY <1>0, DeliveriesStep
<1>4. TypeOK'
  BY <1>0, <1>1, <1>2, <1>3, TablesStep DEF TypeOK, LocalsOK
<1>5. Ownership' /\ Debts' /\ Erasures'
  BY <1>0, OwnershipStep, DebtsStep, ErasuresStep
<1>6. Lookups' /\ Freshness'
  BY <1>0, <1>1, LookupsStep, FreshnessStep
<1>. QED  BY <1>1, <1>2, <1>3, <1>4, <1>5, <1>6 DEF IInv

\* The inductive invariant holds in every reachable state.
THEOREM Inductive == Spec => []IInv
  BY InitIInv, NextIInv, PTL DEF Spec

\* Every table and local keeps its type; in particular no refcount is ever
\* negative, so the CHECK of table objects never makes a release fail.
THEOREM TypeCorrect == Spec => []TypeOK
<1>1. IInv => TypeOK
  BY DEF IInv
<1>. QED  BY <1>1, Inductive, PTL

\* The invariant contains the property that counts are exact.
LEMMA InvariantCounts == IInv => ReferencesCounted
<1>. SUFFICES ASSUME IInv PROVE ReferencesCounted
  OBVIOUS
<1>1. TypeOK /\ Debts /\ Counts
  BY DEF IInv
<1>2. \A d \in Digest : objects[d] # None => objects[d].key \in Key
  BY <1>1 DEF TypeOK, ObjectRow
<1>. QED  BY <1>1, <1>2 DEF Debts, Counts, Count, ReferencesCounted

\* acquire_object and release_object agree: a refcount is the number of
\* references counted on the object, and every live file is one of them.
THEOREM RefcountsAreExact == Spec => []ReferencesCounted
<1>1. IInv => ReferencesCounted
  BY InvariantCounts
<1>. QED  BY <1>1, Inductive, PTL

\* A burn-after-read file is delivered once at most, whoever races for it.
THEOREM BurnsOnce == Spec => []BurnOnce
<1>1. IInv => BurnOnce
  BY DEF IInv, Deliveries
<1>. QED  BY <1>1, Inductive, PTL

\* In an empty database no key stands for anything.
LEMMA InitAgreement == Init => Agreement
  BY Procs DEF Init, Agreement, Binds, RowsOf, FileBinds, UploadBinds, Owns, OwnPC

\* If all that knows a key agrees on its content, so do its bytes.
LEMMA AgreementKeeps ==
  ASSUME TypeOK, Agreement
  PROVE  ContentIntegrity
<1>1. \A k \in Key : blobs[k] \in Digest \cup {None} /\ (blobs[k] # None => Binds(k, blobs[k]))
  BY DEF TypeOK, Binds
<1>2. ASSUME NEW d \in Digest, objects[d] # None PROVE blobs[objects[d].key] \in {d, None}
  <2>1. objects[d].key \in Key /\ Binds(objects[d].key, d)
    BY <1>2 DEF TypeOK, ObjectRow, Binds, RowsOf
  <2>. QED  BY <1>1, <2>1 DEF Agreement
<1>3. ASSUME NEW c \in Core, files[c] # None, NEW x \in Part, KeyAs(x, files[c]) # None
      PROVE  blobs[KeyAs(x, files[c])] \in {DigestAs(x, files[c].sha), None}
  <2>1. files[c] \in FileRow
    BY <1>3 DEF TypeOK
  <2>2. KeyAs(x, files[c]) \in Key /\ DigestAs(x, files[c].sha) \in Digest \cup {None}
    BY <1>3, <2>1, DataAssumption DEF FileRow, KeyAs, DigestAs
  <2>3. Binds(KeyAs(x, files[c]), DigestAs(x, files[c].sha))
    BY <1>3 DEF Binds, FileBinds
  <2>. QED  BY <1>1, <2>2, <2>3 DEF Agreement
<1>4. ASSUME NEW c \in Core, files[c] # None
      PROVE  /\ blobs[files[c].key] \in {files[c].sha, None}
             /\ files[c].thumb # None => blobs[files[c].thumb] \in {ThumbOf[files[c].sha], None}
  <2>1. files[c].key \in Key
    BY <1>4 DEF TypeOK, FileRow
  <2>2. /\ KeyAs("file", files[c]) = files[c].key /\ DigestAs("file", files[c].sha) = files[c].sha
        /\ KeyAs("thumb", files[c]) = files[c].thumb
        /\ DigestAs("thumb", files[c].sha) = ThumbOf[files[c].sha]
    BY DEF KeyAs, DigestAs
  <2>. QED  BY <1>3, <1>4, <2>1, <2>2, Keys
<1>. QED  BY <1>2, <1>4 DEF ContentIntegrity

\* Every upload gets back what it stored, whatever was deleted, expired or shared
\* in between: no key is ever used for two contents.
THEOREM KeepsContents == Spec => []ContentIntegrity
<1>1. Init => Agreement
  BY InitAgreement
<1>2. IInv /\ Agreement /\ [Next]_vars => Agreement'
  BY TypesOfLocals, AgreementStep DEF IInv
<1>3. IInv /\ Agreement => ContentIntegrity
  BY AgreementKeeps DEF IInv
<1>. QED  BY <1>1, <1>2, <1>3, Inductive, PTL DEF Spec

\* What is kept has its row and the bytes of its content.
LEMMA OwnInvariant ==
  ASSUME IInv, Agreement, OwnRows, OwnBytes
  PROVE  OwnBytesStay
<1>1. ContentIntegrity /\ TypeOK
  BY AgreementKeeps DEF IInv
<1>2. ASSUME NEW x \in Part, NEW c \in Core, files[c] # None, KeyAs(x, files[c]) = <<x, c>>
      PROVE  RowsOf(<<x, c>>) # {} /\ blobs[<<x, c>>] # None
  <2>1. Keeping(x, c) /\ <<x, c>> \in Key
    BY <1>2, Keys DEF Keeping
  <2>. QED  BY <2>1, KeepingIsCounted DEF OwnRows, OwnBytes
<1>3. ASSUME NEW c \in Core, files[c] # None, files[c].key = <<"file", c>>
      PROVE  RowsOf(<<"file", c>>) # {} /\ blobs[<<"file", c>>] = files[c].sha
  <2>1. RowsOf(<<"file", c>>) # {} /\ blobs[<<"file", c>>] # None
    BY <1>2, <1>3, Keys DEF KeyAs
  <2>. QED  BY <1>1, <1>3, <2>1 DEF ContentIntegrity
<1>4. ASSUME NEW c \in Core, files[c] # None, files[c].thumb = <<"thumb", c>>
      PROVE  RowsOf(<<"thumb", c>>) # {} /\ blobs[<<"thumb", c>>] = ThumbOf[files[c].sha]
  <2>1. RowsOf(<<"thumb", c>>) # {} /\ blobs[<<"thumb", c>>] # None
    BY <1>2, <1>4, Keys DEF KeyAs
  <2>2. files[c].thumb # None
    BY <1>4, Keys
  <2>. QED  BY <1>1, <1>4, <2>1, <2>2 DEF ContentIntegrity
<1>. QED  BY <1>3, <1>4 DEF OwnBytesStay

\* Whoever stored a content under a key of its own keeps its row and its bytes until
\* the row of files is deleted, under every fault and however many share the object:
\* only those who came to share it can be left without.
THEOREM OwnBytesKept == Spec => []OwnBytesStay
<1>1. Init => Agreement /\ OwnRows /\ OwnBytes
  BY InitAgreement, InitOwn
<1>2. IInv /\ Agreement /\ [Next]_vars => Agreement'
  BY TypesOfLocals, AgreementStep DEF IInv
<1>3. IInv /\ OwnRows /\ OwnBytes /\ [Next]_vars => OwnRows' /\ OwnBytes'
  BY OwnRowsStep, OwnBytesStep
<1>4. IInv /\ Agreement /\ OwnRows /\ OwnBytes => OwnBytesStay
  BY OwnInvariant
<1>. QED  BY <1>1, <1>2, <1>3, <1>4, Inductive, PTL DEF Spec

\* Without failing PUTs and dropped handlers, no row of objects is ever without
\* the bytes or the one upload that stores them.
THEOREM RowsHaveBytes ==
  ASSUME "put" \notin Faults, "cancel" \notin Faults
  PROVE  Spec => []BytesBehindRows
<1>1. Init => Agreement /\ BytesBehindRows
  BY InitAgreement DEF Init, BytesBehindRows
<1>2. /\ IInv /\ [Next]_vars => IInv'
      /\ IInv /\ Agreement /\ [Next]_vars => Agreement'
  BY NextIInv, TypesOfLocals, AgreementStep DEF IInv
<1>3. IInv /\ IInv' /\ Agreement /\ BytesBehindRows /\ [Next]_vars => BytesBehindRows'
  BY BehindStep
<1>. QED  BY <1>1, <1>2, <1>3, InitIInv, PTL DEF Spec

\* As long as PUTs and INSERTs into files are all that fails, nothing is left over when
\* all is quiet: no bytes without a row, no row without a file, and no reference counted
\* that is not a file's or a thumbnail's.
THEOREM RollsBackAll ==
  ASSUME Faults \subseteq {"put", "insert"}
  PROVE  Spec => []NothingLeftBehind
<1>. DEFINE Clean == Cleanup /\ RemoversFit /\ Owed
<1>1. Init => Clean
  BY Procs, Keys DEF Init, Cleanup, BytesListed, ZeroPurged, PutsListed, RemoversFit, Owed
<1>2. IInv /\ [Next]_vars => IInv'
  BY NextIInv
<1>3. IInv /\ IInv' /\ Clean /\ [Next]_vars => Clean'
  <2>1. IInv => TypeOK /\ LocalsOK /\ Shape
    BY TypesOfLocals DEF IInv
  <2>. QED
    BY <2>1, BytesListedStep, ZeroPurgedStep, PutsListedStep, RemoversFitStep, OwedStep DEF Cleanup
<1>4. IInv /\ Clean => NothingLeftBehind
  <2>. SUFFICES ASSUME IInv, Clean, \A p \in Proc : ~Underway(p)
                PROVE  /\ \A k \in Key : blobs[k] # None => RowsOf(k) # {}
                       /\ \A d \in Digest : objects[d] # None =>
                            /\ References(objects[d].key) # {}
                            /\ objects[d].refcount = Cardinality(References(objects[d].key))
    BY DEF NothingLeftBehind
  <2>1. \A p \in Proc : pc[p] \notin {"purge", "erase"}
    BY DEF Underway
  <2>2. ASSUME NEW d \in Digest, objects[d] # None
        PROVE  /\ References(objects[d].key) # {}
               /\ objects[d].refcount = Cardinality(References(objects[d].key))
    <3>1. objects[d].key \in Key
      BY <2>2 DEF IInv, TypeOK, ObjectRow
    <3>2. objects[d].refcount = Cardinality(Holders(objects[d].key))
      BY <2>2, <3>1 DEF IInv, Counts, Count
    <3>3. objects[d].refcount # 0
      BY <2>1, <2>2 DEF Cleanup, ZeroPurged
    <3>. QED  BY <3>1, <3>2, <3>3, QuietReferences, FS_EmptySet
  <2>. QED  BY <2>1, <2>2 DEF Cleanup, BytesListed
<1>. QED  BY <1>1, <1>2, <1>3, <1>4, InitIInv, PTL DEF Spec

\* What remove_file deletes is what its caller had looked up.
THEOREM RemovesRightFile == Spec => []RemovesWhatItLoaded
<1>1. IInv => RemovesWhatItLoaded
  BY DEF IInv, Lookups
<1>. QED  BY <1>1, Inductive, PTL

\* Bytes are erased only when no row of objects lists them.
THEOREM ErasesUnlisted == Spec => EraseUnlisted
<1>. DEFINE Kept == \A k \in Key : blobs[k] # None /\ blobs'[k] = None => RowsOf(k) = {}
<1>1. IInv /\ [Next]_vars => Kept
  BY ErasedIsUnlisted
<1>2. IInv /\ [Next]_vars => [Kept]_vars
  BY <1>1
<1>. QED  BY <1>2, Inductive, PTL DEF Spec, EraseUnlisted

-----------------------------------------------------------------------------
(***************************************************************************)
(* The service implements FileVault.                                       *)
(***************************************************************************)
VaultStep == [Vault!Next]_(Vault!vars)

\* An empty database is an empty vault.
LEMMA VaultInit == Init => Vault!Init
  BY DEF Init, Vault!Init, StatusOf, ContentOf, Status

\* An upload whose core is c works on it and owns it.
LEMMA ReservedIsOwned ==
  ASSUME Shape, NEW u \in Upload, core[u] \in Core
  PROVE  Owns(u)
  BY Procs, DataAssumption DEF Shape, ShapeOf, Owns, OwnPC, UploadPC

\* The same in the next state.
LEMMA ReservedWhileOwned ==
  ASSUME Shape', NEW u \in Upload, core'[u] \in Core
  PROVE  Owns(u)'
  BY Procs, DataAssumption DEF Shape, ShapeOf, Owns, OwnPC, UploadPC

\* Every step of the store is a step of the vault, or a stutter.
LEMMA VaultNext ==
  ASSUME IInv, IInv', [Next]_vars
  PROVE  VaultStep
<1>. USE Procs
<1>0. /\ TypeOK /\ LocalsOK /\ Shape /\ Ownership /\ Deliveries
      /\ files \in [Core -> FileRow \cup {None}] /\ None \notin Core
      /\ Shape' /\ Ownership' /\ cores \subseteq Core
  BY TypesOfLocals, DataAssumption DEF IInv, TypeOK
<1>1. /\ StatusOf = [c \in Core |-> Status(c)] /\ ContentOf = [c \in Core |-> IF files[c] = None THEN None ELSE files[c].sha]
      /\ StatusOf' = [c \in Core |-> Status(c)']
      /\ ContentOf' = [c \in Core |-> IF files'[c] = None THEN None ELSE files'[c].sha]
  BY DEF StatusOf, ContentOf
<1>2. /\ \A u \in Upload : core[u] \in Core => Owns(u) /\ core[u] \in cores /\ files[core[u]] = None
      /\ \A u, v \in Upload : core[u] \in Core /\ core[u] = core[v] => u = v
  BY <1>0, ReservedIsOwned DEF Ownership
<1>3. ASSUME NEW u \in Upload, Claims(u) PROVE VaultStep
  <2>. DEFINE c == core'[u]
  <2>1. c \in Core \ cores /\ files[c] = None /\ UNCHANGED <<files, served>>
    BY <1>0, <1>3, ServedStep DEF Claims, Serves, SameFiles, Ownership
  <2>2. Status(c) = "free"
    BY <2>1 DEF Status
  <2>3. \A d \in Core : Status(d)' = IF d = c THEN "reserved" ELSE Status(d)
    BY <1>2, <1>3, <2>1 DEF Claims, Moves, Status
  <2>4. StatusOf' = [StatusOf EXCEPT ![c] = "reserved"] /\ StatusOf[c] = "free" /\ ContentOf' = ContentOf
    BY <1>1, <2>1, <2>2, <2>3
  <2>. QED  BY <2>1, <2>4 DEF VaultStep, Vault!Next, Vault!Reserve
<1>4. ASSUME NEW u \in Upload, Publishes(u) PROVE VaultStep
  <2>0. PICK c \in Core : c = core[u]
    BY <1>4 DEF Publishes
  <2>1. PICK row \in FileRow : files' = [files EXCEPT ![c] = row] /\ row.sha = want[u].sha
    BY <1>4, <2>0 DEF Publishes
  <2>2. /\ c \in cores /\ files[c] = None /\ UNCHANGED <<cores, served>>
        /\ row.sha \in Digest /\ row # None
    BY <1>0, <1>4, <2>0, <2>1, DataAssumption DEF Publishes, Ownership, FileRow
  <2>3. Status(c) = "reserved"
    BY <2>0, <2>2 DEF Status
  <2>4. \A d \in Core : Status(d)' = IF d = c THEN "live" ELSE Status(d)
    <3>1. Status(c)' = "live"
      BY <1>0, <2>1, <2>2 DEF Status
    <3>2. ASSUME NEW d \in Core, d # c PROVE Status(d)' = Status(d)
      <4>1. files'[d] = files[d] /\ cores' = cores
        BY <1>0, <2>1, <2>2, <3>2
      <4>2. \A v \in Upload : core'[v] = d <=> core[v] = d
        <5>1. \A v \in Upload : v # u => core'[v] = core[v]
          BY <1>4 DEF Publishes, Moves
        <5>2. core'[u] # d
          BY <1>0, <1>4, <3>2, ReservedWhileOwned DEF Publishes
        <5>. QED  BY <2>0, <3>2, <5>1, <5>2
      <4>. QED  BY <4>1, <4>2 DEF Status
    <3>. QED  BY <3>1, <3>2
  <2>5. /\ StatusOf' = [StatusOf EXCEPT ![c] = "live"] /\ StatusOf[c] = "reserved"
        /\ ContentOf' = [ContentOf EXCEPT ![c] = row.sha]
    BY <1>0, <1>1, <2>1, <2>2, <2>3, <2>4
  <2>. QED  BY <2>2, <2>5 DEF VaultStep, Vault!Next, Vault!Publish
<1>5. ASSUME NEW p \in Remover, Retires(p) PROVE VaultStep
  <2>. DEFINE c == core[p]
  <2>1. /\ c \in Core /\ files[c] # None /\ c \in cores /\ UNCHANGED cores
        /\ files' = [files EXCEPT ![c] = None]
    BY <1>0, <1>5 DEF Retires, Ownership
  <2>2. UNCHANGED served
    BY <1>0, <2>1, ServedStep DEF Serves
  <2>3. \A u \in Upload : core'[u] = core[u]
    BY <1>5 DEF Retires, Moves
  <2>4. \A d \in Core : Status(d)' = IF d = c THEN "gone" ELSE Status(d)
    BY <1>0, <1>2, <2>1, <2>3 DEF Status
  <2>5. /\ StatusOf' = [StatusOf EXCEPT ![c] = "gone"] /\ StatusOf[c] = "live"
        /\ ContentOf' = [ContentOf EXCEPT ![c] = None]
    BY <1>0, <1>1, <2>1, <2>4 DEF Status
  <2>. QED  BY <2>1, <2>2, <2>5 DEF VaultStep, Vault!Next, Vault!Remove
<1>6. ASSUME SameFiles PROVE VaultStep
  <2>1. cores' = cores
    BY <1>6 DEF SameFiles
  <2>2. ASSUME NEW c \in Core
        PROVE  /\ files'[c] = None <=> files[c] = None
               /\ files[c] # None => files'[c].sha = files[c].sha
    <3>1. CASE files'[c] = files[c]
      BY <3>1
    <3>2. CASE files[c] # None /\ files'[c] = [files[c] EXCEPT !.expires = "passed"]
      <4>1. files[c] \in FileRow
        BY <1>0, <3>2
      <4>2. [files[c] EXCEPT !.expires = "passed"] \in FileRow
        BY <4>1 DEF FileRow, Expiry
      <4>. QED  BY <3>2, <4>1, <4>2, DataAssumption DEF FileRow
    <3>. QED  BY <1>6, <3>1, <3>2 DEF SameFiles
  <2>3. ContentOf' = ContentOf
    BY <1>1, <2>2
  <2>4. ASSUME NEW u \in Upload, core'[u] \in Core PROVE core'[u] = core[u]
    BY <1>0, <1>6, <2>4, ReservedWhileOwned DEF SameFiles, SameOwners
  <2>5. ASSUME NEW c \in Core, \A u \in Upload : core[u] = c => core'[u] = c
        PROVE  Status(c)' = Status(c)
    BY <2>1, <2>2, <2>4, <2>5 DEF Status
  <2>6. ASSUME NEW u \in Upload, core[u] \in Core, core'[u] # core[u] PROVE VaultStep
    <3>0. PICK c \in Core : c = core[u]
      BY <2>6
    <3>1. c \in cores /\ files[c] = None /\ files'[c] = None /\ \A v \in Upload : core'[v] # c
      BY <1>2, <2>2, <2>4, <2>6, <3>0
    <3>2. ASSUME NEW v \in Upload, v # u PROVE core'[v] = core[v]
      <4>1. PICK p \in Proc : Moves(p)
        BY <1>0, <2>6, MoverStep DEF local
      <4>. QED  BY <2>6, <3>2, <4>1 DEF Moves
    <3>3. UNCHANGED served
      <4>1. ASSUME NEW r \in Reader, Serves(r) PROVE FALSE
        <5>1. PICK p \in Proc : Moves(p)
          BY <1>0, <2>6, MoverStep DEF local
        <5>2. p = u
          BY <2>6, <5>1 DEF Moves
        <5>3. pc'[r] = pc[r]
          BY <4>1, <5>1, <5>2 DEF Moves
        <5>. QED  BY <4>1, <5>3 DEF Serves, Owns
      <4>. QED  BY <1>0, <4>1, ServedStep
    <3>4. Status(c)' = "gone" /\ Status(c) = "reserved"
      BY <2>1, <3>0, <3>1 DEF Status
    <3>5. \A d \in Core : d # c => Status(d)' = Status(d)
      BY <2>5, <3>0, <3>2
    <3>6. StatusOf' = [StatusOf EXCEPT ![c] = "gone"] /\ StatusOf[c] = "reserved"
      BY <1>1, <3>4, <3>5
    <3>. QED  BY <2>3, <2>6, <3>3, <3>6 DEF VaultStep, Vault!Next, Vault!Abandon
  <2>7. ASSUME \A u \in Upload : core[u] \in Core => core'[u] = core[u] PROVE VaultStep
    <3>1. StatusOf' = StatusOf
      BY <1>1, <2>5, <2>7
    <3>2. CASE UNCHANGED served
      BY <2>3, <3>1, <3>2 DEF VaultStep, Vault!vars
    <3>3. ASSUME NEW r \in Reader, Serves(r) PROVE VaultStep
      <4>. DEFINE c == core[r]
      <4>1. c \in Core /\ c \in cores /\ files[c] = None /\ Owns(r)
        BY <1>0, <3>3 DEF Serves, Ownership
      <4>2. \A u \in Upload : core[u] # c
        BY <1>0, <1>2, <4>1 DEF Ownership
      <4>3. StatusOf[c] = "gone"
        BY <1>1, <4>1, <4>2 DEF Status
      <4>4. \A s \in Reader : <<s, c>> \notin served
        BY <1>0, <4>1 DEF Deliveries
      <4>. QED  BY <2>3, <3>1, <3>3, <4>1, <4>3, <4>4 DEF Serves, VaultStep, Vault!Next, Vault!Deliver
    <3>. QED  BY <1>0, <3>2, <3>3, ServedStep
  <2>. QED  BY <2>6, <2>7
<1>. QED  BY <1>0, <1>3, <1>4, <1>5, <1>6, OwnerStep

\* The service implements FileVault: a core is issued once, resolves to one
\* content while it is live, to nothing afterwards, and a burn-after-read
\* content is delivered at most once, after its row is gone.
THEOREM ImplementsVault == Spec => KeepsVault
<1>1. IInv /\ IInv' /\ [Next]_vars => VaultStep
  BY VaultNext
<1>. QED  BY <1>1, VaultInit, Inductive, PTL DEF Spec, KeepsVault, Vault!Spec, VaultStep
=============================================================================
