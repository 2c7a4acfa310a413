---------------------------- MODULE ObjectStore ----------------------------
(***************************************************************************)
(* The life of an uploaded file: its id core, its row of `files`, the      *)
(* reference counted row of `objects` it shares with every upload of the   *)
(* same content, and the bytes behind that row.  Uploads, deletions, reads *)
(* of burn-after-read files and the expiry sweeper run concurrently; every *)
(* SQL statement (each is its own transaction in this code) and every call *)
(* of the storage backend is one step.                                     *)
(*                                                                         *)
(* A storage key is the pair <<part, core>>: `files/<core><ext>` or        *)
(* `thumbs/<core>.jpg`.  The same pair names a reference: the one that the *)
(* content `core` holds on some object as its file or as its thumbnail.    *)
(***************************************************************************)
EXTENDS Naturals, FiniteSets

CONSTANTS
  Core,       \* id cores that generate_core may draw
  Digest,     \* SHA-256 digests of contents, those of thumbnails included
  ThumbOf,    \* the digest of the thumbnail ffmpeg makes of a content, or None
  Request,    \* the uploads clients ask for: [sha, burn, expires]
  Upload,     \* upload handlers
  Deleter,    \* handlers that delete a file on behalf of somebody entitled to
  Reader,     \* handlers of GET /<core> on burn-after-read files
  Sweeper,    \* the expiry task
  Faults,     \* which failures happen: a subset of FaultKind
  BatchLimit, \* rows one sweep reads (500 in the code)
  None        \* NULL

Part == {"file", "thumb"}
Key == Part \X Core
Handler == Upload \cup Deleter \cup Reader
Proc == Handler \cup {Sweeper}
Remover == Deleter \cup Reader \cup {Sweeper}
FaultKind == {"put", "erase", "insert", "sql", "cancel"}
Expiry == {"never", "later", "passed"}

ObjectRow == [key : Key, refcount : Nat]
FileRow == [sha : Digest, key : Key, thumb : Key \cup {None},
            burn : BOOLEAN, expires : Expiry]
UploadRequest == [sha : Digest, burn : BOOLEAN, expires : {"never", "later"}]

ASSUME DataAssumption ==
  /\ IsFiniteSet(Core)
  /\ ThumbOf \in [Digest -> Digest \cup {None}]
  /\ Request \subseteq UploadRequest
  /\ Faults \subseteq FaultKind
  /\ BatchLimit \in Nat \ {0}
  /\ None \notin Core \cup Digest \cup Key
  /\ None \notin ObjectRow /\ None \notin FileRow /\ None \notin UploadRequest

ASSUME ProcAssumption ==
  /\ Upload \cap Deleter = {} /\ Upload \cap Reader = {}
  /\ Deleter \cap Reader = {} /\ Sweeper \notin Handler

VARIABLES
  cores,    \* used_id_cores: the cores ever issued
  objects,  \* table objects, by sha256: [key, refcount] or None
  blobs,    \* the storage backend: the content stored under a key, or None
  files,    \* table files, by id_core: a FileRow or None
  pc,       \* where each handler is
  core,     \* the id_core it works on
  part,     \* which of the two references it is acquiring or releasing
  held,     \* its local storage_key and thumb_key
  want,     \* what the client of an upload asked for
  todo,     \* the cores of the sweeper's batch that it has still to remove
  debt,     \* history: the key on which each reference is counted, or None
  served    \* history: which reader delivered which burn-after-read file

db == <<cores, objects, files>>
local == <<pc, core, part, held, want>>
vars == <<cores, objects, blobs, files, pc, core, part, held, want, todo, debt, served>>

PC == {"idle", "acquire", "bump", "put", "insert",
       "collect", "remove", "release", "purge", "erase", "done"}

NoKeys == [x \in Part |-> None]

(***************************************************************************)
(* Helpers: rows by key, and the ways a handler goes on.                   *)
(***************************************************************************)
RowsOf(k) == {d \in Digest : objects[d] # None /\ objects[d].key = k}

\* The digest whose object the upload is acquiring.
Sha(u) == IF part[u] = "file" THEN want[u].sha ELSE ThumbOf[want[u].sha]

\* store_thumbnail is attempted for videos that are not burn-armed.
Thumbed(u) == ThumbOf[want[u].sha] # None /\ ~want[u].burn

\* The handler returns: its locals are gone.  The sweeper goes on to its next row.
Return(p) ==
  /\ pc' = [pc EXCEPT ![p] = IF p = Sweeper THEN "idle" ELSE "done"]
  /\ core' = [core EXCEPT ![p] = None]
  /\ part' = [part EXCEPT ![p] = "file"]
  /\ held' = [held EXCEPT ![p] = NoKeys]
  /\ want' = [want EXCEPT ![p] = None]

\* The handler's next statement is `next`.
Goto(p, next) ==
  /\ pc' = [pc EXCEPT ![p] = next]
  /\ UNCHANGED <<core, part, want>>

\* An upload goes on once the object it was acquiring is stored: from the
\* file to the thumbnail (unless ffmpeg fails or none is wanted), and then to
\* the INSERT into files.
Stored(u) ==
  \/ /\ part[u] = "file" /\ Thumbed(u)
     /\ pc' = [pc EXCEPT ![u] = "acquire"]
     /\ part' = [part EXCEPT ![u] = "thumb"]
     /\ UNCHANGED <<core, want>>
  \/ Goto(u, "insert")

\* An upload whose thumbnail failed goes on without; one whose file failed ends.
AcquireFailed(u) ==
  IF part[u] = "thumb" THEN Goto(u, "insert") /\ UNCHANGED held ELSE Return(u)

\* Deliver what was collected, for a reader that has removed the row.
Deliver(p) ==
  served' = IF p \in Reader THEN served \cup {<<p, core[p]>>} ELSE served

\* The reference part[p] is dealt with.  remove_file and the rollback of a
\* failed INSERT go on to the thumbnail; the rollback of a failed thumbnail
\* goes back to the upload; otherwise the handler is finished.
NextPart(p) ==
  IF part[p] = "file" /\ held[p]["thumb"] # None
  THEN /\ pc' = [pc EXCEPT ![p] = "release"]
       /\ part' = [part EXCEPT ![p] = "thumb"]
       /\ held' = [held EXCEPT ![p]["file"] = None]
       /\ UNCHANGED <<core, want, served>>
  ELSE IF p \in Upload /\ part[p] = "thumb" /\ held[p]["file"] # None
  THEN /\ pc' = [pc EXCEPT ![p] = "insert"]
       /\ held' = [held EXCEPT ![p]["thumb"] = None]
       /\ UNCHANGED <<core, part, want, served>>
  ELSE Return(p) /\ Deliver(p)

\* A statement of release_object or store.delete failed: remove_file returns
\* the error at once, a rollback logs it and goes on.
ReleaseFailed(p) ==
  IF p \in Upload THEN NextPart(p) ELSE Return(p) /\ UNCHANGED served

(***************************************************************************)
(* upload_inner, from the claim of the core to the INSERT into files, with *)
(* acquire_object and store_thumbnail in it.                               *)
(***************************************************************************)
\* Mutant: the candidate is not checked against used_id_cores.
ClaimCoreUnchecked(u) ==
  /\ pc[u] = "idle"
  /\ \E r \in Request, c \in Core :
       /\ files[c] = None
       /\ cores' = cores \cup {c}
       /\ core' = [core EXCEPT ![u] = c]
       /\ want' = [want EXCEPT ![u] = r]
  /\ pc' = [pc EXCEPT ![u] = "acquire"]
  /\ UNCHANGED <<objects, blobs, files, part, held, todo, debt, served>>

\* try_claim_core wins a candidate of generate_core.
ClaimCore(u) ==
  /\ pc[u] = "idle"
  /\ \E r \in Request, c \in Core \ cores :
       /\ cores' = cores \cup {c}
       /\ core' = [core EXCEPT ![u] = c]
       /\ want' = [want EXCEPT ![u] = r]
  /\ pc' = [pc EXCEPT ![u] = "acquire"]
  /\ UNCHANGED <<objects, blobs, files, part, held, todo, debt, served>>

\* All of the candidates drawn were issued before: "id allocation failed".
ClaimFails(u) ==
  /\ pc[u] = "idle" /\ cores # {}
  /\ Return(u)
  /\ UNCHANGED <<cores, objects, blobs, files, todo, debt, served>>

\* INSERT INTO objects succeeds: this caller must PUT the bytes.  A candidate
\* key that another row has (it is UNIQUE) is an error.
InsertObject(u) ==
  /\ pc[u] = "acquire" /\ objects[Sha(u)] = None
  /\ LET k == <<part[u], core[u]>> IN
       IF RowsOf(k) = {}
       THEN /\ objects' = [objects EXCEPT ![Sha(u)] = [key |-> k, refcount |-> 1]]
            /\ debt' = [debt EXCEPT ![k] = k]
            /\ held' = [held EXCEPT ![u][part[u]] = k]
            /\ Goto(u, "put")
       ELSE AcquireFailed(u) /\ UNCHANGED <<objects, debt>>
  /\ UNCHANGED <<cores, blobs, files, todo, served>>

\* ON CONFLICT (sha256) DO NOTHING.
ConflictObject(u) ==
  /\ pc[u] = "acquire" /\ objects[Sha(u)] # None
  /\ Goto(u, "bump")
  /\ UNCHANGED <<cores, objects, blobs, files, held, todo, debt, served>>

\* Mutant: the key is read with a SELECT.
BumpObjectUncounted(u) ==
  /\ pc[u] = "bump" /\ objects[Sha(u)] # None
  /\ debt' = [debt EXCEPT ![<<part[u], core[u]>>] = objects[Sha(u)].key]
  /\ held' = [held EXCEPT ![u][part[u]] = objects[Sha(u)].key]
  /\ Stored(u)
  /\ UNCHANGED <<cores, objects, blobs, files, todo, served>>

\* UPDATE objects SET refcount = refcount + 1: share the row's key.
BumpObject(u) ==
  /\ pc[u] = "bump" /\ objects[Sha(u)] # None
  /\ LET k == objects[Sha(u)].key IN
       /\ objects' = [objects EXCEPT ![Sha(u)].refcount = @ + 1]
       /\ debt' = [debt EXCEPT ![<<part[u], core[u]>>] = k]
       /\ held' = [held EXCEPT ![u][part[u]] = k]
  /\ Stored(u)
  /\ UNCHANGED <<cores, blobs, files, todo, served>>

\* The row went away since the INSERT conflicted with it: fetch_one fails.
BumpMisses(u) ==
  /\ pc[u] = "bump" /\ objects[Sha(u)] = None
  /\ AcquireFailed(u)
  /\ UNCHANGED <<cores, objects, blobs, files, todo, debt, served>>

\* put_file, or put for the thumbnail.
Put(u) ==
  /\ pc[u] = "put"
  /\ blobs' = [blobs EXCEPT ![held[u][part[u]]] = Sha(u)]
  /\ Stored(u)
  /\ UNCHANGED <<cores, objects, files, held, todo, debt, served>>

\* The backend reports an error, having stored the bytes or not: roll back.
PutFails(u) ==
  /\ "put" \in Faults /\ pc[u] = "put"
  /\ blobs' \in {blobs, [blobs EXCEPT ![held[u][part[u]]] = Sha(u)]}
  /\ Goto(u, "release")
  /\ UNCHANGED <<cores, objects, files, held, todo, debt, served>>

\* INSERT INTO files: the upload is live and its owner gets the links.
InsertFile(u) ==
  /\ pc[u] = "insert"
  /\ files' = [files EXCEPT ![core[u]] =
       [sha |-> want[u].sha, key |-> held[u]["file"], thumb |-> held[u]["thumb"],
        burn |-> want[u].burn, expires |-> want[u].expires]]
  /\ Return(u)
  /\ UNCHANGED <<cores, objects, blobs, todo, debt, served>>

\* Mutant: the roll-back forgets that a thumbnail was acquired, too.
InsertFailsFile(u) ==
  /\ "insert" \in Faults /\ pc[u] = "insert"
  /\ pc' = [pc EXCEPT ![u] = "release"]
  /\ part' = [part EXCEPT ![u] = "file"]
  /\ held' = [held EXCEPT ![u]["thumb"] = None]
  /\ UNCHANGED <<cores, objects, blobs, files, core, want, todo, debt, served>>

\* INSERT INTO files fails: roll back the file, then the thumbnail.
InsertFails(u) ==
  /\ "insert" \in Faults /\ pc[u] = "insert"
  /\ pc' = [pc EXCEPT ![u] = "release"]
  /\ part' = [part EXCEPT ![u] = "file"]
  /\ UNCHANGED <<cores, objects, blobs, files, core, held, want, todo, debt, served>>

(***************************************************************************)
(* Those who remove a file: delete_file and its dashboard form, raw on a   *)
(* burn-after-read file, and the sweeper.  remove_file deletes by id_core  *)
(* whatever row is there.                                                  *)
(***************************************************************************)
\* find_file, then the access check: the caller may delete this file.
FindFile(p) ==
  /\ pc[p] = "idle"
  /\ \E c \in Core :
       /\ files[c] # None
       /\ core' = [core EXCEPT ![p] = c]
       /\ held' = [held EXCEPT ![p]["file"] = files[c].key]
  /\ pc' = [pc EXCEPT ![p] = "remove"]
  /\ UNCHANGED <<cores, objects, blobs, files, part, want, todo, debt, served>>

\* load_live_file: the row is there and not expired, and it burns.
LoadLiveFile(r) ==
  /\ pc[r] = "idle"
  /\ \E c \in Core :
       /\ files[c] # None /\ files[c].burn /\ files[c].expires # "passed"
       /\ core' = [core EXCEPT ![r] = c]
       /\ held' = [held EXCEPT ![r]["file"] = files[c].key]
  /\ pc' = [pc EXCEPT ![r] = "collect"]
  /\ UNCHANGED <<cores, objects, blobs, files, part, want, todo, debt, served>>

\* Mutant: the bytes are streamed to the client before the DELETE.
CollectStreams(r) ==
  /\ pc[r] = "collect" /\ blobs[held[r]["file"]] # None
  /\ Goto(r, "remove")
  /\ served' = served \cup {<<r, core[r]>>}
  /\ UNCHANGED <<cores, objects, blobs, files, held, todo, debt>>

\* Mutant: bytes that are not there yet are waited for.
CollectWaits(r) ==
  /\ pc[r] = "collect" /\ blobs[held[r]["file"]] # None
  /\ Goto(r, "remove")
  /\ UNCHANGED <<cores, objects, blobs, files, held, todo, debt, served>>

\* get_stream and collect_stream: all bytes, or an error to the client.
Collect(r) ==
  /\ pc[r] = "collect"
  /\ IF blobs[held[r]["file"]] # None
     THEN Goto(r, "remove") /\ UNCHANGED held
     ELSE Return(r)
  /\ UNCHANGED <<cores, objects, blobs, files, todo, debt, served>>

\* Mutant: the comparison of expires_at with now() is swapped.
SweepScanSwapped ==
  /\ pc[Sweeper] = "idle" /\ todo = {}
  /\ \E c \in Core : files[c] # None /\ files[c].expires = "later" /\ todo' = {c}
  /\ UNCHANGED <<cores, objects, blobs, files, local, debt, served>>

\* expired_files: a batch of the rows whose time has passed.
SweepScan ==
  /\ pc[Sweeper] = "idle" /\ todo = {}
  /\ LET due == {c \in Core : files[c] # None /\ files[c].expires = "passed"} IN
       /\ due # {}
       /\ todo' \in {s \in SUBSET due :
            Cardinality(s) <= BatchLimit
              /\ (Cardinality(s) = BatchLimit \/ s = due)}
  /\ UNCHANGED <<cores, objects, blobs, files, local, debt, served>>

\* The loop over the batch takes the next row.
SweepNext ==
  /\ pc[Sweeper] = "idle"
  /\ \E c \in todo :
       /\ todo' = todo \ {c}
       /\ core' = [core EXCEPT ![Sweeper] = c]
  /\ pc' = [pc EXCEPT ![Sweeper] = "remove"]
  /\ UNCHANGED <<cores, objects, blobs, files, part, held, want, debt, served>>

\* DELETE FROM files ... RETURNING storage_key, thumb_key.
RemoveRow(p) ==
  /\ pc[p] = "remove" /\ files[core[p]] # None
  /\ held' = [held EXCEPT ![p] = [x \in Part |->
       IF x = "file" THEN files[core[p]].key ELSE files[core[p]].thumb]]
  /\ files' = [files EXCEPT ![core[p]] = None]
  /\ Goto(p, "release")
  /\ UNCHANGED <<cores, objects, blobs, todo, debt, served>>

\* Mutant: the result of the DELETE is ignored.
RowGoneGoesOn(p) ==
  /\ pc[p] = "remove" /\ files[core[p]] = None
  /\ Goto(p, "release")
  /\ UNCHANGED <<cores, objects, blobs, files, held, todo, debt, served>>

\* No row: another request already removed it.
RowGone(p) ==
  /\ pc[p] = "remove" /\ files[core[p]] = None
  /\ Return(p)
  /\ UNCHANGED <<cores, objects, blobs, files, todo, debt, served>>

(***************************************************************************)
(* release_object and the erasure of the bytes, for remove_file and for    *)
(* the roll-backs of an upload.                                            *)
(***************************************************************************)
\* UPDATE objects SET refcount = refcount - 1 WHERE storage_key = $1.
Release(p) ==
  /\ pc[p] = "release"
  /\ LET k == held[p][part[p]]
         r == <<part[p], core[p]>>
     IN /\ objects' = [d \in Digest |->
             IF d \in RowsOf(k) THEN [objects[d] EXCEPT !.refcount = @ - 1] ELSE objects[d]]
        /\ debt' = [debt EXCEPT ![r] = None]
        /\ IF \E d \in RowsOf(k) : objects[d].refcount <= 1
           THEN Goto(p, "purge") /\ UNCHANGED <<held, served>>
           ELSE NextPart(p)
  /\ UNCHANGED <<cores, blobs, files, todo>>

\* Mutant: the DELETE spares a row that is shared again, its result is ignored.
PurgeUnlessShared(p) ==
  /\ pc[p] = "purge"
  /\ objects' = [d \in Digest |->
       IF d \in RowsOf(held[p][part[p]]) /\ objects[d].refcount <= 0 THEN None ELSE objects[d]]
  /\ Goto(p, "erase")
  /\ UNCHANGED <<cores, blobs, files, held, todo, debt, served>>

\* DELETE FROM objects WHERE storage_key = $1, a statement of its own.
Purge(p) ==
  /\ pc[p] = "purge"
  /\ objects' = [d \in Digest |->
       IF d \in RowsOf(held[p][part[p]]) THEN None ELSE objects[d]]
  /\ Goto(p, "erase")
  /\ UNCHANGED <<cores, blobs, files, held, todo, debt, served>>

\* store.delete: a missing key is not an error.
Erase(p) ==
  /\ pc[p] = "erase"
  /\ blobs' = [blobs EXCEPT ![held[p][part[p]]] = None]
  /\ NextPart(p)
  /\ UNCHANGED <<cores, objects, files, todo, debt>>

EraseFails(p) ==
  /\ "erase" \in Faults /\ pc[p] = "erase"
  /\ ReleaseFailed(p)
  /\ UNCHANGED <<cores, objects, blobs, files, todo, debt>>

\* A statement fails and changes nothing.
StatementFails(p) ==
  /\ "sql" \in Faults
  /\ \/ pc[p] \in {"acquire", "bump"} /\ AcquireFailed(p) /\ UNCHANGED served
     \/ pc[p] \in {"release", "purge"} /\ ReleaseFailed(p)
     \/ pc[p] = "remove" /\ Return(p) /\ UNCHANGED served
  /\ UNCHANGED <<cores, objects, blobs, files, todo, debt>>

(***************************************************************************)
(* The environment.                                                        *)
(***************************************************************************)
\* The client disconnects (the handler's future is dropped) or the process
\* dies, at any await; a PUT under way may or may not have stored its bytes.
Cancel(p) ==
  /\ "cancel" \in Faults /\ pc[p] \notin {"idle", "done"}
  /\ IF pc[p] = "put"
     THEN blobs' \in {blobs, [blobs EXCEPT ![held[p][part[p]]] = Sha(p)]}
     ELSE UNCHANGED blobs
  /\ Return(p)
  /\ todo' = IF p = Sweeper THEN {} ELSE todo
  /\ UNCHANGED <<cores, objects, files, debt, served>>

\* Time passes expires_at.
Expire(c) ==
  /\ files[c] # None /\ files[c].expires = "later"
  /\ files' = [files EXCEPT ![c].expires = "passed"]
  /\ UNCHANGED <<cores, objects, blobs, local, todo, debt, served>>

\* Nothing is going on and no request is left.
Quiet ==
  /\ \A p \in Proc : pc[p] \in {"idle", "done"}
  /\ todo = {}
  /\ UNCHANGED vars

Init ==
  /\ cores = {}
  /\ objects = [d \in Digest |-> None]
  /\ blobs = [k \in Key |-> None]
  /\ files = [c \in Core |-> None]
  /\ pc = [p \in Proc |-> "idle"]
  /\ core = [p \in Proc |-> None]
  /\ part = [p \in Proc |-> "file"]
  /\ held = [p \in Proc |-> NoKeys]
  /\ want = [p \in Proc |-> None]
  /\ todo = {}
  /\ debt = [r \in Key |-> None]
  /\ served = {}

UploadStep(u) ==
  \/ ClaimCore(u) \/ ClaimFails(u) \/ InsertObject(u) \/ ConflictObject(u)
  \/ BumpObject(u) \/ BumpMisses(u) \/ Put(u) \/ PutFails(u)
  \/ InsertFile(u) \/ InsertFails(u)

\* What remove_file and the roll-backs do.
ReleaseStep(p) ==
  \/ Release(p) \/ Purge(p) \/ Erase(p) \/ EraseFails(p) \/ StatementFails(p)

RemoveStep(p) == RemoveRow(p) \/ RowGone(p)

Next ==
  \/ \E u \in Upload : UploadStep(u)
  \/ \E p \in Deleter : FindFile(p)
  \/ \E r \in Reader : LoadLiveFile(r) \/ Collect(r)
  \/ SweepScan \/ SweepNext
  \/ \E p \in Remover : RemoveStep(p)
  \/ \E p \in Proc : ReleaseStep(p) \/ Cancel(p)
  \/ \E c \in Core : Expire(c)
  \/ Quiet

Spec == Init /\ [][Next]_vars

(***************************************************************************)
(* The runtime polls every handler that is ready and wakes the sweeper     *)
(* every five minutes: what has begun goes on.  Nothing makes a client     *)
(* send a request, or time pass.                                           *)
(***************************************************************************)
Underway(p) == pc[p] \notin {"idle", "done"}

HandlerStep(p) ==
  Underway(p) /\ (UploadStep(p) \/ Collect(p) \/ RemoveStep(p) \/ ReleaseStep(p))

FairSpec ==
  /\ Spec
  /\ \A p \in Handler : WF_vars(HandlerStep(p))
  /\ WF_vars(SweepScan \/ SweepNext \/ RemoveStep(Sweeper) \/ ReleaseStep(Sweeper))

-----------------------------------------------------------------------------
(***************************************************************************)
(* Properties.                                                             *)
(***************************************************************************)
Holders(k) == {r \in Key : debt[r] = k}

\* Every column and local has a value of its type; in particular the CHECK
\* (refcount >= 0) of table objects never rejects a statement of the code.
TypeOK ==
  /\ cores \subseteq Core
  /\ objects \in [Digest -> ObjectRow \cup {None}]
  /\ blobs \in [Key -> Digest \cup {None}]
  /\ files \in [Core -> FileRow \cup {None}]
  /\ pc \in [Proc -> PC]
  /\ core \in [Proc -> Core \cup {None}]
  /\ part \in [Proc -> Part]
  /\ held \in [Proc -> [Part -> Key \cup {None}]]
  /\ want \in [Proc -> Request \cup {None}]
  /\ todo \subseteq Core
  /\ debt \in [Key -> Key \cup {None}]
  /\ served \subseteq Reader \X Core

\* The refcount of an object is the number of uploads, files, thumbnails and
\* abandoned references that were counted on it and not yet released, and a
\* live file is always among them (acquire_object and release_object agree).
ReferencesCounted ==
  /\ \A d \in Digest : objects[d] # None =>
       objects[d].refcount = Cardinality(Holders(objects[d].key))
  /\ \A c \in Core : files[c] # None =>
       /\ debt[<<"file", c>>] = files[c].key
       /\ files[c].thumb # None => debt[<<"thumb", c>>] = files[c].thumb

\* What is stored under the key of a file is never another file's content,
\* nor a thumbnail's another video's frame, whatever was deleted, expired or
\* uploaded again in between (the promise of try_claim_core, seen from the bytes).
ContentIntegrity ==
  /\ \A d \in Digest : objects[d] # None => blobs[objects[d].key] \in {d, None}
  /\ \A c \in Core : files[c] # None =>
       /\ blobs[files[c].key] \in {files[c].sha, None}
       /\ files[c].thumb # None =>
            blobs[files[c].thumb] \in {ThumbOf[files[c].sha], None}

\* A burn-after-read file is delivered to at most one reader, however many
\* collected its bytes (the DELETE in raw is the atomic winner).
BurnOnce ==
  \A r, s \in Reader, c \in Core :
    <<r, c>> \in served /\ <<s, c>> \in served => r = s

\* remove_file deletes by id_core alone, long after the row was looked up.  The
\* row it finds is the one that was looked up: the file whose deletion was
\* allowed, the file whose bytes were collected, a file that has expired.
RemovesWhatItLoaded ==
  /\ \A p \in Deleter \cup Reader :
       pc[p] \in {"collect", "remove"} /\ files[core[p]] # None =>
         files[core[p]].key = held[p]["file"]
  /\ \A c \in Core :
       files[c] # None /\ (c \in todo \/ (pc[Sweeper] = "remove" /\ core[Sweeper] = c))
         => files[c].expires = "passed"

\* Bytes are erased only once no row of objects refers to them: an upload
\* cannot start to share what release_object is about to erase.
EraseUnlisted ==
  [][\A k \in Key : blobs[k] # None /\ blobs'[k] = None => RowsOf(k) = {}]_vars

\* As long as no PUT fails and no handler is dropped, the object of a row is
\* stored or being stored by the one upload that was told it is new.
BytesBehindRows ==
  \A d \in Digest : objects[d] # None =>
    \/ blobs[objects[d].key] = d
    \/ \E u \in Upload : pc[u] = "put" /\ held[u][part[u]] = objects[d].key

\* A file (or thumbnail) that is stored under a key of its own, because its upload was
\* the one told that the object is new, keeps its row and its bytes until its row of
\* files is deleted, whatever fails and whoever shares them meanwhile and gives them
\* back: what the findings on release_object and acquire_object cost, those pay who share.
OwnBytesStay ==
  \A c \in Core : files[c] # None =>
    /\ files[c].key = <<"file", c>> =>
         RowsOf(<<"file", c>>) # {} /\ blobs[<<"file", c>>] = files[c].sha
    /\ files[c].thumb = <<"thumb", c>> =>
         RowsOf(<<"thumb", c>>) # {} /\ blobs[<<"thumb", c>>] = ThumbOf[files[c].sha]

\* When nothing is under way, no bytes are left that no row refers to, and the refcount
\* of each row is the number of files and thumbnails that name its key, of which there
\* is one: whoever failed has rolled back all it did, and nothing that is live.
References(k) == {r \in Key : files[r[2]] # None /\
                   k = IF r[1] = "file" THEN files[r[2]].key ELSE files[r[2]].thumb}

NothingLeftBehind ==
  (\A p \in Proc : ~Underway(p)) =>
    /\ \A k \in Key : blobs[k] # None => RowsOf(k) # {}
    /\ \A d \in Digest : objects[d] # None =>
         /\ References(objects[d].key) # {}
         /\ objects[d].refcount = Cardinality(References(objects[d].key))

\* The service keeps the promise of FileVault: an upload reserves its core, its
\* INSERT INTO files publishes it, and any DELETE retires it for good.
Status(c) ==
  IF c \notin cores THEN "free"
  ELSE IF files[c] # None THEN "live"
  ELSE IF \E u \in Upload : core[u] = c THEN "reserved" ELSE "gone"

StatusOf == [c \in Core |-> Status(c)]
ContentOf == [c \in Core |-> IF files[c] = None THEN None ELSE files[c].sha]

Vault == INSTANCE FileVault WITH status <- StatusOf, content <- ContentOf

KeepsVault == Vault!Spec

\* Every expired file is removed in the end, even if a sweep takes a batch only.
ExpiredIsSwept ==
  \A c \in Core :
    (files[c] # None /\ files[c].expires = "passed") ~> (files[c] = None)

\* Every request is answered.
HandlersFinish == \A p \in Handler : Underway(p) ~> ~Underway(p)

(***************************************************************************)
(* What the repository says of this code and the runs refute.              *)
(***************************************************************************)
\* migrations/0002_expansion.sql: "delete order is object-after-last-row,
\* enforced in code with row locks".  The row of objects (and with it the
\* bytes) outlives every file that refers to it.
ObjectOutlivesFiles == \A c \in Core : files[c] # None => RowsOf(files[c].key) # {}

\* acquire_object: "when is_new the caller must PUT the bytes, otherwise
\* another row already owns an object with this hash".  Once every upload is
\* over, a file that has a row of objects has bytes.
SharedObjectHasBytes ==
  (\A u \in Upload : ~Underway(u)) =>
    \A c \in Core : files[c] # None /\ RowsOf(files[c].key) # {} =>
      blobs[files[c].key] # None

\* raw: "Collect first so a transient storage failure does not consume the one
\* successful read".  A reader that has removed the row delivers the file.
RemovedIsDelivered ==
  [][\A r \in Reader : pc[r] \in {"release", "purge", "erase"} /\ pc'[r] = "done"
       => <<r, core[r]>> \in served']_vars
=============================================================================
