# uwuubox in TLA+

Specifications of uwuubox, a file and paste host: a Rust web service on
PostgreSQL (metadata) and a local directory or S3 bucket (bytes). The modules
are translated from the code under `src/src`; TLC checks them on small instances,
and TLAPS proves the main results for every value of the constants.

- [Inventory](#inventory)
- [What is modelled](#what-is-modelled)
- [Runs](#runs)
- [Proofs](#proofs)
- [Findings](#findings)
- [What is not modelled](#what-is-not-modelled)
- [Plan](#plan)

## Inventory

The process runs on tokio. Every request is a task of its own; it shares with the
others the database pool, the storage backend and three structures in memory (the
limiter of anonymous uploads, the cap on request bodies, the metrics). A handler
is dropped at an await when its client disconnects. Two background tasks run for the
life of the process: the expiry sweeper (every 5 minutes) and the refresher of
the body cap (every 15 seconds). Very few operations open a transaction: a
sequence of SQL statements is almost always a sequence of transactions.

| Component | State | Operations | Correct when | Hard because |
|---|---|---|---|---|
| Objects and files (`db.rs`, `routes/upload.rs`, `routes/files.rs`) | tables `used_id_cores`, `objects` (refcounted by SHA-256), `files`; bytes by key | upload, delete, burn-after-read, back-fill of thumbnails | refcounts are exact, a core never resolves to two contents, bytes live as long as a file needs them, a burn is delivered once | refcounts change in several statements, interleaved with calls of the backend |
| Expiry sweeper (`expiry.rs`) | a batch of rows | `run_once` | everything expired goes, nothing else | acts on rows read earlier |
| Garbage collector (`routes/gc.rs`) | an inventory of keys | `inspect`, `reclaim` | only unreferenced bytes go | decides on an old inventory |
| Storage (`storage.rs`, `object_crypt.rs`) | files or S3 objects | `put`, `put_file`, `get_stream`, `get_range_stream`, `delete`, multipart | stores all the bytes, sends what was asked for or fails | three cooperating tasks, errors in each; chunks, spans and objects that lack their end |
| Pastes (`routes/pastes.rs`) | table `pastes` | create, view, raw, delete, visibility | as files, without objects | burn, sweep and delete race |
| Upload policy (`db.rs`, `ratelimit.rs`, `body_limit.rs`) | quotas, roles, limiter | `effective_limits`, `storage_used`, `check` | limits hold under concurrency | check, then act |
| Ranges and expiry (`range.rs`, `ids.rs`) | none | `parse`, `clamp_expiry` | right at every boundary | arithmetic on edges |
| Accounts (`routes/accounts.rs`, `identity.rs`, `auth.rs`) | tables `users`, `api_tokens`; sessions | register, login, profile, avatar, tokens | an admin, an avatar that exists, a session that is its user's | reads before inserts, copies of sessions |
| Invites (`routes/invites.rs`) | uses of codes | `redeem`, `create_user`, revoke | at most `max_uses` accounts | concurrent redemption |
| OIDC (`oidc.rs`) | session state, `oidc_identities` | login, link, callback | an identity has one account | flows share session keys |
| Roles (`routes/roles.rs`) and admin (`routes/admin.rs`, `config.rs`) | `roles`, `instance_config`, body cap | edit, grant, group mapping | configuration stays valid, no lost edits, an admin remains | read, modify, write |
| Password reset (`routes/reset.rs`) | `password_resets` | forgot, reset | a link works once, for an hour | two links, two submissions |
| Passkeys (`routes/passkeys.rs`) | credentials, counters, session state | register, authenticate | the counter advances, a ceremony is used once | concurrent assertions |
| Collections, comments | items with positions; rows | add, remove, reorder | positions identify items | partial locking |
| Audit, metrics, views, scanning, MIME | append-only or none | | | |

The components interact through the tables. `remove_file` is shared by the delete handlers,
the dashboard, the burn-after-read path of `raw` and the sweeper;
`acquire_object` and `release_object` by uploads, thumbnails and `remove_file`;
`try_claim_core` by uploads and pastes; the collector reads and deletes what all of
them write. `PROJECT.json` lists the hazards, each at the line where it bites.

## What is modelled

**`FileVault`** is the abstract specification: what the service promises of an id
core. A core is reserved by one upload, published with one content or abandoned,
removed, and never used again; a burn-after-read content is delivered to one
reader, after it is gone. It says nothing of objects, keys, refcounts or bytes. Three modules implement it, each
under a mapping of its own: `ObjectStore` (`KeepsVault`), `GarbageCollector`, to which it means that the collector takes nobody's
content away, and `Publishing` (`KeepsCores`), whose pastes have no objects. **`OrderedItems`**
is the abstract specification of a collection: a list, without positions or locks (`KeepsList`).

**`ObjectStore`** is the detailed one.

| Variable | In the code |
|---|---|
| `cores` | table `used_id_cores` |
| `objects` | table `objects` by `sha256`: storage key and refcount |
| `files` | table `files` by `id_core`: digest, `storage_key`, `thumb_key`, burn flag, whether `expires_at` has passed |
| `blobs` | the storage backend: the digest of what is stored under a key |
| `pc`, `core`, `part`, `held`, `want` | the locals of a handler between two awaits |
| `todo` | the rest of the sweeper's batch |
| `debt`, `served` | history only: the key each reference was counted on, and who was delivered what. No guard reads them |

A storage key is the pair of its directory (`file` or `thumb`) and a core, as
`file_key` and the format string of `store_thumbnail` make it; the extension is
left out (a core has one). Contents are their digests, equal exactly when the bytes
are. `ThumbOf` maps a video to the digest of its frame, which may also be
a content that somebody uploads.

Each SQL statement and each call of the backend is one step, since each
statement is its own transaction. What comes before the claim of the core in `upload_inner`
(policy, body, scan) touches none of these tables and is part of the choice of a `Request`.

| Code | Actions |
|---|---|
| `upload_inner`: `try_claim_core` loop | `ClaimCore`, `ClaimFails` |
| `acquire_object`: INSERT, conflict, UPDATE | `InsertObject`, `ConflictObject`, `BumpObject`, `BumpMisses` |
| `put_file`, and `put` in `store_thumbnail` | `Put`, `PutFails` (the bytes may be there nevertheless) |
| INSERT INTO files and its roll-back | `InsertFile`, `InsertFails` |
| `delete_file`, `dashboard_delete_file` | `FindFile` |
| `raw` on a burn-after-read file | `LoadLiveFile`, `Collect` |
| `run_once` | `SweepScan`, `SweepNext` |
| `remove_file`: DELETE ... RETURNING | `RemoveRow`, `RowGone` |
| `release_object`: UPDATE, DELETE | `Release`, `Purge` |
| `store.delete` | `Erase`, `EraseFails` |
| any statement fails | `StatementFails` |
| a handler is dropped, or the process dies | `Cancel` |
| time | `Expire` |

The part a handler goes on with is computed by `NextPart`, the common shape of
the second half of `remove_file`, of the roll-back after a failed INSERT (file, then
thumbnail) and of the roll-back of a thumbnail (then back to the upload). What
differs is what a failure does: `remove_file` returns it (`?`), a roll-back logs it
and goes on (`ReleaseFailed`).

`Cancel` of the sweeper stands for the death of the process; in the model the other handlers need
not die at the same time, which allows more than the code does. `Faults` says which
kinds of failure a run has.

**`GarbageCollector`** extends `ObjectStore` with the collector of `routes/gc.rs` and with the
uploads of avatars, which share the backend but have no row of `objects`. `StoreStep` is any
step of `ObjectStore` that changes no row the collector's transaction has locked (in the code such a
statement waits).

| Variable | In the code |
|---|---|
| `avatars`, `pictures` | `users.avatar_key`; the keys under `avatars/` |
| `apc`, `draft` | the locals of `upload_avatar`: the user, the new key, the key `current_user` read |
| `gpc`, `inventory`, `orphans`, `key` | where `run` is, what `inventory` listed, what of the report is still to be reclaimed, the key in hand |
| `locked` | the rows locked by `SELECT ... FOR UPDATE` |
| `alone` | history only: nobody but the collector has done anything since its listing |
| `sole`, `steady` | history only: an upload of an avatar has had neither another one of its user nor the collector beside it; such a one was the last to touch the user's avatar |

| Code | Actions |
|---|---|
| `upload_avatar` | `LoadUser`, `PutAvatar`, `DropOldAvatar`, `SetAvatar`, `AvatarFails` |
| `inventory`: `files/`, then `avatars/` | `ListFiles`, `ListAvatars` |
| `inspect`: SELECTs of `objects` and `users` | `ReadObjects`, `ReadUsers` |
| `reclaim`, per orphan: BEGIN and lock, EXISTS, `store.delete`, DELETE and COMMIT | `Begin`, `Check`, `Reclaim`, `Commit` |
| end of a run; an error or a dropped request | `Finish`, `GiveUp` |

A dry run is a run that gives up before `Begin`. `inspect` also reads the keys of `files`, but only to
report missing bytes, which `reclaim` skips; `Check` asks `files` again. A
listing takes time in the code; here a prefix is listed in one step, which loses nothing for
properties that speak of one key at a time, since all that is used of a listing is whether each key was
there at some moment before the tables were read. One collector runs at a time; two would
exclude each other only on rows.

**The other modules** are about requests that touch other tables. They share nothing but `Common`
(the value `None`), and each models the handlers of one subject, statement by statement:
between two statements, or between a statement and a row lock that is held by somebody else, every other handler may
run. A request that is dropped, and a statement that fails, is an action of its own
(`RegistrationFails`, `HandlerFails`, `LoginFails`, `FormFails`, `RollBack`, `VisitFails`, `CallFails`, `Fails`, `Dropped`, `FillFails`); what a
transaction has not committed is then gone.

| Module | State | Code and actions |
|---|---|---|
| `Registration` | `instance_config.registration_mode`, `users`, `invite_codes` with redemptions, `oidc_identities`; the handlers' locals | `register_post` and `callback`: `RegisterPost`, `Callback`, `FindSubject`, `CountUsers`, `InsertUser`, `LinkSubject`; `invites::create_user`: `BeginRedemption`, `Redeem`, `InsertUser`; the admin's forms: `Authorize`, then `SetAdmin`, `CreateInvite`, `RevokeInvite`, `SetMode`; time: `Lapse` |
| `Sessions` | the session table, the copies that handlers have of a record, `passkeys`; history: what an id was minted for, what a challenge was issued for, how often an assertion signed in | the session layer: `Load`, `Save`, `SignsIn` (`cycle_id`); `login_post`, `logout`, `login`, `link_start`, `callback`; the two ceremonies of `passkeys.rs`; the authenticator: `SignChallenge` |
| `Roles` | `roles`, `role_oidc_groups`, `users.role_id` | `apply_group_role`: `ReadUser`, `SelectMapping`, `AssignRole`; the forms: `ReadRole`, then `CreateRole`, `DeleteRole` (with its foreign keys), `SetUserRole`, `SetMapping` |
| `PasswordReset` | `password_resets`, mails under way, open transactions with their locks | `forgot_post`: `IssueLink`, `MailSent`, `MailFails`; `reset_post`: `BeginReset`, `UseLink`, `SetPassword`, `DeleteOthers`, `CommitReset` |
| `Publishing` | `files` and `pastes` as far as these handlers see them, `used_id_cores`, `comments`, the cores a session has unlocked; history: who was served what (`served`) | `create_paste`: `ClaimCore`, `InsertContent`; `unlock`, `raw_paste`: `RawPaste`, `Burn`, `SendBody`; visibility, deletion, comments: a find and a statement each; the sweeper: `ScanPastes`, `SweepPaste` |
| `Collections` | one row of `collections` with its lock, `collection_items` | `add_item`: `AddItem`, `LockToAdd`, `NextPosition`, `InsertItem`; `reorder`: `LockToReorder`, `CheckOrder`, `WriteOrder`; `remove_item`, `create`, `update`, `delete` |
| `ObjectWrites` | one call of `put_file`: the pump, the forwarder, two bounded channels, the temporary file with the write to it that is under way or has failed (`hand`, `lost`), or the parts in flight | the tasks' steps: `ReadPiece`, `SendPiece`, `PeekFirst`, `PeekSecond`, `Forward`, `AppendPiece`, `Rename`, the thread of the file: `WritePiece`, `WriteFails`, `CreateUpload`, `TakePart`, `SpawnPart`, `PartArrives`, `PartFails`, `Drained`, `AbortUpload`, `CompleteUpload`, `JoinPump` |
| `ObjectReads` | one download: an object (plain, sealed as a whole, sealed in chunks; possibly without its end), the `Range`, what has been sent | `range::parse`, `raw`, the probe, `raw_stream`, `raw_span_stream`, `decrypt_if_needed`, `get_stream` and `v2_span_stream` |
| `Configuration` | rows of `instance_config`, the live cap | `update_config`: `ReadConfig`, `WriteConfig`, `StoreCap`; the refresher: `RefreshRead`, `RefreshSwap` |
| `Feeds` | a list that changes while a reader pages through it | `explore::page`, `accounts::profile`, `comments::list`: `QueryFirst`, `Answer` |
| `Quotas` | sizes of a user's files, the limits an upload has read; history: what other uploads have stored since it read `storage_used` (`newer`) | `upload_inner` up to the INSERT: `ReadLimits`, `ReadUsed`, `Spool`, `BodyEnds`, `InsertFile` |
| `Thumbnails` | one video's row, the row of `objects` of its frame, the bytes under `thumbs/` | `ensure_thumbnail`: `FindBare`, `InsertFrame`, `BumpFrame`, `PutFrame`, `LinkFrame`; `rollback_thumbnail` and the thumbnail's part of `remove_file`: `RemoveVideo`, `ReleaseFrame`, `PurgeFrame`, `EraseFrame` |
| `Lifetimes` | the limits of instance and role | `effective_limits`, `clamp_expiry`, `roles::validate` as operators; who edits what: `SetInstance`, `SetRole`, `Resolve` |

How some data is abstracted. `Registration` names a user by the username, which is unique and never
changes. A position in `Collections` is a number up to `Top`, which stands for the end of the column
(positions are `i64` in the request and `INTEGER` in the table). A plaintext byte in `ObjectReads` is its position,
any byte of a sealed object is 0: that a chunk opens is decided by its place and its length, as the nonce and the
tag decide it. `ObjectWrites` numbers the pieces of the spool file, as many as the pump finds in it, and a write that failed has
written nothing of its piece. A write of a local file is a step of its own, taken while the call goes on, since tokio's `File` hands the bytes to a thread
and reports an error with the next use of the file; `stream_write` neither flushes nor uses it again after the last piece. A locked row is a
conjunct of the guard of whoever wants it; a deadlock of two transactions, of which PostgreSQL
aborts one, is `RollBack`. A user is a session or a token; a token without the scope that a handler asks for is nobody.

**`MCObjectStore`**, **`MCGarbageCollector`**, **`MCRegistration`** and **`MCSessions`** give the constants values for TLC.
**`MCRequests`** puts instances of eleven modules side by side: the first state names the part that a behaviour is
about, and the others keep still, so that one run explores the sum of their states and not the product.
The eight modules whose names end in `Proofs`
hold the theorems: `ObjectStoreProofs`, `GarbageCollectorProofs`, `SessionsProofs` and `RegistrationProofs` those about the module they
are named after, `ContentsProofs`, `PolicyProofs` and `TransfersProofs` those about several modules each, and `RequestsProofs` those about
the eleven of `MCRequests` together ([Proofs](#proofs) says which). The operators whose comment begins with "Mutant" are plausible
mistakes in the definition that follows; no specification uses them. Each property of
a passing run is violated when the definition named in `PROJECT.json` is replaced by its mutant.

## Runs

Deadlock is checked where the system goes on: in the runs of `MCObjectStore` and `MCGarbageCollector` a state in which
nothing is under way and no request is left stutters by `Quiet`, any other state without a
successor is an error; in `registration` and `sessions` requests come for ever. The parts of `requests` end (a
download, a call of `put_file`, a list that is read), and it does not check deadlock: that nobody waits for ever in `put_file` is `TasksEnd`.

Five invariants have a theorem and no run of their own: the type invariants of `GarbageCollector` and `Sessions`, `PositionsDistinct` and `AppendsLast`,
which `KeepsList` implies, and `SomebodyGoesOn`, which `TasksEnd` does. So does the action property `StepsRunOut`.

| Run | Instance | Shows |
|---|---|---|
| `store_shared` | 3 uploads, 2 deleters, sweeper with batches of 2, 3 cores, INSERTs into files fail; 1,045,352 states | `BytesBehindRows`, `NothingLeftBehind` |
| `store_faults` | 2 uploads, 1 deleter, 2 readers, sweeper with batches of 1, 2 cores, all faults; 208,710 states | `TypeOK`, `ReferencesCounted`, `ContentIntegrity`, `BurnOnce`, `RemovesWhatItLoaded`, `OwnBytesStay`, `EraseUnlisted`, `KeepsVault` |
| `store_live` | 2 uploads, 1 deleter, 1 reader, sweeper, PUT and delete failures; 94,507 states | `ExpiredIsSwept`, `HandlersFinish` |
| `object_outlives_files`, `shared_object_bytes`, `removed_is_delivered` | the smallest instances that show each | the [findings](#findings) |
| `collector` | 2 uploads of one content, sweeper, the collector, 1 user with 1 upload of an avatar at a time in 2 formats, all faults; 1,273,188 states | `ReclaimsUncounted`, `LeavesClean`, `AvatarStored` |
| `reclaims_unreferenced` | the collector and one upload of an avatar | a [finding](#findings) |
| `registration` | 2 registrations, 1 admin's form, 3 names, 1 invite for 1 use, 1 identity; 1,824,945 states | `RegTypeOK`, `InvitesNotOverspent`, `AdminRemains` |
| `sessions` | 2 requests, 2 session ids, 2 users, 2 challenges; 5,038,335 states | `SignInMintsId`, `PasskeyOwner`, `OneSignInPerAssertion` |
| `requests` | eleven parts, see below; 443,040 states | their 19 properties |
| `sealed_fails_closed` | the downloads of `requests` | a [finding](#findings) |

What the properties say:

- `ReferencesCounted`: a refcount is the number of references counted and not yet given back,
  and each live file is one of them. It holds with every fault: a crash leaks
  references, it never loses one.
- `ContentIntegrity`: what is stored under the key of a live file is that file's content or nothing.
- `BurnOnce`: one delivery at most, however many readers collected the bytes.
- `RemovesWhatItLoaded`: `remove_file` deletes by `id_core`, some awaits after the row was
  authorised, collected or found to be expired; it never hits another row.
- `EraseUnlisted`: bytes are erased only while no row of `objects` lists them.
- `BytesBehindRows`, `NothingLeftBehind`: every row of `objects` has its bytes or one upload storing them, and when all is quiet no bytes
  are without a row and each refcount is the number of files and thumbnails that name the row's key, also
  after uploads whose INSERT failed have given back both of their objects (`upload.rs:337`).
  With other faults both fail, as the code accepts: a crash leaves things for the garbage collector.
- `KeepsVault`: every behaviour is one of `FileVault`, under `StatusOf` and `ContentOf`.
- `OwnBytesStay`: a file (or thumbnail) that its upload stored under a key of its own keeps its row of `objects` and its bytes until its row of `files`
  goes, whatever fails and whoever shares them meanwhile. What findings 1 and 2 cost, only those who share pay.
- `ExpiredIsSwept`, `HandlersFinish`: liveness.
- `ReclaimsUncounted`: at the moment the collector erases the bytes of a key, no reference is counted on
  a row with that key, although it chose the key from lists read long before and
  `FOR UPDATE` locks nothing when there is no row.
- `LeavesClean`: a run that nobody disturbs ends with no unreferenced file, avatar or row, whatever crashes
  came before it. Thumbnails are left out because `inventory` does not list `thumbs/`: their
  bytes, once leaked, stay.
- `AvatarStored`: the avatar that an upload has set stays stored, whatever its type, whatever other users, the collector and uploads of
  the same user that fail do later. It is about uploads that ran beside neither the collector (finding 4) nor another upload of their user (`accounts.rs:415`).

- `InvitesNotOverspent`: `uses` is the number of accounts an invite made and at most `max_uses`, although the
  UPDATE that counts and the INSERT that may fail are two statements; the row lock in between is what it rests on.
- `AdminRemains`: an instance with users has an admin, although the count that makes the first user one
  is read before the INSERT. For one admin's form at a time: two admins who revoke each other
  at the same time leave none (`admin.rs:221` compares with the caller only).
- `SignInMintsId`: a session id that was ever handed out before a sign-in never speaks for the user, in whatever order copies of records
  are saved. `PasskeyOwner`: a credential is the user's whose challenge it was made for, and that challenge was issued to register one. `OneSignInPerAssertion`: the
  counter under `FOR UPDATE` makes an assertion good for one sign-in, though the challenge may be in two copies of the session. For
  authenticators that count; one that always shows 0 is let through by `passkeys.rs:299`.
  A passkey is registered with whatever counter its authenticator shows (`passkeys.rs:175`).
- `RolesSticky`: a login only fills an empty role, and what the forms assign is never undone by one that read before them.
- `ResetSupersedes`: the link that changes a password was issued after every earlier change of it.
- `BurnOnce` (of `Publishing`): the body of a burn-after-read paste goes out once. `LockedForStrangers`: only to who has given
  its password, although sessions remember cores. `CommentsKeepTheirSubject`: comments outlive what they are
  about, and never turn up under something else; like `KeepsVault` it rests on cores being issued once. `KeepsCores`: pastes are a `FileVault`.
- `KeepsList`: a collection is a list to its owner: positions identify items, an item that is added comes last, removing some leaves the others in order, and a
  reorder that was checked before a removal or an addition adds and loses nothing. (`PositionsDistinct` and `AppendsLast` are two parts of it.)
- `StoredWhole`: what is stored is a prefix of the file in its order, and all of it if the call returns Ok, with two exceptions that the code makes. An error of the pump is dropped if
  one piece was all it had read (`storage.rs:672`). And a local file is renamed without a flush (`storage.rs:425`): the object may lack its last piece after the call has
  returned Ok, until the write of it ends, and for good if that fails. TLC finds both when they are taken out of the property. `PartsEndFirst`: no part is in flight once the call has returned. `TasksEnd`: pump and forwarder end, whatever the call or the backend does.
  Its two halves are safety properties, which are proved: `SomebodyGoesOn` (the call, its tasks and its parts never all wait for one another, however full the channels) and `StepsRunOut` (every step, a failure
  included, uses up one of the steps that the size of the file allows).
- `ThumbnailOnce`: however many crawlers start to make the same thumbnail, what the losers give back is theirs, so that
  the winner's stays as long as the file, and is counted once when all are done. A failed PUT excepts it, by
  [finding](#findings) 2, and the frame is nobody else's, by finding 1.
- `SentPrefix`, `EndsWhole`: what is sent is the bytes asked for from the first one on; a body that ends without an error is all of them. The exceptions in the code are a failed
  probe (see [finding](#findings) 5) and a plain object that lacks its end, of which only `Content-Length` tells.
- `ConfigValid`: edits that overlap never add up to a configuration that does not validate, since each writes all the keys. `CapFollows`: the live cap ends up as the configuration has it.
- `FeedComplete`: following `has_next`, a reader misses at most one item for each that is withdrawn meanwhile.
- `QuotaKept`: the file that an upload stores and what it found of its user's files, less what was deleted since, are within the quota it read, however uploads
  of one user overlap. Together they may exceed it (`upload.rs:93`): by what others have stored since it looked, and by nothing else.
- `LifetimeInLimits`: a lifetime is within limits that were validated together, and "never" needs the instance's consent.

**Bounds.** Each handler instance serves one request; three uploads are the fewest with
which an object is inserted, shared and shared again while a removal is between its
statements. Two digests, one the thumbnail of the other, give sharing between
files, between thumbnails and between the two. The cores are as many as the
uploads: every upload may claim one, and a mutant that reuses a core is found. `BatchLimit` is 500
in the code; 1 and 2 make a sweep stop before all is done. Cores and handlers
are interchangeable, so the runs of safety properties use symmetry; `store_live` and `requests`, which check liveness, do not.

In the other runs two requests race for one thing (an invite, a link, a paste, a lock), and what they race
for exists once. `Registration` has three names, for two requests besides the admin that the forms need. `Sessions` has one challenge for a
passkey and one for a sign-in with it, and the counter 1; a second user shows whether anything changes hands. `ObjectWrites` has files of up to 5 pieces, a channel of 1 and 2 parts in flight, so that both channels fill up and
parts wait for a permit. `ObjectReads` has up to 5 bytes in chunks of 2, and every length that may be missing. `Feeds` has 4 items and pages of 1, `Quotas` files of 1 to 3 bytes, `Lifetimes` limits of 1 to 3 seconds. `Thumbnails` has
three back-fills, of which one may have made, one shared and one missed the object, a removal, and one failure of each kind (`Mishaps`), as a link that fails leaves a reference behind each time. `Twice` and `Often` bound histories that
only need to tell one from more than one.

**Fairness.** `FairSpec` has weak fairness for each handler's own statements, since the
runtime polls every task that is ready and the database answers or fails, and for the sweeper, whose loop
in `spawn` never ends. Requests, the passing of time and dropped handlers
have none. `store_live` leaves out dropped handlers and failing statements: with statements that may
fail for ever, no sweep need ever succeed. `WritesFairness` is weak fairness of each task of `put_file`, of the answers to its requests and of the end of a write that is under way (it succeeds or fails), by the same
argument. `ConfigFairness` is weak fairness of the refresher's tick, an interval that runs for the life of the process, and of what follows it; edits need
no fairness, since an edit that stops leaves the cap to the refresher.

## Proofs

`ObjectStoreProofs` proves for every set of cores, digests, requests and
handlers, every `ThumbOf`, every `BatchLimit` and every combination of faults (assumptions
`DataAssumption`, `ProcAssumption`: finitely many cores, disjoint handlers, `None`
is none of the values it stands beside):

| Theorem | States |
|---|---|
| `Inductive` | `Spec => []IInv` |
| `TypeCorrect` | `Spec => []TypeOK` |
| `RefcountsAreExact` | `Spec => []ReferencesCounted` |
| `KeepsContents` | `Spec => []ContentIntegrity` |
| `OwnBytesKept` | `Spec => []OwnBytesStay` |
| `BurnsOnce` | `Spec => []BurnOnce` |
| `RemovesRightFile` | `Spec => []RemovesWhatItLoaded` |
| `ErasesUnlisted` | `Spec => EraseUnlisted` |
| `RowsHaveBytes` | `Spec => []BytesBehindRows`, if no PUT fails and no handler is dropped |
| `RollsBackAll` | `Spec => []NothingLeftBehind`, if nothing but PUTs and INSERTs into files fails |
| `ImplementsVault` | `Spec => KeepsVault` |

The two with a hypothesis on `Faults` are false without it, as the code accepts: a PUT that fails behind an upload that shares the
row, a crash, or a `delete` that fails each leave something behind. The run
`store_shared` checks both where INSERTs into files fail; the theorems allow more faults, the first any but failing PUTs and dropped handlers.

None of the properties is inductive. `IInv` adds to `TypeOK`:

- `Shape`: what the program counter of a handler says about its locals.
- `Ownership`: a core has at most one owner (the upload that claimed it, then its row,
  then whoever deleted the row), and none while it is free. The DELETE is what hands
  it over, which is why two removers never release the same reference.
- `Lookups`: what a deleter, a reader or the sweeper has looked up was published, so no
  upload works on it any more, and the row is that one or gone.
- `Freshness`: the keys of a core not yet claimed, or not yet acquired, are mentioned
  nowhere. It needs the permanence of `used_id_cores`, and gives that INSERT INTO objects starts from nothing.
- `Debts`: the key that an owner holds is the one its reference is counted on.
- `Counts`: rows have distinct keys and exact refcounts.
- `Erasures`: a handler about to erase holds a key that no row has.
- `Deliveries`: what was delivered is gone and has no owner.

Each part has a lemma that every step preserves it; most rest on one that says how a
step may change what the part speaks of (`OwnerStep`, `LookupStep`, `HeldStep`,
`DebtStep`, `RowStep`, `BlobStep`, `CountStep`), with one case per action.
`TypeOK` needs `Counts`: that `refcount - 1` is a natural number is exactly
that the released reference was counted.

Four properties need more, which every step keeps in a state of `IInv`:

- `ContentIntegrity`: `Agreement`. Rows, bytes, live files and uploads each take a key for a content (`Binds`), and all
  of them for the same one. A step makes a new binding only of a key that already bound that content, or of the key of a fresh core.
- `OwnBytesStay`: `OwnRows` and `OwnBytes`. A reference that is counted on its own key has a row, and who is about to purge a row does not
  hold such a reference; what is published, or stored and about to be, under a key of its own has its bytes. A row keeps its key as long as it is there, so that nobody else's release is the last.
- `BytesBehindRows`: it is inductive together with `IInv` and `Agreement`. A row that is shared while its bytes are on their way keeps the one
  handler that stores them, and bytes are erased only when no row has their key.
- `NothingLeftBehind`: `Cleanup`. Bytes have a row or a handler about to erase them (`BytesListed`), a row with no reference has a handler about to
  purge it (`ZeroPurged`), and a row that an upload stores the bytes of is not about to be purged (`PutsListed`). `Owed` is the converse of `Debts`: each counted
  reference is a file's, or a handler has it in hand and goes on until it has given it back (`OweStep`).

`GarbageCollectorProofs` adds, under `AvatarAssumption` (keys of avatars are not keys of files,
as their directories differ):

| Theorem | States |
|---|---|
| `GCInductive` | `GCSpec => []GCIInv` |
| `GCTypeCorrect` | `GCSpec => []GCTypeOK` |
| `CollectorKeepsRefcounts` | `GCSpec => []ReferencesCounted` |
| `CollectorKeepsContents` | `GCSpec => []ContentIntegrity` |
| `CollectorKeepsOwnBytes` | `GCSpec => []OwnBytesStay` |
| `CollectorKeepsVault` | `GCSpec => KeepsVault` |
| `CollectorReclaimsUncounted` | `GCSpec => []ReclaimsUncounted` |
| `CollectorLeavesClean` | `GCSpec => []LeavesClean` |
| `AvatarsStayStored` | `GCSpec => []AvatarStored` |

`GCIInv` is `IInv`, the types, `Locking` (the transaction has locked exactly the rows of its key, which
count nothing once checked) and `AllSpent`: whatever key the collector has seen in
the backend or in a row belongs to a reference that no upload has still to acquire. A step of `ObjectStore` keeps
`IInv` by its own proof; the collector's steps keep it because they only take rows and bytes
away (`TakingAway`). `AllSpent` is what makes the missing lock harmless: a key without a row never
gets one (`NoNewRow`), since cores are issued once and an upload acquires each reference
once (`SpentStep`).

`LeavesClean` says something of a run that nobody disturbs, so its invariant is `alone => Progress`: what is stored was listed, what was listed and is
not referenced was reported, what was reported is still to be reclaimed or gone, and the key in hand is erased once its turn is over.

`CollectorKeepsOwnBytes` adds that the key the collector erases has no counted row (`CollectorSparesOwn`). `AvatarStored` is kept by
`AvatarInv`: a user's avatar and the one an upload is about to delete are keys of that user (`OwnKeys`), who is alone has neither the collector nor another
upload of the user beside it (`SoleAlone`), has stored what it will set and deletes another key (`SoleStored`), and the collector, past its check, is about to erase
no avatar that such an upload has set (`SparesSteady`).

Five modules are about the rest. None of their properties is inductive; each invariant is the types, what the handlers' locals say of the tables, and the properties:

| Module | About | Theorems | Properties |
|---|---|---|---|
| `ContentsProofs` | `Publishing` | `PubInductive`, `PubTypeCorrect`, `BurnsOnce`, `CommentsStay`, `PasswordsAsked`, `PastesImplementVault` | `BurnOnce`, `CommentsKeepTheirSubject`, `LockedForStrangers`, `KeepsCores` |
| | `Collections` | `ColInductive`, `ColTyped`, `PositionsStayDistinct`, `AdditionsAppend`, `ImplementsList` | `PositionsDistinct`, `AppendsLast`, `KeepsList` |
| | `Feeds` | `FeedInductive`, `FeedTyped`, `NothingSkipped` | `FeedComplete` |
| `TransfersProofs` | `Thumbnails` | `ThumbInductive`, `ThumbsTyped`, `ThumbnailsOnce` | `ThumbnailOnce` |
| | `ObjectWrites` | `WritesInductive`, `WritesTyped`, `FilesStoredWhole`, `PartsEndInTime`, `NobodyDeadlocks`, `StepsAreFew` | `StoredWhole`, `PartsEndFirst`, `SomebodyGoesOn`, `StepsRunOut` |
| | `ObjectReads` | `ReadsInductive`, `ReadsTyped`, `SendsInOrder`, `EndsAreWhole` | `SentPrefix`, `EndsWhole` |
| `SessionsProofs` | `Sessions` | `SessionsInductive`, `SessionsTyped`, `SignInMints`, `PasskeysOwned`, `AssertionsSpentOnce` | `SessionsTypeOK`, `SignInMintsId`, `PasskeyOwner`, `OneSignInPerAssertion` |
| `RegistrationProofs` | `Registration` | `RegInductive`, `RegTyped`, `InvitesKept`, `AdminStays` | `RegTypeOK`, `InvitesNotOverspent`, `AdminRemains` |
| `PolicyProofs` | `PasswordReset` | `ResetInductive`, `ResetTyped`, `LinksSuperseded` | `ResetSupersedes` |
| | `Roles` | `RolesInductive`, `RolesTypeCorrect`, `AssignmentsStick` | `RolesSticky` |
| | `Configuration` | `ConfigInductive`, `ConfigTypeCorrect`, `ConfigStaysValid` | `ConfigValid` |
| | `Lifetimes` | `LifetimesTyped`, `LifetimesInLimits` | `LifetimeInLimits` |
| | `Quotas` | `QuotaInductive`, `QuotasTyped`, `QuotasKept` | `QuotaKept` |

`RequestsProofs` puts them together, for the system that `MCRequests` runs, with any constants: each part goes through behaviours of its own specification or keeps
still (`PartsBehave`), so that every part is typed (`PartsTyped`, about `TypeOK`) and every safety property proved of a part is kept beside the others
(`PartsKeepTheirPromises`).

- `ColIInv`: one transaction has the lock of the collection's row, and what it has read under it, the last
  position or the items to be put in order, is still so when it writes (`ReadyToInsert`, `ReadyToReorder`), which maps
  every step to one of `OrderedItems`. The row of the collection is there while an item or a lock is (`RowFits`).
- `PubIInv`: a core that has content has been issued, and has content once (`ContentOnce`). Whatever handlers,
  sessions and comments remember of a core is then of the content that is there, or of one that is gone for good.
  For the vault, only the visitor whose burn found the row is about to be sent the body (`SentOnce`).
- `FeedIInv`: the items that were listed at first, are not seen and are not behind the offset either are at most as many as were removed (`BetweenPages`).
  Between the two queries of a page, the list of the first as it was then and that of the second as it is now take the place of the whole, and what
  the first has lost since is set aside (`BetweenQueries`). The rest is about sets of positions: whatever is taken from a list and added to it, no more items
  move up past an offset, or vanish from behind it, than were taken (`AtMostMoved`).
- `ThumbIInv`: while the video is there, the refcount of its frame is the number of tasks that have a reference in hand, and one for the link
  (`FrameCounted`). Once the video is gone it is only a bound (`FrameLeaves`): a task may give back what another has purged.
- `WritesIInv`: the pieces in the temporary file or the parts, in the hand of the backend's loop or of the thread that writes it, in the second channel, in the forwarder and in the first
  channel are each a run of numbers that goes on where the one before it ends (`InOrder`), and add up to what was read
  (`NoneLost`). `Stages` says where pieces can be while the call is where it is, `PartsFit` which parts are in flight.
  `SomebodyGoesOn` needs one thing more, that there is a forwarder once both channels are in use (`Forwarded`). `StepsRunOut` counts seven steps for a piece, one fewer each time it is passed on.
  What is left of `TasksEnd` is that a finite number of steps is taken if they can be, which is fairness.
- `ReadsIInv`: what has been sent is one interval of the plaintext that begins where the span does (`SentSoFar`), and the cursor of each way to read says where it
  ends: the next byte (`AsStored`) or chunk and what is skipped of it (`InChunks`), with what is left to take. `Parsed` relates `range::parse` to the
  positions that the header asks for, once for each kind of range.
- `SessionsIInv`: a copy of a record, whenever it is saved, agrees with what ids were minted for and
  challenges issued for (`SessionsFit`, `KeysFit`). Both only grow, so a copy cannot get stale in this respect. The row of a passkey is
  locked from the check of its counter to the sign-in (`LocksHold`).
- `RegIInv`: the transaction that redeemed a code is the only one that has, until it ends, and the row still has a
  use left (`UseLeft`); the accounts an invite made are as many as its uses say (`Spent`). The invariant keeps the set of accounts finite, so nothing is assumed of the names.
  `AdminRemains` needs two more: `Linked` (identities name accounts that exist) and `Seated` (who is inserted without rights is not the first, and whoever is about to
  revoke somebody's rights leaves an admin).
- `ResetIInv`: a transaction has locked the row of its link and those of the user's other links it has deleted, and no two have one in common
  (`WritersShape`); of the links there were at its DELETE the user has only its own left (`DeletesAll`), and after its commit none that is not used (`SpendsAll`).
- `RolesIInv`: every role that a row of users or of the mapping names exists, and a handler under way has something to apply. `AssignRole` asks again, which is what makes `RolesSticky` hold.
- `ConfigIInv`: what an edit carries from its read to its write satisfies every inequality.
- `LifeIInv`: both sets of limits are validated, and a lifetime came from limits of the two.
- `QuotaIInv`: what an upload has taken in, or may still take in, fits beside what it found of the user's files (`Found`, without the `newer` ones), and no file is larger than some cap that there has been.
  A file that is deleted makes what was found smaller, one that another upload stores is not in it.
  `storage_used` is a sum over a set, made by a recursive function. That a changed size changes the sum by the difference (`SumChanges`) would be an induction over sets; it is proved by
  the least counterexample instead, whose size the well-founded order of the natural numbers gives.

They assume: `CollectionsAssumption` (`Top` is a number), `FeedsAssumption` (numbers, and a page has an item), `SessionsAssumption` (counters are numbers), `RegistrationAssumption` (an
invite is for one use or more, or unlimited), `RolesAssumption` (role ids and priorities are numbers), `ConfigurationAssumption` (the
settings are integers, the defaults among them), `LifetimesAssumption` (there is a lifetime of a second), `QuotasAssumption` (sizes are numbers, caps and pieces not 0), `WritesAssumption`
(channels have room, a part may be in flight), `ReadsAssumption` (a chunk, a piece and the tag of a chunk have a byte, and the probe is no longer than the header), `ThumbnailsAssumption` (who fills does not remove), and
the assumptions whose name contains `None` (and `RegistrationFormAssumption`): what stands for NULL is none
of the values it stands beside. Users, sessions, challenges, invites, items, links and requests are any sets; files, channels and limits are of any size.

Every safety property of the passing runs is stated by a theorem, `KeepsVault`, `KeepsCores` and `KeepsList` included. Only model-checked is liveness
(`ExpiredIsSwept`, `HandlersFinish`, `TasksEnd`, `CapFollows`), which the prover does not handle, and what the five violated runs show.

## Findings

1. `release_object` (`db.rs:567`) takes the refcount to zero and deletes the row in two
   transactions. An upload that shares the object in between is left with a
   file whose object is deleted and whose bytes are erased. The migration that introduced `objects` says
   deletion is "object-after-last-row, enforced in code with row locks". Run `object_outlives_files`.
2. A row of `objects` is visible before its bytes are stored (`upload.rs:285`). An upload that shares it
   succeeds at once; if the first one's PUT then fails, its roll-back only decrements, and
   the second file and all later uploads of the content have no bytes. Run `shared_object_bytes`.
3. A burn-after-read read whose `store.delete` fails after the row is deleted returns an error: the one
   read is consumed, although the comment in `raw` says that a transient
   storage failure does not consume it. Run `removed_is_delivered`.
4. The collector's check that nobody refers to an avatar and its deletion of the bytes
   (`gc.rs:280`, `gc.rs:294`) are not protected against `upload_avatar`, which stores first and sets
   `avatar_key` afterwards: the avatar of a user who has just uploaded it is erased. The admin page says that
   reclaim "deletes only keys that are still unreferenced". Run `reclaims_unreferenced`.
5. The probe of `get_stream` and `get_range_stream` (`storage.rs:823`, `storage.rs:906`) passes any failure but
   "not found" off as an object that is shorter than four bytes, and the object is then sent as it is stored. After a failure of one request a sealed
   object is downloaded as ciphertext, which the comments there rule out. Run `sealed_fails_closed`.

Neither of the first two contradicts the theorems: counts are exact in both, and what is
erased has no row of `objects`, while a row of `files` still names it. They cost only files that share the
object of another: by `OwnBytesStay` the bytes of a file that its own upload stored stay.

Seen while modelling, without a run of their own:

- Two admins may revoke each other at the same time (`admin.rs:221`), and two first registrations may both become admin (`accounts.rs:115`).
- `roles::validate` compares a role's limits only if all three are set (`roles.rs:56`). A role that sets one of them, or an instance that is edited
  afterwards, gives limits whose minimum exceeds the maximum, for which `i64::clamp` panics (`ids.rs:122`): uploads and pastes of such users fail.
- A read error after the first piece of a file is dropped if that piece is all there was (`storage.rs:672`): the call stores it and returns Ok.
- `stream_write` calls its write "atomic tmp+rename" (`storage.rs:402`), but drops the file without a flush (`storage.rs:425`), so that an error of the last write (no space, a
  failing disk) is lost: the object that lacks its end is renamed into place and the call returns Ok. `files.rs:206` flushes for this reason. The spool file of an upload is not flushed either
  (`upload.rs:428`): what the pump then reads, `total` in `ObjectWrites`, may be less than the size that is entered in `files`.
- `upload_inner` reads `storage_used` before it takes in the body (`upload.rs:93`): uploads of one user at the same time may together exceed the quota.
- Stale remarks: `ids.rs:66` says that callers pass `allow_never = user.is_some()`, they pass `cfg.allow_never(user.is_some())` (`config.rs:394`), which an instance may grant to anonymous callers too; `README.md:157` of the sources says that a seek on a sealed object fetches the whole of it, which
  holds only for objects that are not sealed in chunks.
- "Aborts the upload on any failure" (`storage.rs:293`) leaves out a failure of `complete_multipart_upload` and a dropped call: the multipart upload stays open.
- Of two edits of the configuration at the same time the later one undoes the earlier one (`admin.rs:118`); `collections::update` likewise writes back fields it has read.
- `logout` removes the row of the session; a request that is under way saves its copy afterwards and brings it back. A password reset ends no session.
- `toggle_file` and the dashboard's forms ask for no scope, and set a visibility without the `can_publish_public` check of `toggle_paste`.
- A comment cannot be deleted once its target is gone or expired, since `resolve_target` does not find it.
- Three back-fills of one thumbnail, caught by the removal of the file: one shares the object another is about to purge, the third makes a new
  one, whose row the second then releases before the bytes are stored. They stay, and `inventory` does not list `thumbs/`. A link that fails (`files.rs:231`) leaves a reference that nobody releases.
- `upload_avatar` deletes the old picture before it sets the new key (`accounts.rs:415`): if the UPDATE fails, or a second upload of another type
  overlaps, the user's key names a deleted object. `AvatarStored` says what holds otherwise.
- A first login of one identity in two browsers makes two accounts; the identity ends up with the later one.

## What is not modelled

In `ObjectStore`: encryption of stored bytes (see `ObjectReads`), extensions, MIME types, scanning, the
parsing of the multipart body, access control (who may delete or
unlock: `FindFile` is any caller who passed the check), reads that change nothing, the
audit log, metrics. A statement either happens or fails; a COMMIT whose outcome
the client does not learn is left out.

Elsewhere: pure output (pages, previews, zip listings, embeds). API tokens and
`update_profile`, single statements about a row of the caller's own; `AnonLimiter`, a list under a mutex. The
password hashes, the checks of the OpenID protocol and the signatures of WebAuthn: an action whose guard needs one happens only if it holds.
`Feeds` takes creation times to be distinct; items of equal time may be ordered differently by two queries. `Quotas` has one user and anonymous uploads,
`Collections` one collection, `Roles` one issuer.

## Plan

Done so far: every component that decides anything is modelled and model-checked, and the safety properties that the passing runs check are
proved. Left, in the order of their weight:

1. The collector beside `ObjectWrites`, whose temporary files it lists; what can still be said of an avatar after two overlapping uploads of one user, of admins under two forms at once, and of
   files whose DELETE fails in a sweep (the hazards of `PROJECT.json` that have no property, or only a part of one).
2. An abstract account (who a session may speak for) that `Sessions` and `Registration` together implement.
