---------------------------- MODULE ObjectWrites ----------------------------
(***************************************************************************)
(* Store::put_file: an upload's spool file goes to the backend in pieces.  *)
(* A task (the pump) reads them into a channel; the call looks at the      *)
(* first two and either stores one piece by itself or starts a second task *)
(* (the forwarder) that hands them through a shorter channel to the        *)
(* backend's own loop: appends to a temporary file, or parts of a          *)
(* multipart upload of which several are in flight.  Anything may fail,    *)
(* and the caller may be dropped.  Pieces are numbered from 1.             *)
(***************************************************************************)
EXTENDS Common, Integers, FiniteSets, SequencesExt

CONSTANTS
  Pieces,      \* a bound on the pieces of a spool file
  PipeDepth,   \* PIPE_DEPTH, the backlog of the second channel; the first has one more
  Concurrency  \* MPU_CONCURRENCY, parts in flight

ASSUME WritesAssumption ==
  Pieces \in Nat /\ PipeDepth \in Nat \ {0} /\ Concurrency \in Nat \ {0}

\* What stands for none is no piece, no pieces, no state of the pump and no result.
ASSUME WritesNoneAssumption ==
  None \notin Nat \cup Seq(Nat) /\ None \notin {"read", "send", "ok", "failed", "error"}

VARIABLES
  total,   \* pieces of the spool file
  backend, \* "local" or "s3"
  pump,    \* the pump: None, "read", "send", "ok", "failed"
  read,    \* how many pieces it has read
  pipe,    \* the first channel
  main,    \* where the call is
  held,    \* pieces the forwarder, before it the call, has taken and not passed on
  forward, \* the forwarder: "none", "run", "ended"
  mpipe,   \* the second channel
  hand,    \* the piece the backend's loop has taken; of a local write, the one being written
  lost,    \* the piece of which a local write has failed, until the file is written to again
  tmp,     \* pieces in the temporary file, or received as parts, in their order
  parts,   \* part numbers in flight
  etags,   \* part numbers that arrived
  upload,  \* the multipart upload: "none", "open", "completed", "aborted", "abort failed"
  object,  \* what is stored under the key
  result   \* what the call returned

backing == <<hand, lost, tmp, parts, etags, upload, object>>
writevars == <<total, backend, pump, read, pipe, main, held, forward, mpipe, backing, result>>

WholeFile == [i \in 1..total |-> i]
Ended == main \in {"done", "dropped"}

\* The receivers: the call holds the first until it gives it to the forwarder, the
\* backend's loop the second until it returns.
PipeOpen == main \in {"first", "second"} \/ forward = "run"
MpipeOpen == main \in {"create", "loop", "permit", "failing", "drain", "draining", "abort",
                       "complete", "rename"}
PumpEnded == pump \in {"ok", "failed"}

Returns(r) == main' = "done" /\ result' = r

\* The call, with the size of the spool file and the backend it finds.
put_file(n, b) ==
  /\ main' = "first" /\ total' = n /\ backend' = b /\ pump' = "read"
  /\ UNCHANGED <<read, pipe, held, forward, mpipe, backing, result>>

(***************************************************************************)
(* The pump.                                                               *)
(***************************************************************************)
ReadPiece ==
  /\ pump = "read"
  /\ IF read < total THEN pump' = "send" /\ read' = read + 1
     ELSE pump' = "ok" /\ UNCHANGED read
  /\ UNCHANGED <<total, backend, pipe, main, held, forward, mpipe, backing, result>>

\* The file cannot be opened, or not be read any further.
ReadFails ==
  /\ pump = "read"
  /\ pump' = "failed"
  /\ UNCHANGED <<total, backend, read, pipe, main, held, forward, mpipe, backing, result>>

\* "Upload consumer went away" if the receiver is gone.
SendPiece ==
  /\ pump = "send"
  /\ \/ PipeOpen /\ Len(pipe) < PipeDepth + 1
          /\ pipe' = Append(pipe, read) /\ pump' = "read"
     \/ ~PipeOpen /\ pump' = "failed" /\ UNCHANGED pipe
  /\ UNCHANGED <<total, backend, read, main, held, forward, mpipe, backing, result>>

(***************************************************************************)
(* The call.                                                               *)
(***************************************************************************)
\* The first recv: no piece is an error unless the file was to be empty, as a spool file
\* that has lost its only piece was not.
PeekFirst ==
  /\ main = "first"
  /\ \/ pipe # <<>> /\ held' = <<Head(pipe)>> /\ pipe' = Tail(pipe)
          /\ main' = "second" /\ UNCHANGED result
     \/ pipe = <<>> /\ PumpEnded /\ UNCHANGED <<pipe, held>>
          /\ \/ total = 0 /\ main' = "put" /\ UNCHANGED result
             \/ Returns("error")
  /\ UNCHANGED <<total, backend, pump, read, forward, mpipe, backing>>

\* The second recv decides between one PUT and a stream of pieces.
PeekSecond ==
  /\ main = "second"
  /\ \/ pipe # <<>> /\ held' = Append(held, Head(pipe)) /\ pipe' = Tail(pipe)
          /\ forward' = "run" /\ main' = IF backend = "s3" THEN "create" ELSE "loop"
     \/ pipe = <<>> /\ PumpEnded /\ main' = "put" /\ UNCHANGED <<pipe, held, forward>>
  /\ UNCHANGED <<total, backend, pump, read, mpipe, backing, result>>

\* raw_put: one PUT, or a temporary file that is renamed.
PutWhole ==
  /\ main = "put"
  /\ \/ object' = held /\ Returns("ok")
     \/ UNCHANGED object /\ Returns("error")
  /\ UNCHANGED <<total, backend, pump, read, pipe, held, forward, mpipe,
                 hand, lost, tmp, parts, etags, upload>>

\* forward.await, then pump.await: an error of the pump is an error of the call.
JoinPump ==
  /\ main \in {"stored", "unstored"} /\ forward = "ended" /\ PumpEnded
  /\ Returns(IF main = "stored" /\ pump = "ok" THEN "ok" ELSE "error")
  /\ UNCHANGED <<total, backend, pump, read, pipe, held, forward, mpipe, backing>>

\* The caller is dropped, and with it the backend's loop and its parts; the tasks
\* of the pump and of the forwarder run on.
Dropped ==
  /\ ~Ended /\ main' = "dropped" /\ parts' = {}
  /\ UNCHANGED <<total, backend, pump, read, pipe, held, forward, mpipe,
                 hand, lost, tmp, etags, upload, object, result>>

(***************************************************************************)
(* The forwarder.                                                          *)
(***************************************************************************)
\* Mutant: the forwarder waits for room and does not notice that nobody receives.
ForwardBlocking ==
  /\ forward = "run"
  /\ \/ held # <<>> /\ Len(mpipe) < PipeDepth
          /\ mpipe' = Append(mpipe, Head(held)) /\ held' = Tail(held)
          /\ UNCHANGED <<pipe, forward>>
     \/ held = <<>> /\ pipe # <<>> /\ held' = <<Head(pipe)>> /\ pipe' = Tail(pipe)
          /\ UNCHANGED <<forward, mpipe>>
     \/ held = <<>> /\ pipe = <<>> /\ PumpEnded /\ forward' = "ended"
          /\ UNCHANGED <<pipe, held, mpipe>>
  /\ UNCHANGED <<total, backend, pump, read, main, backing, result>>

\* It ends when the pump is done, or when a send finds no receiver.
Forward ==
  /\ forward = "run"
  /\ \/ held # <<>> /\ MpipeOpen /\ Len(mpipe) < PipeDepth
          /\ mpipe' = Append(mpipe, Head(held)) /\ held' = Tail(held)
          /\ UNCHANGED <<pipe, forward>>
     \/ held # <<>> /\ ~MpipeOpen /\ forward' = "ended" /\ UNCHANGED <<pipe, held, mpipe>>
     \/ held = <<>> /\ pipe # <<>> /\ held' = <<Head(pipe)>> /\ pipe' = Tail(pipe)
          /\ UNCHANGED <<forward, mpipe>>
     \/ held = <<>> /\ pipe = <<>> /\ PumpEnded /\ forward' = "ended"
          /\ UNCHANGED <<pipe, held, mpipe>>
  /\ UNCHANGED <<total, backend, pump, read, main, backing, result>>

(***************************************************************************)
(* LocalStore::stream_write.                                               *)
(***************************************************************************)
\* write_all hands a piece to a thread that writes it to the file, once that has written
\* the one before, and does not wait for it: an error of the last write of a piece is
\* returned to the next write_all, one of an earlier write to this one.  Until then the
\* directory or the file may not be made.  After the last piece the file is dropped
\* without a flush, whatever becomes of the write that is under way.
AppendPiece ==
  /\ main = "loop" /\ backend = "local"
  /\ \/ /\ mpipe # <<>> /\ hand = None
        /\ hand' = Head(mpipe) /\ mpipe' = Tail(mpipe) /\ UNCHANGED main
     \/ /\ \/ mpipe # <<>> /\ (hand = None \/ lost # None)
           \/ tmp = <<>> /\ hand = None
        /\ main' = "unstored" /\ UNCHANGED <<mpipe, hand>>
     \/ mpipe = <<>> /\ forward = "ended" /\ main' = "rename" /\ UNCHANGED <<mpipe, hand>>
  /\ UNCHANGED <<total, backend, pump, read, pipe, held, forward,
                 lost, tmp, parts, etags, upload, object, result>>

\* The thread of tokio's File, with what a dropped call has left it.  The file it writes
\* to is the object, if it has been renamed meanwhile.
DiskBusy == backend = "local" /\ hand # None /\ lost = None

WritePiece ==
  /\ DiskBusy
  /\ tmp' = Append(tmp, hand) /\ hand' = None
  /\ object' = IF object = None THEN None ELSE tmp'
  /\ UNCHANGED <<total, backend, pump, read, pipe, main, held, forward, mpipe,
                 lost, parts, etags, upload, result>>

\* No space, or no longer any disk.  What the file has of the piece then is not told from
\* nothing.
WriteFails ==
  /\ DiskBusy
  /\ lost' = hand
  /\ UNCHANGED <<total, backend, pump, read, pipe, main, held, forward, mpipe,
                 hand, tmp, parts, etags, upload, object, result>>

Rename ==
  /\ main = "rename"
  /\ \/ object' = tmp /\ main' = "stored"
     \/ UNCHANGED object /\ main' = "unstored"
  /\ UNCHANGED <<total, backend, pump, read, pipe, held, forward, mpipe,
                 hand, lost, tmp, parts, etags, upload, result>>

(***************************************************************************)
(* S3Store::multipart_upload.                                              *)
(***************************************************************************)
CreateUpload ==
  /\ main = "create"
  /\ \/ upload' = "open" /\ main' = "loop"
     \/ UNCHANGED upload /\ main' = "unstored"
  /\ UNCHANGED <<total, backend, pump, read, pipe, held, forward, mpipe,
                 hand, lost, tmp, parts, etags, object, result>>

\* parts.recv; the end of the parts ends the loop.
TakePart ==
  /\ main = "loop" /\ backend = "s3"
  /\ \/ mpipe # <<>> /\ hand' = Head(mpipe) /\ mpipe' = Tail(mpipe) /\ main' = "permit"
     \/ mpipe = <<>> /\ forward = "ended" /\ main' = "drain" /\ UNCHANGED <<hand, mpipe>>
  /\ UNCHANGED <<total, backend, pump, read, pipe, held, forward,
                 lost, tmp, parts, etags, upload, object, result>>

\* Once the semaphore gives a permit the part is sent, under the next number; a
\* failure that gave the permit is seen only then.
SpawnPart ==
  /\ main \in {"permit", "failing"} /\ Cardinality(parts) < Concurrency
  /\ tmp' = Append(tmp, hand) /\ hand' = None
  /\ parts' = parts \cup {Len(tmp')}
  /\ main' = IF main = "failing" THEN "draining" ELSE "loop"
  /\ UNCHANGED <<total, backend, pump, read, pipe, held, forward, mpipe,
                 lost, etags, upload, object, result>>

\* While parts are in flight the call is here.
Flying == {"loop", "permit", "failing", "drain", "draining"}

PartArrives(no) ==
  /\ no \in parts /\ main \in Flying
  /\ parts' = parts \ {no} /\ etags' = Append(etags, no)
  /\ UNCHANGED <<total, backend, pump, read, pipe, main, held, forward, mpipe,
                 hand, lost, tmp, upload, object, result>>

\* Mutant: the call goes on to abort while parts are in flight.
PartFailsUndrained(no) ==
  /\ no \in parts /\ main \in Flying
  /\ parts' = parts \ {no} /\ main' = "abort"
  /\ UNCHANGED <<total, backend, pump, read, pipe, held, forward, mpipe,
                 hand, lost, tmp, etags, upload, object, result>>

\* The first failure ends the loop; the rest is drained.
PartFails(no) ==
  /\ no \in parts /\ main \in Flying
  /\ parts' = parts \ {no}
  /\ main' = IF main \in {"permit", "failing"} THEN "failing" ELSE "draining"
  /\ UNCHANGED <<total, backend, pump, read, pipe, held, forward, mpipe,
                 hand, lost, tmp, etags, upload, object, result>>

\* Nothing is in flight any more.
Drained ==
  /\ main \in {"drain", "draining"} /\ parts = {}
  /\ main' = IF main = "draining" \/ etags = <<>> THEN "abort" ELSE "complete"
  /\ UNCHANGED <<total, backend, pump, read, pipe, held, forward, mpipe, backing, result>>

\* abort_multipart: a failure is logged.
AbortUpload ==
  /\ main = "abort"
  /\ upload' \in {"aborted", "abort failed"} /\ main' = "unstored"
  /\ UNCHANGED <<total, backend, pump, read, pipe, held, forward, mpipe,
                 hand, lost, tmp, parts, etags, object, result>>

\* Mutant: the parts are listed as they arrived.
CompleteUnsorted ==
  /\ main = "complete"
  /\ \/ /\ object' = [i \in 1..Len(etags) |-> tmp[etags[i]]]
        /\ upload' = "completed" /\ main' = "stored"
     \/ UNCHANGED <<object, upload>> /\ main' = "unstored"
  /\ UNCHANGED <<total, backend, pump, read, pipe, held, forward, mpipe,
                 hand, lost, tmp, parts, etags, result>>

\* etags.sort_by_key: the part that comes in the place i.
Sorted(i) == CHOOSE no \in ToSet(etags) : Cardinality({e \in ToSet(etags) : e <= no}) = i

\* complete_multipart_upload, whose failure is returned.
CompleteUpload ==
  /\ main = "complete"
  /\ \/ /\ object' = [i \in 1..Cardinality(ToSet(etags)) |-> tmp[Sorted(i)]]
        /\ upload' = "completed" /\ main' = "stored"
     \/ UNCHANGED <<object, upload>> /\ main' = "unstored"
  /\ UNCHANGED <<total, backend, pump, read, pipe, held, forward, mpipe,
                 hand, lost, tmp, parts, etags, result>>

-----------------------------------------------------------------------------
WritesInit ==
  /\ total = 0 /\ backend = "local"
  /\ pump = None /\ read = 0 /\ pipe = <<>>
  /\ main = "idle" /\ held = <<>> /\ forward = "none" /\ mpipe = <<>>
  /\ hand = None /\ lost = None /\ tmp = <<>> /\ parts = {} /\ etags = <<>>
  /\ upload = "none" /\ object = None /\ result = None

Pump == ReadPiece \/ ReadFails \/ SendPiece
Parts == \E no \in 1..Pieces : PartArrives(no) \/ PartFails(no)
Disk == WritePiece \/ WriteFails
Call ==
  \/ PeekFirst \/ PeekSecond \/ PutWhole \/ JoinPump
  \/ AppendPiece \/ Rename
  \/ CreateUpload \/ TakePart \/ SpawnPart \/ Drained \/ AbortUpload \/ CompleteUpload

WritesNext ==
  \/ main = "idle" /\ \E n \in 0..Pieces, b \in {"local", "s3"} : put_file(n, b)
  \/ main # "idle" /\ (Pump \/ Forward \/ Call \/ Parts \/ Disk \/ Dropped)

WritesSpec == WritesInit /\ [][WritesNext]_writevars

\* The runtime runs every task that can go on, and every request to the backend and
\* every write is answered in the end.
WritesFairness ==
  /\ WF_writevars(Pump) /\ WF_writevars(Forward)
  /\ WF_writevars(Call) /\ WF_writevars(Parts) /\ WF_writevars(Disk)

-----------------------------------------------------------------------------
\* The channels never hold more than they have room for, and the other variables
\* have the values of their types.
WritesTypeOK ==
  /\ total \in 0..Pieces /\ read \in 0..total
  /\ Len(pipe) <= PipeDepth + 1 /\ Len(mpipe) <= PipeDepth /\ Len(held) <= 2
  /\ Cardinality(parts) <= Concurrency
  /\ main \in {"idle", "first", "second", "put", "create", "complete", "abort", "rename",
               "stored", "unstored", "done", "dropped"} \cup Flying
  /\ upload \in {"none", "open", "completed", "aborted", "abort failed"}
  /\ result \in {None, "ok", "error"}

\* What is stored under the key are the first pieces of the file in their order,
\* in whatever order the parts arrive; and a call that returns Ok has stored all of
\* them, with two exceptions that are in the code.  An error of the pump after the first
\* piece is dropped, and that piece is stored as if it were the file.  And a local file
\* is renamed without a flush: its last piece is missing until the write of it ends, and
\* for good if that fails.
StoredWhole ==
  /\ object # None => object = [i \in 1..Len(object) |-> i]
  /\ result = "ok" /\ object # WholeFile =>
       \/ pump = "failed" /\ object = <<1>>
       \/ backend = "local" /\ hand = total /\ Len(object) = total - 1

\* "Part tasks never outlive the call."
PartsEndFirst == Ended => parts = {}

\* Who waits for somebody else: the pump for room in the first channel, the
\* forwarder for room in the second or for a piece, the call for a piece, for a
\* permit, for the parts in flight, for a write or for the two tasks.
PumpWaits == pump = "send" /\ PipeOpen /\ Len(pipe) > PipeDepth
ForwardWaits ==
  \/ held # <<>> /\ MpipeOpen /\ Len(mpipe) >= PipeDepth
  \/ held = <<>> /\ pipe = <<>> /\ ~PumpEnded
CallWaits ==
  \/ main \in {"first", "second"} /\ pipe = <<>> /\ ~PumpEnded
  \/ main = "loop" /\ mpipe = <<>> /\ forward # "ended"
  \/ main = "loop" /\ mpipe # <<>> /\ DiskBusy
  \/ main \in {"permit", "failing"} /\ Cardinality(parts) >= Concurrency
  \/ main \in {"drain", "draining"} /\ parts # {}
  \/ main \in {"stored", "unstored"} /\ ~(forward = "ended" /\ PumpEnded)

\* As long as the call or one of its tasks has not ended, one of them waits for
\* nobody, or a part is in flight or a write under way whose answer comes: full channels
\* never make them wait for each other.
SomebodyGoesOn ==
  main # "idle" /\ ~(Ended /\ PumpEnded /\ forward # "run") =>
    \/ ~PumpEnded /\ ~PumpWaits
    \/ forward = "run" /\ ~ForwardWaits
    \/ ~Ended /\ ~CallWaits
    \/ parts # {} \/ DiskBusy

\* How many steps are left at most: seven for a piece that has not been read, fewer the
\* further it has come, and those of the call and of its tasks.
Stage ==
  CASE main = "first" -> 9 [] main = "second" -> 8 [] main = "create" -> 7
    [] main \in {"loop", "permit", "failing"} -> 6
    [] main \in {"drain", "draining"} -> 5
    [] main \in {"rename", "abort", "complete"} -> 4
    [] main \in {"put", "stored", "unstored"} -> 3
    [] OTHER -> 0
PiecesLeft ==
  7 * (total - read) + (IF pump = "send" THEN 6 ELSE 0) + 5 * Len(pipe) + 4 * Len(held)
    + 3 * Len(mpipe) + Cardinality(parts)
    + (IF hand = None THEN 0 ELSE IF lost = None THEN 2 ELSE 1)
TasksLeft ==
  (IF PumpEnded THEN 0 ELSE 1)
    + (IF forward = "none" THEN 2 ELSE IF forward = "run" THEN 1 ELSE 0)
StepsLeft == PiecesLeft + TasksLeft + Stage

\* Every step of a call or of its tasks, failures included, uses up one of the steps
\* that are left: nothing is retried, and no piece goes back to where it was.
Tiring == main # "idle" => StepsLeft' \in Nat /\ StepsLeft' < StepsLeft
StepsRunOut == [][Tiring]_writevars

\* Whatever fails or is dropped, the call returns and its tasks end: nobody waits
\* for ever for a channel that is full or for one that nothing comes through.
TasksEnd == main = "first" ~> (Ended /\ PumpEnded /\ forward # "run")
=============================================================================
