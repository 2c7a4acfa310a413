----------------------------- MODULE Thumbnails -----------------------------
(***************************************************************************)
(* The back-fill of a video's thumbnail: crawlers that find an old row     *)
(* without one each spawn ensure_thumbnail, which stores the frame as an   *)
(* object and then tries to link it, while remove_file may delete the row. *)
(* The module is about one video whose frame no other content shares (that *)
(* files share objects is in ObjectStore); its frame has the key           *)
(* thumbs/<core>.jpg.                                                      *)
(***************************************************************************)
EXTENDS Common, Integers

CONSTANTS
  Filler,  \* tasks of ensure_thumbnail
  Cleaner, \* handlers that remove the file
  Mishaps  \* how many failures leave something behind, to bound the refcount

ASSUME ThumbnailsAssumption == Filler \cap Cleaner = {} /\ Mishaps \in Nat

\* What stands for a row there is not is no refcount.
ASSUME ThumbnailsNoneAssumption == None \notin Nat

VARIABLES
  video,  \* the row of files: "bare" (thumb_key IS NULL), "linked" or "gone"
  frame,  \* the refcount of the frame's row of objects, or None
  jpeg,   \* whether the backend has its bytes
  tpc,    \* where each task is
  unput,  \* history: PUTs that failed or were cut short
  unsaid  \* history: other statements that failed with a reference in hand

thumbvars == <<video, frame, jpeg, tpc, unput, unsaid>>

ThumbTask == Filler \cup Cleaner
TaskGoto(t, next) == tpc' = [tpc EXCEPT ![t] = next]

\* preview finds the row; the video is fetched and ffmpeg makes the frame.
FindBare(t) ==
  /\ tpc[t] = "idle" /\ video = "bare"
  /\ TaskGoto(t, "acquire")
  /\ UNCHANGED <<video, frame, jpeg, unput, unsaid>>

\* acquire_object: INSERT INTO objects, or its conflict ...
InsertFrame(t) ==
  /\ tpc[t] = "acquire"
  /\ IF frame = None
     THEN frame' = 1 /\ TaskGoto(t, "put")
     ELSE TaskGoto(t, "bump") /\ UNCHANGED frame
  /\ UNCHANGED <<video, jpeg, unput, unsaid>>

\* ... and the UPDATE that shares the row, which may be gone by then.
BumpFrame(t) ==
  /\ tpc[t] = "bump"
  /\ IF frame = None
     THEN TaskGoto(t, "idle") /\ UNCHANGED frame
     ELSE frame' = frame + 1 /\ TaskGoto(t, "link")
  /\ UNCHANGED <<video, jpeg, unput, unsaid>>

PutFrame(t) ==
  /\ tpc[t] = "put"
  /\ jpeg' = TRUE
  /\ TaskGoto(t, "link")
  /\ UNCHANGED <<video, frame, unput, unsaid>>

\* The PUT fails, having stored the bytes or not (rollback_thumbnail), or the
\* process dies in it.
PutFrameFails(t) ==
  /\ tpc[t] = "put" /\ unput < Mishaps
  /\ jpeg' \in {jpeg, TRUE}
  /\ \E next \in {"release", "idle"} : TaskGoto(t, next)
  /\ unput' = unput + 1
  /\ UNCHANGED <<video, frame, unsaid>>

\* Mutant: rows_affected is not looked at.
LinkFrameAnyhow(t) ==
  /\ tpc[t] = "link"
  /\ video' = IF video = "bare" THEN "linked" ELSE video
  /\ TaskGoto(t, "idle")
  /\ UNCHANGED <<frame, jpeg, unput, unsaid>>

\* UPDATE files SET thumb_key ... AND thumb_key IS NULL: a task that comes too
\* late drops its reference.
LinkFrame(t) ==
  /\ tpc[t] = "link"
  /\ IF video = "bare"
     THEN video' = "linked" /\ TaskGoto(t, "idle")
     ELSE TaskGoto(t, "release") /\ UNCHANGED video
  /\ UNCHANGED <<frame, jpeg, unput, unsaid>>

\* remove_file: DELETE FROM files ... RETURNING thumb_key.
RemoveVideo(t) ==
  /\ tpc[t] = "idle" /\ video # "gone"
  /\ video' = "gone"
  /\ IF video = "linked" THEN TaskGoto(t, "release") ELSE UNCHANGED tpc
  /\ UNCHANGED <<frame, jpeg, unput, unsaid>>

\* release_object: the UPDATE, which the CHECK of the column rejects below zero.
ReleaseFrame(t) ==
  /\ tpc[t] = "release"
  /\ frame' = IF frame \in {None, 0} THEN frame ELSE frame - 1
  /\ TaskGoto(t, IF frame = 1 THEN "purge" ELSE "idle")
  /\ UNCHANGED <<video, jpeg, unput, unsaid>>

\* The DELETE, then store.delete.
PurgeFrame(t) ==
  /\ tpc[t] = "purge"
  /\ frame' = None
  /\ TaskGoto(t, "erase")
  /\ UNCHANGED <<video, jpeg, unput, unsaid>>

EraseFrame(t) ==
  /\ tpc[t] = "erase"
  /\ jpeg' = FALSE
  /\ TaskGoto(t, "idle")
  /\ UNCHANGED <<video, frame, unput, unsaid>>

\* A statement fails, or the process dies: nothing is rolled back, not even when
\* the link fails.
FillFails(t) ==
  /\ \/ tpc[t] \in {"acquire", "bump"} /\ UNCHANGED unsaid
     \/ /\ tpc[t] \in {"link", "release", "purge", "erase"}
        /\ unsaid < Mishaps /\ unsaid' = unsaid + 1
  /\ TaskGoto(t, "idle")
  /\ UNCHANGED <<video, frame, jpeg, unput>>

ThumbInit ==
  /\ video = "bare" /\ frame = None /\ jpeg = FALSE
  /\ tpc = [t \in ThumbTask |-> "idle"]
  /\ unput = 0 /\ unsaid = 0

ThumbNext ==
  \/ \E t \in Filler :
       FindBare(t) \/ InsertFrame(t) \/ BumpFrame(t) \/ PutFrame(t) \/ PutFrameFails(t)
         \/ LinkFrame(t)
  \/ \E t \in Cleaner : RemoveVideo(t)
  \/ \E t \in ThumbTask : ReleaseFrame(t) \/ PurgeFrame(t) \/ EraseFrame(t) \/ FillFails(t)

ThumbSpec == ThumbInit /\ [][ThumbNext]_thumbvars

-----------------------------------------------------------------------------
\* The row, the object and the tasks have the values of their types.
ThumbsTypeOK ==
  /\ video \in {"bare", "linked", "gone"}
  /\ frame \in Nat \cup {None}
  /\ jpeg \in BOOLEAN
  /\ tpc \in [ThumbTask ->
       {"idle", "acquire", "bump", "put", "link", "release", "purge", "erase"}]
  /\ unput \in 0 .. Mishaps /\ unsaid \in 0 .. Mishaps

\* However many tasks make the same thumbnail, the winner's stays as long as the
\* file has it: what the others give back is theirs (ensure_thumbnail).  And once
\* all is quiet, the thumbnail is counted once if it is linked and not at all if it
\* is not.  A failed PUT excepts the first, any failure the second.
ThumbnailOnce ==
  /\ video = "linked" /\ unput = 0 =>
       /\ frame # None /\ frame > 0
       /\ jpeg \/ \E t \in Filler : tpc[t] = "put"
  /\ unput + unsaid = 0 /\ (\A t \in ThumbTask : tpc[t] = "idle") =>
       frame = IF video = "linked" THEN 1 ELSE None
=============================================================================
