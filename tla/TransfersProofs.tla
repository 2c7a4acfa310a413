-------------------------- MODULE TransfersProofs --------------------------
(***************************************************************************)
(* Proofs about what carries the bytes of files.  Thumbnails, for any      *)
(* number of tasks that fill the same one: it is counted by the tasks that *)
(* hold a reference to its frame, and once the file is gone a task may     *)
(* hold a reference to a row that another has purged, so the count is then *)
(* a bound only.  ObjectWrites, for files and pipes of any length: what    *)
(* the pipes and the backend hold is one run of pieces.  ObjectReads, for  *)
(* objects, chunks and pieces of any length: what is sent is one interval  *)
(* of the plaintext, and the cursor says where it ends.                    *)
(***************************************************************************)
EXTENDS Thumbnails, ObjectWrites, ObjectReads, FiniteSetTheorems, SequenceTheorems, TLAPS

-----------------------------------------------------------------------------
(***************************************************************************)
(* Thumbnails: the inductive invariant.                                    *)
(***************************************************************************)
TaskPC == {"idle", "acquire", "bump", "put", "link", "release", "purge", "erase"}

\* Tasks that have a reference to the frame in hand.
HoldingPC == {"put", "link", "release"}
Holding == {t \in ThumbTask : tpc[t] \in HoldingPC}

\* References to the frame: those in hand and that of the file.
References == Cardinality(Holding) + (IF video = "linked" THEN 1 ELSE 0)

\* While the file is there, nothing erases its frame, and no reference is missing
\* from the refcount; without failures none is left over either.
FrameCounted ==
  unput = 0 /\ video # "gone" =>
    /\ \A t \in ThumbTask : /\ tpc[t] \notin {"purge", "erase"}
                            /\ video = "bare" => tpc[t] # "release"
    /\ frame = None => Holding = {} /\ video = "bare"
    /\ frame # None =>
         /\ frame > 0 /\ frame >= References /\ (unsaid = 0 => frame = References)
         /\ jpeg \/ \E t \in Filler : tpc[t] = "put"

\* Once it is gone, the frame is on its way out.
FrameLeaves ==
  unput + unsaid = 0 /\ video = "gone" /\ frame # None =>
    /\ frame <= Cardinality(Holding)
    /\ frame = 0 => \E t \in ThumbTask : tpc[t] = "purge"

ThumbIInv ==
  /\ ThumbsTypeOK /\ IsFiniteSet(Holding)
  /\ FrameCounted /\ FrameLeaves

-----------------------------------------------------------------------------
(***************************************************************************)
(* It holds at first, and every step keeps it.                             *)
(***************************************************************************)
LEMMA ThumbInitial == ThumbInit => ThumbIInv
<1> SUFFICES ASSUME ThumbInit PROVE ThumbIInv
  OBVIOUS
<1>1. Holding = {}
  BY DEF ThumbInit, Holding, HoldingPC
<1>2. ThumbsTypeOK /\ FrameLeaves
  <2>1. 0 \in 0 .. Mishaps
    BY ThumbnailsAssumption
  <2>2. QED BY <2>1 DEF ThumbInit, ThumbsTypeOK, FrameLeaves
<1>3. FrameCounted
  BY <1>1 DEF ThumbInit, FrameCounted
<1>4. QED BY <1>1, <1>2, <1>3, FS_EmptySet DEF ThumbIInv

\* Two counts that come to nothing are nothing.
LEMMA SumZero ==
  ASSUME NEW a \in Nat, NEW b \in Nat, a + b = 0
  PROVE  a = 0 /\ b = 0
OBVIOUS

\* Who holds a reference when one task has gone to another place.
LEMMA HoldingStep ==
  ASSUME ThumbIInv, NEW t \in ThumbTask, NEW next \in TaskPC, TaskGoto(t, next)
  PROVE  /\ tpc' \in [ThumbTask -> TaskPC] /\ tpc'[t] = next
         /\ \A k \in ThumbTask : k # t => tpc'[k] = tpc[k]
         /\ IsFiniteSet(Holding')
         /\ Cardinality(Holding) \in Nat /\ Cardinality(Holding') \in Nat
         /\ tpc[t] \in HoldingPC => t \in Holding /\ Cardinality(Holding) >= 1
         /\ Cardinality(Holding') =
              Cardinality(Holding) + (IF next \in HoldingPC THEN 1 ELSE 0)
                                   - (IF tpc[t] \in HoldingPC THEN 1 ELSE 0)
<1>1. /\ tpc' \in [ThumbTask -> TaskPC] /\ tpc'[t] = next
      /\ \A k \in ThumbTask : k # t => tpc'[k] = tpc[k]
  BY DEF TaskGoto, ThumbIInv, ThumbsTypeOK, TaskPC
<1>2. IsFiniteSet(Holding)
  BY DEF ThumbIInv
<1>3. /\ IsFiniteSet(Holding \cup {t}) /\ IsFiniteSet(Holding \ {t})
      /\ t \notin Holding => Cardinality(Holding \cup {t}) = Cardinality(Holding) + 1
      /\ t \in Holding => Cardinality(Holding \ {t}) = Cardinality(Holding) - 1
      /\ Cardinality(Holding) \in Nat /\ Cardinality(Holding \ {t}) \in Nat
  BY <1>2, FS_AddElement, FS_RemoveElement, FS_CardinalityType
<1>4. CASE next \in HoldingPC /\ tpc[t] \in HoldingPC
  <2>1. Holding' = Holding /\ t \in Holding
    BY <1>1, <1>4 DEF Holding
  <2>2. QED BY <1>1, <1>2, <1>3, <1>4, <2>1
<1>5. CASE next \in HoldingPC /\ tpc[t] \notin HoldingPC
  <2>1. Holding' = Holding \cup {t} /\ t \notin Holding
    BY <1>1, <1>5 DEF Holding
  <2>2. QED BY <1>1, <1>2, <1>3, <1>5, <2>1
<1>6. CASE next \notin HoldingPC /\ tpc[t] \in HoldingPC
  <2>1. Holding' = Holding \ {t} /\ t \in Holding
    BY <1>1, <1>6 DEF Holding
  <2>2. QED BY <1>1, <1>2, <1>3, <1>6, <2>1
<1>7. CASE next \notin HoldingPC /\ tpc[t] \notin HoldingPC
  <2>1. Holding' = Holding
    BY <1>1, <1>7 DEF Holding
  <2>2. QED BY <1>1, <1>2, <1>3, <1>7, <2>1
<1>8. QED BY <1>4, <1>5, <1>6, <1>7

\* A task comes to have no reference more, or gives one back, without a word to the
\* frame: it must have failed, or have none.
LEMMA GoingStep ==
  ASSUME ThumbIInv, NEW t \in ThumbTask, NEW next \in {"idle", "acquire", "bump"},
         TaskGoto(t, next), UNCHANGED <<video, frame, jpeg>>,
         unput' \in 0 .. Mishaps, unsaid' \in 0 .. Mishaps,
         unput' >= unput, unsaid' >= unsaid,
         tpc[t] \in {"put"} => unput' > 0,
         tpc[t] \in {"link", "release", "purge"} => unsaid' > 0
  PROVE  ThumbIInv'
<1>1. /\ tpc' \in [ThumbTask -> TaskPC] /\ tpc'[t] = next /\ IsFiniteSet(Holding')
      /\ \A k \in ThumbTask : k # t => tpc'[k] = tpc[k]
      /\ Cardinality(Holding) \in Nat /\ Cardinality(Holding') \in Nat
      /\ Cardinality(Holding') <= Cardinality(Holding)
      /\ tpc[t] \notin HoldingPC => Cardinality(Holding') = Cardinality(Holding)
  BY HoldingStep DEF TaskPC, HoldingPC
<1>2. ThumbsTypeOK'
  BY <1>1 DEF ThumbIInv, ThumbsTypeOK, TaskPC
<1>3. Holding' \subseteq Holding
  BY <1>1 DEF Holding, HoldingPC
<1>4. FrameCounted'
  <2> SUFFICES ASSUME unput' = 0, video # "gone" PROVE FrameCounted'
    BY DEF FrameCounted
  <2>1. unput = 0 /\ tpc[t] # "put" /\ unput \in Nat /\ unsaid \in Nat
    BY DEF ThumbIInv, ThumbsTypeOK
  <2>2. frame # None => frame \in Nat /\ frame > 0 /\ frame >= References'
    BY <1>1, <2>1 DEF ThumbIInv, ThumbsTypeOK, FrameCounted, References
  <2>3. frame # None /\ unsaid' = 0 => frame = References'
    BY <1>1, <2>1 DEF ThumbIInv, FrameCounted, References, HoldingPC
  <2>4. frame # None => jpeg \/ \E k \in Filler : tpc'[k] = "put"
    BY <1>1, <2>1 DEF ThumbIInv, FrameCounted, ThumbTask
  <2>5. /\ \A k \in ThumbTask : /\ tpc'[k] \notin {"purge", "erase"}
                                /\ video = "bare" => tpc'[k] # "release"
        /\ frame = None => Holding' = {} /\ video = "bare"
    BY <1>1, <1>3, <2>1 DEF ThumbIInv, FrameCounted
  <2>6. QED BY <2>2, <2>3, <2>4, <2>5 DEF FrameCounted
<1>5. FrameLeaves'
  <2> SUFFICES ASSUME unput' + unsaid' = 0, video = "gone", frame # None PROVE FrameLeaves'
    BY DEF FrameLeaves
  <2>1. unput = 0 /\ unsaid = 0 /\ unput' = 0 /\ unsaid' = 0
    <3>1. unput \in Nat /\ unsaid \in Nat /\ unput' \in Nat /\ unsaid' \in Nat
      BY DEF ThumbIInv, ThumbsTypeOK
    <3>2. unput' = 0 /\ unsaid' = 0
      BY <3>1, SumZero
    <3>3. QED BY <3>1, <3>2
  <2>2. tpc[t] \notin {"put", "link", "release", "purge"}
    BY <2>1
  <2>3. QED BY <1>1, <2>1, <2>2 DEF ThumbIInv, FrameLeaves, HoldingPC
<1>6. QED BY <1>1, <1>2, <1>4, <1>5 DEF ThumbIInv

\* A task comes by a reference and counts it.
LEMMA TakingStep ==
  ASSUME ThumbIInv, NEW t \in Filler, tpc[t] \in {"acquire", "bump"},
         InsertFrame(t) \/ BumpFrame(t)
  PROVE  ThumbIInv'
<1>1. t \in ThumbTask /\ UNCHANGED <<video, jpeg, unput, unsaid>> /\ ThumbsTypeOK
  BY DEF InsertFrame, BumpFrame, ThumbTask, ThumbIInv
<1>2. CASE frame' = frame
  <2>1. PICK next \in {"idle", "acquire", "bump"} : TaskGoto(t, next)
    <3>1. frame # None => frame \in Nat
      BY <1>1 DEF ThumbsTypeOK
    <3>2. CASE InsertFrame(t)
      <4>1. TaskGoto(t, "bump")
        BY <1>2, <3>2, ThumbnailsNoneAssumption DEF InsertFrame
      <4>2. QED BY <4>1
    <3>3. CASE BumpFrame(t)
      <4>1. TaskGoto(t, "idle")
        BY <1>2, <3>1, <3>3 DEF BumpFrame
      <4>2. QED BY <4>1
    <3>4. QED BY <3>2, <3>3
  <2>2. QED
    BY <1>1, <1>2, <2>1, GoingStep DEF ThumbsTypeOK
<1>3. CASE frame' # frame
  <2>1. PICK next \in {"put", "link"} :
          /\ TaskGoto(t, next)
          /\ frame = None => next = "put" /\ frame' = 1
          /\ frame # None => next = "link" /\ frame' = frame + 1
    BY <1>3 DEF InsertFrame, BumpFrame
  <2>2. /\ tpc' \in [ThumbTask -> TaskPC] /\ tpc'[t] = next /\ IsFiniteSet(Holding')
        /\ \A k \in ThumbTask : k # t => tpc'[k] = tpc[k]
        /\ Cardinality(Holding) \in Nat /\ Cardinality(Holding') = Cardinality(Holding) + 1
    BY <1>1, <2>1, HoldingStep DEF TaskPC, HoldingPC
  <2>3. frame' \in Nat /\ frame' > 0 /\ (frame # None => frame \in Nat)
        /\ unput \in Nat /\ unsaid \in Nat
    BY <1>1, <2>1 DEF ThumbsTypeOK
  <2>4. ThumbsTypeOK'
    BY <1>1, <2>2, <2>3 DEF ThumbsTypeOK, TaskPC
  <2>5. FrameCounted'
    <3> SUFFICES ASSUME unput = 0, video # "gone" PROVE FrameCounted'
      BY <1>1 DEF FrameCounted
    <3>1. frame' >= References' /\ (unsaid = 0 => frame' = References')
      <4>1. frame = None => Cardinality(Holding) = 0 /\ video = "bare"
        BY FS_EmptySet DEF ThumbIInv, FrameCounted
      <4>2. frame # None => frame >= References /\ (unsaid = 0 => frame = References)
        BY DEF ThumbIInv, FrameCounted
      <4>3. QED BY <1>1, <2>1, <2>2, <2>3, <4>1, <4>2 DEF References
    <3>2. \A k \in ThumbTask : /\ tpc'[k] \notin {"purge", "erase"}
                               /\ video' = "bare" => tpc'[k] # "release"
      BY <1>1, <2>2 DEF ThumbIInv, FrameCounted
    <3>3. jpeg' \/ \E k \in Filler : tpc'[k] = "put"
      BY <1>1, <2>1, <2>2 DEF ThumbIInv, FrameCounted, ThumbTask
    <3>4. QED BY <1>1, <2>3, <3>1, <3>2, <3>3, ThumbnailsNoneAssumption DEF FrameCounted
  <2>6. FrameLeaves'
    <3> SUFFICES ASSUME unput + unsaid = 0, video = "gone" PROVE FrameLeaves'
      BY <1>1 DEF FrameLeaves
    <3>1. frame # None => frame <= Cardinality(Holding)
      BY DEF ThumbIInv, FrameLeaves
    <3>2. frame' <= Cardinality(Holding')
      BY <2>1, <2>2, <2>3, <3>1
    <3>3. QED BY <2>3, <3>2 DEF FrameLeaves
  <2>7. QED BY <2>2, <2>4, <2>5, <2>6 DEF ThumbIInv
<1>4. QED BY <1>2, <1>3

\* Nothing is said of the frame after a PUT has failed.
LEMMA PutFailsStep ==
  ASSUME ThumbIInv, NEW t \in Filler, PutFrameFails(t)
  PROVE  ThumbIInv'
<1>1. t \in ThumbTask /\ UNCHANGED <<video, frame, unsaid>> /\ ThumbsTypeOK
  BY DEF PutFrameFails, ThumbTask, ThumbIInv
<1>2. PICK next \in {"release", "idle"} : TaskGoto(t, next)
  BY DEF PutFrameFails
<1>3. tpc' \in [ThumbTask -> TaskPC] /\ IsFiniteSet(Holding')
  BY <1>1, <1>2, HoldingStep DEF TaskPC
<1>4. unput' \in 0 .. Mishaps /\ unput' # 0 /\ unput' + unsaid' # 0 /\ jpeg' \in BOOLEAN
  <2>1. unput \in Nat /\ unsaid \in Nat /\ unput < Mishaps /\ unput' = unput + 1
    BY <1>1 DEF PutFrameFails, ThumbsTypeOK
  <2>2. unput' \in 0 .. Mishaps /\ unput' # 0 /\ unput' + unsaid' # 0
    BY <1>1, <2>1, ThumbnailsAssumption
  <2>3. QED BY <1>1, <2>2 DEF PutFrameFails, ThumbsTypeOK
<1>5. ThumbsTypeOK'
  BY <1>1, <1>3, <1>4 DEF ThumbsTypeOK, TaskPC
<1>6. QED BY <1>3, <1>4, <1>5 DEF ThumbIInv, FrameCounted, FrameLeaves

\* A reference in hand stays in hand, or is the file's from now on.
LEMMA LinkingStep ==
  ASSUME ThumbIInv, NEW t \in Filler, PutFrame(t) \/ LinkFrame(t)
  PROVE  ThumbIInv'
<1>1. t \in ThumbTask /\ UNCHANGED <<frame, unput, unsaid>> /\ ThumbsTypeOK
  BY DEF PutFrame, LinkFrame, ThumbTask, ThumbIInv
<1>2. PICK next \in {"link", "idle", "release"} :
        /\ TaskGoto(t, next) /\ tpc[t] \in {"put", "link"}
        /\ next = "link" => jpeg' = TRUE /\ video' = video
        /\ next = "idle" => video = "bare" /\ video' = "linked"
        /\ next = "release" => video # "bare" /\ video' = video
        /\ next # "link" => tpc[t] = "link" /\ jpeg' = jpeg
  <2>1. CASE PutFrame(t)
    BY <2>1 DEF PutFrame
  <2>2. CASE LinkFrame(t)
    BY <2>2 DEF LinkFrame
  <2>3. QED BY <2>1, <2>2
<1>3. /\ tpc' \in [ThumbTask -> TaskPC] /\ tpc'[t] = next /\ IsFiniteSet(Holding')
      /\ \A k \in ThumbTask : k # t => tpc'[k] = tpc[k]
      /\ Cardinality(Holding) \in Nat /\ t \in Holding
      /\ Cardinality(Holding') = Cardinality(Holding) - (IF next = "idle" THEN 1 ELSE 0)
  BY <1>1, <1>2, HoldingStep DEF TaskPC, HoldingPC
<1>4. ThumbsTypeOK'
  BY <1>1, <1>2, <1>3 DEF ThumbsTypeOK, TaskPC
<1>5. References' = References
  BY <1>2, <1>3 DEF References
<1>6. FrameCounted'
  <2> SUFFICES ASSUME unput = 0, video # "gone" PROVE FrameCounted'
    BY <1>1, <1>2 DEF FrameCounted
  <2>1. frame # None /\ (jpeg \/ \E k \in Filler : tpc[k] = "put")
    BY <1>3 DEF ThumbIInv, FrameCounted
  <2>2. \A k \in ThumbTask : /\ tpc'[k] \notin {"purge", "erase"}
                             /\ video' = "bare" => tpc'[k] # "release"
    BY <1>2, <1>3 DEF ThumbIInv, FrameCounted
  <2>3. jpeg' \/ \E k \in Filler : tpc'[k] = "put"
    BY <1>2, <1>3, <2>1 DEF ThumbTask
  <2>4. QED BY <1>1, <1>5, <2>1, <2>2, <2>3 DEF ThumbIInv, FrameCounted
<1>7. FrameLeaves'
  <2> SUFFICES ASSUME unput + unsaid = 0, video' = "gone", frame # None PROVE FrameLeaves'
    BY <1>1 DEF FrameLeaves
  <2>1. video = "gone" /\ Cardinality(Holding') = Cardinality(Holding)
    BY <1>2, <1>3
  <2>2. /\ frame <= Cardinality(Holding)
        /\ frame = 0 => \E k \in ThumbTask : tpc[k] = "purge"
    BY <2>1 DEF ThumbIInv, FrameLeaves
  <2>3. frame = 0 => \E k \in ThumbTask : tpc'[k] = "purge"
    BY <1>2, <1>3, <2>2
  <2>4. QED BY <1>1, <2>1, <2>2, <2>3 DEF FrameLeaves
<1>8. QED BY <1>3, <1>4, <1>6, <1>7 DEF ThumbIInv

\* The file goes; its reference, if it has one, is in the hand of who removed it.
LEMMA RemoveStep ==
  ASSUME ThumbIInv, NEW t \in Cleaner, RemoveVideo(t)
  PROVE  ThumbIInv'
<1>1. /\ t \in ThumbTask /\ UNCHANGED <<frame, jpeg, unput, unsaid>> /\ ThumbsTypeOK
      /\ tpc[t] = "idle" /\ video # "gone" /\ video' = "gone"
  BY DEF RemoveVideo, ThumbTask, ThumbIInv
<1>2. PICK next \in {"release", "idle"} :
        TaskGoto(t, next) /\ (next = "release" <=> video = "linked")
  <2>1. CASE video = "linked"
    BY <2>1 DEF RemoveVideo
  <2>2. CASE video # "linked"
    <3>1. tpc' = [tpc EXCEPT ![t] = "idle"]
      BY <1>1, <2>2 DEF RemoveVideo, ThumbsTypeOK
    <3>2. QED BY <2>2, <3>1 DEF TaskGoto
  <2>3. QED BY <2>1, <2>2
<1>3. /\ tpc' \in [ThumbTask -> TaskPC] /\ IsFiniteSet(Holding')
      /\ Cardinality(Holding) \in Nat
      /\ Cardinality(Holding') = Cardinality(Holding) + (IF next = "release" THEN 1 ELSE 0)
  BY <1>1, <1>2, HoldingStep DEF TaskPC, HoldingPC
<1>4. ThumbsTypeOK' /\ FrameCounted'
  BY <1>1, <1>3 DEF ThumbsTypeOK, TaskPC, FrameCounted
<1>5. FrameLeaves'
  <2> SUFFICES ASSUME unput + unsaid = 0, frame # None PROVE FrameLeaves'
    BY <1>1 DEF FrameLeaves
  <2>1. unput = 0 /\ unsaid = 0
    <3>1. unput \in Nat /\ unsaid \in Nat
      BY <1>1 DEF ThumbsTypeOK
    <3>2. QED BY <3>1, SumZero
  <2>2. frame = References /\ frame > 0
    BY <1>1, <2>1 DEF ThumbIInv, FrameCounted
  <2>3. Cardinality(Holding') = References
    BY <1>2, <1>3 DEF References
  <2>4. frame \in Nat
    BY <1>1 DEF ThumbsTypeOK
  <2>5. QED BY <1>1, <2>2, <2>3, <2>4 DEF FrameLeaves
<1>6. QED BY <1>3, <1>4, <1>5 DEF ThumbIInv

\* A reference is given back; who gives the last one back will purge the row.
LEMMA ReleaseStep ==
  ASSUME ThumbIInv, NEW t \in ThumbTask, ReleaseFrame(t)
  PROVE  ThumbIInv'
<1>1. /\ UNCHANGED <<video, jpeg, unput, unsaid>> /\ ThumbsTypeOK /\ tpc[t] = "release"
      /\ frame' = IF frame \in {None, 0} THEN frame ELSE frame - 1
  BY DEF ReleaseFrame, ThumbIInv
<1>2. PICK next \in {"purge", "idle"} : TaskGoto(t, next) /\ (next = "purge" <=> frame = 1)
  BY DEF ReleaseFrame
<1>3. /\ tpc' \in [ThumbTask -> TaskPC] /\ tpc'[t] = next /\ IsFiniteSet(Holding')
      /\ \A k \in ThumbTask : k # t => tpc'[k] = tpc[k]
      /\ Cardinality(Holding) \in Nat /\ Cardinality(Holding) >= 1 /\ t \in Holding
      /\ Cardinality(Holding') = Cardinality(Holding) - 1
  BY <1>1, <1>2, HoldingStep DEF TaskPC, HoldingPC
<1>4. /\ frame # None => frame \in Nat /\ frame' \in Nat
      /\ frame = None => frame' = None
  BY <1>1 DEF ThumbsTypeOK
<1>5. ThumbsTypeOK'
  BY <1>1, <1>3, <1>4 DEF ThumbsTypeOK, TaskPC
<1>6. FrameCounted'
  <2> SUFFICES ASSUME unput = 0, video # "gone" PROVE FrameCounted'
    BY <1>1 DEF FrameCounted
  <2>1. /\ video = "linked" /\ frame # None /\ frame >= References
        /\ unsaid = 0 => frame = References
        /\ jpeg \/ \E k \in Filler : tpc[k] = "put"
    BY <1>1, <1>3 DEF ThumbIInv, FrameCounted, ThumbsTypeOK
  <2>2. References = Cardinality(Holding) + 1 /\ References' = Cardinality(Holding)
    BY <1>1, <1>3, <2>1 DEF References
  <2>3. frame \in Nat /\ frame >= 2 /\ frame' = frame - 1
    BY <1>1, <1>3, <1>4, <2>1, <2>2
  <2>4. /\ frame' # None /\ frame' > 0 /\ frame' >= References'
        /\ unsaid = 0 => frame' = References'
    BY <1>3, <1>4, <2>1, <2>2, <2>3, ThumbnailsNoneAssumption
  <2>5. \A k \in ThumbTask : /\ tpc'[k] \notin {"purge", "erase"}
                             /\ video' = "bare" => tpc'[k] # "release"
    BY <1>1, <1>2, <1>3, <2>1, <2>3 DEF ThumbIInv, FrameCounted
  <2>6. jpeg' \/ \E k \in Filler : tpc'[k] = "put"
    BY <1>1, <1>3, <2>1 DEF ThumbTask
  <2>7. QED BY <1>1, <2>4, <2>5, <2>6 DEF FrameCounted
<1>7. FrameLeaves'
  <2> SUFFICES ASSUME unput + unsaid = 0, video = "gone", frame' # None PROVE FrameLeaves'
    BY <1>1 DEF FrameLeaves
  <2>1. frame # None /\ frame \in Nat
    BY <1>4
  <2>2. /\ frame <= Cardinality(Holding)
        /\ frame = 0 => \E k \in ThumbTask : tpc[k] = "purge"
    BY <2>1 DEF ThumbIInv, FrameLeaves
  <2>3. frame' <= Cardinality(Holding')
    BY <1>1, <1>3, <2>1, <2>2
  <2>4. frame' = 0 => \E k \in ThumbTask : tpc'[k] = "purge"
    <3>1. CASE frame = 0
      BY <1>1, <1>3, <2>2, <3>1
    <3>2. CASE frame # 0
      BY <1>1, <1>2, <1>3, <2>1, <3>2
    <3>3. QED BY <3>1, <3>2
  <2>5. QED BY <2>3, <2>4 DEF FrameLeaves
<1>8. QED BY <1>3, <1>5, <1>6, <1>7 DEF ThumbIInv

\* The row and the bytes go once the file has.
LEMMA ErasingStep ==
  ASSUME ThumbIInv, NEW t \in ThumbTask, PurgeFrame(t) \/ EraseFrame(t)
  PROVE  ThumbIInv'
<1>1. /\ UNCHANGED <<video, unput, unsaid>> /\ ThumbsTypeOK
      /\ tpc[t] \in {"purge", "erase"} /\ frame' \in {frame, None}
      /\ tpc[t] = "purge" => frame' = None
      /\ jpeg' \in BOOLEAN
  BY DEF PurgeFrame, EraseFrame, ThumbIInv, ThumbsTypeOK
<1>2. PICK next \in {"erase", "idle"} : TaskGoto(t, next)
  BY DEF PurgeFrame, EraseFrame
<1>3. /\ tpc' \in [ThumbTask -> TaskPC] /\ IsFiniteSet(Holding')
      /\ \A k \in ThumbTask : k # t => tpc'[k] = tpc[k]
      /\ Cardinality(Holding') = Cardinality(Holding)
  BY <1>1, <1>2, HoldingStep DEF TaskPC, HoldingPC
<1>4. ThumbsTypeOK'
  BY <1>1, <1>3 DEF ThumbsTypeOK, TaskPC
<1>5. FrameCounted'
  BY <1>1 DEF ThumbIInv, FrameCounted
<1>6. FrameLeaves'
  BY <1>1, <1>3 DEF ThumbIInv, FrameLeaves
<1>7. QED BY <1>3, <1>4, <1>5, <1>6 DEF ThumbIInv

\* Every step of every task keeps the invariant.
LEMMA ThumbStep == ThumbIInv /\ [ThumbNext]_thumbvars => ThumbIInv'
<1> SUFFICES ASSUME ThumbIInv, [ThumbNext]_thumbvars PROVE ThumbIInv'
  OBVIOUS
<1>1. CASE UNCHANGED thumbvars
  <2>1. Holding' = Holding /\ References' = References
    BY <1>1 DEF thumbvars, Holding, References
  <2>2. QED
    BY <1>1, <2>1 DEF thumbvars, ThumbIInv, ThumbsTypeOK, FrameCounted, FrameLeaves
<1>2. ASSUME NEW t \in ThumbTask, FindBare(t) \/ FillFails(t) PROVE ThumbIInv'
  <2>1. ThumbsTypeOK /\ unput \in Nat /\ unsaid \in Nat
    BY DEF ThumbIInv, ThumbsTypeOK
  <2>2. /\ UNCHANGED <<video, frame, jpeg, unput>> /\ tpc[t] # "put"
        /\ \E next \in {"idle", "acquire", "bump"} : TaskGoto(t, next)
        /\ unsaid' \in 0 .. Mishaps /\ unsaid' >= unsaid
        /\ tpc[t] \in {"link", "release", "purge"} => unsaid' > 0
    BY <1>2, <2>1, ThumbnailsAssumption DEF FindBare, FillFails, ThumbsTypeOK
  <2>3. QED BY <2>1, <2>2, GoingStep DEF ThumbsTypeOK
<1>3. ASSUME NEW t \in Filler, InsertFrame(t) \/ BumpFrame(t) PROVE ThumbIInv'
  BY <1>3, TakingStep DEF InsertFrame, BumpFrame
<1>4. ASSUME NEW t \in Filler, PutFrame(t) \/ PutFrameFails(t) \/ LinkFrame(t) PROVE ThumbIInv'
  BY <1>4, LinkingStep, PutFailsStep
<1>5. QED
  BY <1>1, <1>2, <1>3, <1>4, RemoveStep, ReleaseStep, ErasingStep DEF ThumbNext, ThumbTask

-----------------------------------------------------------------------------
\* The refcount of a frame covers the references in hand and that of the file, as long
\* as the file is there.
THEOREM ThumbInductive == ThumbSpec => []ThumbIInv
BY ThumbInitial, ThumbStep, PTL DEF ThumbSpec

\* The refcount is never taken below zero.
THEOREM ThumbsTyped == ThumbSpec => []ThumbsTypeOK
<1>1. ThumbIInv => ThumbsTypeOK
  BY DEF ThumbIInv
<1>2. QED BY <1>1, ThumbInductive, PTL

\* However many tasks make the thumbnail of a video, the linked one stays, and once all
\* is quiet it is counted once.
THEOREM ThumbnailsOnce == ThumbSpec => []ThumbnailOnce
<1>1. ThumbIInv => ThumbnailOnce
  <2> SUFFICES ASSUME ThumbIInv PROVE ThumbnailOnce
    OBVIOUS
  <2>1. ASSUME video = "linked", unput = 0
        PROVE  frame # None /\ frame > 0 /\ (jpeg \/ \E t \in Filler : tpc[t] = "put")
    BY <2>1 DEF ThumbIInv, FrameCounted
  <2>2. ASSUME unput + unsaid = 0, \A t \in ThumbTask : tpc[t] = "idle"
        PROVE  frame = IF video = "linked" THEN 1 ELSE None
    <3>1. Holding = {} /\ Cardinality(Holding) = 0
      BY <2>2, FS_EmptySet DEF Holding, HoldingPC
    <3>2. unput = 0 /\ unsaid = 0 /\ (frame # None => frame \in Nat)
      <4>1. unput \in Nat /\ unsaid \in Nat /\ (frame # None => frame \in Nat)
        BY DEF ThumbIInv, ThumbsTypeOK
      <4>2. QED BY <2>2, <4>1, SumZero
    <3>3. CASE video = "gone"
      BY <2>2, <3>1, <3>2, <3>3 DEF ThumbIInv, FrameLeaves
    <3>4. CASE video # "gone"
      BY <3>1, <3>2, <3>4 DEF ThumbIInv, FrameCounted, References
    <3>5. QED BY <3>3, <3>4
  <2>3. QED BY <2>1, <2>2 DEF ThumbnailOnce
<1>2. QED BY <1>1, ThumbInductive, PTL

-----------------------------------------------------------------------------
(***************************************************************************)
(* ObjectWrites: the inductive invariant.  Pieces go from the file through *)
(* two channels to the backend, and wherever each is, it is the next one   *)
(* after those ahead of it; which stage the call is at says where pieces   *)
(* can be.                                                                 *)
(***************************************************************************)
\* The pieces of s are those that follow the first k.
Run(s, k) == s \in Seq(Nat) /\ \A i \in 1..Len(s) : s[i] = k + i

\* Pieces that the backend has, with the one its loop has in hand, and those that were
\* handed to the channels.
Taken == Len(tmp) + (IF hand = None THEN 0 ELSE 1)
Passed == Taken + Len(mpipe)
Drawn == Passed + Len(held) + Len(pipe)

MainPC == {"idle", "first", "second", "put", "create", "complete", "abort", "rename",
           "stored", "unstored", "done", "dropped"} \cup Flying

WritesShape ==
  /\ total \in Nat /\ read \in Nat /\ total <= Pieces /\ read <= total
  /\ backend \in {"local", "s3"}
  /\ pump \in {None, "read", "send", "ok", "failed"}
  /\ main \in MainPC /\ forward \in {"none", "run", "ended"}
  /\ upload \in {"none", "open", "completed", "aborted", "abort failed"}
  /\ result \in {None, "ok", "error"}
  /\ Len(pipe) <= PipeDepth + 1 /\ Len(mpipe) <= PipeDepth /\ Len(held) <= 2

\* Wherever the pieces are, each is one ahead of the one behind it.
InOrder ==
  /\ Run(tmp, 0) /\ hand \in {None, Len(tmp) + 1}
  /\ Run(mpipe, Taken) /\ Run(held, Passed) /\ Run(pipe, Passed + Len(held))

\* What the pump has read is on its way, until it fails.
NoneLost ==
  /\ pump = None => main = "idle"
  /\ main = "idle" => pump = None /\ read = 0
  /\ pump \in {"read", "ok"} => read = Drawn
  /\ pump = "send" => read = Drawn + 1
  /\ pump = "ok" => read = total

\* Where the pieces can be while the call is where it is.
Before == tmp = <<>> /\ hand = None /\ mpipe = <<>> /\ forward = "none"
Stages ==
  /\ main \in {"idle", "first"} => Before /\ held = <<>>
  /\ main = "idle" => pipe = <<>>
  /\ main = "second" => Before /\ Len(held) = 1
  /\ main = "put" => /\ Before /\ pipe = <<>> /\ PumpEnded
                     /\ Len(held) = 1 \/ (total = 0 /\ held = <<>>)
  /\ main = "create" => hand = None /\ tmp = <<>>
  /\ main \in {"permit", "failing"} => hand # None
  /\ backend = "s3" /\ main \in {"loop", "drain", "rename", "complete", "stored"} => hand = None
  /\ lost # None => backend = "local" /\ hand # None
  /\ forward = "ended" /\ MpipeOpen => held = <<>> /\ pipe = <<>> /\ PumpEnded
  /\ main \in {"rename", "drain", "complete"} => mpipe = <<>> /\ forward = "ended"
  /\ main = "stored" => object = tmp /\ (pump = "ok" => Taken = total) /\ PumpEnded

PartsFit ==
  /\ IsFiniteSet(parts) /\ Cardinality(parts) <= Concurrency
  /\ main \notin Flying \/ backend = "local" => parts = {}
  /\ main \in {"create", "permit", "failing", "drain", "draining", "complete"} => backend = "s3"
  /\ etags \in Seq(Nat)
  /\ backend = "s3" /\ main \in {"create", "loop", "permit", "drain", "complete"} =>
       ToSet(etags) \cup parts = 1..Len(tmp)
  /\ main \in {"idle", "first", "second", "put", "create"} => etags = <<>>

Returned ==
  /\ object # None => Run(object, 0)
  /\ main \notin {"stored", "done", "dropped"} => object = None
  /\ main # "done" => result = None
  /\ result = "ok" => \/ object = WholeFile /\ hand = None
                      \/ pump = "failed" /\ object = <<1>> /\ hand = None
                      \/ backend = "local" /\ object = tmp /\ Len(tmp) + 1 = total
                           /\ hand = total

WritesIInv == WritesShape /\ InOrder /\ NoneLost /\ Stages /\ PartsFit /\ Returned

-----------------------------------------------------------------------------
\* A run with its next piece appended.
LEMMA RunAppend ==
  ASSUME NEW s, NEW k \in Nat, Run(s, k)
  PROVE  LET t == Append(s, k + Len(s) + 1) IN Run(t, k) /\ Len(t) = Len(s) + 1
BY DEF Run

\* What is taken from the head of a run, and what is left of it.
LEMMA RunTail ==
  ASSUME NEW s, NEW k \in Nat, Run(s, k), s # <<>>
  PROVE  /\ Head(s) = k + 1 /\ Run(Tail(s), k + 1) /\ Len(Tail(s)) = Len(s) - 1
         /\ Len(s) >= 1
<1>1. s \in Seq(Nat) /\ Len(s) \in Nat /\ Len(s) >= 1
  BY DEF Run
<1>2. /\ Tail(s) \in Seq(Nat) /\ Len(Tail(s)) = Len(s) - 1
      /\ \A i \in 1..Len(Tail(s)) : Tail(s)[i] = s[i + 1]
  BY <1>1
<1>3. \A i \in 1..Len(Tail(s)) : Tail(s)[i] = (k + 1) + i
  <2> SUFFICES ASSUME NEW i \in 1..Len(Tail(s)) PROVE Tail(s)[i] = (k + 1) + i
    OBVIOUS
  <2>1. i \in Int /\ i + 1 \in 1..Len(s)
    BY <1>1, <1>2
  <2>2. s[i + 1] = k + (i + 1)
    BY <2>1 DEF Run
  <2>3. QED BY <1>2, <2>1, <2>2
<1>4. Head(s) = k + 1
  BY <1>1 DEF Run
<1>5. QED BY <1>1, <1>2, <1>3, <1>4 DEF Run

\* A run from the beginning is given by its length.
LEMMA RunIs ==
  ASSUME NEW s, Run(s, 0)
  PROVE  s = [i \in 1..Len(s) |-> i] /\ Len(s) \in Nat
<1>1. s \in Seq(Nat) /\ \A i \in 1..Len(s) : s[i] = 0 + i
  BY DEF Run
<1>2. DOMAIN s = 1..Len(s) /\ Len(s) \in Nat /\ \A i \in 1..Len(s) : s[i] = i
  BY <1>1
<1>3. QED BY <1>1, <1>2

\* All the counts of pieces are numbers.
LEMMA Lengths ==
  ASSUME InOrder
  PROVE  /\ Len(tmp) \in Nat /\ Len(mpipe) \in Nat /\ Len(held) \in Nat /\ Len(pipe) \in Nat
         /\ Taken \in Nat /\ Passed \in Nat /\ Drawn \in Nat
         /\ hand = None => Taken = Len(tmp)
         /\ hand # None => Taken = Len(tmp) + 1
BY DEF InOrder, Run, Taken, Passed, Drawn

\* Everything that was handed on is taken when nothing is on its way.
LEMMA AllTaken ==
  ASSUME InOrder, mpipe = <<>>, held = <<>>, pipe = <<>>
  PROVE  Drawn = Taken
<1>1. Taken \in Nat
  BY Lengths
<1>2. Len(mpipe) = 0 /\ Len(held) = 0 /\ Len(pipe) = 0
  OBVIOUS
<1>3. QED BY <1>1, <1>2 DEF Drawn, Passed

\* Before the call nothing is anywhere.
LEMMA WritesInitial == WritesInit => WritesIInv
<1> SUFFICES ASSUME WritesInit PROVE WritesIInv
  OBVIOUS
<1>1. WritesShape
  BY WritesAssumption DEF WritesInit, WritesShape, MainPC
<1>2. InOrder /\ Drawn = 0
  <2>1. Run(<<>>, 0)
    BY DEF Run
  <2>2. Taken = 0 /\ Passed = 0 /\ Drawn = 0
    BY DEF WritesInit, Taken, Passed, Drawn
  <2>3. QED BY <2>1, <2>2 DEF WritesInit, InOrder
<1>3. NoneLost
  BY <1>2, WritesNoneAssumption DEF WritesInit, NoneLost
<1>4. Stages
  BY DEF WritesInit, Stages, Before, MpipeOpen
<1>5. Returned
  BY WritesNoneAssumption DEF WritesInit, Returned
<1>6. PartsFit
  BY FS_EmptySet, WritesAssumption DEF WritesInit, PartsFit, Flying
<1>7. QED BY <1>1, <1>2, <1>3, <1>4, <1>5, <1>6 DEF WritesIInv

\* The call begins.
LEMMA BeginStep ==
  ASSUME WritesIInv, NEW n \in 0..Pieces, NEW b \in {"local", "s3"}, main = "idle", put_file(n, b)
  PROVE  WritesIInv'
<1>1. /\ main' = "first" /\ total' = n /\ backend' = b /\ pump' = "read" /\ read = 0
      /\ UNCHANGED <<read, pipe, held, forward, mpipe, result>>
      /\ UNCHANGED <<hand, lost, tmp, parts, etags, upload, object>>
  BY DEF put_file, backing, WritesIInv, NoneLost
<1>2. /\ Before /\ held = <<>> /\ pipe = <<>> /\ object = None /\ result = None
      /\ parts = {} /\ etags = <<>>
  BY DEF WritesIInv, Stages, PartsFit, Returned, Flying
<1>3. WritesShape'
  <2>1. n \in Nat /\ n <= Pieces /\ 0 <= n
    BY WritesAssumption
  <2>2. QED BY <1>1, <2>1 DEF WritesIInv, WritesShape, MainPC
<1>4. InOrder' /\ Drawn' = 0
  BY <1>1, <1>2 DEF WritesIInv, InOrder, Taken, Passed, Drawn, Before
<1>5. NoneLost'
  BY <1>1, <1>4, WritesNoneAssumption DEF NoneLost
<1>6. Stages'
  BY <1>1, <1>2 DEF WritesIInv, Stages, Before, MpipeOpen
<1>7. PartsFit'
  BY <1>1, <1>2 DEF WritesIInv, PartsFit
<1>8. Returned'
  BY <1>1, <1>2, WritesNoneAssumption DEF Returned
<1>9. QED BY <1>3, <1>4, <1>5, <1>6, <1>7, <1>8 DEF WritesIInv

\* The pump reads a piece, hands one on, or ends.
LEMMA PumpStep ==
  ASSUME WritesIInv, main # "idle", Pump
  PROVE  WritesIInv'
<1>1. /\ UNCHANGED <<total, backend, main, held, forward, mpipe, result>>
      /\ UNCHANGED <<hand, lost, tmp, parts, etags, upload, object>>
      /\ pump \in {"read", "send"} /\ pump' \in {"read", "send", "ok", "failed"}
  BY DEF Pump, ReadPiece, ReadFails, SendPiece, backing
<1>2. /\ Len(tmp) \in Nat /\ Len(mpipe) \in Nat /\ Len(held) \in Nat /\ Len(pipe) \in Nat
      /\ Taken \in Nat /\ Passed \in Nat /\ Drawn \in Nat
  BY Lengths DEF WritesIInv
<1>3. Taken' = Taken /\ Passed' = Passed
  BY <1>1 DEF Taken, Passed
<1>4. total \in Nat /\ read \in Nat /\ read <= total
  BY DEF WritesIInv, WritesShape
<1>5. /\ Run(pipe', Passed + Len(held)) /\ Len(pipe') \in Nat /\ Len(pipe') <= PipeDepth + 1
      /\ read' \in Nat /\ read' <= total
      /\ pump' \in {"read", "ok"} => read' = Drawn'
      /\ pump' = "send" => read' = Drawn' + 1
      /\ pump' = "ok" => read' = total
      /\ pipe' # pipe => PipeOpen
  <2>1. CASE ReadPiece
    <3>1. Drawn' = Drawn /\ read = Drawn
      BY <1>1, <2>1 DEF ReadPiece, WritesIInv, NoneLost, Drawn, Passed, Taken
    <3>2. /\ UNCHANGED pipe /\ Run(pipe, Passed + Len(held)) /\ Len(pipe) <= PipeDepth + 1
      BY <2>1 DEF ReadPiece, WritesIInv, InOrder, WritesShape
    <3>3. \/ read < total /\ pump' = "send" /\ read' = read + 1
          \/ ~(read < total) /\ pump' = "ok" /\ read' = read
      BY <2>1 DEF ReadPiece
    <3>4. QED BY <1>2, <1>4, <3>1, <3>2, <3>3
  <2>2. CASE ReadFails
    BY <1>2, <1>4, <2>2 DEF ReadFails, WritesIInv, InOrder, WritesShape
  <2>3. CASE SendPiece
    <3>1. read = Drawn + 1 /\ UNCHANGED read
      BY <2>3 DEF SendPiece, WritesIInv, NoneLost
    <3>2. CASE UNCHANGED pipe /\ pump' = "failed"
      BY <1>2, <1>4, <3>1, <3>2 DEF WritesIInv, InOrder, WritesShape
    <3>3. CASE PipeOpen /\ Len(pipe) < PipeDepth + 1 /\ pipe' = Append(pipe, read) /\ pump' = "read"
      <4>1. read = (Passed + Len(held)) + Len(pipe) + 1
        BY <1>2, <3>1 DEF Drawn
      <4>2. Run(pipe, Passed + Len(held)) /\ Passed + Len(held) \in Nat
        BY <1>2 DEF WritesIInv, InOrder
      <4>3. Run(pipe', Passed + Len(held)) /\ Len(pipe') = Len(pipe) + 1
        BY <3>3, <4>1, <4>2, RunAppend
      <4>4. Drawn' = Drawn + 1
        BY <1>1, <1>2, <1>3, <4>3 DEF Drawn
      <4>5. Len(pipe') \in Nat /\ Len(pipe') <= PipeDepth + 1
        BY <1>2, <3>3, <4>3, WritesAssumption
      <4>6. read' = Drawn' /\ read' \in Nat /\ read' <= total
        BY <1>4, <3>1, <4>4
      <4>7. QED
        BY <3>3, <4>3, <4>5, <4>6
    <3>4. QED BY <2>3, <3>2, <3>3 DEF SendPiece
  <2>4. QED BY <2>1, <2>2, <2>3 DEF Pump
<1>6. WritesShape'
  BY <1>1, <1>5 DEF WritesIInv, WritesShape
<1>7. InOrder'
  BY <1>1, <1>3, <1>5 DEF WritesIInv, InOrder
<1>8. NoneLost'
  BY <1>1, <1>5, WritesNoneAssumption DEF WritesIInv, NoneLost
<1>9. Stages'
  <2>1. PumpEnded' \/ ~PumpEnded
    BY <1>1 DEF PumpEnded
  <2>2. ~PumpEnded
    BY <1>1 DEF PumpEnded
  <2>3. /\ main # "put" /\ main # "stored"
        /\ ~(forward = "ended" /\ MpipeOpen)
    BY <2>2 DEF WritesIInv, Stages
  <2>4. MpipeOpen' = MpipeOpen /\ Before' = Before
    BY <1>1 DEF MpipeOpen, Before
  <2>5. QED
    BY <1>1, <2>3, <2>4 DEF WritesIInv, Stages
<1>10. PartsFit'
  BY <1>1 DEF WritesIInv, PartsFit
<1>11. Returned'
  <2>1. pump # "failed" /\ WholeFile' = WholeFile
    BY <1>1 DEF WholeFile
  <2>2. QED BY <1>1, <2>1 DEF WritesIInv, Returned
<1>12. QED BY <1>6, <1>7, <1>8, <1>9, <1>10, <1>11 DEF WritesIInv

\* What the other tasks do loses nothing that the pump has read.
LEMMA NoneLostKept ==
  ASSUME WritesIInv, main # "idle", main' # "idle", UNCHANGED <<total, pump, read>>,
         Drawn' = Drawn
  PROVE  NoneLost'
BY DEF WritesIInv, NoneLost

\* The forwarder passes a piece on, takes one, or ends.
LEMMA ForwardStep ==
  ASSUME WritesIInv, main # "idle", Forward
  PROVE  WritesIInv'
<1>1. /\ UNCHANGED <<total, backend, pump, read, main, result>>
      /\ UNCHANGED <<hand, lost, tmp, parts, etags, upload, object>>
      /\ forward = "run" /\ forward' \in {"run", "ended"}
  BY DEF Forward, backing
<1>2. /\ Len(tmp) \in Nat /\ Len(mpipe) \in Nat /\ Len(held) \in Nat /\ Len(pipe) \in Nat
      /\ Taken \in Nat /\ Passed \in Nat /\ Drawn \in Nat
  BY Lengths DEF WritesIInv
<1>3. Taken' = Taken
  BY <1>1 DEF Taken
<1>4. Run(mpipe, Taken) /\ Run(held, Passed) /\ Run(pipe, Passed + Len(held))
  BY DEF WritesIInv, InOrder
<1>5. /\ Run(mpipe', Taken) /\ Run(held', Passed') /\ Run(pipe', Passed' + Len(held'))
      /\ Drawn' = Drawn
      /\ Len(mpipe') <= PipeDepth /\ Len(held') <= 2 /\ Len(pipe') <= PipeDepth + 1
      /\ forward' = "ended" /\ MpipeOpen => held' = <<>> /\ pipe' = <<>> /\ PumpEnded
      /\ mpipe' # mpipe => MpipeOpen
  <2>1. Len(mpipe) <= PipeDepth /\ Len(held) <= 2 /\ Len(pipe) <= PipeDepth + 1
    BY DEF WritesIInv, WritesShape
  <2>2. CASE /\ held # <<>> /\ MpipeOpen /\ Len(mpipe) < PipeDepth
             /\ mpipe' = Append(mpipe, Head(held)) /\ held' = Tail(held)
             /\ UNCHANGED <<pipe, forward>>
    <3>1. /\ Head(held) = Passed + 1 /\ Run(Tail(held), Passed + 1)
          /\ Len(Tail(held)) = Len(held) - 1 /\ Len(held) >= 1
      BY <1>2, <1>4, <2>2, RunTail
    <3>2. Head(held) = Taken + Len(mpipe) + 1
      BY <3>1 DEF Passed
    <3>3. Run(mpipe', Taken) /\ Len(mpipe') = Len(mpipe) + 1
      BY <1>2, <1>4, <2>2, <3>2, RunAppend
    <3>4. Passed' = Passed + 1 /\ Len(held') = Len(held) - 1
      BY <1>2, <1>3, <2>2, <3>1, <3>3 DEF Passed
    <3>5. Passed' + Len(held') = Passed + Len(held) /\ Drawn' = Drawn
      BY <1>2, <2>2, <3>4 DEF Drawn
    <3>6. Len(mpipe') <= PipeDepth /\ Len(held') <= 2
      BY <1>2, <2>1, <2>2, <3>3, <3>4, WritesAssumption
    <3>7. Run(held', Passed') /\ Run(pipe', Passed' + Len(held'))
      BY <1>4, <2>2, <3>1, <3>4, <3>5
    <3>8. QED BY <1>1, <2>1, <2>2, <3>3, <3>5, <3>6, <3>7
  <2>3. CASE held # <<>> /\ ~MpipeOpen /\ forward' = "ended" /\ UNCHANGED <<pipe, held, mpipe>>
    BY <1>3, <1>4, <2>1, <2>3 DEF Passed, Drawn
  <2>4. CASE /\ held = <<>> /\ pipe # <<>> /\ held' = <<Head(pipe)>> /\ pipe' = Tail(pipe)
             /\ UNCHANGED <<forward, mpipe>>
    <3>1. Len(held) = 0 /\ Passed + Len(held) = Passed
      BY <1>2, <2>4
    <3>2. /\ Head(pipe) = Passed + 1 /\ Run(Tail(pipe), Passed + 1)
          /\ Len(Tail(pipe)) = Len(pipe) - 1 /\ Len(pipe) >= 1
      BY <1>2, <1>4, <2>4, <3>1, RunTail
    <3>3. Passed' = Passed /\ Len(held') = 1 /\ Drawn' = Drawn
      BY <1>2, <1>3, <2>4, <3>1, <3>2 DEF Passed, Drawn
    <3>4. Run(held', Passed')
      BY <1>2, <2>4, <3>2, <3>3 DEF Run
    <3>5. Len(pipe') <= PipeDepth + 1
      BY <1>2, <2>1, <2>4, <3>2, WritesAssumption
    <3>6. QED BY <1>1, <1>4, <2>1, <2>4, <3>2, <3>3, <3>4, <3>5
  <2>5. CASE /\ held = <<>> /\ pipe = <<>> /\ PumpEnded /\ forward' = "ended"
             /\ UNCHANGED <<pipe, held, mpipe>>
    BY <1>3, <1>4, <2>1, <2>5 DEF Passed, Drawn
  <2>6. QED BY <2>2, <2>3, <2>4, <2>5 DEF Forward
<1>6. WritesShape'
  BY <1>1, <1>5 DEF WritesIInv, WritesShape
<1>7. InOrder'
  BY <1>1, <1>3, <1>5 DEF WritesIInv, InOrder
<1>8. NoneLost'
  BY <1>1, <1>5, NoneLostKept
<1>9. Stages'
  <2>1. /\ main \notin {"idle", "first", "second", "put"}
        /\ main \notin {"rename", "drain", "complete"}
    BY <1>1 DEF WritesIInv, Stages, Before
  <2>2. main = "stored" => ~MpipeOpen
    BY DEF MpipeOpen
  <2>3. MpipeOpen' = MpipeOpen /\ PumpEnded' = PumpEnded
    BY <1>1 DEF MpipeOpen, PumpEnded
  <2>4. QED
    BY <1>1, <1>3, <1>5, <2>1, <2>2, <2>3 DEF WritesIInv, Stages
<1>10. PartsFit'
  BY <1>1 DEF WritesIInv, PartsFit
<1>11. Returned'
  BY <1>1 DEF WritesIInv, Returned, WholeFile
<1>12. QED BY <1>6, <1>7, <1>8, <1>9, <1>10, <1>11 DEF WritesIInv

\* The call looks at the first two pieces.
LEMMA PeekStep ==
  ASSUME WritesIInv, PeekFirst \/ PeekSecond
  PROVE  WritesIInv'
<1>1. /\ UNCHANGED <<total, backend, pump, read, mpipe>>
      /\ UNCHANGED <<hand, lost, tmp, parts, etags, upload, object>>
      /\ main \in {"first", "second"}
      /\ main' \in {"second", "put", "done", "create", "loop"}
  BY DEF PeekFirst, PeekSecond, backing, Returns
<1>2. /\ Len(tmp) \in Nat /\ Len(mpipe) \in Nat /\ Len(held) \in Nat /\ Len(pipe) \in Nat
      /\ Taken \in Nat /\ Passed \in Nat /\ Drawn \in Nat
  BY Lengths DEF WritesIInv
<1>3. /\ Before /\ Taken = 0 /\ Passed = 0 /\ Taken' = 0 /\ Passed' = 0
      /\ main = "first" => held = <<>>
      /\ main = "second" => Len(held) = 1
      /\ parts = {} /\ etags = <<>> /\ object = None /\ result = None
  BY <1>1 DEF WritesIInv, Stages, Before, Taken, Passed, PartsFit, Flying, Returned
<1>4. Run(held, 0) /\ Run(pipe, Len(held))
  BY <1>2, <1>3 DEF WritesIInv, InOrder
<1>5. /\ Run(held', 0) /\ Run(pipe', Len(held')) /\ Drawn' = Drawn
      /\ Len(held') <= 2 /\ Len(pipe') <= PipeDepth + 1
      /\ main' = "second" => Len(held') = 1 /\ forward' = "none" /\ result' = None
      /\ main' = "put" => /\ forward' = "none" /\ pipe' = <<>> /\ PumpEnded /\ result' = None
                          /\ Len(held') = 1 \/ (total = 0 /\ held' = <<>>)
      /\ main' \in {"create", "loop"} => forward' = "run" /\ result' = None
      /\ main' = "done" => result' = "error" /\ forward' = "none"
      /\ main' = "loop" => backend = "local"
      /\ main' = "create" => backend = "s3"
  <2>1. Len(held) <= 2 /\ Len(pipe) <= PipeDepth + 1
    BY DEF WritesIInv, WritesShape
  <2>2. CASE pipe # <<>> /\ held' = Append(held, Head(pipe)) /\ pipe' = Tail(pipe)
    <3>1. /\ Head(pipe) = Len(held) + 1 /\ Run(Tail(pipe), Len(held) + 1)
          /\ Len(Tail(pipe)) = Len(pipe) - 1 /\ Len(pipe) >= 1
      BY <1>2, <1>4, <2>2, RunTail
    <3>2. Head(pipe) = 0 + Len(held) + 1
      BY <1>2, <3>1
    <3>3. Run(held', 0) /\ Len(held') = Len(held) + 1
      BY <1>4, <2>2, <3>2, RunAppend
    <3>4. /\ Drawn' = Passed' + Len(held') + Len(pipe')
          /\ Drawn = Passed + Len(held) + Len(pipe)
      BY DEF Drawn
    <3>5. Drawn' = Drawn /\ Run(pipe', Len(held'))
      BY <1>2, <1>3, <2>2, <3>1, <3>3, <3>4
    <3>6. Len(pipe') <= PipeDepth + 1
      BY <1>2, <2>1, <2>2, <3>1, WritesAssumption
    <3>7. (main = "first" => Len(held) = 0) /\ (main = "second" => Len(held) = 1)
      BY <1>3
    <3>8. main = "first" => Len(held') = 1
      BY <3>3, <3>7
    <3>9. Len(held') <= 2
      <4>1. CASE main = "second"
        <5>1. Len(held') = 2
          BY <3>3, <3>7, <4>1
        <5>2. QED BY <5>1
      <4>2. CASE main = "first"
        <5>1. Len(held') = 1
          BY <3>8, <4>2
        <5>2. QED BY <5>1
      <4>3. main = "first" \/ main = "second"
        BY <1>1
      <4>4. QED BY <4>1, <4>2, <4>3, Zenon
    <3>10. CASE PeekFirst
      <4>1. main = "first" /\ main' = "second" /\ UNCHANGED <<forward, result>>
        BY <2>2, <3>10 DEF PeekFirst
      <4>2. QED BY <1>3, <3>3, <3>5, <3>6, <3>8, <3>9, <4>1 DEF Before
    <3>11. CASE PeekSecond
      <4>1. /\ main' = IF backend = "s3" THEN "create" ELSE "loop"
            /\ forward' = "run" /\ UNCHANGED result
        BY <2>2, <3>11 DEF PeekSecond
      <4>2. QED
        BY <1>3, <3>3, <3>5, <3>6, <3>9, <4>1 DEF WritesIInv, WritesShape
    <3>12. QED BY <3>10, <3>11
  <2>3. CASE UNCHANGED <<pipe, held>>
    <3>1. Drawn' = Drawn
      BY <1>3, <2>3 DEF Drawn
    <3>2. pipe = <<>> /\ PumpEnded /\ UNCHANGED forward
      <4>1. CASE PeekFirst
        BY <1>2, <1>3, <1>4, <2>3, <4>1 DEF PeekFirst
      <4>2. CASE PeekSecond
        <5>1. CASE pipe # <<>> /\ held' = Append(held, Head(pipe))
          <6>1. Len(held') = Len(held) + 1
            BY <1>4, <5>1 DEF Run
          <6>2. QED BY <1>2, <2>3, <6>1
        <5>2. QED BY <4>2, <5>1 DEF PeekSecond
      <4>3. QED BY <4>1, <4>2
    <3>3. CASE PeekFirst
      BY <1>3, <1>4, <2>1, <2>3, <3>1, <3>2, <3>3 DEF PeekFirst, Returns, Before
    <3>4. CASE PeekSecond
      BY <1>1, <1>3, <1>4, <2>1, <2>3, <3>1, <3>2, <3>4 DEF PeekSecond, Before
    <3>5. QED BY <3>3, <3>4
  <2>4. QED
    <3>1. PeekFirst /\ ~UNCHANGED <<pipe, held>> =>
            pipe # <<>> /\ held' = Append(held, Head(pipe)) /\ pipe' = Tail(pipe)
      BY <1>3 DEF PeekFirst
    <3>2. PeekSecond /\ ~UNCHANGED <<pipe, held>> =>
            pipe # <<>> /\ held' = Append(held, Head(pipe)) /\ pipe' = Tail(pipe)
      BY DEF PeekSecond
    <3>3. QED BY <2>2, <2>3, <3>1, <3>2
<1>6. WritesShape'
  <2>1. result' \in {None, "ok", "error"} /\ forward' \in {"none", "run", "ended"}
    BY <1>1, <1>5
  <2>2. QED BY <1>1, <1>5, <2>1 DEF WritesIInv, WritesShape, MainPC, Flying
<1>7. InOrder'
  <2>1. Len(held') \in Nat
    BY <1>5 DEF Run
  <2>2. 0 + Len(held') = Len(held')
    BY <2>1
  <2>3. QED BY <1>1, <1>3, <1>5, <2>2 DEF WritesIInv, InOrder, Before
<1>8. NoneLost'
  BY <1>1, <1>5, NoneLostKept
<1>9. Stages'
  BY <1>1, <1>3, <1>5 DEF WritesIInv, Stages, Before, PumpEnded, MpipeOpen
<1>10. PartsFit'
  <2>1. tmp' = <<>> /\ 1..Len(tmp') = {}
    BY <1>1, <1>3 DEF Before
  <2>2. ToSet(etags') = {}
    BY <1>1, <1>3 DEF ToSet
  <2>3. /\ main' \notin {"permit", "failing", "drain", "draining", "complete"}
        /\ main' \in Flying \/ main' \notin Flying
    BY <1>1
  <2>4. QED BY <1>1, <1>3, <1>5, <2>1, <2>2, <2>3 DEF WritesIInv, PartsFit
<1>11. Returned'
  BY <1>1, <1>3, <1>5, WritesNoneAssumption DEF Returned
<1>12. QED BY <1>6, <1>7, <1>8, <1>9, <1>10, <1>11 DEF WritesIInv

\* One piece is stored by itself; what the call returns depends on the pump.
LEMMA ReturnStep ==
  ASSUME WritesIInv, PutWhole \/ JoinPump
  PROVE  WritesIInv'
<1>1. /\ UNCHANGED <<total, backend, pump, read, pipe, held, forward, mpipe>>
      /\ UNCHANGED <<hand, lost, tmp, parts, etags, upload>>
      /\ main \in {"put", "stored", "unstored"} /\ main' = "done" /\ result' \in {"ok", "error"}
  BY DEF PutWhole, JoinPump, backing, Returns
<1>2. Taken' = Taken /\ Passed' = Passed /\ Drawn' = Drawn
  BY <1>1 DEF Taken, Passed, Drawn
<1>3. WritesShape' /\ InOrder' /\ Stages'
  BY <1>1, <1>2
     DEF WritesIInv, WritesShape, MainPC, InOrder, Stages, MpipeOpen
<1>4. NoneLost'
  BY <1>1, <1>2, NoneLostKept
<1>5. PartsFit'
  BY <1>1 DEF WritesIInv, PartsFit, Flying
<1>6. Returned'
  <2>1. CASE PutWhole
    <3>1. /\ Passed = 0 /\ PumpEnded /\ pipe = <<>> /\ object = None
          /\ Len(held) = 1 \/ (total = 0 /\ held = <<>>)
      BY <2>1 DEF PutWhole, WritesIInv, Stages, Before, Passed, Taken, Returned
    <3>2. /\ Run(held, 0) /\ held = [i \in 1..Len(held) |-> i] /\ Len(held) \in Nat
      BY <3>1, RunIs DEF WritesIInv, InOrder
    <3>3. held = WholeFile \/ (pump = "failed" /\ held = <<1>>)
      <4>1. CASE pump = "ok"
        <5>1. total = Len(held)
          BY <3>1, <3>2, <4>1 DEF WritesIInv, NoneLost, Drawn
        <5>2. QED BY <3>2, <5>1 DEF WholeFile
      <4>2. CASE pump = "failed" /\ Len(held) = 1
        <5>1. held = <<1>>
          BY <3>2, <4>2
        <5>2. QED BY <4>2, <5>1
      <4>3. CASE total = 0 /\ held = <<>>
        BY <3>2, <4>3 DEF WholeFile
      <4>4. QED BY <3>1, <4>1, <4>2, <4>3 DEF PumpEnded
    <3>4. \/ object' = held /\ result' = "ok"
          \/ object' = None /\ result' = "error"
      BY <2>1, <3>1 DEF PutWhole, Returns
    <3>5. WholeFile' = WholeFile
      BY <1>1 DEF WholeFile
    <3>6. QED
      <4>1. hand' = None
        BY <1>1, <2>1 DEF PutWhole, WritesIInv, Stages, Before
      <4>2. QED BY <1>1, <3>2, <3>3, <3>4, <3>5, <4>1, WritesNoneAssumption DEF Returned
  <2>2. CASE JoinPump
    <3>1. object' = object /\ (result' = "ok" => main = "stored" /\ pump = "ok")
      BY <2>2 DEF JoinPump, Returns, backing
    <3>2. main = "stored" /\ pump = "ok" => object = tmp /\ Taken = total
      BY DEF WritesIInv, Stages
    <3>3. tmp = [i \in 1..Len(tmp) |-> i] /\ Len(tmp) \in Nat
      BY RunIs DEF WritesIInv, InOrder
    <3>4. CASE hand = None
      <4>1. result' = "ok" => object = WholeFile
        BY <3>1, <3>2, <3>3, <3>4, Lengths DEF WholeFile, WritesIInv
      <4>2. QED
        BY <1>1, <3>1, <3>4, <4>1 DEF WritesIInv, Returned, WholeFile
    <3>5. CASE hand # None
      <4>1. hand = Len(tmp) + 1 /\ Taken = Len(tmp) + 1
        BY <3>5, Lengths DEF WritesIInv, InOrder
      <4>2. main = "stored" => backend = "local"
        BY <3>5 DEF WritesIInv, WritesShape, Stages
      <4>3. QED
        BY <1>1, <3>1, <3>2, <4>1, <4>2 DEF WritesIInv, Returned, WholeFile
    <3>6. QED BY <3>4, <3>5
  <2>3. QED BY <2>1, <2>2
<1>7. QED BY <1>3, <1>4, <1>5, <1>6 DEF WritesIInv

\* The caller goes away at any time.
LEMMA DroppedStep ==
  ASSUME WritesIInv, main # "idle", Dropped
  PROVE  WritesIInv'
<1>1. /\ UNCHANGED <<total, backend, pump, read, pipe, held, forward, mpipe, result>>
      /\ UNCHANGED <<hand, lost, tmp, etags, upload, object>>
      /\ main \notin {"done", "dropped"} /\ main' = "dropped" /\ parts' = {}
  BY DEF Dropped, Ended
<1>2. Taken' = Taken /\ Passed' = Passed /\ Drawn' = Drawn
  BY <1>1 DEF Taken, Passed, Drawn
<1>3. WritesShape' /\ InOrder'
  BY <1>1, <1>2 DEF WritesIInv, WritesShape, MainPC, InOrder
<1>4. Stages'
  BY <1>1 DEF WritesIInv, Stages, MpipeOpen
<1>5. NoneLost'
  BY <1>1, <1>2, NoneLostKept
<1>6. PartsFit'
  BY <1>1, FS_EmptySet, WritesAssumption DEF WritesIInv, PartsFit
<1>7. Returned'
  BY <1>1, WritesNoneAssumption DEF WritesIInv, Returned
<1>8. QED BY <1>3, <1>4, <1>5, <1>6, <1>7 DEF WritesIInv

\* The loop takes the next piece, to append it or to send it as a part.
LEMMA TakeStep ==
  ASSUME WritesIInv, main = "loop", hand = None, mpipe # <<>>, hand' = Head(mpipe),
         mpipe' = Tail(mpipe), main' = IF backend = "s3" THEN "permit" ELSE "loop",
         UNCHANGED <<total, backend, pump, read, pipe, held, forward, result>>,
         UNCHANGED <<lost, tmp, etags, parts, upload, object>>
  PROVE  WritesIInv'
<1>1. /\ Len(tmp) \in Nat /\ Len(mpipe) \in Nat /\ Len(held) \in Nat /\ Len(pipe) \in Nat
      /\ Taken = Len(tmp) /\ Taken \in Nat /\ Passed \in Nat
  BY Lengths DEF WritesIInv
<1>2. Run(tmp, 0) /\ Run(mpipe, Taken) /\ Run(held, Passed) /\ Run(pipe, Passed + Len(held))
  BY DEF WritesIInv, InOrder
<1>3. /\ Head(mpipe) = Taken + 1 /\ Run(Tail(mpipe), Taken + 1)
      /\ Len(Tail(mpipe)) = Len(mpipe) - 1 /\ Len(mpipe) >= 1
  BY <1>1, <1>2, RunTail
<1>4. hand' = Len(tmp) + 1 /\ hand' # None /\ Taken' = Taken + 1
  <2>1. hand' = Len(tmp) + 1 /\ hand' # None
    BY <1>1, <1>3, WritesNoneAssumption
  <2>2. QED BY <1>1, <2>1 DEF Taken
<1>5. Passed' = Passed /\ Drawn' = Drawn
  <2>1. Passed' = Passed
    BY <1>1, <1>3, <1>4 DEF Passed
  <2>2. QED BY <2>1 DEF Drawn
<1>6. WritesShape'
  <2>1. Len(mpipe') <= PipeDepth
    <3>1. Len(mpipe) <= PipeDepth
      BY DEF WritesIInv, WritesShape
    <3>2. QED BY <1>1, <1>3, <3>1, WritesAssumption
  <2>2. QED BY <2>1 DEF WritesIInv, WritesShape, MainPC, Flying
<1>7. InOrder'
  BY <1>2, <1>3, <1>4, <1>5 DEF InOrder
<1>8. NoneLost'
  BY <1>5, NoneLostKept
<1>9. Stages'
  <2>1. MpipeOpen /\ MpipeOpen'
    BY DEF MpipeOpen
  <2>2. QED BY <1>4, <2>1 DEF WritesIInv, Stages, PumpEnded
<1>10. PartsFit'
  BY DEF WritesIInv, WritesShape, PartsFit, Flying
<1>11. Returned'
  BY WritesNoneAssumption DEF WritesIInv, Returned, WholeFile
<1>12. QED BY <1>6, <1>7, <1>8, <1>9, <1>10, <1>11 DEF WritesIInv

\* The call goes to where nothing is in flight and nothing stored, or begins to wait
\* for what is in flight.
LEMMA GoesStep ==
  ASSUME WritesIInv, NEW next, main' = next,
         UNCHANGED <<total, backend, pump, read, pipe, held, forward, mpipe, result>>,
         UNCHANGED <<hand, lost, tmp, parts, etags, object>>,
         upload' \in {"none", "open", "completed", "aborted", "abort failed"},
         \/ next \in {"unstored", "abort"} /\ parts = {} /\ main \in {"loop", "rename", "create",
              "draining", "drain", "abort", "complete"}
         \/ next = "loop" /\ main = "create"
         \/ next = "rename" /\ main = "loop" /\ parts = {} /\ mpipe = <<>> /\ forward = "ended"
         \/ /\ next = "drain" /\ main = "loop" /\ backend = "s3"
            /\ mpipe = <<>> /\ forward = "ended"
         \/ next = "complete" /\ main = "drain" /\ parts = {}
  PROVE  WritesIInv'
<1>1. Taken' = Taken /\ Passed' = Passed /\ Drawn' = Drawn
  BY DEF Taken, Passed, Drawn
<1>2. WritesShape' /\ InOrder'
  BY <1>1 DEF WritesIInv, WritesShape, MainPC, Flying, InOrder
<1>3. NoneLost'
  BY <1>1, NoneLostKept
<1>4. Stages'
  <2>1. main # "idle" /\ (MpipeOpen' => MpipeOpen)
    BY DEF MpipeOpen
  <2>2. QED BY <2>1 DEF WritesIInv, Stages, PumpEnded
<1>5. PartsFit'
  BY DEF WritesIInv, PartsFit, Flying
<1>6. Returned'
  BY DEF WritesIInv, Returned, WholeFile
<1>7. QED BY <1>2, <1>3, <1>4, <1>5, <1>6 DEF WritesIInv

\* A part more among those that arrived.
LEMMA ToSetAppend ==
  ASSUME NEW s \in Seq(Nat), NEW e \in Nat
  PROVE  Append(s, e) \in Seq(Nat) /\ ToSet(Append(s, e)) = ToSet(s) \cup {e}
<1> DEFINE t == Append(s, e)
<1>1. /\ t \in Seq(Nat) /\ Len(t) = Len(s) + 1 /\ Len(s) \in Nat
      /\ DOMAIN t = 1..Len(t) /\ DOMAIN s = 1..Len(s)
      /\ t[Len(s) + 1] = e /\ \A i \in 1..Len(s) : t[i] = s[i]
  OBVIOUS
<1> HIDE DEF t
<1>2. \A i \in DOMAIN t : i \in DOMAIN s \/ i = Len(s) + 1
  BY <1>1
<1>3. DOMAIN s \subseteq DOMAIN t /\ Len(s) + 1 \in DOMAIN t
  BY <1>1
<1>4. ToSet(t) \subseteq ToSet(s) \cup {e}
  BY <1>1, <1>2 DEF ToSet
<1>5. ToSet(s) \cup {e} \subseteq ToSet(t)
  BY <1>1, <1>3 DEF ToSet
<1>6. QED BY <1>1, <1>4, <1>5 DEF t

\* The parts in their order, if none is missing.
LEMMA SortedIs ==
  ASSUME NEW n \in Nat, ToSet(etags) = 1..n
  PROVE  Cardinality(ToSet(etags)) = n /\ \A i \in 1..n : Sorted(i) = i
<1>1. ASSUME NEW no \in 1..n
      PROVE  Cardinality({e \in 1..n : e <= no}) = no
  <2>1. {e \in 1..n : e <= no} = 1..no
    OBVIOUS
  <2>2. no \in Int /\ 1 <= no
    OBVIOUS
  <2>3. Cardinality(1..no) = no
    BY <2>2, FS_Interval
  <2>4. QED BY <2>1, <2>3
<1>2. Cardinality(1..n) = n
  BY FS_Interval
<1>3. ASSUME NEW i \in 1..n PROVE Sorted(i) = i
  <2>1. \A no \in 1..n : Cardinality({e \in 1..n : e <= no}) = i <=> no = i
    BY <1>1
  <2>2. Sorted(i) = CHOOSE no \in 1..n : Cardinality({e \in 1..n : e <= no}) = i
    BY DEF Sorted
  <2>3. QED BY <2>1, <2>2
<1>4. QED BY <1>2, <1>3

\* All pieces are stored: by the rename, or as the parts in their order.
LEMMA FinishStep ==
  ASSUME WritesIInv, main \in {"rename", "complete"}, main' = "stored", object' = tmp,
         upload' \in {"none", "open", "completed", "aborted", "abort failed"},
         UNCHANGED <<total, backend, pump, read, pipe, held, forward, mpipe, result>>,
         UNCHANGED <<hand, lost, tmp, parts, etags>>
  PROVE  WritesIInv'
<1>1. Taken' = Taken /\ Passed' = Passed /\ Drawn' = Drawn
  BY DEF Taken, Passed, Drawn
<1>2. WritesShape' /\ InOrder'
  BY <1>1 DEF WritesIInv, WritesShape, MainPC, InOrder
<1>3. NoneLost'
  BY <1>1, NoneLostKept
<1>4. Stages'
  <2>1. mpipe = <<>> /\ forward = "ended" /\ MpipeOpen
    BY DEF WritesIInv, Stages, MpipeOpen
  <2>2. held = <<>> /\ pipe = <<>> /\ PumpEnded
    BY <2>1 DEF WritesIInv, Stages
  <2>3. pump = "ok" => Taken = total
    BY <2>1, <2>2, AllTaken DEF WritesIInv, NoneLost
  <2>4. backend = "s3" => hand = None
    BY DEF WritesIInv, PartsFit, Stages
  <2>5. lost # None => backend = "local" /\ hand # None
    BY DEF WritesIInv, Stages
  <2>6. QED
    BY <1>1, <2>2, <2>3, <2>4, <2>5 DEF Stages, PumpEnded, MpipeOpen
<1>5. PartsFit'
  BY DEF WritesIInv, PartsFit, Flying
<1>6. Returned'
  <2>1. Run(tmp, 0) /\ result = None
    BY DEF WritesIInv, InOrder, Returned
  <2>2. QED BY <2>1, WritesNoneAssumption DEF Returned
<1>7. QED BY <1>2, <1>3, <1>4, <1>5, <1>6 DEF WritesIInv

\* Parts are sent, arrive or fail.
LEMMA SpawnStep ==
  ASSUME WritesIInv, SpawnPart
  PROVE  WritesIInv'
<1>1. /\ UNCHANGED <<total, backend, pump, read, pipe, held, forward, mpipe, result>>
      /\ UNCHANGED <<lost, etags, upload, object>>
      /\ main \in {"permit", "failing"} /\ Cardinality(parts) < Concurrency
      /\ tmp' = Append(tmp, hand) /\ hand' = None /\ parts' = parts \cup {Len(tmp')}
      /\ main' = IF main = "failing" THEN "draining" ELSE "loop"
  BY DEF SpawnPart
<1>2. /\ Len(tmp) \in Nat /\ Run(tmp, 0) /\ hand = 0 + Len(tmp) + 1 /\ Taken = Len(tmp) + 1
      /\ Taken \in Nat
  BY <1>1, Lengths DEF WritesIInv, InOrder, Stages
<1>3. Run(tmp', 0) /\ Len(tmp') = Len(tmp) + 1
  BY <1>1, <1>2, RunAppend
<1>4. Taken' = Taken /\ Passed' = Passed /\ Drawn' = Drawn
  <2>1. Taken' = Taken
    BY <1>1, <1>2, <1>3 DEF Taken
  <2>2. QED BY <1>1, <2>1 DEF Passed, Drawn
<1>5. WritesShape'
  BY <1>1 DEF WritesIInv, WritesShape, MainPC, Flying
<1>6. InOrder'
  BY <1>1, <1>3, <1>4 DEF WritesIInv, InOrder
<1>7. NoneLost'
  BY <1>1, <1>4, NoneLostKept
<1>8. Stages'
  <2>1. MpipeOpen /\ backend = "s3"
    BY <1>1 DEF MpipeOpen, WritesIInv, PartsFit
  <2>2. lost = None
    BY <2>1 DEF WritesIInv, Stages
  <2>3. main' \in {"loop", "draining"}
    BY <1>1
  <2>4. QED BY <2>2, <2>3, <1>1, <2>1 DEF WritesIInv, Stages, PumpEnded
<1>9. PartsFit'
  <2>1. /\ IsFiniteSet(parts') /\ Cardinality(parts') <= Concurrency
    <3>1. IsFiniteSet(parts) /\ Cardinality(parts) \in Nat
      BY FS_CardinalityType DEF WritesIInv, PartsFit
    <3>2. /\ IsFiniteSet(parts')
          /\ Cardinality(parts') = Cardinality(parts) \/ Cardinality(parts') = Cardinality(parts) + 1
      BY <1>1, <3>1, FS_AddElement
    <3>3. QED BY <1>1, <3>1, <3>2, WritesAssumption
  <2>2. main = "permit" => ToSet(etags') \cup parts' = 1..Len(tmp')
    <3>1. main = "permit" => ToSet(etags) \cup parts = 1..Len(tmp)
      BY <1>1 DEF WritesIInv, PartsFit
    <3>2. (1..Len(tmp)) \cup {Len(tmp')} = 1..Len(tmp')
      BY <1>2, <1>3
    <3>3. QED BY <1>1, <3>1, <3>2
  <2>3. backend = "s3" /\ main' \in {"loop", "draining"}
    BY <1>1 DEF WritesIInv, PartsFit
  <2>4. QED BY <1>1, <2>1, <2>2, <2>3 DEF WritesIInv, PartsFit, Flying
<1>10. Returned'
  BY <1>1, WritesNoneAssumption DEF WritesIInv, Returned, WholeFile
<1>11. QED BY <1>5, <1>6, <1>7, <1>8, <1>9, <1>10 DEF WritesIInv

\* A part in flight arrives, whichever it is, or is the first or a later one to fail.
LEMMA PartStep ==
  ASSUME WritesIInv, NEW no \in 1..Pieces, PartArrives(no) \/ PartFails(no)
  PROVE  WritesIInv'
<1>1. /\ UNCHANGED <<total, backend, pump, read, pipe, held, forward, mpipe, result>>
      /\ UNCHANGED <<hand, lost, tmp, upload, object>>
      /\ no \in parts /\ main \in Flying /\ parts' = parts \ {no}
  BY DEF PartArrives, PartFails
<1>2. \/ main' = main /\ etags' = Append(etags, no)
      \/ /\ main' = IF main \in {"permit", "failing"} THEN "failing" ELSE "draining"
         /\ UNCHANGED etags
  BY DEF PartArrives, PartFails
<1>3. Taken' = Taken /\ Passed' = Passed /\ Drawn' = Drawn
  BY <1>1 DEF Taken, Passed, Drawn
<1>4. main' \in Flying
  BY <1>1, <1>2 DEF Flying
<1>5. WritesShape' /\ InOrder'
  BY <1>1, <1>3, <1>4 DEF WritesIInv, WritesShape, MainPC, InOrder
<1>6. NoneLost'
  BY <1>1, <1>3, <1>4, NoneLostKept DEF Flying
<1>7. Stages'
  <2>1. MpipeOpen
    BY <1>1 DEF MpipeOpen, Flying
  <2>2. QED BY <1>1, <1>2, <2>1 DEF WritesIInv, Stages, PumpEnded, Flying
<1>8. PartsFit'
  <2>1. /\ no \in Nat /\ etags \in Seq(Nat) /\ backend = "s3"
        /\ IsFiniteSet(parts) /\ Cardinality(parts) <= Concurrency
    <3>1. no \in Nat
      BY WritesAssumption
    <3>2. backend = "s3"
      BY <1>1 DEF WritesIInv, WritesShape, PartsFit
    <3>3. QED BY <3>1, <3>2 DEF WritesIInv, PartsFit
  <2>2. /\ IsFiniteSet(parts') /\ Cardinality(parts') <= Concurrency
    <3>1. IsFiniteSet(parts') /\ Cardinality(parts') = Cardinality(parts) - 1
          /\ Cardinality(parts) \in Nat
      BY <1>1, <2>1, FS_RemoveElement, FS_CardinalityType
    <3>2. QED BY <2>1, <3>1, WritesAssumption
  <2>3. CASE main' = main /\ etags' = Append(etags, no)
    <3>1. etags' \in Seq(Nat) /\ ToSet(etags') = ToSet(etags) \cup {no}
      BY <2>1, <2>3, ToSetAppend
    <3>2. ToSet(etags') \cup parts' = ToSet(etags) \cup parts
      BY <1>1, <3>1
    <3>3. QED BY <1>1, <2>1, <2>2, <2>3, <3>1, <3>2 DEF WritesIInv, PartsFit, Flying
  <2>4. CASE UNCHANGED etags /\ main' \in {"failing", "draining"}
    BY <1>1, <2>1, <2>2, <2>4 DEF WritesIInv, PartsFit, Flying
  <2>5. QED BY <1>2, <2>3, <2>4
<1>9. Returned'
  BY <1>1, <1>4 DEF WritesIInv, Returned, WholeFile, Flying
<1>10. QED BY <1>5, <1>6, <1>7, <1>8, <1>9 DEF WritesIInv

\* The piece under way is written to the file, or is not.
LEMMA DiskStep ==
  ASSUME WritesIInv, main # "idle", Disk
  PROVE  WritesIInv'
<1>1. /\ UNCHANGED <<total, backend, pump, read, pipe, main, held, forward, mpipe, result>>
      /\ UNCHANGED <<parts, etags, upload>>
      /\ backend = "local" /\ hand # None /\ parts = {}
      /\ \/ /\ tmp' = Append(tmp, hand) /\ hand' = None /\ UNCHANGED lost /\ lost = None
            /\ object' = IF object = None THEN None ELSE tmp'
         \/ UNCHANGED <<hand, tmp, object>>
  BY DEF Disk, WritePiece, WriteFails, DiskBusy, WritesIInv, PartsFit
<1>2. /\ Run(tmp, 0) /\ Len(tmp) \in Nat /\ hand = 0 + Len(tmp) + 1 /\ hand = Len(tmp) + 1
      /\ Taken = Len(tmp) + 1
  BY <1>1, Lengths DEF WritesIInv, InOrder
<1>3. /\ Run(tmp', 0) /\ hand' \in {None, Len(tmp') + 1} /\ Taken' = Taken
      /\ hand' = None => Len(tmp') = Len(tmp) + 1
  <2>1. CASE tmp' = Append(tmp, hand) /\ hand' = None
    BY <1>2, <2>1, RunAppend DEF Taken
  <2>2. CASE UNCHANGED <<hand, tmp>>
    BY <1>1, <1>2, <2>2 DEF Taken
  <2>3. QED BY <1>1, <2>1, <2>2
<1>4. Passed' = Passed /\ Drawn' = Drawn
  BY <1>1, <1>3 DEF Passed, Drawn
<1>5. WritesShape'
  BY <1>1 DEF WritesIInv, WritesShape
<1>6. InOrder'
  BY <1>1, <1>3, <1>4 DEF WritesIInv, InOrder
<1>7. NoneLost'
  BY <1>1, <1>4, NoneLostKept
<1>8. Stages'
  <2>1. main \notin {"idle", "first", "second", "put", "create", "permit", "failing"}
    BY <1>1 DEF WritesIInv, PartsFit, Stages, Before
  <2>2. main = "stored" => object' = tmp'
    <3>1. tmp # None /\ tmp' # None
      BY <1>2, <1>3, WritesNoneAssumption DEF Run
    <3>2. QED BY <1>1, <3>1 DEF WritesIInv, Stages
  <2>3. lost' # None => hand' # None
    BY <1>1
  <2>4. QED
    BY <1>1, <1>3, <2>1, <2>2, <2>3 DEF WritesIInv, Stages, PumpEnded, MpipeOpen
<1>9. PartsFit'
  BY <1>1 DEF WritesIInv, PartsFit
<1>10. Returned'
  <2>1. CASE UNCHANGED <<hand, tmp, object>>
    BY <1>1, <2>1 DEF WritesIInv, Returned, WholeFile
  <2>2. CASE /\ tmp' = Append(tmp, hand) /\ hand' = None
             /\ object' = IF object = None THEN None ELSE tmp'
    <3>1. result = "ok" => object = tmp /\ Len(tmp) + 1 = total
      BY <1>1 DEF WritesIInv, Returned
    <3>2. tmp # None
      BY <1>2, WritesNoneAssumption DEF Run
    <3>3. tmp' = [i \in 1..Len(tmp') |-> i] /\ Len(tmp') = Len(tmp) + 1
      BY <1>3, <2>2, RunIs
    <3>4. result = "ok" => object' = WholeFile
      BY <1>1, <2>2, <3>1, <3>2, <3>3 DEF WholeFile
    <3>5. QED
      BY <1>1, <1>3, <2>2, <3>4 DEF WritesIInv, Returned, WholeFile
  <2>3. QED BY <1>1, <2>1, <2>2
<1>11. QED BY <1>5, <1>6, <1>7, <1>8, <1>9, <1>10 DEF WritesIInv

\* Every step keeps the invariant.
LEMMA WritesStep == WritesIInv /\ [WritesNext]_writevars => WritesIInv'
<1> SUFFICES ASSUME WritesIInv, [WritesNext]_writevars PROVE WritesIInv'
  OBVIOUS
<1>1. CASE \E n \in 0..Pieces, b \in {"local", "s3"} : main = "idle" /\ put_file(n, b)
  BY <1>1, BeginStep
<1>2. CASE main # "idle" /\ Pump
  BY <1>2, PumpStep
<1>3. CASE main # "idle" /\ Forward
  BY <1>3, ForwardStep
<1>4. CASE PeekFirst \/ PeekSecond
  BY <1>4, PeekStep
<1>5. CASE PutWhole \/ JoinPump
  BY <1>5, ReturnStep
<1>6. CASE AppendPiece
  <2>1. parts = {}
    BY <1>6 DEF AppendPiece, WritesIInv, PartsFit
  <2>2. CASE /\ mpipe # <<>> /\ hand = None
             /\ hand' = Head(mpipe) /\ mpipe' = Tail(mpipe) /\ UNCHANGED main
    BY <1>6, <2>2, TakeStep DEF AppendPiece
  <2>3. CASE mpipe = <<>> /\ forward = "ended" /\ main' = "rename" /\ UNCHANGED <<mpipe, hand>>
    BY <1>6, <2>1, <2>3, GoesStep DEF AppendPiece, WritesIInv, WritesShape
  <2>4. CASE main' = "unstored" /\ UNCHANGED <<mpipe, hand>>
    BY <1>6, <2>1, <2>4, GoesStep DEF AppendPiece, WritesIInv, WritesShape
  <2>5. QED BY <1>6, <2>2, <2>3, <2>4 DEF AppendPiece
<1>7. CASE Rename
  <2>1. parts = {} /\ main = "rename"
    BY <1>7 DEF Rename, WritesIInv, PartsFit, Flying
  <2>2. CASE object' = tmp /\ main' = "stored"
    BY <1>7, <2>1, <2>2, FinishStep DEF Rename, WritesIInv, WritesShape
  <2>3. CASE UNCHANGED object /\ main' = "unstored"
    BY <1>7, <2>1, <2>3, GoesStep DEF Rename, WritesIInv, WritesShape
  <2>4. QED BY <1>7, <2>2, <2>3 DEF Rename
<1>8. CASE CreateUpload
  <2>1. parts = {} /\ main = "create"
    BY <1>8 DEF CreateUpload, WritesIInv, PartsFit, Flying
  <2>2. QED BY <1>8, <2>1, GoesStep DEF CreateUpload, WritesIInv, WritesShape
<1>9. CASE TakePart
  <2>1. CASE mpipe # <<>> /\ hand' = Head(mpipe) /\ mpipe' = Tail(mpipe) /\ main' = "permit"
    <3>1. hand = None
      BY <1>9 DEF TakePart, WritesIInv, Stages
    <3>2. QED BY <1>9, <2>1, <3>1, TakeStep DEF TakePart
  <2>2. CASE mpipe = <<>> /\ forward = "ended" /\ main' = "drain" /\ UNCHANGED <<hand, mpipe>>
    BY <1>9, <2>2, GoesStep DEF TakePart, WritesIInv, WritesShape
  <2>3. QED BY <1>9, <2>1, <2>2 DEF TakePart
<1>10. CASE SpawnPart
  BY <1>10, SpawnStep
<1>11. CASE Drained
  <2>1. upload \in {"none", "open", "completed", "aborted", "abort failed"}
    BY DEF WritesIInv, WritesShape
  <2>2. main' = "abort" \/ (main = "drain" /\ main' = "complete")
    BY <1>11 DEF Drained
  <2>3. QED BY <1>11, <2>1, <2>2, GoesStep DEF Drained, backing
<1>12. CASE AbortUpload
  <2>1. parts = {} /\ main = "abort"
    BY <1>12 DEF AbortUpload, WritesIInv, PartsFit, Flying
  <2>2. QED BY <1>12, <2>1, GoesStep DEF AbortUpload
<1>13. CASE CompleteUpload
  <2>1. parts = {} /\ main = "complete"
    BY <1>13 DEF CompleteUpload, WritesIInv, PartsFit, Flying
  <2>2. CASE /\ object' = [i \in 1..Cardinality(ToSet(etags)) |-> tmp[Sorted(i)]]
             /\ upload' = "completed" /\ main' = "stored"
    <3>1. tmp = [i \in 1..Len(tmp) |-> i] /\ Len(tmp) \in Nat
      BY RunIs DEF WritesIInv, InOrder
    <3>2. ToSet(etags) = 1..Len(tmp)
      BY <2>1 DEF WritesIInv, PartsFit
    <3>3. Cardinality(ToSet(etags)) = Len(tmp) /\ \A i \in 1..Len(tmp) : Sorted(i) = i
      BY <3>1, <3>2, SortedIs
    <3>4. object' = [i \in 1..Len(tmp) |-> tmp[i]]
      BY <2>2, <3>3
    <3>5. object' = tmp
      BY <3>1, <3>4
    <3>6. QED BY <1>13, <2>1, <2>2, <3>5, FinishStep DEF CompleteUpload
  <2>3. CASE UNCHANGED <<object, upload>> /\ main' = "unstored"
    BY <1>13, <2>1, <2>3, GoesStep DEF CompleteUpload, WritesIInv, WritesShape
  <2>4. QED BY <1>13, <2>2, <2>3 DEF CompleteUpload
<1>14. CASE Parts
  BY <1>14, PartStep DEF Parts
<1>15. CASE main # "idle" /\ Dropped
  BY <1>15, DroppedStep
<1>16. CASE main # "idle" /\ Disk
  BY <1>16, DiskStep
<1>17. CASE UNCHANGED writevars
  <2>1. /\ UNCHANGED <<total, backend, pump, read, pipe, main, held, forward, mpipe, result>>
        /\ UNCHANGED <<hand, lost, tmp, parts, etags, upload, object>>
    BY <1>17 DEF writevars, backing
  <2>2. Taken' = Taken /\ Passed' = Passed /\ Drawn' = Drawn
    BY <2>1 DEF Taken, Passed, Drawn
  <2>3. WritesShape' /\ InOrder'
    BY <2>1, <2>2 DEF WritesIInv, WritesShape, InOrder
  <2>4. NoneLost'
    BY <2>1, <2>2 DEF WritesIInv, NoneLost
  <2>5. PartsFit' /\ Returned'
    BY <2>1 DEF WritesIInv, PartsFit, Returned, WholeFile
  <2>6. Stages'
    BY <2>1, <2>2 DEF WritesIInv, Stages, Before, PumpEnded, MpipeOpen
  <2>7. QED BY <2>3, <2>4, <2>5, <2>6 DEF WritesIInv
<1>18. QED
  BY <1>1, <1>2, <1>3, <1>4, <1>5, <1>6, <1>7, <1>8, <1>9, <1>10, <1>11, <1>12, <1>13, <1>14,
     <1>15, <1>16, <1>17 DEF WritesNext, Call

\* Wherever a transfer fails or is left, its pieces are in their order and none that was
\* read is lost: the inductive invariant of put_file.
THEOREM WritesInductive == WritesSpec => []WritesIInv
BY WritesInitial, WritesStep, PTL DEF WritesSpec

\* The channels hold no more than they have room for, whatever the bounds are.
THEOREM WritesTyped == WritesSpec => []WritesTypeOK
<1>1. WritesIInv => WritesTypeOK
  <2> SUFFICES ASSUME WritesIInv PROVE WritesTypeOK
    OBVIOUS
  <2>1. total \in 0..Pieces /\ read \in 0..total
    <3>1. /\ total \in Nat /\ read \in Nat /\ total <= Pieces /\ read <= total
      BY DEF WritesIInv, WritesShape
    <3>2. QED BY <3>1, WritesAssumption
  <2>2. QED BY <2>1 DEF WritesIInv, WritesShape, PartsFit, WritesTypeOK, MainPC
<1>2. QED BY <1>1, WritesInductive, PTL

\* What a call stores are the first pieces of its file in their order, and what a call
\* that returns Ok has stored is the file, but for the first piece after an error of the
\* pump, and for the last piece of a local file, the write of which nobody waits for.
THEOREM FilesStoredWhole == WritesSpec => []StoredWhole
<1>1. WritesIInv => StoredWhole
  <2> SUFFICES ASSUME WritesIInv PROVE StoredWhole
    OBVIOUS
  <2>1. object # None => object = [i \in 1..Len(object) |-> i]
    BY RunIs DEF WritesIInv, Returned
  <2>2. Len(tmp) \in Nat
    BY Lengths DEF WritesIInv
  <2>3. QED BY <2>1, <2>2 DEF WritesIInv, Returned, StoredWhole
<1>2. QED BY <1>1, WritesInductive, PTL

\* No part is in flight once the call has returned or was dropped.
THEOREM PartsEndInTime == WritesSpec => []PartsEndFirst
<1>1. WritesIInv => PartsEndFirst
  BY DEF WritesIInv, PartsFit, PartsEndFirst, Ended, Flying
<1>2. QED BY <1>1, WritesInductive, PTL

\* Once both channels are in use there is a forwarder.
Forwarded == forward = "none" => main \in {"idle", "first", "second", "put", "done", "dropped"}

LEMMA ForwardedStep == WritesIInv /\ Forwarded /\ [WritesNext]_writevars => Forwarded'
<1> SUFFICES ASSUME WritesIInv, Forwarded, [WritesNext]_writevars PROVE Forwarded'
  OBVIOUS
<1>1. CASE \E n \in 0..Pieces, b \in {"local", "s3"} : main = "idle" /\ put_file(n, b)
  BY <1>1 DEF Forwarded, put_file
<1>2. CASE Pump
  BY <1>2 DEF Forwarded, Pump, ReadPiece, ReadFails, SendPiece
<1>3. CASE Forward
  BY <1>3 DEF Forwarded, Forward
<1>4. CASE PeekFirst \/ PeekSecond \/ PutWhole \/ JoinPump \/ Dropped
  BY <1>4 DEF Forwarded, PeekFirst, PeekSecond, PutWhole, JoinPump, Dropped, Returns
<1>5. CASE AppendPiece \/ Rename \/ CreateUpload \/ TakePart \/ SpawnPart
  BY <1>5 DEF Forwarded, AppendPiece, Rename, CreateUpload, TakePart, SpawnPart
<1>6. CASE Drained \/ AbortUpload \/ CompleteUpload
  BY <1>6 DEF Forwarded, Drained, AbortUpload, CompleteUpload
<1>7. CASE Parts
  BY <1>7 DEF Forwarded, Parts, PartArrives, PartFails, Flying
<1>8. CASE Disk \/ UNCHANGED writevars
  BY <1>8 DEF Forwarded, Disk, WritePiece, WriteFails, writevars
<1>9. QED
  BY <1>1, <1>2, <1>3, <1>4, <1>5, <1>6, <1>7, <1>8 DEF WritesNext, Call

\* However full the channels are, the call and its tasks never all wait for one another.
THEOREM NobodyDeadlocks == WritesSpec => []SomebodyGoesOn
<1>1. WritesInit => Forwarded
  BY DEF WritesInit, Forwarded
<1>2. WritesIInv /\ Forwarded => SomebodyGoesOn
  <2> SUFFICES ASSUME WritesIInv, Forwarded, main # "idle",
                      PumpEnded \/ PumpWaits, forward # "run" \/ ForwardWaits,
                      Ended \/ CallWaits, parts = {}, ~DiskBusy
               PROVE  Ended /\ PumpEnded /\ forward # "run"
    BY DEF SomebodyGoesOn
  <2>1. /\ Concurrency > 0 /\ PipeDepth > 0 /\ PipeDepth \in Nat /\ Concurrency \in Nat
        /\ Cardinality(parts) = 0
        /\ Len(pipe) \in Nat /\ (pipe = <<>> => Len(pipe) = 0)
        /\ Len(mpipe) \in Nat /\ (mpipe = <<>> => Len(mpipe) = 0)
    BY WritesAssumption, FS_EmptySet, Lengths DEF WritesIInv
  <2>2. main \notin {"permit", "failing", "drain", "draining"}
    BY <2>1, WritesAssumption DEF CallWaits, Ended
  <2>3. CASE main \in {"first", "second"}
    <3>1. forward = "none"
      BY <2>3 DEF WritesIInv, Stages, Before
    <3>2. QED BY <2>1, <2>3, <3>1 DEF PumpWaits, CallWaits, Ended
  <2>4. CASE main = "loop"
    <3>1. mpipe = <<>> /\ forward = "run"
      BY <2>4 DEF CallWaits, Ended, Forwarded, WritesIInv, WritesShape
    <3>2. held = <<>> /\ pipe = <<>> /\ ~PumpEnded
      BY <2>1, <3>1 DEF ForwardWaits
    <3>3. QED BY <2>1, <3>2 DEF PumpWaits
  <2>5. CASE main \in {"stored", "unstored", "done", "dropped"}
    <3>1. ~MpipeOpen
      BY <2>5 DEF MpipeOpen
    <3>2. forward # "run"
      BY <2>1, <3>1 DEF ForwardWaits, PumpWaits
    <3>3. PumpEnded
      BY <2>5, <3>2 DEF PumpWaits, PipeOpen
    <3>4. QED
      BY <2>5, <3>2, <3>3 DEF CallWaits, Ended, Forwarded, WritesIInv, WritesShape
  <2>6. QED
    BY <2>2, <2>3, <2>4, <2>5 DEF CallWaits, Ended, WritesIInv, WritesShape, MainPC, Flying
<1>3. QED BY <1>1, <1>2, ForwardedStep, WritesInductive, PTL DEF WritesSpec

\* What is left to do is a number of steps.
LEMMA StepsCounted ==
  WritesIInv => /\ PiecesLeft \in Nat /\ TasksLeft \in 0..3 /\ Stage \in 0..9
                /\ StepsLeft \in Nat
<1> SUFFICES ASSUME WritesIInv
             PROVE  /\ PiecesLeft \in Nat /\ TasksLeft \in 0..3 /\ Stage \in 0..9
                    /\ StepsLeft \in Nat
  OBVIOUS
<1>1. /\ Len(pipe) \in Nat /\ Len(held) \in Nat /\ Len(mpipe) \in Nat
      /\ total \in Nat /\ read \in Nat /\ read <= total /\ Cardinality(parts) \in Nat
  BY Lengths, FS_CardinalityType DEF WritesIInv, WritesShape, PartsFit
<1>2. PiecesLeft \in Nat
  BY <1>1 DEF PiecesLeft
<1>3. TasksLeft \in 0..3
  BY DEF TasksLeft
<1>4. Stage \in 0..9
  BY DEF Stage
<1>5. QED BY <1>2, <1>3, <1>4 DEF StepsLeft

\* A step that takes something from one of the three counts, and adds to none.
LEMMA LessIsLeft ==
  ASSUME WritesIInv, NEW p \in Nat, NEW t \in Nat, NEW s \in Nat, p + t + s # 0,
         PiecesLeft' = PiecesLeft - p, TasksLeft' = TasksLeft - t, Stage' = Stage - s
  PROVE  StepsLeft' < StepsLeft
<1>1. PiecesLeft \in Int /\ TasksLeft \in Int /\ Stage \in Int
  BY StepsCounted
<1>2. StepsLeft' = StepsLeft - (p + t + s) /\ StepsLeft \in Int
  BY <1>1 DEF StepsLeft
<1>3. QED BY <1>2

\* The lengths that the count is made of.
LEMMA Counted ==
  ASSUME WritesIInv
  PROVE  /\ Len(pipe) \in Nat /\ Len(held) \in Nat /\ Len(mpipe) \in Nat
         /\ total \in Nat /\ read \in Nat /\ Cardinality(parts) \in Nat /\ IsFiniteSet(parts)
<1>1. IsFiniteSet(parts) /\ Cardinality(parts) \in Nat
  BY FS_CardinalityType DEF WritesIInv, PartsFit
<1>2. QED BY <1>1, Lengths DEF WritesIInv, WritesShape

\* How the length of a sequence changes.
LEMMA Longer ==
  ASSUME NEW q \in Seq(Nat), NEW e
  PROVE  /\ Len(Append(q, e)) = Len(q) + 1 /\ Len(<<e>>) = 1
         /\ q = <<>> => Len(q) = 0
         /\ q # <<>> => Len(Tail(q)) = Len(q) - 1
OBVIOUS

\* A later stage is some steps further on.
LEMMA Apart ==
  /\ Stage \in 0..9 /\ Stage' \in 0..9
  /\ Stage' < Stage => \E s \in Nat \ {0} : Stage' = Stage - s
  /\ Stage' <= Stage => \E s \in Nat : Stage' = Stage - s
<1>1. \A m, n \in 0..9 : m < n => \E s \in Nat \ {0} : m = n - s
  <2> TAKE m \in 0..9, n \in 0..9
  <2> HAVE m < n
  <2> WITNESS n - m \in Nat \ {0}
  <2> QED OBVIOUS
<1>2. \A m, n \in 0..9 : m <= n => \E s \in Nat : m = n - s
  <2> TAKE m \in 0..9, n \in 0..9
  <2> HAVE m <= n
  <2> WITNESS n - m \in Nat
  <2> QED OBVIOUS
<1>3. Stage \in 0..9 /\ Stage' \in 0..9
  BY DEF Stage
<1>4. QED BY <1>1, <1>2, <1>3, Zenon

\* A step of the call that leaves its pieces alone, or drops those in flight, and goes on to
\* a later stage.
LEMMA StageTires ==
  ASSUME WritesIInv, Stage' < Stage,
         UNCHANGED <<total, read, pump, pipe, held, forward, mpipe, hand, lost>>,
         parts' = parts \/ parts' = {}
  PROVE  StepsLeft' < StepsLeft
<1>1. PICK p \in Nat : PiecesLeft' = PiecesLeft - p
  <2>1. CASE parts' = parts
    BY <2>1, StepsCounted DEF PiecesLeft
  <2>2. CASE parts' = {}
    <3>1. Cardinality(parts) \in Nat /\ Cardinality(parts') = 0
      BY <2>2, Counted, FS_EmptySet
    <3>2. PiecesLeft' = PiecesLeft - Cardinality(parts)
      <4>1. Len(pipe) \in Nat /\ Len(held) \in Nat /\ Len(mpipe) \in Nat
            /\ total \in Nat /\ read \in Nat
        BY Counted
      <4>2. QED BY <3>1, <4>1 DEF PiecesLeft
    <3>3. QED BY <3>1, <3>2
  <2>3. QED BY <2>1, <2>2
<1>2. TasksLeft' = TasksLeft - 0
  BY StepsCounted DEF TasksLeft, PumpEnded
<1>3. PICK s \in Nat \ {0} : Stage' = Stage - s
  BY Apart, Zenon
<1>4. p + 0 + s # 0 /\ s \in Nat /\ 0 \in Nat
  OBVIOUS
<1>5. QED BY <1>1, <1>2, <1>3, <1>4, LessIsLeft

\* A step that brings a piece further.
LEMMA PieceTires ==
  ASSUME WritesIInv, NEW p \in Nat \ {0}, PiecesLeft' = PiecesLeft - p, Stage' <= Stage,
         TasksLeft' = TasksLeft \/ TasksLeft' = TasksLeft - 1
  PROVE  StepsLeft' < StepsLeft
<1>1. PICK s \in Nat : Stage' = Stage - s
  BY Apart, Zenon
<1>2. PICK t \in {0, 1} : TasksLeft' = TasksLeft - t
  BY StepsCounted
<1>3. p + t + s # 0 /\ p \in Nat /\ t \in Nat
  OBVIOUS
<1>4. QED BY <1>1, <1>2, <1>3, LessIsLeft

\* A step with which a task ends.
LEMMA TaskTires ==
  ASSUME WritesIInv, TasksLeft' = TasksLeft - 1, Stage' = Stage,
         NEW p \in Nat, PiecesLeft' = PiecesLeft - p
  PROVE  StepsLeft' < StepsLeft
<1>1. Stage' = Stage - 0 /\ p + 1 + 0 # 0 /\ 0 \in Nat /\ 1 \in Nat
  BY Apart
<1>2. QED BY <1>1, LessIsLeft

\* The pump uses up a step.
LEMMA PumpTires ==
  ASSUME WritesIInv, Pump
  PROVE  StepsLeft' < StepsLeft
<1>1. UNCHANGED <<total, main, held, forward, mpipe, hand, lost, parts>>
  BY DEF Pump, ReadPiece, ReadFails, SendPiece, backing
<1>2. Stage' = Stage /\ Stage' <= Stage
  BY <1>1, StepsCounted DEF Stage
<1>3. Len(pipe) \in Nat /\ Len(held) \in Nat /\ Len(mpipe) \in Nat /\ total \in Nat /\ read \in Nat
      /\ Cardinality(parts) \in Nat
  BY Counted
<1>4. \/ pump = "read" /\ pump' = "send" /\ read' = read + 1 /\ UNCHANGED pipe
      \/ pump = "send" /\ pump' = "read" /\ UNCHANGED read /\ Len(pipe') = Len(pipe) + 1
      \/ pump' \in {"ok", "failed"} /\ UNCHANGED <<read, pipe>> /\ pump \in {"read", "send"}
  <2>1. pipe \in Seq(Nat)
    BY DEF WritesIInv, InOrder, Run
  <2>2. QED BY <2>1, Longer DEF Pump, ReadPiece, ReadFails, SendPiece
<1>5. CASE \/ pump = "read" /\ pump' = "send" /\ read' = read + 1 /\ UNCHANGED pipe
           \/ pump = "send" /\ pump' = "read" /\ UNCHANGED read /\ Len(pipe') = Len(pipe) + 1
  <2>1. PiecesLeft' = PiecesLeft - 1 /\ 1 \in Nat \ {0}
    <3>1. CASE pump = "read" /\ pump' = "send" /\ read' = read + 1 /\ UNCHANGED pipe
      BY <1>1, <1>3, <3>1 DEF PiecesLeft
    <3>2. CASE pump = "send" /\ pump' = "read" /\ UNCHANGED read /\ Len(pipe') = Len(pipe) + 1
      BY <1>1, <1>3, <3>2 DEF PiecesLeft
    <3>3. QED BY <1>5, <3>1, <3>2
  <2>2. TasksLeft' = TasksLeft
    BY <1>1, <1>5 DEF TasksLeft, PumpEnded
  <2>3. QED BY <1>2, <2>1, <2>2, PieceTires
<1>6. CASE pump' \in {"ok", "failed"} /\ UNCHANGED <<read, pipe>> /\ pump \in {"read", "send"}
  <2>1. PICK p \in {0, 6} : PiecesLeft' = PiecesLeft - p
    BY <1>1, <1>3, <1>6 DEF PiecesLeft
  <2>2. TasksLeft' = TasksLeft - 1
    BY <1>1, <1>6 DEF TasksLeft, PumpEnded
  <2>3. p \in Nat
    OBVIOUS
  <2>4. QED BY <1>2, <2>1, <2>2, <2>3, TaskTires
<1>7. QED BY <1>4, <1>5, <1>6

\* The forwarder uses up a step.
LEMMA ForwardTires ==
  ASSUME WritesIInv, Forward
  PROVE  StepsLeft' < StepsLeft
<1>1. UNCHANGED <<total, read, pump, main, hand, lost, parts>> /\ forward = "run"
  BY DEF Forward, backing
<1>2. Stage' = Stage /\ Stage' <= Stage
  BY <1>1, StepsCounted DEF Stage
<1>3. Len(pipe) \in Nat /\ Len(held) \in Nat /\ Len(mpipe) \in Nat /\ total \in Nat /\ read \in Nat
      /\ Cardinality(parts) \in Nat
  BY Counted
<1>4. \/ /\ Len(mpipe') = Len(mpipe) + 1 /\ Len(held') = Len(held) - 1
         /\ UNCHANGED <<pipe, forward>>
      \/ /\ Len(held') = Len(held) + 1 /\ Len(pipe') = Len(pipe) - 1
         /\ UNCHANGED <<mpipe, forward>>
      \/ forward' = "ended" /\ UNCHANGED <<pipe, held, mpipe>>
  <2>1. pipe \in Seq(Nat) /\ held \in Seq(Nat) /\ mpipe \in Seq(Nat)
    BY DEF WritesIInv, InOrder, Run
  <2>2. CASE held # <<>> /\ mpipe' = Append(mpipe, Head(held)) /\ held' = Tail(held)
               /\ UNCHANGED <<pipe, forward>>
    BY <2>1, <2>2, Longer
  <2>3. CASE held = <<>> /\ pipe # <<>> /\ held' = <<Head(pipe)>> /\ pipe' = Tail(pipe)
               /\ UNCHANGED <<forward, mpipe>>
    BY <2>1, <2>3, Longer
  <2>4. QED BY <2>2, <2>3 DEF Forward
<1>5. CASE UNCHANGED forward
  <2>1. PiecesLeft' = PiecesLeft - 1 /\ 1 \in Nat \ {0}
    BY <1>1, <1>3, <1>4, <1>5 DEF PiecesLeft
  <2>2. TasksLeft' = TasksLeft
    BY <1>1, <1>5 DEF TasksLeft, PumpEnded
  <2>3. QED BY <1>2, <2>1, <2>2, PieceTires
<1>6. CASE forward' = "ended" /\ UNCHANGED <<pipe, held, mpipe>>
  <2>1. PiecesLeft' = PiecesLeft - 0 /\ 0 \in Nat
    BY <1>1, <1>6, StepsCounted DEF PiecesLeft
  <2>2. TasksLeft' = TasksLeft - 1
    BY <1>1, <1>6 DEF TasksLeft, PumpEnded
  <2>3. QED BY <1>2, <2>1, <2>2, TaskTires
<1>7. QED BY <1>4, <1>5, <1>6

\* Looking for the first two pieces uses up a step.
LEMMA PeekTires ==
  ASSUME WritesIInv, PeekFirst \/ PeekSecond
  PROVE  StepsLeft' < StepsLeft
<1>1. /\ UNCHANGED <<total, read, pump, mpipe, hand, lost, parts>>
      /\ main \in {"first", "second"} /\ main' \in {"second", "put", "done", "create", "loop"}
      /\ main = "second" => main' # "second"
  BY DEF PeekFirst, PeekSecond, Returns, backing
<1>2. Stage' < Stage /\ Stage' <= Stage
  BY <1>1 DEF Stage
<1>3. forward = "none" /\ (main = "first" => held = <<>>)
  BY <1>1 DEF WritesIInv, Stages, Before
<1>4. \/ /\ Len(pipe') = Len(pipe) - 1 /\ Len(held') = Len(held) + 1
         /\ forward' \in {"none", "run"}
      \/ UNCHANGED <<pipe, held, forward>>
  <2>1. pipe \in Seq(Nat) /\ held \in Seq(Nat)
    BY DEF WritesIInv, InOrder, Run
  <2>2. CASE PeekFirst
    <3>1. held = <<>>
      BY <1>3, <2>2 DEF PeekFirst
    <3>2. QED BY <1>3, <2>1, <2>2, <3>1, Longer DEF PeekFirst
  <2>3. CASE PeekSecond
    BY <1>3, <2>1, <2>3, Longer DEF PeekSecond
  <2>4. QED BY <2>2, <2>3
<1>5. CASE /\ Len(pipe') = Len(pipe) - 1 /\ Len(held') = Len(held) + 1
           /\ forward' \in {"none", "run"}
  <2>1. Len(pipe) \in Nat /\ Len(held) \in Nat /\ Len(mpipe) \in Nat /\ total \in Nat
        /\ read \in Nat /\ Cardinality(parts) \in Nat
    BY Counted
  <2>2. PiecesLeft' = PiecesLeft - 1 /\ 1 \in Nat \ {0}
    BY <1>1, <1>5, <2>1 DEF PiecesLeft
  <2>3. TasksLeft' = TasksLeft \/ TasksLeft' = TasksLeft - 1
    BY <1>1, <1>3, <1>5 DEF TasksLeft, PumpEnded
  <2>4. QED BY <1>2, <2>2, <2>3, PieceTires
<1>6. CASE UNCHANGED <<pipe, held, forward>>
  BY <1>1, <1>2, <1>6, StageTires
<1>7. QED BY <1>4, <1>5, <1>6

\* The backend's loop uses up a step for a piece it takes.
LEMMA TakingTires ==
  ASSUME WritesIInv, mpipe # <<>>, mpipe' = Tail(mpipe), Stage' = Stage,
         UNCHANGED <<total, read, pump, pipe, held, forward, parts>>, hand = None
  PROVE  StepsLeft' < StepsLeft
<1>1. Len(pipe) \in Nat /\ Len(held) \in Nat /\ Len(mpipe) \in Nat /\ total \in Nat /\ read \in Nat
      /\ Cardinality(parts) \in Nat /\ Len(mpipe') = Len(mpipe) - 1
  <2>1. mpipe \in Seq(Nat)
    BY DEF WritesIInv, InOrder, Run
  <2>2. QED BY <2>1, Counted, Longer
<1>2. PICK p \in {1, 2, 3} : PiecesLeft' = PiecesLeft - p
  BY <1>1 DEF PiecesLeft
<1>3. p \in Nat \ {0}
  OBVIOUS
<1>4. TasksLeft' = TasksLeft
  BY DEF TasksLeft, PumpEnded
<1>5. Stage' <= Stage
  BY Apart
<1>6. QED BY <1>2, <1>3, <1>4, <1>5, PieceTires

\* A part that is sent, or answered for, uses up a step.
LEMMA PartTires ==
  ASSUME WritesIInv, SpawnPart \/ Parts
  PROVE  StepsLeft' < StepsLeft
<1>1. UNCHANGED <<total, read, pump, pipe, held, forward, mpipe>>
  BY DEF SpawnPart, Parts, PartArrives, PartFails
<1>2. TasksLeft' = TasksLeft
  BY <1>1 DEF TasksLeft, PumpEnded
<1>3. Len(pipe) \in Nat /\ Len(held) \in Nat /\ Len(mpipe) \in Nat /\ total \in Nat /\ read \in Nat
      /\ Cardinality(parts) \in Nat /\ IsFiniteSet(parts)
  BY Counted
<1>4. PiecesLeft' \in {PiecesLeft - 2, PiecesLeft - 1} /\ Stage' <= Stage
  <2>1. CASE SpawnPart
    <3>1. /\ main \in {"permit", "failing"} /\ main' \in {"loop", "draining"} /\ hand # None
          /\ hand' = None /\ parts' = parts \cup {Len(tmp')} /\ lost = None
      BY <2>1 DEF SpawnPart, WritesIInv, Stages, PartsFit
    <3>2. Cardinality(parts') = Cardinality(parts) \/ Cardinality(parts') = Cardinality(parts) + 1
      BY <1>3, <3>1, FS_AddElement
    <3>3. PiecesLeft' \in {PiecesLeft - 2, PiecesLeft - 1}
      BY <1>1, <1>3, <3>1, <3>2 DEF PiecesLeft
    <3>4. QED BY <3>1, <3>3 DEF Stage
  <2>2. CASE Parts
    <3>1. PICK no \in 1..Pieces : PartArrives(no) \/ PartFails(no)
      BY <2>2 DEF Parts
    <3>2. /\ no \in parts /\ main \in Flying /\ parts' = parts \ {no}
          /\ UNCHANGED <<hand, lost>>
          /\ \/ main' = main
             \/ main' = IF main \in {"permit", "failing"} THEN "failing" ELSE "draining"
      BY <3>1 DEF PartArrives, PartFails
    <3>3. Cardinality(parts') = Cardinality(parts) - 1
      BY <1>3, <3>2, FS_RemoveElement
    <3>4. PiecesLeft' = PiecesLeft - 1
      BY <1>1, <1>3, <3>2, <3>3 DEF PiecesLeft
    <3>5. Stage' <= Stage
      BY <3>2 DEF Stage, Flying
    <3>6. QED BY <3>4, <3>5
  <2>3. QED BY <2>1, <2>2
<1>5. PICK p \in {1, 2} : PiecesLeft' = PiecesLeft - p
  BY <1>4
<1>6. p \in Nat \ {0}
  OBVIOUS
<1>7. QED BY <1>2, <1>4, <1>5, <1>6, PieceTires

\* So does the end of a write.
LEMMA DiskTires ==
  ASSUME WritesIInv, Disk
  PROVE  StepsLeft' < StepsLeft
<1>1. /\ UNCHANGED <<total, read, pump, pipe, main, held, forward, mpipe, parts>>
      /\ hand # None /\ lost = None
      /\ (hand' = None \/ (hand' = hand /\ lost' # None))
  BY DEF Disk, WritePiece, WriteFails, DiskBusy
<1>2. Len(pipe) \in Nat /\ Len(held) \in Nat /\ Len(mpipe) \in Nat /\ total \in Nat /\ read \in Nat
      /\ Cardinality(parts) \in Nat
  BY Counted
<1>3. PICK p \in {1, 2} : PiecesLeft' = PiecesLeft - p
  BY <1>1, <1>2 DEF PiecesLeft
<1>4. p \in Nat \ {0}
  OBVIOUS
<1>5. TasksLeft' = TasksLeft /\ Stage' = Stage /\ Stage' <= Stage
  BY <1>1, StepsCounted DEF TasksLeft, PumpEnded, Stage
<1>6. QED BY <1>3, <1>4, <1>5, PieceTires

\* Every step uses up a step.
LEMMA StepTires ==
  ASSUME WritesIInv, main # "idle", WritesNext
  PROVE  StepsLeft' < StepsLeft
<1>1. CASE Pump
  BY <1>1, PumpTires
<1>2. CASE Forward
  BY <1>2, ForwardTires
<1>3. CASE PeekFirst \/ PeekSecond
  BY <1>3, PeekTires
<1>4. CASE SpawnPart \/ Parts
  BY <1>4, PartTires
<1>5. CASE AppendPiece
  <2>1. CASE mpipe # <<>> /\ mpipe' = Tail(mpipe) /\ UNCHANGED main
    <3>1. hand = None /\ Stage' = Stage
      BY <1>5, <2>1, Longer DEF AppendPiece, WritesIInv, InOrder, Run, Stage
    <3>2. QED BY <1>5, <2>1, <3>1, TakingTires DEF AppendPiece
  <2>2. CASE main' \in {"rename", "unstored"} /\ UNCHANGED <<hand, mpipe>>
    <3>1. Stage' < Stage
      BY <1>5, <2>2 DEF AppendPiece, Stage
    <3>2. QED BY <1>5, <2>2, <3>1, StageTires DEF AppendPiece
  <2>3. QED BY <1>5, <2>1, <2>2 DEF AppendPiece
<1>6. CASE TakePart
  <2>1. CASE mpipe # <<>> /\ mpipe' = Tail(mpipe) /\ main' = "permit"
    <3>1. hand = None /\ Stage' = Stage
      BY <1>6, <2>1 DEF TakePart, WritesIInv, Stages, Stage
    <3>2. QED BY <1>6, <2>1, <3>1, TakingTires DEF TakePart
  <2>2. CASE main' = "drain" /\ UNCHANGED <<hand, mpipe>>
    <3>1. Stage' < Stage
      BY <1>6, <2>2 DEF TakePart, Stage
    <3>2. QED BY <1>6, <2>2, <3>1, StageTires DEF TakePart
  <2>3. QED BY <1>6, <2>1, <2>2 DEF TakePart
<1>7. CASE PutWhole \/ JoinPump \/ Rename \/ CreateUpload
  <2>1. Stage' < Stage
    BY <1>7 DEF PutWhole, JoinPump, Rename, CreateUpload, Returns, Stage
  <2>2. QED
    BY <1>7, <2>1, StageTires DEF PutWhole, JoinPump, Rename, CreateUpload, backing
<1>8. CASE Drained \/ AbortUpload \/ CompleteUpload
  <2>1. Stage' < Stage
    <3>1. CASE Drained
      BY <3>1 DEF Drained, Stage
    <3>2. CASE AbortUpload
      <4>1. main = "abort" /\ main' = "unstored"
        BY <3>2 DEF AbortUpload
      <4>2. QED BY <4>1 DEF Stage
    <3>3. CASE CompleteUpload
      BY <3>3 DEF CompleteUpload, Stage
    <3>4. QED BY <1>8, <3>1, <3>2, <3>3
  <2>2. QED BY <1>8, <2>1, StageTires DEF Drained, AbortUpload, CompleteUpload, backing
<1>9. CASE Dropped
  <2>1. Stage' < Stage
    <3>1. main \in MainPC \ {"idle", "done", "dropped"} /\ main' = "dropped"
      BY <1>9 DEF Dropped, Ended, WritesIInv, WritesShape
    <3>2. QED BY <3>1 DEF Stage, MainPC, Flying
  <2>2. QED BY <1>9, <2>1, StageTires DEF Dropped
<1>10. CASE Disk
  BY <1>10, DiskTires
<1>11. QED
  BY <1>1, <1>2, <1>3, <1>4, <1>5, <1>6, <1>7, <1>8, <1>9, <1>10 DEF WritesNext, Call

\* A call and its tasks take no more steps than its file and its stages have, whatever fails
\* or is dropped: together with NobodyDeadlocks, all that TasksEnd needs besides fairness.
THEOREM StepsAreFew == WritesSpec => StepsRunOut
<1>1. WritesIInv => StepsLeft \in Nat
  BY StepsCounted
<1>2. WritesIInv /\ WritesIInv' /\ (StepsLeft \in Nat)' /\ [WritesNext]_writevars
        => [Tiring]_writevars
  BY StepTires DEF Tiring
<1>3. QED
  BY <1>1, <1>2, WritesStep, WritesInductive, PTL DEF WritesSpec, StepsRunOut

-----------------------------------------------------------------------------
(***************************************************************************)
(* ObjectReads: arithmetic and pieces of the plaintext.                    *)
(***************************************************************************)
\* The less of two numbers.
LEMMA LessOfTwo ==
  ASSUME NEW a \in Int, NEW b \in Int
  PROVE  Min({a, b}) = (IF a <= b THEN a ELSE b)
<1>1. PICK m \in {a, b} : m = (IF a <= b THEN a ELSE b) /\ \A y \in {a, b} : m <= y
  OBVIOUS
<1>2. \A m1 \in {a, b} : (\A y \in {a, b} : m1 <= y) => m1 = m
  BY <1>1
<1>3. Min({a, b}) = m
  BY <1>1, <1>2 DEF Min
<1>4. QED BY <1>1, <1>3

\* The greater of two numbers.
LEMMA GreaterOfTwo ==
  ASSUME NEW a \in Int, NEW b \in Int
  PROVE  Max({a, b}) = (IF a >= b THEN a ELSE b)
<1>1. PICK m \in {a, b} : m = (IF a >= b THEN a ELSE b) /\ \A y \in {a, b} : m >= y
  OBVIOUS
<1>2. \A m1 \in {a, b} : (\A y \in {a, b} : m1 >= y) => m1 = m
  BY <1>1
<1>3. Max({a, b}) = m
  BY <1>1, <1>2 DEF Max
<1>4. QED BY <1>1, <1>3

\* Where a byte lies.
LEMMA ChunkOf ==
  ASSUME NEW p \in Nat
  PROVE  /\ p \div Chunk \in Nat /\ p % Chunk \in Nat /\ p % Chunk < Chunk
         /\ p = (p \div Chunk) * Chunk + (p % Chunk)
BY ReadsAssumption

\* Which chunks there are, and where they begin and end.
LEMMA ChunksCover ==
  ASSUME NEW n \in Nat, NEW i \in Nat
  PROVE  /\ ChunkCount(n) \in Nat
         /\ i * Chunk \in Nat /\ (i + 1) * Chunk = i * Chunk + Chunk
         /\ i < ChunkCount(n) <=> i * Chunk < n
<1>1. Chunk \in Nat /\ Chunk > 0
  BY ReadsAssumption
<1>2. PICK c \in Nat, r \in Nat : c = ChunkCount(n) /\ r < Chunk /\ n + Chunk - 1 = c * Chunk + r
  BY <1>1, ChunkOf DEF ChunkCount
<1>3. i * Chunk \in Nat /\ (i + 1) * Chunk = i * Chunk + Chunk
  BY <1>1
<1>4. i < c => i * Chunk < n
  <2>1. i + 1 <= c => (i + 1) * Chunk <= c * Chunk
    BY <1>1
  <2>2. QED BY <1>1, <1>2, <1>3, <2>1
<1>5. i * Chunk < n => i < c
  <2>1. c <= i => c * Chunk <= i * Chunk
    BY <1>1
  <2>2. QED BY <1>1, <1>2, <1>3, <2>1
<1>6. QED BY <1>2, <1>3, <1>4, <1>5

\* As many bytes as there are positions.
LEMMA PlainLen ==
  ASSUME NEW a \in Nat, NEW b \in Nat, a <= b
  PROVE  Plain(a, b) \in Seq(Nat) /\ Len(Plain(a, b)) = b - a
         /\ \A i \in 1..(b - a) : Plain(a, b)[i] = a + i
<1>1. b - a \in Nat /\ Plain(a, b) \in [1..(b - a) -> Nat]
  BY DEF Plain
<1>2. QED BY <1>1 DEF Plain

\* No plaintext.
LEMMA PlainNone == \A a \in Nat : Plain(a, a) = <<>>
<1> SUFFICES ASSUME NEW a \in Nat PROVE Plain(a, a) = <<>>
  OBVIOUS
<1>1. Plain(a, a) \in Seq(Nat) /\ Len(Plain(a, a)) = 0
  BY PlainLen
<1>2. QED BY <1>1, EmptySeq

\* Plaintext goes on where it ends.
LEMMA PlainGoesOn ==
  ASSUME NEW a \in Nat, NEW b \in Nat, NEW c \in Nat, a <= b, b <= c
  PROVE  Plain(a, b) \o Plain(b, c) = Plain(a, c)
<1>1. ASSUME NEW s \in Seq(Nat), NEW t \in Seq(Nat), NEW u \in Seq(Nat),
             Len(s) = b - a, Len(t) = c - b, Len(u) = c - a,
             \A i \in 1..(b - a) : s[i] = a + i,
             \A i \in 1..(c - b) : t[i] = b + i,
             \A i \in 1..(c - a) : u[i] = a + i
      PROVE  s \o t = u
  <2>1. s \o t \in Seq(Nat) /\ Len(s \o t) = Len(s) + Len(t)
    BY ConcatProperties
  <2>2. \A i \in 1..(Len(s) + Len(t)) : (s \o t)[i] = IF i <= Len(s) THEN s[i] ELSE t[i - Len(s)]
    BY ConcatProperties
  <2>3. Len(s) + Len(t) = c - a
    BY <1>1
  <2>4. ASSUME NEW i \in 1..(c - a) PROVE (s \o t)[i] = u[i]
    <3>1. CASE i <= b - a
      BY <1>1, <2>2, <2>3, <3>1
    <3>2. CASE i > b - a
      <4>1. i - (b - a) \in 1..(c - b) /\ b + (i - (b - a)) = a + i
        BY <3>2
      <4>2. (s \o t)[i] = t[i - (b - a)]
        BY <1>1, <2>2, <2>3, <3>2
      <4>3. QED BY <1>1, <4>1, <4>2
    <3>3. i <= b - a \/ i > b - a
      OBVIOUS
    <3>4. QED BY <3>1, <3>2, <3>3, Zenon
  <2>5. Len(s \o t) = Len(u) /\ s \o t \in Seq(Nat) /\ \A i \in 1..Len(u) : (s \o t)[i] = u[i]
    BY <1>1, <2>1, <2>3, <2>4
  <2>6. QED BY <2>5, SeqEqual
<1>0. a <= c
  OBVIOUS
<1>2. Plain(a, b) \in Seq(Nat) /\ Plain(b, c) \in Seq(Nat) /\ Plain(a, c) \in Seq(Nat)
  BY <1>0, PlainLen, Zenon
<1>3. /\ Len(Plain(a, b)) = b - a /\ \A i \in 1..(b - a) : Plain(a, b)[i] = a + i
      /\ Len(Plain(b, c)) = c - b /\ \A i \in 1..(c - b) : Plain(b, c)[i] = b + i
      /\ Len(Plain(a, c)) = c - a /\ \A i \in 1..(c - a) : Plain(a, c)[i] = a + i
  BY <1>0, PlainLen, Zenon
<1>4. QED BY <1>1, <1>2, <1>3, Zenon

\* Where the object is not sealed its bytes are the plaintext.
LEMMA BytesArePlain == ~Sealed => \A a, b \in Nat : Bytes(a, b) = Plain(a, b)
BY DEF Bytes, Plain

\* What a header can be answered with.
LEMMA ParseAnswers ==
  ASSUME NEW n \in Nat \ {0}, NEW r \in Ranges
  PROVE  LET a == parse(r, n)
         IN  /\ a.kind \in {"full", "satisfiable", "unsatisfiable", "invalid"}
             /\ a.start \in Nat /\ a.end \in Nat /\ a.start <= a.end
<1> DEFINE a == parse(r, n)
           Fits == /\ a.kind \in {"full", "satisfiable", "unsatisfiable", "invalid"}
                   /\ a.start \in Nat /\ a.end \in Nat /\ a.start <= a.end
           From(first, end) ==
             IF first >= n THEN Outcome("unsatisfiable", 0, 0)
             ELSE Outcome("satisfiable", first, Min({end, n - 1}))
<1>1. CASE r.kind \in {"none", "malformed"}
  <2>1. a = Outcome("full", 0, n - 1) \/ a = Outcome("invalid", 0, 0)
    BY <1>1 DEF parse
  <2>2. QED BY <2>1 DEF Outcome
<1>2. CASE r.kind = "suffix"
  <2>1. r.last \in Nat
    BY <1>2 DEF Ranges
  <2>2. Max({0, n - r.last}) = (IF 0 >= n - r.last THEN 0 ELSE n - r.last)
    BY <2>1, GreaterOfTwo
  <2>3. Min({n - 1, n - 1}) = n - 1
    BY LessOfTwo
  <2> DEFINE first == Max({0, n - r.last})
  <2>4. a = Outcome("unsatisfiable", 0, 0) \/ (r.last # 0 /\ a = From(first, n - 1))
    BY <1>2 DEF parse
  <2> HIDE DEF first, a
  <2>5. first \in Nat /\ (r.last # 0 => first <= n - 1)
    BY <2>1, <2>2 DEF first
  <2>6. QED BY <2>3, <2>4, <2>5 DEF Outcome, a
<1>3. CASE r.kind = "from"
  <2>1. r.first \in Nat
    BY <1>3 DEF Ranges
  <2>2. a = From(r.first, n - 1)
    BY <1>3 DEF parse
  <2>3. Min({n - 1, n - 1}) = n - 1
    BY LessOfTwo
  <2> HIDE DEF a
  <2>4. QED BY <2>1, <2>2, <2>3 DEF Outcome, a
<1>4. CASE r.kind = "span"
  <2>1. r.first \in Nat /\ r.last \in Nat
    BY <1>4 DEF Ranges
  <2>2. IF r.last < r.first THEN a = Outcome("invalid", 0, 0) ELSE a = From(r.first, r.last)
    BY <1>4 DEF parse
  <2>3. Min({r.last, n - 1}) = (IF r.last <= n - 1 THEN r.last ELSE n - 1)
    BY <2>1, LessOfTwo
  <2> HIDE DEF a
  <2>4. QED BY <2>1, <2>2, <2>3 DEF Outcome, a
<1>5. QED BY <1>1, <1>2, <1>3, <1>4 DEF Ranges

\* The span that is answered is what the header asks for.
LEMMA Parsed ==
  ASSUME source.n \in Nat \ {0}, asked \in Ranges, answer = parse(asked, source.n)
  PROVE  /\ answer.kind \in {"full", "satisfiable", "unsatisfiable", "invalid"}
         /\ answer.start \in Nat /\ answer.end \in Nat /\ answer.start <= answer.end
         /\ answer.kind \in {"full", "satisfiable"} =>
              answer.end < source.n /\ Wanted = (answer.start + 1)..(answer.end + 1)
         /\ answer.kind = "full" => answer.start = 0 /\ answer.end = source.n - 1
         /\ answer.kind = "unsatisfiable" => Wanted = {}
<1> DEFINE n == source.n
           last == n - 1
           Kind(k, first, end) == answer.kind = k /\ answer.start = first /\ answer.end = end
           From(first, end) == IF first >= n THEN Kind("unsatisfiable", 0, 0)
                               ELSE Kind("satisfiable", first, IF end <= last THEN end ELSE last)
<1>1. CASE asked.kind \in {"none", "malformed"}
  <2>1. (asked.kind = "none" /\ Kind("full", 0, last)) \/ Kind("invalid", 0, 0)
    BY <1>1 DEF parse, Outcome
  <2>2. Wanted = 1..n
    BY <1>1 DEF Wanted, Asked
  <2>3. QED BY <2>1, <2>2
<1>2. CASE asked.kind = "suffix"
  <2>1. asked.last \in Nat
    BY <1>2 DEF Ranges
  <2>2. Max({0, n - asked.last}) = (IF 0 >= n - asked.last THEN 0 ELSE n - asked.last)
    BY <2>1, GreaterOfTwo
  <2>3. Min({n - 1, n - 1}) = n - 1
    BY LessOfTwo
  <2> DEFINE first == Max({0, n - asked.last})
  <2>4. IF asked.last = 0 THEN Kind("unsatisfiable", 0, 0) ELSE From(first, last)
    BY <1>2, <2>3 DEF parse, Outcome
  <2>5. Wanted = {p \in 1..n : p > n - asked.last}
    BY <1>2 DEF Wanted, Asked
  <2> HIDE DEF first
  <2>6. first = (IF 0 >= n - asked.last THEN 0 ELSE n - asked.last)
    BY <2>2 DEF first
  <2>7. CASE asked.last = 0
    BY <2>4, <2>5, <2>7
  <2>8. CASE asked.last > 0
    <3>1. first \in Nat /\ first < n /\ Kind("satisfiable", first, last)
      BY <2>1, <2>4, <2>6, <2>8
    <3>2. Wanted = (first + 1)..(last + 1)
      BY <2>1, <2>5, <2>6, <2>8
    <3>3. QED BY <3>1, <3>2
  <2>9. QED BY <2>1, <2>7, <2>8
<1>3. CASE asked.kind = "from"
  <2>1. asked.first \in Nat
    BY <1>3 DEF Ranges
  <2>2. Min({n - 1, n - 1}) = n - 1
    BY LessOfTwo
  <2>3. From(asked.first, last)
    BY <1>3, <2>2 DEF parse, Outcome
  <2>4. Wanted = {p \in 1..n : p > asked.first}
    BY <1>3 DEF Wanted, Asked
  <2>5. QED BY <2>1, <2>3, <2>4
<1>4. CASE asked.kind = "span"
  <2>1. asked.first \in Nat /\ asked.last \in Nat
    BY <1>4 DEF Ranges
  <2>2. Min({asked.last, n - 1}) = (IF asked.last <= n - 1 THEN asked.last ELSE n - 1)
    BY <2>1, LessOfTwo
  <2>3. IF asked.last < asked.first THEN Kind("invalid", 0, 0) ELSE From(asked.first, asked.last)
    BY <1>4, <2>2 DEF parse, Outcome
  <2>4. Wanted = {p \in 1..n : p > asked.first /\ p <= asked.last + 1}
    BY <1>4 DEF Wanted, Asked
  <2>5. QED BY <2>1, <2>3, <2>4
<1>5. QED BY <1>1, <1>2, <1>3, <1>4 DEF Ranges

-----------------------------------------------------------------------------
(***************************************************************************)
(* ObjectReads: the inductive invariant.                                   *)
(***************************************************************************)
Unasked == {"idle", "unsatisfiable", "invalid"}

\* The answer is that to the header; whoever reads has a span to read.
Asking ==
  /\ reading = "idle" => probe = None /\ answer = Outcome("full", 0, 0)
  /\ reading = "probe" => probe = None
  /\ reading # "idle" =>
       /\ source \in Objects /\ asked \in Ranges /\ answer = parse(asked, source.n)
       /\ answer.kind = (IF reading \in Unasked THEN reading ELSE answer.kind)
       /\ reading \notin Unasked => answer.kind \in {"full", "satisfiable"}

\* What has been sent is the span from its first byte on.
SentSoFar ==
  Misread \/ (/\ sent = Plain(answer.start, answer.start + Len(sent))
              /\ Len(sent) \in 0..SpanLen)

\* What each way to read knows of what it has sent and has to send.
AsStored ==
  /\ reading \in Unasked \cup {"probe", "fetch", "whole", "header"} => sent = <<>>
  /\ reading = "whole" => Sealed \/ Full
  /\ reading \in {"fetch", "stream"} => Misread \/ ~Sealed
  /\ reading = "fetch" => skip = answer.start /\ take = SpanLen
  /\ reading = "stream" /\ Full => Misread \/ (Len(sent) = at /\ at <= source.stored)
  /\ reading = "stream" /\ ~Full =>
       Misread \/ (at + skip = answer.start + Len(sent) /\ take + Len(sent) = SpanLen)
  /\ reading = "end" => Misread \/ Len(sent) = SpanLen \/ (~Sealed /\ Full)

InChunks ==
  /\ reading \in {"header", "chunks"} => source.format = "v2" /\ probe = "v2"
  /\ reading = "chunks" => take + Len(sent) = SpanLen
  /\ reading = "chunks" /\ Full =>
       at <= ChunkCount(source.n) /\ Len(sent) = Min({at * Chunk, source.n})
  /\ reading = "chunks" /\ ~Full =>
       take > 0 /\ skip < Chunk /\ at * Chunk + skip = answer.start + Len(sent)

ReadsIInv == ReadsTypeOK /\ Asking /\ SentSoFar /\ AsStored /\ InChunks

\* What an answer with a span is.
LEMMA Answered ==
  ASSUME ReadsIInv, reading \notin Unasked
  PROVE  /\ source.n \in Nat \ {0} /\ source.stored \in Nat
         /\ answer.start \in Nat /\ answer.end \in Nat
         /\ answer.start <= answer.end /\ answer.end < source.n
         /\ SpanLen \in Nat \ {0} /\ answer.start + SpanLen = answer.end + 1
         /\ Full => answer.start = 0 /\ SpanLen = source.n
         /\ ~Sealed => source.stored <= source.n
         /\ Wanted = (answer.start + 1)..(answer.end + 1)
<1>1. source \in Objects /\ answer = parse(asked, source.n) /\ asked \in Ranges
      /\ answer.kind \in {"full", "satisfiable"}
  BY DEF ReadsIInv, Asking, Unasked
<1>2. /\ source.format \in {"plain", "v1", "v2"} /\ source.n \in 1..Longest
      /\ source.stored \in 0..StoredLen("v2", Longest)
      /\ source.stored <= StoredLen(source.format, source.n)
  BY <1>1 DEF Objects
<1>3. source.n \in Nat \ {0}
  BY <1>2, ReadsAssumption
<1>4. source.stored \in Nat
  BY <1>2
<1>5. ~Sealed => source.stored <= source.n
  BY <1>2 DEF Sealed, StoredLen
<1>6. /\ answer.start \in Nat /\ answer.end \in Nat /\ answer.start <= answer.end
      /\ answer.end < source.n /\ Wanted = (answer.start + 1)..(answer.end + 1)
      /\ Full => answer.start = 0 /\ answer.end = source.n - 1
  BY <1>1, <1>3, Parsed DEF Full
<1>7. QED BY <1>3, <1>4, <1>5, <1>6 DEF SpanLen

\* The span is gone on with.
LEMMA SpanGrows ==
  ASSUME ReadsIInv, reading \notin Unasked, ~Misread, UNCHANGED <<source, probe, answer>>,
         NEW from \in Nat, NEW to \in Nat, from = answer.start + Len(sent),
         from <= to, to <= answer.end + 1, sent' = sent \o Plain(from, to)
  PROVE  SentSoFar' /\ Len(sent') = Len(sent) + (to - from) /\ Len(sent) \in Nat
<1>1. answer.start \in Nat /\ answer.end \in Nat /\ answer.start + SpanLen = answer.end + 1
      /\ SpanLen \in Nat
  BY Answered
<1>2. sent = Plain(answer.start, from) /\ Len(sent) \in Nat
  BY <1>1 DEF ReadsIInv, SentSoFar
<1>3. answer.start <= from
  BY <1>1, <1>2
<1>4. sent' = Plain(answer.start, to)
  <2>1. Plain(answer.start, from) \o Plain(from, to) = Plain(answer.start, to)
    BY <1>1, <1>3, PlainGoesOn
  <2>2. QED BY <1>2, <2>1, Zenon
<1>5. answer.start <= to
  BY <1>1, <1>3
<1>6. Len(sent') = to - answer.start
  BY <1>1, <1>4, <1>5, PlainLen
<1>7. to = answer.start + Len(sent')
  BY <1>1, <1>6
<1>8. Len(sent') \in 0..SpanLen /\ Len(sent') = Len(sent) + (to - from)
  BY <1>1, <1>2, <1>3, <1>5, <1>6
<1>9. SpanLen' = SpanLen /\ (Misread' <=> Misread)
  BY DEF SpanLen, Misread, Sealed
<1>10. QED BY <1>2, <1>4, <1>7, <1>8, <1>9 DEF SentSoFar

-----------------------------------------------------------------------------
(***************************************************************************)
(* It holds at first, and every step keeps it.                             *)
(***************************************************************************)
LEMMA ReadsInitial == ReadsInit => ReadsIInv
<1> SUFFICES ASSUME ReadsInit PROVE ReadsIInv
  OBVIOUS
<1>1. Plain(0, 0) = <<>> /\ Len(<<>>) = 0
  BY PlainNone
<1>2. [kind |-> "none"] \in Ranges
  BY DEF Ranges
<1>3. Asking
  BY DEF ReadsInit, Asking
<1>7. ReadsTypeOK
  <2>1. source.format = "plain"
    BY DEF ReadsInit
  <2>5. key \in BOOLEAN /\ asked \in Ranges
    BY <1>2, Zenon DEF ReadsInit
  <2>2. answer.kind = "full" /\ answer.start = 0 /\ answer.end = 0
    BY DEF ReadsInit, Outcome
  <2>3. reading = "idle" /\ at = 0 /\ skip = 0 /\ take = 0
    BY DEF ReadsInit
  <2>4. QED BY <2>1, <2>2, <2>3, <2>5 DEF ReadsTypeOK
<1>4. SentSoFar
  BY <1>1 DEF ReadsInit, SentSoFar, SpanLen, Outcome
<1>5. AsStored /\ InChunks
  BY DEF ReadsInit, AsStored, InChunks, Unasked
<1>6. QED BY <1>3, <1>4, <1>5, <1>7 DEF ReadsIInv

\* A request is made, and answered or refused.
LEMMA RequestStep ==
  ASSUME ReadsIInv, reading = "idle", NEW o \in Objects, NEW k \in BOOLEAN, NEW r \in Ranges,
         raw(o, k, r)
  PROVE  ReadsIInv'
<1>1. /\ source' = o /\ key' = k /\ asked' = r /\ answer' = parse(asked', source'.n)
      /\ reading' = IF answer'.kind \in {"full", "satisfiable"} THEN "probe" ELSE answer'.kind
      /\ UNCHANGED <<probe, at, skip, take, sent>>
  BY DEF raw
<1>2. source'.n \in Nat \ {0} /\ source'.format \in {"plain", "v1", "v2"}
  BY <1>1, ReadsAssumption DEF Objects
<1>3. /\ answer'.kind \in {"full", "satisfiable", "unsatisfiable", "invalid"}
      /\ answer'.start \in Nat /\ answer'.end \in Nat /\ answer'.start <= answer'.end
  BY <1>1, <1>2, ParseAnswers
<1>4. ReadsTypeOK'
  BY <1>1, <1>2, <1>3 DEF ReadsIInv, ReadsTypeOK
<1>5. sent' = <<>> /\ probe' = None
  BY <1>1 DEF ReadsIInv, AsStored, Asking, Unasked
<1>6. Asking'
  BY <1>1, <1>3, <1>5 DEF Asking, Unasked
<1>7. SentSoFar'
  <2>1. Len(sent') = 0 /\ answer'.start + 0 = answer'.start
    BY <1>3, <1>5
  <2>2. Plain(answer'.start, answer'.start) = <<>>
    BY <1>3, PlainNone
  <2>3. SpanLen' \in Nat
    BY <1>3 DEF SpanLen
  <2>4. QED BY <1>5, <2>1, <2>2, <2>3 DEF SentSoFar
<1>8. AsStored' /\ InChunks'
  BY <1>1, <1>3, <1>5 DEF AsStored, InChunks
<1>9. QED BY <1>4, <1>6, <1>7, <1>8 DEF ReadsIInv

\* The variables of the request stay as they are, and with them what follows from them.
LEMMA SameRequest ==
  ASSUME ReadsIInv, reading \notin Unasked, UNCHANGED request,
         reading' \in {"fetch", "stream", "whole", "header", "chunks", "end", "error", "gone"},
         at' \in Nat, skip' \in Nat, take' \in Nat
  PROVE  /\ ReadsTypeOK' /\ Asking' /\ source' = source /\ answer' = answer
         /\ SpanLen' = SpanLen /\ (Full' <=> Full) /\ (Sealed' <=> Sealed)
<1>1. source' = source /\ key' = key /\ asked' = asked /\ answer' = answer
  BY DEF request
<1>2. Asking'
  BY <1>1 DEF ReadsIInv, Asking, Unasked
<1>3. SpanLen' = SpanLen /\ (Full' <=> Full) /\ (Sealed' <=> Sealed)
  BY <1>1 DEF SpanLen, Full, Sealed
<1>4. ReadsTypeOK'
  BY <1>1 DEF ReadsIInv, ReadsTypeOK
<1>5. QED BY <1>1, <1>2, <1>3, <1>4

\* The read ends in an error, or nobody reads on.
LEMMA BreaksOff ==
  ASSUME ReadsIInv, reading \notin Unasked, UNCHANGED <<request, probe, sent>>,
         reading' \in {"error", "gone"}, at' \in Nat, skip' \in Nat, take' \in Nat
  PROVE  ReadsIInv'
<1>1. reading' \notin Unasked /\ reading' # "probe"
  BY DEF Unasked
<1>2. ReadsTypeOK' /\ Asking' /\ SpanLen' = SpanLen /\ (Sealed' <=> Sealed) /\ answer' = answer
  BY <1>1, SameRequest
<1>3. SentSoFar'
  BY <1>2 DEF ReadsIInv, SentSoFar, Misread
<1>4. AsStored' /\ InChunks'
  BY DEF AsStored, InChunks, Unasked
<1>5. QED BY <1>2, <1>3, <1>4 DEF ReadsIInv

\* raw_stream and raw_span_stream begin.
LEMMA RawBegins ==
  ASSUME ReadsIInv, reading = "probe", ReadRaw, UNCHANGED <<request, sent>>,
         Misread' \/ ~Sealed
  PROVE  ReadsIInv'
<1>1. reading' \in {"stream", "fetch"} /\ reading \notin Unasked
  BY DEF ReadRaw, Unasked
<1>2. /\ answer.start \in Nat /\ SpanLen \in Nat /\ source.stored \in Nat
      /\ Full => answer.start = 0
  BY <1>1, Answered
<1>3. at' = 0 /\ skip' = answer.start /\ take' = SpanLen
  BY DEF ReadRaw
<1>4. /\ ReadsTypeOK' /\ Asking' /\ SpanLen' = SpanLen /\ (Full' <=> Full) /\ (Sealed' <=> Sealed)
      /\ source' = source /\ answer' = answer
  BY <1>1, <1>2, <1>3, SameRequest DEF Unasked
<1>5. sent' = <<>> /\ Len(sent') = 0
  BY DEF ReadsIInv, AsStored
<1>6. SentSoFar'
  BY <1>2, <1>4, <1>5, PlainNone DEF SentSoFar
<1>7. AsStored'
  <2>1. Misread' \/ ~Sealed'
    BY <1>4
  <2>2. Len(sent') = at' /\ at' <= source'.stored /\ take' + Len(sent') = SpanLen'
    BY <1>2, <1>3, <1>4, <1>5
  <2>3. at' + skip' = answer'.start + Len(sent') /\ skip' = answer'.start /\ take' = SpanLen'
    BY <1>2, <1>3, <1>4, <1>5
  <2>4. QED BY <1>1, <1>5, <2>1, <2>2, <2>3 DEF AsStored, Unasked
<1>8. InChunks'
  BY <1>1 DEF InChunks
<1>9. QED BY <1>4, <1>6, <1>7, <1>8 DEF ReadsIInv

\* The probe says how the object is read.
LEMMA ProbeStep ==
  ASSUME ReadsIInv, Probe \/ ProbeFails
  PROVE  ReadsIInv'
<1>1. reading = "probe" /\ UNCHANGED <<request, sent>> /\ reading \notin Unasked
  BY DEF Probe, ProbeFails, Unasked
<1>2. source' = source /\ (Sealed' <=> Sealed)
  BY <1>1 DEF request, Sealed
<1>3. CASE ProbeFails
  BY <1>1, <1>2, <1>3, RawBegins DEF ProbeFails, Misread
<1>4. CASE Probe /\ ReadRaw
  <2>1. ~Sealed
    BY <1>4 DEF Probe, ReadRaw
  <2>2. QED BY <1>1, <1>4, <2>1, RawBegins
<1>5. CASE Probe /\ ~ReadRaw
  <2>1. /\ probe' = source.format /\ UNCHANGED <<at, skip, take>>
        /\ \/ reading' = "error"
           \/ reading' = "header" /\ source.format = "v2"
           \/ reading' = "whole" /\ (Sealed \/ Full)
    BY <1>5 DEF Probe
  <2>2. at' \in Nat /\ skip' \in Nat /\ take' \in Nat
    BY <2>1 DEF ReadsIInv, ReadsTypeOK
  <2>3. reading' \notin Unasked /\ reading' # "probe" /\ reading' \notin {"fetch", "stream", "chunks", "end"}
    BY <2>1 DEF Unasked
  <2>4. ReadsTypeOK' /\ Asking' /\ SpanLen' = SpanLen /\ (Full' <=> Full) /\ answer' = answer
    BY <1>1, <2>1, <2>2, <2>3, SameRequest
  <2>5. sent' = <<>> /\ Len(sent') = 0 /\ answer.start \in Nat /\ SpanLen \in Nat
    BY <1>1, Answered DEF ReadsIInv, AsStored
  <2>6. SentSoFar'
    BY <2>4, <2>5, PlainNone DEF SentSoFar
  <2>7. AsStored' /\ InChunks'
    BY <1>2, <2>1, <2>3, <2>4, <2>5 DEF AsStored, InChunks
  <2>8. QED BY <2>4, <2>6, <2>7 DEF ReadsIInv
<1>6. QED BY <1>3, <1>4, <1>5

\* A span that is read by one request, or cut out of the whole object.
LEMMA AtOnce ==
  ASSUME ReadsIInv, Fetch \/ Whole
  PROVE  ReadsIInv'
<1>1. /\ reading \in {"fetch", "whole"} /\ reading \notin Unasked /\ reading' = "end"
      /\ UNCHANGED <<request, probe, at, skip, take>>
  BY DEF Fetch, Whole, Unasked
<1>2. /\ answer.start \in Nat /\ answer.end \in Nat /\ answer.start + SpanLen = answer.end + 1
      /\ SpanLen \in Nat /\ source.stored \in Nat /\ source.n \in Nat
      /\ Full => answer.start = 0 /\ SpanLen = source.n
      /\ ~Sealed => source.stored <= source.n
  BY <1>1, Answered
<1>3. at' \in Nat /\ skip' \in Nat /\ take' \in Nat
  BY <1>1 DEF ReadsIInv, ReadsTypeOK
<1>4. /\ ReadsTypeOK' /\ Asking' /\ source' = source /\ answer' = answer
      /\ SpanLen' = SpanLen /\ (Full' <=> Full) /\ (Sealed' <=> Sealed)
  BY <1>1, <1>3, SameRequest
<1>5. (Misread' <=> Misread)
  BY <1>1, <1>4 DEF Misread
<1>6. ASSUME ~Misread
      PROVE  \E to \in Nat : /\ answer.start <= to /\ to <= answer.end + 1
                             /\ sent' = Plain(answer.start, to)
                             /\ to = answer.end + 1 \/ (~Sealed /\ Full)
  <2>1. CASE Fetch
    <3>1. ~Sealed /\ skip = answer.start /\ take = SpanLen
      BY <1>6, <2>1 DEF Fetch, ReadsIInv, AsStored, Misread
    <3>2. sent' = Plain(answer.start, answer.end + 1)
      BY <1>2, <2>1, <3>1, BytesArePlain DEF Fetch
    <3>3. QED BY <1>2, <3>2
  <2>2. CASE Whole /\ Sealed
    <3>1. sent' = Plain(answer.start, answer.end + 1)
      BY <2>2 DEF Whole
    <3>2. QED BY <1>2, <3>1
  <2>3. CASE Whole /\ ~Sealed
    <3>1. Full /\ sent' = Bytes(0, source.stored)
      BY <2>3 DEF Whole, ReadsIInv, AsStored, Misread
    <3>2. sent' = Plain(0, source.stored)
      BY <1>2, <2>3, <3>1, BytesArePlain
    <3>3. QED BY <1>2, <2>3, <3>1, <3>2
  <2>4. QED BY <2>1, <2>2, <2>3
<1>7. SentSoFar' /\ (Misread \/ Len(sent') = SpanLen \/ (~Sealed /\ Full))
  <2>1. CASE Misread
    BY <1>5, <2>1 DEF SentSoFar, Misread
  <2>2. CASE ~Misread
    <3>1. PICK to \in Nat : /\ answer.start <= to /\ to <= answer.end + 1
                            /\ sent' = Plain(answer.start, to)
                            /\ to = answer.end + 1 \/ (~Sealed /\ Full)
      BY <1>6, <2>2
    <3>2. Len(sent') = to - answer.start
      BY <1>2, <3>1, PlainLen
    <3>3. to = answer.start + Len(sent') /\ Len(sent') \in 0..SpanLen
      BY <1>2, <3>1, <3>2
    <3>4. Len(sent') = SpanLen \/ (~Sealed /\ Full)
      BY <1>2, <3>1, <3>2
    <3>5. QED BY <1>4, <3>1, <3>3, <3>4 DEF SentSoFar, Misread
  <2>3. QED BY <2>1, <2>2
<1>8. AsStored' /\ InChunks'
  BY <1>1, <1>4, <1>5, <1>7 DEF AsStored, InChunks, Unasked, Misread
<1>9. QED BY <1>4, <1>7, <1>8 DEF ReadsIInv

\* The next piece of an object that is read as it is.
LEMMA FullPiece ==
  ASSUME ReadsIInv, NEW len \in 1..Chunk, StreamPiece(len)
  PROVE  ReadsIInv'
<1>1. /\ reading = "stream" /\ reading' = "stream" /\ reading \notin Unasked /\ Full
      /\ at' = at + len /\ UNCHANGED <<request, probe, skip, take>>
      /\ at + len <= source.stored /\ sent' = sent \o Bytes(at, at + len)
  BY DEF StreamPiece, InRange, Unasked
<1>2. at \in Nat /\ at' \in Nat /\ skip' \in Nat /\ take' \in Nat /\ at <= at'
  BY <1>1, ReadsAssumption DEF ReadsIInv, ReadsTypeOK
<1>3. /\ ReadsTypeOK' /\ Asking' /\ source' = source /\ answer' = answer
      /\ SpanLen' = SpanLen /\ (Full' <=> Full) /\ (Sealed' <=> Sealed)
  BY <1>1, <1>2, SameRequest
<1>4. (Misread' <=> Misread)
  BY <1>1, <1>3 DEF Misread
<1>5. CASE Misread
  <2>1. SentSoFar'
    BY <1>4, <1>5 DEF SentSoFar, Misread
  <2>3. AsStored'
    BY <1>1, <1>4, <1>5 DEF AsStored, Unasked, Misread
  <2>4. InChunks'
    BY <1>1 DEF InChunks
  <2>2. QED BY <1>3, <2>1, <2>3, <2>4 DEF ReadsIInv
<1>6. CASE ~Misread
  <2>1. ~Sealed /\ Len(sent) = at
    BY <1>1, <1>6 DEF ReadsIInv, AsStored, Misread
  <2>2. /\ answer.start = 0 /\ answer.end \in Nat /\ SpanLen = source.n /\ answer.end + 1 = SpanLen
        /\ source.stored \in Nat /\ source.stored <= source.n /\ source.n \in Nat
    BY <1>1, <2>1, Answered
  <2>3. sent' = sent \o Plain(at, at')
    BY <1>1, <1>2, <2>1, BytesArePlain
  <2>4. at = answer.start + Len(sent) /\ at' <= answer.end + 1
    BY <1>1, <1>2, <2>1, <2>2
  <2>5. SentSoFar' /\ Len(sent') = Len(sent) + (at' - at)
    BY <1>1, <1>2, <1>3, <1>6, <2>3, <2>4, SpanGrows
  <2>6. Len(sent') = at'
    BY <1>1, <1>2, <2>1, <2>5
  <2>7. AsStored' /\ InChunks'
    BY <1>1, <1>3, <2>1, <2>6 DEF AsStored, InChunks, Unasked, Misread
  <2>8. QED BY <1>3, <2>5, <2>7 DEF ReadsIInv
<1>7. QED BY <1>5, <1>6

\* The next piece of which the span is cut out.
LEMMA CutPiece ==
  ASSUME ReadsIInv, NEW len \in 1..Chunk, SpanPiece(len)
  PROVE  ReadsIInv'
<1> DEFINE less == Min({skip + take, len})
<1>1. /\ reading = "stream" /\ reading \notin Unasked /\ ~Full
      /\ at' = at + len /\ UNCHANGED <<request, probe>>
  BY DEF SpanPiece, Unasked
<1>2. at \in Nat /\ skip \in Nat /\ take \in Nat /\ len \in Nat /\ at' \in Nat
  BY <1>1, ReadsAssumption DEF ReadsIInv, ReadsTypeOK
<1>3. less = (IF skip + take <= len THEN skip + take ELSE len)
  BY <1>2, LessOfTwo
<1>4. skip < len => /\ sent' = sent \o Bytes(at + skip, at + less)
                    /\ skip' = 0 /\ take' = take - (less - skip)
                    /\ reading' = IF take' = 0 THEN "end" ELSE "stream"
  <2>1. skip < len => ~(skip >= len)
    BY <1>2
  <2>2. ~(skip >= len) => /\ sent' = sent \o Bytes(at + skip, at + less)
                          /\ skip' = 0 /\ take' = take - (less - skip)
                          /\ reading' = IF take' = 0 THEN "end" ELSE "stream"
    BY Zenon DEF SpanPiece
  <2>3. QED BY <2>1, <2>2, Zenon
<1>5. skip >= len => skip' = skip - len /\ UNCHANGED <<reading, take, sent>>
  BY DEF SpanPiece
<1> HIDE DEF less
<1>6. skip' \in Nat /\ take' \in Nat /\ reading' \in {"stream", "end"} /\ less \in Nat
  BY <1>1, <1>2, <1>3, <1>4, <1>5
<1>7. /\ ReadsTypeOK' /\ Asking' /\ source' = source /\ answer' = answer
      /\ SpanLen' = SpanLen /\ (Full' <=> Full) /\ (Sealed' <=> Sealed)
  BY <1>1, <1>2, <1>6, SameRequest
<1>8. (Misread' <=> Misread)
  BY <1>1, <1>7 DEF Misread
<1>9. CASE Misread
  <2>1. SentSoFar' /\ AsStored' /\ InChunks'
    BY <1>1, <1>6, <1>7, <1>8, <1>9 DEF SentSoFar, AsStored, InChunks, Unasked, Misread
  <2>2. QED BY <1>7, <2>1 DEF ReadsIInv
<1>10. CASE ~Misread
  <2>1. ~Sealed /\ at + skip = answer.start + Len(sent) /\ take + Len(sent) = SpanLen
    BY <1>1, <1>10 DEF ReadsIInv, AsStored, Misread
  <2>2. answer.start \in Nat /\ answer.end \in Nat /\ answer.start + SpanLen = answer.end + 1
    BY <1>1, Answered
  <2>3. Len(sent) \in Nat
    BY <1>10, <1>1, Answered DEF ReadsIInv, SentSoFar, Misread
  <2>4. CASE skip >= len
    <3>1. at' + skip' = answer.start + Len(sent')
      BY <1>1, <1>2, <1>5, <2>1, <2>4
    <3>2. SentSoFar' /\ AsStored' /\ InChunks'
      BY <1>1, <1>5, <1>7, <1>8, <2>1, <2>4, <3>1
         DEF ReadsIInv, SentSoFar, AsStored, InChunks, Unasked, Misread
    <3>3. QED BY <1>7, <3>2 DEF ReadsIInv
  <2>5. CASE skip < len
    <3> DEFINE from == at + skip
               to == at + less
    <3>1. /\ from \in Nat /\ to \in Nat /\ from <= to /\ from = answer.start + Len(sent)
          /\ to - from = less - skip
      BY <1>2, <1>3, <1>6, <2>1, <2>5
    <3>2. to <= answer.end + 1
      <4>1. less <= skip + take
        BY <1>2, <1>3
      <4>2. from + take = answer.end + 1
        BY <1>2, <2>1, <2>2, <2>3
      <4>3. QED BY <1>2, <1>6, <2>2, <4>1, <4>2
    <3>3. sent' = sent \o Plain(from, to)
      BY <1>4, <2>1, <2>5, <3>1, BytesArePlain
    <3> HIDE DEF from, to
    <3>4. SentSoFar' /\ Len(sent') = Len(sent) + (to - from)
      BY <1>1, <1>7, <1>10, <3>1, <3>2, <3>3, SpanGrows
    <3>5. take' + Len(sent') = SpanLen
      BY <1>2, <1>4, <1>6, <2>1, <2>3, <2>5, <3>1, <3>4
    <3>6. reading' = "stream" => at' + skip' = answer.start + Len(sent')
      <4>1. reading' = "stream" => less = len
        BY <1>2, <1>3, <1>4, <2>5
      <4>2. reading' = "stream" => Len(sent') = Len(sent) + (len - skip)
        BY <3>1, <3>4, <4>1
      <4>3. skip' = 0 /\ at' = at + len
        BY <1>1, <1>4, <2>5
      <4>4. at + skip = answer.start + Len(sent) /\ answer.start \in Nat
        BY <2>1, <2>2
      <4>5. at' + skip' = at + len
        BY <1>2, <4>3
      <4>6. QED BY <1>2, <2>3, <4>2, <4>4, <4>5
    <3>7. reading' = "end" => Len(sent') = SpanLen
      BY <1>2, <1>4, <1>6, <2>3, <2>5, <3>1, <3>4, <3>5
    <3>8. AsStored' /\ InChunks'
      BY <1>1, <1>6, <1>7, <1>8, <2>1, <3>5, <3>6, <3>7 DEF AsStored, InChunks, Unasked, Misread
    <3>9. QED BY <1>7, <3>4, <3>8 DEF ReadsIInv
  <2>6. skip >= len \/ skip < len
    BY <1>2
  <2>7. QED BY <2>4, <2>5, <2>6
<1>11. QED BY <1>9, <1>10

\* A request fails, nobody reads on, or there is no more to read.
LEMMA OverStep ==
  ASSUME ReadsIInv, Fails \/ Gone \/ StreamEnds
  PROVE  ReadsIInv'
<1>1. reading \notin Unasked /\ UNCHANGED <<request, probe, at, skip, take, sent>>
  BY DEF Fails, Gone, StreamEnds, Unasked
<1>2. at' \in Nat /\ skip' \in Nat /\ take' \in Nat
  BY <1>1 DEF ReadsIInv, ReadsTypeOK
<1>3. CASE reading' \in {"error", "gone"}
  BY <1>1, <1>2, <1>3, BreaksOff
<1>4. CASE reading' \notin {"error", "gone"}
  <2>1. reading = "stream" /\ Full /\ reading' = "end"
    BY <1>4 DEF Fails, Gone, StreamEnds
  <2>2. /\ ReadsTypeOK' /\ Asking' /\ source' = source /\ answer' = answer
        /\ SpanLen' = SpanLen /\ (Full' <=> Full) /\ (Sealed' <=> Sealed)
    BY <1>1, <1>2, <2>1, SameRequest
  <2>3. (Misread' <=> Misread) /\ (Misread \/ ~Sealed)
    BY <1>1, <2>1, <2>2 DEF Misread, ReadsIInv, AsStored
  <2>4. SentSoFar' /\ AsStored' /\ InChunks'
    BY <1>1, <2>1, <2>2, <2>3 DEF ReadsIInv, SentSoFar, AsStored, InChunks, Unasked, Misread
  <2>5. QED BY <2>2, <2>4 DEF ReadsIInv
<1>5. QED BY <1>3, <1>4

\* The header of an object that is sealed chunk by chunk.
LEMMA HeaderStep ==
  ASSUME ReadsIInv, ReadHeader
  PROVE  ReadsIInv'
<1>1. /\ reading = "header" /\ reading' = "chunks" /\ reading \notin Unasked
      /\ UNCHANGED <<request, probe, sent>>
      /\ at' = answer.start \div Chunk /\ skip' = answer.start % Chunk /\ take' = SpanLen
  BY DEF ReadHeader, Unasked
<1>2. /\ answer.start \in Nat /\ SpanLen \in Nat \ {0} /\ source.n \in Nat \ {0}
      /\ Full => answer.start = 0
  BY <1>1, Answered
<1>3. /\ at' \in Nat /\ skip' \in Nat /\ take' \in Nat /\ skip' < Chunk
      /\ at' * Chunk + skip' = answer.start
  BY <1>1, <1>2, ChunkOf
<1>4. /\ ReadsTypeOK' /\ Asking' /\ source' = source /\ answer' = answer
      /\ SpanLen' = SpanLen /\ (Full' <=> Full) /\ (Sealed' <=> Sealed)
  BY <1>1, <1>3, SameRequest
<1>5. sent' = <<>> /\ Len(sent') = 0 /\ source.format = "v2" /\ probe = "v2"
  BY <1>1 DEF ReadsIInv, AsStored, InChunks
<1>6. SentSoFar'
  BY <1>2, <1>4, <1>5, PlainNone DEF SentSoFar
<1>7. AsStored'
  BY <1>1 DEF AsStored, Unasked
<1>8. Full => at' = 0
  <2>1. Chunk \in Nat /\ Chunk > 0
    BY ReadsAssumption
  <2>2. 0 \div Chunk = 0
    BY <2>1
  <2>3. QED BY <1>1, <1>2, <2>2
<1>9. Full => at' <= ChunkCount(source.n) /\ Min({at' * Chunk, source.n}) = 0
  <2>1. Full => at' * Chunk = 0
    BY <1>8, ReadsAssumption
  <2>2. ChunkCount(source.n) \in Nat
    BY <1>2, ChunksCover
  <2>3. Min({0, source.n}) = 0
    BY <1>2, LessOfTwo
  <2>4. QED BY <1>8, <2>1, <2>2, <2>3
<1>10. InChunks'
  <2>1. /\ source'.format = "v2" /\ probe' = "v2" /\ take' + Len(sent') = SpanLen'
        /\ take' > 0 /\ skip' < Chunk /\ at' * Chunk + skip' = answer'.start + Len(sent')
    BY <1>1, <1>2, <1>3, <1>4, <1>5
  <2>2. Full' => at' <= ChunkCount(source'.n) /\ Len(sent') = Min({at' * Chunk, source'.n})
    BY <1>4, <1>5, <1>9
  <2>3. QED BY <1>1, <2>1, <2>2 DEF InChunks
<1>11. QED BY <1>4, <1>6, <1>7, <1>10 DEF ReadsIInv

\* The next chunk of a whole object.
LEMMA ChunkStep ==
  ASSUME ReadsIInv, NextChunk
  PROVE  ReadsIInv'
<1> DEFINE here == Min({take, Chunk})
           n == source.n
<1>1. /\ reading = "chunks" /\ Full /\ reading \notin Unasked
      /\ UNCHANGED <<request, probe, skip>>
  BY DEF NextChunk, Unasked
<1>2. /\ at \in Nat /\ skip \in Nat /\ take \in Nat /\ n \in Nat /\ Chunk \in Nat
      /\ answer.start = 0 /\ SpanLen = n /\ answer.end + 1 = n /\ answer.end \in Nat
  BY <1>1, Answered, ReadsAssumption DEF ReadsIInv, ReadsTypeOK
<1>3. /\ source.format = "v2" /\ probe = "v2" /\ take + Len(sent) = n
      /\ at <= ChunkCount(n) /\ Len(sent) = Min({at * Chunk, n}) /\ Sealed /\ ~Misread
  BY <1>1, <1>2 DEF ReadsIInv, InChunks, Sealed, Misread
<1>4. /\ ChunkCount(n) \in Nat /\ at * Chunk \in Nat /\ (at + 1) * Chunk = at * Chunk + Chunk
      /\ at < ChunkCount(n) <=> at * Chunk < n
  BY <1>2, ChunksCover
<1>5. Len(sent) = (IF at * Chunk <= n THEN at * Chunk ELSE n)
  BY <1>2, <1>3, <1>4, LessOfTwo
<1>6. here = (IF take <= Chunk THEN take ELSE Chunk)
  BY <1>2, LessOfTwo
<1> HIDE DEF here
<1>7. CASE reading' = "error"
  <2>1. UNCHANGED <<at, take, sent>>
    BY <1>1, <1>7 DEF NextChunk
  <2>2. QED BY <1>1, <1>2, <1>7, <2>1, BreaksOff
<1>8. CASE at = ChunkCount(n)
  <2>1. reading' = "end" /\ UNCHANGED <<at, take, sent>>
    BY <1>8 DEF NextChunk
  <2>2. /\ ReadsTypeOK' /\ Asking' /\ source' = source /\ answer' = answer
        /\ SpanLen' = SpanLen /\ (Full' <=> Full) /\ (Sealed' <=> Sealed)
    BY <1>1, <1>2, <2>1, SameRequest
  <2>3. Len(sent') = SpanLen'
    BY <1>2, <1>4, <1>5, <1>8, <2>1, <2>2
  <2>4. SentSoFar' /\ AsStored' /\ InChunks'
    BY <1>1, <2>1, <2>2, <2>3 DEF ReadsIInv, SentSoFar, AsStored, InChunks, Unasked, Misread
  <2>5. QED BY <2>2, <2>4 DEF ReadsIInv
<1>9. CASE at # ChunkCount(n) /\ reading' # "error"
  <2>1. /\ sent' = sent \o Plain(at * Chunk, at * Chunk + here)
        /\ at' = at + 1 /\ take' = take - here /\ reading' = reading
    BY <1>9 DEF NextChunk, here
  <2>2. at * Chunk < n /\ at + 1 <= ChunkCount(n) /\ Len(sent) = at * Chunk
    BY <1>2, <1>3, <1>4, <1>5, <1>9
  <2>3. here \in Nat /\ here <= take /\ take' \in Nat /\ at' \in Nat /\ at * Chunk + here <= n
    BY <1>2, <1>3, <1>4, <1>6, <2>1, <2>2
  <2>4. /\ ReadsTypeOK' /\ Asking' /\ source' = source /\ answer' = answer
        /\ SpanLen' = SpanLen /\ (Full' <=> Full) /\ (Sealed' <=> Sealed)
    BY <1>1, <1>2, <2>1, <2>3, SameRequest
  <2> DEFINE from == at * Chunk
             to == at * Chunk + here
  <2>5. /\ from \in Nat /\ to \in Nat /\ from <= to /\ to <= answer.end + 1
        /\ from = answer.start + Len(sent) /\ to - from = here
    BY <1>2, <1>4, <2>2, <2>3
  <2>6. sent' = sent \o Plain(from, to)
    BY <2>1
  <2> HIDE DEF from, to
  <2>7. SentSoFar' /\ Len(sent') = Len(sent) + (to - from) /\ Len(sent) \in Nat
    BY <1>1, <1>3, <2>4, <2>5, <2>6, SpanGrows
  <2>8. Len(sent') = at * Chunk + here /\ take' + Len(sent') = n
    <3>1. Len(sent') = Len(sent) + here
      BY <2>5, <2>7
    <3>2. take + Len(sent) = n
      BY <1>3
    <3>3. take' = take - here
      BY <2>1
    <3>4. QED BY <1>2, <2>2, <2>3, <2>7, <3>1, <3>2, <3>3
  <2>9. Len(sent') = Min({at' * Chunk, n})
    <3>1. at' * Chunk = at * Chunk + Chunk
      BY <1>4, <2>1
    <3>2. Min({at' * Chunk, n}) = (IF at' * Chunk <= n THEN at' * Chunk ELSE n)
      BY <1>2, <1>4, <3>1, LessOfTwo
    <3>3. take = n - at * Chunk
      BY <1>2, <1>3, <1>4, <2>2
    <3>4. QED BY <1>2, <1>4, <1>6, <2>8, <3>1, <3>2, <3>3
  <2>10. AsStored' /\ InChunks'
    BY <1>1, <1>2, <1>3, <2>1, <2>2, <2>4, <2>8, <2>9 DEF AsStored, InChunks, Unasked
  <2>11. QED BY <2>4, <2>7, <2>10 DEF ReadsIInv
<1>10. QED BY <1>7, <1>8, <1>9

\* The next chunk of a span.
LEMMA SpanStep ==
  ASSUME ReadsIInv, NextSpan
  PROVE  ReadsIInv'
<1> DEFINE from == at * Chunk + skip
           to == Min({from + take, ChunkEnd(at)})
           n == source.n
<1>1. reading = "chunks" /\ ~Full /\ reading \notin Unasked /\ UNCHANGED <<request, probe>>
  BY DEF NextSpan, Unasked
<1>2. /\ at \in Nat /\ skip \in Nat /\ take \in Nat /\ n \in Nat /\ Chunk \in Nat
      /\ answer.start \in Nat /\ answer.end \in Nat /\ answer.end < n
      /\ answer.start + SpanLen = answer.end + 1 /\ SpanLen \in Nat
  BY <1>1, Answered, ReadsAssumption DEF ReadsIInv, ReadsTypeOK
<1>3. /\ source.format = "v2" /\ probe = "v2" /\ take + Len(sent) = SpanLen /\ take > 0
      /\ skip < Chunk /\ at * Chunk + skip = answer.start + Len(sent) /\ Sealed /\ ~Misread
  BY <1>1 DEF ReadsIInv, InChunks, Sealed, Misread
<1>4. Len(sent) \in Nat
  BY <1>2, <1>3 DEF ReadsIInv, SentSoFar
<1>5. at * Chunk \in Nat /\ (at + 1) * Chunk = at * Chunk + Chunk
  BY <1>2, ChunksCover
<1>6. from \in Nat /\ from + take = answer.end + 1 /\ from <= answer.end
  <2>1. from \in Nat /\ from = answer.start + Len(sent)
    BY <1>2, <1>3, <1>5
  <2>2. take + Len(sent) = SpanLen /\ take > 0
    BY <1>3
  <2> HIDE DEF from
  <2>3. QED BY <1>2, <1>4, <2>1, <2>2
<1>7. at <= LastChunk
  <2>1. /\ LastChunk \in Nat /\ answer.end % Chunk \in Nat /\ answer.end % Chunk < Chunk
        /\ answer.end = LastChunk * Chunk + (answer.end % Chunk)
    BY <1>2, ChunkOf DEF LastChunk
  <2>2. at > LastChunk => at * Chunk >= (LastChunk + 1) * Chunk
    BY <1>2, <2>1
  <2>3. (LastChunk + 1) * Chunk = LastChunk * Chunk + Chunk /\ LastChunk * Chunk \in Nat
    BY <2>1, ChunksCover
  <2>4. QED BY <1>2, <1>5, <1>6, <2>1, <2>2, <2>3
<1>8. ChunkEnd(at) = (IF at * Chunk + Chunk <= n THEN at * Chunk + Chunk ELSE n)
  BY <1>2, <1>5, LessOfTwo DEF ChunkEnd
<1>9. to = (IF from + take <= ChunkEnd(at) THEN from + take ELSE ChunkEnd(at))
  BY <1>2, <1>5, <1>6, <1>8, LessOfTwo
<1>10. CASE reading' = "error"
  <2>1. UNCHANGED <<at, skip, take, sent>>
    BY <1>1, <1>7, <1>10 DEF NextSpan
  <2>2. QED BY <1>1, <1>2, <1>10, <2>1, BreaksOff
<1>11. CASE reading' # "error"
  <2>1. ~(at > LastChunk)
    BY <1>2, <1>7, ChunkOf DEF LastChunk
  <2>2. /\ sent' = sent \o Plain(from, to)
        /\ at' = at + 1 /\ take' = take - (to - from) /\ skip' = 0
        /\ reading' = IF take' = 0 THEN "end" ELSE "chunks"
    BY <1>11, <2>1 DEF NextSpan
  <2> HIDE DEF from, to
  <2>3. from < at * Chunk + Chunk
    BY <1>2, <1>3, <1>5 DEF from
  <2>4. /\ to \in Nat /\ from <= to /\ to <= answer.end + 1 /\ to - from <= take
        /\ to = from + take \/ to = at * Chunk + Chunk
    BY <1>2, <1>5, <1>6, <1>8, <1>9, <2>3
  <2>5. take' \in Nat /\ at' \in Nat /\ skip' \in Nat /\ reading' \in {"end", "chunks"}
    BY <1>2, <1>6, <2>2, <2>4
  <2>6. /\ ReadsTypeOK' /\ Asking' /\ source' = source /\ answer' = answer
        /\ SpanLen' = SpanLen /\ (Full' <=> Full) /\ (Sealed' <=> Sealed)
    BY <1>1, <2>5, SameRequest
  <2>7. from = answer.start + Len(sent)
    BY <1>3 DEF from
  <2>8. SentSoFar' /\ Len(sent') = Len(sent) + (to - from)
    BY <1>1, <1>3, <1>6, <2>2, <2>4, <2>6, <2>7, SpanGrows
  <2>9. take' + Len(sent') = SpanLen /\ Len(sent') \in Nat
    <3>1. take + Len(sent) = SpanLen
      BY <1>3
    <3>2. Len(sent') \in Nat
      BY <1>4, <1>6, <2>4, <2>8
    <3>3. take' = take - (to - from)
      BY <2>2
    <3>4. QED BY <1>2, <1>4, <1>6, <2>4, <2>8, <3>1, <3>2, <3>3
  <2>10. reading' = "end" => Len(sent') = SpanLen
    BY <1>2, <2>2, <2>9
  <2>11. reading' = "chunks" => take' > 0 /\ at' * Chunk + skip' = answer.start + Len(sent')
    <3>1. take' = 0 <=> to = from + take
      BY <1>2, <1>6, <2>2, <2>4
    <3>2. at' * Chunk = at * Chunk + Chunk
      BY <1>5, <2>2
    <3>3. answer.start + Len(sent') = to
      <4>1. Len(sent') = Len(sent) + (to - from)
        BY <2>8
      <4>2. answer.start \in Nat /\ from \in Nat /\ to \in Nat
        BY <1>2, <1>6, <2>4
      <4>3. QED BY <1>4, <2>7, <4>1, <4>2
    <3>4. QED BY <1>2, <1>5, <2>2, <2>4, <2>5, <3>1, <3>2, <3>3
  <2>12. skip' < Chunk
    BY <1>2, <1>3, <2>2
  <2>13. AsStored' /\ InChunks'
    BY <1>1, <1>3, <2>5, <2>6, <2>9, <2>10, <2>11, <2>12 DEF AsStored, InChunks, Unasked
  <2>14. QED BY <2>6, <2>8, <2>13 DEF ReadsIInv
<1>12. QED BY <1>10, <1>11

\* Every step keeps the invariant.
LEMMA ReadsStep ==
  ASSUME ReadsIInv, [ReadsNext]_readvars
  PROVE  ReadsIInv'
<1>1. CASE UNCHANGED readvars
  BY <1>1 DEF readvars, ReadsIInv, ReadsTypeOK, Asking, SentSoFar, AsStored, InChunks, Misread,
              Sealed, Full, SpanLen
<1>2. CASE reading = "idle" /\ \E o \in Objects, k \in BOOLEAN, r \in Ranges : raw(o, k, r)
  BY <1>2, RequestStep
<1>3. CASE \E len \in 1..Chunk : StreamPiece(len) \/ SpanPiece(len)
  BY <1>3, FullPiece, CutPiece
<1>4. QED BY <1>1, <1>2, <1>3, ProbeStep, AtOnce, OverStep, HeaderStep, ChunkStep, SpanStep
             DEF ReadsNext

-----------------------------------------------------------------------------
(***************************************************************************)
(* ObjectReads: what follows.                                              *)
(***************************************************************************)
\* The invariant of ObjectReads.
THEOREM ReadsInductive == ReadsSpec => []ReadsIInv
BY ReadsInitial, ReadsStep, PTL DEF ReadsSpec

\* The request, the way it is read and the places in the object keep their types.
THEOREM ReadsTyped == ReadsSpec => []ReadsTypeOK
<1>1. ReadsIInv => ReadsTypeOK
  BY DEF ReadsIInv
<1>2. QED BY <1>1, ReadsInductive, PTL

\* The bytes before one of a span.
LEMMA BytesBefore ==
  ASSUME NEW a \in Nat, NEW b \in Nat, NEW i \in 1..b
  PROVE  Cardinality({p \in (a + 1)..(a + b) : p < a + i}) = i - 1
<1>1. {p \in (a + 1)..(a + b) : p < a + i} = (a + 1)..(a + i - 1)
  OBVIOUS
<1>2. Cardinality((a + 1)..(a + i - 1)) = i - 1
  <2>1. a + 1 \in Int /\ a + i - 1 \in Int /\ a + i - 1 >= a
    OBVIOUS
  <2>2. CASE i = 1
    <3>1. (a + 1)..(a + i - 1) = {}
      BY <2>2
    <3>2. QED BY <2>2, <3>1, FS_EmptySet
  <2>3. CASE i > 1
    BY <2>1, <2>3, FS_Interval
  <2>4. QED BY <2>2, <2>3
<1>3. QED BY <1>1, <1>2

\* What is sent is the plaintext asked for, from its first byte on and in its order,
\* whatever the size of object, chunks and pieces and whatever the object lacks.
THEOREM SendsInOrder == ReadsSpec => []SentPrefix
<1>1. ReadsIInv => SentPrefix
  <2> SUFFICES ASSUME ReadsIInv, ~Misread, NEW i \in DOMAIN sent
               PROVE  /\ sent[i] \in Wanted
                      /\ Cardinality({p \in Wanted : p < sent[i]}) = i - 1
    BY DEF SentPrefix
  <2> DEFINE m == Len(sent)
  <2>1. sent = Plain(answer.start, answer.start + m) /\ m \in 0..SpanLen
    BY DEF ReadsIInv, SentSoFar
  <2>2. reading \notin Unasked
    BY DEF ReadsIInv, AsStored, Unasked
  <2>3. /\ answer.start \in Nat /\ SpanLen \in Nat
        /\ Wanted = (answer.start + 1)..(answer.start + SpanLen)
    BY <2>2, Answered
  <2> HIDE DEF m
  <2>4. m \in Nat /\ answer.start <= answer.start + m
    BY <2>1, <2>3
  <2>5. i \in 1..m /\ sent[i] = answer.start + i
    BY <2>1, <2>3, <2>4 DEF Plain
  <2>6. i \in 1..SpanLen
    BY <2>1, <2>3, <2>5
  <2>7. Cardinality({p \in (answer.start + 1)..(answer.start + SpanLen) : p < answer.start + i})
          = i - 1
    BY <2>3, <2>6, BytesBefore
  <2>8. sent[i] \in Wanted
    BY <2>3, <2>5, <2>6
  <2>9. {p \in Wanted : p < sent[i]}
          = {p \in (answer.start + 1)..(answer.start + SpanLen) : p < answer.start + i}
    BY <2>3, <2>5
  <2>10. QED BY <2>7, <2>8, <2>9
<1>2. QED BY <1>1, ReadsInductive, PTL

\* A download that ends without an error is the whole span, and only a span without a
\* byte in the file is unsatisfiable.
THEOREM EndsAreWhole == ReadsSpec => []EndsWhole
<1>1. ReadsIInv => EndsWhole
  <2> SUFFICES ASSUME ReadsIInv PROVE EndsWhole
    OBVIOUS
  <2>1. reading = "end" => Misread \/ Len(sent) = Cardinality(Wanted) \/ (~Sealed /\ Full)
    <3> SUFFICES ASSUME reading = "end", ~Misread, ~(~Sealed /\ Full)
                 PROVE  Len(sent) = Cardinality(Wanted)
      OBVIOUS
    <3>1. /\ answer.start \in Nat /\ SpanLen \in Nat \ {0}
          /\ Wanted = (answer.start + 1)..(answer.start + SpanLen)
      BY Answered DEF Unasked
    <3>2. Cardinality(Wanted) = SpanLen
      BY <3>1, FS_Interval
    <3>3. QED BY <3>2 DEF ReadsIInv, AsStored
  <2>2. reading = "unsatisfiable" => answer.kind # "invalid" /\ Wanted = {}
    <3> SUFFICES ASSUME reading = "unsatisfiable" PROVE answer.kind # "invalid" /\ Wanted = {}
      OBVIOUS
    <3>1. /\ answer.kind = "unsatisfiable" /\ asked \in Ranges /\ source \in Objects
          /\ answer = parse(asked, source.n)
      BY DEF ReadsIInv, Asking, Unasked
    <3>2. source.n \in Nat \ {0}
      BY <3>1, ReadsAssumption DEF Objects
    <3>3. QED BY <3>1, <3>2, Parsed
  <2>3. reading # "idle" /\ answer.kind # "invalid" /\ Wanted = {} => reading = "unsatisfiable"
    <3> SUFFICES ASSUME reading # "idle", answer.kind # "invalid", Wanted = {},
                        reading # "unsatisfiable"
                 PROVE  FALSE
      OBVIOUS
    <3>1. reading \notin Unasked
      BY DEF ReadsIInv, Asking, Unasked
    <3>2. /\ Wanted = (answer.start + 1)..(answer.end + 1) /\ answer.start <= answer.end
          /\ answer.start \in Nat /\ answer.end \in Nat
      BY <3>1, Answered
    <3>3. answer.start + 1 \in Wanted
      BY <3>2
    <3>4. QED BY <3>3
  <2>4. QED BY <2>1, <2>2, <2>3 DEF EndsWhole
<1>2. QED BY <1>1, ReadsInductive, PTL
=============================================================================
