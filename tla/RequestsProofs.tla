--------------------------- MODULE RequestsProofs ---------------------------
(***************************************************************************)
(* Proofs about MCRequests, for every value of the constants: a behaviour  *)
(* of the eleven parts side by side is a behaviour of each of them, since  *)
(* no part has a variable of another.  So whatever is proved of a part     *)
(* holds in MCRequests, and what TLC checks there is about the             *)
(* specifications that the other theorems name.                            *)
(***************************************************************************)
EXTENDS MCRequests, ContentsProofs, PolicyProofs, TransfersProofs

-----------------------------------------------------------------------------
\* A step is one of a part at most, and leaves the variables of the others alone.
LEMMA StepOfParts ==
  ASSUME [Next]_vars
  PROVE  /\ [ResetNext]_resetvars /\ [RolesNext]_rolevars
         /\ [PubNext]_pubvars /\ [ColNext]_colvars /\ [FeedNext]_feedvars
         /\ [WritesNext]_writevars /\ [ReadsNext]_readvars /\ [ThumbNext]_thumbvars
         /\ [ConfigNext]_configvars /\ [QuotaNext]_quotavars /\ [LifeNext]_lifevars
<1>1. CASE AccountsNext
  BY <1>1 DEF AccountsNext, contents, storage, policy
<1>2. CASE ContentsNext
  BY <1>2 DEF ContentsNext, accounts, storage, policy
<1>3. CASE StorageNext
  BY <1>3 DEF StorageNext, accounts, contents, policy
<1>4. CASE PolicyNext
  BY <1>4 DEF PolicyNext, accounts, contents, storage
<1>5. CASE UNCHANGED vars
  BY <1>5 DEF vars
<1>6. QED BY <1>1, <1>2, <1>3, <1>4, <1>5 DEF Next

\* Side by side, each part does what its own specification allows, and nothing else.
THEOREM PartsBehave ==
  Spec => /\ ResetSpec /\ RolesSpec /\ PubSpec /\ ColSpec /\ FeedSpec
          /\ WritesSpec /\ ReadsSpec /\ ThumbSpec /\ ConfigSpec /\ QuotaSpec /\ LifeSpec
<1>1. Init => /\ ResetInit /\ RolesInit /\ PubInit /\ ColInit /\ FeedInit
              /\ WritesInit /\ ReadsInit /\ ThumbInit /\ ConfigInit /\ QuotaInit /\ LifeInit
  BY DEF Init
<1>2. [Next]_vars =>
        /\ [ResetNext]_resetvars /\ [RolesNext]_rolevars
        /\ [PubNext]_pubvars /\ [ColNext]_colvars /\ [FeedNext]_feedvars
        /\ [WritesNext]_writevars /\ [ReadsNext]_readvars /\ [ThumbNext]_thumbvars
        /\ [ConfigNext]_configvars /\ [QuotaNext]_quotavars /\ [LifeNext]_lifevars
  BY StepOfParts
<1>3. QED
  BY <1>1, <1>2, PTL DEF Spec, ResetSpec, RolesSpec, PubSpec, ColSpec, FeedSpec, WritesSpec,
                         ReadsSpec, ThumbSpec, ConfigSpec, QuotaSpec, LifeSpec

\* Tables, channels and locals keep their types in every part: no size is negative, no
\* channel holds more than it has room for, no row refers to one that is not there.
THEOREM PartsTyped == Spec => []TypeOK
<1>1. /\ Spec => []ResetTypeOK /\ []RolesTypeOK
      /\ Spec => []PubTypeOK /\ []FeedTypeOK
      /\ Spec => []WritesTypeOK /\ []ReadsTypeOK /\ []ThumbsTypeOK
      /\ Spec => []ConfigTypeOK /\ []QuotasTypeOK /\ []LifetimesTypeOK
  BY PartsBehave, ResetTyped, RolesTypeCorrect, PubTypeCorrect, FeedTyped, WritesTyped,
     ReadsTyped, ThumbsTyped, ConfigTypeCorrect, QuotasTyped, LifetimesTyped, PTL
<1>2. Spec => []ColTypeOK
  BY PartsBehave, ColTyped, PTL
<1>3. ResetTypeOK /\ RolesTypeOK /\ PubTypeOK /\ ColTypeOK /\ FeedTypeOK /\ WritesTypeOK
        /\ ReadsTypeOK /\ ConfigTypeOK /\ QuotasTypeOK /\ LifetimesTypeOK /\ ThumbsTypeOK
      => TypeOK
  BY DEF TypeOK
<1>4. QED BY <1>1, <1>2, <1>3, PTL

\* Every safety property that is checked on the parts side by side holds for every value of
\* the constants.
THEOREM PartsKeepTheirPromises ==
  Spec => /\ []BurnOnce /\ []CommentsKeepTheirSubject /\ []LockedForStrangers
          /\ []PositionsDistinct /\ []FeedComplete
          /\ []StoredWhole /\ []PartsEndFirst /\ []SomebodyGoesOn
          /\ []SentPrefix /\ []EndsWhole /\ []ThumbnailOnce
          /\ []ConfigValid /\ []LifetimeInLimits
          /\ KeepsCores /\ AppendsLast /\ KeepsList /\ StepsRunOut
          /\ ResetSupersedes /\ RolesSticky /\ QuotaKept
<1>1. Spec => /\ []BurnOnce /\ []CommentsKeepTheirSubject /\ []LockedForStrangers /\ KeepsCores
              /\ []PositionsDistinct /\ AppendsLast /\ KeepsList /\ []FeedComplete
  BY PartsBehave, BurnsOnce, CommentsStay, PasswordsAsked, PastesImplementVault,
     PositionsStayDistinct, AdditionsAppend, ImplementsList, NothingSkipped, PTL
<1>2. Spec => /\ []StoredWhole /\ []PartsEndFirst /\ []SomebodyGoesOn /\ StepsRunOut
              /\ []SentPrefix /\ []EndsWhole /\ []ThumbnailOnce
  BY PartsBehave, FilesStoredWhole, PartsEndInTime, NobodyDeadlocks, StepsAreFew, SendsInOrder,
     EndsAreWhole, ThumbnailsOnce, PTL
<1>3. Spec => /\ []ConfigValid /\ []LifetimeInLimits /\ QuotaKept
              /\ ResetSupersedes /\ RolesSticky
  BY PartsBehave, ConfigStaysValid, LifetimesInLimits, QuotasKept, LinksSuperseded,
     AssignmentsStick, PTL
<1>4. QED BY <1>1, <1>2, <1>3, PTL
=============================================================================
