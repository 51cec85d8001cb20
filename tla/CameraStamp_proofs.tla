-------------------------- MODULE CameraStamp_proofs --------------------------
(***************************************************************************)
(* Proofs about CameraStamp for every number of clouds, frames and         *)
(* restarts: its types, which cloud's time an image may carry, and that    *)
(* total_drops_ never falls short of the frames the sink has lost.         *)
(***************************************************************************)
EXTENDS CameraStamp, TLAPS

(***************************************************************************)
(* The inductive invariant.  What the shared file holds follows from where *)
(* the lidar driver is in publishing; and every frame counted by the probe *)
(* was pulled, lost in the sink, or is in the sink or the converter.       *)
(***************************************************************************)
FileFollowsLidar ==
  /\ file = "none" => lidar = "down" /\ low = Unset /\ cloud = first
  /\ lidar = "down" /\ low = Unset => cloud - first <= 1
  /\ lidar = "opening" => low = Unset /\ cloud = first
  /\ lidar = "mapped" => low = IF cloud = first THEN Unset ELSE cloud
  /\ lidar = "published" => /\ cloud > first
                            /\ low = IF cloud - 1 = first THEN Unset ELSE cloud - 1

One(b) == IF b THEN 1 ELSE 0

FramesAccounted ==
  push.count = pulled + overwritten + One(sink) + One(push.converting)

\* total_drops_ leaves out at most one frame for every frame pulled.
DropsKeepUp ==
  /\ lastSeen <= push.count /\ drops <= lastSeen
  /\ drops + pulled >= lastSeen + One(camera.at = "count")

StampInv == TypeOK /\ FileFollowsLidar /\ FramesAccounted /\ DropsKeepUp

USE StampAssumption

LEMMA InitStampInv == Init => StampInv
<1> SUFFICES ASSUME Init PROVE StampInv
  OBVIOUS
<1>1. FileFollowsLidar /\ FramesAccounted /\ DropsKeepUp
  BY DEF Init, FileFollowsLidar, FramesAccounted, DropsKeepUp, One, Unset, Stale
<1>2. camera \in [at : {"grab", "count", "publish", "down"}, stamp : {Host} \cup 0..cloud]
  BY DEF Init
<1>3. push \in [count : 0..MaxPushes, converting : BOOLEAN]
  <2>1. push = [count |-> 0, converting |-> FALSE] /\ 0 \in 0..MaxPushes
    BY DEF Init
  <2> QED BY <2>1
<1>3a. starts \in [lidar : 0..MaxStarts, camera : 0..MaxStarts]
  <2>1. starts = [lidar |-> 0, camera |-> 0] /\ 0 \in 0..MaxStarts
    BY DEF Init
  <2> QED BY <2>1
<1>4. /\ file \in {"none", "empty", "full"} /\ low \in {Unset} \cup 0..cloud
      /\ lidar \in {"down", "opening", "mapped", "published"}
      /\ cloud \in 0..MaxClouds /\ first \in 0..cloud
  BY DEF Init, Unset, Stale
<1>5. {pulled, lastSeen, drops, overwritten} \subseteq 0..MaxPushes
  BY DEF Init
<1>6. opened \in BOOLEAN /\ sink \in BOOLEAN
  BY DEF Init
<1>7. TypeOK
  BY <1>2, <1>3, <1>3a, <1>4, <1>5, <1>6 DEF TypeOK
<1> QED
  BY <1>1, <1>7 DEF StampInv

\* The lidar driver's steps change the file and the clouds only.
LidarStep ==
  OpenShared \/ MapShared \/ PublishCloud \/ WriteSharedStamp \/ LidarEnds

LEMMA LidarKeepsFile ==
  ASSUME StampInv, LidarStep
  PROVE  FileFollowsLidar'
<1> USE DEF StampInv, TypeOK, FileFollowsLidar, Unset
<1>1. CASE OpenShared
  BY <1>1 DEF OpenShared
<1>2. CASE MapShared
  BY <1>2 DEF MapShared
<1>3. CASE PublishCloud
  BY <1>3 DEF PublishCloud
<1>4. CASE WriteSharedStamp
  BY <1>4 DEF WriteSharedStamp
<1>5. CASE LidarEnds
  BY <1>5 DEF LidarEnds
<1> QED
  BY <1>1, <1>2, <1>3, <1>4, <1>5 DEF LidarStep

LEMMA LidarKeepsTypes ==
  ASSUME StampInv, LidarStep
  PROVE  TypeOK'
<1>1. /\ file' \in {"none", "empty", "full"}
      /\ lidar' \in {"down", "opening", "mapped", "published"}
      /\ cloud' \in 0..MaxClouds /\ first' \in 0..cloud'
      /\ low' \in {Unset} \cup 0..cloud'
  BY DEF StampInv, TypeOK, LidarStep, OpenShared, MapShared, PublishCloud,
         WriteSharedStamp, LidarEnds, Unset
<1>2. cloud' >= cloud /\ UNCHANGED <<camera, opened, countVars, frameVars>>
  BY DEF StampInv, TypeOK, LidarStep, OpenShared, MapShared, PublishCloud,
         WriteSharedStamp, LidarEnds, frameVars
<1>3. camera' \in [at : {"grab", "count", "publish", "down"}, stamp : {Host} \cup 0..cloud']
  BY <1>1, <1>2 DEF StampInv, TypeOK, Host
<1>4. starts' \in [lidar : 0..MaxStarts, camera : 0..MaxStarts]
  BY DEF StampInv, TypeOK, LidarStep, OpenShared, MapShared, PublishCloud,
         WriteSharedStamp, LidarEnds
<1> QED
  BY <1>1, <1>2, <1>3, <1>4 DEF StampInv, TypeOK, countVars, frameVars

LEMMA LidarKeepsCounts ==
  ASSUME StampInv, LidarStep
  PROVE  FramesAccounted' /\ DropsKeepUp'
<1>1. UNCHANGED <<camera, countVars, frameVars>>
  BY DEF LidarStep, OpenShared, MapShared, PublishCloud, WriteSharedStamp, LidarEnds
<1> QED
  BY <1>1 DEF StampInv, FramesAccounted, DropsKeepUp, countVars, frameVars

-----------------------------------------------------------------------------
\* The camera process's steps change nothing of the lidar driver's.
CameraStep ==
  \/ PushFrame \/ FrameArrives \/ Grab \/ CountDrops \/ Publish
  \/ CameraEnds \/ CameraStarts

LEMMA CameraKeepsFile ==
  ASSUME StampInv, CameraStep
  PROVE  FileFollowsLidar'
<1>1. UNCHANGED <<file, low, lidar, cloud, first>>
  BY DEF CameraStep, PushFrame, FrameArrives, Grab, CountDrops, Publish,
         CameraEnds, CameraStarts, lidarVars
<1> QED
  BY <1>1 DEF StampInv, FileFollowsLidar

LEMMA CameraKeepsCounts ==
  ASSUME StampInv, CameraStep
  PROVE  FramesAccounted' /\ DropsKeepUp'
<1> USE DEF StampInv, TypeOK, FramesAccounted, DropsKeepUp, One
<1>1. CASE PushFrame
  BY <1>1 DEF PushFrame, countVars
<1>2. CASE FrameArrives
  BY <1>2 DEF FrameArrives, countVars
<1>3. CASE Grab
  BY <1>3 DEF Grab
<1>4. CASE CountDrops
  BY <1>4 DEF CountDrops, frameVars
<1>5. CASE Publish
  BY <1>5 DEF Publish, frameVars, countVars
<1>6. CASE CameraEnds
  BY <1>6 DEF CameraEnds, frameVars, countVars
<1>7. CASE CameraStarts
  BY <1>7 DEF CameraStarts
<1> QED
  BY <1>1, <1>2, <1>3, <1>4, <1>5, <1>6, <1>7 DEF CameraStep

LEMMA CameraKeepsTypes ==
  ASSUME StampInv, CameraStep
  PROVE  TypeOK'
<1>1. UNCHANGED <<file, low, lidar, cloud, first>>
  BY DEF CameraStep, PushFrame, FrameArrives, Grab, CountDrops, Publish,
         CameraEnds, CameraStarts, lidarVars
<1>2. camera' \in [at : {"grab", "count", "publish", "down"}, stamp : {Host} \cup 0..cloud]
  BY DEF StampInv, TypeOK, CameraStep, PushFrame, FrameArrives, Grab, CountDrops,
         Publish, CameraEnds, CameraStarts, Host, Unset
<1>3. opened' \in BOOLEAN
  <2>1. CASE Publish
    <3>1. opened' = (opened \/ MayOpen)
      BY <2>1 DEF Publish
    <3> QED BY <3>1
  <2>2. CASE ~Publish
    BY <2>2 DEF StampInv, TypeOK, CameraStep, PushFrame, FrameArrives, Grab, CountDrops,
                CameraEnds, CameraStarts
  <2> QED BY <2>1, <2>2
<1>4. push' \in [count : 0..MaxPushes, converting : BOOLEAN] /\ sink' \in BOOLEAN
  <2> USE DEF StampInv, TypeOK
  <2>1. CASE PushFrame
    <3>1. push.count + 1 \in 0..MaxPushes
      BY <2>1 DEF PushFrame
    <3>2. push' = [count |-> push.count + 1, converting |-> TRUE] /\ sink' = sink
      BY <2>1 DEF PushFrame
    <3> QED BY <3>1, <3>2
  <2>2. CASE FrameArrives
    <3>1. push' = [push EXCEPT !.converting = FALSE] /\ sink' = TRUE
      BY <2>2 DEF FrameArrives
    <3> QED BY <3>1
  <2>3. CASE CameraStarts
    <3>1. push' = [count |-> 0, converting |-> FALSE] /\ sink' = FALSE
      BY <2>3 DEF CameraStarts
    <3>2. push' \in [count : 0..MaxPushes, converting : BOOLEAN]
      <4>1. 0 \in 0..MaxPushes
        OBVIOUS
      <4> QED BY <3>1, <4>1
    <3>3. sink' \in BOOLEAN
      BY <3>1, Zenon
    <3> QED BY <3>2, <3>3
  <2>4. CASE Grab \/ CountDrops \/ Publish \/ CameraEnds
    <3>1. push' = push /\ (sink' = sink \/ sink' = FALSE)
      BY <2>4 DEF Grab, CountDrops, Publish, CameraEnds, frameVars
    <3>2. sink' \in BOOLEAN
      BY <3>1
    <3>3. push' \in [count : 0..MaxPushes, converting : BOOLEAN]
      BY <3>1
    <3> QED BY <3>2, <3>3
  <2> QED BY <2>1, <2>2, <2>3, <2>4 DEF CameraStep
<1>5. pulled' \in Nat /\ lastSeen' \in Nat /\ drops' \in Nat /\ overwritten' \in Nat
  BY DEF StampInv, TypeOK, CameraStep, PushFrame, FrameArrives, Grab, CountDrops,
         Publish, CameraEnds, CameraStarts, frameVars, countVars
<1>6. {pulled', lastSeen', drops', overwritten'} \subseteq 0..MaxPushes
  BY <1>4, <1>5, CameraKeepsCounts DEF FramesAccounted, DropsKeepUp, One
<1>7. starts' \in [lidar : 0..MaxStarts, camera : 0..MaxStarts]
  BY DEF StampInv, TypeOK, CameraStep, PushFrame, FrameArrives, Grab, CountDrops,
         Publish, CameraEnds, CameraStarts
<1> QED
  BY <1>1, <1>2, <1>3, <1>4, <1>6, <1>7 DEF StampInv, TypeOK

-----------------------------------------------------------------------------
LEMMA StampStutter ==
  ASSUME StampInv, UNCHANGED vars
  PROVE  StampInv'
BY DEF StampInv, TypeOK, FileFollowsLidar, FramesAccounted, DropsKeepUp,
       vars, lidarVars, countVars, frameVars

LEMMA StampInvariance == Spec => []StampInv
<1>1. StampInv /\ [Next]_vars => StampInv'
  BY LidarKeepsFile, LidarKeepsTypes, LidarKeepsCounts, CameraKeepsFile,
     CameraKeepsTypes, CameraKeepsCounts, StampStutter
  DEF Next, LidarStep, CameraStep, StampInv
<1> QED
  BY InitStampInv, <1>1, PTL DEF Spec

\* The state of the two drivers keeps its types, across their restarts.
THEOREM StampTypes == Spec => []TypeOK
<1>1. StampInv => TypeOK
  BY DEF StampInv
<1> QED
  BY StampInvariance, <1>1, PTL

\* An image is published by publish() alone, with the stamp it has read.
LEMMA PublishedStamp ==
  ASSUME StampInv, [Next]_vars, Published
  PROVE  \/ low # Unset /\ camera'.stamp = low
         \/ (file = "none" \/ low = Unset) /\ camera'.stamp = Host
<1>1. camera.at = "publish" /\ camera'.at = "grab" /\ camera' # camera
  BY DEF Published
<1>2. ~LidarStep /\ ~PushFrame /\ ~FrameArrives
  BY <1>1 DEF LidarStep, OpenShared, MapShared, PublishCloud, WriteSharedStamp,
              LidarEnds, PushFrame, FrameArrives
<1>3. ~Grab /\ ~CountDrops /\ ~CameraStarts
  BY <1>1 DEF Grab, CountDrops, CameraStarts
<1>4. ~CameraEnds
  BY <1>1 DEF CameraEnds, StampInv, TypeOK
<1>5. ~UNCHANGED vars
  BY <1>1 DEF vars
<1>6. Publish
  BY <1>2, <1>3, <1>4, <1>5 DEF Next, LidarStep
<1>7. camera' = [at |-> "grab", stamp |-> IF opened' /\ low # Unset THEN low ELSE Host]
  BY <1>1, <1>6 DEF Publish, StampInv, TypeOK
<1>8. camera'.stamp = IF opened' /\ low # Unset THEN low ELSE Host
  BY <1>7
<1>9. ~opened' => file = "none"
  BY <1>6 DEF Publish, MayOpen
<1> QED
  BY <1>8, <1>9

\* Once the lidar driver has opened the file, no image carries the time of a
\* cloud of an earlier process of it.
THEOREM StampsOfThisSession == Spec => SessionStamps
<1>1. ASSUME StampInv, [Next]_vars, Published,
             lidar \in {"opening", "mapped", "published"}, camera'.stamp # Host
      PROVE  /\ camera'.stamp > first
             /\ camera'.stamp = cloud \/ (lidar = "published" /\ camera'.stamp = cloud - 1)
  <2>1. low # Unset /\ camera'.stamp = low
    BY <1>1, PublishedStamp
  <2> QED
    BY <1>1, <2>1 DEF StampInv, TypeOK, FileFollowsLidar
<1>2. StampInv /\ [Next]_vars =>
        [Published /\ lidar \in {"opening", "mapped", "published"} /\ camera'.stamp # Host
           => /\ camera'.stamp > first
              /\ camera'.stamp = cloud
                   \/ (lidar = "published" /\ camera'.stamp = cloud - 1)]_vars
  BY <1>1
<1> QED
  BY StampInvariance, <1>2, PTL DEF Spec, SessionStamps

\* The host's clock stamps an image only before the first stamp of the lidar
\* driver that last opened the file.
THEOREM HostClockOnlyAtStart == Spec => HostClockOnlyBefore
<1>1. ASSUME StampInv, [Next]_vars, Published, camera'.stamp = Host
      PROVE  file = "none" \/ cloud - first <= IF lidar = "mapped" THEN 0 ELSE 1
  <2>1. file = "none" \/ low = Unset
    BY <1>1, PublishedStamp DEF StampInv, TypeOK, Host, Unset
  <2> QED
    BY <1>1, <2>1 DEF StampInv, TypeOK, FileFollowsLidar, Unset
<1>2. StampInv /\ [Next]_vars =>
        [Published /\ camera'.stamp = Host
           => file = "none" \/ cloud - first <= IF lidar = "mapped" THEN 0 ELSE 1]_vars
  BY <1>1
<1> QED
  BY StampInvariance, <1>2, PTL DEF Spec, HostClockOnlyBefore

\* Every frame the sink has lost when the drops are counted is in the count.
THEOREM EveryDropCounted == Spec => DropsCounted
<1>1. ASSUME StampInv, [Next]_vars, camera.at = "count", camera'.at = "publish"
      PROVE  overwritten <= drops'
  <2>1. CountDrops
    BY <1>1 DEF Next, OpenShared, MapShared, PublishCloud, WriteSharedStamp,
         LidarEnds, PushFrame, FrameArrives, Grab, Publish, CameraEnds,
         CameraStarts, vars, StampInv, TypeOK
  <2>2. push.count - pulled >= overwritten
    BY <1>1 DEF StampInv, TypeOK, FramesAccounted, One
  <2>3. drops + pulled >= lastSeen + 1
    BY <1>1 DEF StampInv, DropsKeepUp, One
  <2> QED
    BY <1>1, <2>1, <2>2, <2>3 DEF CountDrops, StampInv, TypeOK
<1>2. StampInv /\ [Next]_vars =>
        [camera.at = "count" /\ camera'.at = "publish" => overwritten <= drops']_vars
  BY <1>1
<1> QED
  BY StampInvariance, <1>2, PTL DEF Spec, DropsCounted
=============================================================================
