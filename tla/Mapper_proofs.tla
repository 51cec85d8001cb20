---------------------------- MODULE Mapper_proofs ----------------------------
(***************************************************************************)
(* Proofs about the mapper for every value of its constants.  Of LivoSync: *)
(* its types, that the visual update never runs behind the lidar update,   *)
(* that it implements UpdateOrder, also when the lidar clock jumps back,   *)
(* and what becomes of the IMU samples and the points.  Of LivoOdometry:   *)
(* that it only adds to LivoSync, and what its messages carry.  Of LioSync *)
(* what the filter is propagated over and when its clock can go back.      *)
(***************************************************************************)
EXTENDS LivoOdometry, LioSync, SumLaws, SequenceTheorems

(***************************************************************************)
(* The inductive invariant.  A header waits for every cloud, so the first  *)
(* time is latched from a real header; a waiting image is no older than    *)
(* either update clock; and the clock is set once an update has run.       *)
(***************************************************************************)
ImageStamped == imgBuf # <<>> => lastImg \in Nat
LatchedOnce == flg # "WAIT" => lastLio \in Nat
ImageAhead ==
  flg = "LIO" => /\ measures # <<>> /\ imgBuf # <<>>
                 /\ CaptureTime >= LastPackage.lio
                 /\ CaptureTime >= lastLio

IInv == TypeOK /\ HeadersCoverClouds /\ ImageStamped /\ LatchedOnce /\ ImageAhead

\* A set of indices of a buffer is finite and no larger than the buffer.
LEMMA IndexSetSize ==
  ASSUME NEW n \in Nat, NEW P \in SUBSET (1..n)
  PROVE  Cardinality(P) \in 0..n
<1>1. IsFiniteSet(1..n) /\ Cardinality(1..n) = n
  BY FS_Interval
<1>2. IsFiniteSet(P) /\ Cardinality(P) <= n
  BY <1>1, FS_Subset
<1>3. Cardinality(P) \in Nat
  BY <1>2, FS_CardinalityType
<1> QED
  BY <1>2, <1>3

\* The number of front elements a cut pops is a length: the pop loops of
\* sync_packages stay within the buffer.
LEMMA UpToType ==
  ASSUME NEW s \in Seq(Nat), NEW t
  PROVE  UpTo(s, t) \in 0..Len(s)
<1>1. Len(s) \in Nat
  OBVIOUS
<1>2. {i \in 1..Len(s) : \A j \in 1..i : s[j] <= t} \in SUBSET (1..Len(s))
  OBVIOUS
<1> QED
  BY <1>1, <1>2, IndexSetSize DEF UpTo

\* The newest package of a non-empty measures has integer times.
LEMMA LastPackageType ==
  ASSUME TypeOK, measures # <<>>
  PROVE  LastPackage \in Package /\ LastPackage.lio \in Int
<1>1. measures \in Seq(Package)
  BY DEF TypeOK
<1>2. measures[Len(measures)] \in Package
  BY <1>1
<1> QED
  BY <1>2 DEF LastPackage, Package

\* Dropping elements at the front of a buffer of stamps leaves stamps.
LEMMA SuffixType ==
  ASSUME NEW s \in Seq(Nat), NEW k \in 0..Len(s)
  PROVE  /\ SubSeq(s, k + 1, Len(s)) \in Seq(Nat)
         /\ Len(SubSeq(s, k + 1, Len(s))) = Len(s) - k
<1>1. \A i \in (k + 1)..Len(s) : s[i] \in Nat
  OBVIOUS
<1> QED
  BY <1>1, SubSeqProperties

\* The initial state, with any value in the uninitialised time.
LEMMA InitIInv == Init => IInv
BY TimesAssumption, LimitsAssumption
DEF Init, IInv, TypeOK, HeadersCoverClouds, ImageStamped, LatchedOnce,
    ImageAhead, Flags, Package, Point

\* A lidar frame: at most MaxLidarBuffer clouds stay, and the headers pushed
\* and popped balance the clouds.
LEMMA LidarFrameStep ==
  ASSUME IInv, NEW t \in LidarTimes, LidarFrame(t)
  PROVE  IInv'
<1> DEFINE raw == Append(KeptClouds(t), t)
           hdr == Append(lidHdr, t)
           n   == Surplus(raw)
<1> USE TimesAssumption, LimitsAssumption
<1>1. /\ raw \in Seq(Nat) /\ Len(raw) >= 1 /\ Len(raw) <= MaxLidarBuffer + 1
      /\ hdr \in Seq(Nat) /\ Len(hdr) >= Len(raw)
  BY DEF IInv, TypeOK, HeadersCoverClouds, KeptClouds
<1>2. n \in 0..Len(raw) /\ Len(raw) - n <= MaxLidarBuffer
  BY <1>1 DEF Surplus
<1>3. /\ SubSeq(raw, n + 1, Len(raw)) \in Seq(Nat)
      /\ Len(SubSeq(raw, n + 1, Len(raw))) = Len(raw) - n
      /\ SubSeq(hdr, n + 1, Len(hdr)) \in Seq(Nat)
      /\ Len(SubSeq(hdr, n + 1, Len(hdr))) = Len(hdr) - n
  <2> HIDE DEF raw, hdr, n
  <2> QED BY <1>1, <1>2, SuffixType
<1>4. /\ lidRaw' = SubSeq(raw, n + 1, Len(raw))
      /\ lidHdr' = SubSeq(hdr, n + 1, Len(hdr))
  BY DEF LidarFrame
<1>5. lidRaw' \in Seq(Nat) /\ lidHdr' \in Seq(Nat)
  BY <1>3, <1>4
<1>6. Len(lidRaw') = Len(raw) - n /\ Len(lidHdr') = Len(hdr) - n
  BY <1>3, <1>4
<1>7. Len(lidRaw') <= MaxLidarBuffer /\ Len(lidHdr') >= Len(lidRaw')
  <2>1. Len(raw) \in Nat /\ Len(hdr) \in Nat
    BY <1>1
  <2> HIDE DEF raw, hdr, n
  <2> QED BY <2>1, <1>1, <1>2, <1>6
<1>8. lastLidar' \in Nat /\ lidClock' \in Nat
  BY DEF LidarFrame
<1>9. UNCHANGED <<imuVars, imgVars, cutVars, filtVars, imuClock, restarts>>
  BY DEF LidarFrame
<1> QED
  BY <1>5, <1>7, <1>8, <1>9
  DEF IInv, TypeOK, HeadersCoverClouds, ImageStamped, LatchedOnce,
      ImageAhead, CaptureTime, LastPackage, imuVars, imgVars, cutVars, filtVars

\* An empty cloud can clear the cloud buffer and touches nothing else.
LEMMA LidarEmptyCloudStep ==
  ASSUME IInv, NEW t \in LidarTimes, LidarEmptyCloud(t)
  PROVE  IInv'
<1>1. lidRaw' \in Seq(Nat) /\ Len(lidRaw') <= Len(lidRaw)
  BY DEF LidarEmptyCloud, KeptClouds, IInv, TypeOK
<1> QED
  BY <1>1, TimesAssumption, LimitsAssumption
  DEF LidarEmptyCloud, IInv, TypeOK, HeadersCoverClouds, ImageStamped,
      LatchedOnce, ImageAhead, CaptureTime, LastPackage, imuVars, imgVars,
      cutVars, filtVars

\* An IMU sample, accepted or dropped.
LEMMA ImuStep ==
  ASSUME IInv, NEW t \in ImuTimes, ImuAccept(t) \/ ImuDrop(t)
  PROVE  IInv'
<1>1. /\ imuBuf' \in Seq(Nat) /\ lastImu' \in Nat \cup {-1}
      /\ imuClock' \in Nat
  <2>1. CASE ImuAccept(t)
    BY <2>1, TimesAssumption DEF ImuAccept, IInv, TypeOK
  <2>2. CASE ImuDrop(t)
    BY <2>2, TimesAssumption DEF ImuDrop, IInv, TypeOK, imuVars
  <2> QED BY <2>1, <2>2
<1>2. UNCHANGED <<lidarVars, imgVars, cutVars, filtVars, lidClock, restarts>>
  BY DEF ImuAccept, ImuDrop
<1> QED
  BY <1>1, <1>2
  DEF IInv, TypeOK, HeadersCoverClouds, ImageStamped, LatchedOnce, ImageAhead,
      CaptureTime, LastPackage, lidarVars, imgVars, cutVars, filtVars

\* An image that replaces the waiting one is newer than it, so the image
\* stays ahead of both update clocks.
LEMMA ImgAcceptStep ==
  ASSUME IInv, NEW t \in ImgTimes, ImgAccept(t)
  PROVE  IInv'
<1> USE TimesAssumption, LimitsAssumption
<1>1. t \in Nat /\ imgBuf' = <<t>> /\ lastImg' = t /\ Head(imgBuf') = t
  BY DEF ImgAccept
<1>2. imgBuf # <<>> => Head(imgBuf) <= t /\ Head(imgBuf) \in Nat
  <2>1. imgBuf # <<>> => imgBuf = <<lastImg>> /\ lastImg \in Nat
    BY DEF IInv, TypeOK, ImageStamped
  <2>2. lastImg \in Nat => lastImg <= t
    BY <1>1 DEF ImgAccept, ImgRejected
  <2> QED BY <2>1, <2>2
<1>3. CaptureTime' \in Nat /\ (imgBuf # <<>> => CaptureTime \in Nat /\ CaptureTime' >= CaptureTime)
  BY <1>1, <1>2 DEF CaptureTime
<1>4. UNCHANGED <<flg, lastLio, measures, LastPackage>>
  BY DEF ImgAccept, cutVars, LastPackage
<1>5. ImageAhead'
  <2> SUFFICES ASSUME flg' = "LIO"
               PROVE  CaptureTime' >= LastPackage.lio /\ CaptureTime' >= lastLio
    BY <1>1, <1>4 DEF ImageAhead, IInv
  <2>1. /\ measures # <<>> /\ imgBuf # <<>>
        /\ CaptureTime >= LastPackage.lio /\ CaptureTime >= lastLio
    BY <1>4 DEF IInv, ImageAhead
  <2>2. LastPackage.lio \in Int /\ lastLio \in Int
    BY <2>1, LastPackageType DEF IInv, TypeOK
  <2> QED BY <1>3, <2>1, <2>2
<1> QED
  BY <1>1, <1>5
  DEF ImgAccept, IInv, TypeOK, HeadersCoverClouds, ImageStamped, LatchedOnce,
      lidarVars, imuVars, cutVars, filtVars, envVars

\* What sync_packages reads once its guards hold: the front header, the
\* waiting image and the latched time are real stamps.
LEMMA CutTimes ==
  ASSUME IInv, BuffersReady
  PROVE  /\ CaptureTime \in Nat
         /\ LatchedLio \in Nat /\ LatchedLio >= lastLio
         /\ lastLio >= 0 => LatchedLio = lastLio
<1> USE TimesAssumption, LimitsAssumption
<1>1. imgBuf = <<lastImg>> /\ lastImg \in Nat
  BY DEF IInv, TypeOK, ImageStamped, BuffersReady
<1>2. CaptureTime \in Nat
  BY <1>1 DEF CaptureTime
<1>3. lidHdr \in Seq(Nat) /\ lidHdr # <<>>
  BY DEF IInv, TypeOK, HeadersCoverClouds, BuffersReady
<1>4. Head(lidHdr) \in Nat
  BY <1>3
<1>5. lastLio \in Nat \cup {-1}
  BY DEF IInv, TypeOK
<1> QED
  BY <1>2, <1>4, <1>5 DEF LatchedLio

\* Throwing a stale image, or latching the first time while data is missing.
LEMMA WaitStep ==
  ASSUME IInv, ThrowImage \/ LatchFirstTime
  PROVE  IInv'
<1>1. BuffersReady /\ flg \in {"WAIT", "VIO"}
  BY DEF ThrowImage, LatchFirstTime
<1>2. lastLio' = LatchedLio /\ lastLio' \in Nat
  BY <1>1, CutTimes DEF ThrowImage, LatchFirstTime
<1>3. imgBuf' \in {imgBuf, <<>>} /\ imgBuf' \in {<<>>, <<lastImg>>}
  <2>1. imgBuf = <<lastImg>>
    BY <1>1 DEF IInv, TypeOK, BuffersReady
  <2>2. Tail(<<lastImg>>) = <<>>
    OBVIOUS
  <2> QED BY <2>1, <2>2 DEF ThrowImage, LatchFirstTime, imgVars
<1>4. UNCHANGED <<lidarVars, imuVars, lastImg, flg, measures, procNext, filtVars, envVars>>
  BY DEF ThrowImage, LatchFirstTime, imgVars
<1> QED
  BY <1>1, <1>2, <1>3, <1>4
  DEF IInv, TypeOK, HeadersCoverClouds, ImageStamped, LatchedOnce, ImageAhead,
      Flags, lidarVars, imuVars, filtVars, envVars

\* The points the cut stores have a natural true time: cloud and header
\* exist for every cloud it pops.
LEMMA NextPointsType ==
  ASSUME IInv, BuffersReady
  PROVE  NextPoints \in SUBSET Point
<1> USE LimitsAssumption
<1>1. CaptureTime \in Nat
  BY CutTimes
<1>2. /\ lidRaw \in Seq(Nat) /\ lidHdr \in Seq(Nat)
      /\ Len(lidRaw) \in Nat /\ Len(lidHdr) >= Len(lidRaw)
  BY DEF IInv, TypeOK, HeadersCoverClouds
<1>3. CloudPops \in 0..Len(lidRaw)
  <2>1. SubSeq(lidHdr, 1, Len(lidRaw)) \in Seq(Nat)
        /\ Len(SubSeq(lidHdr, 1, Len(lidRaw))) = Len(lidRaw)
    <3>1. \A i \in 1..Len(lidRaw) : lidHdr[i] \in Nat
      BY <1>2
    <3> QED BY <1>2, <3>1, SubSeqProperties
  <2> QED BY <2>1, UpToType DEF CloudPops
<1>4. ASSUME NEW io \in CutOffsets
      PROVE  Stored(io, CaptureTime) \in Point
  <2>1. io[1] \in 1..CloudPops /\ io[2] \in 0..ScanLen
    BY DEF CutOffsets
  <2> HIDE LimitsAssumption
  <2>2. io[1] \in 1..Len(lidRaw) /\ io[1] \in 1..Len(lidHdr)
    <3> DEFINE i == io[1]
               h == Len(lidHdr)
    <3>1. i \in 1..CloudPops /\ h \in Nat
      BY <1>2, <2>1
    <3> HIDE DEF i, h
    <3>2. i \in 1..Len(lidRaw) /\ i \in 1..h
      BY <1>2, <1>3, <3>1 DEF h
    <3> QED BY <3>2 DEF i, h
  <2>3. lidRaw[io[1]] \in Nat /\ lidHdr[io[1]] \in Nat
    BY <1>2, <2>2
  <2> QED BY <1>1, <2>1, <2>3 DEF Stored, Point
<1> QED
  BY <1>4 DEF NextPoints

\* A lidar update moves the time to the latched one or to the image's, and
\* the image it was cut at is not older than either.
LEMMA LioTimes ==
  ASSUME IInv, LioUpdate
  PROVE  /\ lastLio' \in Nat /\ lastLio' >= lastLio
         /\ CaptureTime \in Nat /\ CaptureTime' = CaptureTime
         /\ lastLio' <= CaptureTime
<1>1. BuffersReady /\ ~ImageTooOld
  BY DEF LioUpdate
<1>2. /\ CaptureTime \in Nat /\ LatchedLio \in Nat
      /\ LatchedLio >= lastLio /\ CaptureTime > LatchedLio
  BY <1>1, CutTimes DEF ImageTooOld
<1>3. lastLio' \in {LatchedLio, CaptureTime}
  BY DEF LioUpdate, InitialiseImu, UndistortLio
<1>4. CaptureTime' = CaptureTime
  BY DEF LioUpdate, CaptureTime, imgVars
<1>5. lastLio \in Int
  BY DEF IInv, TypeOK
<1> QED
  BY <1>2, <1>3, <1>4, <1>5

\* The samples a lidar update hands to the filter are stamps.
LEMMA ImuPackageType ==
  ASSUME IInv
  PROVE  ImuPackage \in Seq(Nat)
<1>1. imuBuf \in Seq(Nat)
  BY DEF IInv, TypeOK
<1>2. /\ UpTo(imuBuf, LatchedLio) \in 0..Len(imuBuf)
      /\ ImuPops \in 0..Len(imuBuf)
  BY <1>1, UpToType DEF ImuPops
<1>3. \A i \in (UpTo(imuBuf, LatchedLio) + 1)..ImuPops : imuBuf[i] \in Nat
  BY <1>1, <1>2
<1> QED
  BY <1>2, <1>3, SubSeqProperties DEF ImuPackage

\* The filter's own bookkeeping stays typed over a lidar update.
LEMMA FilterStep ==
  ASSUME IInv, LioUpdate
  PROVE  /\ needInit' \in BOOLEAN /\ initN' \in Nat \ {0}
         /\ tailImu' \in Nat /\ lastPropEnd' \in Int
<1>1. ImuPackage \in Seq(Nat)
  BY ImuPackageType
<1>2. ImuPackage # <<>> => ImuPackage[Len(ImuPackage)] \in Nat /\ Len(ImuPackage) \in Nat
  BY <1>1
<1>3. /\ needInit \in BOOLEAN /\ initN \in Nat \ {0}
      /\ tailImu \in Nat /\ lastPropEnd \in Int
  BY DEF IInv, TypeOK
<1>4. CASE InitialiseImu
  <2>1. needInit' \in BOOLEAN
    <3>1. CASE ImuPackage = <<>>
      BY <1>3, <1>4, <3>1 DEF InitialiseImu
    <3>2. CASE ImuPackage # <<>>
      <4>1. needInit' = (initN' <= InitCount)
        BY <1>4, <3>2, Zenon DEF InitialiseImu
      <4> QED BY <4>1
    <3> QED BY <3>1, <3>2
  <2>2. initN' \in Nat \ {0} /\ tailImu' \in Nat /\ lastPropEnd' \in Int
    <3>1. CASE ImuPackage = <<>>
      BY <1>3, <1>4, <3>1 DEF InitialiseImu
    <3>2. CASE ImuPackage # <<>>
      <4>1. /\ initN' = initN + Len(ImuPackage) /\ lastPropEnd' = lastPropEnd
            /\ tailImu' = ImuPackage[Len(ImuPackage)]
        BY <1>4, <3>2, Zenon DEF InitialiseImu
      <4> QED BY <1>2, <1>3, <3>2, <4>1
    <3> QED BY <3>1, <3>2
  <2> QED BY <2>1, <2>2
<1>5. CASE UndistortLio
  BY <1>2, <1>3, <1>5, LioTimes DEF UndistortLio
<1> QED
  BY <1>4, <1>5 DEF LioUpdate

\* A lidar update: suffixes of the buffers, typed leftovers, and an image
\* still waiting at the time of the update.
LEMMA LioStep ==
  ASSUME IInv, LioUpdate
  PROVE  IInv'
<1> USE LimitsAssumption
<1>1. /\ imuBuf \in Seq(Nat) /\ lidRaw \in Seq(Nat) /\ lidHdr \in Seq(Nat)
      /\ Len(lidHdr) >= Len(lidRaw) /\ Len(lidRaw) <= MaxLidarBuffer
  BY DEF IInv, TypeOK, HeadersCoverClouds
<1>2. ImuPops \in 0..Len(imuBuf)
  BY <1>1, UpToType DEF ImuPops
<1>3. CloudPops \in 0..Len(lidRaw)
  <2>1. SubSeq(lidHdr, 1, Len(lidRaw)) \in Seq(Nat)
        /\ Len(SubSeq(lidHdr, 1, Len(lidRaw))) = Len(lidRaw)
    <3>1. \A i \in 1..Len(lidRaw) : lidHdr[i] \in Nat
      BY <1>1
    <3>2. Len(lidRaw) \in Nat
      BY <1>1
    <3> QED BY <3>1, <3>2, SubSeqProperties
  <2> QED BY <2>1, UpToType DEF CloudPops
<1>4. imuBuf' \in Seq(Nat)
  BY <1>1, <1>2, SuffixType DEF LioUpdate
<1>5. /\ lidRaw' \in Seq(Nat) /\ Len(lidRaw') = Len(lidRaw) - CloudPops
      /\ lidHdr' \in Seq(Nat) /\ Len(lidHdr') = Len(lidHdr) - CloudPops
  <2>1. CloudPops \in 0..Len(lidHdr)
    BY <1>1, <1>3
  <2> QED BY <1>1, <1>3, <2>1, SuffixType DEF LioUpdate
<1>6. Len(lidRaw') <= MaxLidarBuffer /\ Len(lidHdr') >= Len(lidRaw')
  BY <1>1, <1>3, <1>5
<1>7. /\ measures' \in Seq(Package) /\ measures' # <<>>
      /\ LastPackage'.lio = CaptureTime
  <2>1. measures \in Seq(Package) /\ [lio |-> CaptureTime, vio |-> 0] \in Package
    BY LioTimes DEF IInv, TypeOK, Package
  <2>2. measures' = Append(measures, [lio |-> CaptureTime, vio |-> 0])
    BY DEF LioUpdate
  <2>3. LastPackage' = [lio |-> CaptureTime, vio |-> 0]
    BY <2>1, <2>2 DEF LastPackage
  <2> QED BY <2>1, <2>2, <2>3
<1>8. procNext' \in SUBSET Point
  BY NextPointsType DEF LioUpdate, Point
<1>9. flg' = "LIO" /\ imgBuf' # <<>>
  BY DEF LioUpdate, BuffersReady, imgVars
<1>10. UNCHANGED <<lastLidar, lastImu, imgVars, envVars>>
  BY DEF LioUpdate
<1>11. ImageAhead'
  BY <1>7, <1>9, LioTimes DEF ImageAhead
<1> QED
  BY <1>4, <1>5, <1>6, <1>7, <1>8, <1>9, <1>10, <1>11, FilterStep, LioTimes
  DEF IInv, TypeOK, HeadersCoverClouds, ImageStamped, LatchedOnce, Flags,
      imgVars, envVars

\* A visual update never moves the time backwards: its image waited since
\* before the lidar update, or replaced one that did.
LEMMA VioTimes ==
  ASSUME IInv, VioUpdate
  PROVE  lastLio' \in Nat /\ lastLio \in Nat /\ lastLio' >= lastLio /\ CaptureTime \in Nat
<1>1. CaptureTime \in Nat
  BY CutTimes DEF VioUpdate
<1>2. CaptureTime >= lastLio
  BY DEF VioUpdate, IInv, ImageAhead
<1>3. lastLio \in Nat
  BY DEF VioUpdate, IInv, LatchedOnce
<1> QED
  BY <1>1, <1>2, <1>3 DEF VioUpdate

LEMMA VioStep ==
  ASSUME IInv, VioUpdate
  PROVE  IInv'
<1>1. /\ lastLio' \in Nat /\ lastPropEnd' \in Int
  BY VioTimes DEF VioUpdate, IInv, TypeOK
<1>2. measures' \in Seq(Package)
  <2>1. [lio |-> lastLio, vio |-> CaptureTime] \in Package
    BY VioTimes DEF Package
  <2> QED BY <2>1 DEF VioUpdate
<1>3. imgBuf' = <<>>
  <2>1. imgBuf = <<lastImg>>
    BY DEF VioUpdate, BuffersReady, IInv, TypeOK
  <2> QED BY <2>1 DEF VioUpdate
<1>4. /\ flg' = "VIO"
      /\ UNCHANGED <<lidarVars, imuVars, lastImg, procNext, needInit, initN, tailImu, envVars>>
  BY DEF VioUpdate
<1> QED
  BY <1>1, <1>2, <1>3, <1>4
  DEF IInv, TypeOK, HeadersCoverClouds, ImageStamped, LatchedOnce, ImageAhead,
      Flags, lidarVars, imuVars, envVars

LEMMA RestartStep ==
  ASSUME IInv, LidarClockRestart
  PROVE  IInv'
BY LimitsAssumption
DEF LidarClockRestart, IInv, TypeOK, HeadersCoverClouds, ImageStamped,
    LatchedOnce, ImageAhead, CaptureTime, LastPackage, lidarVars, imuVars,
    imgVars, cutVars, filtVars

LEMMA StutterStep ==
  ASSUME IInv, UNCHANGED vars
  PROVE  IInv'
BY DEF vars, IInv, TypeOK, HeadersCoverClouds, ImageStamped, LatchedOnce,
    ImageAhead, CaptureTime, LastPackage, lidarVars, imuVars, imgVars, cutVars,
    filtVars, envVars

\* Every callback and every loop iteration of LIVMapper keeps the invariant.
THEOREM IInvariance == Spec => []IInv
<1>1. IInv /\ [Next]_vars => IInv'
  BY LidarFrameStep, LidarEmptyCloudStep, ImuStep, ImgAcceptStep, RestartStep,
     WaitStep, LioStep, VioStep, StutterStep
  DEF Next, Forward, Iterate
<1> QED
  BY InitIInv, <1>1, PTL DEF Spec

\* The buffers, times and flags of the pipeline keep their types, and the
\* cloud buffer never exceeds MAX_LIDAR_BUFFER.
THEOREM TypeCorrect == Spec => []TypeOK
<1>1. IInv => TypeOK
  BY DEF IInv
<1> QED
  BY IInvariance, <1>1, PTL

\* sync_packages never takes a header from an empty header buffer, also
\* after the lidar clock has jumped back.
THEOREM HeadersSuffice == Spec => []HeadersCoverClouds
<1>1. IInv => HeadersCoverClouds
  BY DEF IInv
<1> QED
  BY IInvariance, <1>1, PTL

\* An image waits through every lidar update and is not behind it.
THEOREM VisualInOrder == Spec => []VisualNotBehind
<1>1. IInv => VisualNotBehind
  BY DEF IInv, ImageAhead, VisualNotBehind
<1> QED
  BY IInvariance, <1>1, PTL

-----------------------------------------------------------------------------
(***************************************************************************)
(* Refinement: each step is a step of UpdateOrder or changes neither flg   *)
(* nor lastLio.                                                            *)
(***************************************************************************)
LEMMA WaitRefines ==
  ASSUME IInv, ThrowImage \/ LatchFirstTime
  PROVE  [Order!Next]_Order!vars
<1>1. BuffersReady /\ lastLio' = LatchedLio /\ flg' = flg
  BY DEF ThrowImage, LatchFirstTime
<1>2. CASE lastLio < 0
  BY <1>1, <1>2, CutTimes DEF Order!Next, Order!Latch
<1>3. CASE ~(lastLio < 0)
  BY <1>1, <1>3 DEF LatchedLio, Order!vars
<1> QED
  BY <1>2, <1>3

LEMMA LioRefines ==
  ASSUME IInv, LioUpdate
  PROVE  Order!Next
BY LioTimes DEF LioUpdate, Order!Next, Order!LidarUpdate

LEMMA VioRefines ==
  ASSUME IInv, VioUpdate
  PROVE  Order!Next
BY VioTimes DEF VioUpdate, Order!Next, Order!VisualUpdate

\* No callback touches the flag or the update clock.
LEMMA CallbackRefines ==
  ASSUME \/ \E t \in LidarTimes : LidarFrame(t) \/ LidarEmptyCloud(t)
         \/ \E t \in ImuTimes : ImuAccept(t) \/ ImuDrop(t)
         \/ \E t \in ImgTimes : ImgAccept(t)
         \/ LidarClockRestart
         \/ UNCHANGED vars
  PROVE  UNCHANGED Order!vars
<1>1. UNCHANGED cutVars
  BY DEF LidarFrame, LidarEmptyCloud, ImuAccept, ImuDrop, ImgAccept,
         LidarClockRestart, vars
<1> QED
  BY <1>1 DEF cutVars, Order!vars

\* Lidar and visual updates alternate strictly and the time the filter state
\* is valid at never runs backwards, even when the lidar clock does.
THEOREM OrderImplemented == Spec => OrderRefined
<1>1. Init => Order!Init
  BY DEF Init, Order!Init
<1>2. IInv /\ [Next]_vars => [Order!Next]_Order!vars
  BY WaitRefines, LioRefines, VioRefines, CallbackRefines DEF Next, Forward, Iterate
<1> QED
  BY IInvariance, <1>1, <1>2, PTL DEF Spec, Order!Spec, OrderRefined

-----------------------------------------------------------------------------
(***************************************************************************)
(* While the lidar clock only runs forward the two lidar buffers hold the  *)
(* same frames: no frame is older than last_timestamp_lidar.               *)
(***************************************************************************)
SteadyClock == /\ restarts = 0
               /\ lastLidar <= lidClock
               /\ lidHdr = lidRaw

LEMMA SteadyStep ==
  ASSUME MaxRestarts = 0
  PROVE  IInv /\ SteadyClock /\ [Next]_vars => SteadyClock'
<1> SUFFICES ASSUME IInv, SteadyClock, [Next]_vars
             PROVE  SteadyClock'
  OBVIOUS
<1> USE TimesAssumption DEF SteadyClock
<1>1. lastLidar \in Int /\ lidClock \in Int
  BY DEF IInv, TypeOK
<1>2. ASSUME NEW t \in LidarTimes, LidarFrame(t)
      PROVE  SteadyClock'
  <2>1. KeptClouds(t) = lidRaw
    BY <1>1, <1>2 DEF LidarFrame, KeptClouds
  <2> QED BY <1>2, <2>1 DEF LidarFrame
<1>3. ASSUME NEW t \in LidarTimes, LidarEmptyCloud(t)
      PROVE  SteadyClock'
  <2>1. KeptClouds(t) = lidRaw
    BY <1>1, <1>3 DEF LidarEmptyCloud, KeptClouds
  <2> QED BY <1>1, <1>3, <2>1 DEF LidarEmptyCloud
<1>4. ~LidarClockRestart
  BY DEF LidarClockRestart
<1>5. CASE LioUpdate
  BY <1>5 DEF LioUpdate, envVars
<1>6. CASE \/ \E t \in ImuTimes : ImuAccept(t) \/ ImuDrop(t)
           \/ \E t \in ImgTimes : ImgAccept(t)
           \/ ThrowImage \/ LatchFirstTime \/ VioUpdate
           \/ UNCHANGED vars
  <2>1. UNCHANGED <<lidarVars, lidClock, restarts>>
    BY <1>6 DEF ImuAccept, ImuDrop, ImgAccept, ThrowImage, LatchFirstTime,
                VioUpdate, vars, envVars
  <2> QED BY <2>1 DEF lidarVars
<1> QED
  BY <1>2, <1>3, <1>4, <1>5, <1>6 DEF Next, Forward, Iterate

LEMMA SteadyInvariance ==
  ASSUME MaxRestarts = 0
  PROVE  Spec => []SteadyClock
<1>1. Init => SteadyClock
  BY DEF Init, SteadyClock
<1> QED
  BY IInvariance, <1>1, SteadyStep, PTL DEF Spec

\* While the lidar clock runs forward every buffered cloud has its own header:
\* livox_pcl_cbk's clearing of the clouds alone is never reached.
THEOREM AlignedWithoutRestart ==
  ASSUME MaxRestarts = 0
  PROVE  Spec => []Aligned
<1>1. SteadyClock => Aligned
  BY DEF SteadyClock, Aligned
<1> QED
  BY SteadyInvariance, <1>1, PTL

-----------------------------------------------------------------------------
(***************************************************************************)
(* The IMU side: imu_buffer stays in stamp order whatever the clocks do, a *)
(* jump of the stamps is final, and while the lidar clock runs forward the *)
(* cut never discards a sample as already behind the last update.          *)
(***************************************************************************)

(***************************************************************************)
(* ImuInOrder relates neighbours; the cut needs it of any two samples.     *)
(***************************************************************************)
ImuOrdered ==
  /\ \A i, j \in 1..Len(imuBuf) : i <= j => imuBuf[i] <= imuBuf[j]
  /\ \A i \in 1..Len(imuBuf) : imuBuf[i] <= lastImu

\* No sample buffered after an update is as old as the time of the update.
BufferAfter(t) == t <= lastImu /\ \A i \in 1..Len(imuBuf) : imuBuf[i] > t

\* Between the two updates of an image the buffer begins after the cut; the
\* time of the filter is the cut's, or was left behind by initialisation.
DrainedAtCut ==
  flg = "LIO" => /\ BufferAfter(LastPackage.lio)
                 /\ lastLio = LastPackage.lio \/ lastLio < CaptureTime

DrainedWhenSettled == Settled => BufferAfter(lastLio)

SteadyImu == restarts = 0 /\ lastImu <= imuClock

ImuInv == ImuOrdered /\ SteadyImu /\ DrainedAtCut /\ DrainedWhenSettled

-----------------------------------------------------------------------------
\* An initial segment of 1..n is the interval up to its cardinality.
LEMMA SegmentIsInterval ==
  ASSUME NEW n \in Nat, NEW P \in SUBSET (1..n),
         \A i \in P : \A j \in 1..i : j \in P
  PROVE  P = 1..Cardinality(P)
<1>1. IsFiniteSet(P) /\ Cardinality(P) \in Nat
  <2>1. IsFiniteSet(1..n)
    BY FS_Interval
  <2>2. IsFiniteSet(P)
    BY <2>1, FS_Subset
  <2> QED BY <2>2, FS_CardinalityType
<1> DEFINE k == Cardinality(P)
<1>2. k \in Nat /\ IsFiniteSet(1..k) /\ Cardinality(1..k) = k
  BY <1>1, FS_Interval
<1>3. P \subseteq 1..k
  <2> SUFFICES ASSUME NEW i \in P PROVE i \in 1..k
    OBVIOUS
  <2>1. i \in Nat /\ i >= 1 /\ 1..i \subseteq P
    OBVIOUS
  <2>2. Cardinality(1..i) = i
    BY <2>1, FS_Interval
  <2>3. Cardinality(1..i) <= k
    BY <1>1, <2>1, FS_Subset
  <2> QED BY <1>2, <2>1, <2>2, <2>3
<1>4. Cardinality(1..k) = Cardinality(P)
  BY <1>2
<1> QED
  BY <1>2, <1>3, <1>4, FS_Subset

\* The pop loop stops at the first stamp later than t: what it pops is at
\* most t, and the sample left in front is later.
LEMMA UpToSplits ==
  ASSUME NEW s \in Seq(Nat), NEW t \in Nat
  PROVE  /\ UpTo(s, t) \in 0..Len(s)
         /\ \A i \in 1..UpTo(s, t) : s[i] <= t
         /\ UpTo(s, t) < Len(s) => s[UpTo(s, t) + 1] > t
<1> DEFINE P == {i \in 1..Len(s) : \A j \in 1..i : s[j] <= t}
           k == UpTo(s, t)
<1>1. Len(s) \in Nat /\ P \in SUBSET (1..Len(s)) /\ k \in 0..Len(s)
  BY UpToType
<1>2. \A i \in P : \A j \in 1..i : j \in P
  OBVIOUS
<1>3. P = 1..k
  <2>1. k = Cardinality(P)
    BY DEF UpTo
  <2> HIDE DEF P, k
  <2> QED BY <1>1, <1>2, <2>1, SegmentIsInterval
<1>4. \A i \in 1..k : s[i] <= t
  <2> SUFFICES ASSUME NEW i \in 1..k PROVE s[i] <= t
    OBVIOUS
  <2>1. i \in P
    BY <1>3
  <2>2. i \in 1..i
    BY <1>1
  <2> QED BY <2>1, <2>2
<1>5. ASSUME k < Len(s)
      PROVE  s[k + 1] > t
  <2>1. k + 1 \in 1..Len(s) /\ k + 1 \notin P
    BY <1>1, <1>3, <1>5
  <2>2. PICK j \in 1..(k + 1) : ~(s[j] <= t)
    BY <2>1
  <2>3. j = k + 1
    BY <1>1, <1>4, <2>2
  <2>4. s[k + 1] \in Nat
    BY <2>1
  <2> QED BY <2>2, <2>3, <2>4
<1> QED
  BY <1>1, <1>4, <1>5

-----------------------------------------------------------------------------
\* An accepted sample is no older than any sample before it.
LEMMA AcceptedLater ==
  ASSUME imuBuf \in Seq(Nat), lastImu \in Nat \cup {-1}, ImuOrdered,
         NEW t \in ImuTimes, ImuAccept(t)
  PROVE  /\ t \in Nat /\ imuBuf \in Seq(Nat) /\ t >= lastImu
         /\ \A i \in 1..Len(imuBuf) : imuBuf[i] <= t
<1>1. t \in Nat
  BY TimesAssumption
<1>2. t >= lastImu
  BY <1>1 DEF ImuAccept, ImuRejected
<1>3. \A i \in 1..Len(imuBuf) : imuBuf[i] \in Nat /\ imuBuf[i] <= lastImu
  BY <1>1 DEF ImuOrdered
<1> QED
  BY <1>1, <1>2, <1>3

LEMMA AcceptKeepsOrder ==
  ASSUME imuBuf \in Seq(Nat), lastImu \in Nat \cup {-1}, ImuOrdered,
         NEW t \in ImuTimes, ImuAccept(t)
  PROVE  ImuOrdered'
<1>1. /\ imuBuf' = Append(imuBuf, t) /\ lastImu' = t
  BY DEF ImuAccept
<1>2. /\ Len(imuBuf') = Len(imuBuf) + 1 /\ imuBuf'[Len(imuBuf) + 1] = t
      /\ \A i \in 1..Len(imuBuf) : imuBuf'[i] = imuBuf[i]
      /\ Len(imuBuf) \in Nat
  BY <1>1, AcceptedLater
<1>3. \A i \in 1..Len(imuBuf') : i \in 1..Len(imuBuf) \/ i = Len(imuBuf) + 1
  BY <1>2
<1> QED
  BY <1>1, <1>2, <1>3, AcceptedLater DEF ImuOrdered

\* What a lidar update leaves in imu_buffer: the samples after the cut.
LEMMA CutBuffer ==
  ASSUME IInv, ImuOrdered, LioUpdate
  PROVE  /\ ImuPops \in 0..Len(imuBuf) /\ imuBuf \in Seq(Nat)
         /\ Len(imuBuf') = Len(imuBuf) - ImuPops
         /\ \A i \in 1..Len(imuBuf') : imuBuf'[i] = imuBuf[ImuPops + i]
         /\ CaptureTime \in Nat /\ CaptureTime <= lastImu
         /\ \A i \in 1..Len(imuBuf') : imuBuf'[i] > CaptureTime
<1>1. imuBuf \in Seq(Nat) /\ CaptureTime \in Nat /\ lastImu \in Int
  BY LioTimes DEF IInv, TypeOK
<1>2. /\ ImuPops \in 0..Len(imuBuf)
      /\ ImuPops < Len(imuBuf) => imuBuf[ImuPops + 1] > CaptureTime
  BY <1>1, UpToSplits DEF ImuPops
<1>3. \A i \in (ImuPops + 1)..Len(imuBuf) : imuBuf[i] \in Nat
  BY <1>1, <1>2
<1>4. /\ Len(imuBuf') = Len(imuBuf) - ImuPops
      /\ \A i \in 1..Len(imuBuf') : imuBuf'[i] = imuBuf[ImuPops + i]
  <2>1. imuBuf' = SubSeq(imuBuf, ImuPops + 1, Len(imuBuf))
    BY DEF LioUpdate
  <2>2. ImuPops + 1 \in Int /\ Len(imuBuf) \in Int
    BY <1>1, <1>2
  <2>3. /\ Len(imuBuf') = IF ImuPops + 1 <= Len(imuBuf) THEN Len(imuBuf) - (ImuPops + 1) + 1 ELSE 0
        /\ \A i \in 1..(Len(imuBuf) - (ImuPops + 1) + 1) :
             imuBuf'[i] = imuBuf[(ImuPops + 1) + i - 1]
    BY <1>3, <2>1, <2>2, SubSeqProperties
  <2> QED BY <1>1, <1>2, <2>3
<1>5. CaptureTime <= lastImu
  <2>1. imuBuf # <<>> /\ CaptureTime <= imuBuf[Len(imuBuf)]
    BY DEF LioUpdate, BuffersReady, DataComplete
  <2>2. Len(imuBuf) \in 1..Len(imuBuf) /\ imuBuf[Len(imuBuf)] \in Nat
    BY <1>1, <2>1
  <2> QED BY <1>1, <2>1, <2>2 DEF ImuOrdered
<1>6. ASSUME NEW i \in 1..Len(imuBuf')
      PROVE  imuBuf'[i] > CaptureTime
  <2>1. /\ ImuPops + 1 \in 1..Len(imuBuf) /\ ImuPops + i \in 1..Len(imuBuf)
        /\ ImuPops + 1 <= ImuPops + i /\ ImuPops < Len(imuBuf)
    BY <1>1, <1>2, <1>4
  <2>2. imuBuf[ImuPops + 1] <= imuBuf[ImuPops + i]
    BY <2>1 DEF ImuOrdered
  <2>3. imuBuf[ImuPops + 1] \in Nat /\ imuBuf[ImuPops + i] \in Nat
    BY <1>1, <2>1
  <2> QED BY <1>1, <1>2, <1>4, <2>1, <2>2, <2>3
<1> QED
  BY <1>1, <1>2, <1>4, <1>5, <1>6

LEMMA CutKeepsOrder ==
  ASSUME IInv, ImuOrdered, LioUpdate
  PROVE  ImuOrdered'
<1>1. lastImu' = lastImu
  BY DEF LioUpdate
<1>2. /\ ImuPops \in Nat /\ Len(imuBuf) \in Nat
      /\ \A i \in 1..Len(imuBuf') : ImuPops + i \in 1..Len(imuBuf)
      /\ \A i \in 1..Len(imuBuf') : imuBuf'[i] = imuBuf[ImuPops + i]
  BY CutBuffer
<1>3. \A i, j \in 1..Len(imuBuf') : i <= j => ImuPops + i <= ImuPops + j
  BY <1>2
<1> QED
  BY <1>1, <1>2, <1>3 DEF ImuOrdered

\* Every other step leaves imu_buffer and last_timestamp_imu alone.
LEMMA OtherStepsKeepImu ==
  ASSUME [Next]_vars, ~LioUpdate, ~(\E t \in ImuTimes : ImuAccept(t))
  PROVE  UNCHANGED imuVars
BY DEF Next, Forward, Iterate, vars, imuVars, LidarFrame, LidarEmptyCloud, ImuDrop,
       ImgAccept, LidarClockRestart, ThrowImage, LatchFirstTime, VioUpdate

LEMMA OrderInvariance == Spec => []ImuOrdered
<1>1. Init => ImuOrdered
  BY DEF Init, ImuOrdered
<1>2. IInv /\ ImuOrdered /\ [Next]_vars => ImuOrdered'
  <2>1. ASSUME UNCHANGED imuVars, ImuOrdered PROVE ImuOrdered'
    BY <2>1 DEF imuVars, ImuOrdered
  <2>2. IInv => imuBuf \in Seq(Nat) /\ lastImu \in Nat \cup {-1}
    BY DEF IInv, TypeOK
  <2> QED BY <2>1, <2>2, AcceptKeepsOrder, CutKeepsOrder, OtherStepsKeepImu
<1> QED
  BY IInvariance, <1>1, <1>2, PTL DEF Spec

\* imu_buffer is in stamp order up to last_timestamp_imu, also over backward
\* jumps of the sensor's clock.
THEOREM ImuBufferOrdered == Spec => []ImuInOrder
<1>1. IInv /\ ImuOrdered => ImuInOrder
  <2> SUFFICES ASSUME IInv, ImuOrdered, NEW i \in 1..Len(imuBuf)
               PROVE  imuBuf[i] <= (IF i < Len(imuBuf) THEN imuBuf[i + 1] ELSE lastImu)
    BY DEF ImuInOrder
  <2>1. imuBuf \in Seq(Nat)
    BY DEF IInv, TypeOK
  <2>2. CASE i < Len(imuBuf)
    <3>1. i + 1 \in 1..Len(imuBuf) /\ i <= i + 1
      BY <2>1, <2>2
    <3> QED BY <2>2, <3>1 DEF ImuOrdered
  <2>3. CASE ~(i < Len(imuBuf))
    BY <2>3 DEF ImuOrdered
  <2> QED BY <2>2, <2>3
<1> QED
  BY IInvariance, OrderInvariance, <1>1, PTL

\* imu_cbk measures a jump from the last accepted sample, so once the stamps
\* are further ahead than the limit no sample is accepted any more.
THEOREM GapStopsImu == Spec => GapIsFinal
<1>1. IInv /\ [Next]_vars =>
        [lastImu > 0 /\ imuClock > lastImu + ImuGap => UNCHANGED lastImu]_vars
  <2> SUFFICES ASSUME IInv, [Next]_vars, lastImu > 0, imuClock > lastImu + ImuGap
               PROVE  UNCHANGED lastImu
    OBVIOUS
  <2>1. lastImu \in Int /\ imuClock \in Int /\ ImuGap \in Nat
    BY LimitsAssumption DEF IInv, TypeOK
  <2>2. ASSUME NEW t \in ImuTimes, ImuAccept(t)
        PROVE  FALSE
    <3>1. t \in Nat /\ t > imuClock
      BY <2>2, TimesAssumption DEF ImuAccept
    <3> QED BY <2>1, <2>2, <3>1 DEF ImuAccept, ImuRejected
  <2>3. CASE LioUpdate
    BY <2>3 DEF LioUpdate
  <2>4. CASE ~LioUpdate
    BY <2>2, <2>4, OtherStepsKeepImu DEF imuVars
  <2> QED BY <2>3, <2>4
<1> QED
  BY IInvariance, <1>1, PTL DEF Spec, GapIsFinal

-----------------------------------------------------------------------------
(***************************************************************************)
(* Nothing is lost while the lidar clock runs forward: the buffer begins   *)
(* after the cut of the lidar update, a later sample is later still, and a *)
(* visual update that settles the cycle moves the time to that cut.        *)
(***************************************************************************)
LEMMA InitImuInv == Init => ImuInv
BY DEF Init, ImuInv, ImuOrdered, SteadyImu, DrainedAtCut, DrainedWhenSettled,
       Settled

LEMMA AcceptKeepsImuInv ==
  ASSUME IInv, ImuInv, NEW t \in ImuTimes, ImuAccept(t)
  PROVE  ImuInv'
<1>1. UNCHANGED <<imgVars, cutVars, filtVars, restarts>>
  BY DEF ImuAccept
<1>2. imuBuf' = Append(imuBuf, t) /\ lastImu' = t /\ imuClock' = t
  BY DEF ImuAccept
<1>3. t \in Nat /\ imuBuf \in Seq(Nat) /\ t > lastImu /\ lastImu \in Int
  BY TimesAssumption DEF ImuAccept, IInv, TypeOK, ImuInv, SteadyImu
<1>4. ASSUME NEW u \in Int, BufferAfter(u)
      PROVE  BufferAfter(u)'
  BY <1>2, <1>3, <1>4 DEF BufferAfter
<1>5. measures # <<>> => LastPackage.lio \in Int
  BY LastPackageType DEF IInv
<1>6. DrainedAtCut'
  <2> SUFFICES ASSUME flg = "LIO"
               PROVE  /\ BufferAfter(LastPackage.lio)'
                      /\ lastLio = LastPackage.lio \/ lastLio < CaptureTime
    BY <1>1 DEF DrainedAtCut, cutVars, imgVars, CaptureTime, LastPackage
  <2>1. LastPackage.lio \in Int /\ LastPackage' = LastPackage
    BY <1>1, <1>5 DEF IInv, ImageAhead, cutVars, LastPackage
  <2>2. BufferAfter(LastPackage.lio)
    BY DEF ImuInv, DrainedAtCut
  <2> QED BY <1>2, <1>3, <2>1, <2>2 DEF ImuInv, DrainedAtCut, BufferAfter
<1>7. DrainedWhenSettled'
  <2> SUFFICES ASSUME Settled PROVE BufferAfter(lastLio)'
    BY <1>1 DEF DrainedWhenSettled, Settled, cutVars, filtVars, LastPackage
  <2>1. lastLio \in Int /\ lastLio' = lastLio
    BY <1>1 DEF IInv, TypeOK, cutVars
  <2> QED BY <1>2, <1>3, <2>1 DEF ImuInv, DrainedWhenSettled, BufferAfter
<1>8. SteadyImu'
  BY <1>1, <1>2, <1>3 DEF ImuInv, SteadyImu
<1>9. imuBuf \in Seq(Nat) /\ lastImu \in Nat \cup {-1} /\ ImuOrdered
  BY DEF ImuInv, IInv, TypeOK
<1>10. ImuOrdered'
  BY <1>9, AcceptKeepsOrder
<1> QED
  BY <1>6, <1>7, <1>8, <1>10 DEF ImuInv

LEMMA CutKeepsImuInv ==
  ASSUME IInv, ImuInv, LioUpdate
  PROVE  ImuInv'
<1>1. /\ CaptureTime \in Nat /\ CaptureTime <= lastImu
      /\ \A i \in 1..Len(imuBuf') : imuBuf'[i] > CaptureTime
  BY CutBuffer DEF ImuInv
<1>2. /\ lastImu' = lastImu /\ flg' = "LIO" /\ CaptureTime' = CaptureTime
      /\ UNCHANGED <<restarts, imuClock>>
  BY DEF LioUpdate, envVars, imgVars, CaptureTime
<1>3. LastPackage'.lio = CaptureTime
  <2>1. /\ measures \in Seq(Package)
        /\ [lio |-> CaptureTime, vio |-> 0] \in Package
    BY <1>1 DEF IInv, TypeOK, Package
  <2>2. measures' = Append(measures, [lio |-> CaptureTime, vio |-> 0])
    BY DEF LioUpdate
  <2> QED BY <2>1, <2>2 DEF LastPackage
<1>4. lastLio' = CaptureTime \/ lastLio' < CaptureTime
  <2>1. LatchedLio \in Nat /\ LatchedLio < CaptureTime
    BY <1>1, CutTimes DEF LioUpdate, ImageTooOld
  <2> QED BY <2>1 DEF LioUpdate, InitialiseImu, UndistortLio
<1>5. DrainedAtCut'
  <2>1. BufferAfter(LastPackage.lio)'
    BY <1>1, <1>2, <1>3 DEF BufferAfter
  <2> QED BY <1>2, <1>3, <1>4, <2>1 DEF DrainedAtCut
<1>6. DrainedWhenSettled'
  BY <1>2 DEF DrainedWhenSettled, Settled
<1> QED
  BY <1>2, <1>5, <1>6, CutKeepsOrder DEF ImuInv, SteadyImu

\* The visual update settles a cycle only with the image of its cut: another
\* image, or a filter still initialising at the cut, leaves the times apart.
LEMMA VioKeepsImuInv ==
  ASSUME IInv, ImuInv, VioUpdate
  PROVE  ImuInv'
<1>1. /\ UNCHANGED <<imuVars, envVars>> /\ flg = "LIO" /\ flg' = "VIO"
      /\ needInit' = needInit
      /\ measures' = <<[lio |-> lastLio, vio |-> CaptureTime]>>
      /\ lastLio' = IF needInit THEN lastLio ELSE CaptureTime
  BY DEF VioUpdate
<1>2. LastPackage' = [lio |-> lastLio, vio |-> CaptureTime]
  BY <1>1 DEF LastPackage
<1>3. ASSUME Settled'
      PROVE  BufferAfter(lastLio)'
  <2>1. CaptureTime = lastLio /\ lastLio' = lastLio /\ lastLio \in Int
    BY <1>1, <1>2, <1>3, VioTimes DEF Settled
  <2>2. lastLio = LastPackage.lio /\ BufferAfter(LastPackage.lio)
    BY <1>1, <2>1 DEF ImuInv, DrainedAtCut
  <2> QED BY <1>1, <2>1, <2>2 DEF BufferAfter, imuVars
<1> QED
  BY <1>1, <1>3
  DEF ImuInv, ImuOrdered, SteadyImu, DrainedAtCut, DrainedWhenSettled,
      imuVars, envVars

\* A newer image only moves the capture time forward.
LEMMA ImageKeepsImuInv ==
  ASSUME IInv, ImuInv, NEW t \in ImgTimes, ImgAccept(t)
  PROVE  ImuInv'
<1>1. UNCHANGED <<imuVars, cutVars, filtVars, envVars>>
  BY DEF ImgAccept
<1>2. ASSUME flg = "LIO"
      PROVE  CaptureTime' >= CaptureTime /\ CaptureTime \in Nat /\ CaptureTime' \in Nat
  <2>1. imgBuf = <<lastImg>> /\ lastImg \in Nat
    BY <1>2 DEF IInv, ImageAhead, TypeOK, ImageStamped
  <2>2. t \in Nat /\ t >= lastImg
    BY <2>1, TimesAssumption DEF ImgAccept, ImgRejected
  <2>3. imgBuf' = <<t>>
    BY DEF ImgAccept
  <2> QED BY <2>1, <2>2, <2>3, LimitsAssumption DEF CaptureTime
<1>3. DrainedAtCut'
  <2>1. lastLio \in Int
    BY DEF IInv, TypeOK
  <2>2. UNCHANGED <<flg, lastLio, LastPackage, imuBuf, lastImu>>
    BY <1>1 DEF cutVars, imuVars, LastPackage
  <2>3. CASE flg = "LIO"
    <3>1. BufferAfter(LastPackage.lio)'
      BY <2>2, <2>3 DEF ImuInv, DrainedAtCut, BufferAfter
    <3>2. lastLio = LastPackage.lio \/ lastLio < CaptureTime
      BY <2>3 DEF ImuInv, DrainedAtCut
    <3> QED BY <1>2, <2>1, <2>2, <2>3, <3>1, <3>2 DEF DrainedAtCut
  <2>4. CASE flg # "LIO"
    BY <2>2, <2>4 DEF DrainedAtCut
  <2> QED BY <2>3, <2>4
<1> QED
  BY <1>1, <1>3
  DEF ImuInv, ImuOrdered, SteadyImu, DrainedWhenSettled, Settled, BufferAfter,
      LastPackage, imuVars, cutVars, filtVars, envVars

\* The steps that touch none of this, or only the times seen of the sensors.
LEMMA QuietKeepsImuInv ==
  ASSUME MaxRestarts = 0, IInv, ImuInv, [Next]_vars, ~LioUpdate, ~VioUpdate,
         ~(\E t \in ImuTimes : ImuAccept(t)), ~(\E t \in ImgTimes : ImgAccept(t))
  PROVE  ImuInv'
<1>1. ~LidarClockRestart
  BY DEF LidarClockRestart, ImuInv, SteadyImu
<1>2. UNCHANGED <<imuVars, flg, measures, needInit, restarts>>
  BY <1>1
  DEF Next, Forward, Iterate, vars, imuVars, cutVars, filtVars, envVars, LidarFrame,
      LidarEmptyCloud, ImuDrop, ThrowImage, LatchFirstTime
<1>3. imuClock' >= lastImu'
  <2>1. lastImu \in Int /\ imuClock \in Int /\ lastImu <= imuClock
    BY DEF IInv, TypeOK, ImuInv, SteadyImu
  <2>2. imuClock' = imuClock \/ (imuClock' \in Nat /\ imuClock' > imuClock)
    BY <1>1, TimesAssumption
    DEF Next, Forward, Iterate, vars, envVars, LidarFrame, LidarEmptyCloud, ImuDrop,
        ThrowImage, LatchFirstTime
  <2> QED BY <1>2, <2>1, <2>2 DEF imuVars
<1>4. flg # "WAIT" => lastLio' = lastLio
  <2>1. CASE ThrowImage \/ LatchFirstTime
    BY <2>1, CutTimes DEF ThrowImage, LatchFirstTime, IInv, LatchedOnce
  <2>2. CASE ~(ThrowImage \/ LatchFirstTime)
    BY <1>1, <2>2
    DEF Next, Forward, Iterate, vars, cutVars, LidarFrame, LidarEmptyCloud, ImuDrop
  <2> QED BY <2>1, <2>2
<1>5. flg = "LIO" => CaptureTime' = CaptureTime
  BY <1>1
  DEF Next, Forward, Iterate, vars, imgVars, LidarFrame, LidarEmptyCloud, ImuDrop,
      ThrowImage, LatchFirstTime, CaptureTime
<1>6. DrainedAtCut'
  BY <1>2, <1>4, <1>5
  DEF ImuInv, DrainedAtCut, BufferAfter, LastPackage, imuVars
<1>7. DrainedWhenSettled'
  BY <1>2, <1>4
  DEF ImuInv, DrainedWhenSettled, Settled, BufferAfter, LastPackage, imuVars
<1> QED
  BY <1>2, <1>3, <1>6, <1>7 DEF ImuInv, SteadyImu, ImuOrdered, imuVars

LEMMA ImuInvariance ==
  ASSUME MaxRestarts = 0
  PROVE  Spec => []ImuInv
<1>1. IInv /\ ImuInv /\ [Next]_vars => ImuInv'
  BY AcceptKeepsImuInv, CutKeepsImuInv, VioKeepsImuInv, ImageKeepsImuInv,
     QuietKeepsImuInv
<1> QED
  BY IInvariance, InitImuInv, <1>1, PTL DEF Spec

\* Every sample a lidar update pops is handed to the filter, once the last
\* cycle ran on one image.
THEOREM NoSampleDiscarded ==
  ASSUME MaxRestarts = 0
  PROVE  Spec => NoImuLost
<1>1. ASSUME IInv, ImuInv, LioUpdate, Settled
      PROVE  ImuPackage = SubSeq(imuBuf, 1, ImuPops)
  <2>1. imuBuf \in Seq(Nat) /\ lastLio \in Nat /\ LatchedLio = lastLio
    <3>1. lastLio \in Nat
      BY <1>1 DEF Settled, IInv, LatchedOnce
    <3> QED BY <1>1, <3>1 DEF IInv, TypeOK, LatchedLio
  <2>2. \A i \in 1..Len(imuBuf) : imuBuf[i] > lastLio
    BY <1>1 DEF ImuInv, DrainedWhenSettled, BufferAfter
  <2>3. UpTo(imuBuf, lastLio) = 0
    <3>1. /\ UpTo(imuBuf, lastLio) \in 0..Len(imuBuf)
          /\ \A i \in 1..UpTo(imuBuf, lastLio) : imuBuf[i] <= lastLio
      BY <2>1, UpToSplits
    <3>2. \A i \in 1..Len(imuBuf) : imuBuf[i] \in Nat
      BY <2>1
    <3>3. UpTo(imuBuf, lastLio) > 0 => 1 \in 1..UpTo(imuBuf, lastLio) /\ 1 \in 1..Len(imuBuf)
      BY <2>1, <3>1
    <3> QED BY <2>1, <2>2, <3>1, <3>2, <3>3
  <2> QED BY <2>1, <2>3 DEF ImuPackage
<1>2. IInv /\ ImuInv /\ [Next]_vars =>
        [LioUpdate /\ Settled => ImuPackage = SubSeq(imuBuf, 1, ImuPops)]_vars
  BY <1>1
<1> QED
  BY IInvariance, ImuInvariance, <1>2, PTL DEF Spec, NoImuLost

-----------------------------------------------------------------------------
(***************************************************************************)
(* The propagation: the last sample a filter has seen is no newer than the *)
(* image waiting, nor, once the cycle has settled, than the last update.   *)
(* This holds over restarts of the lidar's clock, too.                     *)
(***************************************************************************)
\* The steps of the loop in UndistortPcl are differences of the times from
\* the last update to this one when the samples between are in the package.
LEMMA PropagationCovers ==
  ASSUME NEW pkg \in Seq(Nat), Len(pkg) >= 2, NEW tail \in Nat, NEW beg \in Int, NEW end \in Int,
         tail <= beg, \A i \in 1..Len(pkg) : pkg[i] >= beg
  PROVE  Propagated(<<tail>> \o pkg, beg, end) = end - beg
<1> DEFINE v == <<tail>> \o pkg
           m == Len(pkg)
           f == [i \in 1..m |-> PropStep(v, i, beg, end)]
           c == [i \in 1..(m + 1) |-> IF i = 1 THEN beg ELSE IF i = m + 1 THEN end ELSE pkg[i - 1]]
<1>1. /\ m \in Nat /\ m >= 2 /\ Len(v) = m + 1 /\ v[1] = tail
      /\ \A i \in 1..m : v[i + 1] = pkg[i] /\ pkg[i] \in Nat /\ pkg[i] >= beg
  OBVIOUS
<1> HIDE DEF v, m
<1>2. c \in [1..(m + 1) -> Int]
  <2>1. \A i \in 1..(m + 1) : i # 1 => i - 1 \in 1..m
    BY <1>1
  <2> QED BY <1>1, <2>1
<1>3. ASSUME NEW i \in 1..m
      PROVE  PropStep(v, i, beg, end) = c[i + 1] - c[i]
  <2>1. i \in 1..(m + 1) /\ i + 1 \in 1..(m + 1) /\ i + 1 # 1 /\ (i + 1 = m + 1 <=> i = m)
    BY <1>1
  <2>2. v[i + 1] = pkg[i] /\ ~(v[i + 1] < beg)
    <3>1. v[i + 1] = pkg[i] /\ pkg[i] \in Int /\ pkg[i] >= beg
      BY <1>1
    <3> QED BY <3>1
  <2>3. c[i + 1] = IF i = m THEN end ELSE pkg[i]
    BY <2>1
  <2>4. CASE i = 1
    <3>1. i # Len(v) - 1 /\ i # m
      BY <1>1, <2>4
    <3>2. PropStep(v, i, beg, end) = IF tail < beg THEN pkg[i] - beg ELSE pkg[i] - tail
      BY <1>1, <2>2, <2>4, <3>1 DEF PropStep
    <3>3. c[i] = beg
      BY <2>1, <2>4
    <3> QED BY <2>3, <3>1, <3>2, <3>3
  <2>5. CASE i # 1
    <3>1. i - 1 \in 1..m /\ i - 1 + 1 = i
      BY <1>1, <2>5
    <3>2. v[i] = pkg[i - 1] /\ ~(v[i] < beg)
      BY <1>1, <3>1
    <3>3. c[i] = pkg[i - 1]
      BY <1>1, <2>1, <2>5
    <3>4. Len(v) - 1 = m
      BY <1>1
    <3>5. PropStep(v, i, beg, end) = IF i # m THEN pkg[i] - pkg[i - 1] ELSE end - pkg[i - 1]
      BY <2>2, <3>2, <3>4 DEF PropStep
    <3> QED BY <2>3, <3>3, <3>5
  <2> QED BY <2>4, <2>5
<1>4. /\ f \in [1..m -> Int] /\ \A i \in 1..m : f[i] = c[i + 1] - c[i]
  <2>1. \A i \in 1..m : c[i + 1] - c[i] \in Int
    <3>1. \A i \in 1..m : i \in 1..(m + 1) /\ i + 1 \in 1..(m + 1)
      BY <1>1
    <3> HIDE DEF c
    <3>2. \A i \in 1..m : c[i + 1] \in Int /\ c[i] \in Int
      BY <1>2, <3>1
    <3> QED BY <3>2
  <2> HIDE DEF c
  <2> QED BY <1>3, <2>1
<1>5. c[m + 1] = end /\ c[1] = beg
  BY <1>1
<1> HIDE DEF c, f
<1>6. SumFunction(f) = end - beg
  BY <1>1, <1>2, <1>4, <1>5, SumTelescopes
<1>7. Propagated(v, beg, end) = SumFunction(f)
  BY <1>1 DEF Propagated, f
<1> QED BY <1>6, <1>7 DEF v

TailSeen ==
  /\ tailImu <= lastImg + ExposureInit \/ tailImu = 0
  /\ flg = "VIO" /\ ~needInit => lastPropEnd = lastLio /\ tailImu <= lastLio

\* The samples of a package are later than the last update and no later than
\* the image.
LEMMA PackageWindow ==
  ASSUME IInv, ImuOrdered, BuffersReady
  PROVE  /\ ImuPackage \in Seq(Nat)
         /\ \A i \in 1..Len(ImuPackage) :
              ImuPackage[i] > LatchedLio /\ ImuPackage[i] <= CaptureTime
<1> DEFINE a == UpTo(imuBuf, LatchedLio)
           b == ImuPops
<1>1. /\ imuBuf \in Seq(Nat) /\ LatchedLio \in Nat /\ CaptureTime \in Nat
      /\ ImuPackage \in Seq(Nat)
  BY CutTimes, ImuPackageType DEF IInv, TypeOK
<1>2. /\ a \in 0..Len(imuBuf) /\ (a < Len(imuBuf) => imuBuf[a + 1] > LatchedLio)
      /\ b \in 0..Len(imuBuf) /\ \A i \in 1..b : imuBuf[i] <= CaptureTime
  BY <1>1, UpToSplits DEF ImuPops
<1>3. ImuPackage = SubSeq(imuBuf, a + 1, b)
  BY DEF ImuPackage
<1> HIDE DEF a, b
<1>4. \A i \in (a + 1)..b : imuBuf[i] \in Nat
  BY <1>1, <1>2
<1>5. a + 1 \in Int /\ b \in Int /\ Len(imuBuf) \in Nat
  BY <1>1, <1>2
<1>6. /\ Len(ImuPackage) = IF a + 1 <= b THEN b - (a + 1) + 1 ELSE 0
      /\ \A i \in 1..(b - (a + 1) + 1) : ImuPackage[i] = imuBuf[(a + 1) + i - 1]
  BY <1>3, <1>4, <1>5, SubSeqProperties
<1>7. ASSUME NEW i \in 1..Len(ImuPackage)
      PROVE  ImuPackage[i] > LatchedLio /\ ImuPackage[i] <= CaptureTime
  <2>1. /\ i \in 1..(b - (a + 1) + 1) /\ (a + 1) + i - 1 = a + i
        /\ a + i \in 1..b /\ a + i \in 1..Len(imuBuf) /\ a + 1 \in 1..Len(imuBuf)
        /\ a + 1 <= a + i /\ a < Len(imuBuf)
    BY <1>2, <1>5, <1>6
  <2>2. ImuPackage[i] = imuBuf[a + i]
    BY <1>6, <2>1
  <2>3. imuBuf[a + 1] <= imuBuf[a + i]
    BY <2>1 DEF ImuOrdered
  <2>4. imuBuf[a + 1] \in Nat /\ imuBuf[a + i] \in Nat
    BY <1>1, <2>1
  <2>5. imuBuf[a + 1] > LatchedLio /\ imuBuf[a + i] <= CaptureTime
    BY <1>2, <2>1
  <2> QED BY <1>1, <2>2, <2>3, <2>4, <2>5
<1> QED BY <1>1, <1>7

\* The newest image is the one waiting.
LEMMA ImageIsNewest ==
  ASSUME IInv, BuffersReady
  PROVE  CaptureTime = lastImg + ExposureInit /\ lastImg \in Nat
<1>1. imgBuf = <<lastImg>> /\ lastImg \in Nat
  BY DEF IInv, TypeOK, ImageStamped, BuffersReady
<1> QED BY <1>1 DEF CaptureTime

LEMMA CutKeepsTail ==
  ASSUME IInv, ImuOrdered, TailSeen, LioUpdate
  PROVE  TailSeen'
<1>1. BuffersReady /\ flg' = "LIO" /\ lastImg' = lastImg
  BY DEF LioUpdate, imgVars
<1>2. tailImu' = tailImu \/ (ImuPackage # <<>> /\ tailImu' = ImuPackage[Len(ImuPackage)])
  BY DEF LioUpdate, InitialiseImu, UndistortLio
<1>3. ImuPackage # <<>> => ImuPackage[Len(ImuPackage)] <= CaptureTime
  <2>1. ImuPackage \in Seq(Nat)
    BY <1>1, PackageWindow
  <2>2. ImuPackage # <<>> => Len(ImuPackage) \in 1..Len(ImuPackage)
    BY <2>1
  <2> QED BY <1>1, <2>2, PackageWindow
<1> QED BY <1>1, <1>2, <1>3, ImageIsNewest DEF TailSeen

LEMMA VioKeepsTail ==
  ASSUME IInv, TailSeen, VioUpdate
  PROVE  TailSeen'
<1>1. /\ BuffersReady /\ UNCHANGED <<lastImg, needInit, tailImu>>
      /\ ~needInit => lastLio' = CaptureTime /\ lastPropEnd' = CaptureTime
  BY DEF VioUpdate
<1>2. CaptureTime = lastImg + ExposureInit /\ CaptureTime \in Nat
  BY <1>1, ImageIsNewest, CutTimes
<1>3. tailImu <= CaptureTime
  BY <1>2 DEF TailSeen
<1> QED BY <1>1, <1>2, <1>3 DEF TailSeen

LEMMA ImageKeepsTail ==
  ASSUME IInv, TailSeen, NEW t \in ImgTimes, ImgAccept(t)
  PROVE  TailSeen'
<1>1. /\ lastImg' = t /\ t \in Nat /\ lastImg \in Int /\ t >= lastImg
      /\ UNCHANGED <<flg, needInit, lastPropEnd, lastLio, tailImu>>
  BY TimesAssumption DEF ImgAccept, ImgRejected, cutVars, filtVars, IInv, TypeOK
<1>2. ExposureInit \in Nat /\ tailImu \in Nat
  BY LimitsAssumption DEF IInv, TypeOK
<1> QED BY <1>1, <1>2 DEF TailSeen

LEMMA OtherKeepsTail ==
  ASSUME IInv, TailSeen, [Next]_vars, ~LioUpdate, ~VioUpdate,
         ~(\E t \in ImgTimes : ImgAccept(t))
  PROVE  TailSeen'
<1>1. UNCHANGED <<lastImg, flg, filtVars>>
  BY DEF Next, Forward, Iterate, vars, imgVars, cutVars, LidarFrame, LidarEmptyCloud,
         ImuAccept, ImuDrop, LidarClockRestart, ThrowImage, LatchFirstTime
<1>2. flg = "VIO" => lastLio' = lastLio
  <2>1. CASE ThrowImage \/ LatchFirstTime
    BY <2>1, CutTimes DEF ThrowImage, LatchFirstTime, IInv, LatchedOnce
  <2>2. CASE ~(ThrowImage \/ LatchFirstTime)
    BY <2>2 DEF Next, Forward, Iterate, vars, cutVars, LidarFrame, LidarEmptyCloud,
                ImuAccept, ImuDrop, LidarClockRestart
  <2> QED BY <2>1, <2>2
<1> QED BY <1>1, <1>2 DEF TailSeen, filtVars

LEMMA TailInvariance == Spec => []TailSeen
<1>1. Init => TailSeen
  BY DEF Init, TailSeen
<1>2. IInv /\ ImuOrdered /\ TailSeen /\ [Next]_vars => TailSeen'
  BY CutKeepsTail, VioKeepsTail, ImageKeepsTail, OtherKeepsTail
<1> QED
  BY IInvariance, OrderInvariance, <1>1, <1>2, PTL DEF Spec

\* UndistortPcl propagates the filter over exactly the time between two
\* updates, once the last cycle ran on one image and the package holds two
\* samples: also after the clock of the lidar has jumped back.
THEOREM PropagatedOverTheGap == Spec => FullyPropagated
<1>1. ASSUME IInv, ImuOrdered, TailSeen, LioUpdate, Settled, Len(ImuPackage) >= 2
      PROVE  Propagated(<<tailImu>> \o ImuPackage, lastPropEnd, CaptureTime)
               = CaptureTime - lastLio
  <2>1. BuffersReady /\ CaptureTime \in Nat
    BY <1>1, LioTimes DEF LioUpdate
  <2>2. /\ lastLio \in Nat /\ LatchedLio = lastLio /\ tailImu \in Nat
        /\ lastPropEnd = lastLio /\ tailImu <= lastLio
    BY <1>1, <2>1, CutTimes DEF Settled, TailSeen, IInv, LatchedOnce, TypeOK
  <2>3. /\ ImuPackage \in Seq(Nat)
        /\ \A i \in 1..Len(ImuPackage) : ImuPackage[i] \in Nat /\ ImuPackage[i] > lastLio
    <3>1. ImuPackage \in Seq(Nat)
      BY <1>1, <2>1, PackageWindow
    <3> QED BY <1>1, <2>1, <2>2, <3>1, PackageWindow
  <2>4. \A i \in 1..Len(ImuPackage) : ImuPackage[i] >= lastPropEnd
    BY <2>2, <2>3
  <2>5. tailImu <= lastPropEnd /\ lastPropEnd \in Int /\ CaptureTime \in Int
    BY <2>1, <2>2
  <2>6. Propagated(<<tailImu>> \o ImuPackage, lastPropEnd, CaptureTime)
          = CaptureTime - lastPropEnd
    BY <1>1, <2>2, <2>3, <2>4, <2>5, PropagationCovers
  <2> QED BY <2>2, <2>6
<1>2. IInv /\ ImuOrdered /\ TailSeen /\ [Next]_vars =>
        [LioUpdate /\ Settled /\ Len(ImuPackage) >= 2
           => Propagated(<<tailImu>> \o ImuPackage, lastPropEnd, CaptureTime)
                = CaptureTime - lastLio]_vars
  BY <1>1
<1> QED
  BY IInvariance, OrderInvariance, TailInvariance, <1>2, PTL DEF Spec, FullyPropagated

-----------------------------------------------------------------------------
(***************************************************************************)
(* The points: a cut takes every cloud that has begun, what it sets aside  *)
(* lies between it and the end of a scan, and the next image is further    *)
(* ahead than that.  Scans must not overlap and must be no longer than the *)
(* least spacing of images.                                                *)
(***************************************************************************)
ScansApart == \A s, t \in LidarTimes : s < t => s + ScanLen <= t

CloudsOrdered ==
  /\ \A i, j \in 1..Len(lidRaw) : i <= j => lidRaw[i] <= lidRaw[j]
  /\ \A i \in 1..Len(lidRaw) : lidRaw[i] <= lidClock /\ lidRaw[i] \in LidarTimes

\* No buffered cloud begins before c, and none will.
CloudsFrom(c) ==
  /\ \A i \in 1..Len(lidRaw) : lidRaw[i] >= c
  /\ \A t \in LidarTimes : t > lidClock => t >= c

SetAside(c) == \A p \in procNext : p.cur = p.abs - c /\ p.abs >= c /\ p.abs <= c + ScanLen

ImageApart(c) == lastImg + ExposureInit >= c + (IF imgBuf = <<>> THEN 0 ELSE MinImgGap)

WindowAtCut == flg = "LIO" => CloudsFrom(LastPackage.lio) /\ SetAside(LastPackage.lio)
WindowSettled == Settled => CloudsFrom(lastLio) /\ SetAside(lastLio) /\ ImageApart(lastLio)

WindowInv == CloudsOrdered /\ WindowAtCut /\ WindowSettled

LEMMA InitWindowInv == Init => WindowInv
BY DEF Init, WindowInv, CloudsOrdered, WindowAtCut, WindowSettled, Settled

\* A lidar frame goes behind the clouds there are; some may go at the front.
LEMMA FrameIs ==
  ASSUME lidRaw \in Seq(Nat), lastLidar \in Int, lidClock \in Int, SteadyClock,
         NEW t \in LidarTimes, LidarFrame(t)
  PROVE  \E n \in Nat :
           /\ Len(lidRaw') = Len(lidRaw) + 1 - n
           /\ \A i \in 1..Len(lidRaw') :
                lidRaw'[i] = IF n + i <= Len(lidRaw) THEN lidRaw[n + i] ELSE t
<1> DEFINE raw == Append(lidRaw, t)
           n == Surplus(raw)
<1>1. t \in Nat
  BY TimesAssumption
<1>2. KeptClouds(t) = lidRaw
  BY <1>1 DEF LidarFrame, KeptClouds, SteadyClock
<1>3. lidRaw' = SubSeq(raw, n + 1, Len(raw))
  BY <1>2 DEF LidarFrame
<1>4. /\ raw \in Seq(Nat) /\ Len(raw) = Len(lidRaw) + 1 /\ Len(lidRaw) \in Nat
      /\ \A i \in 1..Len(raw) : raw[i] = IF i <= Len(lidRaw) THEN lidRaw[i] ELSE t
  BY <1>1
<1> HIDE DEF raw
<1>5. n \in 0..Len(raw)
  BY <1>4, LimitsAssumption DEF Surplus
<1> HIDE DEF n
<1>6. \A i \in (n + 1)..Len(raw) : raw[i] \in Nat
  BY <1>4, <1>5
<1>7. /\ Len(lidRaw') = IF n + 1 <= Len(raw) THEN Len(raw) - (n + 1) + 1 ELSE 0
      /\ \A i \in 1..(Len(raw) - (n + 1) + 1) : lidRaw'[i] = raw[(n + 1) + i - 1]
  <2>1. n + 1 \in Int /\ Len(raw) \in Int
    BY <1>4, <1>5
  <2> QED BY <1>3, <1>6, <2>1, SubSeqProperties
<1>8. Len(lidRaw') = Len(lidRaw) + 1 - n
  BY <1>4, <1>5, <1>7
<1>9. ASSUME NEW i \in 1..Len(lidRaw')
      PROVE  lidRaw'[i] = IF n + i <= Len(lidRaw) THEN lidRaw[n + i] ELSE t
  <2>1. n + i \in 1..Len(raw) /\ i \in 1..(Len(raw) - (n + 1) + 1) /\ (n + 1) + i - 1 = n + i
    BY <1>4, <1>5, <1>8
  <2>2. lidRaw'[i] = raw[n + i]
    BY <1>7, <2>1
  <2> QED BY <1>4, <2>1, <2>2
<1>10. n \in Nat
  BY <1>4, <1>5
<1> QED BY <1>8, <1>9, <1>10

LEMMA FrameKeepsClouds ==
  ASSUME lidRaw \in Seq(Nat), lastLidar \in Int, lidClock \in Int, SteadyClock, CloudsOrdered,
         NEW t \in LidarTimes, LidarFrame(t)
  PROVE  /\ SteadyClock' /\ CloudsOrdered'
         /\ \A i \in 1..Len(lidRaw') :
              lidRaw'[i] = t \/ \E j \in 1..Len(lidRaw) : lidRaw'[i] = lidRaw[j]
<1>1. PICK n \in Nat :
        /\ Len(lidRaw') = Len(lidRaw) + 1 - n
        /\ \A i \in 1..Len(lidRaw') :
             lidRaw'[i] = IF n + i <= Len(lidRaw) THEN lidRaw[n + i] ELSE t
  BY FrameIs
<1>2. /\ t \in Nat /\ Len(lidRaw) \in Nat /\ \A i \in 1..Len(lidRaw) : lidRaw[i] \in Nat
      /\ t > lidClock /\ lidClock' = t
  BY TimesAssumption DEF LidarFrame
<1>3. \A i \in 1..Len(lidRaw') : \/ n + i \in 1..Len(lidRaw) /\ lidRaw'[i] = lidRaw[n + i]
                                 \/ ~(n + i <= Len(lidRaw)) /\ lidRaw'[i] = t
  BY <1>1, <1>2
<1>4. ASSUME NEW i \in 1..Len(lidRaw')
      PROVE  lidRaw'[i] <= lidClock' /\ lidRaw'[i] \in LidarTimes
  <2>1. CASE n + i \in 1..Len(lidRaw) /\ lidRaw'[i] = lidRaw[n + i]
    <3>1. lidRaw[n + i] <= lidClock /\ lidRaw[n + i] \in LidarTimes /\ lidRaw[n + i] \in Nat
      BY <1>2, <2>1 DEF CloudsOrdered
    <3> QED BY <1>2, <2>1, <3>1
  <2>2. CASE lidRaw'[i] = t
    BY <1>2, <2>2
  <2> QED BY <1>3, <2>1, <2>2
<1>5. ASSUME NEW i \in 1..Len(lidRaw'), NEW j \in 1..Len(lidRaw'), i <= j
      PROVE  lidRaw'[i] <= lidRaw'[j]
  <2>1. CASE ~(n + j <= Len(lidRaw))
    <3>1. lidRaw'[j] = t
      BY <1>3, <2>1
    <3> QED BY <1>2, <1>4, <3>1
  <2>2. CASE n + j <= Len(lidRaw)
    <3>1. n + i <= n + j /\ n + i <= Len(lidRaw)
      BY <1>1, <1>2, <1>5, <2>2
    <3>2. /\ n + i \in 1..Len(lidRaw) /\ lidRaw'[i] = lidRaw[n + i]
          /\ n + j \in 1..Len(lidRaw) /\ lidRaw'[j] = lidRaw[n + j]
      BY <1>3, <2>2, <3>1
    <3> QED BY <3>1, <3>2 DEF CloudsOrdered
  <2> QED BY <2>1, <2>2
<1>6. CloudsOrdered'
  BY <1>4, <1>5 DEF CloudsOrdered
<1>7. SteadyClock'
  <2>1. KeptClouds(t) = lidRaw /\ lidHdr = lidRaw /\ restarts = 0
    BY <1>2 DEF LidarFrame, KeptClouds, SteadyClock
  <2>2. lidHdr' = lidRaw' /\ lastLidar' = t /\ restarts' = 0
    BY <2>1 DEF LidarFrame
  <2> QED BY <1>2, <2>2 DEF SteadyClock
<1> QED BY <1>3, <1>6, <1>7

LEMMA FrameKeepsWindow ==
  ASSUME IInv, SteadyClock, WindowInv, NEW t \in LidarTimes, LidarFrame(t)
  PROVE  WindowInv'
<1>1. lidRaw \in Seq(Nat) /\ lastLidar \in Int /\ lidClock \in Int
  BY DEF IInv, TypeOK
<1>2. /\ t \in Nat /\ lidClock \in Int /\ Len(lidRaw) \in Nat
      /\ \A i \in 1..Len(lidRaw) : lidRaw[i] \in Nat
      /\ LidarTimes \subseteq Nat
  BY TimesAssumption DEF IInv, TypeOK
<1>3. /\ t > lidClock /\ lidClock' = t
      /\ UNCHANGED <<imgVars, cutVars, filtVars>>
  BY DEF LidarFrame
<1>4. /\ CloudsOrdered'
      /\ \A i \in 1..Len(lidRaw') :
           lidRaw'[i] = t \/ \E j \in 1..Len(lidRaw) : lidRaw'[i] = lidRaw[j]
  BY <1>1, FrameKeepsClouds DEF WindowInv
<1>5. ASSUME NEW c \in Int, CloudsFrom(c)
      PROVE  CloudsFrom(c)'
  <2>1. \A i \in 1..Len(lidRaw') : lidRaw'[i] >= c
    BY <1>3, <1>4, <1>5 DEF CloudsFrom
  <2>2. \A s \in LidarTimes : s > lidClock' => s >= c
    BY <1>2, <1>3, <1>5 DEF CloudsFrom
  <2> QED BY <2>1, <2>2 DEF CloudsFrom
<1>6. WindowAtCut'
  <2> SUFFICES ASSUME flg = "LIO"
               PROVE  CloudsFrom(LastPackage.lio)' /\ SetAside(LastPackage.lio)'
    BY <1>3 DEF WindowAtCut, cutVars
  <2>1. LastPackage' = LastPackage /\ LastPackage.lio \in Int
    BY <1>3, LastPackageType DEF IInv, ImageAhead, cutVars, LastPackage
  <2>2. CloudsFrom(LastPackage.lio) /\ SetAside(LastPackage.lio)
    BY DEF WindowInv, WindowAtCut
  <2>3. \A i \in 1..Len(lidRaw') : lidRaw'[i] >= LastPackage.lio
    BY <1>5, <2>1, <2>2 DEF CloudsFrom
  <2>4. \A s \in LidarTimes : s > lidClock' => s >= LastPackage.lio
    BY <1>5, <2>1, <2>2 DEF CloudsFrom
  <2> QED BY <1>3, <2>1, <2>2, <2>3, <2>4 DEF CloudsFrom, SetAside, cutVars
<1>7. WindowSettled'
  <2> SUFFICES ASSUME Settled
               PROVE  CloudsFrom(lastLio)' /\ SetAside(lastLio)' /\ ImageApart(lastLio)'
    BY <1>3 DEF WindowSettled, Settled, cutVars, filtVars, LastPackage
  <2>1. lastLio' = lastLio /\ lastLio \in Int
    BY <1>3 DEF IInv, TypeOK, cutVars
  <2>2. CloudsFrom(lastLio) /\ SetAside(lastLio) /\ ImageApart(lastLio)
    BY DEF WindowInv, WindowSettled
  <2>3. \A i \in 1..Len(lidRaw') : lidRaw'[i] >= lastLio
    BY <1>5, <2>1, <2>2 DEF CloudsFrom
  <2>4. \A s \in LidarTimes : s > lidClock' => s >= lastLio
    BY <1>5, <2>1, <2>2 DEF CloudsFrom
  <2> QED BY <1>3, <2>1, <2>2, <2>3, <2>4
          DEF CloudsFrom, SetAside, ImageApart, cutVars, imgVars
<1> QED BY <1>4, <1>6, <1>7 DEF WindowInv

\* An empty cloud only shows how late it is.
LEMMA EmptyCloudKeepsWindow ==
  ASSUME IInv, SteadyClock, WindowInv, NEW t \in LidarTimes, LidarEmptyCloud(t)
  PROVE  WindowInv'
<1>1. /\ t \in Nat /\ lastLidar \in Int /\ lidClock \in Int /\ LidarTimes \subseteq Nat
      /\ lidRaw \in Seq(Nat)
  BY TimesAssumption DEF IInv, TypeOK
<1>2. /\ t > lidClock /\ lidClock' = t /\ lidRaw' = lidRaw
      /\ UNCHANGED <<imgVars, cutVars, filtVars>>
  BY <1>1 DEF LidarEmptyCloud, KeptClouds, SteadyClock
<1>3. CloudsOrdered'
  BY <1>1, <1>2 DEF WindowInv, CloudsOrdered
<1>4. \A c \in Int : CloudsFrom(c) => /\ \A i \in 1..Len(lidRaw') : lidRaw'[i] >= c
                                      /\ \A s \in LidarTimes : s > lidClock' => s >= c
  BY <1>1, <1>2 DEF CloudsFrom
<1>5. WindowAtCut'
  <2> SUFFICES ASSUME flg = "LIO"
               PROVE  CloudsFrom(LastPackage.lio)' /\ SetAside(LastPackage.lio)'
    BY <1>2 DEF WindowAtCut, cutVars
  <2>1. LastPackage' = LastPackage /\ LastPackage.lio \in Int
    BY <1>2, LastPackageType DEF IInv, ImageAhead, cutVars, LastPackage
  <2> QED BY <1>2, <1>4, <2>1 DEF WindowInv, WindowAtCut, CloudsFrom, SetAside, cutVars
<1>6. WindowSettled'
  <2> SUFFICES ASSUME Settled
               PROVE  CloudsFrom(lastLio)' /\ SetAside(lastLio)' /\ ImageApart(lastLio)'
    BY <1>2 DEF WindowSettled, Settled, cutVars, filtVars, LastPackage
  <2>1. lastLio' = lastLio /\ lastLio \in Int
    BY <1>2 DEF IInv, TypeOK, cutVars
  <2> QED BY <1>2, <1>4, <2>1
          DEF WindowInv, WindowSettled, CloudsFrom, SetAside, ImageApart, cutVars, imgVars
<1> QED BY <1>3, <1>5, <1>6 DEF WindowInv

\* What a lidar update leaves in the cloud buffer: the clouds after the cut.
LEMMA CutClouds ==
  ASSUME IInv, SteadyClock, WindowInv, LioUpdate
  PROVE  /\ CloudPops \in 0..Len(lidRaw) /\ lidRaw \in Seq(Nat) /\ CaptureTime \in Nat
         /\ Len(lidRaw') = Len(lidRaw) - CloudPops
         /\ \A i \in 1..Len(lidRaw') : lidRaw'[i] = lidRaw[CloudPops + i]
         /\ \A i \in 1..CloudPops : lidRaw[i] <= CaptureTime
         /\ \A i \in 1..Len(lidRaw') : lidRaw'[i] > CaptureTime
<1>1. lidRaw \in Seq(Nat) /\ Len(lidRaw) \in Nat /\ CaptureTime \in Nat
  BY LioTimes DEF IInv, TypeOK
<1>2. CloudPops = UpTo(lidRaw, CaptureTime)
  <2>1. SubSeq(lidRaw, 1, Len(lidRaw)) = lidRaw
    BY <1>1
  <2> QED BY <2>1 DEF CloudPops, SteadyClock
<1>3. /\ CloudPops \in 0..Len(lidRaw)
      /\ \A i \in 1..CloudPops : lidRaw[i] <= CaptureTime
      /\ CloudPops < Len(lidRaw) => lidRaw[CloudPops + 1] > CaptureTime
  BY <1>1, <1>2, UpToSplits
<1>4. \A i \in (CloudPops + 1)..Len(lidRaw) : lidRaw[i] \in Nat
  BY <1>1, <1>3
<1>5. /\ Len(lidRaw') = Len(lidRaw) - CloudPops
      /\ \A i \in 1..Len(lidRaw') : lidRaw'[i] = lidRaw[CloudPops + i]
  <2>1. lidRaw' = SubSeq(lidRaw, CloudPops + 1, Len(lidRaw))
    BY DEF LioUpdate
  <2>2. CloudPops + 1 \in Int /\ Len(lidRaw) \in Int
    BY <1>1, <1>3
  <2>3. /\ Len(lidRaw') = IF CloudPops + 1 <= Len(lidRaw) THEN Len(lidRaw) - (CloudPops + 1) + 1 ELSE 0
        /\ \A i \in 1..(Len(lidRaw) - (CloudPops + 1) + 1) :
             lidRaw'[i] = lidRaw[(CloudPops + 1) + i - 1]
    BY <1>4, <2>1, <2>2, SubSeqProperties
  <2> QED BY <1>1, <1>3, <2>3
<1>6. ASSUME NEW i \in 1..Len(lidRaw')
      PROVE  lidRaw'[i] > CaptureTime
  <2>1. /\ CloudPops + 1 \in 1..Len(lidRaw) /\ CloudPops + i \in 1..Len(lidRaw)
        /\ CloudPops + 1 <= CloudPops + i /\ CloudPops < Len(lidRaw)
    BY <1>1, <1>3, <1>5
  <2>2. lidRaw[CloudPops + 1] <= lidRaw[CloudPops + i]
    BY <2>1 DEF WindowInv, CloudsOrdered
  <2>3. lidRaw[CloudPops + 1] \in Nat /\ lidRaw[CloudPops + i] \in Nat
    BY <1>1, <2>1
  <2> QED BY <1>1, <1>3, <1>5, <2>1, <2>2, <2>3
<1> QED BY <1>1, <1>3, <1>5, <1>6

\* A point of a cloud a cut pops, as it is stored.
LEMMA CutPoint ==
  ASSUME IInv, SteadyClock, WindowInv, LioUpdate, NEW io \in CutOffsets, NEW from \in Nat
  PROVE  /\ io[1] \in 1..Len(lidRaw) /\ lidRaw[io[1]] \in Nat /\ lidRaw[io[1]] <= CaptureTime
         /\ io[2] \in 0..ScanLen
         /\ Stored(io, from).abs = lidRaw[io[1]] + io[2]
         /\ Stored(io, from).cur = Stored(io, from).abs - from
         /\ BeforeCut(io) <=> Stored(io, from).abs < CaptureTime
<1>1. io[1] \in 1..CloudPops /\ io[2] \in 0..ScanLen
  BY DEF CutOffsets
<1>2. io[1] \in 1..Len(lidRaw) /\ lidRaw[io[1]] <= CaptureTime
  BY <1>1, CutClouds
<1>3. lidRaw[io[1]] \in Nat /\ CaptureTime \in Nat /\ io[2] \in Nat
  BY <1>1, <1>2, CutClouds, LimitsAssumption
<1>4. lidHdr = lidRaw
  BY DEF SteadyClock
<1>5. /\ Stored(io, from).abs = lidRaw[io[1]] + io[2]
      /\ Stored(io, from).cur = io[2] + lidRaw[io[1]] - from
  BY <1>4 DEF Stored
<1> QED BY <1>1, <1>2, <1>3, <1>4, <1>5 DEF BeforeCut

LEMMA CutKeepsWindow ==
  ASSUME ScansApart, IInv, SteadyClock, WindowInv, LioUpdate
  PROVE  WindowInv'
<1>1. /\ flg' = "LIO" /\ lidClock' = lidClock /\ LastPackage'.lio = CaptureTime
  <2>1. /\ measures \in Seq(Package)
        /\ [lio |-> CaptureTime, vio |-> 0] \in Package
    BY LioTimes DEF IInv, TypeOK, Package
  <2>2. measures' = Append(measures, [lio |-> CaptureTime, vio |-> 0])
    BY DEF LioUpdate
  <2> QED BY <2>1, <2>2 DEF LastPackage, LioUpdate, envVars
<1>2. CloudsOrdered'
  <2>1. /\ \A i \in 1..Len(lidRaw') : CloudPops + i \in 1..Len(lidRaw)
        /\ \A i, j \in 1..Len(lidRaw') : i <= j => CloudPops + i <= CloudPops + j
    BY CutClouds
  <2> QED BY <1>1, <2>1, CutClouds DEF WindowInv, CloudsOrdered
<1>3. \A t \in LidarTimes : t > lidClock => t >= CaptureTime
  <2> SUFFICES ASSUME NEW t \in LidarTimes, t > lidClock PROVE t >= CaptureTime
    OBVIOUS
  <2> DEFINE last == lidRaw[Len(lidRaw)]
  <2>1. lidRaw # <<>> /\ CaptureTime <= last + ScanLen
    BY DEF LioUpdate, BuffersReady, DataComplete, SteadyClock
  <2>2. Len(lidRaw) \in 1..Len(lidRaw)
    BY <2>1, CutClouds
  <2>3. last <= lidClock /\ last \in LidarTimes
    BY <2>2 DEF WindowInv, CloudsOrdered
  <2> HIDE DEF last
  <2>4. /\ last \in Nat /\ t \in Nat /\ lidClock \in Int
        /\ CaptureTime \in Nat /\ ScanLen \in Nat
    <3>1. lidClock \in Int
      BY DEF IInv, TypeOK
    <3>2. CaptureTime \in Nat
      BY CutClouds
    <3> QED BY <2>3, <3>1, <3>2, TimesAssumption, LimitsAssumption
  <2>5. last + ScanLen <= t
    <3>1. last < t
      BY <2>3, <2>4
    <3> QED BY <2>3, <3>1 DEF ScansApart
  <2> QED BY <2>1, <2>4, <2>5
<1>4. \A i \in 1..Len(lidRaw') : lidRaw'[i] >= CaptureTime
  <2>1. \A i \in 1..Len(lidRaw') : lidRaw'[i] \in Nat
    BY CutClouds
  <2> QED BY <2>1, CutClouds
<1>5. ASSUME NEW p \in procNext'
      PROVE  p.cur = p.abs - CaptureTime /\ p.abs >= CaptureTime /\ p.abs <= CaptureTime + ScanLen
  <2>1. PICK io \in CutOffsets : ~BeforeCut(io) /\ p = Stored(io, CaptureTime)
    BY DEF LioUpdate, NextPoints
  <2>2. CaptureTime \in Nat
    BY CutClouds
  <2> QED BY <2>1, <2>2, CutPoint, LimitsAssumption
<1>6. WindowAtCut'
  BY <1>1, <1>3, <1>4, <1>5 DEF WindowAtCut, CloudsFrom, SetAside
<1>7. WindowSettled'
  BY <1>1 DEF WindowSettled, Settled
<1> QED BY <1>2, <1>6, <1>7 DEF WindowInv

\* A visual update that settles the cycle moves the time to the cut of its
\* lidar update; what that cut left is then measured from the new time.
LEMMA VioKeepsWindow ==
  ASSUME IInv, ImuInv, WindowInv, VioUpdate
  PROVE  WindowInv'
<1>1. /\ UNCHANGED <<lidarVars, envVars, procNext, lastImg>>
      /\ flg = "LIO" /\ flg' = "VIO" /\ imgBuf # <<>> /\ imgBuf' = Tail(imgBuf)
      /\ needInit' = needInit
      /\ measures' = <<[lio |-> lastLio, vio |-> CaptureTime]>>
      /\ lastLio' = IF needInit THEN lastLio ELSE CaptureTime
  BY DEF VioUpdate, BuffersReady
<1>2. LastPackage' = [lio |-> lastLio, vio |-> CaptureTime]
  BY <1>1 DEF LastPackage
<1>3. CloudsOrdered'
  BY <1>1 DEF WindowInv, CloudsOrdered, lidarVars, envVars
<1>4. WindowAtCut'
  BY <1>1 DEF WindowAtCut
<1>5. WindowSettled'
  <2> SUFFICES ASSUME Settled'
               PROVE  CloudsFrom(lastLio)' /\ SetAside(lastLio)' /\ ImageApart(lastLio)'
    BY DEF WindowSettled
  <2>1. CaptureTime = lastLio /\ lastLio' = lastLio /\ lastLio \in Int
    BY <1>1, <1>2, VioTimes DEF Settled
  <2>2. lastLio = LastPackage.lio /\ CloudsFrom(lastLio) /\ SetAside(lastLio)
    BY <1>1, <2>1 DEF ImuInv, DrainedAtCut, WindowInv, WindowAtCut
  <2>3. CloudsFrom(lastLio)' /\ SetAside(lastLio)'
    BY <1>1, <2>1, <2>2 DEF CloudsFrom, SetAside, lidarVars, envVars
  <2>4. imgBuf = <<lastImg>> /\ lastImg \in Nat
    BY <1>1 DEF IInv, TypeOK, ImageStamped
  <2>5. imgBuf' = <<>> /\ lastImg' + ExposureInit = lastLio
    BY <1>1, <2>1, <2>4 DEF CaptureTime
  <2> QED BY <2>1, <2>3, <2>5 DEF ImageApart
<1> QED BY <1>3, <1>4, <1>5 DEF WindowInv

\* An accepted image is at least MinImgGap after the last one.
LEMMA ImageKeepsWindow ==
  ASSUME IInv, WindowInv, NEW t \in ImgTimes, ImgAccept(t)
  PROVE  WindowInv'
<1>1. /\ UNCHANGED <<lidarVars, imuVars, cutVars, filtVars, envVars>>
      /\ imgBuf' = <<t>> /\ lastImg' = t /\ ~(t - lastImg < MinImgGap)
  BY DEF ImgAccept, ImgRejected
<1>2. /\ t \in Nat /\ lastImg \in Int /\ lastLio \in Int
      /\ MinImgGap \in Nat /\ ExposureInit \in Nat
  BY TimesAssumption, LimitsAssumption DEF IInv, TypeOK
<1>3. CloudsOrdered' /\ WindowAtCut'
  BY <1>1
  DEF WindowInv, CloudsOrdered, WindowAtCut, CloudsFrom, SetAside, LastPackage,
      lidarVars, cutVars, envVars
<1>4. WindowSettled'
  <2> SUFFICES ASSUME Settled
               PROVE  CloudsFrom(lastLio)' /\ SetAside(lastLio)' /\ ImageApart(lastLio)'
    BY <1>1 DEF WindowSettled, Settled, cutVars, filtVars, LastPackage
  <2>1. CloudsFrom(lastLio) /\ SetAside(lastLio) /\ ImageApart(lastLio)
    BY DEF WindowInv, WindowSettled
  <2>2. CloudsFrom(lastLio)' /\ SetAside(lastLio)' /\ lastLio' = lastLio
    BY <1>1, <2>1 DEF CloudsFrom, SetAside, lidarVars, cutVars, envVars
  <2>3. lastImg + ExposureInit >= lastLio
    BY <1>2, <2>1 DEF ImageApart
  <2>4. imgBuf' # <<>>
    BY <1>1
  <2> QED BY <1>1, <1>2, <2>2, <2>3, <2>4 DEF ImageApart
<1> QED BY <1>3, <1>4 DEF WindowInv

\* The remaining steps leave the clouds and the points alone; a thrown image
\* only takes the next one further away.
LEMMA QuietKeepsWindow ==
  ASSUME MaxRestarts = 0, IInv, SteadyClock, WindowInv, [Next]_vars,
         ~LioUpdate, ~VioUpdate, ~(\E t \in ImgTimes : ImgAccept(t)),
         ~(\E t \in LidarTimes : LidarFrame(t) \/ LidarEmptyCloud(t))
  PROVE  WindowInv'
<1>1. ~LidarClockRestart
  BY DEF LidarClockRestart, SteadyClock
<1>2. /\ UNCHANGED <<lidarVars, lidClock, flg, measures, procNext, needInit, lastImg>>
      /\ imgBuf' = imgBuf \/ ThrowImage
  BY <1>1
  DEF Next, Forward, Iterate, vars, lidarVars, imgVars, cutVars, filtVars, envVars,
      ImuAccept, ImuDrop, ThrowImage, LatchFirstTime
<1>3. flg # "WAIT" => lastLio' = lastLio
  <2>1. CASE ThrowImage \/ LatchFirstTime
    BY <2>1, CutTimes DEF ThrowImage, LatchFirstTime, IInv, LatchedOnce
  <2>2. CASE ~(ThrowImage \/ LatchFirstTime)
    BY <1>1, <2>2 DEF Next, Forward, Iterate, vars, cutVars, ImuAccept, ImuDrop
  <2> QED BY <2>1, <2>2
<1>4. CloudsOrdered' /\ WindowAtCut'
  BY <1>2
  DEF WindowInv, CloudsOrdered, WindowAtCut, CloudsFrom, SetAside, LastPackage, lidarVars
<1>5. WindowSettled'
  <2> SUFFICES ASSUME Settled
               PROVE  CloudsFrom(lastLio)' /\ SetAside(lastLio)' /\ ImageApart(lastLio)'
    BY <1>2 DEF WindowSettled, Settled, LastPackage
  <2>1. CloudsFrom(lastLio) /\ SetAside(lastLio) /\ ImageApart(lastLio)
    BY DEF WindowInv, WindowSettled
  <2>2. lastLio' = lastLio
    BY <1>3 DEF Settled
  <2>3. CloudsFrom(lastLio)' /\ SetAside(lastLio)'
    BY <1>2, <2>1, <2>2 DEF CloudsFrom, SetAside, lidarVars
  <2>4. /\ lastImg \in Int /\ lastLio \in Int
        /\ MinImgGap \in Nat /\ ExposureInit \in Nat
    BY LimitsAssumption DEF IInv, TypeOK
  <2>5. lastImg + ExposureInit >= lastLio
    BY <2>1, <2>4 DEF ImageApart
  <2>6. CASE imgBuf' = imgBuf
    BY <1>2, <2>1, <2>2, <2>3, <2>6 DEF ImageApart
  <2>7. CASE ThrowImage
    <3>1. imgBuf' = <<>>
      <4>1. imgBuf = <<lastImg>> /\ imgBuf' = Tail(imgBuf)
        BY <2>7 DEF ThrowImage, BuffersReady, IInv, TypeOK
      <4> QED BY <4>1
    <3> QED BY <1>2, <2>2, <2>3, <2>4, <2>5, <3>1 DEF ImageApart
  <2> QED BY <1>2, <2>6, <2>7
<1> QED BY <1>4, <1>5 DEF WindowInv

LEMMA WindowInvariance ==
  ASSUME MaxRestarts = 0, ScansApart
  PROVE  Spec => []WindowInv
<1>1. IInv /\ SteadyClock /\ ImuInv /\ WindowInv /\ [Next]_vars => WindowInv'
  BY FrameKeepsWindow, EmptyCloudKeepsWindow, CutKeepsWindow, VioKeepsWindow,
     ImageKeepsWindow, QuietKeepsWindow
<1> QED
  BY IInvariance, SteadyInvariance, ImuInvariance, InitWindowInv, <1>1, PTL DEF Spec

\* Every point of a lidar update was measured between the last update and
\* this one, with its time since the last one, also when the previous cut set
\* it aside: if scans do not overlap and are no longer than the least spacing
\* of images, while the lidar clock runs forward.
THEOREM PointsOfTheWindow ==
  ASSUME MaxRestarts = 0, ScansApart, ScanLen <= MinImgGap
  PROVE  Spec => PointsInWindow
<1>1. ASSUME IInv, SteadyClock, WindowInv, LioUpdate, Settled, NEW p \in CurPoints
      PROVE  p.cur = p.abs - lastLio /\ p.abs \in lastLio..CaptureTime
  <2>1. /\ lastLio \in Nat /\ LatchedLio = lastLio /\ CaptureTime \in Nat
        /\ imgBuf = <<lastImg>> /\ lastImg \in Nat
    BY <1>1, CutClouds
    DEF Settled, IInv, LatchedOnce, LatchedLio, TypeOK, ImageStamped, LioUpdate,
        BuffersReady
  <2>2. CloudsFrom(lastLio) /\ SetAside(lastLio) /\ ImageApart(lastLio)
    BY <1>1 DEF WindowInv, WindowSettled
  <2>3. CASE p \in procNext
    <3>1. p.cur = p.abs - lastLio /\ p.abs >= lastLio /\ p.abs <= lastLio + ScanLen
      BY <2>2, <2>3 DEF SetAside
    <3>2. p.abs \in Int
      BY <1>1, <2>3 DEF IInv, TypeOK, Point
    <3>3. CaptureTime >= lastLio + MinImgGap
      BY <2>1, <2>2 DEF ImageApart, CaptureTime
    <3>4. ScanLen \in Nat /\ MinImgGap \in Nat
      BY LimitsAssumption
    <3> QED BY <2>1, <3>1, <3>2, <3>3, <3>4
  <2>4. CASE p \notin procNext
    <3>1. PICK io \in CutOffsets : BeforeCut(io) /\ p = Stored(io, lastLio)
      BY <1>1, <2>1, <2>4 DEF CurPoints
    <3>2. /\ io[1] \in 1..Len(lidRaw) /\ lidRaw[io[1]] \in Nat
          /\ io[2] \in 0..ScanLen
          /\ p.abs = lidRaw[io[1]] + io[2] /\ p.cur = p.abs - lastLio
          /\ p.abs < CaptureTime
      BY <1>1, <2>1, <3>1, CutPoint
    <3>3. lidRaw[io[1]] >= lastLio
      BY <2>2, <3>2 DEF CloudsFrom
    <3> QED BY <2>1, <3>2, <3>3, LimitsAssumption
  <2> QED BY <2>3, <2>4
<1>2. IInv /\ SteadyClock /\ WindowInv /\ [Next]_vars =>
        [LioUpdate /\ Settled =>
           \A p \in CurPoints : /\ p.cur = p.abs - lastLio
                                /\ p.abs \in lastLio..CaptureTime]_vars
  BY <1>1
<1> QED
  BY IInvariance, SteadyInvariance, WindowInvariance, <1>2, PTL DEF Spec, PointsInWindow

-----------------------------------------------------------------------------
(***************************************************************************)
(* LivoOdometry adds to LivoSync.                                          *)
(***************************************************************************)
\* Without the timer's and the filters' variables, a step is one of LivoSync.
LEMMA StepOfSync ==
  ASSUME [OdometryNext]_<<vars, odoVars>>
  PROVE  [Next]_vars
<1>1. CASE SyncOnly
  BY <1>1 DEF SyncOnly, Next, Forward, Iterate
<1>2. CASE \E t \in ImuTimes : SampleForOdometry(t)
  BY <1>2 DEF SampleForOdometry, Next, Forward
<1>3. CASE LidarEstimate \/ VisualEstimate
  BY <1>3 DEF LidarEstimate, VisualEstimate, Next, Forward, Iterate
<1>4. CASE PropTimer
  BY <1>4 DEF PropTimer, Replay, Extend, NothingToPropagate
<1>5. CASE UNCHANGED <<vars, odoVars>>
  BY <1>5
<1> QED
  BY <1>1, <1>2, <1>3, <1>4, <1>5 DEF OdometryNext

\* The mapper with its odometry implements the synchroniser without it: the
\* timer and the filters' hand-over never disturb sync_packages.
THEOREM OdometryImplementsSync == OdometrySpec => Spec
<1>1. OdometryInit => Init
  BY DEF OdometryInit
<1> QED
  BY <1>1, StepOfSync, PTL DEF OdometrySpec, Spec

\* sync_packages has a header for every cloud, with the odometry running.
THEOREM OdometryHeadersSuffice == OdometrySpec => []HeadersCoverClouds
BY OdometryImplementsSync, HeadersSuffice, PTL

\* The alternation and the monotone update clock, with the odometry running.
THEOREM OdometryOrderImplemented == OdometrySpec => OrderRefined
BY OdometryImplementsSync, OrderImplemented, PTL

-----------------------------------------------------------------------------
(***************************************************************************)
(* The points a visual update may use.                                     *)
(***************************************************************************)
\* Points wait for a visual update only between a lidar update and it, and
\* they are then that update's own.
PointsAwaited ==
  waitPub # None => /\ flg = "LIO" /\ pvList = waitPub
                    /\ LastPackage.lio = waitPub
PointsInv == PointsAwaited /\ VisualPointsCurrent

LEMMA LidarEstimatePoints ==
  ASSUME IInv, PointsInv, LidarEstimate
  PROVE  PointsInv'
<1>1. /\ flg \in {"WAIT", "VIO"} /\ flg' = "LIO"
      /\ measures' = Append(measures, [lio |-> CaptureTime, vio |-> 0])
      /\ UNCHANGED visual
  BY DEF LidarEstimate, LioUpdate
<1>2. waitPub = None
  BY <1>1 DEF PointsInv, PointsAwaited
<1>3. \/ UNCHANGED <<pvList, waitPub>>
      \/ pvList' = CaptureTime /\ waitPub' = CaptureTime
  BY DEF LidarEstimate
<1>4. LastPackage'.lio = CaptureTime
  <2>1. measures \in Seq(Package)
    BY DEF IInv, TypeOK
  <2>2. CaptureTime \in Int
    <3>1. imgBuf = <<lastImg>> /\ lastImg \in Nat
      BY DEF LidarEstimate, LioUpdate, BuffersReady, IInv, TypeOK, ImageStamped
    <3>2. Head(imgBuf) \in Nat
      BY <3>1
    <3> QED BY <3>2, LimitsAssumption DEF CaptureTime
  <2>3. [lio |-> CaptureTime, vio |-> 0] \in Package
    BY <2>2 DEF Package
  <2>4. measures'[Len(measures')] = [lio |-> CaptureTime, vio |-> 0]
    BY <1>1, <2>1, <2>3
  <2> QED BY <2>4 DEF LastPackage
<1>5. PointsAwaited'
  BY <1>1, <1>2, <1>3, <1>4 DEF PointsAwaited
<1> QED
  BY <1>1, <1>5 DEF PointsInv, VisualPointsCurrent

LEMMA VisualEstimatePoints ==
  ASSUME PointsInv, VisualEstimate
  PROVE  PointsInv'
<1>1. waitPub' = None
  BY DEF VisualEstimate
<1>2. CASE waitPub = None
  BY <1>1, <1>2 DEF VisualEstimate, PointsInv, PointsAwaited, VisualPointsCurrent
<1>3. CASE waitPub # None
  <2>1. visual' = [points |-> pvList, at |-> LastPackage.lio]
    BY <1>3 DEF VisualEstimate
  <2>2. pvList = LastPackage.lio
    BY <1>3 DEF PointsInv, PointsAwaited
  <2> QED
    BY <1>1, <2>1, <2>2 DEF PointsInv, PointsAwaited, VisualPointsCurrent
<1> QED
  BY <1>2, <1>3

\* Every other step leaves the clouds and the flag of the cycle alone.
LEMMA OtherPoints ==
  ASSUME PointsInv,
         \/ SyncOnly \/ (\E t \in ImuTimes : SampleForOdometry(t))
         \/ PropTimer \/ UNCHANGED <<vars, odoVars>>
  PROVE  PointsInv'
<1>1. UNCHANGED <<pvList, waitPub, visual>>
  BY DEF SyncOnly, SampleForOdometry, PropTimer, Replay, Extend,
         NothingToPropagate, odoVars, mapVars
<1>2. UNCHANGED <<flg, measures>>
  <2>1. CASE SyncOnly
    BY <2>1 DEF SyncOnly, LidarFrame, LidarEmptyCloud, ImuDrop, ImgAccept,
                LidarClockRestart, ThrowImage, LatchFirstTime, cutVars
  <2>2. CASE \E t \in ImuTimes : SampleForOdometry(t)
    BY <2>2 DEF SampleForOdometry, ImuAccept, cutVars
  <2>3. CASE PropTimer
    BY <2>3 DEF PropTimer, Replay, Extend, NothingToPropagate, vars, cutVars
  <2>4. CASE UNCHANGED <<vars, odoVars>>
    BY <2>4 DEF vars, cutVars
  <2> QED BY <2>1, <2>2, <2>3, <2>4
<1> QED
  BY <1>1, <1>2 DEF PointsInv, PointsAwaited, VisualPointsCurrent, LastPackage

\* The visual filter never runs on the points of an earlier lidar update,
\* although _pv_list outlives its cycle.
THEOREM VisualPointsOfThisUpdate == OdometrySpec => []VisualPointsCurrent
<1>1. OdometryInit => PointsInv
  BY DEF OdometryInit, PointsInv, PointsAwaited, VisualPointsCurrent
<1>2. IInv /\ PointsInv /\ [OdometryNext]_<<vars, odoVars>> => PointsInv'
  BY LidarEstimatePoints, VisualEstimatePoints, OtherPoints DEF OdometryNext
<1>3. PointsInv => VisualPointsCurrent
  BY DEF PointsInv
<1> QED
  BY <1>1, <1>2, <1>3, OdometryImplementsSync, IInvariance, PTL DEF OdometrySpec

-----------------------------------------------------------------------------
(***************************************************************************)
(* The filter's hand-over to the propagation.                              *)
(***************************************************************************)
\* A state that is not fresh is the one the propagation has started from.
HandedOver == ekfOnce /\ ~ekfFresh => base = ekfTime

LEMMA EstimateHandsOver ==
  ASSUME HandedOver, LidarEstimate \/ VisualEstimate
  PROVE  HandedOver'
<1>1. UNCHANGED base
  BY DEF LidarEstimate, VisualEstimate, poseVars
<1>2. UNCHANGED ekfVars \/ FilterDone
  BY DEF LidarEstimate, VisualEstimate
<1> QED
  BY <1>1, <1>2 DEF HandedOver, FilterDone, ekfVars

LEMMA TimerHandsOver ==
  ASSUME HandedOver, PropTimer
  PROVE  HandedOver'
BY DEF PropTimer, Replay, Extend, NothingToPropagate, HandedOver, ekfVars, poseVars

LEMMA OtherHandsOver ==
  ASSUME HandedOver,
         \/ SyncOnly \/ (\E t \in ImuTimes : SampleForOdometry(t))
         \/ UNCHANGED <<vars, odoVars>>
  PROVE  HandedOver'
BY DEF SyncOnly, SampleForOdometry, HandedOver, odoVars, ekfVars, poseVars

\* imu_prop_callback goes on from the newest filter state only.
THEOREM PropagationFromFilter == OdometrySpec => PropagatedFromFilter
<1>1. OdometryInit => HandedOver
  BY DEF OdometryInit, HandedOver
<1>2. HandedOver /\ [OdometryNext]_<<vars, odoVars>> => HandedOver'
  BY EstimateHandsOver, TimerHandsOver, OtherHandsOver DEF OdometryNext
<1>3. HandedOver /\ [OdometryNext]_<<vars, odoVars>>
        => [Replay \/ Extend => base' = ekfTime]_<<vars, odoVars>>
  BY DEF HandedOver, Replay, Extend, TimerActs, ekfVars
<1> QED
  BY <1>1, <1>2, <1>3, PTL DEF OdometrySpec, PropagatedFromFilter
-----------------------------------------------------------------------------
(***************************************************************************)
(* The samples kept for a replay, and the time of the published pose.      *)
(***************************************************************************)
\* prop_imu_buffer is in stamp order and ends with the newest sample; nothing
\* is kept while the IMU initialises.
SamplesOrdered ==
  /\ newest = lastImu /\ propBuf \in Seq(Nat)
  /\ \A i, j \in 1..Len(propBuf) : i <= j => propBuf[i] <= propBuf[j]
  /\ propBuf # <<>> => propBuf[Len(propBuf)] = newest
  /\ needInit => propBuf = <<>>

\* The offset of the pose from the filter's time is the static the next
\* propagation is counted from, unless a newer filter state waits.
OffsetKept ==
  /\ ekfOnce => ekfTime \in Nat
  /\ ekfOnce /\ ~ekfFresh => /\ lastProp \in Int /\ base = ekfTime
                             /\ pose = ekfTime + lastProp

LEMMA SampleKeepsOrder ==
  ASSUME IInv, ImuOrdered, SamplesOrdered, NEW t \in ImuTimes, SampleForOdometry(t)
  PROVE  SamplesOrdered'
<1>0. imuBuf \in Seq(Nat) /\ lastImu \in Nat \cup {-1}
  BY DEF IInv, TypeOK
<1>1. /\ t \in Nat /\ t >= lastImu /\ lastImu' = t /\ newest' = t
      /\ needInit' = needInit
      /\ propBuf \in Seq(Nat) /\ Len(propBuf) \in Nat
  BY <1>0, AcceptedLater DEF SampleForOdometry, ImuAccept, SamplesOrdered, filtVars
<1>2. \A i \in 1..Len(propBuf) : propBuf[i] \in Nat /\ propBuf[i] <= t
  <2> SUFFICES ASSUME NEW i \in 1..Len(propBuf)
               PROVE  propBuf[i] \in Nat /\ propBuf[i] <= t
    OBVIOUS
  <2>1. Len(propBuf) \in 1..Len(propBuf) /\ i <= Len(propBuf) /\ propBuf # <<>>
    BY <1>1
  <2>2. propBuf[i] \in Nat /\ propBuf[i] <= propBuf[Len(propBuf)]
    BY <1>1, <2>1 DEF SamplesOrdered
  <2>3. propBuf[Len(propBuf)] = lastImu /\ lastImu \in Int
    BY <2>1 DEF SamplesOrdered, IInv, TypeOK
  <2> QED BY <1>1, <2>2, <2>3
<1>3. CASE needInit
  <2>1. propBuf' = <<>>
    BY <1>3 DEF SampleForOdometry, SamplesOrdered
  <2> QED BY <1>1, <2>1 DEF SamplesOrdered
<1>4. CASE ~needInit
  <2>1. propBuf' = Append(propBuf, t)
    BY <1>4 DEF SampleForOdometry
  <2>2. /\ propBuf' \in Seq(Nat) /\ Len(propBuf') = Len(propBuf) + 1
        /\ propBuf'[Len(propBuf) + 1] = t
        /\ \A i \in 1..Len(propBuf) : propBuf'[i] = propBuf[i]
    BY <1>1, <2>1
  <2>3. \A i \in 1..Len(propBuf') : i \in 1..Len(propBuf) \/ i = Len(propBuf) + 1
    BY <1>1, <2>2
  <2>4. \A i, j \in 1..Len(propBuf') : i <= j => propBuf'[i] <= propBuf'[j]
    <3> SUFFICES ASSUME NEW i \in 1..Len(propBuf'), NEW j \in 1..Len(propBuf'), i <= j
                 PROVE  propBuf'[i] <= propBuf'[j]
      OBVIOUS
    <3>1. CASE j = Len(propBuf) + 1
      <4>1. propBuf'[j] = t
        BY <2>2, <3>1
      <4>2. CASE i = Len(propBuf) + 1
        BY <1>1, <2>2, <4>1, <4>2
      <4>3. CASE i \in 1..Len(propBuf)
        BY <1>1, <1>2, <2>2, <4>1, <4>3
      <4> QED BY <2>3, <4>2, <4>3
    <3>2. CASE j \in 1..Len(propBuf)
      <4>1. i \in 1..Len(propBuf)
        BY <1>1, <2>2, <3>2
      <4>2. propBuf[i] <= propBuf[j]
        BY <3>2, <4>1 DEF SamplesOrdered
      <4> QED BY <2>2, <3>2, <4>1, <4>2
    <3> QED BY <2>3, <3>1, <3>2
  <2> QED BY <1>1, <1>4, <2>2, <2>4 DEF SamplesOrdered
<1> QED
  BY <1>3, <1>4

\* What a replay goes through: nothing if the filter is ahead of every
\* sample, and otherwise samples up to the newest one.
LEMMA ReplayedSamples ==
  ASSUME SamplesOrdered, propBuf # <<>>, ekfTime \in Nat
  PROVE  /\ Replayed \in Seq(Nat) /\ newest \in Nat
         /\ \A i, j \in 1..Len(Replayed) : i <= j => Replayed[i] <= Replayed[j]
         /\ Replayed = <<>> => newest < ekfTime
         /\ Replayed # <<>> => Replayed[Len(Replayed)] = newest
<1> DEFINE n == Len(propBuf)
           k == UpTo(propBuf, ekfTime - 1)
<1>1. propBuf \in Seq(Nat) /\ n \in Nat /\ n \in 1..n /\ newest = propBuf[n] /\ newest \in Nat
  <2>1. propBuf \in Seq(Nat) /\ propBuf[Len(propBuf)] = newest
    BY DEF SamplesOrdered
  <2>2. Len(propBuf) \in Nat /\ Len(propBuf) \in 1..Len(propBuf)
    BY <2>1
  <2> QED BY <2>1, <2>2
<1>2. k \in 0..n /\ (k = n => newest < ekfTime)
  <2>1. CASE ekfTime = 0
    <3>1. \A i \in 1..n : propBuf[i] \in Nat
      BY <1>1
    <3>2. {i \in 1..n : \A j \in 1..i : propBuf[j] <= ekfTime - 1} = {}
      <4> SUFFICES ASSUME NEW i \in 1..n PROVE \E j \in 1..i : ~(propBuf[j] <= ekfTime - 1)
        OBVIOUS
      <4>1. i \in 1..i /\ propBuf[i] \in Nat
        BY <3>1
      <4> QED BY <2>1, <4>1
    <3>3. k = 0
      BY <3>2, FS_EmptySet DEF UpTo
    <3> QED BY <1>1, <3>3
  <2>2. CASE ekfTime # 0
    <3>1. ekfTime - 1 \in Nat
      BY <2>2
    <3>2. k \in 0..n /\ \A i \in 1..k : propBuf[i] <= ekfTime - 1
      BY <1>1, <3>1, UpToSplits
    <3> HIDE DEF k, n
    <3> QED BY <1>1, <3>1, <3>2
  <2> QED BY <2>1, <2>2
<1>3. /\ Replayed \in Seq(Nat) /\ Len(Replayed) = n - k
      /\ \A i \in 1..(n - k) : Replayed[i] = propBuf[k + i]
  <2>1. \A i \in (k + 1)..n : propBuf[i] \in Nat
    BY <1>1, <1>2
  <2>2. Replayed = SubSeq(propBuf, k + 1, n)
    BY DEF Replayed
  <2> HIDE DEF k, n
  <2>3. /\ SubSeq(propBuf, k + 1, n) \in Seq(Nat)
        /\ Len(SubSeq(propBuf, k + 1, n)) = n - k
        /\ \A i \in 1..(n - (k + 1) + 1) : SubSeq(propBuf, k + 1, n)[i] = propBuf[(k + 1) + i - 1]
    BY <1>1, <1>2, <2>1, SubSeqProperties
  <2>4. \A i \in 1..(n - k) : /\ i \in 1..(n - (k + 1) + 1)
                              /\ (k + 1) + i - 1 = k + i
    BY <1>1, <1>2
  <2> QED BY <2>2, <2>3, <2>4
<1>4. \A i, j \in 1..Len(Replayed) : i <= j => Replayed[i] <= Replayed[j]
  <2> SUFFICES ASSUME NEW i \in 1..Len(Replayed), NEW j \in 1..Len(Replayed), i <= j
               PROVE  Replayed[i] <= Replayed[j]
    OBVIOUS
  <2>1. k + i \in 1..n /\ k + j \in 1..n /\ k + i <= k + j
    <3>1. i \in 1..(n - k) /\ j \in 1..(n - k) /\ k \in 0..n /\ n \in Nat
      BY <1>1, <1>2, <1>3
    <3> HIDE DEF k, n
    <3> QED BY <3>1
  <2>2. propBuf[k + i] <= propBuf[k + j]
    BY <2>1 DEF SamplesOrdered
  <2>3. Replayed[i] = propBuf[k + i] /\ Replayed[j] = propBuf[k + j]
    BY <1>3
  <2> QED BY <2>2, <2>3
<1>5. Replayed = <<>> => k = n
  <2> HIDE DEF k, n
  <2> QED BY <1>1, <1>2, <1>3
<1>6. Replayed # <<>> => Replayed[Len(Replayed)] = newest
  <2> SUFFICES ASSUME Replayed # <<>> PROVE Replayed[Len(Replayed)] = newest
    OBVIOUS
  <2> HIDE DEF k, n
  <2>1. n - k \in 1..(n - k) /\ k + (n - k) = n
    BY <1>1, <1>2, <1>3
  <2> QED BY <1>1, <1>3, <2>1
<1> HIDE DEF k, n
<1> QED
  BY <1>1, <1>2, <1>3, <1>4, <1>5, <1>6

LEMMA TimerKeepsOrder ==
  ASSUME SamplesOrdered, OffsetKept, PropTimer
  PROVE  SamplesOrdered'
<1>1. UNCHANGED <<newest, lastImu, needInit>>
  BY DEF PropTimer, Replay, Extend, NothingToPropagate, vars, imuVars, filtVars
<1>2. CASE Replay
  <2>1. propBuf # <<>> /\ ekfTime \in Nat /\ propBuf' = Replayed /\ ~needInit
    BY <1>2 DEF Replay, TimerActs, OffsetKept
  <2> QED BY <1>1, <2>1, ReplayedSamples DEF SamplesOrdered
<1>3. CASE Extend \/ NothingToPropagate
  <2>1. propBuf' = propBuf
    BY <1>3 DEF Extend, NothingToPropagate
  <2> QED BY <1>1, <2>1 DEF SamplesOrdered
<1> QED
  BY <1>2, <1>3 DEF PropTimer

LEMMA OtherKeepsOrder ==
  ASSUME SamplesOrdered,
         \/ SyncOnly \/ LidarEstimate \/ VisualEstimate \/ UNCHANGED <<vars, odoVars>>
  PROVE  SamplesOrdered'
<1>1. UNCHANGED <<newest, propBuf>>
  BY DEF SyncOnly, LidarEstimate, VisualEstimate, odoVars, propVars
<1>2. lastImu' = lastImu /\ (needInit' => needInit)
  <2>1. CASE SyncOnly
    BY <2>1 DEF SyncOnly, LidarFrame, LidarEmptyCloud, ImuDrop, ImgAccept,
                LidarClockRestart, ThrowImage, LatchFirstTime, imuVars, filtVars
  <2>2. CASE LidarEstimate
    BY <2>2 DEF LidarEstimate, LioUpdate, InitialiseImu, UndistortLio
  <2>3. CASE VisualEstimate
    BY <2>3 DEF VisualEstimate, VioUpdate, imuVars
  <2>4. CASE UNCHANGED <<vars, odoVars>>
    BY <2>4 DEF vars, imuVars, filtVars
  <2> QED BY <2>1, <2>2, <2>3, <2>4
<1> QED
  BY <1>1, <1>2 DEF SamplesOrdered

LEMMA EstimateKeepsPose ==
  ASSUME IInv, IInv', OffsetKept, PoseAtStamp, LidarEstimate \/ VisualEstimate
  PROVE  OffsetKept' /\ PoseAtStamp'
<1>1. UNCHANGED <<lastProp, pose, base, stamp>>
  BY DEF LidarEstimate, VisualEstimate, poseVars
<1>2. flg' # "WAIT"
  BY DEF LidarEstimate, VisualEstimate, LioUpdate, VioUpdate
<1>3. lastLio' \in Nat
  BY <1>2 DEF IInv, LatchedOnce
<1>4. UNCHANGED ekfVars \/ FilterDone
  BY DEF LidarEstimate, VisualEstimate
<1> QED
  BY <1>1, <1>3, <1>4 DEF OffsetKept, PoseAtStamp, FilterDone, ekfVars

LEMMA TimerKeepsPose ==
  ASSUME SamplesOrdered, OffsetKept, PoseAtStamp, PropTimer
  PROVE  OffsetKept' /\ PoseAtStamp'
<1>1. CASE Replay
  <2>1. /\ propBuf # <<>> /\ ekfTime \in Nat
        /\ UNCHANGED <<ekfOnce, ekfTime>> /\ base' = ekfTime /\ stamp' = newest
        /\ pose' = IF Replayed = <<>> THEN ekfTime ELSE Replayed[Len(Replayed)]
        /\ lastProp' = pose' - ekfTime
    BY <1>1 DEF Replay, TimerActs, OffsetKept
  <2>2. newest \in Nat
    BY <2>1, ReplayedSamples
  <2>3. pose' = newest \/ (pose' = ekfTime /\ newest < ekfTime)
    BY <2>1, ReplayedSamples
  <2> QED BY <2>1, <2>2, <2>3 DEF OffsetKept, PoseAtStamp
<1>2. CASE Extend
  <2>1. /\ propBuf # <<>> /\ ekfTime \in Nat /\ lastProp \in Int
        /\ pose = ekfTime + lastProp /\ base = ekfTime /\ ~ekfFresh
        /\ UNCHANGED <<ekfOnce, ekfTime, ekfFresh, base>>
        /\ lastProp' = newest - ekfTime /\ pose' = pose + (lastProp' - lastProp)
        /\ stamp' = newest
    BY <1>2 DEF Extend, TimerActs, OffsetKept, ekfVars
  <2>2. newest \in Nat
    BY <2>1, ReplayedSamples
  <2>3. pose' = newest /\ pose' = ekfTime + lastProp' /\ lastProp' \in Int
    BY <2>1, <2>2
  <2> QED BY <2>1, <2>3 DEF OffsetKept, PoseAtStamp
<1>3. CASE NothingToPropagate
  BY <1>3 DEF NothingToPropagate, OffsetKept, PoseAtStamp, ekfVars, poseVars
<1> QED
  BY <1>1, <1>2, <1>3 DEF PropTimer

LEMMA OtherKeepsPose ==
  ASSUME OffsetKept, PoseAtStamp,
         \/ SyncOnly \/ (\E t \in ImuTimes : SampleForOdometry(t))
         \/ UNCHANGED <<vars, odoVars>>
  PROVE  OffsetKept' /\ PoseAtStamp'
BY DEF SyncOnly, SampleForOdometry, OffsetKept, PoseAtStamp, odoVars, ekfVars, poseVars

LEMMA PoseInvariance ==
  OdometrySpec => [](SamplesOrdered /\ OffsetKept /\ PoseAtStamp)
<1> DEFINE PoseInv == SamplesOrdered /\ OffsetKept /\ PoseAtStamp
<1>1. OdometryInit => PoseInv
  BY DEF OdometryInit, Init, SamplesOrdered, OffsetKept, PoseAtStamp, None
<1>2. IInv /\ IInv' /\ ImuOrdered /\ PoseInv /\ [OdometryNext]_<<vars, odoVars>> => PoseInv'
  <2> SUFFICES ASSUME IInv, IInv', ImuOrdered, PoseInv, [OdometryNext]_<<vars, odoVars>>
               PROVE  PoseInv'
    OBVIOUS
  <2>1. SamplesOrdered'
    BY SampleKeepsOrder, TimerKeepsOrder, OtherKeepsOrder DEF OdometryNext
  <2>2. OffsetKept' /\ PoseAtStamp'
    BY EstimateKeepsPose, TimerKeepsPose, OtherKeepsPose DEF OdometryNext
  <2> QED BY <2>1, <2>2
<1> HIDE DEF PoseInv
<1>3. OdometrySpec => []PoseInv
  BY <1>1, <1>2, OdometryImplementsSync, IInvariance, OrderInvariance, PTL DEF OdometrySpec
<1> QED
  BY <1>3 DEF PoseInv

\* Every odometry message carries the pose at its stamp, except when the
\* filter is ahead of every sample: then it carries the filter's own pose.
THEOREM PoseMatchesStamp == OdometrySpec => []PoseAtStamp
BY PoseInvariance, PTL

\* A replay goes through prop_imu_buffer in stamp order up to newest_imu.
THEOREM ReplayOrdered == OdometrySpec => []ReplayInOrder
<1>1. SamplesOrdered => ReplayInOrder
  <2> SUFFICES ASSUME SamplesOrdered PROVE ReplayInOrder
    OBVIOUS
  <2>1. propBuf \in Seq(Nat) /\ Len(propBuf) \in Nat
    BY DEF SamplesOrdered
  <2>2. ASSUME NEW i \in 1..Len(propBuf)
        PROVE  propBuf[i] <= newest
    <3>1. Len(propBuf) \in 1..Len(propBuf) /\ i <= Len(propBuf) /\ propBuf # <<>>
      BY <2>1
    <3>2. propBuf[i] <= propBuf[Len(propBuf)]
      BY <3>1 DEF SamplesOrdered
    <3> QED BY <3>1, <3>2 DEF SamplesOrdered
  <2>3. ASSUME NEW i \in 1..Len(propBuf) - 1
        PROVE  propBuf[i] <= propBuf[i + 1]
    <3>1. i \in 1..Len(propBuf) /\ i + 1 \in 1..Len(propBuf) /\ i <= i + 1
      BY <2>1
    <3> QED BY <3>1 DEF SamplesOrdered
  <2> QED BY <2>2, <2>3 DEF SamplesOrdered, ReplayInOrder
<1> QED
  BY PoseInvariance, <1>1, PTL

-----------------------------------------------------------------------------
(***************************************************************************)
(* LioSync.  A held scan is the front cloud until the callback displaces   *)
(* it; and while the lidar's clock runs forward no scan still to come ends *)
(* before the update clock or the last sample the filter has seen.  A scan *)
(* must not end before an earlier one does: clouds of a single point end   *)
(* where they begin.                                                       *)
(***************************************************************************)
EndOf(c) == c + LastOffset(c)
EndsInOrder == \A s, t \in LidarTimes : s < t => EndOf(s) <= EndOf(t)

ScansEndFrom(c) ==
  /\ \A i \in 1..Len(lidRaw) : EndOf(lidRaw[i]) >= c
  /\ \A t \in LidarTimes : t > lidClock => EndOf(t) >= c
  /\ held # NoScan => held.end >= c

HeldInFront ==
  held # NoScan =>
    /\ mode = "ONLY_LIO"
    /\ ~displaced => lidRaw # <<>> /\ Head(lidRaw) = held.cloud

LioTypes ==
  /\ lidRaw \in Seq(Nat) /\ lidHdr \in Seq(Nat) /\ Len(lidHdr) >= Len(lidRaw)
  /\ lastLidar \in Nat \cup {-1} /\ lidClock \in Nat \cup {-1}
  /\ imuBuf \in Seq(Nat) /\ lastImu \in Nat \cup {-1}
  /\ lastLio \in Nat \cup {-1} /\ lastScan \in Nat \cup {-1}
  /\ needInit \in BOOLEAN /\ tailImu \in Nat /\ lastPropEnd \in Int
  /\ restarts \in Nat
  /\ held = NoScan \/ held \in [cloud : Nat, beg : Nat, end : Nat]

HeldEnds == held # NoScan => ScansEndFrom(held.end) /\ lastLio >= 0

ScansForward ==
  restarts = 0 =>
    /\ SteadyClock /\ CloudsOrdered /\ HeldEnds
    /\ ScansEndFrom(lastLio) /\ ScansEndFrom(tailImu) /\ CloudsFrom(lastScan)

-----------------------------------------------------------------------------
LEMMA TailIs ==
  ASSUME NEW s \in Seq(Nat), s # <<>>
  PROVE  /\ Tail(s) \in Seq(Nat) /\ Len(Tail(s)) = Len(s) - 1 /\ Len(s) \in Nat /\ Len(s) >= 1
         /\ Head(s) = s[1] /\ Head(s) \in Nat /\ 1 \in 1..Len(s)
         /\ \A i \in 1..Len(Tail(s)) : i + 1 \in 1..Len(s) /\ Tail(s)[i] = s[i + 1]
OBVIOUS

LEMMA LastOffsetIs == \A c : LastOffset(c) \in Nat /\ LastOffset(c) <= ScanLen
BY LimitsAssumption DEF LastOffset

\* The scan a call works on has a front cloud and header, or is the held one.
LEMMA ScanIs ==
  ASSUME LioTypes, lidRaw # <<>>
  PROVE  /\ Head(lidRaw) = lidRaw[1] /\ lidRaw[1] \in Nat /\ lidHdr # <<>> /\ lidHdr[1] \in Nat
         /\ FrontScan \in [cloud : Nat, beg : Nat, end : Nat] /\ FrontScan # NoScan
         /\ FrontScan.cloud = lidRaw[1] /\ FrontScan.beg = lidHdr[1]
         /\ FrontScan.end = lidHdr[1] + LastOffset(lidRaw[1])
         /\ Scan \in [cloud : Nat, beg : Nat, end : Nat]
         /\ held = NoScan => Scan = FrontScan
         /\ held # NoScan => Scan = held
         /\ LatchedLio \in Nat /\ LatchedLio >= lastLio
         /\ lastLio >= 0 => LatchedLio = lastLio
         /\ lastLio < 0 => LatchedLio = lidHdr[1]
<1>1. /\ lidRaw \in Seq(Nat) /\ lidHdr \in Seq(Nat) /\ lidHdr # <<>>
  BY DEF LioTypes
<1>2. Head(lidRaw) = lidRaw[1] /\ lidRaw[1] \in Nat /\ Head(lidHdr) = lidHdr[1] /\ lidHdr[1] \in Nat
  BY <1>1, TailIs
<1>3. lidHdr[1] + LastOffset(lidRaw[1]) \in Nat
  BY <1>2, LastOffsetIs
<1>4. FrontScan = [cloud |-> lidRaw[1], beg |-> lidHdr[1], end |-> lidHdr[1] + LastOffset(lidRaw[1])]
  BY <1>2 DEF FrontScan
<1>5. FrontScan \in [cloud : Nat, beg : Nat, end : Nat] /\ FrontScan # NoScan
  BY <1>2, <1>3, <1>4 DEF NoScan
<1>6. lastLio \in Nat \cup {-1}
  BY DEF LioTypes
<1>7. /\ LatchedLio \in Nat /\ LatchedLio >= lastLio
      /\ lastLio >= 0 => LatchedLio = lastLio
      /\ lastLio < 0 => LatchedLio = lidHdr[1]
  BY <1>2, <1>6 DEF LatchedLio
<1>8. Scan \in [cloud : Nat, beg : Nat, end : Nat]
  BY <1>5 DEF Scan, LioTypes
<1> QED BY <1>1, <1>2, <1>4, <1>5, <1>7, <1>8 DEF Scan

\* A package of a scan is the front of the buffer up to its end.
LEMMA ScanPackageIs ==
  ASSUME LioTypes, lidRaw # <<>>
  PROVE  /\ ScanPackage \in Seq(Nat) /\ Len(ScanPackage) \in 0..Len(imuBuf)
         /\ \A i \in 1..Len(ScanPackage) :
              i \in 1..Len(imuBuf) /\ ScanPackage[i] = imuBuf[i] /\ imuBuf[i] <= Scan.end
         /\ SubSeq(imuBuf, Len(ScanPackage) + 1, Len(imuBuf)) \in Seq(Nat)
         /\ Len(SubSeq(imuBuf, Len(ScanPackage) + 1, Len(imuBuf))) = Len(imuBuf) - Len(ScanPackage)
         /\ \A i \in 1..(Len(imuBuf) - Len(ScanPackage)) :
              /\ Len(ScanPackage) + i \in 1..Len(imuBuf)
              /\ SubSeq(imuBuf, Len(ScanPackage) + 1, Len(imuBuf))[i] = imuBuf[Len(ScanPackage) + i]
         /\ Len(ScanPackage) < Len(imuBuf) => imuBuf[Len(ScanPackage) + 1] > Scan.end
<1> DEFINE k == UpTo(imuBuf, Scan.end)
<1>1. imuBuf \in Seq(Nat) /\ Len(imuBuf) \in Nat /\ Scan.end \in Nat
  BY ScanIs DEF LioTypes
<1>2. /\ k \in 0..Len(imuBuf) /\ \A i \in 1..k : imuBuf[i] <= Scan.end
      /\ k < Len(imuBuf) => imuBuf[k + 1] > Scan.end
  BY <1>1, UpToSplits
<1>3. ScanPackage = SubSeq(imuBuf, 1, k)
  BY DEF ScanPackage
<1> HIDE DEF k
<1>4. /\ ScanPackage \in Seq(Nat) /\ Len(ScanPackage) = k
      /\ \A i \in 1..k : ScanPackage[i] = imuBuf[i] /\ i \in 1..Len(imuBuf)
  <2>1. \A i \in 1..k : imuBuf[i] \in Nat /\ i \in 1..Len(imuBuf)
    BY <1>1, <1>2
  <2>2. k \in Nat /\ 1 \in Int
    BY <1>2
  <2>3. /\ SubSeq(imuBuf, 1, k) \in Seq(Nat)
        /\ Len(SubSeq(imuBuf, 1, k)) = IF 1 <= k THEN k - 1 + 1 ELSE 0
        /\ \A i \in 1..(k - 1 + 1) : SubSeq(imuBuf, 1, k)[i] = imuBuf[1 + i - 1]
    BY <2>1, <2>2, SubSeqProperties
  <2>4. \A i \in 1..k : 1 + i - 1 = i /\ i \in 1..(k - 1 + 1)
    BY <2>2
  <2> QED BY <1>3, <2>1, <2>2, <2>3, <2>4
<1> DEFINE rest == SubSeq(imuBuf, k + 1, Len(imuBuf))
<1>5. /\ rest \in Seq(Nat) /\ Len(rest) = Len(imuBuf) - k
      /\ \A i \in 1..(Len(imuBuf) - k) : k + i \in 1..Len(imuBuf) /\ rest[i] = imuBuf[k + i]
  <2>1. \A i \in (k + 1)..Len(imuBuf) : imuBuf[i] \in Nat
    BY <1>1, <1>2
  <2>2. k + 1 \in Int /\ Len(imuBuf) \in Int
    BY <1>1, <1>2
  <2>3. /\ rest \in Seq(Nat)
        /\ Len(rest) = IF k + 1 <= Len(imuBuf) THEN Len(imuBuf) - (k + 1) + 1 ELSE 0
        /\ \A i \in 1..(Len(imuBuf) - (k + 1) + 1) : rest[i] = imuBuf[(k + 1) + i - 1]
    BY <2>1, <2>2, SubSeqProperties
  <2> HIDE DEF rest
  <2>4. \A i \in 1..(Len(imuBuf) - k) : /\ i \in 1..(Len(imuBuf) - (k + 1) + 1)
                                        /\ (k + 1) + i - 1 = k + i /\ k + i \in 1..Len(imuBuf)
    BY <1>1, <1>2
  <2> QED BY <1>1, <1>2, <2>3, <2>4
<1> QED BY <1>1, <1>2, <1>4, <1>5

-----------------------------------------------------------------------------
LEMMA LioFrameTypes ==
  ASSUME LioTypes, NEW t \in LidarTimes, CloudArrives(t)
  PROVE  LioTypes'
<1>1. t \in Nat /\ MaxLidarBuffer \in Nat \ {0}
  BY TimesAssumption, LimitsAssumption
<1>2. /\ lidRaw \in Seq(Nat) /\ lidHdr \in Seq(Nat) /\ Len(lidHdr) >= Len(lidRaw)
  BY DEF LioTypes
<1>3. /\ KeptClouds(t) \in Seq(Nat) /\ Len(lidHdr) >= Len(KeptClouds(t))
  BY <1>2 DEF KeptClouds
<1>4. /\ lidRaw' \in Seq(Nat) /\ lidHdr' \in Seq(Nat) /\ Len(lidHdr') >= Len(lidRaw')
      /\ lastLidar' \in Nat \cup {-1} /\ lidClock' \in Nat
  <2>1. CASE LidarFrame(t)
    <3> DEFINE raw == Append(KeptClouds(t), t)
               hdr == Append(lidHdr, t)
               n   == Surplus(raw)
    <3>1. /\ raw \in Seq(Nat) /\ Len(raw) \in Nat /\ hdr \in Seq(Nat) /\ Len(hdr) \in Nat
          /\ Len(hdr) >= Len(raw)
      BY <1>1, <1>2, <1>3
    <3>2. /\ lidRaw' = SubSeq(raw, n + 1, Len(raw)) /\ lidHdr' = SubSeq(hdr, n + 1, Len(hdr))
          /\ lastLidar' = t /\ lidClock' = t
      BY <2>1 DEF LidarFrame
    <3> HIDE DEF raw, hdr
    <3>3. n \in 0..Len(raw)
      BY <1>1, <3>1 DEF Surplus
    <3> HIDE DEF n
    <3>4. n \in 0..Len(hdr)
      BY <3>1, <3>3
    <3>5. /\ lidRaw' \in Seq(Nat) /\ Len(lidRaw') = Len(raw) - n
          /\ lidHdr' \in Seq(Nat) /\ Len(lidHdr') = Len(hdr) - n
      BY <3>1, <3>2, <3>3, <3>4, SuffixType
    <3> QED BY <1>1, <3>1, <3>2, <3>3, <3>5
  <2>2. CASE LidarEmptyCloud(t)
    BY <1>1, <1>2, <1>3, <2>2 DEF LidarEmptyCloud, LioTypes
  <2> QED BY <2>1, <2>2 DEF CloudArrives
<1>5. UNCHANGED <<imuBuf, lastImu, lastLio, lastScan, needInit, tailImu, lastPropEnd, restarts, held>>
  BY DEF CloudArrives, LidarFrame, LidarEmptyCloud, imuVars, cutVars, filtVars
<1> QED BY <1>4, <1>5 DEF LioTypes

LEMMA SampleTypes ==
  ASSUME LioTypes, NEW t \in ImuTimes, SampleArrives(t)
  PROVE  LioTypes'
<1>1. t \in Nat
  BY TimesAssumption
<1>2. imuBuf' \in Seq(Nat) /\ lastImu' \in Nat \cup {-1}
  <2>1. CASE ImuAccept(t)
    BY <1>1, <2>1 DEF ImuAccept, LioTypes
  <2>2. CASE ImuDrop(t)
    BY <2>2 DEF ImuDrop, LioTypes, imuVars
  <2> QED BY <2>1, <2>2 DEF SampleArrives
<1>3. UNCHANGED <<lidRaw, lidHdr, lastLidar, lidClock, lastLio, lastScan, needInit, tailImu,
                  lastPropEnd, restarts, held>>
  BY DEF SampleArrives, ImuAccept, ImuDrop, lidarVars, cutVars, filtVars, lioVars
<1> QED BY <1>2, <1>3 DEF LioTypes

LEMMA HoldTypes ==
  ASSUME LioTypes, LatchOnly \/ HoldScan
  PROVE  LioTypes'
<1>1. lidRaw # <<>> /\ lastLio' = LatchedLio
  BY DEF LatchOnly, HoldScan, LioReady
<1>2. held' = held \/ held' = Scan
  BY DEF LatchOnly, HoldScan, lioVars
<1>3. UNCHANGED <<lidRaw, lidHdr, lastLidar, lidClock, imuBuf, lastImu, lastScan, needInit,
                  tailImu, lastPropEnd, restarts>>
  BY DEF LatchOnly, HoldScan, lidarVars, imuVars, filtVars, envVars, lioVars
<1>4. lastLio' \in Nat \cup {-1}
  BY <1>1, ScanIs
<1>5. (held = NoScan \/ held \in [cloud : Nat, beg : Nat, end : Nat])'
  BY <1>1, <1>2, ScanIs DEF LioTypes, NoScan
<1> QED BY <1>3, <1>4, <1>5 DEF LioTypes

\* The filter after a scan: initialised a step further, or moved to its end.
LEMMA ScanFilter ==
  ASSUME LioTypes, ScanUpdate
  PROVE  /\ needInit' \in BOOLEAN
         /\ \/ needInit /\ lastLio' = LatchedLio /\ lastPropEnd' = lastPropEnd
            \/ ~needInit /\ ~needInit' /\ lastLio' = Scan.end /\ lastPropEnd' = Scan.end
         /\ \/ tailImu' = tailImu
            \/ ScanPackage # <<>> /\ tailImu' = ScanPackage[Len(ScanPackage)]
<1>1. needInit \in BOOLEAN
  BY DEF LioTypes
<1>2. CASE InitialiseOnScan
  <2>1. CASE ScanPackage = <<>>
    BY <1>1, <1>2, <2>1 DEF InitialiseOnScan
  <2>2. CASE ScanPackage # <<>>
    <3>1. /\ needInit /\ lastLio' = LatchedLio /\ lastPropEnd' = lastPropEnd
          /\ tailImu' = ScanPackage[Len(ScanPackage)] /\ needInit' = (initN' <= InitCount)
      BY <1>2, <2>2, Zenon DEF InitialiseOnScan
    <3>2. needInit' \in BOOLEAN
      BY <3>1
    <3> QED BY <2>2, <3>1, <3>2
  <2> QED BY <2>1, <2>2
<1>3. CASE UndistortScan
  BY <1>1, <1>3 DEF UndistortScan
<1> QED BY <1>2, <1>3 DEF ScanUpdate

LEMMA ScanTypes ==
  ASSUME LioTypes, ScanUpdate
  PROVE  LioTypes'
<1>1. lidRaw # <<>> /\ lidRaw' = Tail(lidRaw) /\ lidHdr' = Tail(lidHdr) /\ held' = NoScan
      /\ imuBuf' = SubSeq(imuBuf, Len(ScanPackage) + 1, Len(imuBuf))
      /\ UNCHANGED <<lastLidar, lidClock, lastImu, lastScan, restarts>>
  BY DEF ScanUpdate, LioReady, envVars
<1>2. imuBuf' \in Seq(Nat)
  BY <1>1, ScanPackageIs
<1>3. /\ lidRaw' \in Seq(Nat) /\ lidHdr' \in Seq(Nat) /\ Len(lidHdr') >= Len(lidRaw')
  <2>1. /\ lidRaw \in Seq(Nat) /\ lidHdr \in Seq(Nat) /\ lidHdr # <<>> /\ Len(lidHdr) >= Len(lidRaw)
    BY <1>1, ScanIs DEF LioTypes
  <2>2. /\ lidRaw' \in Seq(Nat) /\ Len(lidRaw') = Len(lidRaw) - 1 /\ Len(lidRaw) \in Nat
        /\ lidHdr' \in Seq(Nat) /\ Len(lidHdr') = Len(lidHdr) - 1 /\ Len(lidHdr) \in Nat
    BY <1>1, <2>1, TailIs
  <2> QED BY <2>1, <2>2
<1>4. lastLio' \in Nat /\ lastPropEnd' \in Int
  <2>1. LatchedLio \in Nat /\ Scan \in [cloud : Nat, beg : Nat, end : Nat]
    BY <1>1, ScanIs
  <2>2. Scan.end \in Nat /\ lastPropEnd \in Int
    BY <2>1 DEF LioTypes
  <2>3. \/ lastLio' = LatchedLio /\ lastPropEnd' = lastPropEnd
        \/ lastLio' = Scan.end /\ lastPropEnd' = Scan.end
    BY ScanFilter
  <2> QED BY <2>1, <2>2, <2>3
<1>5. tailImu' \in Nat
  <2>1. ScanPackage # <<>> => ScanPackage[Len(ScanPackage)] \in Nat
    BY <1>1, ScanPackageIs
  <2> QED BY <2>1, ScanFilter DEF LioTypes
<1> QED BY <1>1, <1>2, <1>3, <1>4, <1>5, ScanFilter DEF LioTypes

LEMMA LidarOnlyTypes ==
  ASSUME LioTypes, LidarOnlyUpdate
  PROVE  LioTypes'
<1>1. lidRaw # <<>> /\ lidRaw' = Tail(lidRaw) /\ lidHdr' = Tail(lidHdr)
      /\ lastLio' = FrontScan.end /\ lastScan' = FrontScan.beg
      /\ UNCHANGED <<lastLidar, lidClock, imuBuf, lastImu, needInit, tailImu, lastPropEnd,
                     restarts, held>>
  BY DEF LidarOnlyUpdate, imuVars, filtVars, envVars
<1>2. /\ lidRaw' \in Seq(Nat) /\ lidHdr' \in Seq(Nat) /\ Len(lidHdr') >= Len(lidRaw')
  <2>1. /\ lidRaw \in Seq(Nat) /\ lidHdr \in Seq(Nat) /\ lidHdr # <<>> /\ Len(lidHdr) >= Len(lidRaw)
    BY <1>1, ScanIs DEF LioTypes
  <2>2. /\ lidRaw' \in Seq(Nat) /\ Len(lidRaw') = Len(lidRaw) - 1 /\ Len(lidRaw) \in Nat
        /\ lidHdr' \in Seq(Nat) /\ Len(lidHdr') = Len(lidHdr) - 1 /\ Len(lidHdr) \in Nat
    BY <1>1, <2>1, TailIs
  <2> QED BY <2>1, <2>2
<1>3. lastLio' \in Nat /\ lastScan' \in Nat
  BY <1>1, ScanIs
<1> QED BY <1>1, <1>2, <1>3 DEF LioTypes

LEMMA LioTypesInvariance == LioSpec => []LioTypes
<1>1. LioInit => LioTypes
  BY TimesAssumption DEF LioInit, Init, LioTypes
<1>2. LioTypes /\ LidarClockRestart /\ UNCHANGED lioVars => LioTypes'
  BY DEF LidarClockRestart, LioTypes, lidarVars, imuVars, cutVars, filtVars, lioVars
<1>3. LioTypes /\ UNCHANGED allVars => LioTypes'
  BY DEF LioTypes, allVars, vars, lidarVars, imuVars, cutVars, filtVars, envVars, lioVars
<1>4. LioTypes /\ [LioNext]_allVars => LioTypes'
  BY <1>2, <1>3, LioFrameTypes, SampleTypes, HoldTypes, ScanTypes, LidarOnlyTypes
  DEF LioNext, LioIterate
<1> QED
  BY <1>1, <1>4, PTL DEF LioSpec

-----------------------------------------------------------------------------
LEMMA HeldInvariance == LioSpec => []HeldInFront
<1>1. LioInit => HeldInFront
  BY DEF LioInit, HeldInFront
<1>2. ASSUME LioTypes, HeldInFront, [LioNext]_allVars
      PROVE  HeldInFront'
  <2>1. ASSUME NEW t \in LidarTimes, CloudArrives(t)
        PROVE  HeldInFront'
    BY <1>2, <2>1 DEF CloudArrives, HeldInFront
  <2>2. CASE \/ \E t \in ImuTimes : SampleArrives(t)
             \/ LidarClockRestart /\ UNCHANGED lioVars
             \/ LatchOnly \/ UNCHANGED allVars
    <3>1. UNCHANGED <<lidRaw, mode, held, displaced>>
      BY <2>2 DEF SampleArrives, ImuAccept, ImuDrop, LidarClockRestart, LatchOnly, allVars,
                  vars, lidarVars, lioVars
    <3> QED BY <1>2, <3>1 DEF HeldInFront
  <2>3. CASE HoldScan
    <3>1. lidRaw # <<>> /\ held = NoScan /\ held' = Scan /\ mode = "ONLY_LIO"
          /\ UNCHANGED <<lidRaw, mode>>
      BY <2>3 DEF HoldScan, LioReady, lidarVars
    <3>2. Scan.cloud = Head(lidRaw)
      BY <1>2, <3>1, ScanIs
    <3> QED BY <3>1, <3>2 DEF HeldInFront
  <2>4. CASE ScanUpdate
    BY <2>4 DEF ScanUpdate, HeldInFront
  <2>5. CASE LidarOnlyUpdate
    BY <1>2, <2>5 DEF LidarOnlyUpdate, HeldInFront
  <2> QED BY <1>2, <2>1, <2>2, <2>3, <2>4, <2>5 DEF LioNext, LioIterate
<1> QED
  BY LioTypesInvariance, <1>1, <1>2, PTL DEF LioSpec

\* Without a camera too the headers never run out: sync_packages pops one with
\* each cloud, and the callback trims and pushes both together.
THEOREM LioHeadersSuffice == LioSpec => []HeadersCoverClouds
<1>1. LioTypes => HeadersCoverClouds
  BY DEF LioTypes, HeadersCoverClouds
<1> QED BY <1>1, LioTypesInvariance, PTL

\* A pop of the front cloud pops the cloud that was processed, unless the
\* callback displaced it during the wait for the IMU.
THEOREM PopsTheScan == LioSpec => PoppedIsProcessed
<1>1. LioTypes /\ HeldInFront /\ [LioNext]_allVars
        => [ScanUpdate => Scan.cloud = Head(lidRaw) \/ displaced]_allVars
  BY ScanIs DEF ScanUpdate, LioReady, HeldInFront
<1> QED
  BY LioTypesInvariance, HeldInvariance, <1>1, PTL DEF LioSpec, PoppedIsProcessed

-----------------------------------------------------------------------------
\* The scan at hand: no scan that is buffered or still to come ends earlier.
LEMMA ScanEnds ==
  ASSUME EndsInOrder, LioTypes, ScansForward, restarts = 0, lidRaw # <<>>
  PROVE  /\ Scan.end \in Nat /\ Scan.end >= lastLio /\ Scan.end >= tailImu
         /\ LatchedLio <= Scan.end
         /\ \A i \in 1..Len(lidRaw) : EndOf(lidRaw[i]) >= Scan.end
         /\ \A t \in LidarTimes : t > lidClock => EndOf(t) >= Scan.end
<1>1. /\ SteadyClock /\ CloudsOrdered /\ ScansEndFrom(lastLio) /\ ScansEndFrom(tailImu)
      /\ held # NoScan => ScansEndFrom(held.end) /\ lastLio >= 0
  BY DEF ScansForward, HeldEnds
<1>2. /\ lidRaw \in Seq(Nat) /\ Len(lidRaw) \in Nat /\ 1 \in 1..Len(lidRaw) /\ lidHdr = lidRaw
      /\ lidRaw[1] \in Nat /\ lidClock \in Int /\ lastLio \in Int /\ tailImu \in Int
      /\ LidarTimes \subseteq Nat
  BY <1>1, TailIs, TimesAssumption DEF LioTypes, SteadyClock
<1>3. Scan.end \in Nat /\ LatchedLio \in Nat
  BY ScanIs
<1>4. CASE held = NoScan
  <2>1. Scan.end = EndOf(lidRaw[1]) /\ lidRaw[1] <= EndOf(lidRaw[1])
    BY <1>2, <1>4, ScanIs, LastOffsetIs DEF EndOf
  <2>2. Scan.end >= lastLio /\ Scan.end >= tailImu
    BY <1>1, <1>2, <2>1 DEF ScansEndFrom
  <2>3. LatchedLio <= Scan.end
    BY <1>2, <1>3, <2>1, <2>2, ScanIs
  <2>4. ASSUME NEW t \in LidarTimes, lidRaw[1] <= t
        PROVE  EndOf(t) >= Scan.end
    <3>1. lidRaw[1] \in LidarTimes
      BY <1>1, <1>2 DEF CloudsOrdered
    <3>2. CASE lidRaw[1] = t
      BY <1>3, <2>1, <3>2
    <3>3. CASE lidRaw[1] # t
      <4>1. lidRaw[1] < t /\ EndOf(t) \in Nat
        BY <1>2, <2>4, <3>3, LastOffsetIs DEF EndOf
      <4>2. EndOf(lidRaw[1]) <= EndOf(t)
        BY <3>1, <4>1 DEF EndsInOrder
      <4> QED BY <1>3, <2>1, <4>1, <4>2
    <3> QED BY <3>2, <3>3
  <2>5. \A i \in 1..Len(lidRaw) : lidRaw[i] \in LidarTimes /\ lidRaw[1] <= lidRaw[i]
    BY <1>1, <1>2 DEF CloudsOrdered
  <2>6. \A t \in LidarTimes : t > lidClock => lidRaw[1] <= t
    BY <1>1, <1>2 DEF CloudsOrdered
  <2> QED BY <1>3, <2>2, <2>3, <2>4, <2>5, <2>6
<1>5. CASE held # NoScan
  <2>1. Scan = held /\ LatchedLio = lastLio
    BY <1>1, <1>5, ScanIs
  <2>2. Scan.end >= lastLio /\ Scan.end >= tailImu
    BY <1>1, <1>5, <2>1 DEF ScansEndFrom
  <2>3. /\ \A i \in 1..Len(lidRaw) : EndOf(lidRaw[i]) >= Scan.end
        /\ \A t \in LidarTimes : t > lidClock => EndOf(t) >= Scan.end
    BY <1>1, <1>5, <2>1 DEF ScansEndFrom
  <2> QED BY <1>2, <1>3, <2>1, <2>2, <2>3
<1> QED BY <1>4, <1>5

\* What is left of the buffer after a pop.
LEMMA PopKeepsClouds ==
  ASSUME LioTypes, SteadyClock, CloudsOrdered, lidRaw # <<>>, lidRaw' = Tail(lidRaw),
         lidHdr' = Tail(lidHdr), UNCHANGED <<lidClock, lastLidar, restarts>>
  PROVE  /\ SteadyClock' /\ CloudsOrdered'
         /\ \A i \in 1..Len(lidRaw') : \E j \in 1..Len(lidRaw) : lidRaw'[i] = lidRaw[j]
<1>1. /\ lidRaw \in Seq(Nat) /\ Len(lidRaw) \in Nat /\ Len(lidRaw') = Len(lidRaw) - 1
      /\ \A i \in 1..Len(lidRaw') : i + 1 \in 1..Len(lidRaw) /\ lidRaw'[i] = lidRaw[i + 1]
  BY TailIs DEF LioTypes
<1>2. SteadyClock'
  BY DEF SteadyClock
<1>3. \A i, j \in 1..Len(lidRaw') : i <= j => i + 1 <= j + 1
  BY <1>1
<1>4. CloudsOrdered'
  BY <1>1, <1>3 DEF CloudsOrdered
<1> QED BY <1>1, <1>2, <1>4

LEMMA ArrivalKeepsScans ==
  ASSUME LioTypes, ScansForward, NEW t \in LidarTimes, CloudArrives(t)
  PROVE  ScansForward'
<1> SUFFICES ASSUME restarts = 0
             PROVE  /\ SteadyClock' /\ CloudsOrdered' /\ HeldEnds' /\ ScansEndFrom(lastLio)'
                    /\ ScansEndFrom(tailImu)' /\ CloudsFrom(lastScan)'
  BY DEF ScansForward, CloudArrives, LidarFrame, LidarEmptyCloud
<1>1. /\ SteadyClock /\ CloudsOrdered /\ ScansEndFrom(lastLio) /\ ScansEndFrom(tailImu)
      /\ CloudsFrom(lastScan) /\ HeldEnds
  BY DEF ScansForward
<1>2. /\ t \in Nat /\ LidarTimes \subseteq Nat /\ lidRaw \in Seq(Nat)
      /\ lastLidar \in Int /\ lidClock \in Int /\ lastLio \in Int /\ tailImu \in Int
      /\ lastScan \in Int /\ (held # NoScan => held.end \in Int)
  BY TimesAssumption DEF LioTypes
<1>3. /\ t > lidClock /\ lidClock' = t
      /\ UNCHANGED <<lastLio, tailImu, lastScan, held>>
  BY DEF CloudArrives, LidarFrame, LidarEmptyCloud, cutVars, filtVars
<1>4. /\ SteadyClock' /\ CloudsOrdered'
      /\ \A i \in 1..Len(lidRaw') :
           lidRaw'[i] = t \/ \E j \in 1..Len(lidRaw) : lidRaw'[i] = lidRaw[j]
  <2>1. CASE LidarFrame(t)
    BY <1>1, <1>2, <2>1, FrameKeepsClouds
  <2>2. CASE LidarEmptyCloud(t)
    <3>1. lidRaw' = lidRaw /\ UNCHANGED <<lidHdr, lastLidar, restarts>>
      BY <1>1, <1>2, <2>2 DEF LidarEmptyCloud, KeptClouds, SteadyClock
    <3>2. SteadyClock'
      BY <1>1, <1>2, <1>3, <3>1 DEF SteadyClock
    <3>3. \A i \in 1..Len(lidRaw) : lidRaw[i] \in Nat /\ lidRaw[i] <= lidClock
      BY <1>1, <1>2 DEF CloudsOrdered
    <3>4. CloudsOrdered'
      BY <1>1, <1>2, <1>3, <3>1, <3>3 DEF CloudsOrdered
    <3> QED BY <3>1, <3>2, <3>4
  <2> QED BY <2>1, <2>2 DEF CloudArrives
<1>5. ASSUME NEW c \in Int, ScansEndFrom(c)
      PROVE  /\ \A i \in 1..Len(lidRaw') : EndOf(lidRaw'[i]) >= c
             /\ \A s \in LidarTimes : s > lidClock' => EndOf(s) >= c
  <2>1. EndOf(t) >= c
    BY <1>3, <1>5 DEF ScansEndFrom
  <2>2. \A i \in 1..Len(lidRaw') : EndOf(lidRaw'[i]) >= c
    BY <1>4, <1>5, <2>1 DEF ScansEndFrom
  <2>3. \A s \in LidarTimes : s > lidClock' => s > lidClock
    BY <1>2, <1>3
  <2> QED BY <1>5, <2>2, <2>3 DEF ScansEndFrom
<1>6. ASSUME NEW c \in Int, CloudsFrom(c)
      PROVE  /\ \A i \in 1..Len(lidRaw') : lidRaw'[i] >= c
             /\ \A s \in LidarTimes : s > lidClock' => s >= c
  <2>1. t >= c
    BY <1>3, <1>6 DEF CloudsFrom
  <2>2. \A i \in 1..Len(lidRaw') : lidRaw'[i] >= c
    BY <1>4, <1>6, <2>1 DEF CloudsFrom
  <2>3. \A s \in LidarTimes : s > lidClock' => s > lidClock
    BY <1>2, <1>3
  <2> QED BY <1>6, <2>2, <2>3 DEF CloudsFrom
<1>7. ScansEndFrom(lastLio)'
  BY <1>1, <1>2, <1>3, <1>5 DEF ScansEndFrom
<1>8. ScansEndFrom(tailImu)'
  BY <1>1, <1>2, <1>3, <1>5 DEF ScansEndFrom
<1>9. HeldEnds'
  <2> SUFFICES ASSUME held # NoScan PROVE ScansEndFrom(held.end)' /\ lastLio >= 0
    BY <1>3 DEF HeldEnds
  <2>1. ScansEndFrom(held.end) /\ lastLio >= 0 /\ held.end \in Int
    BY <1>1, <1>2 DEF HeldEnds
  <2>2. held.end >= held.end
    BY <2>1
  <2> QED BY <1>3, <1>5, <2>1, <2>2 DEF ScansEndFrom
<1>10. CloudsFrom(lastScan)'
  <2>1. lastScan \in Int /\ CloudsFrom(lastScan)
    BY <1>1, <1>2
  <2>2. \A i \in 1..Len(lidRaw') : lidRaw'[i] >= lastScan
    BY <1>6, <2>1
  <2>3. \A s \in LidarTimes : s > lidClock' => s >= lastScan
    BY <1>6, <2>1
  <2> QED BY <1>3, <2>2, <2>3 DEF CloudsFrom
<1> QED BY <1>4, <1>7, <1>8, <1>9, <1>10

\* A pop leaves scans that are buffered already.
LEMMA PopKeepsEnds ==
  ASSUME LioTypes, SteadyClock, CloudsOrdered, lidRaw # <<>>, lidRaw' = Tail(lidRaw),
         lidHdr' = Tail(lidHdr), UNCHANGED <<lidClock, lastLidar, restarts>>,
         NEW c \in Int, \A i \in 1..Len(lidRaw) : EndOf(lidRaw[i]) >= c,
         \A t \in LidarTimes : t > lidClock => EndOf(t) >= c
  PROVE  /\ \A i \in 1..Len(lidRaw') : EndOf(lidRaw'[i]) >= c
         /\ \A t \in LidarTimes : t > lidClock' => EndOf(t) >= c
BY PopKeepsClouds

\* The last sample a filter has seen after a scan.
LEMMA TailAfterScan ==
  ASSUME EndsInOrder, LioTypes, ScansForward, ScanUpdate, restarts = 0
  PROVE  tailImu' \in Nat /\ tailImu' <= Scan.end
<1>1. lidRaw # <<>>
  BY DEF ScanUpdate, LioReady
<1>2. ScanPackage # <<>> => ScanPackage[Len(ScanPackage)] \in Nat
                            /\ ScanPackage[Len(ScanPackage)] <= Scan.end
  <2>1. ScanPackage \in Seq(Nat)
    BY <1>1, ScanPackageIs
  <2>2. \A i \in 1..Len(ScanPackage) : ScanPackage[i] = imuBuf[i] /\ imuBuf[i] <= Scan.end
    BY <1>1, ScanPackageIs
  <2>3. ScanPackage # <<>> => Len(ScanPackage) \in 1..Len(ScanPackage)
    BY <2>1
  <2> QED BY <2>1, <2>2, <2>3
<1>3. Scan.end >= tailImu
  BY <1>1, ScanEnds
<1> QED BY <1>2, <1>3, ScanFilter DEF LioTypes

LEMMA ScanKeepsScans ==
  ASSUME EndsInOrder, LioTypes, ScansForward, ScanUpdate
  PROVE  ScansForward'
<1>1. /\ lidRaw # <<>> /\ lidRaw' = Tail(lidRaw) /\ lidHdr' = Tail(lidHdr) /\ held' = NoScan
      /\ UNCHANGED <<lidClock, lastLidar, lastScan, restarts>>
  BY DEF ScanUpdate, LioReady, envVars
<1> SUFFICES ASSUME restarts = 0
             PROVE  /\ SteadyClock' /\ CloudsOrdered' /\ HeldEnds' /\ ScansEndFrom(lastLio)'
                    /\ ScansEndFrom(tailImu)' /\ CloudsFrom(lastScan)'
  BY <1>1 DEF ScansForward
<1>2. SteadyClock /\ CloudsOrdered /\ CloudsFrom(lastScan)
  BY DEF ScansForward
<1>3. /\ SteadyClock' /\ CloudsOrdered'
      /\ \A i \in 1..Len(lidRaw') : \E j \in 1..Len(lidRaw) : lidRaw'[i] = lidRaw[j]
  BY <1>1, <1>2, PopKeepsClouds
<1>4. /\ Scan.end \in Nat /\ Scan.end >= tailImu /\ LatchedLio <= Scan.end /\ LatchedLio \in Nat
      /\ \A i \in 1..Len(lidRaw) : EndOf(lidRaw[i]) >= Scan.end
      /\ \A t \in LidarTimes : t > lidClock => EndOf(t) >= Scan.end
  BY <1>1, ScanEnds, ScanIs
<1>5. lastLio' \in Nat /\ lastLio' <= Scan.end
  BY <1>4, ScanFilter
<1>6. tailImu' \in Nat /\ tailImu' <= Scan.end
  BY TailAfterScan
<1>7. /\ \A i \in 1..Len(lidRaw') : EndOf(lidRaw'[i]) \in Int /\ EndOf(lidRaw'[i]) >= Scan.end
      /\ \A t \in LidarTimes : EndOf(t) \in Int /\ (t > lidClock' => EndOf(t) >= Scan.end)
  <2>1. /\ \A i \in 1..Len(lidRaw') : EndOf(lidRaw'[i]) >= Scan.end
        /\ \A t \in LidarTimes : t > lidClock' => EndOf(t) >= Scan.end
    BY <1>1, <1>3, <1>4
  <2>2. /\ \A i \in 1..Len(lidRaw') : lidRaw'[i] \in LidarTimes
        /\ LidarTimes \subseteq Nat
    BY <1>3, TimesAssumption DEF CloudsOrdered
  <2>3. \A t \in Nat : EndOf(t) \in Int
    BY LastOffsetIs DEF EndOf
  <2> QED BY <2>1, <2>2, <2>3
<1>8. \A c \in Int : c <= Scan.end =>
        /\ \A i \in 1..Len(lidRaw') : EndOf(lidRaw'[i]) >= c
        /\ \A t \in LidarTimes : t > lidClock' => EndOf(t) >= c
  BY <1>4, <1>7
<1>9. ScansEndFrom(lastLio)'
  <2>1. /\ \A i \in 1..Len(lidRaw') : EndOf(lidRaw'[i]) >= lastLio'
        /\ \A t \in LidarTimes : t > lidClock' => EndOf(t) >= lastLio'
    BY <1>5, <1>8
  <2> QED BY <1>1, <2>1 DEF ScansEndFrom
<1>10. ScansEndFrom(tailImu)'
  <2>1. /\ \A i \in 1..Len(lidRaw') : EndOf(lidRaw'[i]) >= tailImu'
        /\ \A t \in LidarTimes : t > lidClock' => EndOf(t) >= tailImu'
    BY <1>6, <1>8
  <2> QED BY <1>1, <2>1 DEF ScansEndFrom
<1>11. CloudsFrom(lastScan)' /\ HeldEnds'
  BY <1>1, <1>2, <1>3 DEF CloudsFrom, HeldEnds
<1> QED BY <1>3, <1>9, <1>10, <1>11

LEMMA HoldKeepsScans ==
  ASSUME EndsInOrder, LioTypes, ScansForward, LatchOnly \/ HoldScan
  PROVE  ScansForward'
<1>1. /\ lidRaw # <<>> /\ lastLio' = LatchedLio /\ held = NoScan
      /\ UNCHANGED <<lidRaw, lidHdr, lidClock, lastLidar, lastScan, restarts, tailImu>>
      /\ held' = held \/ held' = Scan
  BY DEF LatchOnly, HoldScan, LioReady, Blocked, lidarVars, envVars, filtVars, lioVars
<1> SUFFICES ASSUME restarts = 0
             PROVE  /\ SteadyClock' /\ CloudsOrdered' /\ HeldEnds' /\ ScansEndFrom(lastLio)'
                    /\ ScansEndFrom(tailImu)' /\ CloudsFrom(lastScan)'
  BY <1>1 DEF ScansForward
<1>2. /\ SteadyClock' /\ CloudsOrdered' /\ CloudsFrom(lastScan)' /\ ScansEndFrom(tailImu)
  BY <1>1 DEF ScansForward, SteadyClock, CloudsOrdered, CloudsFrom
<1>3. /\ Scan.end \in Nat /\ Scan.end >= tailImu /\ LatchedLio <= Scan.end /\ LatchedLio \in Nat
      /\ \A i \in 1..Len(lidRaw) : EndOf(lidRaw[i]) >= Scan.end
      /\ \A t \in LidarTimes : t > lidClock => EndOf(t) >= Scan.end
  BY <1>1, ScanEnds, ScanIs
<1>4. /\ \A i \in 1..Len(lidRaw) : EndOf(lidRaw[i]) \in Int
      /\ \A t \in LidarTimes : EndOf(t) \in Int
  <2>1. /\ \A i \in 1..Len(lidRaw) : lidRaw[i] \in Nat
        /\ LidarTimes \subseteq Nat
    BY TimesAssumption DEF LioTypes
  <2>2. \A t \in Nat : EndOf(t) \in Int
    BY LastOffsetIs DEF EndOf
  <2> QED BY <2>1, <2>2
<1>5. ScansEndFrom(lastLio)'
  BY <1>1, <1>3, <1>4 DEF ScansEndFrom
<1>6. ScansEndFrom(tailImu)'
  BY <1>1, <1>2, <1>3 DEF ScansEndFrom
<1>7. HeldEnds'
  BY <1>1, <1>3 DEF HeldEnds, ScansEndFrom
<1> QED BY <1>2, <1>5, <1>6, <1>7

LEMMA LidarOnlyKeepsScans ==
  ASSUME EndsInOrder, LioTypes, HeldInFront, ScansForward, LidarOnlyUpdate
  PROVE  ScansForward'
<1>1. /\ lidRaw # <<>> /\ lidRaw' = Tail(lidRaw) /\ lidHdr' = Tail(lidHdr) /\ held = NoScan
      /\ held' = NoScan /\ lastLio' = FrontScan.end /\ lastScan' = FrontScan.beg
      /\ UNCHANGED <<lidClock, lastLidar, tailImu, restarts>>
  BY DEF LidarOnlyUpdate, HeldInFront, filtVars, envVars
<1> SUFFICES ASSUME restarts = 0
             PROVE  /\ SteadyClock' /\ CloudsOrdered' /\ HeldEnds' /\ ScansEndFrom(lastLio)'
                    /\ ScansEndFrom(tailImu)' /\ CloudsFrom(lastScan)'
  BY <1>1 DEF ScansForward
<1>2. SteadyClock /\ CloudsOrdered /\ ScansEndFrom(tailImu)
  BY DEF ScansForward
<1>3. /\ SteadyClock' /\ CloudsOrdered'
      /\ \A i \in 1..Len(lidRaw') : \E j \in 1..Len(lidRaw) : lidRaw'[i] = lidRaw[j]
  BY <1>1, <1>2, PopKeepsClouds
<1>4. /\ lastLio' = Scan.end
      /\ \A i \in 1..Len(lidRaw) : EndOf(lidRaw[i]) >= Scan.end
      /\ \A t \in LidarTimes : t > lidClock => EndOf(t) >= Scan.end
  BY <1>1, ScanEnds, ScanIs
<1>5. ScansEndFrom(lastLio)'
  BY <1>1, <1>3, <1>4 DEF ScansEndFrom
<1>6. ScansEndFrom(tailImu)'
  BY <1>1, <1>2, <1>3 DEF ScansEndFrom
<1>7. CloudsFrom(lastScan)'
  <2>1. /\ lastScan' = lidRaw[1] /\ 1 \in 1..Len(lidRaw) /\ lidRaw[1] \in Nat /\ lidClock \in Int
        /\ LidarTimes \subseteq Nat
    BY <1>1, <1>2, ScanIs, TailIs, TimesAssumption DEF SteadyClock, LioTypes
  <2>2. \A j \in 1..Len(lidRaw) : 1 <= j => lidRaw[1] <= lidRaw[j] /\ lidRaw[j] \in Nat
    BY <2>1 DEF LioTypes, CloudsOrdered, ScansForward
  <2>3. \A i \in 1..Len(lidRaw') : lidRaw'[i] >= lidRaw[1]
    BY <1>3, <2>1, <2>2
  <2>4. \A t \in LidarTimes : t > lidClock => t >= lidRaw[1]
    BY <1>2, <2>1 DEF CloudsOrdered
  <2> QED BY <1>1, <2>1, <2>3, <2>4 DEF CloudsFrom
<1>8. HeldEnds'
  BY <1>1 DEF HeldEnds
<1> QED BY <1>3, <1>5, <1>6, <1>7, <1>8

LEMMA ScansInvariance ==
  ASSUME EndsInOrder
  PROVE  LioSpec => []ScansForward
<1>1. LioInit => ScansForward
  <2>1. \A t \in LidarTimes : EndOf(t) \in Nat /\ t \in Nat
    BY TimesAssumption, LastOffsetIs DEF EndOf
  <2> QED BY <2>1 DEF LioInit, Init, ScansForward, SteadyClock, CloudsOrdered, HeldEnds,
                      ScansEndFrom, CloudsFrom
<1>2. ASSUME LioTypes, ScansForward, LidarClockRestart, UNCHANGED lioVars
      PROVE  ScansForward'
  <2>1. restarts' # 0
    BY <1>2 DEF LioTypes, LidarClockRestart
  <2> QED BY <2>1 DEF ScansForward
<1>3. ASSUME ScansForward,
             (\E t \in ImuTimes : SampleArrives(t)) \/ UNCHANGED allVars
      PROVE  ScansForward'
  <2>1. UNCHANGED <<lidRaw, lidHdr, lastLidar, lidClock, lastLio, lastScan, tailImu, restarts, held>>
    BY <1>3 DEF SampleArrives, ImuAccept, ImuDrop, lidarVars, cutVars, filtVars, envVars, lioVars,
                allVars, vars
  <2> QED BY <1>3, <2>1 DEF ScansForward, SteadyClock, CloudsOrdered, HeldEnds, ScansEndFrom,
                            CloudsFrom
<1>4. LioTypes /\ HeldInFront /\ ScansForward /\ [LioNext]_allVars => ScansForward'
  BY <1>2, <1>3, ArrivalKeepsScans, HoldKeepsScans, ScanKeepsScans, LidarOnlyKeepsScans
  DEF LioNext, LioIterate
<1> QED
  BY LioTypesInvariance, HeldInvariance, <1>1, <1>4, PTL DEF LioSpec

\* While the lidar's clock runs forward neither the time of the filter nor
\* the start of the last scan goes back, though no guard compares them: it
\* holds because no scan ends before an earlier one does.
THEOREM ClockForward ==
  ASSUME EndsInOrder
  PROVE  LioSpec => ClockBackOnlyOnRestart
<1>1. ASSUME LioTypes, HeldInFront, ScansForward, LioNext, restarts = 0
      PROVE  lastLio' >= lastLio /\ lastScan' >= lastScan
  <2>1. lastLio \in Int /\ lastScan \in Int
    BY <1>1 DEF LioTypes
  <2>2. CASE \/ \E t \in LidarTimes : CloudArrives(t)
             \/ \E t \in ImuTimes : SampleArrives(t)
             \/ LidarClockRestart /\ UNCHANGED lioVars
    <3>1. UNCHANGED <<lastLio, lastScan>>
      BY <2>2 DEF CloudArrives, LidarFrame, LidarEmptyCloud, SampleArrives, ImuAccept, ImuDrop,
                  LidarClockRestart, cutVars, lioVars
    <3> QED BY <2>1, <3>1
  <2>3. CASE LatchOnly \/ HoldScan
    <3>1. lidRaw # <<>> /\ lastLio' = LatchedLio /\ lastScan' = lastScan
      BY <2>3 DEF LatchOnly, HoldScan, LioReady, lioVars
    <3> QED BY <1>1, <2>1, <3>1, ScanIs
  <2>4. CASE ScanUpdate
    <3>1. lidRaw # <<>> /\ lastScan' = lastScan
      BY <2>4 DEF ScanUpdate, LioReady
    <3>2. LatchedLio >= lastLio /\ Scan.end >= lastLio
      BY <1>1, <3>1, ScanIs, ScanEnds
    <3>3. lastLio' = LatchedLio \/ lastLio' = Scan.end
      BY <1>1, <2>4, ScanFilter
    <3> QED BY <2>1, <3>1, <3>2, <3>3
  <2>5. CASE LidarOnlyUpdate
    <3>1. lidRaw # <<>> /\ lastLio' = FrontScan.end /\ lastScan' = FrontScan.beg /\ held = NoScan
      BY <1>1, <2>5 DEF LidarOnlyUpdate, HeldInFront
    <3>2. lastLio' = Scan.end /\ Scan.end >= lastLio
      BY <1>1, <3>1, ScanIs, ScanEnds
    <3>3. lastScan' = lidRaw[1] /\ 1 \in 1..Len(lidRaw)
      BY <1>1, <3>1, ScanIs, TailIs DEF ScansForward, SteadyClock, LioTypes
    <3>4. lidRaw[1] >= lastScan
      BY <1>1, <3>3 DEF ScansForward, CloudsFrom
    <3> QED BY <3>2, <3>3, <3>4
  <2> QED BY <1>1, <2>2, <2>3, <2>4, <2>5 DEF LioNext, LioIterate
<1>2. LioTypes /\ HeldInFront /\ ScansForward /\ [LioNext]_allVars
        => [restarts = 0 => lastLio' >= lastLio /\ lastScan' >= lastScan]_allVars
  BY <1>1
<1> QED
  BY LioTypesInvariance, HeldInvariance, ScansInvariance, <1>2, PTL
  DEF LioSpec, ClockBackOnlyOnRestart

-----------------------------------------------------------------------------
(***************************************************************************)
(* Until the first undistorted scan last_prop_end_time is the value it was *)
(* never given and the clock that of a frame; from then on the two agree,  *)
(* and the samples of the filter and of the buffer lie on either side.     *)
(***************************************************************************)
Untouched == lastPropEnd \in UninitReads /\ lastLio \in LidarTimes \cup {-1}
Integrated ==
  /\ lastPropEnd = lastLio /\ ~needInit
  /\ tailImu <= lastLio /\ lastLio <= lastImu
  /\ \A i \in 1..Len(imuBuf) : imuBuf[i] >= lastLio

ScanClock ==
  /\ ~needInit => lastLio >= 0
  /\ restarts = 0 /\ mode = "ONLY_LIO" => Untouched \/ Integrated

LEMMA LioImuOrder == LioSpec => []ImuOrdered
<1>1. LioInit => ImuOrdered
  BY DEF LioInit, Init, ImuOrdered
<1>2. ASSUME LioTypes, ImuOrdered, NEW t \in ImuTimes, SampleArrives(t)
      PROVE  ImuOrdered'
  <2>1. imuBuf \in Seq(Nat) /\ lastImu \in Nat \cup {-1}
    BY <1>2 DEF LioTypes
  <2>2. CASE ImuAccept(t)
    BY <1>2, <2>1, <2>2, AcceptKeepsOrder
  <2>3. CASE ImuDrop(t)
    BY <1>2, <2>3 DEF ImuDrop, imuVars, ImuOrdered
  <2> QED BY <1>2, <2>2, <2>3 DEF SampleArrives
<1>3. ASSUME LioTypes, ImuOrdered, ScanUpdate
      PROVE  ImuOrdered'
  <2> DEFINE k == Len(ScanPackage)
  <2>1. /\ lidRaw # <<>> /\ lastImu' = lastImu
        /\ imuBuf' = SubSeq(imuBuf, k + 1, Len(imuBuf))
    BY <1>3 DEF ScanUpdate, LioReady
  <2>2. /\ k \in Nat /\ Len(imuBuf') = Len(imuBuf) - k
        /\ \A i \in 1..(Len(imuBuf) - k) : k + i \in 1..Len(imuBuf) /\ imuBuf'[i] = imuBuf[k + i]
    BY <1>3, <2>1, ScanPackageIs
  <2> HIDE DEF k
  <2>3. \A i, j \in 1..Len(imuBuf') : i <= j => k + i <= k + j
    BY <2>2
  <2> QED BY <1>3, <2>1, <2>2, <2>3 DEF ImuOrdered
<1>4. ASSUME ImuOrdered,
             \/ \E t \in LidarTimes : CloudArrives(t)
             \/ LidarClockRestart \/ LatchOnly \/ HoldScan \/ LidarOnlyUpdate
             \/ UNCHANGED allVars
      PROVE  ImuOrdered'
  <2>1. UNCHANGED imuVars
    BY <1>4 DEF CloudArrives, LidarFrame, LidarEmptyCloud, LidarClockRestart, LatchOnly, HoldScan,
                LidarOnlyUpdate, allVars, vars
  <2> QED BY <1>4, <2>1 DEF imuVars, ImuOrdered
<1>5. LioTypes /\ ImuOrdered /\ [LioNext]_allVars => ImuOrdered'
  BY <1>2, <1>3, <1>4 DEF LioNext, LioIterate
<1> QED
  BY LioTypesInvariance, <1>1, <1>5, PTL DEF LioSpec

LEMMA SampleKeepsClock ==
  ASSUME LioTypes, ImuOrdered, ScanClock, NEW t \in ImuTimes, SampleArrives(t)
  PROVE  ScanClock'
<1>1. UNCHANGED <<needInit, lastLio, lastPropEnd, tailImu, restarts, mode>>
  BY DEF SampleArrives, ImuAccept, ImuDrop, cutVars, filtVars, lioVars
<1>2. lastLio \in Int /\ lastImu \in Int /\ imuBuf \in Seq(Nat) /\ lastImu \in Nat \cup {-1}
  BY DEF LioTypes
<1>3. CASE ImuAccept(t)
  <2>1. t \in Nat /\ t >= lastImu
    BY <1>2, <1>3, AcceptedLater
  <2>2. lastImu' = t /\ imuBuf' = Append(imuBuf, t)
    BY <1>3 DEF ImuAccept
  <2>3. \A i \in 1..Len(imuBuf') : imuBuf'[i] = t \/ (i \in 1..Len(imuBuf) /\ imuBuf'[i] = imuBuf[i])
    BY <1>2, <2>1, <2>2
  <2>4. Integrated => Integrated'
    BY <1>1, <1>2, <2>1, <2>2, <2>3 DEF Integrated
  <2> QED BY <1>1, <2>4 DEF ScanClock, Untouched
<1>4. CASE ImuDrop(t)
  BY <1>1, <1>4 DEF ImuDrop, imuVars, ScanClock, Untouched, Integrated
<1> QED BY <1>3, <1>4 DEF SampleArrives

\* The first time is that of a frame.
LEMMA LatchKeepsClock ==
  ASSUME LioTypes, ScansForward, restarts = 0, lidRaw # <<>>, ScanClock, mode = "ONLY_LIO"
  PROVE  /\ Untouched => LatchedLio \in LidarTimes
         /\ Integrated => LatchedLio = lastLio
<1>1. LatchedLio = lastLio \/ (lastLio < 0 /\ LatchedLio = lidRaw[1])
  BY ScanIs DEF ScansForward, SteadyClock, LioTypes
<1>2. lidRaw[1] \in LidarTimes
  BY TailIs DEF ScansForward, CloudsOrdered, LioTypes
<1>3. LatchedLio \in Nat
  BY ScanIs
<1>4. Untouched => LatchedLio \in LidarTimes
  <2>1. Untouched => lastLio \in LidarTimes \/ lastLio = -1
    BY DEF Untouched
  <2>2. LatchedLio # -1
    BY <1>3
  <2> QED BY <1>1, <1>2, <2>1, <2>2
<1>5. Integrated => LatchedLio = lastLio
  <2>1. Integrated => lastLio >= 0 /\ lastLio \in Int
    BY DEF Integrated, ScanClock, LioTypes
  <2> QED BY <1>1, <2>1
<1> QED BY <1>4, <1>5

LEMMA HoldKeepsClock ==
  ASSUME LioTypes, ScansForward, ScanClock, LatchOnly \/ HoldScan
  PROVE  ScanClock'
<1>1. /\ lidRaw # <<>> /\ lastLio' = LatchedLio /\ mode = "ONLY_LIO" /\ mode' = mode
      /\ UNCHANGED <<needInit, lastPropEnd, tailImu, imuBuf, lastImu, restarts>>
  BY DEF LatchOnly, HoldScan, LioReady, imuVars, filtVars, envVars, lioVars
<1>2. LatchedLio \in Nat
  BY <1>1, ScanIs
<1>3. restarts = 0 => (Untouched => Untouched') /\ (Integrated => Integrated')
  BY <1>1, LatchKeepsClock DEF Untouched, Integrated
<1> QED BY <1>1, <1>2, <1>3 DEF ScanClock

LEMMA ScanKeepsClock ==
  ASSUME EndsInOrder, LioTypes, ImuOrdered, ScansForward, ScanClock, ScanUpdate
  PROVE  ScanClock'
<1> DEFINE k == Len(ScanPackage)
<1>1. /\ lidRaw # <<>> /\ mode = "ONLY_LIO" /\ mode' = mode /\ restarts' = restarts
      /\ imuBuf' = SubSeq(imuBuf, k + 1, Len(imuBuf)) /\ lastImu' = lastImu
      /\ lastImu >= Scan.end
  BY DEF ScanUpdate, LioReady, envVars
<1>2. LatchedLio \in Nat /\ Scan.end \in Nat
  BY <1>1, ScanIs
<1>3. lastLio' >= 0
  BY <1>2, ScanFilter
<1>4. ASSUME restarts = 0, needInit
      PROVE  Untouched'
  <2>1. lastLio' = LatchedLio /\ lastPropEnd' = lastPropEnd /\ Untouched
    BY <1>1, <1>4, ScanFilter DEF ScanClock, Integrated
  <2> QED BY <1>1, <1>4, <2>1, LatchKeepsClock DEF Untouched
<1>5. ASSUME restarts = 0, ~needInit
      PROVE  Integrated'
  <2>1. ~needInit' /\ lastLio' = Scan.end /\ lastPropEnd' = Scan.end
    BY <1>5, ScanFilter
  <2>2. tailImu' <= Scan.end
    BY <1>5, TailAfterScan
  <2>3. /\ k \in Nat /\ imuBuf \in Seq(Nat) /\ Len(imuBuf) \in Nat /\ Len(imuBuf') = Len(imuBuf) - k
        /\ \A i \in 1..(Len(imuBuf) - k) : k + i \in 1..Len(imuBuf) /\ imuBuf'[i] = imuBuf[k + i]
        /\ k < Len(imuBuf) => imuBuf[k + 1] > Scan.end
    <3>1. imuBuf \in Seq(Nat) /\ Len(imuBuf) \in Nat
      BY DEF LioTypes
    <3>2. k \in 0..Len(imuBuf) /\ (k < Len(imuBuf) => imuBuf[k + 1] > Scan.end)
      BY <1>1, ScanPackageIs
    <3>3. /\ Len(imuBuf') = Len(imuBuf) - k
          /\ \A i \in 1..(Len(imuBuf) - k) : k + i \in 1..Len(imuBuf) /\ imuBuf'[i] = imuBuf[k + i]
      BY <1>1, ScanPackageIs
    <3> QED BY <3>1, <3>2, <3>3
  <2> HIDE DEF k
  <2>4. ASSUME NEW i \in 1..Len(imuBuf')
        PROVE  imuBuf'[i] >= Scan.end
    <3>1. /\ k + 1 \in 1..Len(imuBuf) /\ k + i \in 1..Len(imuBuf) /\ k + 1 <= k + i
          /\ k < Len(imuBuf)
      BY <2>3
    <3>2. imuBuf[k + 1] <= imuBuf[k + i]
      BY <3>1 DEF ImuOrdered
    <3>3. imuBuf[k + 1] \in Nat /\ imuBuf[k + i] \in Nat /\ imuBuf'[i] = imuBuf[k + i]
      BY <2>3, <3>1
    <3> QED BY <1>2, <2>3, <3>1, <3>2, <3>3
  <2> QED BY <1>1, <2>1, <2>2, <2>4 DEF Integrated
<1>6. needInit \in BOOLEAN
  BY DEF LioTypes
<1> QED BY <1>1, <1>3, <1>4, <1>5, <1>6 DEF ScanClock

LEMMA ClockInvariance ==
  ASSUME EndsInOrder
  PROVE  LioSpec => []ScanClock
<1>1. LioInit => ScanClock
  BY DEF LioInit, Init, ScanClock, Untouched
<1>2. ASSUME LioTypes, ScanClock, \/ \E t \in LidarTimes : CloudArrives(t)
                                  \/ LidarClockRestart /\ UNCHANGED lioVars
                                  \/ UNCHANGED allVars
      PROVE  ScanClock'
  <2>1. UNCHANGED <<needInit, lastLio, lastPropEnd, tailImu, imuBuf, lastImu, mode>>
    BY <1>2 DEF CloudArrives, LidarFrame, LidarEmptyCloud, LidarClockRestart, imuVars, cutVars,
                filtVars, lioVars, allVars, vars
  <2>2. restarts' = 0 => restarts = 0
    BY <1>2 DEF CloudArrives, LidarFrame, LidarEmptyCloud, LidarClockRestart, LioTypes, envVars,
                allVars, vars
  <2> QED BY <1>2, <2>1, <2>2 DEF ScanClock, Untouched, Integrated
<1>3. ASSUME LioTypes, ScanClock, LidarOnlyUpdate
      PROVE  ScanClock'
  <2>1. mode = "ONLY_LO" /\ mode' = mode /\ lastLio' = FrontScan.end /\ lidRaw # <<>>
    BY <1>3 DEF LidarOnlyUpdate
  <2>2. lastLio' \in Nat
    BY <1>3, <2>1, ScanIs
  <2> QED BY <2>1, <2>2 DEF ScanClock
<1>4. /\ LioTypes /\ ImuOrdered /\ ScansForward /\ ScanClock /\ [LioNext]_allVars => ScanClock'
  BY <1>2, <1>3, SampleKeepsClock, HoldKeepsClock, ScanKeepsClock DEF LioNext, LioIterate
<1> QED
  BY LioTypesInvariance, LioImuOrder, ScansInvariance, <1>1, <1>4, PTL DEF LioSpec

\* Between two undistorted scans UndistortPcl propagates the filter over
\* exactly the time between their ends, whatever clouds were dropped or
\* displaced meanwhile.  The property knows a first undistorted scan by its
\* last_prop_end_time, which was never set: the value it then holds must not
\* happen to be the stamp of a frame.
THEOREM ScanPropagatedOverTheGap ==
  ASSUME EndsInOrder, UninitReads \cap LidarTimes = {}
  PROVE  LioSpec => ScanFullyPropagated
<1>1. ASSUME LioTypes, ScansForward, ScanClock, ScanUpdate, ~needInit, lastPropEnd = lastLio,
             restarts = 0, Len(ScanPackage) >= 2
      PROVE  Propagated(<<tailImu>> \o ScanPackage, lastPropEnd, Scan.end) = Scan.end - lastLio
  <2>1. lidRaw # <<>> /\ mode = "ONLY_LIO"
    BY <1>1 DEF ScanUpdate, LioReady
  <2>2. lastLio \in Nat /\ tailImu \in Nat /\ Scan.end \in Nat /\ imuBuf \in Seq(Nat)
    BY <1>1, <2>1, ScanIs DEF LioTypes, ScanClock
  <2>3. ~Untouched
    BY <1>1, <2>2 DEF Untouched
  <2>4. Integrated
    BY <1>1, <2>1, <2>3 DEF ScanClock
  <2>5. /\ ScanPackage \in Seq(Nat)
        /\ \A i \in 1..Len(ScanPackage) : i \in 1..Len(imuBuf) /\ ScanPackage[i] = imuBuf[i]
    BY <1>1, <2>1, ScanPackageIs
  <2>6. tailImu <= lastPropEnd /\ \A i \in 1..Len(ScanPackage) : ScanPackage[i] >= lastPropEnd
    BY <1>1, <2>4, <2>5 DEF Integrated
  <2>7. lastPropEnd \in Int /\ Scan.end \in Int
    BY <1>1, <2>2
  <2>8. Propagated(<<tailImu>> \o ScanPackage, lastPropEnd, Scan.end) = Scan.end - lastPropEnd
    BY <1>1, <2>2, <2>5, <2>6, <2>7, PropagationCovers
  <2> QED BY <1>1, <2>8
<1>2. LioTypes /\ ScansForward /\ ScanClock /\ [LioNext]_allVars
        => [ScanUpdate /\ ~needInit /\ lastPropEnd = lastLio /\ restarts = 0 /\ Len(ScanPackage) >= 2
              => Propagated(<<tailImu>> \o ScanPackage, lastPropEnd, Scan.end)
                   = Scan.end - lastLio]_allVars
  BY <1>1
<1> QED
  BY LioTypesInvariance, ScansInvariance, ClockInvariance, <1>2, PTL
  DEF LioSpec, ScanFullyPropagated
=============================================================================
