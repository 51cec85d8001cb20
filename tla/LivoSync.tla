------------------------------ MODULE LivoSync ------------------------------
(***************************************************************************)
(* The LIVO-mode measurement pipeline of fast_livo2: the sensor callbacks  *)
(* of LIVMapper, its sync_packages, and the bookkeeping ImuProcess does    *)
(* with each package (Process2 / IMU_init / UndistortPcl).                 *)
(*                                                                         *)
(* LIVMapper::run is one thread: rclcpp::spin_some runs callbacks, then    *)
(* sync_packages cuts at most one package and the filter processes it      *)
(* before the next callback.  Every callback and every loop iteration is   *)
(* therefore one action, and the interleaving is that of the messages.     *)
(*                                                                         *)
(* Time is in integer ticks.  A point cloud is named by the true stamp of  *)
(* its first point; its points lie at offsets 0..ScanLen, the last of      *)
(* which is the curvature of points.back().                                *)
(***************************************************************************)
EXTENDS Integers, Sequences, FiniteSets, UpdateArithmetic

CONSTANTS
  LidarTimes,      \* stamps a lidar frame can carry
  ImuTimes,        \* stamps an IMU sample can carry
  ImgTimes,        \* stamps an image can carry, img_time_offset included
  ScanLen,         \* offset of the last point of a scan
  MaxLidarBuffer,  \* MAX_LIDAR_BUFFER of the lidar callbacks
  ImuGap,          \* the 0.2 s jump limit of imu_cbk
  MinImgGap,       \* the 0.05 s minimum image spacing of img_cbk
  ExposureInit,    \* exposure_time_init
  InitCount,       \* MAX_INI_COUNT of ImuProcess
  MaxRestarts,     \* bound on backward jumps of the lidar clock
  UninitReads      \* values the uninitialised last_prop_end_time may hold

ASSUME TimesAssumption ==
  /\ LidarTimes \subseteq Nat
  /\ ImuTimes \subseteq Nat
  /\ ImgTimes \subseteq Nat
  /\ UninitReads \subseteq Int

ASSUME LimitsAssumption ==
  /\ ScanLen \in Nat
  /\ MaxLidarBuffer \in Nat \ {0}
  /\ ImuGap \in Nat
  /\ MinImgGap \in Nat \ {0}
  /\ ExposureInit \in Nat
  /\ InitCount \in Nat
  /\ MaxRestarts \in Nat

VARIABLES
  lidRaw,       \* lid_raw_data_buffer: the clouds, by true stamp
  lidHdr,       \* lid_header_time_buffer
  lastLidar,    \* last_timestamp_lidar
  imuBuf,       \* imu_buffer
  lastImu,      \* last_timestamp_imu
  imgBuf,       \* img_buffer with img_time_buffer, always changed together
  lastImg,      \* last_timestamp_img
  flg,          \* meas.lio_vio_flg
  lastLio,      \* meas.last_lio_update_time
  measures,     \* meas.measures: the times of the packages it holds
  procNext,     \* meas.pcl_proc_next: points kept for the next lidar update
  needInit,     \* p_imu->imu_need_init
  initN,        \* p_imu->init_iter_num
  tailImu,      \* p_imu->last_imu: stamp of the last sample propagated
  lastPropEnd,  \* p_imu->last_prop_end_time
  lidClock,     \* newest stamp the lidar has put on a frame
  imuClock,     \* newest stamp the lidar has put on an IMU sample
  restarts      \* backward clock jumps so far

lidarVars == <<lidRaw, lidHdr, lastLidar>>
imuVars   == <<imuBuf, lastImu>>
imgVars   == <<imgBuf, lastImg>>
cutVars   == <<flg, lastLio, measures, procNext>>
filtVars  == <<needInit, initN, tailImu, lastPropEnd>>
envVars   == <<lidClock, imuClock, restarts>>
vars == <<lidarVars, imuVars, imgVars, cutVars, filtVars, envVars>>

\* A point as the cutter stores it: its true time and its curvature field.
Point == [abs : Nat, cur : Int]
Package == [lio : Int, vio : Int]

Init ==
  /\ lidRaw = <<>> /\ lidHdr = <<>> /\ lastLidar = -1
  /\ imuBuf = <<>> /\ lastImu = -1
  /\ imgBuf = <<>> /\ lastImg = -1
  /\ flg = "WAIT" /\ lastLio = -1 /\ measures = <<>> /\ procNext = {}
  /\ needInit = TRUE /\ initN = 1 /\ tailImu = 0
  /\ lastPropEnd \in UninitReads
  /\ lidClock = -1 /\ imuClock = -1 /\ restarts = 0

-----------------------------------------------------------------------------
(***************************************************************************)
(* livox_pcl_cbk.  A stamp before last_timestamp_lidar clears the cloud    *)
(* buffer but not the header buffer; an empty cloud returns after that.    *)
(***************************************************************************)
KeptClouds(t) == IF t < lastLidar THEN <<>> ELSE lidRaw

\* The newest MaxLidarBuffer clouds stay; as many headers are popped.
Surplus_OffByOne(raw) == IF Len(raw) > MaxLidarBuffer + 1 THEN 1 ELSE 0
Surplus(raw) == IF Len(raw) > MaxLidarBuffer THEN Len(raw) - MaxLidarBuffer ELSE 0

LidarFrame(t) ==
  LET raw == Append(KeptClouds(t), t)
      hdr == Append(lidHdr, t)
      n   == Surplus(raw)
  IN /\ t > lidClock
     /\ lidRaw' = SubSeq(raw, n + 1, Len(raw))
     /\ lidHdr' = SubSeq(hdr, n + 1, Len(hdr))
     /\ lastLidar' = t
     /\ lidClock' = t
     /\ UNCHANGED <<imuVars, imgVars, cutVars, filtVars, imuClock, restarts>>

LidarEmptyCloud_HeaderPushed(t) ==
  /\ t > lidClock
  /\ lidRaw' = KeptClouds(t) /\ lidHdr' = Append(lidHdr, t) /\ lidClock' = t
  /\ UNCHANGED <<lastLidar, imuVars, imgVars, cutVars, filtVars, imuClock, restarts>>

LidarEmptyCloud_CloudPushed(t) ==
  /\ t > lidClock
  /\ lidRaw' = Append(KeptClouds(t), t) /\ lidClock' = t
  /\ UNCHANGED <<lidHdr, lastLidar, imuVars, imgVars, cutVars, filtVars, imuClock, restarts>>

LidarEmptyCloud(t) ==
  /\ t > lidClock
  /\ lidRaw' = KeptClouds(t)
  /\ lidClock' = t
  /\ UNCHANGED <<lidHdr, lastLidar, imuVars, imgVars, cutVars, filtVars,
                 imuClock, restarts>>

(***************************************************************************)
(* imu_cbk.  A sample is dropped before the first lidar frame, when it is  *)
(* older than the last accepted one, and when it is more than ImuGap ahead *)
(* of it; a dropped sample leaves last_timestamp_imu as it was.            *)
(***************************************************************************)
ImuRejected_BackwardAllowed(t) ==
  lastLidar < 0 \/ (lastImu > 0 /\ t > lastImu + ImuGap)

ImuRejected_GapFromReceived(t) ==
  lastLidar < 0 \/ (lastImu > 0 /\ (t < lastImu \/ t > imuClock + ImuGap))

ImuRejected(t) ==
  \/ lastLidar < 0
  \/ lastImu > 0 /\ t < lastImu
  \/ lastImu > 0 /\ t > lastImu + ImuGap

ImuAccept(t) ==
  /\ t > imuClock
  /\ ~ImuRejected(t)
  /\ lastImu' = t
  /\ imuBuf' = Append(imuBuf, t)
  /\ imuClock' = t
  /\ UNCHANGED <<lidarVars, imgVars, cutVars, filtVars, lidClock, restarts>>

ImuDrop(t) ==
  /\ t > imuClock
  /\ ImuRejected(t)
  /\ imuClock' = t
  /\ UNCHANGED <<lidarVars, imuVars, imgVars, cutVars, filtVars, lidClock,
                 restarts>>

(***************************************************************************)
(* img_cbk.  Duplicates, images before the first lidar frame, backward and *)
(* too-close stamps are dropped and change nothing; an accepted image      *)
(* replaces whatever waited in the buffer.                                 *)
(***************************************************************************)
ImgRejected_BackwardAllowed(t) == lastLidar < 0 \/ t = lastImg

ImgRejected(t) ==
  \/ lastLidar < 0
  \/ t < lastImg
  \/ t - lastImg < MinImgGap

ImgAccept(t) ==
  /\ ~ImgRejected(t)
  /\ imgBuf' = <<t>>
  /\ lastImg' = t
  /\ UNCHANGED <<lidarVars, imuVars, cutVars, filtVars, envVars>>

(***************************************************************************)
(* The lidar's own clock can jump back: it follows the GPRMC time of the   *)
(* trigger board, which wraps at midnight and restarts with the board.     *)
(***************************************************************************)
LidarClockRestart ==
  /\ restarts < MaxRestarts
  /\ restarts' = restarts + 1
  /\ lidClock' = -1 /\ imuClock' = -1
  /\ UNCHANGED <<lidarVars, imuVars, imgVars, cutVars, filtVars>>

-----------------------------------------------------------------------------
(***************************************************************************)
(* sync_packages, and the processing of the package it returns.            *)
(***************************************************************************)
BuffersReady == lidRaw # <<>> /\ imgBuf # <<>> /\ imuBuf # <<>>

CaptureTime == Head(imgBuf) + ExposureInit

LatchedLio_Newest == IF lastLio < 0 THEN lidHdr[Len(lidHdr)] ELSE lastLio

\* last_lio_update_time after the first line of the WAIT/VIO branch.
LatchedLio == IF lastLio < 0 THEN Head(lidHdr) ELSE lastLio

\* In ticks, cap < last + 0.00001 s is cap <= last.
ImageTooOld == CaptureTime <= LatchedLio

DataComplete ==
  /\ CaptureTime <= lidHdr[Len(lidHdr)] + ScanLen
  /\ CaptureTime <= imuBuf[Len(imuBuf)]

ThrowImage_BeforeSwitch ==
  /\ BuffersReady
  /\ ImageTooOld
  /\ imgBuf' = Tail(imgBuf)
  /\ lastLio' = LatchedLio
  /\ UNCHANGED <<lidarVars, imuVars, lastImg, flg, measures, procNext,
                 filtVars, envVars>>

ThrowImage_Kept ==
  /\ flg \in {"WAIT", "VIO"} /\ BuffersReady
  /\ ImageTooOld
  /\ lastLio' = LatchedLio
  /\ UNCHANGED <<lidarVars, imuVars, imgVars, flg, measures, procNext,
                 filtVars, envVars>>

ThrowImage ==
  /\ flg \in {"WAIT", "VIO"} /\ BuffersReady
  /\ ImageTooOld
  /\ imgBuf' = Tail(imgBuf)
  /\ lastLio' = LatchedLio
  /\ UNCHANGED <<lidarVars, imuVars, lastImg, flg, measures, procNext,
                 filtVars, envVars>>

\* Not enough lidar or IMU data yet; the call still latches the first time.
LatchFirstTime ==
  /\ flg \in {"WAIT", "VIO"} /\ BuffersReady
  /\ lastLio < 0
  /\ ~ImageTooOld /\ ~DataComplete
  /\ lastLio' = LatchedLio
  /\ UNCHANGED <<lidarVars, imuVars, imgVars, flg, measures, procNext,
                 filtVars, envVars>>

ImuPops_Strict == UpTo(imuBuf, CaptureTime - 1)

\* Samples the cut pops, and those of them later than the last update, which
\* it hands to the filter: the buffer is in stamp order (ImuInOrder).
ImuPops == UpTo(imuBuf, CaptureTime)
ImuPackage == SubSeq(imuBuf, UpTo(imuBuf, LatchedLio) + 1, ImuPops)

\* Clouds the cut pops: by header, as long as a cloud is left.
CloudPops == UpTo(SubSeq(lidHdr, 1, Len(lidRaw)), CaptureTime)
CutOffsets == (1..CloudPops) \X (0..ScanLen)
BeforeCut(io) == io[2] < CaptureTime - lidHdr[io[1]]
Stored(io, base) == [abs |-> lidRaw[io[1]] + io[2],
                     cur |-> io[2] + lidHdr[io[1]] - base]

\* meas.pcl_proc_cur of this update, and what is left for the next one.
CurPoints == procNext \cup {Stored(io, LatchedLio) : io \in {x \in CutOffsets : BeforeCut(x)}}
NextPoints_OldBase == {Stored(io, LatchedLio) : io \in {x \in CutOffsets : ~BeforeCut(x)}}
NextPoints == {Stored(io, CaptureTime) : io \in {x \in CutOffsets : ~BeforeCut(x)}}

\* Process2 on a lidar package: initialisation counts samples and leaves
\* last_lio_update_time alone, afterwards UndistortPcl moves it to the cut.
InitialiseImu ==
  /\ needInit
  /\ IF ImuPackage = <<>>
       THEN UNCHANGED <<needInit, initN, tailImu>>
       ELSE /\ initN' = initN + Len(ImuPackage)
            /\ tailImu' = ImuPackage[Len(ImuPackage)]
            /\ needInit' = (initN' <= InitCount)
  /\ lastLio' = LatchedLio
  /\ UNCHANGED lastPropEnd

UndistortLio_ToScanEnd ==
  /\ ~needInit
  /\ lastLio' = lidHdr[Len(lidHdr)] + ScanLen /\ lastPropEnd' = lastLio'
  /\ UNCHANGED <<needInit, initN, tailImu>>

UndistortLio ==
  /\ ~needInit
  /\ lastLio' = CaptureTime
  /\ lastPropEnd' = CaptureTime
  /\ tailImu' = IF ImuPackage = <<>> THEN tailImu ELSE ImuPackage[Len(ImuPackage)]
  /\ UNCHANGED <<needInit, initN>>

LioUpdate ==
  /\ flg \in {"WAIT", "VIO"} /\ BuffersReady
  /\ ~ImageTooOld /\ DataComplete
  /\ imuBuf' = SubSeq(imuBuf, ImuPops + 1, Len(imuBuf))
  /\ lidRaw' = SubSeq(lidRaw, CloudPops + 1, Len(lidRaw))
  /\ lidHdr' = SubSeq(lidHdr, CloudPops + 1, Len(lidHdr))
  /\ procNext' = NextPoints
  /\ measures' = Append(measures, [lio |-> CaptureTime, vio |-> 0])
  /\ flg' = "LIO"
  /\ InitialiseImu \/ UndistortLio
  /\ UNCHANGED <<lastLidar, lastImu, imgVars, envVars>>

\* The LIO branch: a visual package has no IMU samples, so Process2 returns
\* at once during initialisation and otherwise only moves the two times.
VioUpdate ==
  /\ flg = "LIO" /\ BuffersReady
  /\ flg' = "VIO"
  /\ measures' = <<[lio |-> lastLio, vio |-> CaptureTime]>>
  /\ imgBuf' = Tail(imgBuf)
  /\ lastLio' = IF needInit THEN lastLio ELSE CaptureTime
  /\ lastPropEnd' = IF needInit THEN lastPropEnd ELSE CaptureTime
  /\ UNCHANGED <<lidarVars, imuVars, lastImg, procNext, needInit, initN,
                 tailImu, envVars>>

Iterate == ThrowImage \/ LatchFirstTime \/ LioUpdate \/ VioUpdate

\* The steps of the pipeline while the lidar's clock runs forward.
Forward ==
  \/ \E t \in LidarTimes : LidarFrame(t)
  \/ \E t \in LidarTimes : LidarEmptyCloud(t)
  \/ \E t \in ImuTimes : ImuAccept(t)
  \/ \E t \in ImuTimes : ImuDrop(t)
  \/ \E t \in ImgTimes : ImgAccept(t)
  \/ Iterate

Next == Forward \/ LidarClockRestart

Spec == Init /\ [][Next]_vars

\* The 5 kHz loop of run() keeps turning; nothing obliges a sensor to send.
Fairness == WF_vars(Iterate)

FairSpec == Init /\ [][Forward]_vars /\ Fairness
-----------------------------------------------------------------------------
(***************************************************************************)
(* Properties.                                                             *)
(***************************************************************************)
Flags == {"WAIT", "LIO", "VIO"}

\* The state of LIVMapper, LidarMeasureGroup and ImuProcess keeps its types,
\* the cloud buffer stays within MAX_LIDAR_BUFFER, and at most one image
\* waits: the last one img_cbk accepted.
TypeOK ==
  /\ lidRaw \in Seq(Nat) /\ Len(lidRaw) <= MaxLidarBuffer
  /\ lidHdr \in Seq(Nat)
  /\ lastLidar \in Nat \cup {-1}
  /\ imuBuf \in Seq(Nat) /\ lastImu \in Nat \cup {-1}
  /\ lastImg \in Nat \cup {-1} /\ imgBuf \in {<<>>, <<lastImg>>}
  /\ flg \in Flags /\ lastLio \in Nat \cup {-1}
  /\ measures \in Seq(Package)
  /\ procNext \in SUBSET Point
  /\ needInit \in BOOLEAN /\ initN \in Nat \ {0}
  /\ tailImu \in Nat /\ lastPropEnd \in Int
  /\ lidClock \in Nat \cup {-1} /\ imuClock \in Nat \cup {-1}
  /\ restarts \in 0..MaxRestarts

LastPackage == measures[Len(measures)]

\* Every buffered cloud is paired with its own header time: the cut computes
\* all point times of the front cloud from the front header.
Aligned == lidHdr = lidRaw

\* sync_packages takes a header for every cloud it takes, without testing
\* lid_header_time_buffer for emptiness.
HeadersCoverClouds == Len(lidHdr) >= Len(lidRaw)

\* imu_buffer stays in stamp order up to last_timestamp_imu, whatever the
\* sensor's clock does: the cut pops and filters from the front only.
ImuInOrder ==
  \A i \in 1..Len(imuBuf) :
    imuBuf[i] <= (IF i < Len(imuBuf) THEN imuBuf[i + 1] ELSE lastImu)

\* Between the lidar update and the visual one an image always waits, and it
\* is never older than the time the lidar update was cut at.
VisualNotBehind ==
  flg = "LIO" => imgBuf # <<>> /\ CaptureTime >= LastPackage.lio

\* "the time of LIO update is set to be the same as VIO": the image the
\* visual update will take is the one the lidar update was cut at.
VioAtLioTime ==
  flg = "LIO" => imgBuf # <<>> /\ CaptureTime = LastPackage.lio

\* The last cycle ran on one image and its lidar package was undistorted.
Settled ==
  /\ flg = "VIO" /\ ~needInit
  /\ LastPackage.vio = LastPackage.lio

\* Every IMU sample a lidar update pops is integrated: none is discarded as
\* already behind last_lio_update_time.
NoImuLost ==
  [][LioUpdate /\ Settled => ImuPackage = SubSeq(imuBuf, 1, ImuPops)]_vars

\* The propagation loop of UndistortPcl covers exactly the time between two
\* updates when the package holds at least two samples.
FullyPropagated ==
  [][LioUpdate /\ Settled /\ Len(ImuPackage) >= 2
       => Propagated(<<tailImu>> \o ImuPackage, lastPropEnd, CaptureTime)
            = CaptureTime - lastLio]_vars

\* Every point given to a lidar update was measured between the last update
\* and this one, and its curvature is its time since the last update, also
\* when it was set aside by the previous cut.
PointsInWindow ==
  [][LioUpdate /\ Settled =>
       \A p \in CurPoints : /\ p.cur = p.abs - lastLio
                            /\ p.abs \in lastLio..CaptureTime]_vars

\* Once the IMU stamps have jumped by more than ImuGap, imu_cbk never accepts
\* a sample again: the jump is measured from the last accepted sample.
GapIsFinal ==
  [][lastImu > 0 /\ imuClock > lastImu + ImuGap => UNCHANGED lastImu]_vars

\* The pipeline implements the strict alternation and the monotone time line.
Order == INSTANCE UpdateOrder WITH clock <- lastLio
OrderRefined == Order!Spec

\* A lidar update is followed by its visual update as soon as the lidar and
\* IMU buffers hold anything: the image it needs cannot get lost.
VisualFollows ==
  flg = "LIO" /\ lidRaw # <<>> /\ imuBuf # <<>> ~> flg = "VIO"

\* An image the lidar and the IMU have caught up with is thrown, replaced, or
\* cut at: it never blocks the pipeline.
ImageServed ==
  \A t \in ImgTimes :
    imgBuf = <<t>> /\ BuffersReady /\ DataComplete
      ~> imgBuf # <<t>> \/ flg = "LIO"
=============================================================================
