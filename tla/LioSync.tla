------------------------------- MODULE LioSync -------------------------------
(***************************************************************************)
(* The pipeline of fast_livo2 without a camera: the ONLY_LIO and ONLY_LO   *)
(* branches of sync_packages, and the processing of a scan by ImuProcess   *)
(* (Process2 with UndistortPcl, or Forward_without_imu when the IMU is     *)
(* off).  The callbacks, and the threads, are those of LivoSync; img_cbk   *)
(* returns at once when img_en is off, imu_cbk when imu_en is.             *)
(*                                                                         *)
(* ONLY_LIO keeps the front cloud in meas.lidar while it waits for the     *)
(* IMU, and the lidar callback works on the buffer meanwhile.              *)
(***************************************************************************)
EXTENDS LivoSync

CONSTANTS
  Modes,       \* the slam modes a run starts in
  SinglePoint  \* stamps of the clouds that hold one point only

ASSUME ModesAssumption ==
  /\ Modes \subseteq {"ONLY_LIO", "ONLY_LO"}
  /\ SinglePoint \subseteq LidarTimes

VARIABLES
  mode,       \* slam_mode_, set once from the configuration
  held,       \* what meas.lidar holds while lidar_pushed: a scan, or NoScan
  lastScan,   \* time_last_scan, -1 before the first scan (b_first_frame)
  displaced   \* history: the held cloud has left the buffer

lioVars == <<mode, held, lastScan, displaced>>
allVars == <<vars, lioVars>>

NoScan == [cloud |-> -1, beg |-> -1, end |-> -1]

LioInit ==
  /\ Init
  /\ mode \in Modes /\ held = NoScan /\ lastScan = -1 /\ displaced = FALSE

-----------------------------------------------------------------------------
\* A cloud of one point has only a first point; the callbacks drop a cloud
\* of none.
LastOffset(c) == IF c \in SinglePoint THEN 0 ELSE ScanLen

\* The scan of a call: the one kept from an earlier call, or the front cloud
\* with the front header.
FrontScan == [cloud |-> Head(lidRaw), beg |-> Head(lidHdr),
              end |-> Head(lidHdr) + LastOffset(Head(lidRaw))]
Scan == IF held # NoScan THEN held ELSE FrontScan

\* meas.lidar->points.size() <= 1: the call returns and the cloud stays.
Blocked == held = NoScan /\ Head(lidRaw) \in SinglePoint

LioReady == mode = "ONLY_LIO" /\ lidRaw # <<>> /\ imuBuf # <<>>

\* A first call on a front cloud of one point sets the update clock only.
LatchOnly ==
  /\ LioReady /\ Blocked /\ lastLio < 0
  /\ lastLio' = LatchedLio
  /\ UNCHANGED <<lidarVars, imuVars, imgVars, flg, measures, procNext,
                 filtVars, envVars, lioVars>>

HoldScan ==
  /\ LioReady /\ ~Blocked /\ held = NoScan
  /\ lastImu < Scan.end
  /\ held' = Scan
  /\ lastLio' = LatchedLio
  /\ UNCHANGED <<lidarVars, imuVars, imgVars, flg, measures, procNext,
                 filtVars, envVars, mode, lastScan, displaced>>

ScanPackage == SubSeq(imuBuf, 1, UpTo(imuBuf, Scan.end))

\* Process2 and UndistortPcl on a whole scan.
InitialiseOnScan ==
  /\ needInit
  /\ IF ScanPackage = <<>>
       THEN UNCHANGED <<needInit, initN, tailImu>>
       ELSE /\ initN' = initN + Len(ScanPackage)
            /\ tailImu' = ScanPackage[Len(ScanPackage)]
            /\ needInit' = (initN' <= InitCount)
  /\ lastLio' = LatchedLio
  /\ UNCHANGED lastPropEnd

UndistortScan ==
  /\ ~needInit
  /\ lastLio' = Scan.end /\ lastPropEnd' = Scan.end
  /\ tailImu' = IF ScanPackage = <<>> THEN tailImu ELSE ScanPackage[Len(ScanPackage)]
  /\ UNCHANGED <<needInit, initN>>

ScanUpdate_StrictWait ==
  /\ LioReady /\ ~Blocked /\ lastImu > Scan.end
  /\ imuBuf' = SubSeq(imuBuf, Len(ScanPackage) + 1, Len(imuBuf))
  /\ lidRaw' = Tail(lidRaw) /\ lidHdr' = Tail(lidHdr)
  /\ measures' = Append(measures, [lio |-> Scan.end, vio |-> 0])
  /\ flg' = "LIO"
  /\ held' = NoScan /\ displaced' = FALSE
  /\ InitialiseOnScan \/ UndistortScan
  /\ UNCHANGED <<lastLidar, lastImu, imgVars, procNext, envVars, mode, lastScan>>

ScanUpdate_FlagKept ==
  /\ LioReady /\ ~Blocked /\ lastImu >= Scan.end
  /\ imuBuf' = SubSeq(imuBuf, Len(ScanPackage) + 1, Len(imuBuf))
  /\ lidRaw' = Tail(lidRaw) /\ lidHdr' = Tail(lidHdr)
  /\ measures' = Append(measures, [lio |-> Scan.end, vio |-> 0])
  /\ flg' = "LIO"
  /\ held' = Scan /\ displaced' = FALSE
  /\ InitialiseOnScan \/ UndistortScan
  /\ UNCHANGED <<lastLidar, lastImu, imgVars, procNext, envVars, mode, lastScan>>

\* The IMU has passed the end of the scan: its samples and the front cloud
\* and header, whatever they are by now, are popped.
ScanUpdate ==
  /\ LioReady /\ ~Blocked /\ lastImu >= Scan.end
  /\ imuBuf' = SubSeq(imuBuf, Len(ScanPackage) + 1, Len(imuBuf))
  /\ lidRaw' = Tail(lidRaw) /\ lidHdr' = Tail(lidHdr)
  /\ measures' = Append(measures, [lio |-> Scan.end, vio |-> 0])
  /\ flg' = "LIO"
  /\ held' = NoScan /\ displaced' = FALSE
  /\ InitialiseOnScan \/ UndistortScan
  /\ UNCHANGED <<lastLidar, lastImu, imgVars, procNext, envVars, mode, lastScan>>

\* ONLY_LO: each call takes the front cloud; Forward_without_imu moves the
\* state by the time between two scan starts.
LidarOnlyUpdate ==
  /\ mode = "ONLY_LO" /\ lidRaw # <<>>
  /\ lidRaw' = Tail(lidRaw) /\ lidHdr' = Tail(lidHdr)
  /\ measures' = Append(measures, [lio |-> FrontScan.end, vio |-> 0])
  /\ flg' = "LO"
  /\ lastLio' = FrontScan.end /\ lastScan' = FrontScan.beg
  /\ UNCHANGED <<lastLidar, imuVars, imgVars, procNext, filtVars, envVars,
                 mode, held, displaced>>

LioIterate == LatchOnly \/ HoldScan \/ ScanUpdate \/ LidarOnlyUpdate

-----------------------------------------------------------------------------
\* livox_pcl_cbk while a scan may be held: overflow and loop-back remove it
\* from the buffer, not from meas.lidar.
CloudArrives(t) ==
  /\ LidarFrame(t) \/ LidarEmptyCloud(t)
  /\ displaced' = (displaced \/ (held # NoScan /\ (lidRaw' = <<>> \/ Head(lidRaw') # held.cloud)))
  /\ UNCHANGED <<mode, held, lastScan>>

SampleArrives(t) ==
  /\ mode = "ONLY_LIO"
  /\ ImuAccept(t) \/ ImuDrop(t)
  /\ UNCHANGED lioVars

LioNext ==
  \/ \E t \in LidarTimes : CloudArrives(t)
  \/ \E t \in ImuTimes : SampleArrives(t)
  \/ LidarClockRestart /\ UNCHANGED lioVars
  \/ LioIterate

LioSpec == LioInit /\ [][LioNext]_allVars

\* The 5 kHz loop of run() keeps turning.
LioFairSpec == LioSpec /\ WF_allVars(LioIterate)
-----------------------------------------------------------------------------
(***************************************************************************)
(* Properties.                                                             *)
(***************************************************************************)
\* A pop of the front cloud is always a pop of the cloud that was processed,
\* unless the callback displaced it during the wait for the IMU: only then is
\* a buffered cloud consumed unseen.
PoppedIsProcessed ==
  [][ScanUpdate => Scan.cloud = Head(lidRaw) \/ displaced]_allVars

\* Between two undistorted scans the filter is propagated over exactly the
\* time between their ends, also across dropped scans and a displaced one, as
\* long as the lidar's clock has not gone back.
ScanFullyPropagated ==
  [][ScanUpdate /\ ~needInit /\ lastPropEnd = lastLio /\ restarts = 0 /\ Len(ScanPackage) >= 2
       => Propagated(<<tailImu>> \o ScanPackage, lastPropEnd, Scan.end) = Scan.end - lastLio]_allVars

\* Unlike the LIVO mode, which throws old images, nothing here stops the
\* update clock from going back with the lidar's: it never does otherwise, nor
\* does the time between two scans by which Forward_without_imu moves the state.
ClockBackOnlyOnRestart ==
  [][restarts = 0 => lastLio' >= lastLio /\ lastScan' >= lastScan]_allVars

\* A scan that waits for the IMU is processed as soon as a sample at or past
\* its end is there, even after it was displaced from the buffer, unless a
\* loop-back has emptied the buffer.
HeldScanServed ==
  held # NoScan /\ lastImu >= held.end /\ imuBuf # <<>> /\ lidRaw # <<>>
    ~> held = NoScan \/ lidRaw = <<>>
=============================================================================
