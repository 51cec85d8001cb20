---------------------------- MODULE LivoOdometry ----------------------------
(***************************************************************************)
(* What LIVMapper does with the packages of LivoSync: the control of       *)
(* handleLIO and handleVIO around the two filters, and the IMU-rate        *)
(* odometry (imu_cbk's prop_imu_buffer and the 4 ms timer                  *)
(* imu_prop_callback).  Each action is an action of LivoSync conjoined     *)
(* with what the same call does to the variables below; the timer is a     *)
(* callback of its own on the same thread.                                 *)
(*                                                                         *)
(* A set of points is named by the time of the lidar update it belongs to, *)
(* a pose by the time it is propagated to.                                 *)
(***************************************************************************)
EXTENDS LivoSync

None == -1

VARIABLES
  pvList,    \* _pv_list: the lidar update its points are of
  waitPub,   \* pcl_w_wait_pub: the lidar update its points are of
  visual,    \* history: [points, at] of the last frame vio_manager processed
  propBuf,   \* prop_imu_buffer
  newest,    \* newest_imu
  newImu,    \* new_imu
  ekfOnce,   \* ekf_finish_once
  ekfTime,   \* latest_ekf_time, of latest_ekf_state
  ekfFresh,  \* state_update_flg
  lastProp,  \* the static last_t_from_lidar_end_time
  pose,      \* imu_propagate: the time it is propagated to
  base,      \* history: the filter update imu_propagate started from
  stamp      \* stamp of the last odometry message

mapVars  == <<pvList, waitPub, visual>>
ekfVars  == <<ekfOnce, ekfTime, ekfFresh>>
propVars == <<propBuf, newest, newImu>>
poseVars == <<lastProp, pose, base, stamp>>
odoVars  == <<mapVars, ekfVars, propVars, poseVars>>

OdometryInit ==
  /\ Init
  /\ pvList = None /\ waitPub = None /\ visual = [points |-> None, at |-> None]
  /\ propBuf = <<>> /\ newest = None /\ newImu = FALSE
  /\ ekfOnce = FALSE /\ ekfTime = None /\ ekfFresh = FALSE
  /\ lastProp = 0 /\ pose = None /\ base = None /\ stamp = None

-----------------------------------------------------------------------------
\* The tail of imu_cbk; a rejected sample returns before it.
SampleForOdometry_Unfiltered(t) ==
  /\ ImuAccept(t) \/ ImuDrop(t)
  /\ propBuf' = IF needInit THEN propBuf ELSE Append(propBuf, t)
  /\ newest' = t /\ newImu' = TRUE
  /\ UNCHANGED <<mapVars, ekfVars, poseVars>>

SampleForOdometry(t) ==
  /\ ImuAccept(t)
  /\ propBuf' = IF needInit THEN propBuf ELSE Append(propBuf, t)
  /\ newest' = t /\ newImu' = TRUE
  /\ UNCHANGED <<mapVars, ekfVars, poseVars>>

\* A filter update hands its state to the propagation.
FilterDone ==
  /\ ekfOnce' = TRUE /\ ekfTime' = lastLio' /\ ekfFresh' = TRUE

\* feats_undistort of this update: none while the IMU initialises.
Undistorted == IF needInit THEN {} ELSE CurPoints

\* handleLIO returns on an empty cloud, with the older clouds in place.
LidarEstimate ==
  /\ LioUpdate
  /\ IF Undistorted = {}
       THEN UNCHANGED <<pvList, waitPub, ekfVars>>
       ELSE pvList' = CaptureTime /\ waitPub' = CaptureTime /\ FilterDone
  /\ UNCHANGED <<visual, propVars, poseVars>>

\* handleVIO returns when no points wait; otherwise publish_frame_world has
\* emptied pcl_w_wait_pub by its end.
VisualEstimate_PointsKept ==
  /\ VioUpdate
  /\ IF waitPub = None
       THEN UNCHANGED <<visual, ekfVars>>
       ELSE visual' = [points |-> pvList, at |-> LastPackage.lio] /\ FilterDone
  /\ UNCHANGED <<pvList, waitPub, propVars, poseVars>>

VisualEstimate_NotHandedOver ==
  /\ VioUpdate
  /\ IF waitPub = None
       THEN UNCHANGED <<visual, ekfTime>>
       ELSE visual' = [points |-> pvList, at |-> LastPackage.lio] /\ ekfTime' = lastLio'
  /\ waitPub' = None
  /\ UNCHANGED <<pvList, ekfOnce, ekfFresh, propVars, poseVars>>

VisualEstimate ==
  /\ VioUpdate
  /\ IF waitPub = None
       THEN UNCHANGED <<visual, ekfVars>>
       ELSE visual' = [points |-> pvList, at |-> LastPackage.lio] /\ FilterDone
  /\ waitPub' = None
  /\ UNCHANGED <<pvList, propVars, poseVars>>

-----------------------------------------------------------------------------
(***************************************************************************)
(* imu_prop_callback.                                                      *)
(***************************************************************************)
TimerActs == ~needInit /\ newImu /\ ekfOnce

\* The samples the filter's state is propagated through: the buffer without
\* the front samples that are before it.
Replayed == SubSeq(propBuf, UpTo(propBuf, ekfTime - 1) + 1, Len(propBuf))

\* After a filter update: drop the samples before it, replay the others.
Replay_OffsetKept ==
  /\ TimerActs /\ propBuf # <<>> /\ ekfFresh
  /\ propBuf' = Replayed
  /\ IF Replayed = <<>>
       THEN pose' = ekfTime /\ UNCHANGED lastProp
       ELSE /\ pose' = Replayed[Len(Replayed)] - lastProp
            /\ lastProp' = Replayed[Len(Replayed)] - ekfTime
  /\ base' = ekfTime /\ stamp' = newest
  /\ ekfFresh' = FALSE /\ newImu' = FALSE
  /\ UNCHANGED <<vars, mapVars, newest, ekfOnce, ekfTime>>

Replay ==
  /\ TimerActs /\ propBuf # <<>> /\ ekfFresh
  /\ propBuf' = Replayed
  /\ pose' = IF Replayed = <<>> THEN ekfTime ELSE Replayed[Len(Replayed)]
  /\ lastProp' = pose' - ekfTime
  /\ base' = ekfTime /\ stamp' = newest
  /\ ekfFresh' = FALSE /\ newImu' = FALSE
  /\ UNCHANGED <<vars, mapVars, newest, ekfOnce, ekfTime>>

\* Otherwise one interval, with the newest sample alone.
Extend ==
  /\ TimerActs /\ propBuf # <<>> /\ ~ekfFresh
  /\ lastProp' = newest - ekfTime
  /\ pose' = pose + (lastProp' - lastProp)
  /\ stamp' = newest
  /\ newImu' = FALSE
  /\ UNCHANGED <<vars, mapVars, ekfVars, propBuf, newest, base>>

NothingToPropagate ==
  /\ TimerActs /\ propBuf = <<>>
  /\ newImu' = FALSE
  /\ UNCHANGED <<vars, mapVars, ekfVars, propBuf, newest, poseVars>>

PropTimer == Replay \/ Extend \/ NothingToPropagate

-----------------------------------------------------------------------------
\* The steps of LivoSync that leave the mapper alone.
SyncOnly ==
  /\ \/ \E t \in LidarTimes : LidarFrame(t) \/ LidarEmptyCloud(t)
     \/ \E t \in ImuTimes : ImuDrop(t)
     \/ \E t \in ImgTimes : ImgAccept(t)
     \/ LidarClockRestart
     \/ ThrowImage
     \/ LatchFirstTime
  /\ UNCHANGED odoVars

OdometryNext ==
  \/ SyncOnly
  \/ \E t \in ImuTimes : SampleForOdometry(t)
  \/ LidarEstimate
  \/ VisualEstimate
  \/ PropTimer

OdometrySpec == OdometryInit /\ [][OdometryNext]_<<vars, odoVars>>
-----------------------------------------------------------------------------
(***************************************************************************)
(* Properties.                                                             *)
(***************************************************************************)
\* Whatever images are swapped and whatever updates find no points, the
\* visual filter never runs on the points of an earlier update than the lidar
\* update it follows: _pv_list outlives its cycle, and only the emptied
\* pcl_w_wait_pub keeps handleVIO away from it.
VisualPointsCurrent == visual.points = visual.at

\* Every odometry message is propagated from the newest filter state: none
\* goes on from a state that an update has replaced.
PropagatedFromFilter ==
  [][Replay \/ Extend => base' = ekfTime]_<<vars, odoVars>>

\* The pose of a message is the pose at its stamp; only when an image was
\* taken as the time of the visual update that is newer than every IMU sample
\* is it the filter's own, later, pose.
PoseAtStamp ==
  stamp # None => pose = stamp \/ (stamp < base /\ pose = base)

\* The samples kept for a replay are in order and end with the newest one.
ReplayInOrder ==
  /\ \A i \in 1..Len(propBuf) : propBuf[i] <= newest
  /\ \A i \in 1..Len(propBuf) - 1 : propBuf[i] <= propBuf[i + 1]
  /\ propBuf # <<>> => propBuf[Len(propBuf)] = newest
=============================================================================
