---------------------------- MODULE CameraStamp ----------------------------
(***************************************************************************)
(* The time stamp that the lidar driver shares with the camera driver      *)
(* through the file ~/timeshare, and the camera driver's capture loop.     *)
(*                                                                         *)
(* Two processes map the file: Lddc writes the stamp of a cloud into it    *)
(* after the cloud is published, EconRos2Driver reads it when it publishes *)
(* an image.  A third thread, of the GStreamer pipeline, pushes captured   *)
(* frames towards a sink that keeps only the newest.  Either process may   *)
(* end at any step and start again; the file stays.                        *)
(***************************************************************************)
EXTENDS Integers

CONSTANTS
  MaxClouds,    \* bound on the clouds published
  MaxPushes,    \* bound on the frames captured by one camera process
  MaxStarts     \* bound on the restarts of each process

ASSUME StampAssumption ==
  MaxClouds \in Nat /\ MaxPushes \in Nat /\ MaxStarts \in Nat

Host == -1     \* a stamp from the camera host's clock, not a cloud's
Stale == 0     \* a stamp that a driver of an earlier boot left in the file

VARIABLES
  file,         \* ~/timeshare: "none", "empty" or "full"
  low,          \* SharedTimestamp.low: a cloud's number, or Unset
  lidar,        \* where the lidar driver's publishing thread is
  cloud,        \* the last cloud published; clouds are numbered by their stamp
  first,        \* the number before the first cloud of this lidar process
  camera,       \* where the camera driver's grab thread is
  opened,       \* MmapStamper::opened_
  push,         \* n_push_, and whether its last frame is still being converted
  sink,         \* whether appsink holds a frame
  pulled,       \* n_pull_
  lastSeen,     \* last_push_seen_
  drops,        \* total_drops_
  overwritten,  \* history: the frames the sink has really dropped
  starts        \* restarts so far, of the two processes

lidarVars == <<lidar, cloud, first>>
countVars == <<pulled, lastSeen, drops>>
frameVars == <<push, sink, overwritten>>
vars == <<file, low, lidarVars, camera, opened, countVars, frameVars, starts>>

Unset == -1    \* zero in the file: read_low_ns() > 0 is false

\* The file may be left by an earlier boot, with that boot's last stamp.
Init ==
  /\ \/ file = "none" /\ low = Unset
     \/ file = "full" /\ low = Stale
  /\ lidar = "down" /\ cloud = Stale /\ first = Stale
  /\ camera = [at |-> "grab", stamp |-> Host] /\ opened = FALSE
  /\ push = [count |-> 0, converting |-> FALSE] /\ sink = FALSE /\ overwritten = 0
  /\ pulled = 0 /\ lastSeen = 0 /\ drops = 0
  /\ starts = [lidar |-> 0, camera |-> 0]

-----------------------------------------------------------------------------
(***************************************************************************)
(* The lidar driver: TryOpenSharedMmap in two steps, since open with       *)
(* O_TRUNC empties a file the camera may have mapped before ftruncate      *)
(* gives it its size; then PublishPointcloud2 or PublishCustomPointcloud.  *)
(***************************************************************************)
OpenShared_NotTruncated ==
  /\ lidar = "down"
  /\ lidar' = "opening" /\ first' = cloud
  /\ file' = "full" /\ low' = low
  /\ UNCHANGED <<cloud, camera, opened, countVars, frameVars, starts>>

OpenShared ==
  /\ lidar = "down"
  /\ lidar' = "opening" /\ first' = cloud
  /\ file' = "empty" /\ low' = Unset
  /\ UNCHANGED <<cloud, camera, opened, countVars, frameVars, starts>>

MapShared ==
  /\ lidar = "opening"
  /\ lidar' = "mapped" /\ file' = "full"
  /\ UNCHANGED <<low, cloud, first, camera, opened, countVars, frameVars, starts>>

PublishCloud ==
  /\ lidar = "mapped" /\ cloud < MaxClouds
  /\ lidar' = "published" /\ cloud' = cloud + 1
  /\ UNCHANGED <<file, low, first, camera, opened, countVars, frameVars, starts>>

WriteSharedStamp ==
  /\ lidar = "published"
  /\ lidar' = "mapped" /\ low' = cloud
  /\ UNCHANGED <<file, cloud, first, camera, opened, countVars, frameVars, starts>>

LidarEnds ==
  /\ lidar # "down" /\ starts.lidar < MaxStarts
  /\ lidar' = "down" /\ starts' = [starts EXCEPT !.lidar = @ + 1]
  /\ UNCHANGED <<file, low, cloud, first, camera, opened, countVars, frameVars>>

-----------------------------------------------------------------------------
(***************************************************************************)
(* The pipeline's streaming thread: v4l2src pushes a frame, which is       *)
(* counted by the probe, converted, and put into the sink.                 *)
(***************************************************************************)
PushFrame ==
  /\ camera.at # "down" /\ ~push.converting /\ push.count < MaxPushes
  /\ push' = [count |-> push.count + 1, converting |-> TRUE]
  /\ UNCHANGED <<file, low, lidarVars, camera, opened, countVars, sink, overwritten, starts>>

FrameArrives ==
  /\ camera.at # "down" /\ push.converting
  /\ push' = [push EXCEPT !.converting = FALSE] /\ sink' = TRUE
  /\ overwritten' = IF sink THEN overwritten + 1 ELSE overwritten
  /\ UNCHANGED <<file, low, lidarVars, camera, opened, countVars, starts>>

(***************************************************************************)
(* The grab thread.                                                        *)
(***************************************************************************)
Grab ==
  /\ camera.at = "grab" /\ sink
  /\ sink' = FALSE /\ pulled' = pulled + 1
  /\ camera' = [camera EXCEPT !.at = "count"]
  /\ UNCHANGED <<file, low, lidarVars, opened, lastSeen, drops, push, overwritten, starts>>

CountDrops_OffByOne ==
  /\ camera.at = "count"
  /\ lastSeen' = push.count
  /\ drops' = IF push.count - lastSeen > 2 THEN drops + push.count - lastSeen - 1 ELSE drops
  /\ camera' = [camera EXCEPT !.at = "publish"]
  /\ UNCHANGED <<file, low, lidarVars, opened, pulled, frameVars, starts>>

CountDrops ==
  /\ camera.at = "count"
  /\ lastSeen' = push.count
  /\ drops' = IF push.count - lastSeen > 1 THEN drops + push.count - lastSeen - 1 ELSE drops
  /\ camera' = [camera EXCEPT !.at = "publish"]
  /\ UNCHANGED <<file, low, lidarVars, opened, pulled, frameVars, starts>>

\* publish(): try_open, read the stamp, publish.  The read of a mapped file
\* that has been emptied raises SIGBUS, which ends the process.
MayOpen_AtStart == file # "none" /\ pulled = 1
MayOpen == file # "none"

Publish ==
  /\ camera.at = "publish"
  /\ opened' = (opened \/ MayOpen)
  /\ camera' = IF opened' /\ file = "empty"
                 THEN [camera EXCEPT !.at = "down"]
                 ELSE [at |-> "grab",
                       stamp |-> IF opened' /\ low # Unset THEN low ELSE Host]
  /\ UNCHANGED <<file, low, lidarVars, countVars, frameVars, starts>>

CameraEnds ==
  /\ camera.at # "down"
  /\ camera' = [camera EXCEPT !.at = "down"]
  /\ UNCHANGED <<file, low, lidarVars, opened, countVars, frameVars, starts>>

CameraStarts ==
  /\ camera.at = "down" /\ starts.camera < MaxStarts
  /\ camera' = [camera EXCEPT !.at = "grab"] /\ opened' = FALSE
  /\ push' = [count |-> 0, converting |-> FALSE] /\ sink' = FALSE /\ overwritten' = 0
  /\ pulled' = 0 /\ lastSeen' = 0 /\ drops' = 0
  /\ starts' = [starts EXCEPT !.camera = @ + 1]
  /\ UNCHANGED <<file, low, lidarVars>>

Next ==
  \/ OpenShared \/ MapShared \/ PublishCloud \/ WriteSharedStamp \/ LidarEnds
  \/ PushFrame \/ FrameArrives
  \/ Grab \/ CountDrops \/ Publish \/ CameraEnds \/ CameraStarts

Spec == Init /\ [][Next]_vars
-----------------------------------------------------------------------------
(***************************************************************************)
(* Properties.                                                             *)
(***************************************************************************)
\* The types of the variables; an image's stamp is the host's, an earlier
\* boot's or a published cloud's.
TypeOK ==
  /\ file \in {"none", "empty", "full"} /\ low \in {Unset} \cup 0..cloud
  /\ lidar \in {"down", "opening", "mapped", "published"}
  /\ cloud \in 0..MaxClouds /\ first \in 0..cloud
  /\ camera \in [at : {"grab", "count", "publish", "down"}, stamp : {Host} \cup 0..cloud]
  /\ opened \in BOOLEAN /\ sink \in BOOLEAN
  /\ push \in [count : 0..MaxPushes, converting : BOOLEAN]
  /\ {pulled, lastSeen, drops, overwritten} \subseteq 0..MaxPushes
  /\ starts \in [lidar : 0..MaxStarts, camera : 0..MaxStarts]

\* Whether an image is published in a step.
Published == camera.at = "publish" /\ camera'.at = "grab"

\* Once the lidar driver has opened the file, an image is never stamped with a
\* cloud of an earlier process of it: its stamp is the last cloud's of this
\* process, the one's before if the last is not yet written, or the host's.
SessionStamps ==
  [][Published /\ lidar \in {"opening", "mapped", "published"} /\ camera'.stamp # Host
       => /\ camera'.stamp > first
          /\ camera'.stamp = cloud \/ (lidar = "published" /\ camera'.stamp = cloud - 1)]_vars

\* The host's clock is used only while the lidar driver that last opened the
\* file has written no stamp into it, whichever process started first.
HostClockOnlyBefore ==
  [][Published /\ camera'.stamp = Host
       => file = "none" \/ cloud - first <= IF lidar = "mapped" THEN 0 ELSE 1]_vars

\* No dropped frame escapes the count: what the sink has overwritten when
\* push_count() is read is in total_drops_ when the image is published.
DropsCounted ==
  [][camera.at = "count" /\ camera'.at = "publish" => overwritten <= drops']_vars
=============================================================================
