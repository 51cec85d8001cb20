---------------------------- MODULE LidarFraming ----------------------------
(***************************************************************************)
(* How livox_ros_driver2's PubHandler turns the lidars' packets into       *)
(* frames.  The SDK's data thread timestamps each packet and queues it     *)
(* (OnLivoxLidarPointCloudCallback); PubHandler's own thread adds it to    *)
(* its lidar's cloud and may publish (RawDataProcess, CheckTimer).  With a *)
(* synchronised lidar a frame ends at a multiple of the publish interval   *)
(* of the lidar's clock, else whenever the interval has passed on the      *)
(* host's.  Which of the two is one flag for all lidars, set on arrival    *)
(* and read when the packet is processed.                                  *)
(*                                                                         *)
(* A tick is a millisecond.  A packet stands for its points and is named   *)
(* by its stamp; the device clock is the host's plus skew.                 *)
(***************************************************************************)
EXTENDS Integers, Sequences, FiniteSets

CONSTANTS
  Lidars,
  Interval,   \* publish_interval_
  StampMod,   \* stamps are unsigned: 2^64 in the code
  Skews,      \* what the device clock may be ahead of the host's
  Modes,      \* whether packets may be synchronised, unsynchronised or either
  MaxNow,     \* bound on the host's clock
  MaxQueue,   \* bound on raw_packet_queue_
  MaxSteps    \* bound on steps of the device clock

ASSUME FramingAssumption ==
  /\ Interval \in Nat /\ Interval > 1 /\ 0 \in Skews
  /\ StampMod \in Nat /\ \A s \in Skews : s \in Int /\ MaxNow + s < StampMod
  /\ Modes \subseteq BOOLEAN /\ Modes # {}
  /\ MaxNow \in Nat \ {0} /\ MaxQueue \in Nat /\ MaxSteps \in Nat

VARIABLES
  now,      \* the host's clock
  skew,     \* what the device clock is ahead of it
  steps,    \* how often it was stepped
  heard,    \* lidars a packet of which has arrived in this tick
  queue,    \* raw_packet_queue_
  sync,     \* is_timestamp_sync_
  cloud,    \* points_clouds_, by lidar
  timer,    \* last_pub_time_, -1 until CheckTimer first sets it
  out,      \* history: by lidar, the frame published by the last step
  timed     \* history: lidars whose cloud met CheckTimer unsynchronised

vars == <<now, skew, steps, heard, queue, sync, cloud, timer, out, timed>>

NoFrame == [l \in Lidars |-> <<>>]

Init ==
  /\ now = 1 /\ skew = 0 /\ steps = 0
  /\ heard = {}
  /\ queue = <<>> /\ sync = FALSE /\ cloud = NoFrame /\ timer = -1
  /\ out = NoFrame /\ timed = {}

-----------------------------------------------------------------------------
Tick ==
  /\ now < MaxNow
  /\ now' = now + 1 /\ heard' = {} /\ out' = NoFrame
  /\ UNCHANGED <<skew, steps, queue, sync, cloud, timer, timed>>

\* The device clock is set: by PTP or GPS time, or by the trigger board.
ClockStep ==
  /\ steps < MaxSteps
  /\ \E s \in Skews \ {skew} : skew' = s
  /\ steps' = steps + 1 /\ out' = NoFrame
  /\ UNCHANGED <<now, heard, queue, sync, cloud, timer, timed>>

\* GetEthPacketTimestamp takes the host's time for an unsynchronised packet.
\* At most one packet of a lidar arrives in a tick; a lost one never does.
Receive(l, synced) ==
  /\ l \notin heard /\ Len(queue) < MaxQueue
  /\ queue' = Append(queue, [lidar |-> l,
                             stamp |-> IF synced THEN (now + skew) % StampMod ELSE now])
  /\ sync' = synced
  /\ heard' = heard \cup {l}
  /\ out' = NoFrame
  /\ UNCHANGED <<now, skew, steps, cloud, timer, timed>>

\* An IMU packet goes to its own queue, but
\* sets the flag as a point packet does.
ReceiveImu(synced) ==
  /\ sync # synced
  /\ sync' = synced /\ out' = NoFrame
  /\ UNCHANGED <<now, skew, steps, heard, queue, cloud, timer, timed>>

\* PointCloudProcess appends the packet at the head of the queue.
Taken == Head(queue)
Clouds == [cloud EXCEPT ![Taken.lidar] = Append(@, Taken.stamp)]

\* GetRecentTimeStamp - GetLidarBaseTime, in unsigned arithmetic.
Span(c) == (c[Len(c)] - c[1]) % StampMod

AtFrameTime(stamp) == stamp % Interval = 0 /\ stamp # 0
LongEnough_FullInterval(c) == Span(c) >= Interval
\* publish_interval_tolerance_ is a millisecond less than the interval.
LongEnough(c) == Span(c) >= Interval - 1

PublishClouds_AllCleared(ls) ==
  /\ out' = [l \in Lidars |-> IF l \in ls THEN Clouds[l] ELSE <<>>]
  /\ cloud' = NoFrame
  /\ timed' = timed \ ls

\* GetLidarPointClouds swaps the clouds of the given lidars into the frame.
PublishClouds(ls) ==
  /\ out' = [l \in Lidars |-> IF l \in ls THEN Clouds[l] ELSE <<>>]
  /\ cloud' = [l \in Lidars |-> IF l \in ls THEN <<>> ELSE Clouds[l]]
  /\ timed' = timed \ ls

KeepClouds(marked) == cloud' = Clouds /\ out' = NoFrame /\ timed' = timed \cup marked

\* CheckTimer for a packet processed while the flag says synchronised.
ProcessSync ==
  /\ queue # <<>> /\ sync
  /\ queue' = Tail(queue)
  /\ IF AtFrameTime(Taken.stamp) /\ LongEnough(Clouds[Taken.lidar])
       THEN PublishClouds({Taken.lidar})
       ELSE KeepClouds({})
  /\ UNCHANGED <<now, skew, steps, heard, sync, timer>>

Due == timer >= 0 /\ now - timer >= Interval

\* The same on the host's clock, for all lidars; the first call only sets
\* last_pub_time_, which then moves by one interval a frame.
ProcessTimed ==
  /\ queue # <<>> /\ ~sync
  /\ queue' = Tail(queue)
  /\ IF Due
       THEN PublishClouds(Lidars) /\ timer' = timer + Interval
       ELSE KeepClouds({Taken.lidar}) /\ timer' = IF timer < 0 THEN now ELSE timer
  /\ UNCHANGED <<now, skew, steps, heard, sync>>

Next ==
  \/ Tick \/ ClockStep \/ ProcessSync \/ ProcessTimed
  \/ \E l \in Lidars, synced \in Modes : Receive(l, synced)
  \/ \E synced \in Modes : ReceiveImu(synced)

Spec == Init /\ [][Next]_vars
-----------------------------------------------------------------------------
(***************************************************************************)
(* Properties.                                                             *)
(***************************************************************************)
Stamps == 0..StampMod - 1

\* PubHandler's state keeps its types; last_pub_time_ is never in the future.
TypeOK ==
  /\ now \in 1..MaxNow /\ skew \in Skews /\ steps \in 0..MaxSteps
  /\ heard \subseteq Lidars
  /\ queue \in Seq([lidar : Lidars, stamp : Stamps]) /\ Len(queue) <= MaxQueue
  /\ sync \in BOOLEAN /\ timer \in -1..now
  /\ cloud \in [Lidars -> Seq(Stamps)] /\ out \in [Lidars -> Seq(Stamps)]
  /\ timed \subseteq Lidars

\* The stamps of a lidar's packets that are queued.
QueuedOf(l) ==
  LET own[n \in 0..Len(queue)] ==
        IF n = 0 THEN <<>>
        ELSE IF queue[n].lidar = l THEN Append(own[n - 1], queue[n].stamp) ELSE own[n - 1]
  IN own[Len(queue)]

\* Across both modes, their switches and clock steps, every packet gets into
\* exactly one frame of its lidar, in the order of arrival.
Stream == INSTANCE PacketStream
  WITH Packets <- Stamps, pending <- [l \in Lidars |-> cloud[l] \o QueuedOf(l)]
StreamRefined == Stream!Spec

\* No packet of the sequence is missing and the clock ran forward evenly.
GapFree(c) == \A i \in 1..Len(c) - 1 : c[i + 1] = c[i] + 1

\* A synchronised frame with no gap that begins right after a frame time ends
\* at the next one: a frame is one interval of the lidar's clock, which is
\* what the other sensors are triggered by.
WholeIntervals ==
  [][\A l \in Lidars \ timed :
       out'[l] # <<>> /\ sync /\ GapFree(out'[l]) /\ out'[l][1] % Interval = 1
         => Len(out'[l]) = Interval]_vars

\* While packets come without a gap, synchronised, no frame time is missed:
\* a cloud never grows to two intervals.
CloudBounded ==
  \A l \in Lidars \ timed : GapFree(cloud[l]) => Len(cloud[l]) < 2 * Interval - 1

\* "offset time relative to the base time": no point of a frame is older than
\* the base time, from which its unsigned offset is computed.
OffsetsValid ==
  \A l \in Lidars : \A i \in 1..Len(out[l]) : out[l][i] >= out[l][1]
=============================================================================
