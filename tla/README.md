# FAST-LIVO2-ROS2: a verification project in TLA+

FAST-LIVO2-ROS2 is a lidar-inertial-visual odometry system: a trigger board gives
a Livox lidar and a camera one clock, two ROS 2 drivers publish point clouds, IMU
samples and images, and `fast_livo2` fuses them. These modules model the parts
in which order, time and failure decide whether the fusion gets the data it
believes it gets. The filter's numbers are left out; what reaches the filter,
in which order, over which span of time, and what happens when something is
lost, late or restarted, is what is modelled.

Paths are relative to `src/src/`. Abbreviations: `LIVMapper.cpp` and
`IMU_Processing.cpp` are under `fast_livo2/src`, `pub_handler.cpp`, `ldq.cpp`,
`semaphore.cpp` under `livox_ros_driver2/src/comm`, `lds.cpp`, `lddc.cpp`,
`driver_node.cpp` under `livox_ros_driver2/src`, `voxel_map.cpp`, `vio.cpp`
and `visual_point.cpp` under `fast_livo2/src`, and
`general_command_handler.cpp`, `mid360_command_handler.cpp` under
`Livox-SDK2/sdk_core/command_handler`.

## 1. Inventory

### How data flows

    trigger board (stm32_timersync-open)
      |  PPS + GPRMC ---> GPRMC feeder ---> lidar clock
      |  PWM -----------> camera shutter
      v
    lidar --UDP--> Livox-SDK2 io threads --callbacks--> PubHandler queue
                        |                                  | (own thread)
                   command table                        frames -> ring queue
                        |                                  | semaphore
                   bring-up callbacks                   poll thread -> ROS topic
                                                           | shared time stamp (mmap)
    camera --GStreamer--> econ_ros2_driver <---------------+
                        |
                        v
    fast_livo2: callbacks -> buffers -> sync_packages -> ImuProcess -> filter, maps

### Components

| Component | State | Operations | What is hard | What makes it correct |
|---|---|---|---|---|
| Measurement synchroniser (`LIVMapper.cpp`, `IMU_Processing.cpp`) | cloud, header, IMU and image buffers; last stamps; `LidarMeasureGroup`; `last_prop_end_time`, `last_imu` | `livox_pcl_cbk`, `imu_cbk`, `img_cbk`, `sync_packages`, `Process2` | three streams in any order, clocks that jump, gaps, images dropped or replaced, a cut that splits scans | clouds keep their headers; updates alternate in time order; each integrates exactly the IMU time and the points between two updates; nothing waits for ever; without a camera, a scan held during the wait for the IMU is the one popped |
| IMU-rate odometry (`LIVMapper.cpp` 741-820, 1078-1087) | `prop_imu_buffer`, `newest_imu`, `new_imu`, `latest_ekf_time`, `state_update_flg`, a static last time | `imu_prop_callback` on a 4 ms timer, hand-over by both updates | propagates between updates of the filter, from a buffer another handler fills | starts over from each update; the pose is the one at the published stamp |
| Lidar map (`voxel_map.cpp`) | octrees by voxel: points, planes, freeze state; last slide position | `BuildVoxelMap`, `UpdateVoxelMap`, `mapSliding` | a node changes its role with each fit; freeze limits differ by role | no point vanishes between a node and its children, a matched plane hides nothing, is fresh when frozen |
| Visual map (`vio.cpp`, `visual_point.cpp`) | points by voxel, their observations, reference patch, convergence | four passes per image | pointers to observations that another pass deletes; two key computations | no dangling reference, no point without an observation, no point made twice |
| Filters (`voxel_map.cpp`, `vio.cpp`) | state, covariance | iterated updates | numerical | numerical |
| Preprocessing (`preprocess.cpp`) | none between clouds | filter points, curvature | data only | data only |
| Point-cloud queue and publisher (`ldq.cpp`, `lds.cpp`, `lddc.cpp`, `semaphore.cpp`, `driver_node.cpp`) | per lidar a ring with two indices, `count_`, `connect_state`, `request_exit_` | push, pre-pop, pop, wait, signal, exit | two threads without a lock; a count read without its mutex; full queues; shutdown | first in first out, no wake-up lost, every frame published, the join returns |
| IMU queue and publisher (`lidar_imu_data_queue.cpp`) | a mutex-protected list | push, pop, same semaphore | same wake-up protocol | same |
| Packet framing (`pub_handler.cpp`) | `raw_packet_queue_`, clouds, `last_pub_time_`, `is_timestamp_sync_` | packet callback, `RawDataProcess`, `CheckTimer` | one mode flag for all lidars, two time bases, clock steps, lost packets | no packet lost, repeated or reordered; a frame is one interval of the clock |
| Lidar bring-up (`livox_lidar_callback.cpp`) | `set_bits`, `connect_state` | `LidarInfoChangeCallback`, one callback per command | answers and timeouts of several commands in several threads | every command is retried until answered, once at a time; sampling means configured |
| SDK command table (`general_command_handler.cpp`, `mid360_command_handler.cpp`) | `commands_`, `devices_` | `SendCommand`, `Handler`, `CommandsHandle`, detection | the answer can overtake the table entry; every io thread runs the timeouts; lost datagrams | each entry leaves the table once, through one callback |
| SDK io threads (`device_manager.cpp`, `io_loop.cpp`, `thread_base.cpp`) | sockets, timers | select loops | - | handlers of one socket run in one thread |
| SDK upgrade, logging, debug data | an upgrade state machine, log files | not called by this system | - | - |
| Index cache (`cache_index.cpp`) | handle to index map | `GetFreeIndex`, `GetIndex` | unlocked reads | a lidar has one index |
| GPRMC feeder (`gprmc_feeder.cpp`, `synchro.cpp`) | serial port, current handle | read, send | a late sentence names the wrong second | one sentence per pulse |
| Trigger board (`timer.c`, `main.c`) | hours, minutes, seconds, two counters | timer interrupts | wraps at midnight, restarts at zero | pulse, sentence and shutter agree |
| Shared time stamp and camera driver (`econ_ros2_driver.cpp`, `mmap_stamper.hpp`, `gst_backend.cpp`, `lddc.cpp`) | one 64-bit stamp in a file; three frame counters | lidar driver truncates and writes, camera maps and reads | lateness, restart of either side, fallback to host time, counters of two threads | an image carries a stamp of the running lidar driver; no dropped frame escapes the count |
| Camera tools, blackbox loggers, configuration, tools, vendored code | - | - | - | - |

`PROJECT.json` lists the same components with their status and, under
`hazards`, each place where one of these can go wrong, with the properties that
would catch it.

## 2. Modules

| Module | Models | Composes |
|---|---|---|
| `UpdateOrder` | abstract: what the synchroniser promises the filter | |
| `UpdateArithmetic` | the pop loops and the integration loop, as pure operators | |
| `LivoSync` | callbacks, `sync_packages` (LIVO), `Process2`'s time bookkeeping | `UpdateArithmetic`; implements `UpdateOrder` |
| `MCLivoSync` | stamps for the model checker | `LivoSync` |
| `LivoOdometry`, `MCLivoOdometry` | what the mapper does with the packages: control of both updates, IMU-rate odometry | conjoins with `LivoSync`'s actions; implements `LivoSync` |
| `LioSync`, `MCLioSync` | `sync_packages` in ONLY_LIO and ONLY_LO | `LivoSync`'s callbacks |
| `Mapper_proofs` | theorems about `LivoSync`, `LivoOdometry` and `LioSync` | |
| `SumLaws` | laws of finite sums, and induction over sets, for the proofs | |
| `VoxelMap` | octrees of the lidar map and its sliding | |
| `VoxelMap_proofs` | theorems about `VoxelMap` | |
| `VoxelKey` | the two computations of a voxel's key | |
| `VisualMap`, `MCVisualMap` | visual points over the four passes of a frame | `VoxelKey` |
| `VisualMap_proofs` | theorems about `VisualMap` and `VoxelKey` | |
| `CameraStamp` | shared stamp, both drivers' processes, drop count | |
| `CameraStamp_proofs` | theorems about `CameraStamp` | |
| `BoundedFifo` | abstract: bounded first-in first-out queue per lidar | |
| `LidarQueue` | ring, semaphore, both threads, shutdown, under a memory order | implements `BoundedFifo` |
| `LidarQueue_proofs` | theorems about `LidarQueue` | |
| `CommandTable` | sending, answering, timing out of SDK commands | |
| `LidarBringUp` | the driver's callbacks and the SDK's detection over that table | `CommandTable` |
| `LidarBringUp_proofs` | theorems about `LidarBringUp` and `CommandTable` | |
| `PacketStream` | abstract: packets become frames, none lost or repeated | |
| `LidarFraming` | packet queue, clouds, the two publish rules | implements `PacketStream` |
| `MCLidarFraming` | symmetry for the model checker | `LidarFraming` |
| `LidarFraming_proofs` | theorems about `LidarFraming` | |

Operators with a suffix (`Surplus_OffByOne`, `PropStep_NoTail`) restate the
definition they are named after with a plausible bug: each is kept to show which
property would report that bug (`mutants` in `PROJECT.json`). No specification
uses them.

### 2.1 LivoSync

`LIVMapper::run` is one thread: `spin_some` runs callbacks to their end, then
`sync_packages` cuts at most one package and the filter handles it before the
next callback. So each callback, and each loop iteration that changes
something, is one action, and the interleaving is that of the messages.

| Action | Code |
|---|---|
| `LidarFrame`, `LidarEmptyCloud` | `livox_pcl_cbk`: backward stamp clears the clouds only; an empty cloud returns after that; the oldest are trimmed |
| `ImuAccept`, `ImuDrop` | `imu_cbk`: dropped before the first lidar frame, when backward, when more than 0.2 s ahead |
| `ImgAccept` | `img_cbk`: duplicates, backward and too-close stamps change nothing (no action); an accepted image replaces the one that waits |
| `ThrowImage`, `LatchFirstTime`, `LioUpdate` | the WAIT/VIO branch of `sync_packages` with `Process2` after it |
| `VioUpdate` | the LIO branch, likewise |
| `LidarClockRestart` | the board's clock wraps or restarts |

What is abstracted. A tick is 0.05 s; the comparison with 0.00001 s becomes
"not later". A cloud is named by the true stamp of its first point and has
points at offsets `0..ScanLen`, so that a wrong pairing of cloud and header
shows as a point with the wrong time. `pcl_proc_cur` lives inside `LioUpdate`
(it is built and consumed in one iteration). `imu_en` and LIVO mode are
assumed; `ros_driver_fix_en` and the time offsets, constants of a deployment,
are zero or part of `ImgTimes`. `last_prop_end_time` has no initial value in
`IMU_Processing.h:81`: it starts as any member of `UninitReads`.
`MAX_LIDAR_BUFFER` is 3 in the code; the runs take 2, so that trimming happens
within four frames.

### 2.2 LidarQueue

Two threads: `PubHandler`'s, which pushes (`BeginPush`, `StoreSlot`,
`StoreIndex`, `ReadCount`, `Signal`), and the poll thread (`Distribute`,
`Wait`, `Scan`, `EndScan`, `PrePop`, `PopUpdate`, `EndDrain`, `CheckFuture`);
`BeginSampling` is the bring-up setting `connect_state`; `RequestExit` and
`SignalExit` are `~DriverNode`. The slot and the index are plain or volatile
memory, a data race: when the pusher's stores become visible is a
nondeterministic choice limited by `MemoryOrder`. The target of this
repository is an ARM board (`src/README.md:9`, `:91`), hence `"weak"`; `"sc"`
is the code as its author reads it. The poller's own store to `rd_idx` is taken
as visible at once and after the copy it follows: its lateness would only make a
full queue look full longer; its being seen before the copy is not modelled.
Frame numbers are reused modulo `FrameMod`, larger than the queue; a dropped
frame takes no number. A semaphore count is at most one by the pusher's test.
The IMU path uses the same protocol around a locked list and is not repeated.

`FifoRefined` holds under `"sc"` and `"tso"` and not under `"weak"`, where the
index may be seen before the slot; `NoLostWakeup` holds under `"sc"` only,
because the unlocked read of the count may precede the visibility of the push.
Under both weaker orders the frame is late, not lost: `FramesPublished` holds.
Change `MemoryOrder` in `queue_order.cfg` to see either.

### 2.3 CommandTable and LidarBringUp

`CommandTable` gives the operators: `Begin` and `End` are the two halves of
`SendCommand` (send, then enter; the SDK's own configuration command enters
first), `FailToSend`, `TakeAck`, `Expire`, `Answer`, `Lose`. A callback's effect
is the set of commands it sends, given as a parameter. `LidarBringUp` supplies
those reactions from `livox_lidar_callback.cpp` and the SDK's detection.
Answers are handled by the command thread; every io thread's timer handles
timeouts, of which two are modelled (`"cmd"`, `"detect"`; the third only adds
another of the same). Commands of one callback are sent in any order: a
superset of the code's. `LidarInfoChangeCallback` sets its bits at once, sound
because the answers that clear them are handled by the same thread, later.
Sequence numbers are kept per command and reused when nothing carries
them; there are finitely many of them, of commands and of threads, which
`CmdsAssumption` states for the proofs that count copies. `Capacity` bounds the
datagrams of a command in flight. `crashed` ends a behaviour in which a settings callback dereferences a null response
after a failed send.

### 2.4 LidarFraming

A tick is a millisecond, a packet stands for its points, one packet of a lidar
per tick. `Receive` is `OnLivoxLidarPointCloudCallback`, with the mode flag set
for all lidars on arrival; `ReceiveImu` is the same flag set by an IMU packet;
`ProcessSync` and `ProcessTimed` are `RawDataProcess` with `CheckTimer` in the
mode the flag has by then. Stamps are unsigned and wrap. `ClockStep` is the
device clock being set. `out` is a history of the frame the last step
published and `timed` marks clouds that met the timer rule, about which the
synchronised properties say nothing.

### 2.5 LivoOdometry

Every step of `LivoSync` is conjoined with what the same call does further on:
`SampleForOdometry` is `imu_cbk` with its tail, `LidarEstimate` and
`VisualEstimate` are a package with `handleLIO` or `handleVIO`, which return
early when an update has no points or none wait, and `PropTimer` is
`imu_prop_callback`, a callback of its own on the same thread: `Replay` after a
filter update, `Extend` for a newer sample, `NothingToPropagate`. A set of
points is named by the lidar update it belongs to and a pose by the time it is
propagated to, so `lastProp` (the code's static, an offset from the filter's
time) decides what `pose` becomes. The rest of the steps leave these variables
alone (`SyncOnly`). `imu_rate_odom` is off in the shipped configurations; the
model has it on.

### 2.6 LioSync

The modes without a camera, over the same callbacks: `HoldScan` is a call that
takes the front cloud into `meas.lidar` and returns to wait for the IMU,
`ScanUpdate` the call that processes it, `LatchOnly` a first call that stops at
a cloud of one point, `LidarOnlyUpdate` the ONLY_LO branch with
`Forward_without_imu`. `CloudArrives` is `livox_pcl_cbk`, which may trim or clear
the buffer under a held scan; `displaced` is a history of that. The last scan of
the grid is a cloud of one point.

### 2.7 VoxelMap

A node is named by its path from the root, and of a point only the path of the
smallest node it falls into is kept. `Grown` is `init_octo_tree` with
`cut_octo_tree` (recursive in the code; here the set of nodes that come into
being), `AfterPoint` is `UpdateOctoTree`: `Target` finds the node that takes the
point, `Updated` adds it, refits and freezes. Whether points look like a plane
is numerics: `planar` chooses any outcome at every fit, also one that
contradicts the last. `total`, `fitted` and `flipped` are histories. A root is
a coordinate on a line; the three axes are independent and `mapSliding` treats
them alike.

### 2.8 VisualMap and VoxelKey

One image is four steps, `Retrieve`, `Generate`, `Update` and `Reference`, the
passes of `processFrame` that change the map. What the camera sees (`view`),
where the scan lies (`scan`), which voxels rays hit, which points match, which
observation scores best or worst and which planes are steady are choices: the
properties hold for any image. An observation is named by its frame.
`VoxelKey` gives the key a point is entered under and the key it is looked up
under, with a coordinate in steps of a voxel, since the difference is only in
floor and truncation. The 30 observations, 5 and 10 of the code are `MaxObs`,
`RefAfter` and `ConvergeAfter`, for which the theorems need only their order.

### 2.9 CameraStamp

Two processes and the camera's streaming thread. The lidar driver opens the file
in two steps (`OpenShared`, `MapShared`), because `O_TRUNC` empties a file that
the camera may have mapped before `ftruncate` gives it its size, and writes a stamp
after its cloud is published (`PublishCloud`, `WriteSharedStamp`). The camera
driver grabs, counts drops and publishes (`Grab`, `CountDrops`, `Publish`); a
read of the emptied file ends it (SIGBUS). `PushFrame` and `FrameArrives` are
the two ends of the pipeline's conversion. Either process ends at any step and
starts again, the file stays, and may hold the last stamp of an earlier boot.
A stamp is the number of its cloud.

## 3. Runs

| Run | Question | Bounds |
|---|---|---|
| `livo_main` | Does the pipeline give the filter the right data in the right order when clocks run forward? | frames at 1, 3, 5, 7, samples at 1..8 (any may be missing), images at 2..6 |
| `odometry` | What still holds when the lidar's clock jumps back, and do the visual filter and the odometry work on the state they should? | frames at 1, 3, 5, samples at 1..5, images at 2, 3, 4, 6, one jump |
| `lio` | Without a camera, is the scan that is popped the one that was processed, and is it served? | scans at 1, 4, 7, 10 of length 2, the last of one point; five samples; one jump; both modes |
| `voxel` | Do the octrees lose no point and hide no plane, whatever the fits say? | two roots, two children, one layer below the root, freeze at 5, 13 points |
| `visual` | Do references, observations and keys of visual points survive five frames of anything? | two points, two cells, coordinates ahead of and behind the origin, three observations |
| `queue_order` | Is the unlocked ring a queue and is the wake-up protocol right, as written? | two lidars, size 2, indices modulo 4 |
| `queue_live` | Does every frame get out on the target's memory? | two lidars, size 1, modulo 2 |
| `framing` | Do packets become whole frames across modes and clock steps? | two lidars, interval 2, five ticks, queue of two, one step, wrap at 16 |
| `bringup_retry` | Is each command under way exactly once? | one setting and the attitude, two datagrams in flight, three sequence numbers, two update commands, failing sends |
| `bringup_live` | Does the lidar come up, configured? | two settings and the work mode |
| `stamp` | Which stamp does an image get across restarts of either driver, and is every drop counted? | three clouds, four frames, two restarts each |
| `bringup_imu` (violation) | Is the IMU enable retried? | one setting, the IMU command |

Why the bounds are enough to be worth something. `livo_main`: four frames of a
scan that ends between two frames give cuts that split a scan, cuts that fall on a
frame's stamp, a trimmed buffer, a set-aside point carried over, two full
cycles after initialisation, gaps below and above the jump limit.
`queue_order`: indices wrap, both queues fill before and after sampling
begins. `bringup_retry`: an answer, its retry's answer and a timeout of the
same command can all be under way at once. `framing`: an interval of two
already distinguishes a frame time from any other stamp; the queue holds packets
received in one mode and processed in the other. `odometry`: an image swapped
between the updates, an update without points, a jump and a timer tick between any
two of them. `lio`: more scans than the buffer holds, so that a held scan is
displaced by overflow as well as by a loop back. `voxel`: a node can be
initialised, cut, refitted, lose its plane, become one again and freeze, in the
root and in the last layer. `visual`: five frames let a point be found, gather
three observations, lose its reference to thinning, converge and be found again.
`stamp`: a restart of each driver between any two steps of the other, twice.

Properties, by what they guard:

- *Pairing*: `Aligned`, `HeadersCoverClouds` - the cut takes a header for
  every cloud and computes point times from it.
- *Order*: `OrderRefined` (strict alternation, monotone update clock),
  `VisualNotBehind`, `ImuInOrder`, `ClockBackOnlyOnRestart` (the modes without a
  camera, where the clock may follow the lidar's back, and only then).
- *Completeness*: `NoImuLost`, `FullyPropagated`, `PointsInWindow` - between
  two settled updates every sample, every instant and every point is used
  once. `Settled` leaves out the first package after initialisation (whose
  start time is the uninitialised one) and cycles whose image was replaced;
  `FullyPropagated` needs two samples, since with one the code's loop takes
  another branch and does not integrate up to the cut.
- *Gaps*: `GapIsFinal` states what the code does: after a jump over 0.2 s the
  IMU stays shut until the lidar's clock restarts. It is a property to argue
  about; the model shows it is exact.
- *Held scans*: `PoppedIsProcessed`, `ScanFullyPropagated`, `HeldScanServed`.
- *Hand-over*: `VisualPointsCurrent` (the visual filter never gets an earlier
  update's points), `PropagatedFromFilter`, `PoseAtStamp`.
- *Lidar map*: `PlanesAreLeaves`, `FitIsFresh`, `PointsHandedDown`.
- *Visual map*: `RefIsObservation`, `ObservationsKept`, `NotMadeTwice`.
- *Stamps*: `SessionStamps`, `HostClockOnlyBefore`, `DropsCounted`.
- *Progress*: `VisualFollows`, `ImageServed`, `FramesPublished`,
  `ShutdownJoins`, `BringUpDone`.
- *Queue*: `FifoRefined`, `NoLostWakeup`. *Commands*: `OneCopy`,
  `NothingForgotten`, `SamplingMeansApplied`. *Frames*: `StreamRefined`,
  `WholeIntervals`, `CloudBounded`.

Deadlock is not checked: sensors may fall silent, a shut-down poller has joined,
a configured lidar with every command answered has nothing to do, and the bounds
on clocks, points, frames and restarts end the other runs.

### Fairness

- `LivoSync`: weak fairness of the loop iteration only (`run` turns at
  5 kHz), stated with the lidar's clock running forward (`FairSpec`). No sensor is
  obliged to send.
- `LioSync`: the same, of `LioIterate`.
- `LidarQueue`: weak fairness of the threads' steps; strong fairness of pushing
  (lidars keep sending); the poller gets out of its scan infinitely often
  (publishing is faster than arrival; otherwise the inner loop of
  `PublishCustomPointcloud`, which does not look at `request_exit_`, need never
  end). `ShutdownJoins` depends on lidars that keep sending: without a push
  nothing wakes the poller for its join.
- `LidarBringUp`: threads run, timers come due, the lidar answers. Retries
  help only if the network eventually works, so from some time on nothing is
  lost and the round trip stays below the timeouts (`Timely`): a command times
  out after one second (`define.h:43`), detection repeats every second
  (`device_manager.cpp:418`).

### Where code and documents disagree

`bringup_imu` is a run of its own: the retry branch of
`EnableLivoxLidarImuDataCallback` is behind a null test that every timeout takes;
one lost datagram and the IMU stays off. The others are met in the models and
stated there; the line in parentheses says how to see each.

1. `LIVMapper.cpp:1289` says the lidar and visual updates of a cycle are at one
   time. An image accepted between the two (`img_cbk` keeps only the newest)
   moves the visual update to a later one. With a camera and a lidar at 10 Hz
   the visual update waits for the next cloud, so that this is the usual case
   and not a rare one: `sync_packages` returns before its switch while the cloud
   buffer is empty. (`VioAtLioTime` as an invariant of `livo_main`.)
2. "lidar loop back, clear buffer" (`:985`) clears the clouds and leaves the
   headers; from then on clouds are cut with older headers. (`Aligned`
   under `Spec` with `MaxRestarts = 1` on the grid of `livo_main`.)
3. A refused setting counts as set; the callbacks never read `ret_code`.
   (`MayReject = TRUE` in `bringup_live`: `SamplingMeansApplied`.)
4. A clock step inside a frame makes points older than the base time, and
   their unsigned offsets wrap, against `CustomPoint.msg:3`. (`OffsetsValid` as
   an invariant of `framing`.)
5. The camera driver's README promises the lidar's time domain (`:4`, `:182`).
   Until the lidar driver has written its first stamp the host's clock is used,
   and before it has opened the file the stamp of an earlier boot.
   (`HostClockOnlyBefore` and `SessionStamps` state exactly when.)
6. The "dropped count" of that README (`:198`) counts frames that are still in
   conversion: it is an upper bound. (`DropsCounted` with `=` for `<=`.)
7. Behind the origin `vio.cpp:401` looks a voxel up under another key than
   `:233` entered it. (Theorem `BehindNeverLookedUp`; `NotMadeTwice` without its
   condition on the position.)

## 4. Proofs

Each theorem is about the specification of its module, for every value of the
constants that the named assumptions of that module allow (sets of stamps, limits,
sizes, numbers of lidars, threads, layers), under the hypotheses in the last
column. What a theorem states was model-checked, in a run or on its grid, before it
was proved.

| Theorem | States | For |
|---|---|---|
| **`Mapper_proofs`**, of `LivoSync` | | |
| `TypeCorrect` | `TypeOK` | all behaviours |
| `HeadersSuffice` | `HeadersCoverClouds` | all behaviours, clock jumps included |
| `VisualInOrder` | `VisualNotBehind` | all behaviours |
| `OrderImplemented` | `OrderRefined`: `Spec => UpdateOrder!Spec` | all behaviours |
| `AlignedWithoutRestart` | `Aligned` | `MaxRestarts = 0` |
| `ImuBufferOrdered` | `ImuInOrder` | all behaviours |
| `GapStopsImu` | `GapIsFinal` | all behaviours |
| `NoSampleDiscarded` | `NoImuLost` | `MaxRestarts = 0` |
| `PropagatedOverTheGap` | `FullyPropagated` | all behaviours, clock jumps included |
| `PointsOfTheWindow` | `PointsInWindow` | `MaxRestarts = 0`, scans that do not overlap, `ScanLen <= MinImgGap` |
| of `LivoOdometry` | | |
| `OdometryImplementsSync` | `OdometrySpec => LivoSync!Spec` | all behaviours |
| `OdometryHeadersSuffice`, `OdometryOrderImplemented` | `HeadersCoverClouds`, `OrderRefined` | all behaviours |
| `VisualPointsOfThisUpdate` | `VisualPointsCurrent` | all behaviours |
| `PropagationFromFilter` | `PropagatedFromFilter` | all behaviours |
| `PoseMatchesStamp` | `PoseAtStamp` | all behaviours |
| `ReplayOrdered` | `ReplayInOrder` | all behaviours |
| of `LioSync` | | |
| `LioHeadersSuffice` | `HeadersCoverClouds` | all behaviours, clock jumps included |
| `PopsTheScan` | `PoppedIsProcessed` | all behaviours, clock jumps included |
| `ClockForward` | `ClockBackOnlyOnRestart` | `EndsInOrder`: no scan ends before one that began earlier |
| `ScanPropagatedOverTheGap` | `ScanFullyPropagated` | `EndsInOrder`, and `UninitReads` holds no frame's stamp |
| **`VoxelMap_proofs`** | | |
| `MapWellTyped` | `TypeOK`, with the bound on a node's points | all behaviours |
| `FitStaysFresh` | `FitIsFresh` | all behaviours |
| `PointsStayHandedDown` | `PointsHandedDown` | all behaviours |
| `PlanesStayLeaves` | `PlanesAreLeaves` | all behaviours |
| `FrozenStays` | `FrozenKept` | all behaviours |
| **`VisualMap_proofs`** | | |
| `MapTypes` | `TypeOK` | all behaviours |
| `NoDanglingReference` | `RefIsObservation` | all behaviours |
| `NoPointForgotten` | `ObservationsKept` | all behaviours |
| `ObservationsLimited` | `ObservationsBounded` | all behaviours |
| `ConvergedStays` | `ConvergedSettled` | all behaviours |
| `NoPointTwice` | `NotMadeTwice` | all behaviours |
| `BehindNeverLookedUp` | no voxel is looked up under the number that points just behind the origin are entered with | every resolution |
| **`CameraStamp_proofs`** | | |
| `StampTypes` | `TypeOK` | all behaviours |
| `StampsOfThisSession` | `SessionStamps` | all behaviours |
| `HostClockOnlyAtStart` | `HostClockOnlyBefore` | all behaviours |
| `EveryDropCounted` | `DropsCounted` | all behaviours |
| **`LidarQueue_proofs`** | | |
| `QueueTypes` | `TypeOK` | all behaviours, every memory order |
| `WakeupNeverLost` | `NoLostWakeup` | `MemoryOrder = "sc"` |
| `QueueIsFifo` | `FifoRefined`: `Spec => BoundedFifo!Spec` | `MemoryOrder # "weak"` |
| **`LidarFraming_proofs`** | | |
| `FramingTypes` | `TypeOK` | all behaviours |
| `CloudsBounded` | `CloudBounded` | all behaviours |
| `FramesAreIntervals` | `WholeIntervals` | all behaviours |
| `PacketsStream` | `StreamRefined`: `Spec => PacketStream!Spec` | all behaviours |
| **`LidarBringUp_proofs`** | | |
| `NoCommandForgotten` | `NothingForgotten` | all behaviours |
| `NoCommandDoubled` | `OneCopy` | if sends can be refused, `"mode"` is not in `Further` |
| `SamplingAfterSettings` | `SamplingMeansApplied` | `MayReject = FALSE` |

The hypotheses are where the code stops keeping its promise, not where a
proof was easier: with a clock jump clouds lose their headers (`Aligned`), on the
ARM target the index may be seen before the slot (`QueueIsFifo`), a refused work
mode is sent twice (`NoCommandDoubled`), and the model checker shows each. In the
modes without a camera the update time is a scan's end, so a scan that ends before
an earlier one does would take the clock back (`EndsInOrder`; scans that do not overlap satisfy it, also those of a
single point, which end where they begin). `last_prop_end_time` has no initial value
(`IMU_Processing.h:81`), and `ScanFullyPropagated` tells a first undistorted scan by
it: the garbage must not happen to be the stamp the scan is compared with.

### The arguments

*`LivoSync`, types and order* (`IInv`). The update clock is monotone because a
lidar update cuts later than the latched time and the visual update not
earlier than the cut. The second half needs a relation across messages: between
the two updates an image waits which is not older than the cut
(`VisualNotBehind`), kept because `img_cbk` refuses older images, and the update
time is not past the cut. Without the type invariant's
`imgBuf \in {<<>>, <<lastImg>>}` that does not carry over an arriving image.
Headers are never fewer than clouds because each step that removes a header
removes a cloud with it. `Aligned` is inductive once no clock jump can make a
stamp fall below `last_timestamp_lidar` (`SteadyClock`).

*`LivoSync`, samples* (`ImuInv`). `NoImuLost` compares the samples a cut pops with
those it hands over. They agree if no buffered sample is at or before the
last update, which holds because the previous cut popped all of them
(`DrainedAtCut`, `DrainedWhenSettled`), later ones are newer than every stamp
seen (`SteadyImu`, which needs a clock that runs forward), and the buffer is in
order (`ImuOrdered`), so that a prefix popped by the loop is the set of all
samples up to the cut (`UpToSplits`, `SegmentIsInterval`).

*`LivoSync`, points* (`WindowInv`). What a cut leaves is of two kinds. The clouds
in the buffer, and those still to come, begin after it (`CloudsFrom`): the last
cloud reaches the cut, or `DataComplete` would be false, and the next begins
where that one ends. The points it set aside lie between the cut and the end of a
scan after it (`SetAside`). Both are kept relative to the cut of the lidar update
until the visual update makes that cut the update time; from then on the next
image is at least `MinImgGap` ahead (`ImageApart`), so a set-aside point cannot lie
behind the next cut. That is the only use of `ScanLen <= MinImgGap`.

*`LivoSync`, the integrated time* (`TailSeen`). `Propagated` is a sum over the samples
of the package: each step but the last runs from one sample to the next, the first
from the last propagation, the last to the update. The sum telescopes
(`SumTelescopes`, `PropagationCovers`) if the tail of the previous package is not
newer than that propagation and every sample of this one is not older. Both hold
because a cut pops every sample up to its time and the samples are in order; that
this survives a clock restart is `TailSeen`: no sample the filter has seen is past
the newest image.

*`LioSync`* (`LioTypes`, `HeldInFront`, `ScansForward`, `ScanClock`). The scan that
waits for the IMU is the front cloud unless the callback displaced it
(`HeldInFront`). While the lidar's clock runs on, the waiting scan and every buffered
one end at or after the last update, and those to come after them (`ScansForward`).
The propagation time is either the uninitialised one or the last scan's end
(`ScanClock`), and then the sum telescopes as in `LivoSync`.

*Sums and prefixes* (`SumLaws`). The induction theorems of the library take an
operator as a parameter. Induction is therefore stated over a set: one that
contains 0 and the successor of each of its elements contains every number
(`Climb`, from the well-founded order on numbers), and a family of sets that has
each set whose smaller ones it has contains all finite ones (`Build`). From these
follow that the recursion behind `SumFunction` has a solution, that the order does
not matter, and the laws of sums.

*`LivoOdometry`*. Every step of the mapper is a step of the synchroniser or leaves
its variables alone (`StepOfSync`), so what is proved of `LivoSync` holds of the
composition. Points wait for the visual filter only between the two updates of a
cycle and are then those of this cycle (`PointsAwaited`). A hand-over not yet
taken makes the next propagation start over from it (`HandedOver`). For the pose:
the samples kept are in order and end with the newest (`SamplesOrdered`), so the
last one replayed is the newest (`ReplayedSamples`), and the static offset is
always the distance of the published pose from the filter's time (`OffsetKept`).

*`VoxelMap`* (`MapInv`). A tree has with every node all nodes above it, and every
node above another is initialised and has no plane (`IsTree`: `HasAncestors`,
`InnerAbove`). `Grown`, which is recursive in the code, keeps this because it goes
below a node only where the fit failed (`GrownIs`); a new point because its
path passes only through such nodes (`PassedIs`, `TargetIs`). The descent is
a least length, found by the library's well-founded order on numbers. The counts
are a second invariant (`CountInv`): a plane's `total` is ahead of what it was
fitted to by less than the refit's interval, a node's points stay within the limits
(`Counts`), and the points of a node that was cut lie each under a child, of which
each has taken as many since as it was handed (`HandsDown`). The bound on all of
them is then a sum over the children (`SumOfParts`, `SumMonotone`).

*`VisualMap`* (`IInv`). A point in the map has an observation, at most `MaxObs`,
and its reference is one of them (`Sound`); a point tracked in this image has
its reference by the time of the update (`TrackedHaveRef`), so that deleting every
observation but the reference, when it has converged, leaves one. `SoundLater`
carries `Sound` past later frames. While points are made, each point that is ahead of
the origin, in a voxel of the scan and in the image has its cell marked
(`SeenIsMarked`): the two voxel numbers agree there (`KeysAgreeAhead`) and the point
has an observation, so retrieval has found it.

*`CameraStamp`* (`StampInv`). What the file holds follows from where the lidar driver is
between opening it, publishing and writing (`FileFollowsLidar`). Every frame pushed is pulled,
overwritten, in the sink or in conversion (`FramesAccounted`), and the count is
short of the pushes by no more than the pulls (`DropsKeepUp`).

*`LidarQueue`* (`QueueInv`, `WakeInv`, `RingInv`). The indices are equal modulo the
ring's size to the numbers of frames pushed and popped, and never further apart
than it (`Bounded`, `Room`), so the slot being written is not one that waits
(`ModApart`, `SlotOfApart`). The contents of the abstract queue are the slots
between the indices, less the frame the poller has copied and not yet released
(`ContentsAre`); of the concrete steps only `StoreIndex` and `PrePop` change it.
No wake-up is lost because a frame that has not been visited has the
semaphore, a pusher about to look at it, or a poller that has not reached
its queue (`WakeInv`).

*`LidarFraming`* (`CloudInv`). The stamps of a cloud without a gap count up from its
first (`Even`), and none that would have ended it was passed over (`NoneMissed`).
Of any `Interval` consecutive stamps one is a frame time (`FirstMultiple`), hence
the bound; a frame that begins right after one is exactly an interval. For
`StreamRefined` the packets of one lidar in the queue are a recursion over its
prefixes (`PicksOf`), which exists, grows with an arrival (`PicksAppended`) and loses
its first with a taking (`PicksTaken`), both by `PicksShifted`; what a lidar has in
its cloud and in the queue together then only changes when a packet arrives or a
frame is published (`TakingKeepsPending`).

*`LidarBringUp`* (`Quiet`, `Traced`, `Single`, `Accepted`). A command is in the
table, or about to be sent, or between the halves of `SendCommand`; each step moves
one command from one place to the next or removes it with its answer
(`Moves`), so it is in one of them (`Traced`) and in one at most (`Single`).
Nothing is anywhere before the lidar is reported (`Quiet`). An answer to a setting
in flight means the lidar applied it, and a bit is cleared by such an answer
alone (`Accepted`).

### What is only model-checked

- Liveness, and whatever needs `ENABLED`: `VisualFollows`, `ImageServed`,
  `HeldScanServed`, `FramesPublished`, `ShutdownJoins`, `BringUpDone`, and
  the violation of `ImuNotForgotten`. The prover has no rule for fairness here.

Every invariant, action property and refinement that a passing run checks is a theorem.

Defined, and true on the grids of the runs, but not part of one: `FrozenKept`,
`ReplayInOrder`, `ObservationsBounded` and `ConvergedSettled` (proved),
`SurroundingsKept`, and the type invariants of the modules whose
run checks deeper ones. `VioAtLioTime` and `OffsetsValid` state what the code's
comments say and are violated (section 3).

## 5. Not modelled

- The numerics of the filters, plane fits, residuals, photometric scores and
  point-cloud preprocessing: floating point. Their outcomes are choices of the
  models. With them: the neighbour a point without a match is tried in
  (`voxel_map.cpp:699`) and the poses in `IMUpose`.
- Coordinates, extrinsics, message layout, image content: data.
- `patch_temp`, which an early `continue` in `retrieveFromVisualSparseMap` leaks:
  memory that nothing else reads.
- `ros_driver_fix_en`, which moves the IMU's offset once.
- In the camera driver: the HID control, short raw frames, an `open`, `ftruncate` or
  `mmap` that fails. `mmap_time_writer_node.cpp` is not built.
- The board's counters and the GPRMC path (`timer.c`, `gprmc_feeder.cpp`,
  `synchro.cpp`): only what they do to the lidar's clock is modelled, as
  `LidarClockRestart` and `ClockStep`.
- HAP and Mid-360S handlers (repeat the Mid-360's), firmware upgrade, lidar
  logs, view mode: not used by the system or the same again.
- `bringup_retry` follows the attitude and not the work mode under failing
  sends: the work mode's callback sends again at once while the failed entry
  still times out and sends once more, so that with each refused send its copies
  multiply (`OneCopy` fails at once with `"mode"` in `Further`; listed among
  the hazards).
- PCL message format: its publisher returns without popping (`lddc.cpp:301`).
- What happens at `Uninit`: clients and entries that outlive each other.

## 6. Plan

What is left, most important first:

1. `ClockChain`: the board's counters and interrupts (`timer.c` 93-153), the
   sentence on the wire, the feeder: does pulse and sentence agree, and when do
   they again after the board restarts.
2. Bring-up with the HAP handler's own configuration, a lidar that is not in the
   configuration, and the index cache.
3. Composition of `CameraStamp` with `img_cbk`'s acceptance: for how long images
   are refused after the camera has fallen back to its host's clock.
4. Proofs: the type invariant of `LidarBringUp`, and the safety lemmas behind the
   liveness properties (which step each fair action takes, and what it makes
   smaller), so that only the fairness argument itself is left to the model checker.

The runs are one per question; a new module's run replaces the one whose question
its theorems have come to answer for every size.
