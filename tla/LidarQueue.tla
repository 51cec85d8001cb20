----------------------------- MODULE LidarQueue -----------------------------
(***************************************************************************)
(* The point-cloud path of livox_ros_driver2 between its two threads: the  *)
(* PubHandler thread that pushes frames (Lds::PushLidarData), and the poll *)
(* thread that drains them (Lddc::DistributePointCloudData), with the      *)
(* unlocked ring of comm/ldq.cpp, the semaphore of comm/semaphore.cpp, and *)
(* the shutdown of DriverNode::~DriverNode.                                *)
(*                                                                         *)
(* The ring's slots and indices are read and written without a lock, so    *)
(* the pushing thread's stores reach the polling one as MemoryOrder says:  *)
(*   "sc"    at once, as if every access were sequentially consistent;     *)
(*   "tso"   in order, but possibly after the pusher read the semaphore's  *)
(*           count (x86: volatile is not a fence);                         *)
(*   "weak"  the index possibly before the slot (ARM, the README's Jetson).*)
(* Frames are numbered modulo FrameMod, indices modulo IndexMod (2^32 in   *)
(* the code).                                                              *)
(***************************************************************************)
EXTENDS Integers, Sequences, FiniteSets

CONSTANTS LidarCount, Requested, IndexMod, FrameMod, MemoryOrder

\* InitQueue rounds the requested size up to a power of two.
Size == CHOOSE p \in {2^i : i \in 0..30} :
          /\ Requested <= p
          /\ \A i \in 0..30 : Requested <= 2^i => p <= 2^i

\* (Size's own conjunct follows from Requested's; the provers know no powers.)
ASSUME SizesAssumption ==
  /\ LidarCount \in Nat \ {0}
  /\ Requested \in 1..2^30
  /\ Size \in Nat \ {0}
  /\ IndexMod \in Nat /\ IndexMod > Size /\ IndexMod % Size = 0
  /\ FrameMod \in Nat /\ FrameMod > Size
  /\ MemoryOrder \in {"sc", "tso", "weak"}

Lidars == 0..LidarCount - 1
Frames == 0..FrameMod - 1

VARIABLES
  wrIdx,      \* wr_idx of each queue, as the polling thread sees it
  rdIdx,      \* rd_idx of each queue
  slot,       \* storage_packet, as the polling thread sees it
  stores,     \* the pusher's stores not yet visible: among "slot", "index"
  pushPc,     \* "idle", "count" (about to read the count), "signal"
  pushing,    \* the lidar of the newest frame
  pushed,     \* whether that frame went into its queue
  frame,      \* the number of each lidar's newest frame put in its queue
  count,      \* count_ of pcd_semaphore_
  pollPc,     \* "loop", "wait", "scan", "pop", "update", "check", "joined"
  at,         \* the lidar the polling thread's loop has come to
  published,  \* the last frame taken from each queue
  sampling,   \* lidars whose connect_state is kConnectStateSampling
  exit,       \* "no", "requested" (request_exit_), "signalled" (exit_signal_)
  fresh       \* history: lidars pushed for since they began sampling

pushVars == <<stores, pushPc, pushing, pushed, frame>>
pollVars == <<rdIdx, pollPc, at, published>>
envVars == <<sampling, exit>>
vars == <<wrIdx, slot, count, pushVars, pollVars, envVars, fresh>>

Init ==
  /\ wrIdx = [l \in Lidars |-> 0] /\ rdIdx = [l \in Lidars |-> 0]
  /\ slot = [l \in Lidars |-> [i \in 0..Size - 1 |-> 0]]
  /\ stores = {} /\ pushPc = "idle" /\ pushing = 0 /\ pushed = FALSE
  /\ frame = [l \in Lidars |-> 0]
  /\ count = 0
  /\ pollPc = "loop" /\ at = 0 /\ published = [l \in Lidars |-> 0]
  /\ sampling = {} /\ exit = "no" /\ fresh = {}

-----------------------------------------------------------------------------
(***************************************************************************)
(* The pushing thread: RawDataProcess -> StoragePointData -> PushLidarData.*)
(* The stores of one push are visible before the next frame is due, a      *)
(* publishing interval later.                                              *)
(***************************************************************************)
\* The pusher sees its own store to wr_idx.
OwnWrIdx(l) ==
  (wrIdx[l] + (IF "index" \in stores /\ l = pushing THEN 1 ELSE 0)) % IndexMod

QueueIsFull_OffByOne(l) == (OwnWrIdx(l) - rdIdx[l]) % IndexMod > Size
QueueIsFull(l) == (OwnWrIdx(l) - rdIdx[l]) % IndexMod > Size - 1

\* QueuePushAny stores the slot, then the index; a full queue drops the frame.
BeginPush(l) ==
  /\ pushPc = "idle" /\ stores = {}
  /\ pushing' = l
  /\ pushed' = ~QueueIsFull(l)
  /\ stores' = IF QueueIsFull(l) THEN {} ELSE {"slot", "index"}
  /\ frame' = IF QueueIsFull(l) THEN frame
                ELSE [frame EXCEPT ![l] = (@ + 1) % FrameMod]
  /\ pushPc' = "count"
  /\ fresh' = fresh \cup (sampling \cap {l})
  /\ UNCHANGED <<wrIdx, slot, count, pollVars, envVars>>

StoreSlot ==
  /\ "slot" \in stores
  /\ slot' = [slot EXCEPT ![pushing][(OwnWrIdx(pushing) - 1) % Size] = frame[pushing]]
  /\ stores' = stores \ {"slot"}
  /\ UNCHANGED <<wrIdx, count, pushPc, pushing, pushed, frame, pollVars,
                 envVars, fresh>>

StoreIndex ==
  /\ "index" \in stores
  /\ MemoryOrder = "weak" \/ "slot" \notin stores
  /\ wrIdx' = [wrIdx EXCEPT ![pushing] = OwnWrIdx(pushing)]
  /\ stores' = stores \ {"index"}
  /\ UNCHANGED <<slot, count, pushPc, pushing, pushed, frame, pollVars,
                 envVars, fresh>>

ReadCount_BeforeStores ==
  /\ pushPc = "count"
  /\ pushPc' = IF (pushed /\ OwnWrIdx(pushing) = rdIdx[pushing]) \/ count > 0
                 THEN "idle" ELSE "signal"
  /\ UNCHANGED <<wrIdx, slot, count, stores, pushing, pushed, frame, pollVars,
                 envVars, fresh>>

ReadCount_FullIsSilent ==
  /\ pushPc = "count"
  /\ MemoryOrder = "sc" => stores = {}
  /\ pushPc' = IF ~pushed \/ OwnWrIdx(pushing) = rdIdx[pushing] \/ count > 0
                 THEN "idle" ELSE "signal"
  /\ UNCHANGED <<wrIdx, slot, count, stores, pushing, pushed, frame, pollVars,
                 envVars, fresh>>

\* After a push, nothing if the frame is already gone; else GetCount, which
\* takes no lock.  A frame that was dropped goes straight to GetCount.
ReadCount ==
  /\ pushPc = "count"
  /\ MemoryOrder = "sc" => stores = {}
  /\ pushPc' = IF (pushed /\ OwnWrIdx(pushing) = rdIdx[pushing]) \/ count > 0
                 THEN "idle" ELSE "signal"
  /\ UNCHANGED <<wrIdx, slot, count, stores, pushing, pushed, frame, pollVars,
                 envVars, fresh>>

\* Semaphore::Signal; its mutex publishes the stores that precede it.
Signal ==
  /\ pushPc = "signal" /\ stores = {}
  /\ count' = count + 1
  /\ pushPc' = "idle"
  /\ UNCHANGED <<wrIdx, slot, stores, pushing, pushed, frame, pollVars,
                 envVars, fresh>>

-----------------------------------------------------------------------------
(***************************************************************************)
(* The polling thread: DriverNode::PointCloudDataPollThread.               *)
(***************************************************************************)
QueueIsEmpty(l) == rdIdx[l] = wrIdx[l]

\* DistributePointCloudData returns at once after RequestExit.
Distribute ==
  /\ pollPc = "loop"
  /\ pollPc' = IF exit = "no" THEN "wait" ELSE "check"
  /\ UNCHANGED <<wrIdx, slot, count, pushVars, rdIdx, at, published, envVars,
                 fresh>>

Wait ==
  /\ pollPc = "wait" /\ count > 0
  /\ count' = count - 1
  /\ pollPc' = "scan" /\ at' = 0
  /\ UNCHANGED <<wrIdx, slot, pushVars, rdIdx, published, envVars, fresh>>

\* The for loop and the outer while of PollingLidarPointCloudData.
ToDrain == at \in sampling /\ exit = "no" /\ ~QueueIsEmpty(at)

Scan ==
  /\ pollPc = "scan" /\ at < LidarCount
  /\ IF ToDrain THEN pollPc' = "pop" /\ at' = at
                ELSE pollPc' = "scan" /\ at' = at + 1
  /\ UNCHANGED <<wrIdx, slot, count, pushVars, rdIdx, published, envVars, fresh>>

EndScan ==
  /\ pollPc = "scan" /\ at = LidarCount
  /\ pollPc' = "check"
  /\ UNCHANGED <<wrIdx, slot, count, pushVars, rdIdx, at, published, envVars,
                 fresh>>

\* PublishCustomPointcloud: QueuePrePop copies the slot, QueuePopUpdate
\* frees it; its own loop does not look at request_exit_.
PrePop ==
  /\ pollPc = "pop" /\ ~QueueIsEmpty(at)
  /\ published' = [published EXCEPT ![at] = slot[at][rdIdx[at] % Size]]
  /\ pollPc' = "update"
  /\ UNCHANGED <<wrIdx, slot, count, pushVars, rdIdx, at, envVars, fresh>>

PopUpdate ==
  /\ pollPc = "update"
  /\ rdIdx' = [rdIdx EXCEPT ![at] = (@ + 1) % IndexMod]
  /\ pollPc' = "pop"
  /\ UNCHANGED <<wrIdx, slot, count, pushVars, at, published, envVars, fresh>>

EndDrain ==
  /\ pollPc = "pop" /\ QueueIsEmpty(at)
  /\ pollPc' = "scan"
  /\ UNCHANGED <<wrIdx, slot, count, pushVars, rdIdx, at, published, envVars,
                 fresh>>

CheckFuture ==
  /\ pollPc = "check"
  /\ pollPc' = IF exit = "signalled" THEN "joined" ELSE "loop"
  /\ UNCHANGED <<wrIdx, slot, count, pushVars, rdIdx, at, published, envVars,
                 fresh>>

-----------------------------------------------------------------------------
\* The configuration callbacks set connect_state without waking the poller.
BeginSampling(l) ==
  /\ l \notin sampling
  /\ sampling' = sampling \cup {l}
  /\ UNCHANGED <<wrIdx, slot, count, pushVars, pollVars, exit, fresh>>

\* ~DriverNode: RequestExit, then exit_signal_.set_value(), then join.
RequestExit ==
  /\ exit = "no" /\ exit' = "requested"
  /\ UNCHANGED <<wrIdx, slot, count, pushVars, pollVars, sampling, fresh>>

SignalExit ==
  /\ exit = "requested" /\ exit' = "signalled"
  /\ UNCHANGED <<wrIdx, slot, count, pushVars, pollVars, sampling, fresh>>

Push == StoreSlot \/ StoreIndex \/ ReadCount \/ Signal
Poll == \/ Distribute \/ Wait \/ Scan \/ EndScan
        \/ PrePop \/ PopUpdate \/ EndDrain \/ CheckFuture

Next ==
  \/ \E l \in Lidars : BeginPush(l) \/ BeginSampling(l)
  \/ Push
  \/ Poll
  \/ RequestExit
  \/ SignalExit

Spec == Init /\ [][Next]_vars

\* The threads keep running.  The lidars keep sending frames, and the poller
\* publishes faster than they come, so every pass over the queues ends.
Fairness ==
  /\ WF_vars(Poll)
  /\ WF_vars(StoreSlot) /\ WF_vars(StoreIndex)
  /\ WF_vars(ReadCount) /\ WF_vars(Signal)
  /\ \A l \in Lidars : SF_vars(BeginPush(l))
  /\ WF_vars(SignalExit)
  /\ []<>(pollPc \notin {"scan", "pop", "update"})

FairSpec == Spec /\ Fairness
-----------------------------------------------------------------------------
(***************************************************************************)
(* Properties.                                                             *)
(***************************************************************************)
Waiting(l) == (wrIdx[l] - rdIdx[l]) % IndexMod

\* The shared state keeps its types, no queue holds more than its size, and
\* pcd_semaphore_ never counts past one.
TypeOK ==
  /\ wrIdx \in [Lidars -> 0..IndexMod - 1]
  /\ rdIdx \in [Lidars -> 0..IndexMod - 1]
  /\ \A l \in Lidars : Waiting(l) <= Size
  /\ slot \in [Lidars -> [0..Size - 1 -> Frames]]
  /\ stores \subseteq {"slot", "index"}
  /\ pushPc \in {"idle", "count", "signal"} /\ pushing \in Lidars
  /\ pushed \in BOOLEAN /\ frame \in [Lidars -> Frames]
  /\ count \in 0..1
  /\ pollPc \in {"loop", "wait", "scan", "pop", "update", "check", "joined"}
  /\ at \in 0..LidarCount /\ published \in [Lidars -> Frames]
  /\ sampling \subseteq Lidars /\ fresh \subseteq sampling
  /\ exit \in {"no", "requested", "signalled"}

\* A frame is the poller's from the moment it is copied.
Taken(l) == IF pollPc = "update" /\ at = l THEN 1 ELSE 0
Contents(l) ==
  [i \in 1..Waiting(l) - Taken(l) |->
     slot[l][(rdIdx[l] + Taken(l) + i - 1) % Size]]

\* The unlocked ring is a first-in first-out queue: no frame in it is lost,
\* overwritten, delivered twice or out of order.
Fifo == INSTANCE BoundedFifo WITH
  Bound <- Size,
  waiting <- [l \in Lidars |-> Contents(l)],
  delivered <- published
FifoRefined == Fifo!Spec

\* When the poller sleeps on the semaphore and no push is under way, it has
\* drained every queue pushed to since its lidar began sampling.
NoLostWakeup ==
  pollPc = "wait" /\ count = 0 /\ pushPc = "idle" /\ stores = {} /\ exit = "no"
    => \A l \in fresh : QueueIsEmpty(l)

\* Every frame in the queue of a sampling lidar is published before shutdown.
FramesPublished ==
  \A l \in Lidars : \A i \in 0..IndexMod - 1 :
    rdIdx[l] = i /\ ~QueueIsEmpty(l) /\ l \in sampling
      ~> rdIdx[l] # i \/ exit # "no"

\* ~DriverNode's join returns.
ShutdownJoins == exit = "signalled" ~> pollPc = "joined"
=============================================================================
