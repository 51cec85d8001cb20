----------------------------- MODULE BoundedFifo -----------------------------
(***************************************************************************)
(* What the point-cloud queues of livox_ros_driver2 promise: per lidar a   *)
(* bounded first-in first-out queue of frames.  A frame that found the     *)
(* queue full was never put; one that was put is delivered once, in order. *)
(***************************************************************************)
EXTENDS Naturals, Sequences

CONSTANTS Lidars, Frames, Bound
VARIABLES waiting, delivered

Init ==
  /\ waiting = [l \in Lidars |-> <<>>]
  /\ delivered \in [Lidars -> Frames]

Put(l, f) ==
  /\ Len(waiting[l]) < Bound
  /\ waiting' = [waiting EXCEPT ![l] = Append(@, f)]
  /\ UNCHANGED delivered

Deliver(l) ==
  /\ waiting[l] # <<>>
  /\ delivered' = [delivered EXCEPT ![l] = Head(waiting[l])]
  /\ waiting' = [waiting EXCEPT ![l] = Tail(@)]

Next == \E l \in Lidars : Deliver(l) \/ \E f \in Frames : Put(l, f)

Spec == Init /\ [][Next]_<<waiting, delivered>>
=============================================================================
