---------------------------- MODULE UpdateOrder ----------------------------
(***************************************************************************)
(* What the measurement synchroniser of fast_livo2 promises the filter in  *)
(* LIVO mode, without any buffer: lidar-inertial and visual updates        *)
(* strictly alternate, and the time the filter state is declared valid at  *)
(* (LidarMeasureGroup::last_lio_update_time) never runs backwards.         *)
(***************************************************************************)
EXTENDS Integers

VARIABLES flg,    \* LidarMeasureGroup::lio_vio_flg: the last update done
          clock   \* last_lio_update_time, negative before the first lidar frame

vars == <<flg, clock>>

Init == flg = "WAIT" /\ clock = -1

\* The first lidar header fixes the origin of the time line.
Latch == /\ clock < 0
         /\ clock' \in Nat
         /\ UNCHANGED flg

LidarUpdate == /\ flg \in {"WAIT", "VIO"}
               /\ flg' = "LIO"
               /\ clock' \in Nat
               /\ clock' >= clock

VisualUpdate == /\ flg = "LIO"
                /\ flg' = "VIO"
                /\ clock' \in Nat
                /\ clock' >= clock

Next == Latch \/ LidarUpdate \/ VisualUpdate

Spec == Init /\ [][Next]_vars
=============================================================================
