----------------------------- MODULE MCLivoSync -----------------------------
(***************************************************************************)
(* LivoSync on a grid of 0.05 s: a 10 Hz lidar with points at 0 and 50 ms, *)
(* IMU samples every tick or with gaps, images at any tick.                *)
(***************************************************************************)
EXTENDS LivoSync

FrameStamps == {1, 3, 5, 7}
SampleStamps == 1..8
ImageStamps == 2..6
\* last_prop_end_time holds 0, or any garbage beyond the recording.
NoGarbage == {0}
Garbage == {0, 100}
=============================================================================
