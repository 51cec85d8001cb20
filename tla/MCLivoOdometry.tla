--------------------------- MODULE MCLivoOdometry ---------------------------
(***************************************************************************)
(* LivoOdometry on the grid of MCLivoSync: three frames, images that leave *)
(* an update without points, and one restart of the lidar's clock.         *)
(***************************************************************************)
EXTENDS LivoOdometry

FrameStamps == {1, 3, 5}
SampleStamps == 1..5
ImageStamps == {2, 3, 4, 6}
NoGarbage == {0}
=============================================================================
