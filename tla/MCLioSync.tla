------------------------------ MODULE MCLioSync ------------------------------
(***************************************************************************)
(* LioSync on a grid of a third of a scan period: scans of two thirds, the *)
(* last of them of a single point, more scans than the buffer holds,       *)
(* samples that do not fall on the ends of the scans, and one restart of   *)
(* the lidar's clock.                                                      *)
(***************************************************************************)
EXTENDS LioSync

FrameStamps == {1, 4, 7, 10}
SampleStamps == {3, 6, 7, 8, 10}
NoImages == {}
Garbage == {100}
=============================================================================
