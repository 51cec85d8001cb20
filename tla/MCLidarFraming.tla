--------------------------- MODULE MCLidarFraming ---------------------------
(***************************************************************************)
(* LidarFraming with two interchangeable lidars: no definition tells one   *)
(* from the other.                                                         *)
(***************************************************************************)
EXTENDS LidarFraming, TLC

LidarSymmetry == Permutations(Lidars)
=============================================================================
