---------------------------- MODULE MCVisualMap ----------------------------
(***************************************************************************)
(* A small instance of VisualMap for TLC: one voxel ahead of the origin    *)
(* and two behind it, a point in the middle of each, two image cells.      *)
(***************************************************************************)
EXTENDS VisualMap, TLC

MCPositions == {-3, -1, 1}
MCSymmetry == Permutations(Cells)
=============================================================================
