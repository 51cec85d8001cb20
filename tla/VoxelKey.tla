------------------------------ MODULE VoxelKey ------------------------------
(***************************************************************************)
(* The two ways vio.cpp turns a world coordinate into a voxel number, along *)
(* one axis.  A coordinate is an integer number of 1/Res of a voxel; the   *)
(* conversion of a float to int64_t drops the fraction.                    *)
(***************************************************************************)
EXTENDS Integers

CONSTANT Res   \* steps of a coordinate per voxel

ASSUME ResAssumption == Res \in Nat \ {0}

\* The voxel a coordinate lies in.
Floor(c) == c \div Res

\* insertPointIntoVoxelMap (BuildVoxelMap, UpdateVoxelMap and mapSliding of
\* the lidar map do the same): divide, subtract one if negative, truncate.
InsertKey(c) == IF c < 0 THEN -((Res - c) \div Res) ELSE c \div Res

\* retrieveFromVisualSparseMap: floor first, then subtract one if negative.
LookupKey_NoFloor(c) == InsertKey(c - Res)
LookupKey(c) == IF Floor(c) < 0 THEN Floor(c) - 1 ELSE Floor(c)
=============================================================================
