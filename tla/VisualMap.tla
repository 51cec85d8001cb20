----------------------------- MODULE VisualMap -----------------------------
(***************************************************************************)
(* The visual map of VIOManager: the visual points of feat_map, the        *)
(* observations (Feature) each keeps, and the reference patch that a point *)
(* is matched with.  processFrame runs its four passes over the map in     *)
(* order, on the estimator's thread, with normal_en as it is configured.   *)
(*                                                                         *)
(* A frame may see any position in any cell of the image grid; which of    *)
(* the points of a cell is nearest, whether it passes the depth, NCC and   *)
(* outlier tests, how patches score and whether the camera has moved are   *)
(* open.  Positions have one coordinate.                                   *)
(***************************************************************************)
EXTENDS VoxelKey, Sequences, FiniteSets, SequencesExt

CONSTANTS
  Positions,      \* where points may be, in steps of VoxelKey
  Cells,          \* the cells of the image grid
  Raycast,        \* raycast_en
  MaxObs,         \* the 30 observations of updateVisualMapPoints
  RefAfter,       \* the 5 observations of updateReferencePatch
  ConvergeAfter,  \* and its 10
  MaxPoints,      \* bound on the visual points
  MaxFrames       \* bound on the frames

ASSUME VisualAssumption ==
  /\ Positions \subseteq Int /\ IsFiniteSet(Positions)
  /\ Raycast \in BOOLEAN
  /\ RefAfter \in Nat /\ ConvergeAfter \in Nat /\ MaxObs \in Nat
  /\ 0 < RefAfter /\ RefAfter < ConvergeAfter /\ ConvergeAfter < MaxObs
  /\ MaxPoints \in Nat /\ MaxFrames \in Nat

Hidden == "hidden"   \* the cell of a position that is not in the image
NoRef == 0           \* ref_patch of a point without has_ref_patch_
Nowhere == [x \in Positions |-> Hidden]

\* To be out of the image is no cell of it.
ASSUME HiddenIsNoCell == Hidden \notin Cells

VARIABLES
  frame,      \* id_ of new_frame_
  phase,      \* the next pass of processFrame
  points,     \* the visual points of feat_map, in the order they were made
  view,       \* the image cell of each position, from new_frame_'s pose
  scan,       \* the positions of pg that lie in the scan
  mapCells,   \* the cells whose grid_num is TYPE_MAP
  submap,     \* visual_submap->voxel_points
  updated     \* the points with an update_flag

vars == <<frame, phase, points, view, scan, mapCells, submap, updated>>

NewPoint(x) == [at |-> x, obs |-> {frame}, ref |-> NoRef, converged |-> FALSE]

Init ==
  /\ frame = 0 /\ phase = "retrieve" /\ points = <<>>
  /\ view = Nowhere /\ scan = {} /\ mapCells = {} /\ submap = {} /\ updated = {}

Ids == DOMAIN points
CellOf(i) == view[points[i].at]
OnePerCell(S, cell) == \A x, y \in S : cell[x] = cell[y] => x = y

-----------------------------------------------------------------------------
(***************************************************************************)
(* retrieveFromVisualSparseMap.                                            *)
(***************************************************************************)
\* The reference of a point that is matched: its only observation, the one
\* it has, or the one that fits the others best, which may be any.
References(p) ==
  IF Cardinality(p.obs) = 1 \/ p.ref = NoRef THEN p.obs ELSE {p.ref}

Matched_NotRemembered(p, f) == IF Cardinality(p.obs) = 1 THEN [p EXCEPT !.ref = f] ELSE p
Matched(p, f) == [p EXCEPT !.ref = f]

Found(keys, v) ==
  {i \in Ids : InsertKey(points[i].at) \in keys /\ points[i].obs # {} /\ v[points[i].at] # Hidden}

\* sub_feat_map: the voxels of the scan, and those that a ray finds beyond it.
ScanKeys(s) == {LookupKey(x) : x \in s}
RayKeys == IF Raycast THEN {LookupKey(x) : x \in Positions} ELSE {}

Retrieve ==
  /\ phase = "retrieve" /\ frame < MaxFrames
  /\ \E v \in [Positions -> Cells \cup {Hidden}], s \in SUBSET Positions :
     \E ray \in SUBSET (RayKeys \ ScanKeys(s)) :
       LET found == Found(ScanKeys(s) \cup ray, v)
       IN /\ view' = v /\ scan' = s
          /\ mapCells' = {v[points[i].at] : i \in found}
          /\ \E matched \in SUBSET found :
               /\ OnePerCell(matched, [i \in found |-> v[points[i].at]])
               /\ submap' \in SUBSET matched
               /\ \E ref \in [matched -> 1..frame] :
                    /\ \A i \in matched : ref[i] \in References(points[i])
                    /\ points' = [i \in Ids |->
                         IF i \in matched THEN Matched(points[i], ref[i]) ELSE points[i]]
  /\ frame' = frame + 1 /\ phase' = "generate" /\ updated' = {}

(***************************************************************************)
(* generateVisualMapPoints: at most one new point per cell that shows no   *)
(* map point, from the scan or from the planes that rays have hit; none if *)
(* the scan has ten points or fewer, or where the image has no texture.    *)
(***************************************************************************)
FreeCells_All == Cells
FreeCells == Cells \ mapCells

Generate ==
  /\ phase = "generate"
  /\ \E new \in SUBSET (IF Raycast THEN Positions ELSE scan) :
       /\ \A x \in new : view[x] \in FreeCells
       /\ OnePerCell(new, view)
       /\ Len(points) + Cardinality(new) <= MaxPoints
       /\ points' = points \o [k \in 1..Cardinality(new) |-> NewPoint(SetToSeq(new)[k])]
  /\ phase' = "update"
  /\ view' = Nowhere /\ scan' = {} /\ mapCells' = {}
  /\ UNCHANGED <<frame, submap, updated>>

(***************************************************************************)
(* updateVisualMapPoints: a converged point is left with its reference; a  *)
(* full point loses the observation with the least score; an observation   *)
(* is added if the camera has moved.                                       *)
(***************************************************************************)
DeleteFeature_RefKept(p, f) == [p EXCEPT !.obs = @ \ {f}]
DeleteFeature(p, f) ==
  [p EXCEPT !.obs = @ \ {f}, !.ref = IF @ = f THEN NoRef ELSE @]

NonRefDeleted(p) == [p EXCEPT !.obs = @ \cap {p.ref}]

Thinned(p, worst) ==
  IF Cardinality(p.obs) >= MaxObs THEN DeleteFeature(p, worst) ELSE p

Observed(p, worst, moved) ==
  LET q == Thinned(p, worst)
  IN IF p.converged THEN NonRefDeleted(p)
     ELSE IF moved THEN [q EXCEPT !.obs = @ \cup {frame}] ELSE q

Update ==
  /\ phase = "update"
  /\ \E moved \in SUBSET {i \in submap : ~points[i].converged}, worst \in [submap -> 1..frame] :
       /\ \A i \in submap : worst[i] \in points[i].obs
       /\ points' = [i \in Ids |->
            IF i \in submap THEN Observed(points[i], worst[i], i \in moved) ELSE points[i]]
       /\ updated' = moved
  /\ phase' = "reference"
  /\ UNCHANGED <<frame, view, scan, mapCells, submap>>

(***************************************************************************)
(* updateReferencePatch: a point that was observed anew and often enough   *)
(* may converge, if the plane behind it no longer turns, and takes the     *)
(* observation with the best score.  Scores are read from means that may   *)
(* be uninitialised, so any observation may win, or none.                  *)
(***************************************************************************)
Rescored == {i \in updated : ~points[i].converged /\ Cardinality(points[i].obs) > RefAfter}

Reference ==
  /\ phase = "reference"
  /\ \E steady \in SUBSET {i \in Rescored : Cardinality(points[i].obs) > ConvergeAfter},
        best \in [Rescored -> 0..frame] :
       /\ \A i \in Rescored : best[i] \in points[i].obs \cup {points[i].ref}
       /\ points' = [i \in Ids |->
            IF i \in Rescored
              THEN [points[i] EXCEPT !.ref = best[i], !.converged = i \in steady]
              ELSE points[i]]
  /\ phase' = "retrieve" /\ submap' = {} /\ updated' = {}
  /\ UNCHANGED <<frame, view, scan, mapCells>>

Next == Retrieve \/ Generate \/ Update \/ Reference

Spec == Init /\ [][Next]_vars
-----------------------------------------------------------------------------
(***************************************************************************)
(* Properties.                                                             *)
(***************************************************************************)
Point == [at : Positions, obs : SUBSET (1..MaxFrames), ref : 0..MaxFrames, converged : BOOLEAN]

\* The map's variables keep their types, and the submap and the update flags
\* name points that exist.
TypeOK ==
  /\ frame \in 0..MaxFrames /\ phase \in {"retrieve", "generate", "update", "reference"}
  /\ points \in Seq(Point) /\ Len(points) <= MaxPoints
  /\ view \in [Positions -> Cells \cup {Hidden}] /\ scan \subseteq Positions
  /\ mapCells \subseteq Cells /\ updated \subseteq submap /\ submap \subseteq Ids

\* The reference patch is one of the point's observations: deleting
\* observations never leaves ref_patch pointing at a freed Feature.
RefIsObservation == \A i \in Ids : points[i].ref # NoRef => points[i].ref \in points[i].obs

\* A point keeps an observation for ever: updateVisualMapPoints reads
\* obs_.back() of every tracked point, and a point without one is in the map
\* and is never found again.
ObservationsKept == \A i \in Ids : points[i].obs # {}

\* A point never has more than MaxObs observations, whose patches and images
\* it holds.
ObservationsBounded == \A i \in Ids : Cardinality(points[i].obs) <= MaxObs

\* Once a point with a reference has converged it keeps that reference, and
\* takes no new observation.
ConvergedSettled ==
  [][\A i \in Ids : points[i].converged =>
       /\ points'[i].obs \subseteq points[i].obs
       /\ points[i].ref # NoRef => points'[i].ref = points[i].ref]_vars

\* Ahead of the origin no point is made where one is already seen: not in the
\* cell of a point whose voxel the scan covers.
NotMadeTwice ==
  [][\A i \in DOMAIN points' \ Ids, j \in Ids :
       /\ points[j].at >= 0
       /\ \E x \in scan : Floor(x) = Floor(points[j].at)
       => view[points'[i].at] # CellOf(j)]_vars
=============================================================================
