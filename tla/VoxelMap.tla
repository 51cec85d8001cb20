------------------------------ MODULE VoxelMap ------------------------------
(***************************************************************************)
(* The voxel map of the lidar filter: the octrees of VoxelOctoTree, the    *)
(* life of a node from its first points to its frozen plane, and the       *)
(* sliding of the map of VoxelMapManager.                                  *)
(*                                                                         *)
(* A node is named by the path from its root, a sequence of child numbers; *)
(* a point by its root voxel and the path of the smallest node it falls    *)
(* into.  What its points look like decides in init_plane whether a node   *)
(* is a plane: any outcome is possible at every fit.  Only the number of   *)
(* points with each path is kept of temp_points_.                          *)
(***************************************************************************)
EXTENDS Integers, Sequences, FiniteSets, FiniteSetsExt, Functions

CONSTANTS
  Roots,       \* the root voxels, by their coordinate along the track
  Children,    \* the children of a node, 0..7 in the code
  MaxLayer,    \* max_layer_
  InitNum,     \* layer_init_num_, the same for every layer
  UpdateSize,  \* update_size_threshold_
  MaxPoints,   \* max_points_num_
  HalfMap,     \* half_map_size
  SlideAt,     \* sliding_thresh
  MaxScan,     \* bound on the points of the first scan with one path
  MaxLoad      \* bound on the points the nodes of the map have taken

ASSUME VoxelAssumption ==
  /\ Roots \subseteq Int /\ IsFiniteSet(Children)
  /\ MaxLayer \in Nat /\ InitNum \in Nat \ {0} /\ UpdateSize \in Nat
  /\ MaxPoints \in Nat \ {0} /\ MaxPoints > InitNum
  /\ HalfMap \in Nat /\ SlideAt \in Nat \ {0}
  /\ MaxScan \in Nat /\ MaxLoad \in Nat

Paths == UNION {[1..n -> Children] : n \in 0..MaxLayer}
Ends == [1..MaxLayer -> Children]

Under(p, q) == Len(p) <= Len(q) /\ SubSeq(q, 1, Len(p)) = p

VARIABLES
  built,      \* lidar_map_inited: BuildVoxelMap has run
  tree,       \* voxel_map_: by root voxel, its nodes by path
  position,   \* position_last_
  slidAt      \* last_slide_position

vars == <<built, tree, position, slidAt>>

(***************************************************************************)
(* A node: temp_points_, new_points_, init_octo_, plane_ptr_->is_plane_,   *)
(* plane_ptr_->points_size_, update_enable_; and, as history, how many     *)
(* points it was ever given and whether a refit took its plane away.       *)
(***************************************************************************)
NoPoints == [e \in Ends |-> 0]
Size(pts) == SumFunction(pts)
PointsUnder(pts, p) == [e \in Ends |-> IF Under(p, e) THEN pts[e] ELSE 0]

EmptyNode == [pts |-> NoPoints, new |-> 0, init |-> FALSE, plane |-> FALSE,
              fitted |-> 0, enabled |-> TRUE, total |-> 0, flipped |-> FALSE]

Frozen(n) == [n EXCEPT !.pts = NoPoints, !.new = 0, !.enabled = FALSE]

Init ==
  /\ built = FALSE /\ tree = [r \in {} |-> EmptyNode]
  /\ position \in Roots /\ slidAt = position

-----------------------------------------------------------------------------
(***************************************************************************)
(* init_octo_tree and cut_octo_tree: a node with more than InitNum points  *)
(* is fitted; if that gives no plane its points go to its children, which  *)
(* are treated alike, down to MaxLayer.  planar tells the outcomes.        *)
(***************************************************************************)
Fitted(pts, isPlane) ==
  LET n == [EmptyNode EXCEPT !.pts = pts, !.total = Size(pts), !.fitted = Size(pts),
                             !.init = TRUE, !.plane = isPlane]
  IN IF isPlane /\ Size(pts) > MaxPoints THEN Frozen(n) ELSE n

FreshNode(pts, isPlane) ==
  IF Size(pts) > InitNum
    THEN Fitted(pts, isPlane)
    ELSE [EmptyNode EXCEPT !.pts = pts, !.total = Size(pts), !.new = Size(pts)]

\* The node at p, holding pts, is cut into its children.
Cut(p, pts, planar) ==
  Size(PointsUnder(pts, p)) > InitNum /\ ~planar[p] /\ Len(p) < MaxLayer

\* The nodes at and below p that come of the points pts.
Grown_LeafFromFirst(p, pts, planar) ==
  LET nodes == {q \in Paths :
                  /\ Under(p, q)
                  /\ q = p \/ Size(PointsUnder(pts, q)) > 1
                  /\ \A k \in Len(p)..Len(q) - 1 : Cut(SubSeq(q, 1, k), pts, planar)}
  IN [q \in nodes |-> FreshNode(PointsUnder(pts, q), planar[q])]

Grown(p, pts, planar) ==
  LET nodes == {q \in Paths :
                  /\ Under(p, q)
                  /\ q = p \/ PointsUnder(pts, q) # NoPoints
                  /\ \A k \in Len(p)..Len(q) - 1 : Cut(SubSeq(q, 1, k), pts, planar)}
  IN [q \in nodes |-> FreshNode(PointsUnder(pts, q), planar[q])]

-----------------------------------------------------------------------------
(***************************************************************************)
(* UpdateOctoTree.                                                         *)
(***************************************************************************)
\* A point passes an initialised node that is no plane, above MaxLayer.
Passed_PlaneToo(t, p) == p \in DOMAIN t /\ t[p].init /\ Len(p) < MaxLayer
Passed(t, p) == p \in DOMAIN t /\ t[p].init /\ ~t[p].plane /\ Len(p) < MaxLayer

\* The node that takes a point with path e, possibly a new one.
Target(t, e) ==
  CHOOSE p \in {SubSeq(e, 1, k) : k \in 0..MaxLayer} :
    /\ ~Passed(t, p)
    /\ \A k \in 0..Len(p) - 1 : Passed(t, SubSeq(e, 1, k))

WithPoint(n, e) == [n EXCEPT !.pts[e] = @ + 1, !.new = @ + 1, !.total = @ + 1]

\* A plane, or a node of the last layer: refit after more than UpdateSize new
\* points, freeze a plane at MaxPoints and another node beyond it.
Refit_BelowMaximum(n, isPlane) ==
  IF n.new > UpdateSize /\ Size(n.pts) < MaxPoints
    THEN [n EXCEPT !.fitted = Size(n.pts), !.plane = isPlane, !.new = 0,
                   !.flipped = @ \/ (n.plane /\ ~isPlane)]
    ELSE n

Refit(n, isPlane) ==
  IF n.new > UpdateSize
    THEN [n EXCEPT !.fitted = Size(n.pts), !.plane = isPlane, !.new = 0,
                   !.flipped = @ \/ (n.plane /\ ~isPlane)]
    ELSE n

Updated_NeverFull(n, e, isPlane) ==
  IF ~n.enabled THEN n ELSE Refit(WithPoint(n, e), isPlane)

Updated(n, e, isPlane) ==
  LET m == Refit(WithPoint(n, e), isPlane)
      full == IF n.plane THEN Size(m.pts) >= MaxPoints ELSE Size(m.pts) > MaxPoints
  IN IF ~n.enabled THEN n ELSE IF full THEN Frozen(m) ELSE m

\* The nodes of t after a point with path e.
AfterPoint(t, e, planar) ==
  LET p == Target(t, e)
      n == IF p \in DOMAIN t THEN t[p] ELSE EmptyNode
      grown == IF n.init THEN [q \in {p} |-> Updated(n, e, planar[p])]
                         ELSE Grown(p, WithPoint(n, e).pts, planar)
  IN [q \in DOMAIN t \cup DOMAIN grown |-> IF q \in DOMAIN grown THEN grown[q] ELSE t[q]]

-----------------------------------------------------------------------------
(***************************************************************************)
(* VoxelMapManager, on the lidar filter's thread.                          *)
(***************************************************************************)
NoTree == [p \in {} |-> EmptyNode]
TreeOf(r) == IF r \in DOMAIN tree THEN tree[r] ELSE NoTree

\* BuildVoxelMap puts the whole first scan into new roots, then fits them.
BuildVoxelMap ==
  /\ ~built
  /\ \E r \in Roots, pts \in [Ends -> 0..MaxScan], planar \in [Paths -> BOOLEAN] :
       /\ pts # NoPoints
       /\ tree' = [x \in {r} |-> Grown(<<>>, pts, planar)]
  /\ built' = TRUE
  /\ UNCHANGED <<position, slidAt>>

AllNodes == {x \in Roots \X Paths : x[1] \in DOMAIN tree /\ x[2] \in DOMAIN tree[x[1]]}
Load == MapThenSumSet(LAMBDA x : tree[x[1]][x[2]].total, AllNodes)

\* One point of UpdateVoxelMap.
UpdateVoxelMap ==
  /\ built /\ Load < MaxLoad
  /\ \E r \in Roots, e \in Ends, planar \in [Paths -> BOOLEAN] :
       tree' = [x \in DOMAIN tree \cup {r} |->
                  IF x = r THEN AfterPoint(TreeOf(r), e, planar) ELSE tree[x]]
  /\ UNCHANGED <<built, position, slidAt>>

Distance(x, y) == IF x < y THEN y - x ELSE x - y

\* StateEstimation has moved the sensor; mapSliding frees the roots outside
\* the box around it once it is SlideAt away from the last slide.
Move ==
  /\ built
  /\ \E x \in Roots \ {position} :
       /\ position' = x
       /\ IF Distance(x, slidAt) < SlideAt
            THEN UNCHANGED <<tree, slidAt>>
            ELSE /\ slidAt' = x
                 /\ tree' = Restrict(tree, {r \in DOMAIN tree : Distance(r, x) <= HalfMap})
  /\ UNCHANGED built

Next == BuildVoxelMap \/ UpdateVoxelMap \/ Move

Spec == Init /\ [][Next]_vars
-----------------------------------------------------------------------------
(***************************************************************************)
(* Properties.                                                             *)
(***************************************************************************)
Node == [pts : [Ends -> Nat], new : Nat, init : BOOLEAN, plane : BOOLEAN,
         fitted : Nat, enabled : BOOLEAN, total : Nat, flipped : BOOLEAN]

\* The map and its nodes keep their types, every node has its parent, and a
\* node that still collects or updates keeps at most MaxPoints points, or
\* what the first scan gave it.
TypeOK ==
  /\ built \in BOOLEAN /\ position \in Roots /\ slidAt \in Roots
  /\ DOMAIN tree \subseteq Roots
  /\ \A x \in AllNodes :
       LET n == tree[x[1]][x[2]]
       IN /\ n \in Node
          /\ \A k \in 0..Len(x[2]) - 1 : SubSeq(x[2], 1, k) \in DOMAIN tree[x[1]]
          /\ Size(n.pts) <= MaxPoints \/ Size(n.pts) <= MaxScan * Cardinality(Ends)

\* A node whose plane is matched has no nodes below it: build_single_residual
\* stops at a plane, so anything below it would be mapped and never found.
PlanesAreLeaves ==
  \A x \in AllNodes : tree[x[1]][x[2]].plane =>
    \A q \in DOMAIN tree[x[1]] : Under(x[2], q) => q = x[2]

\* A plane is never behind the points its node has taken by more than
\* UpdateSize, also when it was frozen between two refits or initialised from
\* its parent's points.
FitIsFresh ==
  \A x \in AllNodes : tree[x[1]][x[2]].plane =>
    tree[x[1]][x[2]].total - tree[x[1]][x[2]].fitted <= UpdateSize

\* The points of a node that was cut are all with its children, except those
\* of a plane that a refit took away: they stay behind in the node.
PointsHandedDown ==
  \A x \in AllNodes :
    LET t == tree[x[1]]
        n == t[x[2]]
        below == {q \in DOMAIN t : Len(q) = Len(x[2]) + 1 /\ Under(x[2], q)}
    IN n.init /\ ~n.plane /\ ~n.flipped /\ Len(x[2]) < MaxLayer =>
         Size(n.pts) <= SumFunction([q \in below |-> t[q].total])

\* A plane is only lost by a refit of its own node or with its whole voxel, and
\* a frozen node keeps what it has: no later point changes it.
FrozenKept ==
  [][\A x \in AllNodes :
       ~tree[x[1]][x[2]].enabled /\ tree[x[1]][x[2]].plane =>
         \/ x \in AllNodes' /\ tree'[x[1]][x[2]] = tree[x[1]][x[2]]
         \/ x[1] \notin DOMAIN tree']_vars

\* The sensor's surroundings stay mapped: sliding frees no voxel within
\* HalfMap of the sensor.
SurroundingsKept ==
  [][\A r \in DOMAIN tree : Distance(r, position') <= HalfMap => r \in DOMAIN tree']_vars
=============================================================================
