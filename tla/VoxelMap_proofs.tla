-------------------------- MODULE VoxelMap_proofs --------------------------
(***************************************************************************)
(* For any number of children and layers, any thresholds, and whatever the *)
(* plane fits say: the shape of the octrees, the counts of their points,   *)
(* and where the points of a node that was cut have gone.                  *)
(***************************************************************************)
EXTENDS VoxelMap, SumLaws

(***************************************************************************)
(* Paths.                                                                  *)
(***************************************************************************)
LEMMA Layers == MaxLayer \in Nat
BY VoxelAssumption

LEMMA PathIs ==
  ASSUME NEW p \in Paths
  PROVE  /\ p \in Seq(Children) /\ Len(p) \in 0..MaxLayer /\ Len(p) \in Nat
         /\ p \in [1..Len(p) -> Children]
<1>1. PICK n \in 0..MaxLayer : p \in [1..n -> Children]
  BY DEF Paths
<1>2. n \in Nat
  BY Layers
<1> QED BY <1>1, <1>2

LEMMA EndIsPath == Ends \subseteq Paths
BY Layers DEF Ends, Paths

LEMMA PrefixIs ==
  ASSUME NEW q \in Paths, NEW k \in 0..Len(q)
  PROVE  /\ SubSeq(q, 1, k) \in Paths /\ Len(SubSeq(q, 1, k)) = k
         /\ \A i \in 1..k : SubSeq(q, 1, k)[i] = q[i]
<1>1. /\ q \in Seq(Children) /\ Len(q) \in 0..MaxLayer /\ Len(q) \in Nat
      /\ q \in [1..Len(q) -> Children]
  BY PathIs
<1>2. SubSeq(q, 1, k) = [i \in 1..k |-> q[i]]
  BY <1>1
<1>3. k \in 0..MaxLayer /\ k \in Nat
  BY <1>1, Layers
<1>4. SubSeq(q, 1, k) \in [1..k -> Children]
  <2>1. \A i \in 1..k : i \in 1..Len(q)
    BY <1>1, <1>3
  <2>2. \A i \in 1..k : q[i] \in Children
    BY <1>1, <2>1
  <2> QED BY <1>2, <2>2
<1>5. SubSeq(q, 1, k) \in Paths
  BY <1>3, <1>4 DEF Paths
<1> QED BY <1>2, <1>3, <1>5

\* A node is under another if it shares its path.
LEMMA UnderIs ==
  ASSUME NEW p \in Paths, NEW q \in Paths
  PROVE  Under(p, q) <=> Len(p) <= Len(q) /\ \A i \in 1..Len(p) : p[i] = q[i]
<1>1. /\ Len(p) \in Nat /\ Len(q) \in Nat
      /\ p \in [1..Len(p) -> Children] /\ q \in [1..Len(q) -> Children]
  BY PathIs
<1>2. CASE Len(p) <= Len(q)
  <2>1. Len(p) \in 0..Len(q)
    BY <1>1, <1>2
  <2>2. /\ SubSeq(q, 1, Len(p)) \in Paths /\ Len(SubSeq(q, 1, Len(p))) = Len(p)
        /\ \A i \in 1..Len(p) : SubSeq(q, 1, Len(p))[i] = q[i]
    BY <2>1, PrefixIs
  <2>3. SubSeq(q, 1, Len(p)) \in [1..Len(p) -> Children]
    BY <2>2, PathIs
  <2>4. SubSeq(q, 1, Len(p)) = p <=> \A i \in 1..Len(p) : p[i] = q[i]
    BY <1>1, <2>2, <2>3
  <2> QED BY <1>2, <2>4 DEF Under
<1>3. CASE ~(Len(p) <= Len(q))
  BY <1>3 DEF Under
<1> QED BY <1>2, <1>3

LEMMA SamePath ==
  ASSUME NEW p \in Paths, NEW q \in Paths, Under(p, q), Len(q) <= Len(p)
  PROVE  p = q
<1>1. /\ Len(p) \in Nat /\ Len(q) \in Nat
      /\ p \in [1..Len(p) -> Children] /\ q \in [1..Len(q) -> Children]
  BY PathIs
<1>2. Len(p) <= Len(q) /\ \A i \in 1..Len(p) : p[i] = q[i]
  BY UnderIs
<1>3. Len(p) = Len(q)
  <2>1. \A m, n \in Nat : m <= n /\ n <= m => m = n
    OBVIOUS
  <2> QED BY <1>1, <1>2, <2>1
<1> QED BY <1>1, <1>2, <1>3

LEMMA UnderTransitive ==
  ASSUME NEW p \in Paths, NEW q \in Paths, NEW s \in Paths, Under(p, q), Under(q, s)
  PROVE  Under(p, s)
<1>1. Len(p) \in Nat /\ Len(q) \in Nat /\ Len(s) \in Nat
  BY PathIs
<1>2. /\ Len(p) <= Len(q) /\ \A i \in 1..Len(p) : p[i] = q[i]
      /\ Len(q) <= Len(s) /\ \A i \in 1..Len(q) : q[i] = s[i]
  BY UnderIs
<1>3. Len(p) <= Len(s) /\ \A i \in 1..Len(p) : p[i] = s[i]
  BY <1>1, <1>2
<1> QED BY <1>3, UnderIs

\* The ancestors of a path are in a line.
LEMMA UnderLinear ==
  ASSUME NEW p \in Paths, NEW q \in Paths, NEW s \in Paths, Under(p, s), Under(q, s),
         Len(p) <= Len(q)
  PROVE  Under(p, q)
<1>1. Len(p) \in Nat /\ Len(q) \in Nat
  BY PathIs
<1>2. (\A i \in 1..Len(p) : p[i] = s[i]) /\ (\A i \in 1..Len(q) : q[i] = s[i])
  BY UnderIs
<1>3. \A i \in 1..Len(p) : p[i] = q[i]
  BY <1>1, <1>2
<1> QED BY <1>3, UnderIs

LEMMA PrefixUnder ==
  ASSUME NEW q \in Paths, NEW k \in 0..Len(q)
  PROVE  Under(SubSeq(q, 1, k), q)
<1>1. Len(q) \in Nat /\ k <= Len(q)
  BY PathIs
<1> QED BY <1>1, PrefixIs, UnderIs

LEMMA UnderIsPrefix ==
  ASSUME NEW p \in Paths, NEW q \in Paths, Under(p, q)
  PROVE  p = SubSeq(q, 1, Len(p)) /\ Len(p) \in 0..Len(q)
BY PathIs DEF Under

(***************************************************************************)
(* Nodes.                                                                  *)
(***************************************************************************)
\* A node is a record of its fields, and only an initialised one is frozen.
IsRecord(n) ==
  n \in [pts : {n.pts}, new : {n.new}, init : {n.init}, plane : {n.plane}, fitted : {n.fitted},
         enabled : {n.enabled}, total : {n.total}, flipped : {n.flipped}]
IsNode(n) ==
  /\ IsRecord(n)
  /\ n.init \in BOOLEAN /\ n.plane \in BOOLEAN /\ n.enabled \in BOOLEAN
  /\ n.init \/ n.enabled

\* A node whose points are with its children.
Inner(n) == n.init /\ ~n.plane

LEMMA EmptyIsNode == IsNode(EmptyNode) /\ ~EmptyNode.init
BY DEF IsNode, IsRecord, EmptyNode

LEMMA FrozenIsNode ==
  ASSUME NEW n, IsNode(n), n.init
  PROVE  /\ IsNode(Frozen(n)) /\ Frozen(n).init = n.init /\ Frozen(n).plane = n.plane
<1>1. /\ IsRecord(Frozen(n)) /\ Frozen(n).init = n.init /\ Frozen(n).plane = n.plane
      /\ Frozen(n).enabled = FALSE
  BY DEF IsNode, IsRecord, Frozen
<1> QED BY <1>1, Zenon DEF IsNode

LEMMA FreshIsNode ==
  ASSUME NEW pts, NEW isPlane \in BOOLEAN
  PROVE  /\ IsNode(FreshNode(pts, isPlane))
         /\ Size(pts) > InitNum /\ ~isPlane => Inner(FreshNode(pts, isPlane))
<1> DEFINE n == [EmptyNode EXCEPT !.pts = pts, !.total = Size(pts), !.fitted = Size(pts),
                                  !.init = TRUE, !.plane = isPlane]
           m == [EmptyNode EXCEPT !.pts = pts, !.total = Size(pts), !.new = Size(pts)]
<1>1. IsNode(n) /\ n.init /\ n.plane = isPlane
  <2>1. IsRecord(n) /\ n.init = TRUE /\ n.plane = isPlane /\ n.enabled = TRUE
    BY DEF IsRecord, EmptyNode
  <2> QED BY <2>1, Zenon DEF IsNode
<1>2. IsNode(m)
  <2>1. IsRecord(m) /\ m.init = FALSE /\ m.plane = FALSE /\ m.enabled = TRUE
    BY DEF IsRecord, EmptyNode
  <2> QED BY <2>1, Zenon DEF IsNode
<1> HIDE DEF n, m
<1>3. /\ IsNode(Fitted(pts, isPlane)) /\ Fitted(pts, isPlane).init
      /\ Fitted(pts, isPlane).plane = isPlane
  <2>1. Fitted(pts, isPlane) = n \/ Fitted(pts, isPlane) = Frozen(n)
    BY DEF Fitted, n
  <2> QED BY <1>1, <2>1, FrozenIsNode
<1>4. FreshNode(pts, isPlane) = IF Size(pts) > InitNum THEN Fitted(pts, isPlane) ELSE m
  BY DEF FreshNode, m
<1> QED BY <1>2, <1>3, <1>4 DEF Inner

LEMMA UpdatedIsNode ==
  ASSUME NEW n, NEW e, NEW isPlane \in BOOLEAN, IsNode(n), n.init
  PROVE  /\ IsNode(Updated(n, e, isPlane)) /\ Updated(n, e, isPlane).init
         /\ ~n.enabled => Updated(n, e, isPlane) = n
<1> DEFINE w == WithPoint(n, e)
           m == Refit(w, isPlane)
<1>1. IsNode(w) /\ w.init
  <2>1. IsRecord(w) /\ w.init = n.init /\ w.plane = n.plane /\ w.enabled = n.enabled
    BY DEF IsNode, IsRecord, WithPoint
  <2> QED BY <2>1, Zenon DEF IsNode
<1> HIDE DEF w
<1>2. IsNode(m) /\ m.init
  <2>1. IsRecord(m) /\ m.init = w.init /\ m.plane \in {w.plane, isPlane} /\ m.enabled = w.enabled
    BY <1>1 DEF IsNode, IsRecord, Refit
  <2> QED BY <1>1, <2>1, Zenon DEF IsNode
<1> HIDE DEF m
<1>3. \/ Updated(n, e, isPlane) = n
      \/ n.enabled /\ Updated(n, e, isPlane) \in {m, Frozen(m)}
  BY DEF Updated, m, w
<1>4. ~n.enabled => Updated(n, e, isPlane) = n
  BY DEF Updated
<1> QED BY <1>2, <1>3, <1>4, FrozenIsNode

(***************************************************************************)
(* One octree.                                                             *)
(***************************************************************************)
\* Every node has its ancestors, and they have handed their points on.
HasAncestors(t) == \A p \in Paths, q \in DOMAIN t : Under(p, q) => p \in DOMAIN t
InnerAbove(t) == \A p, q \in DOMAIN t : Under(p, q) /\ p # q => Inner(t[p])

IsTree(t) ==
  /\ DOMAIN t \subseteq Paths /\ \A p \in DOMAIN t : IsNode(t[p])
  /\ HasAncestors(t) /\ InnerAbove(t)

\* What grows out of one node's points hangs under that node.
LEMMA GrownIs ==
  ASSUME NEW p \in Paths, NEW pts, NEW planar \in [Paths -> BOOLEAN]
  PROVE  LET g == Grown(p, pts, planar)
         IN /\ DOMAIN g \subseteq Paths /\ p \in DOMAIN g
            /\ \A q \in DOMAIN g : Under(p, q) /\ IsNode(g[q])
            /\ \A s \in Paths, q \in DOMAIN g : Under(p, s) /\ Under(s, q) => s \in DOMAIN g
            /\ InnerAbove(g)
<1> DEFINE Cuts(q) == \A k \in Len(p)..Len(q) - 1 : Cut(SubSeq(q, 1, k), pts, planar)
           nodes == {q \in Paths : Under(p, q) /\ (q = p \/ PointsUnder(pts, q) # NoPoints) /\ Cuts(q)}
           g == Grown(p, pts, planar)
<1>1. g = [q \in nodes |-> FreshNode(PointsUnder(pts, q), planar[q])]
  BY DEF Grown
<1>2. DOMAIN g = nodes /\ \A q \in nodes : g[q] = FreshNode(PointsUnder(pts, q), planar[q])
  BY <1>1
<1> HIDE DEF g
<1>3. p \in nodes
  <2>1. Len(p) \in Nat /\ Len(p)..Len(p) - 1 = {}
    BY PathIs
  <2>2. Under(p, p)
    BY PathIs, UnderIs
  <2> QED BY <2>1, <2>2
<1>4. \A q \in nodes : Under(p, q) /\ IsNode(g[q])
  BY <1>2, FreshIsNode
<1>5. ASSUME NEW s \in Paths, NEW q \in nodes, Under(p, s), Under(s, q)
      PROVE  /\ s \in nodes
             /\ s # q => Cut(s, pts, planar)
  <2>1. Len(p) \in Nat /\ Len(s) \in Nat /\ Len(q) \in Nat /\ q \in Paths
    BY PathIs
  <2>2. Len(p) <= Len(s) /\ Len(s) <= Len(q) /\ s = SubSeq(q, 1, Len(s))
    BY <1>5, <2>1, UnderIs, UnderIsPrefix
  <2>3. s = p \/ PointsUnder(pts, s) # NoPoints
    <3>1. CASE q = p
      BY <1>5, <2>1, <2>2, <3>1, SamePath
    <3>2. CASE PointsUnder(pts, q) # NoPoints
      <4>1. PICK e \in Ends : Under(q, e) /\ pts[e] # 0
        BY <3>2 DEF PointsUnder, NoPoints
      <4>2. Under(s, e)
        BY <1>5, <2>1, <4>1, EndIsPath, UnderTransitive
      <4>3. PointsUnder(pts, s)[e] # NoPoints[e]
        BY <4>1, <4>2 DEF PointsUnder, NoPoints
      <4> QED BY <4>3
    <3> QED BY <3>1, <3>2
  <2>4. Cuts(s)
    <3> SUFFICES ASSUME NEW k \in Len(p)..Len(s) - 1 PROVE Cut(SubSeq(s, 1, k), pts, planar)
      OBVIOUS
    <3>1. k \in Len(p)..Len(q) - 1 /\ k \in 0..Len(s) /\ k \in 0..Len(q)
      BY <2>1, <2>2
    <3>2. SubSeq(s, 1, k) = SubSeq(q, 1, k)
      <4>1. SubSeq(s, 1, k) = [i \in 1..k |-> s[i]] /\ SubSeq(q, 1, k) = [i \in 1..k |-> q[i]]
        BY <2>1, <3>1, PathIs
      <4>2. \A i \in 1..k : i \in 1..Len(s)
        BY <2>1, <3>1
      <4>3. \A i \in 1..Len(s) : s[i] = q[i]
        BY <1>5, <2>1, UnderIs
      <4> QED BY <4>1, <4>2, <4>3
    <3> QED BY <3>1, <3>2
  <2>5. s # q => Len(s) \in Len(p)..Len(q) - 1
    <3> SUFFICES ASSUME s # q PROVE Len(s) < Len(q)
      BY <2>1, <2>2
    <3>1. ~(Len(q) <= Len(s))
      BY <1>5, <2>1, SamePath
    <3> QED BY <2>1, <3>1
  <2>6. s # q => Cut(s, pts, planar)
    BY <2>2, <2>5
  <2> QED BY <1>5, <2>3, <2>4, <2>6
<1>6. InnerAbove(g)
  <2> SUFFICES ASSUME NEW s \in nodes, NEW q \in nodes, Under(s, q), s # q PROVE Inner(g[s])
    BY <1>2 DEF InnerAbove
  <2>1. Cut(s, pts, planar)
    BY <1>4, <1>5
  <2>2. Size(PointsUnder(pts, s)) > InitNum /\ planar[s] = FALSE
    BY <2>1 DEF Cut
  <2> QED BY <1>2, <2>2, FreshIsNode
<1> QED BY <1>2, <1>3, <1>4, <1>5, <1>6 DEF g

\* A point stops at the first node on its way that does not pass it on.
LEMMA TargetIs ==
  ASSUME NEW t, NEW e \in Ends
  PROVE  LET p == Target(t, e)
         IN /\ p \in Paths /\ Under(p, e) /\ ~Passed(t, p)
            /\ \A s \in Paths : Under(s, p) /\ s # p => Passed(t, s)
<1> DEFINE stops == {k \in 0..MaxLayer : ~Passed(t, SubSeq(e, 1, k))}
           takes(p) == /\ ~Passed(t, p)
                       /\ \A k \in 0..Len(p) - 1 : Passed(t, SubSeq(e, 1, k))
           p == Target(t, e)
<1>1. e \in Paths /\ Len(e) = MaxLayer /\ MaxLayer \in Nat
  BY EndIsPath, Layers DEF Ends
<1>2. \A k \in 0..MaxLayer : /\ SubSeq(e, 1, k) \in Paths /\ Len(SubSeq(e, 1, k)) = k
                             /\ Under(SubSeq(e, 1, k), e)
  BY <1>1, PrefixIs, PrefixUnder
<1>3. stops \in SUBSET Nat /\ MaxLayer \in stops
  <2>1. ~Passed(t, SubSeq(e, 1, MaxLayer))
    BY <1>1, <1>2 DEF Passed
  <2> QED BY <1>1, <2>1
<1>4. PICK k \in stops : \A j \in stops : k <= j
  <2>1. stops # {}
    BY <1>3
  <2> QED BY <1>3, <2>1, LeastOf
<1>5. takes(SubSeq(e, 1, k))
  <2>1. k \in 0..MaxLayer /\ k \in Nat /\ Len(SubSeq(e, 1, k)) = k
    BY <1>1, <1>2, <1>4
  <2>2. \A j \in 0..k - 1 : j \in 0..MaxLayer /\ j \notin stops
    BY <1>1, <1>4, <2>1
  <2> QED BY <1>4, <2>1, <2>2
<1>6. p \in {SubSeq(e, 1, j) : j \in 0..MaxLayer} /\ takes(p)
  BY <1>4, <1>5 DEF Target
<1>7. p \in Paths /\ Under(p, e)
  BY <1>2, <1>6
<1> HIDE DEF p
<1>8. ASSUME NEW s \in Paths, Under(s, p), s # p PROVE Passed(t, s)
  <2>1. Len(s) \in Nat /\ Len(p) \in Nat
    BY <1>7, PathIs
  <2>2. Len(s) < Len(p)
    <3>1. ~(Len(p) <= Len(s))
      BY <1>7, <1>8, SamePath
    <3> QED BY <2>1, <3>1
  <2>3. s = SubSeq(e, 1, Len(s))
    BY <1>1, <1>7, <1>8, UnderTransitive, UnderIsPrefix
  <2>4. Len(s) \in 0..Len(p) - 1
    BY <2>1, <2>2
  <2> QED BY <1>6, <2>3, <2>4
<1> QED BY <1>6, <1>7, <1>8 DEF p

LEMMA PassedIs ==
  ASSUME NEW t, NEW p, Passed(t, p)
  PROVE  p \in DOMAIN t /\ Inner(t[p])
BY DEF Passed, Inner

\* A point leaves a tree a tree, and its frozen nodes alone.
LEMMA AfterPointIs ==
  ASSUME NEW t, NEW e \in Ends, NEW planar \in [Paths -> BOOLEAN], IsTree(t)
  PROVE  LET u == AfterPoint(t, e, planar)
         IN /\ IsTree(u)
            /\ \A q \in DOMAIN t : ~t[q].enabled => q \in DOMAIN u /\ u[q] = t[q]
<1> DEFINE p == Target(t, e)
           n == IF p \in DOMAIN t THEN t[p] ELSE EmptyNode
           updated == [q \in {p} |-> Updated(n, e, planar[p])]
           g == Grown(p, WithPoint(n, e).pts, planar)
           u == AfterPoint(t, e, planar)
           grown == IF n.init THEN updated ELSE g
<1>1. /\ p \in Paths /\ ~Passed(t, p)
      /\ \A s \in Paths : Under(s, p) /\ s # p => Passed(t, s)
  BY TargetIs
<1>2. u = [q \in DOMAIN t \cup DOMAIN grown |-> IF q \in DOMAIN grown THEN grown[q] ELSE t[q]]
  BY DEF AfterPoint
<1> HIDE DEF p, u
<1>3. /\ DOMAIN t \subseteq Paths /\ \A q \in DOMAIN t : IsNode(t[q])
      /\ HasAncestors(t) /\ InnerAbove(t)
  BY DEF IsTree
<1>4. ASSUME NEW q \in DOMAIN t, Under(p, q), q # p PROVE FALSE
  <2>1. p \in DOMAIN t /\ Inner(t[p])
    BY <1>1, <1>3, <1>4 DEF HasAncestors, InnerAbove
  <2>2. Len(p) < MaxLayer
    <3>1. Len(p) \in Nat /\ Len(q) \in 0..MaxLayer /\ q \in Paths
      BY <1>1, <1>3, PathIs
    <3>2. ~(Len(q) <= Len(p))
      BY <1>1, <1>4, <3>1, SamePath
    <3> QED BY <3>1, <3>2, Layers
  <2> QED BY <1>1, <2>1, <2>2 DEF Passed, Inner
<1>5. CASE n.init
  <2>1. p \in DOMAIN t /\ n = t[p] /\ IsNode(n)
    BY <1>3, <1>5, EmptyIsNode
  <2>2. grown = [q \in {p} |-> Updated(n, e, planar[p])]
    BY <1>5
  <2>3. /\ DOMAIN u = DOMAIN t /\ u[p] = Updated(n, e, planar[p])
        /\ \A q \in DOMAIN t : q # p => u[q] = t[q]
    <3> HIDE DEF grown, n
    <3> QED BY <1>2, <2>1, <2>2
  <2>4. IsNode(u[p]) /\ (~n.enabled => u[p] = n)
    <3>1. planar[p] \in BOOLEAN
      BY <1>1
    <3> HIDE DEF n
    <3> QED BY <1>5, <2>1, <2>3, <3>1, UpdatedIsNode
  <2> HIDE DEF n, grown
  <2>5. HasAncestors(u)
    BY <1>3, <2>3 DEF HasAncestors
  <2>6. InnerAbove(u)
    <3> SUFFICES ASSUME NEW a \in DOMAIN t, NEW q \in DOMAIN t, Under(a, q), a # q
                 PROVE  Inner(u[a])
      BY <2>3 DEF InnerAbove
    <3>1. Inner(t[a])
      BY <1>3 DEF InnerAbove
    <3>2. a # p
      BY <1>4
    <3> QED BY <2>3, <3>1, <3>2
  <2>7. IsTree(u)
    BY <1>3, <2>3, <2>4, <2>5, <2>6 DEF IsTree
  <2> QED BY <2>1, <2>3, <2>4, <2>7 DEF u
<1>6. CASE ~n.init
  <2>1. grown = g
    BY <1>6
  <2>2. p \in DOMAIN t => t[p].enabled
    BY <1>3, <1>6 DEF IsNode
  <2> HIDE DEF grown, n
  <2>3. /\ DOMAIN g \subseteq Paths /\ p \in DOMAIN g
        /\ \A q \in DOMAIN g : Under(p, q) /\ IsNode(g[q])
        /\ \A s \in Paths, q \in DOMAIN g : Under(p, s) /\ Under(s, q) => s \in DOMAIN g
        /\ InnerAbove(g)
    BY <1>1, GrownIs
  <2> HIDE DEF g
  <2>4. /\ DOMAIN u = DOMAIN t \cup DOMAIN g
        /\ \A q \in DOMAIN g : u[q] = g[q]
        /\ \A q \in DOMAIN t : q \notin DOMAIN g => u[q] = t[q]
    BY <1>2, <2>1
  <2>5. \A q \in DOMAIN t : q \in DOMAIN g => q = p
    BY <1>4, <2>3
  <2>6. \A s \in Paths, q \in DOMAIN g : Under(s, q) /\ s \notin DOMAIN g => Passed(t, s)
    <3> SUFFICES ASSUME NEW s \in Paths, NEW q \in DOMAIN g, Under(s, q), s \notin DOMAIN g
                 PROVE  Passed(t, s)
      OBVIOUS
    <3>1. Len(p) \in Nat /\ Len(s) \in Nat /\ q \in Paths /\ Under(p, q)
      BY <1>1, <2>3, PathIs
    <3>2. ~Under(p, s)
      BY <2>3
    <3>3. Len(s) <= Len(p)
      <4>1. ~(Len(p) <= Len(s))
        BY <1>1, <3>1, <3>2, UnderLinear
      <4> QED BY <3>1, <4>1
    <3>4. Under(s, p)
      BY <1>1, <3>1, <3>3, UnderLinear
    <3> QED BY <1>1, <2>3, <3>4
  <2>7. HasAncestors(u)
    <3> SUFFICES ASSUME NEW s \in Paths, NEW q \in DOMAIN u, Under(s, q) PROVE s \in DOMAIN u
      BY DEF HasAncestors
    <3>1. CASE q \in DOMAIN t
      BY <1>3, <2>4, <3>1 DEF HasAncestors
    <3>2. CASE q \in DOMAIN g
      BY <2>4, <2>6, <3>2, PassedIs
    <3> QED BY <2>4, <3>1, <3>2
  <2>8. InnerAbove(u)
    <3> SUFFICES ASSUME NEW a \in DOMAIN u, NEW q \in DOMAIN u, Under(a, q), a # q
                 PROVE  Inner(u[a])
      BY DEF InnerAbove
    <3>0. a \in Paths /\ q \in Paths
      BY <1>3, <2>3, <2>4
    <3>1. CASE a \in DOMAIN g
      <4>1. Under(p, q)
        BY <1>1, <2>3, <3>0, <3>1, UnderTransitive
      <4>2. q \in DOMAIN g
        BY <1>4, <2>3, <2>4, <4>1
      <4>3. Inner(g[a])
        BY <2>3, <3>1, <4>2 DEF InnerAbove
      <4> QED BY <2>4, <3>1, <4>3
    <3>2. CASE a \notin DOMAIN g
      <4>1. a \in DOMAIN t /\ u[a] = t[a]
        BY <2>4, <3>2
      <4>2. CASE q \in DOMAIN t
        BY <1>3, <4>1, <4>2 DEF InnerAbove
      <4>3. CASE q \in DOMAIN g
        BY <2>6, <3>0, <3>2, <4>1, <4>3, PassedIs
      <4> QED BY <2>4, <4>2, <4>3
    <3> QED BY <3>1, <3>2
  <2>9. IsTree(u)
    <3>1. DOMAIN u \subseteq Paths
      BY <1>3, <2>3, <2>4
    <3>2. \A q \in DOMAIN u : IsNode(u[q])
      BY <1>3, <2>3, <2>4
    <3> QED BY <2>7, <2>8, <3>1, <3>2 DEF IsTree
  <2>10. \A q \in DOMAIN t : ~t[q].enabled => q \in DOMAIN u /\ u[q] = t[q]
    BY <2>2, <2>4, <2>5
  <2> QED BY <2>9, <2>10 DEF u
<1> QED BY <1>5, <1>6

(***************************************************************************)
(* The map.                                                                *)
(***************************************************************************)
MapInv ==
  /\ DOMAIN tree \subseteq Roots
  /\ ~built => DOMAIN tree = {}
  /\ \A r \in DOMAIN tree : IsTree(tree[r])

LEMMA RootIsPath ==
  /\ <<>> \in Paths
  /\ \A q \in Paths : Under(<<>>, q)
<1>1. <<>> \in [1..0 -> Children] /\ 0 \in 0..MaxLayer /\ Len(<<>>) = 0
  BY Layers
<1>2. <<>> \in Paths
  BY <1>1 DEF Paths
<1> QED BY <1>1, <1>2, PathIs, UnderIs

LEMMA FirstTreeIs ==
  ASSUME NEW pts, NEW planar \in [Paths -> BOOLEAN]
  PROVE  IsTree(Grown(<<>>, pts, planar))
BY RootIsPath, GrownIs DEF IsTree, HasAncestors

LEMMA TreeOfIs ==
  ASSUME NEW r \in Roots, MapInv
  PROVE  IsTree(TreeOf(r))
<1>1. IsTree(NoTree)
  BY DEF NoTree, IsTree, HasAncestors, InnerAbove
<1> QED BY <1>1 DEF TreeOf, MapInv

LEMMA MapInit == Init => MapInv
BY DEF Init, MapInv

\* An update of the map, and what it leaves alone.
LEMMA UpdateIs ==
  ASSUME MapInv, UpdateVoxelMap
  PROVE  /\ MapInv'
         /\ \A r \in DOMAIN tree : r \in DOMAIN tree' /\
              \A q \in DOMAIN tree[r] :
                ~tree[r][q].enabled => q \in DOMAIN tree'[r] /\ tree'[r][q] = tree[r][q]
<1>1. PICK r \in Roots, e \in Ends, planar \in [Paths -> BOOLEAN] :
        tree' = [x \in DOMAIN tree \cup {r} |->
                   IF x = r THEN AfterPoint(TreeOf(r), e, planar) ELSE tree[x]]
  BY DEF UpdateVoxelMap
<1> DEFINE t == TreeOf(r)
           u == AfterPoint(t, e, planar)
<1>2. IsTree(t) /\ (r \in DOMAIN tree => t = tree[r])
  BY TreeOfIs DEF TreeOf
<1> HIDE DEF t
<1>3. /\ IsTree(u)
      /\ \A q \in DOMAIN t : ~t[q].enabled => q \in DOMAIN u /\ u[q] = t[q]
  BY <1>2, AfterPointIs
<1>4. tree' = [x \in DOMAIN tree \cup {r} |-> IF x = r THEN u ELSE tree[x]]
  BY <1>1 DEF t
<1> HIDE DEF u
<1>5. /\ DOMAIN tree' = DOMAIN tree \cup {r} /\ tree'[r] = u
      /\ \A x \in DOMAIN tree : x # r => tree'[x] = tree[x]
  BY <1>4
<1>6. built /\ built' = built
  BY DEF UpdateVoxelMap
<1> QED BY <1>2, <1>3, <1>5, <1>6 DEF MapInv

\* The steps that free voxels or none.
LEMMA MoveIs ==
  ASSUME MapInv, Move \/ UNCHANGED vars
  PROVE  /\ MapInv' /\ DOMAIN tree' \subseteq DOMAIN tree
         /\ \A r \in DOMAIN tree : r \in DOMAIN tree' => tree'[r] = tree[r]
<1>1. /\ DOMAIN tree' \subseteq DOMAIN tree /\ built' = built
      /\ \A r \in DOMAIN tree' : tree'[r] = tree[r]
  <2>1. CASE UNCHANGED tree /\ UNCHANGED built
    BY <2>1
  <2>2. ASSUME NEW S \in SUBSET DOMAIN tree, tree' = Restrict(tree, S), UNCHANGED built
        PROVE  <1>1!:
    BY <2>2 DEF Restrict
  <2>3. CASE Move
    <3>1. PICK x : IF Distance(x, slidAt) < SlideAt
                     THEN UNCHANGED <<tree, slidAt>>
                     ELSE /\ slidAt' = x
                          /\ tree' = Restrict(tree, {r \in DOMAIN tree : Distance(r, x) <= HalfMap})
      BY <2>3 DEF Move
    <3>2. UNCHANGED built
      BY <2>3 DEF Move
    <3>3. UNCHANGED tree \/ \E S \in SUBSET DOMAIN tree : tree' = Restrict(tree, S)
      BY <3>1
    <3> QED BY <2>1, <2>2, <3>2, <3>3
  <2> QED BY <2>1, <2>3 DEF vars
<1> QED BY <1>1 DEF MapInv

LEMMA BuildIs ==
  ASSUME MapInv, BuildVoxelMap
  PROVE  MapInv'
<1>1. PICK r \in Roots, pts \in [Ends -> 0..MaxScan], planar \in [Paths -> BOOLEAN] :
        tree' = [x \in {r} |-> Grown(<<>>, pts, planar)]
  BY DEF BuildVoxelMap
<1> DEFINE g == Grown(<<>>, pts, planar)
<1>2. IsTree(g)
  BY FirstTreeIs
<1> HIDE DEF g
<1>3. DOMAIN tree' = {r} /\ tree'[r] = g
  BY <1>1 DEF g
<1>4. built'
  BY DEF BuildVoxelMap
<1> QED BY <1>2, <1>3, <1>4 DEF MapInv

LEMMA MapStep == MapInv /\ [Next]_vars => MapInv'
BY BuildIs, UpdateIs, MoveIs DEF Next

LEMMA MapInvariant == Spec => []MapInv
BY MapInit, MapStep, PTL DEF Spec

LEMMA NodesAre ==
  ASSUME MapInv
  PROVE  \A x \in AllNodes : /\ x[1] \in DOMAIN tree /\ x[2] \in DOMAIN tree[x[1]]
                             /\ x \in Roots \X Paths
BY DEF AllNodes

(***************************************************************************)
(* The theorems.                                                           *)
(***************************************************************************)
\* A node whose plane is matched never has nodes below it, whichever points
\* come, whatever init_plane makes of them, and wherever mapSliding cuts.
THEOREM PlanesStayLeaves == Spec => []PlanesAreLeaves
<1>1. MapInv => PlanesAreLeaves
  <2> SUFFICES ASSUME MapInv, NEW x \in AllNodes, tree[x[1]][x[2]].plane,
                      NEW q \in DOMAIN tree[x[1]], Under(x[2], q), q # x[2]
               PROVE  FALSE
    BY DEF PlanesAreLeaves
  <2>1. x[1] \in DOMAIN tree /\ x[2] \in DOMAIN tree[x[1]]
    BY NodesAre
  <2>2. Inner(tree[x[1]][x[2]])
    BY <2>1 DEF MapInv, IsTree, InnerAbove
  <2> QED BY <2>2 DEF Inner
<1> QED BY <1>1, MapInvariant, PTL

\* A frozen plane stays as it is until its voxel slides out of the map: no
\* later point, and no other node's refit, reaches it.
THEOREM FrozenStays == Spec => FrozenKept
<1>1. MapInv /\ [Next]_vars => [\A x \in AllNodes :
         ~tree[x[1]][x[2]].enabled /\ tree[x[1]][x[2]].plane =>
           \/ x \in AllNodes' /\ tree'[x[1]][x[2]] = tree[x[1]][x[2]]
           \/ x[1] \notin DOMAIN tree']_vars
  <2> SUFFICES ASSUME MapInv, [Next]_vars, NEW x \in AllNodes, ~tree[x[1]][x[2]].enabled,
                      x[1] \in DOMAIN tree'
               PROVE  x \in AllNodes' /\ tree'[x[1]][x[2]] = tree[x[1]][x[2]]
    OBVIOUS
  <2>1. x[1] \in DOMAIN tree /\ x[2] \in DOMAIN tree[x[1]] /\ x \in Roots \X Paths
    BY NodesAre
  <2>2. x[2] \in DOMAIN tree'[x[1]] /\ tree'[x[1]][x[2]] = tree[x[1]][x[2]]
    <3>1. CASE BuildVoxelMap
      BY <2>1, <3>1 DEF BuildVoxelMap, MapInv
    <3>2. CASE UpdateVoxelMap
      BY <2>1, <3>2, UpdateIs
    <3>3. CASE Move \/ UNCHANGED vars
      BY <2>1, <3>3, MoveIs
    <3> QED BY <3>1, <3>2, <3>3 DEF Next
  <2> QED BY <2>1, <2>2 DEF AllNodes
<1> QED BY <1>1, MapInvariant, PTL DEF Spec, FrozenKept

(***************************************************************************)
(* How many points the nodes hold.                                         *)
(***************************************************************************)
Points == [Ends -> Nat]

LEMMA EndsFinite == IsFiniteSet(Ends) /\ Cardinality(Ends) \in Nat
<1>1. IsFiniteSet(1..MaxLayer)
  BY Layers, FS_Interval
<1> QED BY <1>1, VoxelAssumption, FiniteFunctions, FS_CardinalityType DEF Ends

LEMMA SizeIs ==
  ASSUME NEW pts \in Points
  PROVE  Size(pts) \in Nat
<1> DEFINE none == [e \in Ends |-> 0]
<1>1. pts \in [Ends -> Int] /\ none \in [Ends -> Int]
  BY DEF Points
<1>2. SumFunction(pts) \in Int
  BY <1>1, EndsFinite, SumOfIntegers
<1>3. SumFunction(none) = 0
  BY <1>1, EndsFinite, SumOfNone
<1>4. \A e \in Ends : none[e] <= pts[e]
  BY DEF Points
<1>5. SumFunction(none) <= SumFunction(pts)
  BY <1>1, <1>4, EndsFinite, SumMonotone
<1> QED BY <1>2, <1>3, <1>5 DEF Size

LEMMA SizeOfNone == NoPoints \in Points /\ Size(NoPoints) = 0
<1>1. NoPoints \in [Ends -> Int] /\ \A e \in Ends : NoPoints[e] = 0
  BY DEF NoPoints
<1>2. SumFunction(NoPoints) = 0
  BY <1>1, EndsFinite, SumOfNone
<1> QED BY <1>1, <1>2 DEF Size, Points

LEMMA SizeOfOneMore ==
  ASSUME NEW pts \in Points, NEW e \in Ends
  PROVE  /\ [pts EXCEPT ![e] = @ + 1] \in Points
         /\ Size([pts EXCEPT ![e] = @ + 1]) = Size(pts) + 1
<1> DEFINE one == [x \in Ends |-> IF x = e THEN 1 ELSE 0]
           more == [x \in Ends |-> pts[x] + one[x]]
<1>1. one \in [Ends -> Int] /\ pts \in [Ends -> Int]
  BY DEF Points
<1> DEFINE next == [pts EXCEPT ![e] = @ + 1]
<1>2. next = more /\ more \in Points
  <2>1. /\ next \in [Ends -> Nat] /\ more \in [Ends -> Nat]
        /\ \A x \in Ends : next[x] = more[x]
    BY DEF Points
  <2> HIDE DEF next, more
  <2> QED BY <2>1 DEF Points
<1>3. SumFunction(one) = 1
  BY EndsFinite, SumOfOne
<1> HIDE DEF one
<1>4. SumFunction(more) = SumFunction(pts) + SumFunction(one)
  BY <1>1, EndsFinite, SumAdds
<1> QED BY <1>2, <1>3, <1>4 DEF Size

LEMMA SizeMonotone ==
  ASSUME NEW pts \in Points, NEW more \in Points, \A e \in Ends : pts[e] <= more[e]
  PROVE  Size(pts) <= Size(more)
<1>1. pts \in [Ends -> Int] /\ more \in [Ends -> Int]
  BY DEF Points
<1> QED BY <1>1, EndsFinite, SumMonotone DEF Size

LEMMA SizeUnder ==
  ASSUME NEW pts \in Points, NEW p
  PROVE  /\ PointsUnder(pts, p) \in Points
         /\ \A e \in Ends : PointsUnder(pts, p)[e] # 0 => Under(p, e)
         /\ Size(PointsUnder(pts, p)) <= Size(pts)
<1>1. /\ PointsUnder(pts, p) \in Points
      /\ \A e \in Ends : /\ PointsUnder(pts, p)[e] <= pts[e]
                         /\ PointsUnder(pts, p)[e] # 0 => Under(p, e)
  BY DEF PointsUnder, Points
<1> QED BY <1>1, SizeMonotone

\* A node's own points are all under it.
LEMMA AllUnder ==
  ASSUME NEW pts \in Points, NEW p, \A e \in Ends : pts[e] # 0 => Under(p, e)
  PROVE  PointsUnder(pts, p) = pts
BY DEF PointsUnder, Points

\* The most points with which a node may be left.
Bounded(size) == size <= MaxPoints \/ size <= MaxScan * Cardinality(Ends)

LEMMA SizeOfScan ==
  ASSUME NEW pts \in [Ends -> 0..MaxScan]
  PROVE  pts \in Points /\ Size(pts) <= MaxScan * Cardinality(Ends)
<1> DEFINE most == [e \in Ends |-> MaxScan]
<1>1. pts \in Points /\ most \in Points /\ \A e \in Ends : pts[e] <= most[e]
  BY VoxelAssumption DEF Points
<1>2. Size(pts) <= Size(most)
  BY <1>1, SizeMonotone
<1>3. SumFunction(most) = MaxScan * Cardinality(Ends)
  <2>1. MaxScan \in Int
    BY VoxelAssumption
  <2> QED BY <2>1, EndsFinite, SumOfEqual
<1> HIDE DEF most
<1> QED BY <1>1, <1>2, <1>3 DEF Size

\* The numbers a node keeps: it has all the points it took, or none once it
\* is frozen; it is initialised in time; and its plane is fitted to all but
\* at most UpdateSize of them.
Counts(p, n) ==
  /\ n \in Node
  /\ \A e \in Ends : n.pts[e] # 0 => Under(p, e)
  /\ Bounded(Size(n.pts))
  /\ n.enabled => Size(n.pts) = n.total
  /\ ~n.enabled => n.pts = NoPoints
  /\ ~n.init => n.enabled /\ ~n.plane /\ n.total <= InitNum
  /\ n.init => n.total - n.fitted <= UpdateSize
  /\ n.init /\ n.enabled => n.total = n.fitted + n.new /\ n.new <= UpdateSize

LEMMA Thresholds ==
  /\ InitNum \in Nat /\ UpdateSize \in Nat /\ MaxPoints \in Nat /\ MaxScan \in Nat
  /\ MaxPoints > InitNum /\ Bounded(0)
BY VoxelAssumption DEF Bounded

LEMMA FrozenCounts ==
  ASSUME NEW p, NEW n \in Node, n.init, n.total - n.fitted <= UpdateSize
  PROVE  /\ Counts(p, Frozen(n)) /\ Frozen(n).total = n.total
         /\ Frozen(n).plane = n.plane /\ Frozen(n).flipped = n.flipped /\ Frozen(n).init
<1> DEFINE f == Frozen(n)
<1>1. /\ f \in Node /\ f.pts = NoPoints /\ f.new = 0 /\ f.enabled = FALSE
      /\ f.total = n.total /\ f.fitted = n.fitted
      /\ f.plane = n.plane /\ f.flipped = n.flipped /\ f.init = n.init
  BY SizeOfNone DEF Frozen, Node, Points
<1> HIDE DEF f
<1>2. \A e \in Ends : f.pts[e] = 0
  BY <1>1 DEF NoPoints
<1>3. Bounded(Size(f.pts))
  BY <1>1, SizeOfNone, Thresholds
<1> QED BY <1>1, <1>2, <1>3 DEF Counts, f

LEMMA FreshCounts ==
  ASSUME NEW p, NEW pts \in Points, NEW isPlane \in BOOLEAN,
         \A e \in Ends : pts[e] # 0 => Under(p, e), Bounded(Size(pts))
  PROVE  /\ Counts(p, FreshNode(pts, isPlane)) /\ FreshNode(pts, isPlane).total = Size(pts)
         /\ Inner(FreshNode(pts, isPlane)) =>
              Size(pts) > InitNum /\ ~isPlane /\ FreshNode(pts, isPlane).pts = pts
<1> DEFINE n == [EmptyNode EXCEPT !.pts = pts, !.total = Size(pts), !.fitted = Size(pts),
                                  !.init = TRUE, !.plane = isPlane]
           m == [EmptyNode EXCEPT !.pts = pts, !.total = Size(pts), !.new = Size(pts)]
<1>0. Size(pts) \in Nat
  BY SizeIs
<1>1. /\ n \in Node /\ n.pts = pts /\ n.total = Size(pts) /\ n.fitted = Size(pts)
      /\ n.new = 0 /\ n.init = TRUE /\ n.plane = isPlane /\ n.enabled = TRUE
  BY <1>0 DEF EmptyNode, Node, Points
<1>2. /\ m \in Node /\ m.pts = pts /\ m.total = Size(pts)
      /\ m.new = Size(pts) /\ m.init = FALSE /\ m.plane = FALSE /\ m.enabled = TRUE
  BY <1>0 DEF EmptyNode, Node, Points
<1>3. FreshNode(pts, isPlane) =
        IF Size(pts) > InitNum
          THEN IF isPlane /\ Size(pts) > MaxPoints THEN Frozen(n) ELSE n
          ELSE m
  BY DEF FreshNode, Fitted
<1> HIDE DEF n, m
<1>4. CASE Size(pts) > InitNum /\ isPlane /\ Size(pts) > MaxPoints
  <2>1. n.init /\ n.total - n.fitted <= UpdateSize
    BY <1>0, <1>1, Thresholds
  <2>2. /\ Counts(p, Frozen(n)) /\ Frozen(n).total = n.total /\ Frozen(n).plane = n.plane
    BY <1>1, <2>1, FrozenCounts
  <2> QED BY <1>1, <1>3, <1>4, <2>2 DEF Inner
<1>5. CASE Size(pts) > InitNum /\ ~(isPlane /\ Size(pts) > MaxPoints)
  <2>1. Counts(p, n)
    BY <1>0, <1>1, Thresholds DEF Counts
  <2> QED BY <1>1, <1>3, <1>5, <2>1 DEF Inner
<1>6. CASE ~(Size(pts) > InitNum)
  <2>1. Counts(p, m)
    BY <1>0, <1>2, <1>6, Thresholds DEF Counts
  <2> QED BY <1>2, <1>3, <1>6, <2>1 DEF Inner
<1> QED BY <1>4, <1>5, <1>6

\* w is the node n at p with one more point.
TookPoint(p, n, w) ==
  /\ w \in Node /\ (\A x \in Ends : w.pts[x] # 0 => Under(p, x))
  /\ Size(w.pts) = w.total /\ w.total = n.total + 1 /\ w.new = n.new + 1
  /\ w.init = n.init /\ w.plane = n.plane /\ w.enabled = TRUE
  /\ w.fitted = n.fitted /\ w.flipped = n.flipped

LEMMA WithPointCounts ==
  ASSUME NEW p, NEW n, Counts(p, n), NEW e \in Ends, Under(p, e), n.enabled
  PROVE  TookPoint(p, n, WithPoint(n, e))
<1> DEFINE w == WithPoint(n, e)
           more == [n.pts EXCEPT ![e] = @ + 1]
<1>1. n \in Node /\ n.pts \in Points /\ Size(n.pts) = n.total /\ n.total \in Nat
  BY DEF Counts, Node, Points
<1>2. more \in Points /\ Size(more) = Size(n.pts) + 1
  BY <1>1, SizeOfOneMore
<1>3. \A x \in Ends : more[x] # 0 => Under(p, x)
  BY <1>1 DEF Counts, Points
<1> HIDE DEF more
<1>4. w = [n EXCEPT !.pts = more, !.new = @ + 1, !.total = @ + 1]
  BY DEF WithPoint, more
<1> HIDE DEF w
<1>5. /\ w \in Node /\ w.pts = more /\ w.total = n.total + 1 /\ w.new = n.new + 1
      /\ w.init = n.init /\ w.plane = n.plane /\ w.enabled = n.enabled
      /\ w.fitted = n.fitted /\ w.flipped = n.flipped
  <2>1. /\ w.pts = more /\ w.total = n.total + 1 /\ w.new = n.new + 1
        /\ w.init = n.init /\ w.plane = n.plane /\ w.enabled = n.enabled
        /\ w.fitted = n.fitted /\ w.flipped = n.flipped
    BY <1>1, <1>4 DEF Node
  <2>2. n.total + 1 \in Nat /\ n.new + 1 \in Nat
    BY <1>1 DEF Node
  <2>3. w \in Node
    <3> DEFINE total == n.total + 1  new == n.new + 1
    <3>1. w = [n EXCEPT !.pts = more, !.new = new, !.total = total]
      BY <1>4
    <3>2. total \in Nat /\ new \in Nat
      BY <2>2
    <3> HIDE DEF total, new
    <3> QED BY <1>1, <1>2, <3>1, <3>2 DEF Node, Points
  <2> QED BY <2>1, <2>3
<1>6. n.enabled = TRUE
  BY <1>1 DEF Node
<1> QED BY <1>1, <1>2, <1>3, <1>5, <1>6 DEF TookPoint, w

\* An update keeps the numbers, and never makes an inner node of a plane
\* without marking it.
LEMMA UpdatedCounts ==
  ASSUME NEW p, NEW n, Counts(p, n), NEW e \in Ends, Under(p, e), n.init,
         NEW isPlane \in BOOLEAN
  PROVE  LET u == Updated(n, e, isPlane)
         IN /\ Counts(p, u) /\ n.total <= u.total
            /\ n.plane => u.plane \/ u.flipped
<1> DEFINE w == WithPoint(n, e)
           m == Refit(w, isPlane)
           u == Updated(n, e, isPlane)
<1>0. n \in Node /\ n.total \in Nat
  BY DEF Counts, Node
<1>1. CASE ~n.enabled
  BY <1>0, <1>1 DEF Updated
<1>2. CASE n.enabled
  <2>1. /\ w \in Node /\ (\A x \in Ends : w.pts[x] # 0 => Under(p, x))
        /\ Size(w.pts) = w.total /\ w.total = n.total + 1 /\ w.new = n.new + 1
        /\ w.init = n.init /\ w.plane = n.plane /\ w.enabled = TRUE
        /\ w.fitted = n.fitted /\ w.flipped = n.flipped
    BY <1>2, WithPointCounts DEF TookPoint
  <2> HIDE DEF w
  <2>2. n.total = n.fitted + n.new /\ n.new <= UpdateSize /\ n.fitted \in Nat /\ n.new \in Nat
    BY <1>0, <1>2 DEF Counts, Node
  <2>3. /\ m \in Node /\ m.pts = w.pts /\ m.total = w.total /\ m.enabled = TRUE
        /\ m.init = w.init /\ (w.plane => m.plane \/ m.flipped)
        /\ m.total = m.fitted + m.new /\ m.new <= UpdateSize
    <3>1. CASE w.new > UpdateSize
      <4>1. m = [w EXCEPT !.fitted = Size(w.pts), !.plane = isPlane, !.new = 0,
                          !.flipped = @ \/ (w.plane /\ ~isPlane)]
        BY <3>1 DEF Refit
      <4> DEFINE lost == w.flipped \/ (w.plane /\ ~isPlane)
      <4>2. lost \in BOOLEAN /\ w.total \in Nat /\ (w.plane => isPlane \/ lost)
        BY <2>1 DEF Node
      <4> HIDE DEF lost
      <4>3. /\ m \in Node /\ m.pts = w.pts /\ m.total = w.total /\ m.enabled = TRUE
            /\ m.init = w.init /\ m.fitted = w.total /\ m.new = 0
            /\ m.plane = isPlane /\ m.flipped = lost
        <5>1. m = [w EXCEPT !.fitted = w.total, !.plane = isPlane, !.new = 0, !.flipped = lost]
          BY <2>1, <4>1 DEF lost
        <5> HIDE DEF m
        <5> QED BY <2>1, <4>2, <5>1 DEF Node
      <4> HIDE DEF m
      <4>4. m.total = m.fitted + m.new /\ m.new <= UpdateSize
        BY <4>2, <4>3, Thresholds
      <4> QED BY <4>2, <4>3, <4>4
    <3>2. CASE ~(w.new > UpdateSize)
      <4>1. m = w
        BY <3>2 DEF Refit
      <4>2. w.new <= UpdateSize /\ w.total = w.fitted + w.new
        BY <2>1, <2>2, <3>2, Thresholds
      <4> QED BY <2>1, <4>1, <4>2
    <3> QED BY <3>1, <3>2
  <2> DEFINE full == IF n.plane THEN Size(m.pts) >= MaxPoints ELSE Size(m.pts) > MaxPoints
  <2>4. u = IF full THEN Frozen(m) ELSE m
    BY <1>2 DEF Updated, w
  <2> HIDE DEF m
  <2>5. m.total \in Nat /\ m.fitted \in Nat /\ m.new \in Nat /\ Size(m.pts) = m.total
    BY <2>1, <2>3 DEF Node
  <2>6. m.total - m.fitted <= UpdateSize /\ n.total <= m.total /\ m.init
    BY <1>0, <2>1, <2>3, <2>5, Thresholds
  <2>7. CASE full
    BY <2>1, <2>3, <2>4, <2>6, <2>7, FrozenCounts
  <2>8. CASE ~full
    <3>1. Bounded(Size(m.pts))
      BY <2>5, <2>8, Thresholds DEF Bounded
    <3>2. Counts(p, m)
      BY <2>1, <2>3, <2>5, <2>6, <3>1 DEF Counts
    <3> QED BY <2>1, <2>3, <2>4, <2>6, <2>8, <3>2
  <2> QED BY <2>7, <2>8
<1> QED BY <1>1, <1>2

(***************************************************************************)
(* How the points of one octree are spread.                                *)
(***************************************************************************)
CountedTree(t) == \A p \in DOMAIN t : Counts(p, t[p])

\* A node that was cut: each of its points is under a child, and each child
\* has taken at least the points it was handed.
HandsOn(p, n) == Inner(n) /\ ~n.flipped /\ Len(p) < MaxLayer
InChildren(t, p) ==
  /\ \A e \in Ends : t[p].pts[e] # 0 => SubSeq(e, 1, Len(p) + 1) \in DOMAIN t
  /\ \A q \in DOMAIN t : Len(q) = Len(p) + 1 /\ Under(p, q) =>
       Size(PointsUnder(t[p].pts, q)) <= t[q].total
HandsDown(t) == \A p \in DOMAIN t : HandsOn(p, t[p]) => InChildren(t, p)

\* The child of p on the way to e.
LEMMA ChildIs ==
  ASSUME NEW p \in Paths, NEW e \in Ends, Under(p, e), Len(p) < MaxLayer
  PROVE  LET c == SubSeq(e, 1, Len(p) + 1)
         IN /\ c \in Paths /\ Len(c) = Len(p) + 1 /\ Under(p, c) /\ Under(c, e)
            /\ \A k \in 0..Len(p) : SubSeq(c, 1, k) = SubSeq(p, 1, k)
            /\ SubSeq(p, 1, Len(p)) = p
<1> DEFINE c == SubSeq(e, 1, Len(p) + 1)
<1>1. e \in Paths /\ Len(e) = MaxLayer /\ Len(p) \in Nat /\ MaxLayer \in Nat
  BY EndIsPath, Layers, PathIs DEF Ends
<1>2. Len(p) + 1 \in 0..Len(e)
  BY <1>1
<1>3. c \in Paths /\ Len(c) = Len(p) + 1 /\ Under(c, e)
  BY <1>1, <1>2, PrefixIs, PrefixUnder
<1> HIDE DEF c
<1>4. Len(p) <= Len(c)
  BY <1>1, <1>3
<1>5. Under(p, c)
  BY <1>1, <1>3, <1>4, UnderLinear
<1>6. \A k \in 0..Len(p) : SubSeq(c, 1, k) = SubSeq(p, 1, k)
  <2> SUFFICES ASSUME NEW k \in 0..Len(p) PROVE SubSeq(c, 1, k) = SubSeq(p, 1, k)
    OBVIOUS
  <2>1. SubSeq(c, 1, k) = [i \in 1..k |-> c[i]] /\ SubSeq(p, 1, k) = [i \in 1..k |-> p[i]]
    BY <1>1, <1>3, PathIs
  <2>2. \A i \in 1..k : i \in 1..Len(p)
    BY <1>1
  <2>3. \A i \in 1..Len(p) : p[i] = c[i]
    BY <1>3, <1>5, UnderIs
  <2> QED BY <2>1, <2>2, <2>3
<1>7. SubSeq(p, 1, Len(p)) = p
  <2>1. Under(p, p)
    BY <1>1, UnderIs
  <2> QED BY <2>1, UnderIsPrefix
<1> QED BY <1>3, <1>5, <1>6, <1>7 DEF c

LEMMA GrownCounts ==
  ASSUME NEW p \in Paths, NEW pts \in Points, NEW planar \in [Paths -> BOOLEAN],
         \A e \in Ends : pts[e] # 0 => Under(p, e), Bounded(Size(pts))
  PROVE  LET g == Grown(p, pts, planar)
         IN CountedTree(g) /\ HandsDown(g) /\ g[p].total = Size(pts)
<1> DEFINE Cuts(q) == \A k \in Len(p)..Len(q) - 1 : Cut(SubSeq(q, 1, k), pts, planar)
           nodes == {q \in Paths : Under(p, q) /\ (q = p \/ PointsUnder(pts, q) # NoPoints) /\ Cuts(q)}
           g == Grown(p, pts, planar)
<1>1. g = [q \in nodes |-> FreshNode(PointsUnder(pts, q), planar[q])]
  BY DEF Grown
<1>2. DOMAIN g = nodes /\ \A q \in nodes : g[q] = FreshNode(PointsUnder(pts, q), planar[q])
  BY <1>1
<1>3. p \in nodes
  BY <1>2, GrownIs
<1> HIDE DEF g
<1>4. ASSUME NEW q \in nodes
      PROVE  /\ Counts(q, g[q]) /\ g[q].total = Size(PointsUnder(pts, q))
             /\ Inner(g[q]) => /\ Size(PointsUnder(pts, q)) > InitNum /\ ~planar[q]
                               /\ g[q].pts = PointsUnder(pts, q)
  <2>1. /\ PointsUnder(pts, q) \in Points /\ Size(PointsUnder(pts, q)) <= Size(pts)
        /\ \A e \in Ends : PointsUnder(pts, q)[e] # 0 => Under(q, e)
    BY SizeUnder
  <2>2. Size(PointsUnder(pts, q)) \in Nat /\ Size(pts) \in Nat
    BY <2>1, SizeIs
  <2>3. Bounded(Size(PointsUnder(pts, q)))
    <3>1. /\ MaxPoints \in Int /\ MaxScan * Cardinality(Ends) \in Int
      BY Thresholds, EndsFinite
    <3> QED BY <2>1, <2>2, <3>1 DEF Bounded
  <2> DEFINE own == PointsUnder(pts, q)
             fits == planar[q]
  <2>4. fits \in BOOLEAN /\ g[q] = FreshNode(own, fits)
    BY <1>2
  <2> HIDE DEF own, fits
  <2>5. /\ own \in Points /\ Bounded(Size(own))
        /\ \A e \in Ends : own[e] # 0 => Under(q, e)
    BY <2>1, <2>3 DEF own
  <2>6. /\ Counts(q, FreshNode(own, fits)) /\ FreshNode(own, fits).total = Size(own)
        /\ Inner(FreshNode(own, fits)) =>
             Size(own) > InitNum /\ ~fits /\ FreshNode(own, fits).pts = own
    BY <2>4, <2>5, FreshCounts
  <2>7. /\ Counts(q, g[q]) /\ g[q].total = Size(own)
        /\ Inner(g[q]) => Size(own) > InitNum /\ ~fits /\ g[q].pts = own
    BY <2>4, <2>6
  <2> QED BY <2>7 DEF own, fits
<1>5. g[p].total = Size(pts)
  BY <1>3, <1>4, AllUnder
<1>6. ASSUME NEW q \in nodes, HandsOn(q, g[q])
      PROVE  InChildren(g, q)
  <2>1. /\ Cut(q, pts, planar) /\ g[q].pts = PointsUnder(pts, q)
        /\ q \in Paths /\ Under(p, q) /\ Cuts(q) /\ Len(q) \in Nat /\ Len(p) \in Nat
    BY <1>4, <1>6, PathIs DEF HandsOn, Cut
  <2>2. ASSUME NEW e \in Ends, PointsUnder(pts, q)[e] # 0
        PROVE  SubSeq(e, 1, Len(q) + 1) \in nodes
    <3> DEFINE c == SubSeq(e, 1, Len(q) + 1)
    <3>1. Under(q, e) /\ pts[e] # 0
      BY <2>2 DEF PointsUnder
    <3>2. /\ c \in Paths /\ Len(c) = Len(q) + 1 /\ Under(q, c) /\ Under(c, e)
          /\ \A k \in 0..Len(q) : SubSeq(c, 1, k) = SubSeq(q, 1, k)
          /\ SubSeq(q, 1, Len(q)) = q
      BY <1>6, <2>1, <3>1, ChildIs DEF HandsOn
    <3> HIDE DEF c
    <3>3. PointsUnder(pts, c) # NoPoints
      <4>1. PointsUnder(pts, c)[e] # NoPoints[e]
        BY <3>1, <3>2 DEF PointsUnder, NoPoints
      <4> QED BY <4>1
    <3>4. Under(p, c)
      BY <2>1, <3>2, UnderTransitive
    <3>5. Cuts(c)
      <4> SUFFICES ASSUME NEW k \in Len(p)..Len(c) - 1 PROVE Cut(SubSeq(c, 1, k), pts, planar)
        OBVIOUS
      <4>1. k \in 0..Len(q) /\ (k = Len(q) \/ k \in Len(p)..Len(q) - 1)
        <5>1. Len(c) - 1 = Len(q)
          BY <2>1, <3>2
        <5>2. \A m, l \in Nat : \A i \in l..m : i \in 0..m /\ (i = m \/ i \in l..m - 1)
          OBVIOUS
        <5> QED BY <2>1, <5>1, <5>2
      <4> QED BY <2>1, <3>2, <4>1
    <3> QED BY <3>2, <3>3, <3>4, <3>5 DEF c
  <2>3. ASSUME NEW c \in nodes, Under(q, c)
        PROVE  Size(PointsUnder(PointsUnder(pts, q), c)) <= g[c].total
    <3>1. PointsUnder(PointsUnder(pts, q), c) = PointsUnder(pts, c)
      <4>1. \A e \in Ends : Under(c, e) => Under(q, e)
        BY <2>1, <2>3, EndIsPath, UnderTransitive
      <4> QED BY <4>1 DEF PointsUnder
    <3>2. g[c].total = Size(PointsUnder(pts, c)) /\ g[c].total \in Nat
      BY <1>4 DEF Counts, Node
    <3> QED BY <3>1, <3>2
  <2> QED BY <1>2, <2>1, <2>2, <2>3 DEF InChildren
<1> QED BY <1>2, <1>4, <1>5, <1>6 DEF CountedTree, HandsDown, g

LEMMA EmptyCounts ==
  ASSUME NEW p
  PROVE  Counts(p, EmptyNode) /\ EmptyNode.total = 0 /\ EmptyNode.pts = NoPoints
<1>1. \A e \in Ends : EmptyNode.pts[e] = 0
  BY DEF EmptyNode, NoPoints
<1>2. EmptyNode \in Node /\ EmptyNode.pts = NoPoints
  BY SizeOfNone DEF EmptyNode, Node, Points
<1>3. /\ EmptyNode.total = 0 /\ EmptyNode.init = FALSE /\ EmptyNode.plane = FALSE
      /\ EmptyNode.enabled = TRUE
  BY DEF EmptyNode
<1> QED BY <1>1, <1>2, <1>3, SizeOfNone, Thresholds DEF Counts

\* Points that are not there weigh nothing under any path.
LEMMA NothingUnder ==
  ASSUME NEW pts \in Points, NEW q, \A e \in Ends : pts[e] # 0 => ~Under(q, e)
  PROVE  Size(PointsUnder(pts, q)) = 0
<1>1. PointsUnder(pts, q) = NoPoints
  BY DEF PointsUnder, NoPoints, Points
<1> QED BY <1>1, SizeOfNone

LEMMA AfterPointCounts ==
  ASSUME NEW t, NEW e \in Ends, NEW planar \in [Paths -> BOOLEAN],
         IsTree(t), CountedTree(t), HandsDown(t)
  PROVE  LET u == AfterPoint(t, e, planar)
         IN CountedTree(u) /\ HandsDown(u)
<1> DEFINE p == Target(t, e)
           n == IF p \in DOMAIN t THEN t[p] ELSE EmptyNode
           updated == [q \in {p} |-> Updated(n, e, planar[p])]
           g == Grown(p, WithPoint(n, e).pts, planar)
           u == AfterPoint(t, e, planar)
           grown == IF n.init THEN updated ELSE g
<1>1. /\ p \in Paths /\ Under(p, e) /\ ~Passed(t, p)
      /\ \A s \in Paths : Under(s, p) /\ s # p => Passed(t, s)
  BY TargetIs
<1>2. u = [q \in DOMAIN t \cup DOMAIN grown |-> IF q \in DOMAIN grown THEN grown[q] ELSE t[q]]
  BY DEF AfterPoint
<1> HIDE DEF p, u
<1>3. /\ DOMAIN t \subseteq Paths /\ HasAncestors(t) /\ InnerAbove(t)
      /\ Len(p) \in Nat /\ \A q \in DOMAIN t : Len(q) \in Nat /\ Counts(q, t[q])
  BY <1>1, PathIs DEF IsTree, CountedTree
<1>4. ASSUME NEW q \in DOMAIN t, Under(p, q), q # p PROVE FALSE
  <2>1. p \in DOMAIN t /\ Inner(t[p])
    BY <1>1, <1>3, <1>4 DEF HasAncestors, InnerAbove
  <2>2. Len(p) < MaxLayer
    <3>1. Len(p) \in Nat /\ Len(q) \in 0..MaxLayer /\ q \in Paths
      BY <1>1, <1>3, PathIs
    <3>2. ~(Len(q) <= Len(p))
      BY <1>1, <1>4, <3>1, SamePath
    <3> QED BY <3>1, <3>2, Layers
  <2> QED BY <1>1, <2>1, <2>2 DEF Passed, Inner
<1>5. Counts(p, n)
  BY <1>3, EmptyCounts
<1>6. ASSUME NEW q \in DOMAIN t, q # p, u[q] = t[q], HandsOn(q, t[q]),
             DOMAIN t \subseteq DOMAIN u, p \in DOMAIN t => t[p].total <= u[p].total,
             u[p].total \in Nat, \A c \in DOMAIN u : c = p \/ Under(p, c) \/ (c \in DOMAIN t /\ u[c] = t[c])
      PROVE  InChildren(u, q)
  <2>1. InChildren(t, q) /\ q \in Paths /\ Len(q) \in Nat /\ t[q].pts \in Points
    BY <1>3, <1>6 DEF HandsDown, Counts, Node, Points
  <2>2. \A x \in Ends : u[q].pts[x] # 0 => SubSeq(x, 1, Len(q) + 1) \in DOMAIN u
    BY <1>6, <2>1 DEF InChildren
  <2>3. ASSUME NEW c \in DOMAIN u, c \in Paths, Len(c) = Len(q) + 1, Under(q, c)
        PROVE  Size(PointsUnder(u[q].pts, c)) <= u[c].total
    <3>1. CASE c \in DOMAIN t /\ u[c] = t[c]
      BY <1>6, <2>1, <2>3, <3>1 DEF InChildren
    <3>2. CASE c = p /\ p \in DOMAIN t
      <4>1. Size(PointsUnder(t[q].pts, p)) <= t[p].total
        BY <2>1, <2>3, <3>2 DEF InChildren
      <4>2. Size(PointsUnder(t[q].pts, p)) \in Nat /\ t[p].total \in Nat
        BY <1>3, <2>1, <3>2, SizeIs, SizeUnder DEF Counts, Node
      <4> QED BY <1>6, <3>2, <4>1, <4>2
    <3>3. CASE c = p /\ p \notin DOMAIN t
      <4>1. ASSUME NEW x \in Ends, t[q].pts[x] # 0 PROVE ~Under(p, x)
        <5>1. SubSeq(x, 1, Len(q) + 1) \in DOMAIN t
          BY <2>1, <4>1 DEF InChildren
        <5>2. Under(p, x) => p = SubSeq(x, 1, Len(q) + 1)
          BY <1>1, <2>3, <3>3, EndIsPath, UnderIsPrefix
        <5> QED BY <3>3, <5>1, <5>2
      <4>2. Size(PointsUnder(t[q].pts, p)) = 0
        BY <2>1, <4>1, NothingUnder
      <4> QED BY <1>6, <3>3, <4>2
    <3>4. CASE Under(p, c) /\ c # p
      <4>1. Len(p) < Len(c)
        <5>1. ~(Len(c) <= Len(p)) /\ Len(c) \in Nat
          BY <1>1, <2>3, <3>4, SamePath, PathIs
        <5> QED BY <1>3, <5>1
      <4>2. Len(p) <= Len(q)
        BY <1>3, <2>1, <2>3, <4>1
      <4>3. Under(p, q)
        BY <1>1, <2>1, <2>3, <3>4, <4>2, UnderLinear
      <4> QED BY <1>4, <1>6, <4>3
    <3> QED BY <1>6, <3>1, <3>2, <3>3, <3>4
  <2>4. \A c \in DOMAIN u : c \in Paths
    <3>1. IsTree(u)
      BY AfterPointIs DEF u
    <3> QED BY <3>1 DEF IsTree
  <2> QED BY <2>2, <2>3, <2>4 DEF InChildren
<1>7. CASE n.init
  <2>1. p \in DOMAIN t /\ n = t[p]
    BY <1>7, EmptyIsNode
  <2>2. grown = [q \in {p} |-> Updated(n, e, planar[p])]
    BY <1>7
  <2>3. /\ DOMAIN u = DOMAIN t /\ u[p] = Updated(n, e, planar[p])
        /\ \A q \in DOMAIN t : q # p => u[q] = t[q]
    <3> HIDE DEF grown, n
    <3> QED BY <1>2, <2>1, <2>2
  <2> HIDE DEF n, grown
  <2>4. Counts(p, u[p]) /\ n.total <= u[p].total /\ (n.plane => u[p].plane \/ u[p].flipped)
    <3>1. planar[p] \in BOOLEAN
      BY <1>1
    <3> QED BY <1>1, <1>5, <1>7, <2>3, <3>1, UpdatedCounts
  <2>5. CountedTree(u)
    BY <1>3, <2>3, <2>4 DEF CountedTree
  <2>6. ~HandsOn(p, u[p])
    <3>1. n.plane \/ ~(Len(p) < MaxLayer)
      BY <1>1, <1>7, <2>1 DEF Passed
    <3> QED BY <2>4, <3>1 DEF HandsOn, Inner
  <2>7. u[p].total \in Nat
    BY <2>4 DEF Counts, Node
  <2>8. HandsDown(u)
    <3> SUFFICES ASSUME NEW q \in DOMAIN t, HandsOn(q, u[q]) PROVE InChildren(u, q)
      BY <2>3 DEF HandsDown
    <3>1. q # p /\ u[q] = t[q]
      BY <2>3, <2>6
    <3> QED BY <1>6, <2>1, <2>3, <2>4, <2>7, <3>1
  <2> QED BY <2>5, <2>8 DEF u
<1>8. CASE ~n.init
  <2> DEFINE w == WithPoint(n, e)
  <2>1. grown = g
    BY <1>8
  <2>0. n.enabled /\ n.total <= InitNum /\ n.total \in Nat
    BY <1>5, <1>8 DEF Counts, Node
  <2>2. p \in DOMAIN t => n = t[p]
    OBVIOUS
  <2> HIDE DEF grown, n
  <2>3. /\ w.pts \in Points /\ (\A x \in Ends : w.pts[x] # 0 => Under(p, x))
        /\ Size(w.pts) = n.total + 1
    <3>1. Under(p, e) /\ n.enabled
      BY <1>1, <2>0
    <3> HIDE DEF updated, g
    <3>2. TookPoint(p, n, w)
      BY <1>5, <3>1, WithPointCounts
    <3> HIDE DEF w
    <3> QED BY <3>2 DEF TookPoint, Node, Points
  <2>4. Bounded(Size(w.pts))
    BY <2>0, <2>3, Thresholds DEF Bounded
  <2>5. /\ p \in DOMAIN g /\ DOMAIN g \subseteq Paths
        /\ \A q \in DOMAIN g : Under(p, q)
    BY <1>1, GrownIs
  <2>6. CountedTree(g) /\ HandsDown(g) /\ g[p].total = n.total + 1
    BY <1>1, <2>3, <2>4, GrownCounts
  <2> HIDE DEF w, g
  <2>7. /\ DOMAIN u = DOMAIN t \cup DOMAIN g
        /\ \A q \in DOMAIN g : u[q] = g[q]
        /\ \A q \in DOMAIN t : q \notin DOMAIN g => u[q] = t[q]
    BY <1>2, <2>1
  <2>8. \A q \in DOMAIN t : q \in DOMAIN g => q = p
    BY <1>4, <2>5
  <2>9. CountedTree(u)
    BY <1>3, <2>6, <2>7 DEF CountedTree
  <2>10. u[p].total \in Nat /\ (p \in DOMAIN t => t[p].total <= u[p].total)
    BY <2>0, <2>2, <2>5, <2>6, <2>7
  <2>11. HandsDown(u)
    <3> SUFFICES ASSUME NEW q \in DOMAIN u, HandsOn(q, u[q]) PROVE InChildren(u, q)
      BY DEF HandsDown
    <3>1. CASE q \in DOMAIN g
      <4>1. InChildren(g, q) /\ u[q] = g[q] /\ q \in Paths /\ Under(p, q) /\ Len(q) \in Nat
        BY <2>5, <2>6, <2>7, <3>1, PathIs DEF HandsDown
      <4>2. ASSUME NEW c \in DOMAIN u, Len(c) = Len(q) + 1, Under(q, c) PROVE c \in DOMAIN g
        <5>1. c \in Paths
          BY <1>3, <2>5, <2>7
        <5>2. Under(p, c)
          BY <1>1, <4>1, <4>2, <5>1, UnderTransitive
        <5> QED BY <1>4, <2>5, <2>7, <5>2
      <4> QED BY <2>7, <4>1, <4>2 DEF InChildren
    <3>2. CASE q \notin DOMAIN g
      <4>1. q \in DOMAIN t /\ q # p /\ u[q] = t[q]
        BY <2>5, <2>7, <3>2
      <4>2. \A c \in DOMAIN u : c = p \/ Under(p, c) \/ (c \in DOMAIN t /\ u[c] = t[c])
        BY <2>5, <2>7
      <4> QED BY <1>6, <2>7, <2>10, <4>1, <4>2
    <3> QED BY <3>1, <3>2
  <2> QED BY <2>9, <2>11 DEF u
<1> QED BY <1>7, <1>8

(***************************************************************************)
(* The points of the map.                                                  *)
(***************************************************************************)
PlaceInv == built \in BOOLEAN /\ position \in Roots /\ slidAt \in Roots
CountInv == \A r \in DOMAIN tree : CountedTree(tree[r]) /\ HandsDown(tree[r])

LEMMA PlaceInvariant == Spec => []PlaceInv
<1>1. Init => PlaceInv
  BY DEF Init, PlaceInv
<1>2. PlaceInv /\ [Next]_vars => PlaceInv'
  <2> SUFFICES ASSUME PlaceInv, [Next]_vars PROVE PlaceInv'
    OBVIOUS
  <2>1. CASE BuildVoxelMap
    BY <2>1 DEF BuildVoxelMap, PlaceInv
  <2>2. CASE UpdateVoxelMap
    BY <2>2 DEF UpdateVoxelMap, PlaceInv
  <2>3. CASE Move
    BY <2>3 DEF Move, PlaceInv
  <2>4. CASE UNCHANGED vars
    BY <2>4 DEF vars, PlaceInv
  <2> QED BY <2>1, <2>2, <2>3, <2>4 DEF Next
<1> QED BY <1>1, <1>2, PTL DEF Spec

LEMMA CountInit == Init => CountInv
BY DEF Init, CountInv

LEMMA CountBuild ==
  ASSUME MapInv, BuildVoxelMap
  PROVE  CountInv'
<1>1. PICK r \in Roots, pts \in [Ends -> 0..MaxScan], planar \in [Paths -> BOOLEAN] :
        tree' = [x \in {r} |-> Grown(<<>>, pts, planar)]
  BY DEF BuildVoxelMap
<1>2. pts \in Points /\ Size(pts) <= MaxScan * Cardinality(Ends)
  BY SizeOfScan
<1>3. Bounded(Size(pts))
  BY <1>2 DEF Bounded
<1>4. \A e \in Ends : Under(<<>>, e)
  BY RootIsPath, EndIsPath
<1> DEFINE g == Grown(<<>>, pts, planar)
<1>5. CountedTree(g) /\ HandsDown(g)
  BY <1>2, <1>3, <1>4, RootIsPath, GrownCounts
<1> HIDE DEF g
<1>6. DOMAIN tree' = {r} /\ tree'[r] = g
  BY <1>1 DEF g
<1> QED BY <1>5, <1>6 DEF CountInv

LEMMA CountUpdate ==
  ASSUME MapInv, CountInv, UpdateVoxelMap
  PROVE  CountInv'
<1>1. PICK r \in Roots, e \in Ends, planar \in [Paths -> BOOLEAN] :
        tree' = [x \in DOMAIN tree \cup {r} |->
                   IF x = r THEN AfterPoint(TreeOf(r), e, planar) ELSE tree[x]]
  BY DEF UpdateVoxelMap
<1> DEFINE t == TreeOf(r)
           u == AfterPoint(t, e, planar)
<1>2. IsTree(t)
  BY TreeOfIs
<1>3. CountedTree(t) /\ HandsDown(t)
  <2>1. CountedTree(NoTree) /\ HandsDown(NoTree)
    BY DEF NoTree, CountedTree, HandsDown
  <2> QED BY <2>1 DEF TreeOf, CountInv
<1> HIDE DEF t
<1>4. CountedTree(u) /\ HandsDown(u)
  BY <1>2, <1>3, AfterPointCounts
<1>5. tree' = [x \in DOMAIN tree \cup {r} |-> IF x = r THEN u ELSE tree[x]]
  BY <1>1 DEF t
<1> HIDE DEF u
<1>6. /\ DOMAIN tree' = DOMAIN tree \cup {r} /\ tree'[r] = u
      /\ \A x \in DOMAIN tree : x # r => tree'[x] = tree[x]
  BY <1>5
<1> QED BY <1>4, <1>6 DEF CountInv

LEMMA CountInvariant == Spec => [](MapInv /\ CountInv)
<1>1. MapInv /\ CountInv /\ [Next]_vars => CountInv'
  <2>1. MapInv /\ CountInv /\ (Move \/ UNCHANGED vars) => CountInv'
    <3> SUFFICES ASSUME MapInv, CountInv, Move \/ UNCHANGED vars PROVE CountInv'
      OBVIOUS
    <3>1. /\ DOMAIN tree' \subseteq DOMAIN tree
          /\ \A r \in DOMAIN tree : r \in DOMAIN tree' => tree'[r] = tree[r]
      BY MoveIs
    <3> QED BY <3>1 DEF CountInv
  <2> QED BY <2>1, CountBuild, CountUpdate DEF Next
<1> QED BY <1>1, CountInit, MapInvariant, PTL DEF Spec

\* The map keeps its types, no node loses its parent, and no node collects
\* more than MaxPoints points, or than the first scan brought.
THEOREM MapWellTyped == Spec => []TypeOK
<1>1. MapInv /\ CountInv /\ PlaceInv => TypeOK
  <2> SUFFICES ASSUME MapInv, CountInv, PlaceInv, NEW x \in AllNodes
               PROVE  LET n == tree[x[1]][x[2]]
                      IN /\ n \in Node
                         /\ \A k \in 0..Len(x[2]) - 1 : SubSeq(x[2], 1, k) \in DOMAIN tree[x[1]]
                         /\ Size(n.pts) <= MaxPoints \/ Size(n.pts) <= MaxScan * Cardinality(Ends)
    BY DEF TypeOK, MapInv, PlaceInv
  <2>1. x[1] \in DOMAIN tree /\ x[2] \in DOMAIN tree[x[1]] /\ x[2] \in Paths
    BY NodesAre
  <2>2. Counts(x[2], tree[x[1]][x[2]]) /\ HasAncestors(tree[x[1]])
    BY <2>1 DEF CountInv, CountedTree, MapInv, IsTree
  <2>3. \A k \in 0..Len(x[2]) - 1 : SubSeq(x[2], 1, k) \in DOMAIN tree[x[1]]
    <3> SUFFICES ASSUME NEW k \in 0..Len(x[2]) - 1
                 PROVE  SubSeq(x[2], 1, k) \in DOMAIN tree[x[1]]
      OBVIOUS
    <3>1. k \in 0..Len(x[2])
      BY <2>1, PathIs
    <3> QED BY <2>1, <2>2, <3>1, PrefixIs, PrefixUnder DEF HasAncestors
  <2> QED BY <2>2, <2>3 DEF Counts, Bounded
<1> QED BY <1>1, CountInvariant, PlaceInvariant, PTL

\* No plane falls more than UpdateSize points behind its node, however it was
\* made, refitted or frozen: an update refits in time, and the points a node
\* froze with are those of its last fit and at most UpdateSize more.
THEOREM FitStaysFresh == Spec => []FitIsFresh
<1>1. MapInv /\ CountInv => FitIsFresh
  <2> SUFFICES ASSUME MapInv, CountInv, NEW x \in AllNodes, tree[x[1]][x[2]].plane
               PROVE  tree[x[1]][x[2]].total - tree[x[1]][x[2]].fitted <= UpdateSize
    BY DEF FitIsFresh
  <2>1. Counts(x[2], tree[x[1]][x[2]])
    BY NodesAre DEF CountInv, CountedTree
  <2> QED BY <2>1 DEF Counts
<1> QED BY <1>1, CountInvariant, PTL

\* The points a cut node held are all with its children, however many points
\* and cuts came after: each is under a child, and no child ever has fewer
\* than it was handed.
THEOREM PointsStayHandedDown == Spec => []PointsHandedDown
<1>1. MapInv /\ CountInv => PointsHandedDown
  <2> SUFFICES ASSUME MapInv, CountInv, NEW x \in AllNodes
               PROVE  LET t == tree[x[1]]
                          n == t[x[2]]
                          below == {q \in DOMAIN t : Len(q) = Len(x[2]) + 1 /\ Under(x[2], q)}
                      IN n.init /\ ~n.plane /\ ~n.flipped /\ Len(x[2]) < MaxLayer =>
                           Size(n.pts) <= SumFunction([q \in below |-> t[q].total])
    BY DEF PointsHandedDown
  <2> DEFINE t == tree[x[1]]
             p == x[2]
             n == t[p]
             below == {q \in DOMAIN t : Len(q) = Len(p) + 1 /\ Under(p, q)}
             w == [q \in below |-> t[q].total]
             part == [q \in below |-> PointsUnder(n.pts, q)]
  <2>1. p \in DOMAIN t /\ p \in Paths /\ DOMAIN t \subseteq Paths /\ Len(p) \in Nat
    <3>1. x[1] \in DOMAIN tree /\ x[2] \in DOMAIN tree[x[1]] /\ x[2] \in Paths
      BY NodesAre
    <3> QED BY <3>1, PathIs DEF MapInv, IsTree
  <2>2. CountedTree(t) /\ HandsDown(t)
    BY NodesAre DEF CountInv
  <2> HIDE DEF t, p
  <2> SUFFICES ASSUME n.init, ~n.plane, ~n.flipped, Len(p) < MaxLayer
               PROVE  Size(n.pts) <= SumFunction(w)
    BY DEF t, p
  <2>3. InChildren(t, p) /\ Counts(p, n)
    BY <2>1, <2>2 DEF HandsDown, HandsOn, Inner, CountedTree
  <2> HIDE DEF n
  <2>4. n.pts \in Points /\ n.pts \in [Ends -> Nat]
    BY <2>3 DEF Counts, Node, Points
  <2>5. IsFiniteSet(below)
    <3>1. below \subseteq [1..Len(p) + 1 -> Children]
      BY <2>1, PathIs
    <3>2. IsFiniteSet([1..Len(p) + 1 -> Children])
      <4>1. Len(p) + 1 \in Int
        BY <2>1
      <4>2. IsFiniteSet(1..Len(p) + 1)
        BY <4>1, FS_Interval
      <4> QED BY <4>2, FiniteFunctions, VoxelAssumption
    <3> QED BY <3>1, <3>2, FS_Subset
  <2>6. w \in [below -> Nat]
    <3>1. \A q \in below : t[q].total \in Nat
      BY <2>2 DEF CountedTree, Counts, Node
    <3> QED BY <3>1
  <2>7. part \in [below -> [Ends -> Nat]]
    BY <2>4, SizeUnder DEF Points
  <2>8. \A q \in below : SumFunction(part[q]) <= w[q]
    BY <2>3 DEF InChildren, Size, n
  <2>9. Covered(Ends, n.pts, part, below)
    <3> SUFFICES ASSUME NEW e \in Ends, n.pts[e] # 0
                 PROVE  \E q \in below : n.pts[e] <= part[q][e]
      BY DEF Covered
    <3> DEFINE c == SubSeq(e, 1, Len(p) + 1)
    <3>1. Under(p, e)
      BY <2>3 DEF Counts
    <3>2. Len(c) = Len(p) + 1 /\ Under(p, c) /\ Under(c, e)
      BY <2>1, <3>1, ChildIs
    <3>3. c \in DOMAIN t
      BY <2>3 DEF InChildren, n
    <3> HIDE DEF c
    <3>4. c \in below /\ part[c][e] = n.pts[e] /\ n.pts[e] \in Nat
      BY <2>4, <3>2, <3>3 DEF PointsUnder
    <3> QED BY <3>4
  <2> HIDE DEF below, w, part
  <2>10. SumFunction(n.pts) <= SumFunction(w)
    BY <2>4, <2>5, <2>6, <2>7, <2>8, <2>9, EndsFinite, SumOfParts
  <2> QED BY <2>10 DEF Size
<1> QED BY <1>1, CountInvariant, PTL
=============================================================================
