-------------------------- MODULE VisualMap_proofs --------------------------
(***************************************************************************)
(* Proofs about VisualMap for every value of its constants: the reference  *)
(* of a visual point is never a freed observation, no point loses its last *)
(* observation or takes too many, the voxels behind the origin are looked  *)
(* up under the wrong number, and ahead of it no point is made in a cell   *)
(* where one is seen.                                                      *)
(***************************************************************************)
EXTENDS VisualMap, SequenceTheorems, FiniteSetTheorems, TLAPS

\* What every pass keeps of a point, the frames being numbered up to n.
Sound(p, n) ==
  /\ p \in Point
  /\ p.obs # {} /\ p.obs \subseteq 1..n /\ Cardinality(p.obs) <= MaxObs
  /\ p.ref # NoRef => p.ref \in p.obs

\* Between retrieval and update every tracked point has its reference.
TrackedHaveRef ==
  phase \in {"generate", "update"} => \A i \in submap : points[i].ref # NoRef

IInv ==
  /\ TypeOK
  /\ \A i \in Ids : Sound(points[i], frame)
  /\ phase # "retrieve" => 1 <= frame
  /\ TrackedHaveRef

-----------------------------------------------------------------------------
(***************************************************************************)
(* The voxel numbers.                                                      *)
(***************************************************************************)
\* No lookup is made under the number -1, under which every point up to one
\* voxel behind the origin is inserted.
THEOREM BehindNeverLookedUp ==
  /\ \A c \in Int : LookupKey(c) # -1
  /\ \A c \in Int : -Res < c /\ c < 0 => InsertKey(c) = -1
<1>1. \A c \in Int : Floor(c) \in Int
  BY ResAssumption DEF Floor
<1>2. ASSUME NEW c \in Int PROVE LookupKey(c) # -1
  <2>1. CASE Floor(c) < 0
    BY <1>1, <2>1 DEF LookupKey
  <2>2. CASE ~(Floor(c) < 0)
    BY <1>1, <2>2 DEF LookupKey
  <2> QED BY <2>1, <2>2
<1>3. ASSUME NEW c \in Int, -Res < c, c < 0 PROVE InsertKey(c) = -1
  <2> DEFINE d == Res - c
  <2>1. d \in Int /\ Res < d /\ d < 2 * Res
    BY <1>3, ResAssumption
  <2>2. d \div Res = 1
    <3> HIDE DEF d
    <3> QED BY <2>1, ResAssumption
  <2> QED BY <1>3, <2>2 DEF InsertKey
<1> QED BY <1>2, <1>3

-----------------------------------------------------------------------------
(***************************************************************************)
(* What each pass does to one point.                                       *)
(***************************************************************************)
LEMMA ObsFinite ==
  ASSUME NEW n \in Nat, NEW S \in SUBSET (1..n)
  PROVE  IsFiniteSet(S) /\ Cardinality(S) \in Nat
<1>1. IsFiniteSet(1..n)
  BY FS_Interval
<1>2. IsFiniteSet(S)
  BY <1>1, FS_Subset
<1> QED BY <1>2, FS_CardinalityType

\* One element more makes a set larger by one at most.
LEMMA OneMore ==
  ASSUME NEW S, IsFiniteSet(S), Cardinality(S) \in Nat, NEW x
  PROVE  /\ Cardinality(S \cup {x}) <= Cardinality(S) + 1
         /\ Cardinality(S \cup {x}) \in Nat
<1>1. CASE x \in S
  <2>1. S \cup {x} = S
    BY <1>1
  <2> QED BY <2>1
<1>2. CASE x \notin S
  <2>1. Cardinality(S \cup {x}) = Cardinality(S) + 1
    BY <1>2, FS_AddElement
  <2> QED BY <2>1
<1> QED BY <1>1, <1>2

LEMMA MatchedSound ==
  ASSUME NEW n \in 0..MaxFrames, NEW p, Sound(p, n), NEW f \in 1..n, f \in References(p)
  PROVE  Sound(Matched(p, f), n) /\ Matched(p, f).ref = f /\ f # NoRef
<1>1. p \in Point /\ p.obs # {} /\ p.obs \subseteq 1..n /\ Cardinality(p.obs) <= MaxObs
  BY DEF Sound
<1>2. f \in p.obs
  BY DEF References, Sound
<1>3. /\ Matched(p, f) \in Point
      /\ Matched(p, f).obs = p.obs /\ Matched(p, f).ref = f
  BY <1>1, VisualAssumption DEF Matched, Point
<1>4. f # NoRef
  BY DEF NoRef
<1> QED BY <1>1, <1>2, <1>3, <1>4 DEF Sound

LEMMA DeletedSound ==
  ASSUME NEW n \in 0..MaxFrames, NEW p, Sound(p, n), NEW w \in p.obs,
         Cardinality(p.obs) >= MaxObs
  PROVE  /\ Sound(DeleteFeature(p, w), n)
         /\ Cardinality(DeleteFeature(p, w).obs) < MaxObs
         /\ DeleteFeature(p, w).converged = p.converged
<1> DEFINE q == DeleteFeature(p, w)
<1>1. p \in Point /\ p.obs \subseteq 1..n /\ Cardinality(p.obs) <= MaxObs
  BY DEF Sound
<1>2. /\ q \in Point /\ q.obs = p.obs \ {w} /\ q.converged = p.converged
      /\ q.ref = (IF p.ref = w THEN NoRef ELSE p.ref)
  <2> DEFINE r == IF p.ref = w THEN NoRef ELSE p.ref
             o == p.obs \ {w}
  <2>1. r \in 0..MaxFrames /\ o \in SUBSET (1..MaxFrames)
    BY <1>1, VisualAssumption DEF Point, NoRef
  <2>2. q = [p EXCEPT !.obs = o, !.ref = r]
    BY DEF DeleteFeature
  <2> HIDE DEF q, r, o
  <2>3. q \in Point /\ q.obs = o /\ q.converged = p.converged /\ q.ref = r
    BY <1>1, <2>1, <2>2 DEF Point
  <2> QED BY <2>3 DEF r, o
<1>3. IsFiniteSet(p.obs) /\ Cardinality(p.obs) \in Nat
  <2>1. n \in Nat
    BY VisualAssumption
  <2> QED BY <1>1, <2>1, ObsFinite
<1>4. /\ IsFiniteSet(p.obs \ {w})
      /\ Cardinality(p.obs \ {w}) = Cardinality(p.obs) - 1
  BY <1>3, FS_RemoveElement
<1>5. Cardinality(q.obs) < MaxObs /\ Cardinality(q.obs) # 0
  BY <1>1, <1>2, <1>3, <1>4, VisualAssumption
<1>6. q.obs # {}
  BY <1>2, <1>4, <1>5, FS_EmptySet
<1>7. q.ref # NoRef => q.ref \in q.obs
  BY <1>2 DEF Sound, NoRef
<1>8. Cardinality(q.obs) <= MaxObs
  BY <1>2, <1>3, <1>4, <1>5, VisualAssumption
<1> QED BY <1>1, <1>2, <1>5, <1>6, <1>7, <1>8 DEF Sound

LEMMA ObservedSound ==
  ASSUME NEW n \in 1..MaxFrames, n = frame, NEW p, Sound(p, n), p.ref # NoRef,
         NEW w \in p.obs, NEW m \in BOOLEAN
  PROVE  Sound(Observed(p, w, m), n)
<1>1. p \in Point /\ p.obs \subseteq 1..n /\ Cardinality(p.obs) <= MaxObs /\ p.ref \in p.obs
  BY DEF Sound
<1>2. n \in 0..MaxFrames /\ n \in Nat /\ MaxFrames \in Nat
  BY VisualAssumption
<1>3. IsFiniteSet(p.obs) /\ Cardinality(p.obs) \in Nat
  BY <1>1, <1>2, ObsFinite
<1>4. CASE p.converged
  <2> DEFINE q == NonRefDeleted(p)
  <2>1. q \in Point /\ q.obs = {p.ref} /\ q.ref = p.ref
    BY <1>1 DEF NonRefDeleted, Point
  <2>2. Cardinality({p.ref}) = 1
    BY FS_Singleton
  <2>3. Observed(p, w, m) = q
    BY <1>4 DEF Observed
  <2> QED BY <1>1, <2>1, <2>2, <2>3, VisualAssumption DEF Sound
<1>5. CASE ~p.converged
  <2> DEFINE q == Thinned(p, w)
  <2>1. Sound(q, n) /\ Cardinality(q.obs) < MaxObs
    <3>1. CASE Cardinality(p.obs) >= MaxObs
      BY <1>2, <3>1, DeletedSound DEF Thinned
    <3>2. CASE ~(Cardinality(p.obs) >= MaxObs)
      BY <1>3, <3>2, VisualAssumption DEF Thinned
    <3> QED BY <3>1, <3>2
  <2>2. CASE ~m
    BY <1>5, <2>1, <2>2 DEF Observed
  <2>3. CASE m
    <3> DEFINE r == [q EXCEPT !.obs = @ \cup {frame}]
    <3>1. q \in Point /\ q.obs \subseteq 1..n
      BY <2>1 DEF Sound
    <3>2. IsFiniteSet(q.obs) /\ Cardinality(q.obs) \in Nat
      BY <1>2, <3>1, ObsFinite
    <3>3. r \in Point /\ r.obs = q.obs \cup {frame} /\ r.ref = q.ref
      <4> DEFINE o == q.obs \cup {frame}
      <4>1. o \in SUBSET (1..MaxFrames)
        BY <3>1, <1>2
      <4>2. r = [q EXCEPT !.obs = o]
        OBVIOUS
      <4> HIDE DEF q, r, o
      <4>3. r \in Point /\ r.obs = o /\ r.ref = q.ref
        BY <3>1, <4>1, <4>2 DEF Point
      <4> QED BY <4>3 DEF o
    <3>4. /\ Cardinality(q.obs \cup {frame}) <= Cardinality(q.obs) + 1
          /\ Cardinality(q.obs \cup {frame}) \in Nat
      BY <3>2, OneMore
    <3>5. Cardinality(r.obs) <= MaxObs
      BY <2>1, <3>2, <3>3, <3>4, VisualAssumption
    <3>6. r.ref # NoRef => r.ref \in r.obs
      BY <2>1, <3>3 DEF Sound
    <3>7. r.obs \subseteq 1..n /\ r.obs # {}
      BY <3>1, <3>3
    <3>8. Observed(p, w, m) = r
      BY <1>5, <2>3 DEF Observed
    <3> QED BY <3>3, <3>5, <3>6, <3>7, <3>8 DEF Sound
  <2> QED BY <2>2, <2>3
<1> QED BY <1>4, <1>5

\* A point stays sound as the frames go on.
LEMMA SoundLater ==
  ASSUME NEW n \in Nat, NEW p, Sound(p, n)
  PROVE  Sound(p, n + 1)
BY DEF Sound

LEMMA NewSound ==
  ASSUME NEW x \in Positions, frame \in 1..MaxFrames
  PROVE  Sound(NewPoint(x), frame)
<1> DEFINE p == NewPoint(x)
<1>1. p \in Point /\ p.obs = {frame} /\ p.ref = NoRef
  BY VisualAssumption DEF NewPoint, Point, NoRef
<1>2. Cardinality({frame}) = 1
  BY FS_Singleton
<1> QED BY <1>1, <1>2, VisualAssumption DEF Sound

-----------------------------------------------------------------------------
(***************************************************************************)
(* Sequences of points.                                                    *)
(***************************************************************************)
\* A function on the indices of a sequence is a sequence of that length.
LEMMA MapIsSeq ==
  ASSUME NEW S, NEW s \in Seq(S), NEW T, NEW f \in [DOMAIN s -> T]
  PROVE  f \in Seq(T) /\ Len(f) = Len(s) /\ DOMAIN f = DOMAIN s
<1>1. Len(s) \in Nat /\ DOMAIN s = 1..Len(s)
  BY LenProperties
<1>2. f \in [1..Len(s) -> T]
  BY <1>1
<1>3. f \in Seq(T)
  BY <1>1, <1>2, SeqDef
<1> QED BY <1>1, <1>2, <1>3, LenProperties

\* SetToSeq names the elements of a finite set.
LEMMA SetToSeqElements ==
  ASSUME NEW S, IsFiniteSet(S)
  PROVE  Cardinality(S) \in Nat /\ SetToSeq(S) \in [1..Cardinality(S) -> S]
<1>1. Cardinality(S) \in Nat /\ ExistsBijection(1..Cardinality(S), S)
  BY FS_CardinalityType
<1>2. \E f \in [1..Cardinality(S) -> S] : IsInjective(f)
  BY <1>1 DEF ExistsBijection, Bijection, Injection
<1> QED BY <1>1, <1>2 DEF SetToSeq

-----------------------------------------------------------------------------
(***************************************************************************)
(* The inductive invariant.                                                *)
(***************************************************************************)
LEMMA InitInv == Init => IInv
<1> SUFFICES ASSUME Init PROVE IInv
  OBVIOUS
<1>1. points \in Seq(Point) /\ Len(points) = 0 /\ Ids = {}
  BY EmptySeq DEF Init, Ids
<1>2. view \in [Positions -> Cells \cup {Hidden}]
  BY DEF Init, Nowhere
<1> QED BY <1>1, <1>2, VisualAssumption DEF Init, IInv, TypeOK, TrackedHaveRef

LEMMA RetrieveInv == IInv /\ Retrieve => IInv'
<1> SUFFICES ASSUME IInv, Retrieve PROVE IInv'
  OBVIOUS
<1>1. /\ frame \in 0..MaxFrames /\ frame \in Nat /\ MaxFrames \in Nat
      /\ frame + 1 \in 0..MaxFrames /\ frame + 1 \in Nat
      /\ points \in Seq(Point) /\ Len(points) <= MaxPoints
      /\ \A i \in Ids : Sound(points[i], frame)
  BY VisualAssumption DEF IInv, TypeOK, Retrieve
<1>2. PICK v \in [Positions -> Cells \cup {Hidden}], s \in SUBSET Positions :
        \E ray \in SUBSET (RayKeys \ ScanKeys(s)) :
        LET found == Found(ScanKeys(s) \cup ray, v)
        IN /\ view' = v /\ scan' = s
           /\ mapCells' = {v[points[i].at] : i \in found}
           /\ \E matched \in SUBSET found :
                /\ OnePerCell(matched, [i \in found |-> v[points[i].at]])
                /\ submap' \in SUBSET matched
                /\ \E ref \in [matched -> 1..frame] :
                     /\ \A i \in matched : ref[i] \in References(points[i])
                     /\ points' = [i \in Ids |->
                          IF i \in matched THEN Matched(points[i], ref[i]) ELSE points[i]]
  BY DEF Retrieve
<1>2a. PICK ray \in SUBSET (RayKeys \ ScanKeys(s)) :
        LET found == Found(ScanKeys(s) \cup ray, v)
        IN /\ view' = v /\ scan' = s
           /\ mapCells' = {v[points[i].at] : i \in found}
           /\ \E matched \in SUBSET found :
                /\ OnePerCell(matched, [i \in found |-> v[points[i].at]])
                /\ submap' \in SUBSET matched
                /\ \E ref \in [matched -> 1..frame] :
                     /\ \A i \in matched : ref[i] \in References(points[i])
                     /\ points' = [i \in Ids |->
                          IF i \in matched THEN Matched(points[i], ref[i]) ELSE points[i]]
  BY <1>2
<1> DEFINE found == Found(ScanKeys(s) \cup ray, v)
<1>3. found \subseteq Ids /\ \A i \in found : v[points[i].at] # Hidden
  BY DEF Found
<1>4. PICK matched \in SUBSET found :
        /\ submap' \in SUBSET matched
        /\ \E ref \in [matched -> 1..frame] :
             /\ \A i \in matched : ref[i] \in References(points[i])
             /\ points' = [i \in Ids |->
                  IF i \in matched THEN Matched(points[i], ref[i]) ELSE points[i]]
  BY <1>2a
<1>5. PICK ref \in [matched -> 1..frame] :
        /\ \A i \in matched : ref[i] \in References(points[i])
        /\ points' = [i \in Ids |->
             IF i \in matched THEN Matched(points[i], ref[i]) ELSE points[i]]
  BY <1>4
<1>6. ASSUME NEW i \in Ids
      PROVE  /\ Sound(points'[i], frame + 1)
             /\ i \in matched => points'[i].ref # NoRef
  <2>1. Sound(points[i], frame)
    BY <1>1
  <2>2. CASE i \in matched
    <3>1. points'[i] = Matched(points[i], ref[i])
      BY <1>5, <2>2
    <3>2. ref[i] \in 1..frame /\ ref[i] \in References(points[i])
      BY <1>5, <2>2
    <3>3. Sound(points'[i], frame) /\ points'[i].ref # NoRef
      BY <1>1, <2>1, <3>1, <3>2, MatchedSound
    <3> QED BY <1>1, <3>3, SoundLater
  <2>3. CASE i \notin matched
    <3>1. points'[i] = points[i]
      BY <1>5, <2>3
    <3> QED BY <1>1, <2>1, <2>3, <3>1, SoundLater
  <2> QED BY <2>2, <2>3
<1>7. points' \in [Ids -> Point]
  <2>1. \A i \in Ids : points'[i] \in Point
    BY <1>6 DEF Sound
  <2> QED BY <1>5, <2>1
<1>8. points' \in Seq(Point) /\ Len(points') = Len(points) /\ Ids' = Ids
  <2> HIDE DEF found
  <2> QED BY <1>1, <1>7, MapIsSeq DEF Ids
<1>9. frame' = frame + 1 /\ phase' = "generate" /\ updated' = {}
  BY DEF Retrieve
<1>10. submap' \subseteq Ids' /\ \A i \in submap' : points'[i].ref # NoRef
  BY <1>3, <1>4, <1>6, <1>8
<1>11. mapCells' \subseteq Cells
  <2>1. \A i \in found : points[i].at \in Positions
    BY <1>1, <1>3 DEF Sound, Point
  <2>2. \A i \in found : v[points[i].at] \in Cells
    <3> SUFFICES ASSUME NEW i \in found PROVE v[points[i].at] \in Cells
      OBVIOUS
    <3> DEFINE x == points[i].at
    <3>1. x \in Positions /\ v[x] # Hidden
      BY <1>3, <2>1
    <3>2. \A y \in Positions : v[y] \in Cells \cup {Hidden}
      BY <1>3
    <3> HIDE DEF x, found
    <3>3. v[x] \in Cells
      BY <3>1, <3>2
    <3> QED BY <3>3 DEF x
  <2>3. mapCells' = {v[points[i].at] : i \in found}
    BY <1>2a
  <2> HIDE DEF found
  <2> QED BY <2>2, <2>3
<1>12. TypeOK'
  BY <1>1, <1>2a, <1>8, <1>9, <1>10, <1>11 DEF TypeOK
<1>13. \A i \in Ids' : Sound(points'[i], frame')
  BY <1>6, <1>8, <1>9
<1> QED BY <1>1, <1>9, <1>10, <1>12, <1>13 DEF IInv, TrackedHaveRef, Sound

\* Generation leaves the points there are, and adds some in free cells.
LEMMA GenerateAdds ==
  ASSUME IInv, Generate
  PROVE  /\ \A i \in Ids : points'[i] = points[i]
         /\ \A i \in DOMAIN points' \ Ids : view[points'[i].at] \in FreeCells
<1>1. /\ frame \in 1..MaxFrames
      /\ points \in Seq(Point) /\ Len(points) \in Nat /\ Ids = 1..Len(points)
  <2>1. points \in Seq(Point) /\ frame \in 1..MaxFrames
    BY VisualAssumption DEF IInv, TypeOK, Generate
  <2> QED BY <2>1, LenProperties DEF Ids
<1>2. PICK new \in SUBSET (IF Raycast THEN Positions ELSE scan) :
        /\ \A x \in new : view[x] \in FreeCells
        /\ points' = points \o [k \in 1..Cardinality(new) |-> NewPoint(SetToSeq(new)[k])]
  BY DEF Generate
<1>3. new \subseteq Positions /\ IsFiniteSet(new)
  <2>1. new \subseteq Positions
    BY VisualAssumption DEF IInv, TypeOK
  <2> QED BY <2>1, VisualAssumption, FS_Subset
<1> DEFINE n == Cardinality(new)
           added == [k \in 1..n |-> NewPoint(SetToSeq(new)[k])]
<1>4. n \in Nat /\ SetToSeq(new) \in [1..n -> new]
  BY <1>3, SetToSeqElements
<1>5. \A k \in 1..n : added[k].at \in new
  BY <1>4 DEF NewPoint
<1>6. added \in [1..n -> Point]
  <2>1. \A k \in 1..n : SetToSeq(new)[k] \in Positions
    BY <1>3, <1>4
  <2> QED BY <1>1, <2>1, NewSound DEF Sound
<1>7. points' = points \o added
  BY <1>2
<1> HIDE DEF n, added
<1>8. added \in Seq(Point) /\ Len(added) = n
  <2>1. added \in Seq(Point)
    BY <1>4, <1>6, SeqDef
  <2> QED BY <1>4, <1>6, <2>1, LenProperties
<1>9. /\ points' \in Seq(Point) /\ Len(points') = Len(points) + n
      /\ \A i \in 1..Len(points) + n :
           points'[i] = IF i <= Len(points) THEN points[i] ELSE added[i - Len(points)]
  BY <1>1, <1>7, <1>8, ConcatProperties
<1>10. DOMAIN points' = 1..Len(points) + n
  BY <1>9, LenProperties
<1>11. \A i \in Ids : points'[i] = points[i]
  BY <1>1, <1>4, <1>9
<1>12. ASSUME NEW i \in DOMAIN points' \ Ids PROVE view[points'[i].at] \in FreeCells
  <2>1. i \in 1..Len(points) + n /\ i > Len(points) /\ i - Len(points) \in 1..n
    BY <1>1, <1>4, <1>10
  <2>2. points'[i] = added[i - Len(points)]
    BY <1>1, <1>9, <2>1
  <2> QED BY <1>2, <1>5, <2>1, <2>2
<1> QED BY <1>11, <1>12

LEMMA GenerateInv == IInv /\ Generate => IInv'
<1> SUFFICES ASSUME IInv, Generate PROVE IInv'
  OBVIOUS
<1>1. /\ frame \in 1..MaxFrames
      /\ points \in Seq(Point) /\ Len(points) \in Nat /\ Ids = 1..Len(points)
      /\ \A i \in Ids : Sound(points[i], frame)
      /\ submap \subseteq Ids /\ updated \subseteq submap
      /\ \A i \in submap : points[i].ref # NoRef
  <2>1. points \in Seq(Point) /\ frame \in 1..MaxFrames
    BY VisualAssumption DEF IInv, TypeOK, Generate
  <2>2. Len(points) \in Nat /\ Ids = 1..Len(points)
    BY <2>1, LenProperties DEF Ids
  <2> QED BY <2>1, <2>2 DEF IInv, TypeOK, TrackedHaveRef, Generate
<1>2. PICK new \in SUBSET (IF Raycast THEN Positions ELSE scan) :
        /\ Len(points) + Cardinality(new) <= MaxPoints
        /\ points' = points \o [k \in 1..Cardinality(new) |-> NewPoint(SetToSeq(new)[k])]
  BY DEF Generate
<1> DEFINE n == Cardinality(new)
           added == [k \in 1..n |-> NewPoint(SetToSeq(new)[k])]
<1>3. new \subseteq Positions /\ IsFiniteSet(new)
  <2>1. new \subseteq Positions
    BY VisualAssumption DEF IInv, TypeOK
  <2> QED BY <2>1, VisualAssumption, FS_Subset
<1>4. n \in Nat /\ SetToSeq(new) \in [1..n -> new]
  BY <1>3, SetToSeqElements
<1>5. \A k \in 1..n : Sound(added[k], frame) /\ added[k] \in Point
  <2> SUFFICES ASSUME NEW k \in 1..n PROVE Sound(added[k], frame) /\ added[k] \in Point
    OBVIOUS
  <2>1. added[k] = NewPoint(SetToSeq(new)[k]) /\ SetToSeq(new)[k] \in Positions
    BY <1>3, <1>4
  <2> QED BY <1>1, <2>1, NewSound DEF Sound
<1>6. added \in [1..n -> Point]
  BY <1>5
<1>7. added \in Seq(Point) /\ Len(added) = n
  <2> HIDE DEF n, added
  <2>1. added \in Seq(Point)
    BY <1>4, <1>6, SeqDef
  <2> QED BY <1>4, <1>6, <2>1, LenProperties
<1>8. /\ points' \in Seq(Point) /\ Len(points') = Len(points) + n
      /\ \A i \in 1..Len(points) + n :
           points'[i] = IF i <= Len(points) THEN points[i] ELSE added[i - Len(points)]
  <2> HIDE DEF n
  <2>1. points' = points \o added
    BY <1>2 DEF n
  <2> HIDE DEF added
  <2> QED BY <1>1, <1>7, <2>1, ConcatProperties
<1>9. Ids' = 1..Len(points) + n
  <2> HIDE DEF n, added
  <2> QED BY <1>8, LenProperties DEF Ids
<1>10. \A i \in Ids' : Sound(points'[i], frame)
  <2> SUFFICES ASSUME NEW i \in Ids' PROVE Sound(points'[i], frame)
    OBVIOUS
  <2> HIDE DEF n, added
  <2>1. i \in 1..Len(points) + n
    BY <1>9
  <2>2. CASE i <= Len(points)
    BY <1>1, <1>4, <1>8, <2>1, <2>2
  <2>3. CASE ~(i <= Len(points))
    <3>1. i - Len(points) \in 1..n
      BY <1>1, <1>4, <2>1, <2>3
    <3> QED BY <1>5, <1>8, <2>1, <2>3, <3>1
  <2> QED BY <2>2, <2>3
<1>11. submap \subseteq Ids' /\ \A i \in submap : points'[i].ref # NoRef
  <2> HIDE DEF n, added
  <2> QED BY <1>1, <1>4, <1>8, <1>9
<1>12. /\ phase' = "update" /\ frame' = frame /\ submap' = submap /\ updated' = updated
       /\ view' = Nowhere /\ scan' = {} /\ mapCells' = {}
  BY DEF Generate
<1>13. TypeOK'
  <2> HIDE DEF n, added
  <2>1. Nowhere \in [Positions -> Cells \cup {Hidden}]
    BY DEF Nowhere
  <2>2. Len(points') <= MaxPoints
    BY <1>2, <1>8 DEF n
  <2> QED BY <1>1, <1>8, <1>11, <1>12, <2>1, <2>2, VisualAssumption DEF TypeOK
<1> QED BY <1>1, <1>10, <1>11, <1>12, <1>13 DEF IInv, TrackedHaveRef

LEMMA UpdateInv == IInv /\ Update => IInv'
<1> SUFFICES ASSUME IInv, Update PROVE IInv'
  OBVIOUS
<1>1. /\ frame \in 1..MaxFrames
      /\ points \in Seq(Point) /\ Len(points) <= MaxPoints
      /\ \A i \in Ids : Sound(points[i], frame)
      /\ submap \subseteq Ids
      /\ \A i \in submap : points[i].ref # NoRef
  BY VisualAssumption DEF IInv, TypeOK, TrackedHaveRef, Update
<1>2. PICK moved \in SUBSET {i \in submap : ~points[i].converged}, worst \in [submap -> 1..frame] :
        /\ \A i \in submap : worst[i] \in points[i].obs
        /\ points' = [i \in Ids |->
             IF i \in submap THEN Observed(points[i], worst[i], i \in moved) ELSE points[i]]
        /\ updated' = moved
  BY DEF Update
<1>3. ASSUME NEW i \in Ids PROVE Sound(points'[i], frame)
  <2>1. CASE i \in submap
    <3> DEFINE m == i \in moved
    <3>1. points'[i] = Observed(points[i], worst[i], m)
      BY <1>2, <2>1
    <3>2. m \in BOOLEAN /\ worst[i] \in points[i].obs
      BY <1>2, <2>1
    <3> HIDE DEF m
    <3> QED BY <1>1, <2>1, <3>1, <3>2, ObservedSound
  <2>2. CASE i \notin submap
    BY <1>1, <1>2, <2>2
  <2> QED BY <2>1, <2>2
<1>4. points' \in [Ids -> Point]
  <2>1. \A i \in Ids : points'[i] \in Point
    BY <1>3 DEF Sound
  <2> QED BY <1>2, <2>1
<1>5. points' \in Seq(Point) /\ Len(points') = Len(points) /\ Ids' = Ids
  BY <1>1, <1>4, MapIsSeq DEF Ids
<1>6. /\ phase' = "reference" /\ frame' = frame /\ submap' = submap
      /\ view' = view /\ scan' = scan /\ mapCells' = mapCells
  BY DEF Update
<1>7. updated' \subseteq submap'
  BY <1>2, <1>6
<1>8. TypeOK'
  BY <1>1, <1>5, <1>6, <1>7 DEF IInv, TypeOK
<1> QED BY <1>1, <1>3, <1>5, <1>6, <1>8 DEF IInv, TrackedHaveRef

LEMMA ReferenceInv == IInv /\ Reference => IInv'
<1> SUFFICES ASSUME IInv, Reference PROVE IInv'
  OBVIOUS
<1>1. /\ frame \in 0..MaxFrames
      /\ points \in Seq(Point) /\ Len(points) <= MaxPoints
      /\ \A i \in Ids : Sound(points[i], frame)
      /\ submap \subseteq Ids /\ updated \subseteq submap
  BY DEF IInv, TypeOK
<1>2. PICK steady \in SUBSET {i \in Rescored : Cardinality(points[i].obs) > ConvergeAfter},
           best \in [Rescored -> 0..frame] :
        /\ \A i \in Rescored : best[i] \in points[i].obs \cup {points[i].ref}
        /\ points' = [i \in Ids |->
             IF i \in Rescored
               THEN [points[i] EXCEPT !.ref = best[i], !.converged = i \in steady]
               ELSE points[i]]
  BY DEF Reference
<1>3. ASSUME NEW i \in Ids PROVE Sound(points'[i], frame)
  <2>1. Sound(points[i], frame)
    BY <1>1
  <2>2. CASE i \in Rescored
    <3> DEFINE b == best[i]
               c == i \in steady
    <3>0. best \in [Rescored -> 0..frame]
      BY <1>2
    <3>0a. b \in 0..frame
      BY <2>2, <3>0
    <3>0b. \A j \in Rescored : best[j] \in points[j].obs \cup {points[j].ref}
      BY <1>2
    <3>0c. b \in points[i].obs \cup {points[i].ref}
      BY <2>2, <3>0b
    <3>0d. c \in BOOLEAN
      OBVIOUS
    <3>1. b \in 0..frame /\ c \in BOOLEAN /\ b \in points[i].obs \cup {points[i].ref}
      BY <3>0a, <3>0c, <3>0d
    <3>2. points'[i] = [points[i] EXCEPT !.ref = b, !.converged = c]
      BY <1>2, <2>2
    <3>3. b \in 0..MaxFrames
      BY <1>1, <3>1, VisualAssumption
    <3> HIDE DEF b, c
    <3>4. /\ points'[i] \in Point
          /\ points'[i].obs = points[i].obs /\ points'[i].ref = b
      BY <2>1, <3>1, <3>2, <3>3 DEF Sound, Point
    <3>5. b # NoRef => b \in points[i].obs
      BY <2>1, <3>1 DEF Sound
    <3> QED BY <2>1, <3>4, <3>5 DEF Sound
  <2>3. CASE i \notin Rescored
    BY <1>2, <2>1, <2>3
  <2> QED BY <2>2, <2>3
<1>4. points' \in [Ids -> Point]
  <2>1. \A i \in Ids : points'[i] \in Point
    BY <1>3 DEF Sound
  <2> QED BY <1>2, <2>1
<1>5. points' \in Seq(Point) /\ Len(points') = Len(points) /\ Ids' = Ids
  BY <1>1, <1>4, MapIsSeq DEF Ids
<1>6. /\ phase' = "retrieve" /\ frame' = frame /\ submap' = {} /\ updated' = {}
      /\ view' = view /\ scan' = scan /\ mapCells' = mapCells
  BY DEF Reference
<1>7. TypeOK'
  BY <1>1, <1>5, <1>6 DEF IInv, TypeOK
<1> QED BY <1>3, <1>5, <1>6, <1>7 DEF IInv, TrackedHaveRef

LEMMA StepInv == IInv /\ [Next]_vars => IInv'
<1> SUFFICES ASSUME IInv, [Next]_vars PROVE IInv'
  OBVIOUS
<1>1. CASE Retrieve BY <1>1, RetrieveInv
<1>2. CASE Generate BY <1>2, GenerateInv
<1>3. CASE Update BY <1>3, UpdateInv
<1>4. CASE Reference BY <1>4, ReferenceInv
<1>5. CASE UNCHANGED vars
  BY <1>5 DEF IInv, TypeOK, TrackedHaveRef, Ids, vars
<1> QED BY <1>1, <1>2, <1>3, <1>4, <1>5 DEF Next

LEMMA AlwaysInv == Spec => []IInv
BY InitInv, StepInv, PTL DEF Spec

-----------------------------------------------------------------------------
(***************************************************************************)
(* The theorems.                                                           *)
(***************************************************************************)
\* The variables of the visual map keep their types.
THEOREM MapTypes == Spec => []TypeOK
<1>1. IInv => TypeOK
  BY DEF IInv
<1> QED BY <1>1, AlwaysInv, PTL

\* ref_patch never points at an observation that updateVisualMapPoints has
\* deleted, however often the reference is chosen again.
THEOREM NoDanglingReference == Spec => []RefIsObservation
<1>1. IInv => RefIsObservation
  BY DEF IInv, Sound, RefIsObservation
<1> QED BY <1>1, AlwaysInv, PTL

\* No pass takes the last observation of a visual point, so obs_.back() of a
\* tracked point exists and the point can be found again.
THEOREM NoPointForgotten == Spec => []ObservationsKept
<1>1. IInv => ObservationsKept
  BY DEF IInv, Sound, ObservationsKept
<1> QED BY <1>1, AlwaysInv, PTL

\* A visual point holds at most MaxObs observations.
THEOREM ObservationsLimited == Spec => []ObservationsBounded
<1>1. IInv => ObservationsBounded
  BY DEF IInv, Sound, ObservationsBounded
<1> QED BY <1>1, AlwaysInv, PTL

-----------------------------------------------------------------------------
(***************************************************************************)
(* No point is made where one is seen.                                     *)
(***************************************************************************)
\* Ahead of the origin the two voxel numbers agree.
LEMMA KeysAgreeAhead ==
  ASSUME NEW x \in Int, NEW y \in Int, y >= 0, Floor(x) = Floor(y)
  PROVE  LookupKey(x) = InsertKey(y)
<1>1. Floor(y) = InsertKey(y) /\ Floor(y) \in Int /\ Floor(y) >= 0
  BY ResAssumption DEF InsertKey, Floor
<1>2. ~(Floor(x) < 0)
  BY <1>1
<1> QED BY <1>1, <1>2 DEF LookupKey

\* While points are made, every map point that is ahead of the origin, in a
\* voxel of the scan and in the image has its cell marked.
SeenIsMarked ==
  phase = "generate" =>
    \A j \in Ids :
      /\ points[j].at >= 0
      /\ \E x \in scan : Floor(x) = Floor(points[j].at)
      /\ CellOf(j) # Hidden
      => CellOf(j) \in mapCells

LEMMA RetrieveMarks == IInv /\ Retrieve => SeenIsMarked'
<1> SUFFICES ASSUME IInv, Retrieve,
                    NEW j \in Ids', points'[j].at >= 0,
                    NEW x \in scan', Floor(x) = Floor(points'[j].at),
                    view'[points'[j].at] # Hidden
             PROVE  view'[points'[j].at] \in mapCells'
  BY DEF SeenIsMarked, CellOf
<1>1. PICK v \in [Positions -> Cells \cup {Hidden}], s \in SUBSET Positions :
        \E ray \in SUBSET (RayKeys \ ScanKeys(s)) :
        LET found == Found(ScanKeys(s) \cup ray, v)
        IN /\ view' = v /\ scan' = s
           /\ mapCells' = {v[points[i].at] : i \in found}
           /\ \E matched \in SUBSET found :
                /\ OnePerCell(matched, [i \in found |-> v[points[i].at]])
                /\ submap' \in SUBSET matched
                /\ \E ref \in [matched -> 1..frame] :
                     /\ \A i \in matched : ref[i] \in References(points[i])
                     /\ points' = [i \in Ids |->
                          IF i \in matched THEN Matched(points[i], ref[i]) ELSE points[i]]
  BY DEF Retrieve
<1>2. PICK ray \in SUBSET (RayKeys \ ScanKeys(s)) :
        LET found == Found(ScanKeys(s) \cup ray, v)
        IN /\ view' = v /\ scan' = s
           /\ mapCells' = {v[points[i].at] : i \in found}
           /\ \E matched \in SUBSET found :
                /\ OnePerCell(matched, [i \in found |-> v[points[i].at]])
                /\ submap' \in SUBSET matched
                /\ \E ref \in [matched -> 1..frame] :
                     /\ \A i \in matched : ref[i] \in References(points[i])
                     /\ points' = [i \in Ids |->
                          IF i \in matched THEN Matched(points[i], ref[i]) ELSE points[i]]
  BY <1>1
<1> DEFINE keys == ScanKeys(s) \cup ray
           found == Found(keys, v)
<1>3. PICK matched \in SUBSET found : \E ref \in [matched -> 1..frame] :
        points' = [i \in Ids |->
          IF i \in matched THEN Matched(points[i], ref[i]) ELSE points[i]]
  BY <1>2
<1>4. PICK ref \in [matched -> 1..frame] :
        points' = [i \in Ids |->
          IF i \in matched THEN Matched(points[i], ref[i]) ELSE points[i]]
  BY <1>3
<1>5. j \in Ids /\ Sound(points[j], frame)
  BY <1>4 DEF Ids, IInv
<1>6. points'[j].at = points[j].at
  <2>1. points[j] \in Point
    BY <1>5 DEF Sound
  <2>2. CASE j \in matched
    <3>1. points'[j] = Matched(points[j], ref[j])
      BY <1>4, <1>5, <2>2
    <3> QED BY <2>1, <3>1 DEF Matched, Point
  <2>3. CASE j \notin matched
    BY <1>4, <1>5, <2>3
  <2> QED BY <2>2, <2>3
<1>7. points[j].at \in Int /\ x \in Int /\ x \in s
  BY <1>2, <1>5, VisualAssumption DEF Sound, Point
<1>8. InsertKey(points[j].at) \in keys
  <2>1. LookupKey(x) = InsertKey(points[j].at)
    BY <1>6, <1>7, KeysAgreeAhead
  <2> QED BY <1>7, <2>1 DEF ScanKeys
<1>9. j \in found
  BY <1>2, <1>5, <1>6, <1>8 DEF Found, Sound
<1>10. mapCells' = {v[points[i].at] : i \in found} /\ view' = v
  BY <1>2
<1> HIDE DEF found
<1> QED BY <1>6, <1>9, <1>10

LEMMA StepMarks == IInv /\ SeenIsMarked /\ [Next]_vars => SeenIsMarked'
<1> SUFFICES ASSUME IInv, SeenIsMarked, [Next]_vars PROVE SeenIsMarked'
  OBVIOUS
<1>1. CASE Retrieve BY <1>1, RetrieveMarks
<1>2. CASE Generate BY <1>2 DEF Generate, SeenIsMarked
<1>3. CASE Update BY <1>3 DEF Update, SeenIsMarked
<1>4. CASE Reference BY <1>4 DEF Reference, SeenIsMarked
<1>5. CASE UNCHANGED vars
  BY <1>5 DEF SeenIsMarked, CellOf, Ids, vars
<1> QED BY <1>1, <1>2, <1>3, <1>4, <1>5 DEF Next

\* generateVisualMapPoints adds no point in a cell that already shows a point
\* ahead of the origin in a voxel of the scan, because retrieval has found
\* that point and marked its cell.
THEOREM NoPointTwice == Spec => NotMadeTwice
<1> DEFINE P == \A i \in DOMAIN points' \ Ids, j \in Ids :
                  /\ points[j].at >= 0
                  /\ \E x \in scan : Floor(x) = Floor(points[j].at)
                  => view[points'[i].at] # CellOf(j)
<1>1. Init => SeenIsMarked
  BY DEF Init, SeenIsMarked
<1>2. IInv /\ SeenIsMarked /\ [Next]_vars => [P]_vars
  <2> SUFFICES ASSUME IInv, SeenIsMarked, Next PROVE P
    OBVIOUS
  <2>1. CASE Generate
    <3> SUFFICES ASSUME NEW i \in DOMAIN points' \ Ids, NEW j \in Ids,
                        points[j].at >= 0,
                        \E x \in scan : Floor(x) = Floor(points[j].at)
                 PROVE  view[points'[i].at] # CellOf(j)
      OBVIOUS
    <3>1. view[points'[i].at] \in Cells \ mapCells
      BY <2>1, GenerateAdds DEF FreeCells
    <3>2. CASE CellOf(j) = Hidden
      BY <3>1, <3>2, HiddenIsNoCell
    <3>3. CASE CellOf(j) # Hidden
      BY <2>1, <3>1, <3>3 DEF SeenIsMarked, Generate
    <3> QED BY <3>2, <3>3
  <2>2. CASE Retrieve
    <3>1. DOMAIN points' = Ids
      BY <2>2 DEF Retrieve
    <3> QED BY <3>1
  <2>3. CASE Update
    <3>1. DOMAIN points' = Ids
      BY <2>3 DEF Update
    <3> QED BY <3>1
  <2>4. CASE Reference
    <3>1. DOMAIN points' = Ids
      BY <2>4 DEF Reference
    <3> QED BY <3>1
  <2> QED BY <2>1, <2>2, <2>3, <2>4 DEF Next
<1> QED BY <1>1, <1>2, StepMarks, InitInv, StepInv, PTL DEF Spec, NotMadeTwice

\* A converged point with a reference keeps it, and its observations only get
\* fewer: References offers nothing else to match it with, updateVisualMapPoints
\* deletes all but the reference, and updateReferencePatch passes it over.
THEOREM ConvergedStays == Spec => ConvergedSettled
<1> DEFINE Stays(i) == points[i].converged =>
                         /\ points'[i].obs \subseteq points[i].obs
                         /\ points[i].ref # NoRef => points'[i].ref = points[i].ref
           P == \A i \in Ids : Stays(i)
<1>1. IInv /\ [Next]_vars => [P]_vars
  <2> SUFFICES ASSUME IInv, Next, NEW i \in Ids, points[i].converged
               PROVE  /\ points'[i].obs \subseteq points[i].obs
                      /\ points[i].ref # NoRef => points'[i].ref = points[i].ref
    OBVIOUS
  <2>1. /\ points \in Seq(Point) /\ points[i] \in Point
        /\ points[i].ref # NoRef => points[i].ref \in points[i].obs
        /\ frame \in Nat /\ points[i].obs \subseteq 1..frame
    BY VisualAssumption DEF IInv, TypeOK, Sound
  <2>2. CASE points'[i] = points[i]
    BY <2>2
  <2>3. CASE Retrieve
    <3>1. PICK f : \/ f \in References(points[i]) /\ points'[i] = Matched(points[i], f)
                 \/ points'[i] = points[i]
      BY <2>3 DEF Retrieve
    <3>2. CASE f \in References(points[i]) /\ points'[i] = Matched(points[i], f)
      <4>1. points'[i].obs = points[i].obs /\ points'[i].ref = f
        BY <2>1, <3>2 DEF Matched, Point
      <4>2. ASSUME points[i].ref # NoRef PROVE f = points[i].ref
        <5>1. CASE Cardinality(points[i].obs) = 1
          <6>1. IsFiniteSet(points[i].obs)
            BY <2>1, ObsFinite
          <6>2. PICK x : points[i].obs = {x}
            BY <5>1, <6>1, FS_Singleton
          <6> QED BY <2>1, <3>2, <4>2, <5>1, <6>2 DEF References
        <5>2. CASE Cardinality(points[i].obs) # 1
          BY <3>2, <4>2, <5>2 DEF References
        <5> QED BY <5>1, <5>2
      <4> QED BY <4>1, <4>2
    <3> QED BY <2>2, <3>1, <3>2
  <2>4. CASE Generate
    BY <2>2, <2>4, GenerateAdds
  <2>5. CASE Update
    <3>1. PICK w, m : points'[i] \in {points[i], Observed(points[i], w, m)}
      BY <2>5 DEF Update
    <3>2. Observed(points[i], w, m) = NonRefDeleted(points[i])
      BY DEF Observed
    <3>3. /\ NonRefDeleted(points[i]).obs = points[i].obs \cap {points[i].ref}
          /\ NonRefDeleted(points[i]).ref = points[i].ref
      BY <2>1 DEF NonRefDeleted, Point
    <3> QED BY <3>1, <3>2, <3>3
  <2>6. CASE Reference
    <3>1. i \notin Rescored
      BY DEF Rescored
    <3>2. points'[i] = points[i]
      BY <2>6, <3>1 DEF Reference
    <3> QED BY <3>2
  <2> QED BY <2>3, <2>4, <2>5, <2>6 DEF Next
<1> QED BY <1>1, AlwaysInv, PTL DEF Spec, ConvergedSettled
=============================================================================
