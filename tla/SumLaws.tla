------------------------------ MODULE SumLaws ------------------------------
(***************************************************************************)
(* Laws of SumFunction over a finite domain, by induction stated on sets   *)
(* of naturals and on sets of subsets.                                     *)
(***************************************************************************)
EXTENDS Integers, Functions, FiniteSets, FiniteSetTheorems, WellFoundedInduction, TLAPS

(***************************************************************************)
(* Induction, over a set instead of a predicate.                           *)
(***************************************************************************)
Smaller == {ss \in Nat \X Nat : ss[1] < ss[2]}

LEMMA LeastOf ==
  ASSUME NEW S \in SUBSET Nat, S # {}
  PROVE  \E k \in S : \A j \in S : k <= j
<1>1. IsWellFoundedOn(Smaller, Nat)
  BY NatLessThanWellFounded DEF OpToRel, Smaller
<1>2. PICK k \in S : \A j \in S : ~(<<j, k>> \in Smaller)
  BY <1>1, WFMin
<1>3. \A j \in S : <<j, k>> \in Smaller <=> j < k
  BY DEF Smaller
<1>4. \A j \in S : ~(j < k) /\ j \in Nat /\ k \in Nat
  BY <1>2, <1>3
<1>5. \A j \in S : k <= j
  BY <1>4
<1> QED BY <1>5

LEMMA Climb ==
  ASSUME NEW N, 0 \in N, \A n \in Nat : n \in N => n + 1 \in N
  PROVE  Nat \subseteq N
<1> DEFINE S == Nat \ N
<1> SUFFICES ASSUME S # {} PROVE FALSE
  OBVIOUS
<1>1. PICK k \in S : \A j \in S : k <= j
  BY LeastOf
<1>2. k - 1 \in Nat /\ k - 1 \notin S
  BY <1>1
<1>3. k - 1 + 1 = k
  BY <1>1
<1> QED BY <1>1, <1>2, <1>3

\* A set has every subset of D if it has each whose smaller ones it has.
Inherits(D, P) == \A s \in SUBSET D : (\A x \in s : s \ {x} \in P) => s \in P

LEMMA Build ==
  ASSUME NEW D, IsFiniteSet(D), NEW P, Inherits(D, P)
  PROVE  SUBSET D \subseteq P
<1> DEFINE N == {n \in Nat : \A s \in SUBSET D : Cardinality(s) = n => s \in P}
<1>1. \A s \in SUBSET D : IsFiniteSet(s) /\ Cardinality(s) \in Nat
  BY FS_Subset, FS_CardinalityType
<1>2. 0 \in N
  <2>1. {} \in P
    BY DEF Inherits
  <2> QED BY <1>1, <2>1, FS_EmptySet
<1>3. ASSUME NEW n \in Nat, n \in N PROVE n + 1 \in N
  <2> SUFFICES ASSUME NEW s \in SUBSET D, Cardinality(s) = n + 1, NEW x \in s
               PROVE  s \ {x} \in P
    BY DEF Inherits
  <2>1. s \ {x} \in SUBSET D /\ Cardinality(s \ {x}) = Cardinality(s) - 1
    BY <1>1, FS_RemoveElement
  <2>2. Cardinality(s \ {x}) = n
    BY <2>1
  <2> QED BY <1>3, <2>1, <2>2 DEF Inherits
<1> HIDE DEF N
<1>4. Nat \subseteq N
  BY <1>2, <1>3, Climb
<1> QED BY <1>1, <1>4 DEF N

(***************************************************************************)
(* The recursion of SumFunction.                                           *)
(***************************************************************************)
First(s) == CHOOSE x \in s : TRUE
\* g takes the sum of f over each set in Q, in the order of First.
AddsInOrder(f, Q, g) ==
  g = [s \in Q |-> IF s = {} THEN 0 ELSE f[First(s)] + g[s \ {First(s)}]]

LEMMA SumUnfold ==
  ASSUME NEW f
  PROVE  SumFunction(f) = (CHOOSE g : AddsInOrder(f, SUBSET DOMAIN f, g))[DOMAIN f]
BY DEF SumFunction, SumFunctionOnSet, FoldFunctionOnSet, MapThenFoldSet, AddsInOrder, First

LEMMA FirstIn ==
  ASSUME NEW s, s # {}
  PROVE  First(s) \in s
BY DEF First

\* There is such a g: on the sets of at most n elements, for every n.
LEMMA OrderExists ==
  ASSUME NEW D, IsFiniteSet(D), NEW f \in [D -> Int]
  PROVE  \E g \in [SUBSET D -> Int] : AddsInOrder(f, SUBSET D, g)
<1> DEFINE Q(n) == {s \in SUBSET D : Cardinality(s) <= n}
           N == {n \in Nat : \E g \in [Q(n) -> Int] : AddsInOrder(f, Q(n), g)}
<1>1. \A s \in SUBSET D : IsFiniteSet(s) /\ Cardinality(s) \in Nat
  BY FS_Subset, FS_CardinalityType
<1>2. \A s \in SUBSET D : s # {} => /\ First(s) \in s /\ First(s) \in D /\ f[First(s)] \in Int
                                   /\ s \ {First(s)} \in SUBSET D
                                   /\ Cardinality(s \ {First(s)}) = Cardinality(s) - 1
  BY <1>1, FirstIn, FS_RemoveElement
<1>3. 0 \in N
  <2>1. \A s \in Q(0) : s = {}
    BY <1>1, FS_EmptySet
  <2> DEFINE g == [s \in Q(0) |-> 0]
  <2>2. g \in [Q(0) -> Int] /\ AddsInOrder(f, Q(0), g)
    BY <2>1 DEF AddsInOrder
  <2> QED BY <2>2
<1>4. ASSUME NEW n \in Nat, n \in N PROVE n + 1 \in N
  <2> HIDE DEF Q
  <2>1. PICK g \in [Q(n) -> Int] : AddsInOrder(f, Q(n), g)
    BY <1>4
  <2> DEFINE h == [s \in Q(n + 1) |-> IF s = {} THEN 0 ELSE f[First(s)] + g[s \ {First(s)}]]
  <2>2. /\ \A s \in Q(n + 1) : s # {} => /\ s \ {First(s)} \in Q(n) /\ s \ {First(s)} \in Q(n + 1)
                                        /\ f[First(s)] \in Int
        /\ Q(n) \subseteq Q(n + 1)
    <3> SUFFICES /\ \A s \in SUBSET D : Cardinality(s) <= n => Cardinality(s) <= n + 1
                 /\ \A s \in SUBSET D : Cardinality(s) <= n + 1 => Cardinality(s) - 1 <= n
      BY <1>2 DEF Q
    <3> QED BY <1>1
  <2>3. h \in [Q(n + 1) -> Int]
    BY <2>2
  <2>4. \A s \in Q(n) : g[s] = IF s = {} THEN 0 ELSE f[First(s)] + g[s \ {First(s)}]
    BY <2>1 DEF AddsInOrder
  <2>5. \A s \in Q(n) : h[s] = g[s]
    BY <2>2, <2>4
  <2>6. AddsInOrder(f, Q(n + 1), h)
    <3>1. \A s \in Q(n + 1) : s # {} => h[s \ {First(s)}] = g[s \ {First(s)}]
      BY <2>2, <2>5
    <3>2. h = [s \in Q(n + 1) |-> IF s = {} THEN 0 ELSE f[First(s)] + h[s \ {First(s)}]]
      <4> SUFFICES ASSUME NEW s \in Q(n + 1)
                   PROVE  h[s] = IF s = {} THEN 0 ELSE f[First(s)] + h[s \ {First(s)}]
        OBVIOUS
      <4> QED BY <3>1
    <3> HIDE DEF h
    <3> QED BY <3>2 DEF AddsInOrder
  <2> HIDE DEF h
  <2> QED BY <2>3, <2>6
<1> HIDE DEF N
<1>5. Cardinality(D) \in N
  BY <1>1, <1>3, <1>4, Climb
<1>6. Q(Cardinality(D)) = SUBSET D
  BY FS_Subset
<1> HIDE DEF Q
<1> QED BY <1>5, <1>6 DEF N

(***************************************************************************)
(* The order does not matter.                                              *)
(***************************************************************************)
\* g takes the sum of f over each subset of D, whichever element comes first.
AddsUp(f, D, g) ==
  /\ g \in [SUBSET D -> Int] /\ g[{}] = 0
  /\ \A s \in SUBSET D : \A x \in s : g[s] = f[x] + g[s \ {x}]

LEMMA AnyOrder ==
  ASSUME NEW D, IsFiniteSet(D), NEW f \in [D -> Int],
         NEW g \in [SUBSET D -> Int], AddsInOrder(f, SUBSET D, g)
  PROVE  AddsUp(f, D, g)
<1> DEFINE P == {s \in SUBSET D : \A x \in s : g[s] = f[x] + g[s \ {x}]}
<1>1. \A s \in SUBSET D : g[s] = IF s = {} THEN 0 ELSE f[First(s)] + g[s \ {First(s)}]
  BY DEF AddsInOrder
<1>2. ASSUME NEW s \in SUBSET D, \A z \in s : s \ {z} \in P, NEW x \in s
      PROVE  g[s] = f[x] + g[s \ {x}]
  <2> DEFINE y == First(s)
  <2>1. y \in s /\ g[s] = f[y] + g[s \ {y}]
    BY <1>1, FirstIn
  <2> HIDE DEF y
  <2>2. CASE y = x
    BY <2>1, <2>2
  <2>3. CASE y # x
    <3>1. x \in s \ {y} /\ y \in s \ {x} /\ (s \ {x}) \ {y} = (s \ {y}) \ {x}
      BY <2>1, <2>3
    <3>2. /\ g[s \ {x}] = f[y] + g[(s \ {x}) \ {y}]
          /\ g[s \ {y}] = f[x] + g[(s \ {x}) \ {y}]
      BY <1>2, <2>1, <3>1
    <3>3. f[x] \in Int /\ f[y] \in Int /\ g[(s \ {x}) \ {y}] \in Int
      BY <2>1
    <3> QED BY <2>1, <3>2, <3>3
  <2> QED BY <2>2, <2>3
<1>3. Inherits(D, P)
  BY <1>2 DEF Inherits
<1> HIDE DEF P
<1>4. SUBSET D \subseteq P
  BY <1>3, Build
<1> QED BY <1>1, <1>4 DEF AddsUp, P

LEMMA SumIs ==
  ASSUME NEW D, IsFiniteSet(D), NEW f \in [D -> Int]
  PROVE  \E g : AddsUp(f, D, g) /\ SumFunction(f) = g[D]
<1> DEFINE c == CHOOSE g : AddsInOrder(f, SUBSET D, g)
<1>1. PICK g \in [SUBSET D -> Int] : AddsInOrder(f, SUBSET D, g)
  BY OrderExists
<1>2. AddsInOrder(f, SUBSET D, c)
  BY <1>1
<1> HIDE DEF c
<1>3. c[D] = g[D]
  <2> DEFINE P == {s \in SUBSET D : c[s] = g[s]}
  <2>1. \A s \in SUBSET D : c[s] = IF s = {} THEN 0 ELSE f[First(s)] + c[s \ {First(s)}]
    BY <1>2 DEF AddsInOrder
  <2>2. \A s \in SUBSET D : g[s] = IF s = {} THEN 0 ELSE f[First(s)] + g[s \ {First(s)}]
    BY <1>1 DEF AddsInOrder
  <2>3. Inherits(D, P)
    BY <2>1, <2>2, FirstIn DEF Inherits
  <2> HIDE DEF P
  <2>4. SUBSET D \subseteq P
    BY <2>3, Build
  <2> QED BY <2>4 DEF P
<1>4. DOMAIN f = D
  OBVIOUS
<1>5. SumFunction(f) = c[D]
  BY <1>4, SumUnfold DEF c
<1> QED BY <1>1, <1>3, <1>5, AnyOrder

(***************************************************************************)
(* The laws.                                                               *)
(***************************************************************************)
LEMMA SumOfIntegers ==
  ASSUME NEW D, IsFiniteSet(D), NEW f \in [D -> Int]
  PROVE  SumFunction(f) \in Int
<1>1. PICK g : AddsUp(f, D, g) /\ SumFunction(f) = g[D]
  BY SumIs
<1> QED BY <1>1 DEF AddsUp

LEMMA SumMonotone ==
  ASSUME NEW D, IsFiniteSet(D), NEW f \in [D -> Int], NEW h \in [D -> Int],
         \A x \in D : f[x] <= h[x]
  PROVE  SumFunction(f) <= SumFunction(h)
<1>1. PICK a : AddsUp(f, D, a) /\ SumFunction(f) = a[D]
  BY SumIs
<1>2. PICK b : AddsUp(h, D, b) /\ SumFunction(h) = b[D]
  BY SumIs
<1> DEFINE P == {s \in SUBSET D : a[s] <= b[s]}
<1>3. ASSUME NEW s \in SUBSET D, \A z \in s : s \ {z} \in P PROVE a[s] <= b[s]
  <2>1. CASE s = {}
    BY <1>1, <1>2, <2>1 DEF AddsUp
  <2>2. ASSUME NEW x \in s PROVE a[s] <= b[s]
    <3>1. a[s] = f[x] + a[s \ {x}] /\ b[s] = h[x] + b[s \ {x}]
      BY <1>1, <1>2 DEF AddsUp
    <3>2. /\ a[s \ {x}] \in Int /\ b[s \ {x}] \in Int /\ f[x] \in Int /\ h[x] \in Int
          /\ a[s \ {x}] <= b[s \ {x}] /\ f[x] <= h[x]
      BY <1>1, <1>2, <1>3 DEF AddsUp
    <3> QED BY <3>1, <3>2
  <2> QED BY <2>1, <2>2
<1>4. Inherits(D, P)
  BY <1>3 DEF Inherits
<1> HIDE DEF P
<1>5. SUBSET D \subseteq P
  BY <1>4, Build
<1> QED BY <1>1, <1>2, <1>5 DEF P

LEMMA SumAdds ==
  ASSUME NEW D, IsFiniteSet(D), NEW f \in [D -> Int], NEW h \in [D -> Int]
  PROVE  SumFunction([x \in D |-> f[x] + h[x]]) = SumFunction(f) + SumFunction(h)
<1> DEFINE both == [x \in D |-> f[x] + h[x]]
<1>0. both \in [D -> Int] /\ \A x \in D : both[x] = f[x] + h[x]
  OBVIOUS
<1> HIDE DEF both
<1>1. PICK a : AddsUp(f, D, a) /\ SumFunction(f) = a[D]
  BY SumIs
<1>2. PICK b : AddsUp(h, D, b) /\ SumFunction(h) = b[D]
  BY SumIs
<1>3. PICK c : AddsUp(both, D, c) /\ SumFunction(both) = c[D]
  BY <1>0, SumIs
<1> DEFINE P == {s \in SUBSET D : c[s] = a[s] + b[s]}
<1>4. ASSUME NEW s \in SUBSET D, \A z \in s : s \ {z} \in P PROVE c[s] = a[s] + b[s]
  <2>1. CASE s = {}
    BY <1>1, <1>2, <1>3, <2>1 DEF AddsUp
  <2>2. ASSUME NEW x \in s PROVE c[s] = a[s] + b[s]
    <3>1. /\ a[s] = f[x] + a[s \ {x}] /\ b[s] = h[x] + b[s \ {x}]
          /\ c[s] = both[x] + c[s \ {x}]
      BY <1>1, <1>2, <1>3 DEF AddsUp
    <3>2. /\ a[s \ {x}] \in Int /\ b[s \ {x}] \in Int /\ f[x] \in Int /\ h[x] \in Int
          /\ c[s \ {x}] = a[s \ {x}] + b[s \ {x}] /\ both[x] = f[x] + h[x]
      BY <1>0, <1>1, <1>2, <1>4 DEF AddsUp
    <3> QED BY <3>1, <3>2
  <2> QED BY <2>1, <2>2
<1>5. Inherits(D, P)
  BY <1>4 DEF Inherits
<1> HIDE DEF P
<1>6. SUBSET D \subseteq P
  BY <1>5, Build
<1> QED BY <1>1, <1>2, <1>3, <1>6 DEF P, both

\* A sum of one summand, or of none.
LEMMA SumOfOne ==
  ASSUME NEW D, IsFiniteSet(D), NEW y, NEW v \in Int
  PROVE  SumFunction([x \in D |-> IF x = y THEN v ELSE 0]) = IF y \in D THEN v ELSE 0
<1> DEFINE f == [x \in D |-> IF x = y THEN v ELSE 0]
<1>0. f \in [D -> Int] /\ \A x \in D : f[x] = IF x = y THEN v ELSE 0
  OBVIOUS
<1> HIDE DEF f
<1>1. PICK a : AddsUp(f, D, a) /\ SumFunction(f) = a[D]
  BY <1>0, SumIs
<1> DEFINE P == {s \in SUBSET D : a[s] = IF y \in s THEN v ELSE 0}
<1>2. ASSUME NEW s \in SUBSET D, \A z \in s : s \ {z} \in P PROVE a[s] = IF y \in s THEN v ELSE 0
  <2>1. CASE s = {}
    BY <1>1, <2>1 DEF AddsUp
  <2>2. ASSUME NEW x \in s PROVE a[s] = IF y \in s THEN v ELSE 0
    <3>1. a[s] = f[x] + a[s \ {x}]
      BY <1>1 DEF AddsUp
    <3>2. a[s \ {x}] = (IF y \in s /\ y # x THEN v ELSE 0) /\ f[x] = IF x = y THEN v ELSE 0
      BY <1>0, <1>2
    <3> QED BY <3>1, <3>2
  <2> QED BY <2>1, <2>2
<1>3. Inherits(D, P)
  BY <1>2 DEF Inherits
<1> HIDE DEF P
<1>4. SUBSET D \subseteq P
  BY <1>3, Build
<1> QED BY <1>1, <1>4 DEF P, f

\* A sum of equal summands.
LEMMA SumOfEqual ==
  ASSUME NEW D, IsFiniteSet(D), NEW v \in Int
  PROVE  SumFunction([x \in D |-> v]) = v * Cardinality(D)
<1> DEFINE f == [x \in D |-> v]
<1>0. f \in [D -> Int] /\ \A x \in D : f[x] = v
  OBVIOUS
<1> HIDE DEF f
<1>1. PICK a : AddsUp(f, D, a) /\ SumFunction(f) = a[D]
  BY <1>0, SumIs
<1> DEFINE P == {s \in SUBSET D : a[s] = v * Cardinality(s)}
<1>2. ASSUME NEW s \in SUBSET D, \A z \in s : s \ {z} \in P PROVE a[s] = v * Cardinality(s)
  <2>1. CASE s = {}
    <3>1. a[s] = 0 /\ Cardinality(s) = 0
      BY <1>1, <2>1, FS_EmptySet DEF AddsUp
    <3> QED BY <3>1
  <2>2. ASSUME NEW x \in s PROVE a[s] = v * Cardinality(s)
    <3>1. a[s] = v + a[s \ {x}] /\ a[s \ {x}] = v * Cardinality(s \ {x})
      BY <1>0, <1>1, <1>2 DEF AddsUp
    <3>2. Cardinality(s) \in Nat /\ Cardinality(s \ {x}) = Cardinality(s) - 1
      BY FS_Subset, FS_CardinalityType, FS_RemoveElement
    <3>3. \A n \in Nat : v + v * (n - 1) = v * n
      OBVIOUS
    <3> QED BY <3>1, <3>2, <3>3
  <2> QED BY <2>1, <2>2
<1>3. Inherits(D, P)
  BY <1>2 DEF Inherits
<1> HIDE DEF P
<1>4. SUBSET D \subseteq P
  BY <1>3, Build
<1> QED BY <1>1, <1>4 DEF P, f

LEMMA SumOfNone ==
  ASSUME NEW D, IsFiniteSet(D), NEW f \in [D -> Int], \A x \in D : f[x] = 0
  PROVE  SumFunction(f) = 0
<1>1. PICK z \in Int : z = 0
  OBVIOUS
<1>2. f = [x \in D |-> z]
  BY <1>1
<1>3. SumFunction(f) = z * Cardinality(D)
  BY <1>2, SumOfEqual
<1>4. Cardinality(D) \in Nat
  BY FS_CardinalityType
<1> QED BY <1>1, <1>3, <1>4

\* A sum is at most the sum of its parts' weights, when each part weighs at
\* least its own sum and every summand is in some part.
Covered(D, h, part, b) == \A x \in D : h[x] = 0 \/ \E q \in b : h[x] <= part[q][x]

LEMMA SumOfParts ==
  ASSUME NEW D, IsFiniteSet(D), NEW f \in [D -> Nat],
         NEW B, IsFiniteSet(B), NEW w \in [B -> Nat], NEW part \in [B -> [D -> Nat]],
         \A q \in B : SumFunction(part[q]) <= w[q], Covered(D, f, part, B)
  PROVE  SumFunction(f) <= SumFunction(w)
<1>1. PICK a : AddsUp(w, B, a) /\ SumFunction(w) = a[B]
  BY SumIs
<1> DEFINE P == {b \in SUBSET B :
                   \A h \in [D -> Nat] : Covered(D, h, part, b) => SumFunction(h) <= a[b]}
<1>2. ASSUME NEW b \in SUBSET B, \A z \in b : b \ {z} \in P,
             NEW h \in [D -> Nat], Covered(D, h, part, b)
      PROVE  SumFunction(h) <= a[b]
  <2>1. CASE b = {}
    <3>1. \A x \in D : h[x] = 0
      BY <1>2, <2>1 DEF Covered
    <3>2. SumFunction(h) = 0
      BY <3>1, SumOfNone
    <3>3. a[b] = 0
      BY <1>1, <2>1 DEF AddsUp
    <3> QED BY <3>2, <3>3
  <2>2. ASSUME NEW q \in b PROVE SumFunction(h) <= a[b]
    <3> DEFINE own == [x \in D |-> IF h[x] <= part[q][x] THEN h[x] ELSE 0]
               rest == [x \in D |-> IF h[x] <= part[q][x] THEN 0 ELSE h[x]]
    <3>1. own \in [D -> Nat] /\ rest \in [D -> Nat] /\ part[q] \in [D -> Nat]
      OBVIOUS
    <3>2. [x \in D |-> own[x] + rest[x]] = h
      <4>1. \A x \in D : own[x] + rest[x] = h[x]
        OBVIOUS
      <4> HIDE DEF own, rest
      <4> QED BY <4>1
    <3>3. \A x \in D : own[x] <= part[q][x]
      BY <3>1
    <3>4. Covered(D, rest, part, b \ {q})
      BY <1>2 DEF Covered
    <3> HIDE DEF own, rest
    <3>5. own \in [D -> Int] /\ rest \in [D -> Int] /\ part[q] \in [D -> Int]
      BY <3>1
    <3>6. SumFunction(h) = SumFunction(own) + SumFunction(rest)
      BY <3>2, <3>5, SumAdds
    <3>7. SumFunction(own) <= SumFunction(part[q])
      BY <3>3, <3>5, SumMonotone
    <3>8. SumFunction(rest) <= a[b \ {q}]
      BY <1>2, <3>1, <3>4
    <3>9. a[b] = w[q] + a[b \ {q}] /\ a[b \ {q}] \in Int /\ w[q] \in Int
      <4>1. b \ {q} \in SUBSET B /\ q \in B
        BY <2>2
      <4>2. a \in [SUBSET B -> Int] /\ a[b] = w[q] + a[b \ {q}]
        BY <1>1, <2>2 DEF AddsUp
      <4> HIDE DEF P
      <4> QED BY <4>1, <4>2
    <3>10. /\ SumFunction(own) \in Int /\ SumFunction(rest) \in Int
           /\ SumFunction(part[q]) \in Int /\ SumFunction(part[q]) <= w[q]
      BY <3>5, SumOfIntegers
    <3> QED BY <3>6, <3>7, <3>8, <3>9, <3>10
  <2> QED BY <2>1, <2>2
<1>3. Inherits(B, P)
  BY <1>2 DEF Inherits
<1> HIDE DEF P
<1>4. SUBSET B \subseteq P
  BY <1>3, Build
<1> QED BY <1>1, <1>4 DEF P

\* Functions from a finite set to another are finitely many: they are sets
\* of pairs.
LEMMA FiniteFunctions ==
  ASSUME NEW D, IsFiniteSet(D), NEW R, IsFiniteSet(R)
  PROVE  IsFiniteSet([D -> R])
<1> DEFINE pairs == [f \in [D -> R] |-> {<<x, f[x]>> : x \in D}]
<1>1. IsFiniteSet(SUBSET (D \X R))
  BY FS_Product, FS_SUBSET
<1>2. pairs \in [[D -> R] -> SUBSET (D \X R)]
  OBVIOUS
<1>3. ASSUME NEW f \in [D -> R], NEW h \in [D -> R], pairs[f] = pairs[h]
      PROVE  f = h
  <2>1. \A x \in D : <<x, f[x]>> \in pairs[h]
    BY <1>3
  <2>2. \A x \in D : f[x] = h[x]
    BY <2>1
  <2> QED BY <2>2
<1> HIDE DEF pairs
<1>4. pairs \in Injection([D -> R], SUBSET (D \X R))
  BY <1>2, <1>3 DEF Injection, IsInjective
<1> QED BY <1>1, <1>4, FS_Injection

LEMMA WithoutLast ==
  ASSUME NEW k \in Nat
  PROVE  /\ (1..(k + 1)) \ {k + 1} = 1..k
         /\ k + 1 \in 1..(k + 1)
         /\ \A n \in Nat : k + 1 <= n => 1..(k + 1) \subseteq 1..n /\ k + 1 \in 1..n
OBVIOUS

\* A sum of differences.
LEMMA SumTelescopes ==
  ASSUME NEW n \in Nat, NEW c \in [1..(n + 1) -> Int],
         NEW f \in [1..n -> Int], \A i \in 1..n : f[i] = c[i + 1] - c[i]
  PROVE  SumFunction(f) = c[n + 1] - c[1]
<1>0. IsFiniteSet(1..n)
  BY FS_Interval
<1>1. PICK g : AddsUp(f, 1..n, g) /\ SumFunction(f) = g[1..n]
  BY <1>0, SumIs
<1>2. /\ g[{}] = 0
      /\ \A s \in SUBSET (1..n) : \A x \in s : g[s] = f[x] + g[s \ {x}]
  BY <1>1 DEF AddsUp
<1>3. ASSUME NEW k \in Nat, k + 1 <= n, g[1..k] = c[k + 1] - c[1]
      PROVE  g[1..(k + 1)] = c[k + 1 + 1] - c[1]
  <2>1. /\ k + 1 \in 1..(k + 1) /\ k + 1 \in 1..n
        /\ 1..(k + 1) \in SUBSET (1..n) /\ (1..(k + 1)) \ {k + 1} = 1..k
    BY <1>3, WithoutLast
  <2> DEFINE s == 1..(k + 1)
             x == k + 1
  <2>2. s \in SUBSET (1..n) /\ x \in s /\ s \ {x} = 1..k
    BY <2>1
  <2> HIDE DEF s, x
  <2>3. g[s] = f[x] + g[1..k]
    BY <1>2, <2>2
  <2>4. f[x] = c[k + 1 + 1] - c[k + 1]
    BY <2>1 DEF x
  <2>5. k + 1 + 1 \in 1..(n + 1) /\ k + 1 \in 1..(n + 1) /\ 1 \in 1..(n + 1)
    <3>1. k + 1 <= n
      BY <1>3
    <3> QED BY <3>1
  <2>6. c[k + 1 + 1] \in Int /\ c[k + 1] \in Int /\ c[1] \in Int
    BY <2>5
  <2>7. g[s] = c[k + 1 + 1] - c[1]
    <3>1. g[s] = (c[k + 1 + 1] - c[k + 1]) + (c[k + 1] - c[1])
      BY <1>3, <2>3, <2>4
    <3>2. \A a, b, d \in Int : (a - b) + (b - d) = a - d
      OBVIOUS
    <3> QED BY <2>6, <3>1, <3>2
  <2> QED BY <2>7 DEF s
<1> DEFINE good == {k \in Nat : g[1..k] = c[k + 1] - c[1]}
           N == {k \in Nat : k <= n => k \in good}
<1>4. 0 \in good
  <2>1. 1..0 = {} /\ c[1] \in Int
    OBVIOUS
  <2> QED BY <1>2, <2>1
<1>5. \A k \in Nat : k + 1 <= n /\ k \in good => k + 1 \in good
  <2> TAKE k \in Nat
  <2>1. k + 1 \in Nat
    OBVIOUS
  <2> QED BY <1>3, <2>1, Zenon
<1> HIDE DEF good
<1>6. 0 \in N /\ \A k \in Nat : k \in N => k + 1 \in N
  BY <1>4, <1>5
<1> HIDE DEF N
<1>7. n \in N
  BY <1>6, Climb
<1> QED BY <1>1, <1>7 DEF N, good
=============================================================================
