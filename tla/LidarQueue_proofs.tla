-------------------------- MODULE LidarQueue_proofs --------------------------
(***************************************************************************)
(* The unlocked ring of the driver is a queue on every number of lidars,   *)
(* ring size and index width, where stores become visible in order; and    *)
(* the wake-up protocol loses no frame where they do at once.              *)
(***************************************************************************)
EXTENDS LidarQueue, TLAPS

(***************************************************************************)
(* Remainders.                                                             *)
(***************************************************************************)
LEMMA DivMod ==
  ASSUME NEW n \in Nat \ {0}, NEW x \in Int
  PROVE  /\ x \div n \in Int /\ x % n \in 0..n - 1
         /\ x = (n * (x \div n)) + (x % n)
BY SMTT(30)

LEMMA ModUnique ==
  ASSUME NEW n \in Nat \ {0}, NEW q \in Int, NEW r \in 0..n - 1
  PROVE  ((n * q) + r) % n = r
BY SMTT(30)

LEMMA ModSmall ==
  ASSUME NEW n \in Nat \ {0}
  PROVE  /\ \A x \in 0..n - 1 : x % n = x
         /\ \A x \in -n..-1 : x % n = x + n
         /\ \A x \in n..(2 * n) - 1 : x % n = x - n
BY SMTT(30)

LEMMA AddMultiple ==
  ASSUME NEW n \in Nat \ {0}, NEW x \in Int, NEW q \in Int
  PROVE  (x + (n * q)) % n = x % n
<1> DEFINE d == x \div n
           r == x % n
<1>1. d \in Int /\ r \in 0..n - 1 /\ x = (n * d) + r
  BY DivMod
<1> HIDE DEF d, r
<1>2. x + (n * q) = (n * (d + q)) + r
  BY <1>1, SMTT(30)
<1>3. ((n * (d + q)) + r) % n = r
  BY <1>1, ModUnique
<1> QED BY <1>1, <1>2, <1>3 DEF r

\* Two indices less than n apart have different remainders.
LEMMA ModApart ==
  ASSUME NEW n \in Nat \ {0}, NEW x \in Int, NEW k \in 1..n - 1
  PROVE  (x + k) % n # x % n
<1> DEFINE d == x \div n
           r == x % n
<1>1. d \in Int /\ r \in 0..n - 1 /\ x = (n * d) + r
  BY DivMod
<1> HIDE DEF d, r
<1>2. CASE r + k < n
  <2>1. x + k = (n * d) + (r + k)
    BY <1>1, SMTT(30)
  <2>2. ((n * d) + (r + k)) % n = r + k
    BY <1>1, <1>2, ModUnique
  <2> QED BY <1>1, <2>1, <2>2 DEF r
<1>3. CASE r + k >= n
  <2>1. x + k = (n * (d + 1)) + (r + k - n)
    BY <1>1, SMTT(30)
  <2>2. r + k - n \in 0..n - 1 /\ d + 1 \in Int
    BY <1>1, <1>3
  <2>3. ((n * (d + 1)) + (r + k - n)) % n = r + k - n
    BY <2>2, ModUnique
  <2> QED BY <1>1, <2>1, <2>3 DEF r
<1> QED BY <1>1, <1>2, <1>3

(***************************************************************************)
(* Indices of the ring.                                                    *)
(***************************************************************************)
Indices == 0..IndexMod - 1
Succ(i) == (i + 1) % IndexMod
Apart(w, r) == (w - r) % IndexMod

LEMMA Sizes ==
  /\ Size \in Nat \ {0} /\ IndexMod \in Nat \ {0} /\ IndexMod > Size
  /\ LidarCount \in Nat \ {0} /\ FrameMod \in Nat \ {0}
BY SizesAssumption

LEMMA SuccIs ==
  ASSUME NEW i \in Indices
  PROVE  Succ(i) \in Indices /\ Succ(i) = IF i = IndexMod - 1 THEN 0 ELSE i + 1
<1> DEFINE m == IndexMod
<1>1. m \in Nat \ {0} /\ i \in 0..m - 1
  BY Sizes DEF Indices
<1> HIDE DEF m
<1>2. (i + 1) % m = IF i = m - 1 THEN 0 ELSE i + 1
  BY <1>1, SMT
<1> QED BY <1>1, <1>2 DEF Succ, Indices, m

LEMMA ApartIs ==
  ASSUME NEW w \in Indices, NEW r \in Indices
  PROVE  /\ Apart(w, r) \in Indices
         /\ Apart(w, r) = IF w < r THEN (w - r) + IndexMod ELSE w - r
<1> DEFINE m == IndexMod
<1>1. m \in Nat \ {0} /\ w \in 0..m - 1 /\ r \in 0..m - 1
  BY Sizes DEF Indices
<1> HIDE DEF m
<1>2. (w - r) % m = IF w < r THEN (w - r) + m ELSE w - r
  BY <1>1, SMT
<1> QED BY <1>1, <1>2 DEF Apart, Indices, m

LEMMA WholeTurn ==
  ASSUME NEW x \in Int
  PROVE  (x + IndexMod) % Size = x % Size
<1> DEFINE m == IndexMod
           n == Size
           d == m \div n
<1>1. n \in Nat \ {0} /\ m \in Int /\ m % n = 0
  BY SizesAssumption
<1> HIDE DEF m, n
<1>2. d \in Int /\ m = n * d
  BY <1>1, DivMod
<1> HIDE DEF d
<1>3. (x + (n * d)) % n = x % n
  BY <1>1, <1>2, AddMultiple
<1> QED BY <1>2, <1>3 DEF m, n

LEMMA SlotIndex == ASSUME NEW x \in Int PROVE x % Size \in 0..Size - 1
<1> DEFINE n == Size
<1>1. n \in Nat \ {0}
  BY Sizes
<1> HIDE DEF n
<1>2. x % n \in 0..n - 1
  BY <1>1, DivMod
<1> QED BY <1>2 DEF n

\* The wrap of an index is invisible in the ring.
LEMMA SlotOfSucc ==
  ASSUME NEW i \in Indices, NEW k \in Int
  PROVE  (Succ(i) + k) % Size = (i + 1 + k) % Size
<1>1. CASE i # IndexMod - 1
  <2>1. Succ(i) = i + 1
    BY <1>1, SuccIs
  <2> QED BY <2>1
<1>2. CASE i = IndexMod - 1
  <2>1. Succ(i) + k = k
    BY <1>2, SuccIs
  <2>2. i + 1 + k = k + IndexMod
    BY <1>2, Sizes
  <2> QED BY <2>1, <2>2, WholeTurn
<1> QED BY <1>1, <1>2

\* The slot at a distance from the read index.
LEMMA SlotOfApart ==
  ASSUME NEW w \in Indices, NEW r \in Indices
  PROVE  w % Size = (r + Apart(w, r)) % Size
<1>0. w \in Int /\ r \in Int /\ IndexMod \in Int
  BY Sizes DEF Indices
<1>1. CASE ~(w < r)
  <2>1. r + Apart(w, r) = w
    BY <1>0, <1>1, ApartIs
  <2> QED BY <2>1
<1>2. CASE w < r
  <2>1. r + Apart(w, r) = w + IndexMod
    BY <1>0, <1>2, ApartIs
  <2> QED BY <1>0, <2>1, WholeTurn
<1> QED BY <1>1, <1>2

(***************************************************************************)
(* Types, in every memory order.                                           *)
(***************************************************************************)
\* What lies between the types and their being kept: a push under way found
\* room, the poller frees a slot of a queue that is not empty, and nobody
\* signals on a count above zero.
Room == "index" \in stores => Waiting(pushing) < Size
PollerHolds ==
  /\ pollPc \in {"pop", "update"} => at \in Lidars
  /\ pollPc = "update" => wrIdx[at] # rdIdx[at]
SignalAtZero == pushPc = "signal" => count = 0

Types ==
  /\ wrIdx \in [Lidars -> Indices] /\ rdIdx \in [Lidars -> Indices]
  /\ slot \in [Lidars -> [0..Size - 1 -> Frames]]
  /\ stores \subseteq {"slot", "index"}
  /\ pushPc \in {"idle", "count", "signal"} /\ pushing \in Lidars
  /\ pushed \in BOOLEAN /\ frame \in [Lidars -> Frames]
  /\ count \in 0..1
  /\ pollPc \in {"loop", "wait", "scan", "pop", "update", "check", "joined"}
  /\ at \in 0..LidarCount /\ published \in [Lidars -> Frames]
  /\ sampling \subseteq Lidars /\ fresh \subseteq sampling
  /\ exit \in {"no", "requested", "signalled"}
Bounded == \A l \in Lidars : Waiting(l) <= Size

QueueInv == Types /\ Bounded /\ Room /\ PollerHolds /\ SignalAtZero

LEMMA QueueInvTypes == QueueInv => TypeOK
BY DEF QueueInv, Types, Bounded, TypeOK, Indices

LEMMA WaitingIsApart ==
  ASSUME NEW l \in Lidars
  PROVE  Waiting(l) = Apart(wrIdx[l], rdIdx[l])
BY DEF Waiting, Apart

LEMMA OwnIsSucc ==
  ASSUME Types, NEW l \in Lidars
  PROVE  OwnWrIdx(l) = IF "index" \in stores /\ l = pushing
                         THEN Succ(wrIdx[l]) ELSE wrIdx[l]
<1> DEFINE m == IndexMod
<1>1. m \in Nat \ {0} /\ wrIdx[l] \in 0..m - 1
  BY Sizes DEF Types, Indices
<1> HIDE DEF m
<1>2. (wrIdx[l] + 0) % m = wrIdx[l]
  BY <1>1, SMT
<1> QED BY <1>2 DEF OwnWrIdx, Succ, m

\* One more in the ring, and one fewer.
LEMMA StepApart ==
  ASSUME NEW w \in Indices, NEW r \in Indices
  PROVE  /\ Apart(w, r) < Size => Apart(Succ(w), r) = Apart(w, r) + 1
         /\ w # r => Apart(w, Succ(r)) = Apart(w, r) - 1
         /\ Apart(w, r) = 0 <=> w = r
         /\ Apart(w, r) < Size => Succ(w) # r
<1> DEFINE m == IndexMod
           sw == Succ(w)
           sr == Succ(r)
<1>1. m \in Nat \ {0} /\ Size \in Nat \ {0} /\ m > Size /\ w \in 0..m - 1 /\ r \in 0..m - 1
  BY Sizes DEF Indices
<1>2. /\ sw \in Indices /\ sw = IF w = m - 1 THEN 0 ELSE w + 1
      /\ sr \in Indices /\ sr = IF r = m - 1 THEN 0 ELSE r + 1
  BY SuccIs
<1>3. /\ Apart(w, r) = IF w < r THEN (w - r) + m ELSE w - r
      /\ Apart(sw, r) = IF sw < r THEN (sw - r) + m ELSE sw - r
      /\ Apart(w, sr) = IF w < sr THEN (w - sr) + m ELSE w - sr
  BY <1>2, ApartIs
<1> HIDE DEF m, sw, sr
<1>4. /\ Apart(w, r) < Size => Apart(sw, r) = Apart(w, r) + 1 /\ sw # r
      /\ w # r => Apart(w, sr) = Apart(w, r) - 1
      /\ Apart(w, r) = 0 <=> w = r
  BY <1>1, <1>2, <1>3
<1> QED BY <1>4 DEF sw, sr

LEMMA QueueInvInit == Init => QueueInv
<1> SUFFICES ASSUME Init PROVE QueueInv
  OBVIOUS
<1>1. 0 \in Indices /\ 0 \in Frames /\ 0 \in Lidars /\ 0 \in 0..LidarCount
  BY Sizes DEF Indices, Frames, Lidars
<1>2. Bounded
  <2> SUFFICES ASSUME NEW l \in Lidars PROVE Waiting(l) <= Size
    BY DEF Bounded
  <2>1. Waiting(l) = Apart(0, 0)
    BY DEF Init, Waiting, Apart
  <2> QED BY <1>1, <2>1, StepApart, Sizes
<1>3. slot \in [Lidars -> [0..Size - 1 -> Frames]]
  BY <1>1 DEF Init
<1>4. /\ wrIdx \in [Lidars -> Indices] /\ rdIdx \in [Lidars -> Indices]
      /\ frame \in [Lidars -> Frames] /\ published \in [Lidars -> Frames]
  BY <1>1 DEF Init
<1>5. stores = {} /\ pushPc = "idle" /\ pushing = 0 /\ count = 0 /\ pollPc = "loop"
  BY DEF Init
<1>6. pushed = FALSE /\ at = 0 /\ sampling = {} /\ fresh = {} /\ exit = "no"
  BY DEF Init
<1>7. pushed \in BOOLEAN
  BY <1>6, Zenon
<1>8. Types
  BY <1>1, <1>3, <1>4, <1>5, <1>6, <1>7 DEF Types
<1> QED BY <1>2, <1>5, <1>8 DEF QueueInv, Room, PollerHolds, SignalAtZero

\* A step that moves no index.
LEMMA SameIndices ==
  ASSUME QueueInv, wrIdx' = wrIdx, rdIdx' = rdIdx
  PROVE  Bounded' /\ \A l \in Lidars : Waiting(l)' = Waiting(l)
<1>1. \A l \in Lidars : Waiting(l)' = Waiting(l)
  BY DEF Waiting
<1> QED BY <1>1 DEF QueueInv, Bounded

LEMMA BeginPushInv == ASSUME QueueInv, NEW l \in Lidars, BeginPush(l) PROVE QueueInv'
<1> USE DEF BeginPush, pollVars, envVars, QueueInv
<1>1. Bounded' /\ \A i \in Lidars : Waiting(i)' = Waiting(i)
  BY SameIndices
<1>2. OwnWrIdx(l) = wrIdx[l]
  BY OwnIsSucc
<1>3. ~QueueIsFull(l) => Waiting(l) < Size
  <2>1. Waiting(l) \in Indices
    BY WaitingIsApart, ApartIs DEF Types
  <2> QED BY <1>2, <2>1, Sizes DEF QueueIsFull, Waiting, Indices
<1>4. frame' \in [Lidars -> Frames]
  <2>1. (frame[l] + 1) % FrameMod \in Frames
    <3> DEFINE m == FrameMod
    <3>1. m \in Nat \ {0} /\ frame[l] \in 0..m - 1
      BY Sizes DEF Types, Frames
    <3> HIDE DEF m
    <3>2. (frame[l] + 1) % m \in 0..m - 1
      BY <3>1, DivMod
    <3> QED BY <3>2 DEF Frames, m
  <2> QED BY <2>1 DEF Types
<1>5. pushed' \in BOOLEAN
  BY Zenon
<1>6. fresh' \subseteq sampling'
  BY DEF Types
<1>7. stores' \subseteq {"slot", "index"} /\ pushing' \in Lidars /\ pushPc' = "count"
  OBVIOUS
<1>8. Types'
  BY <1>4, <1>5, <1>6, <1>7 DEF Types
<1>9. Room'
  BY <1>1, <1>3 DEF Room
<1> QED BY <1>1, <1>7, <1>8, <1>9 DEF PollerHolds, SignalAtZero

LEMMA StoreSlotInv == ASSUME QueueInv, StoreSlot PROVE QueueInv'
<1> USE DEF StoreSlot, pollVars, envVars, QueueInv
<1>1. Bounded' /\ \A i \in Lidars : Waiting(i)' = Waiting(i)
  BY SameIndices
<1>2. slot' \in [Lidars -> [0..Size - 1 -> Frames]]
  BY DEF Types
<1>3. Types'
  BY <1>2 DEF Types
<1>4. Room'
  BY <1>1 DEF Room, Types
<1> QED BY <1>1, <1>3, <1>4 DEF PollerHolds, SignalAtZero

\* A store of an index that found room keeps the bound and empties no queue.
LEMMA StoreIndexInv == ASSUME QueueInv, StoreIndex PROVE QueueInv'
<1> USE DEF StoreIndex, pollVars, envVars, QueueInv
<1> DEFINE p == pushing
<1>1. /\ p \in Lidars /\ OwnWrIdx(p) = Succ(wrIdx[p])
      /\ wrIdx[p] \in Indices /\ rdIdx[p] \in Indices
  BY OwnIsSucc DEF Types
<1>2. Succ(wrIdx[p]) \in Indices
  BY <1>1, SuccIs
<1>3. wrIdx' = [wrIdx EXCEPT ![p] = Succ(wrIdx[p])]
  BY <1>1
<1>4. Types'
  BY <1>2, <1>3 DEF Types
<1>5. Waiting(p)' = Waiting(p) + 1 /\ Waiting(p)' <= Size /\ wrIdx'[p] # rdIdx'[p]
  <2>1. Apart(wrIdx[p], rdIdx[p]) < Size
    BY <1>1, WaitingIsApart DEF Room
  <2>2. Apart(wrIdx[p], rdIdx[p]) \in Int
    BY <1>1, ApartIs DEF Indices
  <2>3. /\ Apart(Succ(wrIdx[p]), rdIdx[p]) = Apart(wrIdx[p], rdIdx[p]) + 1
        /\ Succ(wrIdx[p]) # rdIdx[p]
    BY <1>1, <2>1, StepApart
  <2>4. Waiting(p)' = Apart(Succ(wrIdx[p]), rdIdx[p])
    BY <1>1, <1>3 DEF Waiting, Apart, Types
  <2>5. wrIdx'[p] = Succ(wrIdx[p]) /\ rdIdx'[p] = rdIdx[p]
    BY <1>1, <1>3 DEF Types
  <2> QED BY <1>1, <2>1, <2>2, <2>3, <2>4, <2>5, WaitingIsApart, Sizes
<1>6. \A i \in Lidars : i # p => Waiting(i)' = Waiting(i) /\ wrIdx'[i] = wrIdx[i]
  BY <1>3 DEF Waiting, Types
<1>7. Bounded'
  BY <1>5, <1>6 DEF Bounded
<1>8. Room'
  BY DEF Room
<1>9. PollerHolds'
  BY <1>1, <1>5, <1>6 DEF PollerHolds
<1> QED BY <1>4, <1>7, <1>8, <1>9 DEF SignalAtZero

LEMMA CountInv == ASSUME QueueInv, ReadCount \/ Signal \/ Wait PROVE QueueInv'
<1> USE DEF QueueInv, pollVars, pushVars, envVars
<1>1. /\ Bounded' /\ \A i \in Lidars : Waiting(i)' = Waiting(i)
      /\ UNCHANGED <<wrIdx, rdIdx, slot, stores, pushing, pushed, frame>>
      /\ UNCHANGED <<published, sampling, exit, fresh>>
  BY SameIndices DEF ReadCount, Signal, Wait
<1>2. Room'
  BY <1>1 DEF Room, Types
<1>3. CASE ReadCount
  <2>1. Types'
    BY <1>1, <1>3 DEF ReadCount, Types
  <2>2. SignalAtZero'
    BY <1>3 DEF ReadCount, SignalAtZero, Types
  <2> QED BY <1>1, <1>2, <1>3, <2>1, <2>2 DEF ReadCount, PollerHolds
<1>4. CASE Signal
  <2>1. count' = 1
    BY <1>4 DEF Signal, SignalAtZero
  <2> QED BY <1>1, <1>2, <1>4, <2>1 DEF Signal, PollerHolds, SignalAtZero, Types
<1>5. CASE Wait
  <2>1. count = 1 /\ count' = 0 /\ pollPc' = "scan" /\ at' = 0 /\ pushPc' = pushPc
    BY <1>5 DEF Wait, Types
  <2>2. Types'
    BY <1>1, <2>1, Sizes DEF Types
  <2> QED BY <1>1, <1>2, <2>1, <2>2 DEF PollerHolds, SignalAtZero
<1> QED BY <1>3, <1>4, <1>5

LEMMA PopUpdateInv == ASSUME QueueInv, PopUpdate PROVE QueueInv'
<1> USE DEF PopUpdate, pushVars, envVars, QueueInv
<1>1. /\ at \in Lidars /\ wrIdx[at] # rdIdx[at]
      /\ wrIdx[at] \in Indices /\ rdIdx[at] \in Indices
  BY DEF PollerHolds, Types
<1>2. rdIdx' = [rdIdx EXCEPT ![at] = Succ(rdIdx[at])]
  BY DEF Succ
<1>3. Types'
  BY <1>1, <1>2, SuccIs DEF Types
<1>4. Waiting(at)' = Waiting(at) - 1 /\ Waiting(at) \in Int
  <2>1. Waiting(at)' = Apart(wrIdx[at], Succ(rdIdx[at]))
    BY <1>1, <1>2 DEF Waiting, Apart, Types
  <2> QED BY <1>1, <2>1, StepApart, WaitingIsApart, ApartIs DEF Indices
<1>5. \A i \in Lidars : i # at => Waiting(i)' = Waiting(i)
  BY <1>2 DEF Waiting, Types
<1>6. Bounded'
  BY <1>1, <1>4, <1>5, Sizes DEF Bounded
<1>7. Room'
  BY <1>1, <1>4, <1>5, Sizes DEF Room, Types
<1> QED BY <1>1, <1>3, <1>6, <1>7 DEF PollerHolds, SignalAtZero

\* The other steps of the poller, and of its surroundings, move its program
\* counter at most.
LEMMA OtherStepsInv ==
  ASSUME QueueInv,
         \/ Distribute \/ Scan \/ EndScan \/ PrePop \/ EndDrain \/ CheckFuture
         \/ RequestExit \/ SignalExit \/ \E l \in Lidars : BeginSampling(l)
  PROVE  QueueInv'
<1> USE DEF QueueInv, pollVars, pushVars, envVars
<1>1. /\ Bounded' /\ \A i \in Lidars : Waiting(i)' = Waiting(i)
      /\ UNCHANGED <<wrIdx, rdIdx, slot, count, pushVars, fresh>>
  <2>1. UNCHANGED <<wrIdx, rdIdx, slot, count, pushVars, fresh>>
    BY DEF Distribute, Scan, EndScan, PrePop, EndDrain, CheckFuture,
           RequestExit, SignalExit, BeginSampling
  <2> QED BY <2>1, SameIndices
<1>2. Room' /\ SignalAtZero'
  BY <1>1 DEF Room, SignalAtZero, Types
<1>3. /\ at' \in 0..LidarCount /\ published' \in [Lidars -> Frames]
      /\ pollPc' \in {"loop", "wait", "scan", "pop", "update", "check", "joined"}
      /\ PollerHolds'
  <2>1. CASE Distribute \/ EndScan \/ CheckFuture \/ RequestExit \/ SignalExit
             \/ \E l \in Lidars : BeginSampling(l)
    BY <1>1, <2>1 DEF Distribute, EndScan, CheckFuture, RequestExit, SignalExit,
                      BeginSampling, Types, PollerHolds
  <2>2. CASE Scan
    BY <1>1, <2>2, Sizes DEF Scan, ToDrain, Types, PollerHolds, Lidars
  <2>3. CASE EndDrain
    BY <1>1, <2>3 DEF EndDrain, Types, PollerHolds
  <2>4. CASE PrePop
    <3>1. at \in Lidars /\ rdIdx[at] \in Indices
      BY <2>4 DEF PrePop, PollerHolds, Types
    <3>2. rdIdx[at] % Size \in 0..Size - 1
      BY <3>1, SlotIndex DEF Indices
    <3>3. slot[at][rdIdx[at] % Size] \in Frames
      BY <3>1, <3>2 DEF Types
    <3> QED BY <1>1, <2>4, <3>1, <3>3 DEF PrePop, QueueIsEmpty, Types, PollerHolds
  <2> QED BY <2>1, <2>2, <2>3, <2>4
<1>4. /\ sampling' \subseteq Lidars /\ fresh' \subseteq sampling'
      /\ exit' \in {"no", "requested", "signalled"}
  BY <1>1 DEF Distribute, Scan, EndScan, PrePop, EndDrain, CheckFuture,
              RequestExit, SignalExit, BeginSampling, Types
<1>5. Types'
  BY <1>1, <1>3, <1>4 DEF Types
<1> QED BY <1>1, <1>2, <1>3, <1>5

LEMMA QueueInvStep == QueueInv /\ [Next]_vars => QueueInv'
<1> SUFFICES ASSUME QueueInv, [Next]_vars PROVE QueueInv'
  OBVIOUS
<1>1. CASE UNCHANGED vars
  <2>1. Bounded' /\ \A i \in Lidars : Waiting(i)' = Waiting(i)
    BY <1>1, SameIndices DEF vars, pollVars
  <2> QED BY <1>1, <2>1 DEF vars, pushVars, pollVars, envVars, QueueInv, Types, Room,
                            PollerHolds, SignalAtZero
<1>2. CASE Next
  BY <1>2, BeginPushInv, StoreSlotInv, StoreIndexInv, CountInv, PopUpdateInv, OtherStepsInv
     DEF Next, Push, Poll
<1> QED BY <1>1, <1>2

\* TypeOK: the state keeps its types, no queue holds more than its size and
\* the semaphore never counts past one, in every memory order.
THEOREM QueueTypes == Spec => []TypeOK
<1>1. Spec => []QueueInv
  BY QueueInvInit, QueueInvStep, PTL DEF Spec
<1> QED BY <1>1, QueueInvTypes, PTL

(***************************************************************************)
(* The wake-up protocol, where the pusher's stores are visible at once.    *)
(***************************************************************************)
\* The poller is yet to come to l in its present pass.
WillVisit(l) == pollPc \in {"scan", "pop", "update"} /\ at <= l

\* The newest push concerns l, or is about to wake the poller anyway.
PushSpeaksFor(l) == pushPc = "signal" \/ (pushPc = "count" /\ pushing = l)

\* Whoever waits in a ring has somebody to care for it: a count the poller has
\* not taken, a push under way, or the poller's own pass.
WakeInv ==
  /\ stores # {} => pushPc = "count"
  /\ exit = "no" => \A l \in fresh :
       QueueIsEmpty(l) \/ count > 0 \/ PushSpeaksFor(l) \/ WillVisit(l)

LEMMA WakeInvInit == Init => WakeInv
BY DEF Init, WakeInv

LEMMA WakeInvStep ==
  ASSUME MemoryOrder = "sc", QueueInv, WakeInv, Next
  PROVE  WakeInv'
<1> USE DEF pushVars, pollVars, envVars, QueueInv
<1>1. CASE \E l \in Lidars : BeginPush(l)
  BY <1>1 DEF BeginPush, WakeInv, PushSpeaksFor, WillVisit, QueueIsEmpty
<1>2. CASE \/ StoreSlot \/ Distribute \/ EndScan \/ PrePop \/ CheckFuture
           \/ RequestExit \/ SignalExit \/ \E l \in Lidars : BeginSampling(l)
  <2>1. \A l \in fresh : l \in 0..LidarCount - 1
    BY DEF Types, Lidars
  <2> QED BY <1>2, <2>1, Sizes
       DEF StoreSlot, Distribute, EndScan, PrePop, CheckFuture, RequestExit, SignalExit,
           BeginSampling, WakeInv, PushSpeaksFor, WillVisit, QueueIsEmpty
<1>3. CASE StoreIndex
  <2>1. pushPc = "count" /\ pushing \in Lidars
    BY <1>3 DEF StoreIndex, WakeInv, Types
  <2>2. \A l \in Lidars : l # pushing => wrIdx'[l] = wrIdx[l]
    BY <1>3 DEF StoreIndex, Types
  <2>3. \A l \in fresh : l \in Lidars
    BY DEF Types
  <2> QED BY <1>3, <2>1, <2>2, <2>3
       DEF StoreIndex, WakeInv, PushSpeaksFor, WillVisit, QueueIsEmpty
<1>4. CASE ReadCount
  <2>1. stores = {} /\ OwnWrIdx(pushing) = wrIdx[pushing]
    BY <1>4, OwnIsSucc DEF ReadCount, Types
  <2> QED BY <1>4, <2>1 DEF ReadCount, WakeInv, PushSpeaksFor, WillVisit, QueueIsEmpty
<1>5. CASE Signal
  <2>1. count' > 0
    BY <1>5 DEF Signal, Types
  <2> QED BY <1>5, <2>1 DEF Signal, WakeInv, QueueIsEmpty
<1>6. CASE Wait
  <2>1. \A l \in fresh' : WillVisit(l)'
    BY <1>6 DEF Wait, WillVisit, Types, Lidars
  <2> QED BY <1>6, <2>1 DEF Wait, WakeInv
<1>7. CASE Scan
  <2>1. exit = "no" => \A l \in fresh : l = at => QueueIsEmpty(l) \/ pollPc' = "pop"
    BY <1>7 DEF Scan, ToDrain, Types
  <2>2. \A l \in fresh : l \in Int /\ at \in Int
    BY DEF Types, Lidars
  <2> QED BY <1>7, <2>1, <2>2 DEF Scan, WakeInv, PushSpeaksFor, WillVisit, QueueIsEmpty
<1>8. CASE EndDrain
  BY <1>8 DEF EndDrain, WakeInv, PushSpeaksFor, WillVisit, QueueIsEmpty
<1>9. CASE PopUpdate
  <2>1. \A l \in Lidars : l # at => rdIdx'[l] = rdIdx[l]
    BY <1>9 DEF PopUpdate, Types
  <2>2. at \in Lidars /\ \A l \in fresh : l \in Lidars
    BY <1>9 DEF PopUpdate, PollerHolds, Types
  <2>3. \A l \in Lidars : l \in Int
    BY DEF Lidars
  <2> QED BY <1>9, <2>1, <2>2, <2>3
       DEF PopUpdate, WakeInv, PushSpeaksFor, WillVisit, QueueIsEmpty
<1> QED BY <1>1, <1>2, <1>3, <1>4, <1>5, <1>6, <1>7, <1>8, <1>9 DEF Next, Push, Poll

\* NoLostWakeup: GetCount takes no lock and Signal is skipped when the count is
\* above zero, or the frame already gone; the poller never sleeps on a frame.
THEOREM WakeupNeverLost ==
  ASSUME MemoryOrder = "sc" PROVE Spec => []NoLostWakeup
<1>1. QueueInv /\ WakeInv /\ [Next]_vars => (QueueInv /\ WakeInv)'
  <2> SUFFICES ASSUME QueueInv, WakeInv, [Next]_vars PROVE QueueInv' /\ WakeInv'
    OBVIOUS
  <2>1. QueueInv'
    BY QueueInvStep
  <2>2. CASE UNCHANGED vars
    BY <2>1, <2>2 DEF vars, pushVars, pollVars, envVars, WakeInv, PushSpeaksFor, WillVisit,
                QueueIsEmpty
  <2> QED BY <2>1, <2>2, WakeInvStep
<1>2. QueueInv /\ WakeInv => NoLostWakeup
  BY DEF WakeInv, NoLostWakeup, PushSpeaksFor, WillVisit
<1>3. Init => QueueInv /\ WakeInv
  BY QueueInvInit, WakeInvInit
<1> QED BY <1>1, <1>2, <1>3, PTL DEF Spec

(***************************************************************************)
(* The ring is a queue, where a slot is visible before its index.          *)
(***************************************************************************)
\* A frame is in its slot before the index says so.
RingInv ==
  /\ "slot" \in stores => "index" \in stores
  /\ stores = {"index"} => slot[pushing][wrIdx[pushing] % Size] = frame[pushing]

LEMMA RingInvInit == Init => RingInv
BY DEF Init, RingInv

\* The slot the pusher writes is the one its visible index names.
LEMMA OwnSlot ==
  ASSUME QueueInv, "index" \in stores
  PROVE  (OwnWrIdx(pushing) - 1) % Size = wrIdx[pushing] % Size
<1>1. pushing \in Lidars /\ wrIdx[pushing] \in Indices /\ Types
  BY DEF QueueInv, Types
<1>2. OwnWrIdx(pushing) = Succ(wrIdx[pushing])
  BY <1>1, OwnIsSucc
<1>3. (Succ(wrIdx[pushing]) + (-1)) % Size = (wrIdx[pushing] + 1 + (-1)) % Size
  BY <1>1, SlotOfSucc
<1>4. /\ Succ(wrIdx[pushing]) + (-1) = OwnWrIdx(pushing) - 1
      /\ wrIdx[pushing] + 1 + (-1) = wrIdx[pushing]
  BY <1>1, <1>2, SuccIs DEF Indices
<1> QED BY <1>3, <1>4

LEMMA RingInvStep ==
  ASSUME MemoryOrder # "weak", QueueInv, RingInv, Next
  PROVE  RingInv'
<1> USE DEF pushVars, pollVars, envVars
<1>1. CASE StoreSlot
  <2>1. /\ "index" \in stores /\ stores' = stores \ {"slot"}
        /\ pushing' = pushing /\ wrIdx' = wrIdx /\ frame' = frame
    BY <1>1 DEF StoreSlot, RingInv
  <2>2. /\ wrIdx[pushing] % Size \in 0..Size - 1 /\ pushing \in Lidars
        /\ slot \in [Lidars -> [0..Size - 1 -> Frames]]
    BY SlotIndex DEF QueueInv, Types, Indices
  <2>3. slot' = [slot EXCEPT ![pushing][wrIdx[pushing] % Size] = frame[pushing]]
    BY <1>1, <2>1, OwnSlot DEF StoreSlot
  <2>4. slot'[pushing][wrIdx[pushing] % Size] = frame[pushing]
    BY <2>2, <2>3
  <2> QED BY <2>1, <2>4 DEF RingInv
<1>2. CASE StoreIndex
  BY <1>2 DEF StoreIndex, RingInv
<1>3. CASE \E l \in Lidars : BeginPush(l)
  BY <1>3 DEF BeginPush, RingInv
<1>4. CASE \/ ReadCount \/ Signal \/ Poll \/ RequestExit \/ SignalExit
           \/ \E l \in Lidars : BeginSampling(l)
  <2>1. UNCHANGED <<wrIdx, slot, stores, pushing, frame>>
    BY <1>4 DEF ReadCount, Signal, Poll, RequestExit, SignalExit, BeginSampling, Distribute,
                Wait, Scan, EndScan, PrePop, PopUpdate, EndDrain, CheckFuture
  <2> QED BY <2>1 DEF RingInv
<1> QED BY <1>1, <1>2, <1>3, <1>4 DEF Next, Push

\* What a queue holds: its length and its frames.
Held(l) == Waiting(l) - Taken(l)
Cell(l, i) == (rdIdx[l] + Taken(l) + i - 1) % Size

LEMMA ContentsAre ==
  ASSUME QueueInv, NEW l \in Lidars
  PROVE  /\ Held(l) \in Nat /\ Held(l) <= Size /\ Taken(l) \in 0..1
         /\ rdIdx[l] \in Indices /\ wrIdx[l] \in Indices /\ Waiting(l) \in Nat
         /\ Contents(l) = [i \in 1..Held(l) |-> slot[l][Cell(l, i)]]
         /\ \A i \in 1..Held(l) : Cell(l, i) \in 0..Size - 1 /\ slot[l][Cell(l, i)] \in Frames
         /\ Contents(l) \in Seq(Frames) /\ Len(Contents(l)) = Held(l)
<1>1. rdIdx[l] \in Indices /\ wrIdx[l] \in Indices
  BY DEF QueueInv, Types
<1>2. Waiting(l) \in Nat /\ Waiting(l) <= Size /\ Taken(l) \in 0..1
  BY <1>1, WaitingIsApart, ApartIs DEF QueueInv, Bounded, Indices, Taken
<1>3. Taken(l) = 1 => Waiting(l) # 0
  BY <1>1, StepApart, WaitingIsApart DEF QueueInv, PollerHolds, Taken
<1>4. Held(l) \in Nat /\ Held(l) <= Size
  BY <1>2, <1>3, Sizes DEF Held
<1>5. Contents(l) = [i \in 1..Held(l) |-> slot[l][Cell(l, i)]]
  BY DEF Contents, Held, Cell
<1>6. \A i \in 1..Held(l) : Cell(l, i) \in 0..Size - 1 /\ slot[l][Cell(l, i)] \in Frames
  <2> TAKE i \in 1..Held(l)
  <2>1. rdIdx[l] + Taken(l) + i - 1 \in Int
    BY <1>1, <1>2, <1>4 DEF Indices
  <2>2. Cell(l, i) \in 0..Size - 1
    BY <2>1, SlotIndex DEF Cell
  <2> QED BY <2>2 DEF QueueInv, Types
<1>7. Contents(l) \in Seq(Frames) /\ Len(Contents(l)) = Held(l)
  BY <1>4, <1>5, <1>6
<1> QED BY <1>1, <1>2, <1>4, <1>5, <1>6, <1>7

Ring == [l \in Lidars |-> Contents(l)]

\* A queue whose indices, slots and part in the poller's hands stay as they are.
LEMMA SameContents ==
  ASSUME NEW l \in Lidars, slot'[l] = slot[l], wrIdx'[l] = wrIdx[l], rdIdx'[l] = rdIdx[l],
         Taken(l)' = Taken(l)
  PROVE  Contents(l)' = Contents(l)
BY DEF Contents, Waiting

\* The steps that neither put nor deliver.
LEMMA QuietSteps ==
  ASSUME QueueInv, [Next]_vars, ~StoreSlot, ~StoreIndex, ~PrePop, ~PopUpdate
  PROVE  UNCHANGED <<Ring, published>>
<1> USE DEF pushVars, pollVars, envVars
<1>1. UNCHANGED <<wrIdx, rdIdx, slot, published>>
  BY DEF Next, Push, Poll, BeginPush, ReadCount, Signal, Distribute, Wait, Scan, EndScan,
         EndDrain, CheckFuture, BeginSampling, RequestExit, SignalExit, vars
<1>2. \/ pollPc # "update" /\ pollPc' # "update"
      \/ pollPc' = pollPc /\ at' = at
  BY DEF Next, Push, Poll, BeginPush, ReadCount, Signal, Distribute, Wait, Scan, EndScan,
         EndDrain, CheckFuture, BeginSampling, RequestExit, SignalExit, vars
<1>3. \A l \in Lidars : Taken(l)' = Taken(l)
  BY <1>2 DEF Taken
<1>4. \A l \in Lidars : Contents(l)' = Contents(l)
  BY <1>1, <1>3, SameContents
<1>5. Ring' = Ring
  BY <1>4 DEF Ring
<1> QED BY <1>1, <1>5

\* The slot the pusher writes is outside what the queue holds.
LEMMA StoreSlotQuiet ==
  ASSUME MemoryOrder # "weak", QueueInv, RingInv, StoreSlot
  PROVE  UNCHANGED <<Ring, published>>
<1>0. PICK p \in Lidars : p = pushing
  BY DEF QueueInv, Types
<1> DEFINE w == wrIdx[p] % Size
<1>1. /\ p \in Lidars /\ "index" \in stores /\ Waiting(p) < Size
      /\ slot \in [Lidars -> [0..Size - 1 -> Frames]]
  BY <1>0 DEF StoreSlot, RingInv, QueueInv, Room, Types
<1>2. UNCHANGED <<wrIdx, rdIdx, pollPc, at, published>>
  BY DEF StoreSlot, pollVars
<1>3. slot' = [slot EXCEPT ![p][w] = frame[p]]
  BY <1>0, <1>1, OwnSlot DEF StoreSlot
<1>4. \A l \in Lidars : Taken(l)' = Taken(l)
  BY <1>2 DEF Taken
<1>5. \A l \in Lidars : l # p => Contents(l)' = Contents(l)
  BY <1>1, <1>2, <1>3, <1>4, SameContents
<1>6. Contents(p)' = Contents(p)
  <2>0. /\ Waiting(p) \in Nat /\ Taken(p) \in Nat /\ Held(p) = Waiting(p) - Taken(p)
        /\ rdIdx[p] \in Int /\ rdIdx[p] \in Indices /\ wrIdx[p] \in Indices
    BY ContentsAre DEF Held, Indices
  <2>1. \A i \in 1..Held(p) : Cell(p, i) # w
    <3> TAKE i \in 1..Held(p)
    <3> DEFINE x == rdIdx[p] + Taken(p) + i - 1
               k == Waiting(p) - Taken(p) - i + 1
    <3>1. x \in Int /\ k \in 1..Size - 1 /\ x + k = rdIdx[p] + Waiting(p)
      BY <1>1, <2>0, Sizes
    <3> HIDE DEF x, k
    <3>2. w = (rdIdx[p] + Waiting(p)) % Size
      BY <2>0, SlotOfApart, WaitingIsApart
    <3>3. (x + k) % Size # x % Size
      <4> DEFINE n == Size
      <4>1. n \in Nat \ {0} /\ k \in 1..n - 1
        BY <3>1, Sizes
      <4> HIDE DEF n
      <4>2. (x + k) % n # x % n
        BY <3>1, <4>1, ModApart
      <4> QED BY <4>2 DEF n
    <3> QED BY <3>1, <3>2, <3>3 DEF Cell, x
  <2>2. \A i \in 1..Held(p) : slot'[p][Cell(p, i)] = slot[p][Cell(p, i)]
    BY <1>1, <1>3, <2>1, ContentsAre
  <2>3. Held(p)' = Held(p) /\ \A i \in 1..Held(p) : Cell(p, i)' = Cell(p, i)
    BY <1>1, <1>2, <1>4 DEF Held, Cell, Waiting
  <2> QED BY <1>1, <1>2, <2>2, <2>3 DEF Contents, Held, Cell
<1>7. Ring' = Ring
  BY <1>5, <1>6 DEF Ring
<1> QED BY <1>2, <1>7

\* The store of the index is the abstract Put.
LEMMA StoreIndexPuts ==
  ASSUME MemoryOrder # "weak", QueueInv, RingInv, StoreIndex
  PROVE  /\ \E l \in Lidars, f \in Frames :
              Len(Ring[l]) < Size /\ Ring' = [Ring EXCEPT ![l] = Append(@, f)]
         /\ UNCHANGED published
<1>0. PICK p \in Lidars : p = pushing
  BY DEF QueueInv, Types
<1> DEFINE f == frame[p]
           n == Held(p)
           w == wrIdx[p]
<1>1. /\ stores = {"index"} /\ slot[p][w % Size] = f /\ Waiting(p) < Size /\ f \in Frames
      /\ OwnWrIdx(p) = Succ(w)
  BY <1>0, OwnIsSucc DEF StoreIndex, RingInv, QueueInv, Room, Types
<1>2. UNCHANGED <<slot, rdIdx, pollPc, at, published>> /\ wrIdx' = [wrIdx EXCEPT ![p] = Succ(w)]
  BY <1>0, <1>1 DEF StoreIndex, pollVars
<1>3. \A l \in Lidars : Taken(l)' = Taken(l)
  BY <1>2 DEF Taken
<1>4. \A l \in Lidars : l # p => Contents(l)' = Contents(l)
  <2> TAKE l \in Lidars
  <2> HAVE l # p
  <2>1. wrIdx'[l] = wrIdx[l] /\ slot'[l] = slot[l] /\ rdIdx'[l] = rdIdx[l] /\ Taken(l)' = Taken(l)
    BY <1>2, <1>3 DEF QueueInv, Types
  <2> QED BY <2>1, SameContents
<1>5. /\ Waiting(p) \in Nat /\ Taken(p) \in Nat /\ n = Waiting(p) - Taken(p) /\ n \in Nat
      /\ rdIdx[p] \in Indices /\ rdIdx[p] \in Int /\ w \in Indices
  BY ContentsAre DEF Held, Indices
<1>6. Waiting(p)' = Waiting(p) + 1
  <2>1. Waiting(p) = Apart(w, rdIdx[p]) /\ Waiting(p)' = Apart(Succ(w), rdIdx[p])
    BY <1>2, <1>5 DEF Waiting, Apart, QueueInv, Types
  <2> QED BY <1>1, <1>5, <2>1, StepApart
<1>7. Contents(p)' = Append(Contents(p), f)
  <2> DEFINE new == [i \in 1..n + 1 |-> slot[p][Cell(p, i)]]
  <2>1. Contents(p)' = new
    <3>1. Waiting(p)' - Taken(p)' = n + 1
      BY <1>3, <1>5, <1>6
    <3> QED BY <1>2, <1>3, <3>1 DEF Contents, Cell
  <2>2. slot[p][Cell(p, n + 1)] = f
    <3>1. rdIdx[p] + Taken(p) + (n + 1) - 1 = rdIdx[p] + Waiting(p)
      BY <1>5
    <3>2. w % Size = (rdIdx[p] + Waiting(p)) % Size
      BY <1>5, SlotOfApart, WaitingIsApart
    <3> QED BY <1>1, <3>1, <3>2 DEF Cell
  <2>3. /\ Contents(p) = [i \in 1..n |-> slot[p][Cell(p, i)]]
        /\ Contents(p) \in Seq(Frames) /\ Len(Contents(p)) = n
    BY ContentsAre
  <2> HIDE DEF new
  <2>4. Append(Contents(p), f) = [i \in 1..n + 1 |-> IF i = n + 1 THEN f ELSE Contents(p)[i]]
    BY <1>5, <2>3
  <2>5. new = [i \in 1..n + 1 |-> IF i = n + 1 THEN f ELSE Contents(p)[i]]
    <3>1. \A i \in 1..n + 1 : i = n + 1 \/ i \in 1..n
      BY <1>5
    <3> QED BY <2>2, <2>3, <3>1 DEF new
  <2> QED BY <2>1, <2>4, <2>5
<1>8. Len(Ring[p]) < Size
  BY <1>1, <1>5, ContentsAre, Sizes DEF Ring
<1>9. Ring' = [Ring EXCEPT ![p] = Append(@, f)]
  BY <1>4, <1>7 DEF Ring
<1> QED BY <1>1, <1>2, <1>8, <1>9

\* QueuePrePop is the abstract Deliver.
LEMMA PrePopDelivers ==
  ASSUME QueueInv, PrePop
  PROVE  \E l \in Lidars :
           /\ Ring[l] # <<>>
           /\ published' = [published EXCEPT ![l] = Head(Ring[l])]
           /\ Ring' = [Ring EXCEPT ![l] = Tail(@)]
<1>0. PICK p \in Lidars : p = at
  BY DEF QueueInv, PollerHolds, PrePop
<1> DEFINE n == Held(p)
<1>1. /\ UNCHANGED <<wrIdx, rdIdx, slot>> /\ pollPc = "pop" /\ pollPc' = "update" /\ at' = at
      /\ published' = [published EXCEPT ![p] = slot[p][rdIdx[p] % Size]]
  BY <1>0 DEF PrePop
<1>2. /\ Taken(p) = 0 /\ Taken(p)' = 1
      /\ \A l \in Lidars : l # p => Taken(l)' = Taken(l)
  BY <1>0, <1>1 DEF Taken
<1>3. \A l \in Lidars : l # p => Contents(l)' = Contents(l)
  BY <1>1, <1>2, SameContents
<1>4. n \in Nat /\ n = Waiting(p) /\ n > 0 /\ rdIdx[p] \in Int
  <2>1. wrIdx[p] # rdIdx[p]
    BY <1>0 DEF PrePop, QueueIsEmpty
  <2> QED BY <1>2, <2>1, ContentsAre, StepApart, WaitingIsApart DEF Held, Indices
<1>5. /\ Contents(p) = [i \in 1..n |-> slot[p][Cell(p, i)]]
      /\ Contents(p) \in Seq(Frames) /\ Len(Contents(p)) = n
  BY ContentsAre
<1>6. Contents(p) # <<>> /\ Head(Contents(p)) = slot[p][rdIdx[p] % Size]
  <2>1. rdIdx[p] + Taken(p) + 1 - 1 = rdIdx[p]
    BY <1>2, <1>4
  <2>2. Contents(p)[1] = slot[p][Cell(p, 1)]
    BY <1>4, <1>5
  <2> QED BY <1>4, <1>5, <2>1, <2>2 DEF Cell
<1>7. Contents(p)' = Tail(Contents(p))
  <2> DEFINE new == [i \in 1..n - 1 |-> slot[p][Cell(p, i + 1)]]
  <2>1. Contents(p)' = new
    <3>1. Waiting(p)' - Taken(p)' = n - 1
      BY <1>1, <1>2, <1>4 DEF Waiting
    <3>2. \A i \in 1..n - 1 : rdIdx[p] + 1 + i - 1 = rdIdx[p] + 0 + (i + 1) - 1
      BY <1>4
    <3> QED BY <1>1, <1>2, <3>1, <3>2 DEF Contents, Cell
  <2> HIDE DEF new
  <2>2. Tail(Contents(p)) = [i \in 1..n - 1 |-> Contents(p)[i + 1]]
    BY <1>4, <1>5
  <2>3. \A i \in 1..n - 1 : Contents(p)[i + 1] = slot[p][Cell(p, i + 1)]
    <3>1. \A i \in 1..n - 1 : i + 1 \in 1..n
      BY <1>4
    <3> QED BY <1>5, <3>1
  <2> QED BY <2>1, <2>2, <2>3 DEF new
<1>8. Ring' = [Ring EXCEPT ![p] = Tail(@)]
  BY <1>3, <1>7 DEF Ring
<1> QED BY <1>1, <1>6, <1>8 DEF Ring

\* QueuePopUpdate takes nothing the poller had not taken.
LEMMA PopUpdateQuiet ==
  ASSUME QueueInv, PopUpdate
  PROVE  UNCHANGED <<Ring, published>>
<1>0. PICK p \in Lidars : p = at
  BY DEF QueueInv, PollerHolds, PopUpdate
<1>1. /\ UNCHANGED <<wrIdx, slot, published>> /\ pollPc = "update" /\ pollPc' = "pop"
      /\ rdIdx' = [rdIdx EXCEPT ![p] = Succ(rdIdx[p])] /\ at' = at
  BY <1>0 DEF PopUpdate, Succ
<1>2. /\ Taken(p) = 1 /\ Taken(p)' = 0
      /\ \A l \in Lidars : l # p => Taken(l)' = Taken(l)
  BY <1>0, <1>1 DEF Taken
<1>3. \A l \in Lidars : l # p => Contents(l)' = Contents(l)
  <2> TAKE l \in Lidars
  <2> HAVE l # p
  <2>1. rdIdx'[l] = rdIdx[l]
    BY <1>1 DEF QueueInv, Types
  <2> QED BY <1>1, <1>2, <2>1, SameContents
<1>4. rdIdx[p] \in Indices /\ rdIdx[p] \in Int /\ Waiting(p) \in Nat /\ wrIdx[p] # rdIdx[p]
  BY <1>0, ContentsAre DEF Indices, QueueInv, PollerHolds, PopUpdate
<1>5. rdIdx'[p] = Succ(rdIdx[p])
  BY <1>1 DEF QueueInv, Types
<1>6. Waiting(p)' = Waiting(p) - 1
  <2>1. wrIdx[p] \in Indices /\ Waiting(p) = Apart(wrIdx[p], rdIdx[p])
    BY ContentsAre, WaitingIsApart
  <2>2. Waiting(p)' = Apart(wrIdx[p], Succ(rdIdx[p]))
    BY <1>1, <1>5 DEF Waiting, Apart
  <2> QED BY <1>4, <2>1, <2>2, StepApart
<1>7. Contents(p)' = Contents(p)
  <2>1. Waiting(p)' - Taken(p)' = Waiting(p) - Taken(p)
    BY <1>2, <1>4, <1>6
  <2>2. \A i \in 1..Waiting(p) - Taken(p) :
          (rdIdx'[p] + Taken(p)' + i - 1) % Size = (rdIdx[p] + Taken(p) + i - 1) % Size
    <3> TAKE i \in 1..Waiting(p) - Taken(p)
    <3>1. (Succ(rdIdx[p]) + (i - 1)) % Size = (rdIdx[p] + 1 + (i - 1)) % Size
      BY <1>4, SlotOfSucc
    <3>2. /\ rdIdx'[p] + Taken(p)' + i - 1 = Succ(rdIdx[p]) + (i - 1)
          /\ rdIdx[p] + Taken(p) + i - 1 = rdIdx[p] + 1 + (i - 1)
      BY <1>2, <1>4, <1>5, SuccIs DEF Indices
    <3> QED BY <3>1, <3>2
  <2> QED BY <1>1, <2>1, <2>2 DEF Contents
<1> QED BY <1>1, <1>3, <1>7 DEF Ring

\* FifoRefined: nothing in the unlocked ring is lost, overwritten, delivered
\* twice or out of order, for any size and across the wrap of the indices.
THEOREM QueueIsFifo ==
  ASSUME MemoryOrder # "weak" PROVE Spec => FifoRefined
<1>1. Init => Fifo!Init
  <2> SUFFICES ASSUME Init PROVE Fifo!Init
    OBVIOUS
  <2>1. QueueInv
    BY QueueInvInit
  <2>2. \A l \in Lidars : Contents(l) = <<>>
    <3> TAKE l \in Lidars
    <3>1. Waiting(l) = 0
      BY ContentsAre, WaitingIsApart, StepApart, <2>1 DEF Init
    <3>2. Held(l) = 0
      BY <3>1 DEF Init, Held, Taken
    <3> QED BY <2>1, <3>2, ContentsAre
  <2>3. published \in [Lidars -> Frames]
    BY <2>1 DEF QueueInv, Types
  <2> QED BY <2>2, <2>3 DEF Fifo!Init
<1>2. ASSUME QueueInv, RingInv, [Next]_vars
      PROVE  [Fifo!Next]_<<Ring, published>>
  <2>1. CASE StoreIndex
    <3>1. PICK l \in Lidars, f \in Frames :
            Len(Ring[l]) < Size /\ Ring' = [Ring EXCEPT ![l] = Append(@, f)]
      BY <1>2, <2>1, StoreIndexPuts
    <3>2. UNCHANGED published
      BY <1>2, <2>1, StoreIndexPuts
    <3>3. Fifo!Put(l, f)
      BY <3>1, <3>2 DEF Fifo!Put, Ring
    <3> QED BY <3>3 DEF Fifo!Next
  <2>2. CASE PrePop
    <3>1. PICK l \in Lidars :
            /\ Ring[l] # <<>>
            /\ published' = [published EXCEPT ![l] = Head(Ring[l])]
            /\ Ring' = [Ring EXCEPT ![l] = Tail(@)]
      BY <1>2, <2>2, PrePopDelivers
    <3>2. Fifo!Deliver(l)
      BY <3>1 DEF Fifo!Deliver, Ring
    <3> QED BY <3>2 DEF Fifo!Next
  <2>3. CASE StoreSlot
    BY <1>2, <2>3, StoreSlotQuiet
  <2>4. CASE PopUpdate
    BY <1>2, <2>4, PopUpdateQuiet
  <2> QED BY <1>2, <2>1, <2>2, <2>3, <2>4, QuietSteps
<1>3. QueueInv /\ RingInv /\ [Next]_vars => (QueueInv /\ RingInv)'
  <2> SUFFICES ASSUME QueueInv, RingInv, [Next]_vars PROVE QueueInv' /\ RingInv'
    OBVIOUS
  <2>1. QueueInv'
    BY QueueInvStep
  <2>2. CASE UNCHANGED vars
    <3>1. UNCHANGED <<wrIdx, slot, stores, pushing, frame>>
      BY <2>2 DEF vars, pushVars
    <3> QED BY <2>1, <3>1 DEF RingInv
  <2> QED BY <2>1, <2>2, RingInvStep
<1>4. Init => QueueInv /\ RingInv
  BY QueueInvInit, RingInvInit
<1>5. QueueInv /\ RingInv /\ [Next]_vars => [Fifo!Next]_<<Ring, published>>
  BY <1>2
<1> QED BY <1>1, <1>3, <1>4, <1>5, PTL DEF Spec, FifoRefined, Fifo!Spec, Ring
=============================================================================
