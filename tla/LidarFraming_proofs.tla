------------------------- MODULE LidarFraming_proofs -------------------------
(***************************************************************************)
(* For every set of lidars, publishing interval, width of the stamps and   *)
(* steps of the device clock: the length of a frame, and that the packets  *)
(* become frames as PacketStream says.                                     *)
(***************************************************************************)
EXTENDS LidarFraming, SumLaws, SequenceTheorems

LEMMA Numbers ==
  /\ Interval \in Nat /\ Interval > 1 /\ StampMod \in Nat \ {0}
  /\ MaxNow \in Nat \ {0} /\ MaxNow < StampMod
  /\ \A s \in Skews : s \in Int
BY FramingAssumption

LEMMA ModIs ==
  ASSUME NEW n \in Nat \ {0}, NEW q \in Int, NEW r \in 0..n - 1
  PROVE  ((n * q) + r) % n = r
BY SMTT(30)

LEMMA DivMod ==
  ASSUME NEW n \in Nat \ {0}, NEW x \in Int
  PROVE  /\ x \div n \in Int /\ x % n \in 0..n - 1
         /\ x = (n * (x \div n)) + (x % n)
BY SMTT(30)

\* Of any n successive numbers one is a multiple of n.
LEMMA MultipleWithin ==
  ASSUME NEW n \in Nat \ {0}, NEW x \in Int
  PROVE  \E k \in 0..n - 1 : (x + k) % n = 0
<1> DEFINE d == x \div n
           r == x % n
<1>1. d \in Int /\ r \in 0..n - 1 /\ x = (n * d) + r
  BY DivMod
<1> HIDE DEF d, r
<1>2. CASE r = 0
  <2>1. x + 0 = (n * d) + 0 /\ d \in Int /\ 0 \in 0..n - 1
    BY <1>1, <1>2
  <2>2. ((n * d) + 0) % n = 0
    BY <2>1, ModIs
  <2> QED BY <2>1, <2>2
<1>3. CASE r # 0
  <2>1. x + (n - r) = (n * (d + 1)) + 0 /\ d + 1 \in Int /\ 0 \in 0..n - 1 /\ n - r \in 0..n - 1
    BY <1>1, <1>3, SMTT(30)
  <2>2. ((n * (d + 1)) + 0) % n = 0
    BY <2>1, ModIs
  <2> QED BY <2>1, <2>2
<1> QED BY <1>2, <1>3

\* Counting from a number that is one past a multiple of n, the first multiple
\* is the n-th.
LEMMA FirstMultiple ==
  ASSUME NEW n \in Nat, n > 1, NEW x \in Int, x % n = 1
  PROVE  /\ \A k \in 1..n - 1 : (x + k - 1) % n # 0
         /\ (x + n - 1) % n = 0
<1> DEFINE d == x \div n
<1>1. d \in Int /\ x = (n * d) + 1 /\ n \in Nat \ {0}
  BY DivMod
<1> HIDE DEF d
<1>2. \A k \in 1..n - 1 : (x + k - 1) % n # 0
  <2> TAKE k \in 1..n - 1
  <2>1. x + k - 1 = (n * d) + k /\ k \in 0..n - 1
    BY <1>1, SMTT(30)
  <2>2. ((n * d) + k) % n = k
    BY <1>1, <2>1, ModIs
  <2> QED BY <2>1, <2>2
<1>3. (x + n - 1) % n = 0
  <2>1. x + n - 1 = (n * (d + 1)) + 0 /\ d + 1 \in Int /\ 0 \in 0..n - 1
    BY <1>1, SMTT(30)
  <2>2. ((n * (d + 1)) + 0) % n = 0
    BY <1>1, <2>1, ModIs
  <2> QED BY <2>1, <2>2
<1> QED BY <1>2, <1>3

LEMMA StampModIs ==
  /\ \A x \in Int : x % StampMod \in Stamps
  /\ \A x \in Stamps : x % StampMod = x
<1> DEFINE m == StampMod
<1>1. m \in Nat \ {0}
  BY Numbers
<1> HIDE DEF m
<1>2. (\A x \in Int : x % m \in 0..m - 1) /\ (\A x \in 0..m - 1 : x % m = x)
  BY <1>1, SMT
<1> QED BY <1>2 DEF Stamps, m

(***************************************************************************)
(* Types.                                                                  *)
(***************************************************************************)
Packet == [lidar : Lidars, stamp : Stamps]

LEMMA TakenIs ==
  ASSUME TypeOK, queue # <<>>
  PROVE  /\ Taken.lidar \in Lidars /\ Taken.stamp \in Stamps
         /\ Tail(queue) \in Seq(Packet) /\ Len(Tail(queue)) <= MaxQueue
         /\ Clouds \in [Lidars -> Seq(Stamps)]
         /\ Clouds[Taken.lidar] = Append(cloud[Taken.lidar], Taken.stamp)
         /\ \A l \in Lidars : l # Taken.lidar => Clouds[l] = cloud[l]
<1>1. queue \in Seq(Packet) /\ Len(queue) <= MaxQueue
  BY DEF TypeOK, Packet
<1>2. Taken \in Packet /\ Tail(queue) \in Seq(Packet) /\ Len(Tail(queue)) <= MaxQueue
  BY <1>1, FramingAssumption DEF Taken
<1>3. Taken.lidar \in Lidars /\ Taken.stamp \in Stamps
  BY <1>2 DEF Packet
<1> QED BY <1>2, <1>3 DEF Clouds, TypeOK

LEMMA TypesInit == Init => TypeOK
<1> SUFFICES ASSUME Init PROVE TypeOK
  OBVIOUS
<1>1. now = 1 /\ skew = 0 /\ steps = 0 /\ heard = {} /\ queue = <<>> /\ timer = -1 /\ timed = {}
  BY DEF Init
<1>2. sync \in BOOLEAN
  BY Zenon DEF Init
<1>3. queue \in Seq([lidar : Lidars, stamp : Stamps]) /\ Len(queue) <= MaxQueue
  BY <1>1, FramingAssumption
<1>4. cloud \in [Lidars -> Seq(Stamps)] /\ out \in [Lidars -> Seq(Stamps)]
  BY DEF Init, NoFrame
<1>5. now \in 1..MaxNow /\ skew \in Skews /\ steps \in 0..MaxSteps /\ timer \in -1..now
  BY <1>1, FramingAssumption
<1> QED BY <1>1, <1>2, <1>3, <1>4, <1>5 DEF TypeOK

LEMMA TypesStep == TypeOK /\ [Next]_vars => TypeOK'
<1> SUFFICES ASSUME TypeOK, [Next]_vars PROVE TypeOK'
  OBVIOUS
<1>0. NoFrame \in [Lidars -> Seq(Stamps)]
  BY DEF NoFrame
<1>1. CASE Tick
  BY <1>0, <1>1, Numbers DEF Tick, TypeOK
<1>2. CASE ClockStep
  BY <1>0, <1>2, Numbers, FramingAssumption DEF ClockStep, TypeOK
<1>3. ASSUME NEW l \in Lidars, NEW synced \in Modes, Receive(l, synced)
      PROVE  TypeOK'
  <2> DEFINE s == IF synced THEN (now + skew) % StampMod ELSE now
             p == [lidar |-> l, stamp |-> s]
  <2>1. s \in Stamps
    <3>1. now + skew \in Int /\ now \in Stamps
      BY Numbers DEF TypeOK, Stamps
    <3>2. (now + skew) % StampMod \in Stamps
      BY <3>1, StampModIs
    <3> QED BY <3>1, <3>2
  <2>2. p \in Packet
    BY <2>1 DEF Packet
  <2>3. queue \in Seq(Packet) /\ Len(queue) < MaxQueue /\ queue' = Append(queue, p)
    BY <1>3 DEF Receive, TypeOK, Packet
  <2> HIDE DEF p
  <2>4. queue' \in Seq(Packet) /\ Len(queue') <= MaxQueue
    BY <2>2, <2>3, FramingAssumption
  <2>5. sync' \in BOOLEAN
    BY <1>3, FramingAssumption DEF Receive
  <2> QED BY <1>0, <1>3, <2>4, <2>5 DEF Receive, TypeOK, Packet
<1>4. ASSUME NEW synced \in Modes, ReceiveImu(synced)
      PROVE  TypeOK'
  <2>1. sync' \in BOOLEAN
    BY <1>4, FramingAssumption DEF ReceiveImu
  <2> QED BY <1>0, <1>4, <2>1 DEF ReceiveImu, TypeOK
<1>5. ASSUME queue # <<>>, queue' = Tail(queue), UNCHANGED <<now, skew, steps, heard, sync>>,
             timer' \in -1..now,
             \/ \E ls \in SUBSET Lidars : PublishClouds(ls)
             \/ \E ls \in SUBSET Lidars : KeepClouds(ls)
      PROVE  TypeOK'
  <2>1. /\ cloud' \in [Lidars -> Seq(Stamps)] /\ out' \in [Lidars -> Seq(Stamps)]
        /\ timed' \subseteq Lidars
    <3>1. Clouds \in [Lidars -> Seq(Stamps)] /\ <<>> \in Seq(Stamps) /\ timed \subseteq Lidars
      BY <1>5, TakenIs DEF TypeOK
    <3>2. CASE \E ls \in SUBSET Lidars : PublishClouds(ls)
      BY <3>1, <3>2 DEF PublishClouds
    <3>3. CASE \E ls \in SUBSET Lidars : KeepClouds(ls)
      BY <1>0, <3>1, <3>3 DEF KeepClouds
    <3> QED BY <1>5, <3>2, <3>3
  <2>2. queue' \in Seq([lidar : Lidars, stamp : Stamps]) /\ Len(queue') <= MaxQueue
    BY <1>5, TakenIs DEF Packet
  <2> QED BY <1>5, <2>1, <2>2 DEF TypeOK
<1>6. CASE ProcessSync
  BY <1>5, <1>6, TakenIs DEF ProcessSync, TypeOK
<1>7. CASE ProcessTimed
  <2>1. timer' \in -1..now
    BY <1>7, Numbers DEF ProcessTimed, Due, TypeOK
  <2> QED BY <1>5, <1>7, <2>1, TakenIs DEF ProcessTimed
<1>8. CASE UNCHANGED vars
  BY <1>8 DEF vars, TypeOK
<1> QED BY <1>1, <1>2, <1>3, <1>4, <1>6, <1>7, <1>8 DEF Next

\* TypeOK: PubHandler's state keeps its types, and last_pub_time_ is never in
\* the future.
THEOREM FramingTypes == Spec => []TypeOK
BY TypesInit, TypesStep, PTL DEF Spec

(***************************************************************************)
(* The length of clouds and frames.                                        *)
(***************************************************************************)
\* A sequence without a gap counts from its first stamp.
Even(c) == GapFree(c) => \A i \in 1..Len(c) : c[i] = c[1] + i - 1

\* No frame time that would have ended the frame has been passed over.
NoneMissed(c) ==
  \A i \in 1..Len(c) : AtFrameTime(c[i]) => ~((c[i] - c[1]) % StampMod >= Interval - 1)

CloudInv ==
  \A l \in Lidars : Even(cloud[l]) /\ (l \notin timed => NoneMissed(cloud[l]))

LEMMA EmptyCloud == Even(<<>>) /\ NoneMissed(<<>>)
BY DEF Even, NoneMissed

LEMMA AppendEven ==
  ASSUME NEW c \in Seq(Stamps), NEW s \in Stamps, Even(c)
  PROVE  Even(Append(c, s))
<1> DEFINE n == Len(c)
           d == Append(c, s)
<1>1. n \in Nat /\ Len(d) = n + 1 /\ d[n + 1] = s /\ \A i \in 1..n : d[i] = c[i]
  OBVIOUS
<1>2. \A i \in 1..n : c[i] \in Int
  <2>1. \A x \in Stamps : x \in Int
    BY Numbers DEF Stamps
  <2> QED BY <2>1
<1> HIDE DEF d
<1>3. ASSUME GapFree(d), NEW i \in 1..n + 1 PROVE d[i] = d[1] + i - 1
  <2>1. \A j \in 1..n : d[j + 1] = d[j] + 1
    BY <1>1, <1>3 DEF GapFree
  <2>2. GapFree(c)
    <3>1. \A j \in 1..n - 1 : j \in 1..n /\ j + 1 \in 1..n
      BY <1>1
    <3> QED BY <1>1, <2>1, <3>1 DEF GapFree
  <2>3. \A j \in 1..n : d[j] = d[1] + j - 1
    <3>1. \A j \in 1..n : c[j] = c[1] + j - 1
      BY <2>2 DEF Even
    <3> QED BY <1>1, <3>1
  <2>4. CASE i \in 1..n
    BY <2>3, <2>4
  <2>5. CASE i = n + 1 /\ n = 0
    BY <1>1, <2>5 DEF Stamps
  <2>6. CASE i = n + 1 /\ n > 0
    <3>1. n \in 1..n /\ d[n + 1] = d[n] + 1 /\ d[n] = d[1] + n - 1 /\ d[1] \in Int
      BY <1>1, <1>2, <2>1, <2>3, <2>6
    <3> QED BY <1>1, <2>6, <3>1
  <2> QED BY <1>1, <1>3, <2>4, <2>5, <2>6
<1> QED BY <1>1, <1>3 DEF Even, d

LEMMA AppendNoneMissed ==
  ASSUME NEW c \in Seq(Stamps), NEW s \in Stamps, NoneMissed(c),
         ~(AtFrameTime(s) /\ LongEnough(Append(c, s)))
  PROVE  NoneMissed(Append(c, s))
<1> DEFINE n == Len(c)
           d == Append(c, s)
<1>1. n \in Nat /\ Len(d) = n + 1 /\ d[n + 1] = s /\ \A i \in 1..n : d[i] = c[i]
  OBVIOUS
<1>2. ~(AtFrameTime(d[n + 1]) /\ (d[n + 1] - d[1]) % StampMod >= Interval - 1)
  BY <1>1 DEF LongEnough, Span
<1> HIDE DEF d
<1>3. \A i \in 1..n : AtFrameTime(d[i]) => ~((d[i] - d[1]) % StampMod >= Interval - 1)
  <2> TAKE i \in 1..n
  <2>1. d[i] = c[i] /\ d[1] = c[1]
    BY <1>1
  <2> QED BY <2>1 DEF NoneMissed
<1>4. \A i \in 1..Len(d) : i \in 1..n \/ i = n + 1
  BY <1>1
<1>5. NoneMissed(d)
  BY <1>2, <1>3, <1>4 DEF NoneMissed
<1> QED BY <1>5 DEF d

LEMMA CloudInvStep ==
  ASSUME TypeOK, CloudInv, [Next]_vars
  PROVE  CloudInv'
<1> DEFINE t == Taken.lidar
           s == Taken.stamp
<1>1. ASSUME queue # <<>>
      PROVE  /\ t \in Lidars /\ s \in Stamps /\ cloud[t] \in Seq(Stamps)
             /\ \A l \in Lidars : Even(Clouds[l])
             /\ \A l \in Lidars : l # t => Clouds[l] = cloud[l]
             /\ Clouds[t] = Append(cloud[t], s)
  <2>1. /\ t \in Lidars /\ s \in Stamps /\ cloud[t] \in Seq(Stamps)
        /\ Clouds[t] = Append(cloud[t], s)
        /\ \A l \in Lidars : l # t => Clouds[l] = cloud[l]
    BY <1>1, TakenIs DEF TypeOK
  <2>2. Even(Clouds[t])
    BY <2>1, AppendEven DEF CloudInv
  <2> QED BY <2>1, <2>2 DEF CloudInv
<1>2. CASE ProcessSync
  <2> USE <1>2 DEF ProcessSync
  <2>1. CASE AtFrameTime(s) /\ LongEnough(Clouds[t])
    <3>1. \A l \in Lidars : cloud'[l] = IF l = t THEN <<>> ELSE cloud[l]
      BY <1>1, <2>1 DEF PublishClouds
    <3>2. \A l \in Lidars : l # t => (l \in timed' <=> l \in timed)
      BY <2>1 DEF PublishClouds
    <3> QED BY <3>1, <3>2, EmptyCloud DEF CloudInv
  <2>2. CASE ~(AtFrameTime(s) /\ LongEnough(Clouds[t]))
    <3>1. cloud' = Clouds /\ timed' = timed
      BY <2>2 DEF KeepClouds
    <3>2. t \notin timed => NoneMissed(Clouds[t])
      BY <1>1, <2>2, AppendNoneMissed DEF CloudInv
    <3> QED BY <1>1, <3>1, <3>2 DEF CloudInv
  <2> QED BY <2>1, <2>2
<1>3. CASE ProcessTimed
  <2> USE <1>3 DEF ProcessTimed
  <2>1. CASE Due
    <3>1. \A l \in Lidars : cloud'[l] = <<>>
      BY <2>1 DEF PublishClouds
    <3> QED BY <3>1, EmptyCloud DEF CloudInv
  <2>2. CASE ~Due
    <3>1. cloud' = Clouds /\ timed' = timed \cup {t}
      BY <2>2 DEF KeepClouds
    <3> QED BY <1>1, <3>1 DEF CloudInv
  <2> QED BY <2>1, <2>2
<1>4. CASE \/ Tick \/ ClockStep \/ UNCHANGED vars
           \/ \E l \in Lidars, synced \in Modes : Receive(l, synced)
           \/ \E synced \in Modes : ReceiveImu(synced)
  <2>1. UNCHANGED <<cloud, timed>>
    BY <1>4 DEF Tick, ClockStep, Receive, ReceiveImu, vars
  <2> QED BY <2>1 DEF CloudInv
<1> QED BY <1>2, <1>3, <1>4 DEF Next

\* The stamp n places after the first of a sequence without a gap.
LEMMA SpanOfEven ==
  ASSUME NEW c \in Seq(Stamps), Even(c), GapFree(c), NEW i \in 1..Len(c)
  PROVE  c[i] = c[1] + i - 1 /\ (c[i] - c[1]) % StampMod = i - 1 /\ c[1] \in Nat
<1>1. c[i] \in Stamps /\ c[1] \in Stamps
  OBVIOUS
<1>2. c[i] = c[1] + i - 1 /\ c[1] \in Nat /\ c[i] \in Nat
  BY <1>1, Numbers DEF Even, Stamps
<1>3. c[i] - c[1] = i - 1 /\ i - 1 \in Stamps
  BY <1>1, <1>2, Numbers DEF Stamps
<1> QED BY <1>2, <1>3, StampModIs

LEMMA BoundedByFrameTime ==
  ASSUME NEW c \in Seq(Stamps), Even(c), NoneMissed(c), GapFree(c)
  PROVE  Len(c) < 2 * Interval - 1
<1> SUFFICES ASSUME Len(c) >= 2 * Interval - 1 PROVE FALSE
  BY Numbers
<1>1. 1 \in 1..Len(c) /\ c[1] \in Nat
  BY Numbers, SpanOfEven
<1>2. PICK k \in 0..Interval - 1 : (c[1] + Interval - 1 + k) % Interval = 0
  <2> DEFINE m == Interval
             x == c[1] + m - 1
  <2>1. m \in Nat \ {0} /\ x \in Int
    BY <1>1, Numbers
  <2> HIDE DEF m, x
  <2>2. \E k \in 0..m - 1 : (x + k) % m = 0
    BY <2>1, MultipleWithin
  <2> QED BY <2>2 DEF m, x
<1> DEFINE i == Interval + k
<1>3. i \in 1..Len(c) /\ i - 1 >= Interval - 1 /\ i - 1 > 0
  BY <1>2, Numbers
<1> HIDE DEF i
<1>4. c[i] = c[1] + i - 1 /\ (c[i] - c[1]) % StampMod = i - 1
  BY <1>3, SpanOfEven
<1>5. AtFrameTime(c[i])
  <2>1. c[1] + Interval - 1 + k = c[1] + i - 1
    BY <1>1, Numbers DEF i
  <2> QED BY <1>1, <1>2, <1>3, <1>4, <2>1 DEF AtFrameTime
<1> QED BY <1>3, <1>4, <1>5 DEF NoneMissed

\* The frame that ends with s, the first frame time it has long enough seen.
LEMMA OneIntervalLong ==
  ASSUME NEW c \in Seq(Stamps), NEW s \in Stamps, Even(c), NoneMissed(c),
         GapFree(Append(c, s)), AtFrameTime(s), Append(c, s)[1] % Interval = 1
  PROVE  Len(Append(c, s)) = Interval
<1> DEFINE d == Append(c, s)
           n == Len(c)
<1>1. n \in Nat /\ Len(d) = n + 1 /\ d[n + 1] = s /\ (\A i \in 1..n : d[i] = c[i]) /\ d \in Seq(Stamps)
  OBVIOUS
<1>2. Even(d)
  BY AppendEven
<1>3. GapFree(d) /\ d[1] % Interval = 1 /\ AtFrameTime(d[n + 1])
  BY <1>1
<1> HIDE DEF d
<1>4. n + 1 \in 1..Len(d) /\ d[1] \in Nat /\ d[n + 1] = d[1] + (n + 1) - 1
  <2> DEFINE j == n + 1
  <2>1. j \in 1..Len(d) /\ d \in Seq(Stamps)
    BY <1>1
  <2> HIDE DEF j
  <2>2. d[j] = d[1] + j - 1 /\ d[1] \in Nat
    BY <1>2, <1>3, <2>1, SpanOfEven
  <2> QED BY <2>1, <2>2 DEF j
<1>5. /\ \A k \in 1..Interval - 1 : (d[1] + k - 1) % Interval # 0
      /\ (d[1] + Interval - 1) % Interval = 0
  <2> DEFINE m == Interval
             x == d[1]
  <2>1. m \in Nat /\ m > 1 /\ x \in Int /\ x % m = 1
    BY <1>3, <1>4, Numbers
  <2> HIDE DEF m, x
  <2>2. (\A k \in 1..m - 1 : (x + k - 1) % m # 0) /\ (x + m - 1) % m = 0
    BY <2>1, FirstMultiple
  <2> QED BY <2>2 DEF m, x
<1>6. ~(n + 1 < Interval)
  <2> SUFFICES ASSUME n + 1 < Interval PROVE FALSE
    OBVIOUS
  <2>1. n + 1 \in 1..Interval - 1
    BY <1>1, Numbers
  <2>2. (d[1] + (n + 1) - 1) % Interval # 0
    BY <1>5, <2>1
  <2> QED BY <1>3, <1>4, <2>2 DEF AtFrameTime
<1>7. ~(n + 1 > Interval)
  <2> SUFFICES ASSUME n + 1 > Interval PROVE FALSE
    OBVIOUS
  <2> DEFINE i == Interval
  <2>1. i \in 1..n /\ i \in 1..Len(d) /\ 1 \in 1..n /\ i - 1 > 0
    BY <1>1, Numbers
  <2>2. d[i] = d[1] + i - 1 /\ (d[i] - d[1]) % StampMod = i - 1
    BY <1>1, <1>2, <1>3, <2>1, SpanOfEven
  <2>3. AtFrameTime(d[i])
    BY <1>4, <1>5, <2>1, <2>2 DEF AtFrameTime
  <2>4. d[i] = c[i] /\ d[1] = c[1]
    BY <1>1, <2>1
  <2>5. ~((c[i] - c[1]) % StampMod >= i - 1)
    BY <2>1, <2>3, <2>4 DEF NoneMissed
  <2> QED BY <2>1, <2>2, <2>4, <2>5
<1>8. n + 1 = Interval
  BY <1>1, <1>6, <1>7, Numbers
<1> QED BY <1>1, <1>8 DEF d

FramingInv == TypeOK /\ CloudInv

LEMMA FramingInvHolds == Spec => []FramingInv
<1>1. Init => FramingInv
  <2> SUFFICES ASSUME Init PROVE FramingInv
    OBVIOUS
  <2>1. \A l \in Lidars : cloud[l] = <<>>
    BY DEF Init, NoFrame
  <2> QED BY <2>1, TypesInit, EmptyCloud DEF FramingInv, CloudInv
<1>2. FramingInv /\ [Next]_vars => FramingInv'
  BY TypesStep, CloudInvStep DEF FramingInv
<1> QED BY <1>1, <1>2, PTL DEF Spec

\* CloudBounded: CheckTimer lets no frame time pass that is an interval after
\* the first point, so a synchronised cloud without a gap stays under two.
THEOREM CloudsBounded == Spec => []CloudBounded
<1>1. FramingInv => CloudBounded
  <2> SUFFICES ASSUME FramingInv, NEW l \in Lidars \ timed, GapFree(cloud[l])
               PROVE  Len(cloud[l]) < 2 * Interval - 1
    BY DEF CloudBounded
  <2> QED BY BoundedByFrameTime DEF FramingInv, CloudInv, TypeOK
<1> QED BY <1>1, FramingInvHolds, PTL

\* WholeIntervals: a frame CheckTimer ends at a frame time, begun right after
\* one, is one interval long.
THEOREM FramesAreIntervals == Spec => WholeIntervals
<1> DEFINE Whole == \A l \in Lidars \ timed :
                      out'[l] # <<>> /\ sync /\ GapFree(out'[l]) /\ out'[l][1] % Interval = 1
                        => Len(out'[l]) = Interval
<1>1. ASSUME FramingInv, [Next]_vars PROVE [Whole]_vars
  <2> SUFFICES ASSUME Next, NEW l \in Lidars \ timed, out'[l] # <<>>, sync,
                      GapFree(out'[l]), out'[l][1] % Interval = 1
               PROVE  Len(out'[l]) = Interval
    BY <1>1
  <2>1. ProcessSync
    BY DEF Next, Tick, ClockStep, Receive, ReceiveImu, ProcessTimed, NoFrame
  <2>2. /\ queue # <<>> /\ l = Taken.lidar /\ AtFrameTime(Taken.stamp)
        /\ out'[l] = Clouds[l]
    BY <2>1 DEF ProcessSync, PublishClouds, KeepClouds, NoFrame
  <2>3. /\ out'[l] = Append(cloud[l], Taken.stamp) /\ Taken.stamp \in Stamps
        /\ cloud[l] \in Seq(Stamps) /\ Even(cloud[l]) /\ NoneMissed(cloud[l])
    BY <1>1, <2>2, TakenIs DEF FramingInv, CloudInv, TypeOK
  <2> QED BY <2>2, <2>3, OneIntervalLong
<1>2. FramingInv /\ [Next]_vars => [Whole]_vars
  BY <1>1
<1> QED BY <1>2, FramingInvHolds, PTL DEF Spec, WholeIntervals

(***************************************************************************)
(* The packets of the queue, one lidar at a time.                          *)
(***************************************************************************)
\* What follows r in a cloud when the packet p is taken.
Picked(r, p, l) == IF p.lidar = l THEN Append(r, p.stamp) ELSE r

\* f takes the stamps of l's packets among the first n of q, for each n up to m.
Picks(q, l, m, f) == f = [n \in 0..m |-> IF n = 0 THEN <<>> ELSE Picked(f[n - 1], q[n], l)]

PicksOf(q, l) == CHOOSE f : Picks(q, l, Len(q), f)

LEMMA QueuedIs ==
  ASSUME NEW l
  PROVE  QueuedOf(l) = PicksOf(queue, l)[Len(queue)]
BY DEF QueuedOf, PicksOf, Picks, Picked

LEMMA PickedIs ==
  ASSUME NEW r \in Seq(Stamps), NEW p \in Packet, NEW l
  PROVE  Picked(r, p, l) \in Seq(Stamps)
BY DEF Picked, Packet

LEMMA PicksNext ==
  ASSUME NEW q, NEW l, NEW m \in Nat, NEW f, Picks(q, l, m, f)
  PROVE  /\ f[0] = <<>>
         /\ \A n \in 0..m - 1 : f[n + 1] = Picked(f[n], q[n + 1], l)
<1>1. f = [n \in 0..m |-> IF n = 0 THEN <<>> ELSE Picked(f[n - 1], q[n], l)]
  BY DEF Picks
<1>2. f[0] = <<>>
  <2>1. 0 \in 0..m
    OBVIOUS
  <2> QED BY <1>1, <2>1
<1>3. ASSUME NEW n \in 0..m - 1 PROVE f[n + 1] = Picked(f[n], q[n + 1], l)
  <2> DEFINE k == n + 1
  <2>1. k \in 0..m /\ k # 0 /\ k - 1 = n
    OBVIOUS
  <2> HIDE DEF k
  <2>2. f[k] = IF k = 0 THEN <<>> ELSE Picked(f[k - 1], q[k], l)
    BY <1>1, <2>1
  <2> QED BY <2>1, <2>2 DEF k
<1> QED BY <1>2, <1>3

\* There is such an f, for one packet after the other.
PicksUpTo(q, l, m) == \E f \in [0..m -> Seq(Stamps)] : Picks(q, l, m, f)

LEMMA PicksOneMore ==
  ASSUME NEW q \in Seq(Packet), NEW l, NEW m \in Nat, m + 1 <= Len(q), PicksUpTo(q, l, m)
  PROVE  PicksUpTo(q, l, m + 1)
<1>1. PICK g \in [0..m -> Seq(Stamps)] : Picks(q, l, m, g)
  BY DEF PicksUpTo
<1>2. g = [n \in 0..m |-> IF n = 0 THEN <<>> ELSE Picked(g[n - 1], q[n], l)]
  BY <1>1 DEF Picks
<1>3. \A n \in 1..m + 1 : n - 1 \in 0..m /\ q[n] \in Packet
  <2> TAKE n \in 1..m + 1
  <2>1. n \in 1..Len(q) /\ n - 1 \in 0..m
    OBVIOUS
  <2> QED BY <2>1
<1>4. \A n \in 0..m + 1 : n # 0 => n \in 1..m + 1
  OBVIOUS
<1> DEFINE f == [n \in 0..m + 1 |-> IF n = 0 THEN <<>> ELSE Picked(g[n - 1], q[n], l)]
<1>5. f \in [0..m + 1 -> Seq(Stamps)]
  <2> SUFFICES ASSUME NEW n \in 0..m + 1
               PROVE  (IF n = 0 THEN <<>> ELSE Picked(g[n - 1], q[n], l)) \in Seq(Stamps)
    OBVIOUS
  <2>1. CASE n # 0
    <3>1. g[n - 1] \in Seq(Stamps) /\ q[n] \in Packet
      BY <1>3, <1>4, <2>1
    <3> QED BY <2>1, <3>1, PickedIs
  <2>2. CASE n = 0
    BY <2>2
  <2> QED BY <2>1, <2>2
<1>6. \A n \in 0..m : f[n] = g[n]
  <2> TAKE n \in 0..m
  <2>1. n \in 0..m + 1
    OBVIOUS
  <2>2. f[n] = IF n = 0 THEN <<>> ELSE Picked(g[n - 1], q[n], l)
    BY <2>1
  <2> HIDE DEF f
  <2>3. g[n] = IF n = 0 THEN <<>> ELSE Picked(g[n - 1], q[n], l)
    BY <1>2
  <2> QED BY <2>2, <2>3
<1>7. f = [n \in 0..m + 1 |-> IF n = 0 THEN <<>> ELSE Picked(f[n - 1], q[n], l)]
  <2>1. ASSUME NEW n \in 0..m + 1
        PROVE  f[n] = IF n = 0 THEN <<>> ELSE Picked(f[n - 1], q[n], l)
    <3>1. f[n] = IF n = 0 THEN <<>> ELSE Picked(g[n - 1], q[n], l)
      OBVIOUS
    <3> HIDE DEF f
    <3>2. n # 0 => f[n - 1] = g[n - 1]
      BY <1>3, <1>4, <1>6
    <3> QED BY <3>1, <3>2
  <2>2. f = [n \in 0..m + 1 |-> f[n]]
    OBVIOUS
  <2> HIDE DEF f
  <2> QED BY <2>1, <2>2
<1> HIDE DEF f
<1> QED BY <1>5, <1>7 DEF PicksUpTo, Picks

LEMMA PicksExists ==
  ASSUME NEW q \in Seq(Packet), NEW l
  PROVE  /\ Picks(q, l, Len(q), PicksOf(q, l))
         /\ PicksOf(q, l) \in [0..Len(q) -> Seq(Stamps)]
<1> DEFINE N == {m \in Nat : m <= Len(q) => PicksUpTo(q, l, m)}
<1>0. Len(q) \in Nat
  OBVIOUS
<1>1. 0 \in N
  <2> DEFINE f == [n \in 0..0 |-> <<>>]
  <2>1. f \in [0..0 -> Seq(Stamps)]
    OBVIOUS
  <2>2. Picks(q, l, 0, f)
    <3>1. f = [n \in 0..0 |-> IF n = 0 THEN <<>> ELSE Picked(f[n - 1], q[n], l)]
      OBVIOUS
    <3> QED BY <3>1 DEF Picks
  <2> HIDE DEF f
  <2> QED BY <2>1, <2>2 DEF PicksUpTo
<1>2. ASSUME NEW m \in Nat, m \in N PROVE m + 1 \in N
  <2>1. m + 1 <= Len(q) => m <= Len(q)
    BY <1>0
  <2> QED BY <1>2, <2>1, PicksOneMore
<1> HIDE DEF N
<1>3. Len(q) \in N
  BY <1>0, <1>1, <1>2, Climb
<1>4. PicksUpTo(q, l, Len(q))
  BY <1>0, <1>3 DEF N
<1>5. Picks(q, l, Len(q), PicksOf(q, l))
  BY <1>4 DEF PicksUpTo, PicksOf
<1> DEFINE h == PicksOf(q, l)
           M == {n \in Nat : n <= Len(q) => h[n] \in Seq(Stamps)}
<1>6. h[0] = <<>> /\ \A n \in 0..Len(q) - 1 : h[n + 1] = Picked(h[n], q[n + 1], l)
  BY <1>0, <1>5, PicksNext
<1>7. h = [n \in 0..Len(q) |-> IF n = 0 THEN <<>> ELSE Picked(h[n - 1], q[n], l)]
  BY <1>5 DEF Picks
<1> HIDE DEF h
<1>8. 0 \in M
  <2>1. h[0] \in Seq(Stamps)
    BY <1>6, EmptySeq
  <2> QED BY <2>1
<1>9. ASSUME NEW n \in Nat, n \in M PROVE n + 1 \in M
  <2> SUFFICES ASSUME n + 1 <= Len(q) PROVE h[n + 1] \in Seq(Stamps)
    OBVIOUS
  <2>1. n \in 0..Len(q) - 1 /\ n + 1 \in 1..Len(q) /\ n <= Len(q)
    BY <1>0
  <2>2. h[n] \in Seq(Stamps) /\ q[n + 1] \in Packet
    BY <1>9, <2>1
  <2> QED BY <1>6, <2>1, <2>2, PickedIs
<1> HIDE DEF M
<1>10. \A n \in 0..Len(q) : h[n] \in Seq(Stamps)
  <2>1. \A n \in Nat : n \in M
    BY <1>8, <1>9, Climb
  <2> QED BY <1>0, <2>1 DEF M
<1>11. h \in [0..Len(q) -> Seq(Stamps)]
  <2>1. h = [n \in 0..Len(q) |-> h[n]]
    BY <1>7
  <2> QED BY <1>10, <2>1
<1> QED BY <1>5, <1>11 DEF h

LEMMA AppendToConcat ==
  ASSUME NEW a \in Seq(Stamps), NEW b \in Seq(Stamps), NEW e \in Stamps
  PROVE  Append(a \o b, e) = a \o Append(b, e)
<1>1. /\ Append(b, e) = b \o <<e>> /\ a \o b \in Seq(Stamps) /\ <<e>> \in Seq(Stamps)
  BY AppendIsConcat, ConcatProperties
<1>2. Append(a \o b, e) = (a \o b) \o <<e>>
  BY <1>1, AppendIsConcat
<1>3. (a \o b) \o <<e>> = a \o (b \o <<e>>)
  BY <1>1, ConcatAssociative
<1> QED BY <1>1, <1>2, <1>3

LEMMA PickedAfter ==
  ASSUME NEW a \in Seq(Stamps), NEW b \in Seq(Stamps), NEW p \in Packet, NEW l
  PROVE  Picked(a \o b, p, l) = a \o Picked(b, p, l)
<1>1. p.stamp \in Stamps
  BY DEF Packet
<1>2. Append(a \o b, p.stamp) = a \o Append(b, p.stamp)
  BY <1>1, AppendToConcat
<1> QED BY <1>2 DEF Picked

LEMMA PickedBetween ==
  ASSUME NEW a \in Seq(Stamps), NEW b \in Seq(Stamps), NEW p \in Packet, NEW l
  PROVE  a \o (Picked(<<>>, p, l) \o b) = Picked(a, p, l) \o b
<1> DEFINE e == <<>>
           c == Picked(e, p, l)
<1>1. a \o e = a /\ e \in Seq(Stamps)
  BY ConcatEmptySeq, EmptySeq
<1> HIDE DEF e
<1>2. c \in Seq(Stamps)
  BY <1>1, PickedIs
<1>3. Picked(a \o e, p, l) = a \o c
  <2>1. p.stamp \in Stamps
    BY DEF Packet
  <2>2. Append(a \o e, p.stamp) = a \o Append(e, p.stamp)
    BY <1>1, <2>1, AppendToConcat
  <2> QED BY <2>2 DEF Picked
<1> HIDE DEF c
<1>4. (a \o c) \o b = a \o (c \o b)
  BY <1>2, ConcatAssociative
<1>5. a \o (c \o b) = Picked(a, p, l) \o b
  BY <1>1, <1>3, <1>4
<1> QED BY <1>5 DEF c, e

\* What a queue picks goes on from what its first d packets gave, as the
\* queue of the others does from nothing.
LEMMA PicksShifted ==
  ASSUME NEW q \in Seq(Packet), NEW r \in Seq(Packet), NEW d \in Nat, NEW l,
         d + Len(r) <= Len(q),
         \A n \in 1..Len(r) : r[n] = q[n + d]
  PROVE  \A n \in 0..Len(r) : PicksOf(q, l)[n + d] = PicksOf(q, l)[d] \o PicksOf(r, l)[n]
<1> DEFINE f == PicksOf(q, l)
           g == PicksOf(r, l)
           N == {n \in Nat : n <= Len(r) => f[n + d] = f[d] \o g[n]}
<1>0. Len(q) \in Nat /\ Len(r) \in Nat
  OBVIOUS
<1>1. /\ f \in [0..Len(q) -> Seq(Stamps)] /\ g \in [0..Len(r) -> Seq(Stamps)]
      /\ Picks(q, l, Len(q), f) /\ Picks(r, l, Len(r), g)
  BY PicksExists
<1> HIDE DEF f, g
<1>2. /\ g[0] = <<>>
      /\ \A n \in 0..Len(r) - 1 : g[n + 1] = Picked(g[n], r[n + 1], l)
      /\ \A n \in 0..Len(q) - 1 : f[n + 1] = Picked(f[n], q[n + 1], l)
  <2>1. g[0] = <<>> /\ \A n \in 0..Len(r) - 1 : g[n + 1] = Picked(g[n], r[n + 1], l)
    <3>1. Len(r) \in Nat /\ Picks(r, l, Len(r), g)
      BY <1>0, <1>1, Zenon
    <3> QED BY <3>1, PicksNext, ZenonT(40)
  <2>2. \A n \in 0..Len(q) - 1 : f[n + 1] = Picked(f[n], q[n + 1], l)
    <3>1. Len(q) \in Nat /\ Picks(q, l, Len(q), f)
      BY <1>0, <1>1, Zenon
    <3> QED BY <3>1, PicksNext, ZenonT(40)
  <2> QED BY <2>1, <2>2
<1>3. f[d] \in Seq(Stamps)
  BY <1>0, <1>1
<1>4. 0 \in N
  <2>1. f[d] \o <<>> = f[d]
    BY <1>3, ConcatEmptySeq
  <2>2. f[0 + d] = f[d] \o g[0]
    BY <1>2, <2>1
  <2> QED BY <2>2
<1>5. ASSUME NEW n \in Nat, n \in N PROVE n + 1 \in N
  <2>0. n + 1 \in Nat
    OBVIOUS
  <2>0a. n <= Len(r) => f[n + d] = f[d] \o g[n]
    BY <1>5, Zenon
  <2> SUFFICES ASSUME n + 1 <= Len(r) PROVE f[(n + 1) + d] = f[d] \o g[n + 1]
    BY <2>0
  <2> HIDE DEF N
  <2> DEFINE k == n + d
  <2>1. /\ n <= Len(r) /\ n \in 0..Len(r) - 1 /\ n \in 0..Len(r) /\ n + 1 \in 1..Len(r)
        /\ k \in 0..Len(q) - 1 /\ (n + 1) + d = k + 1
    BY <1>0
  <2>2. f[k] = f[d] \o g[n]
    BY <2>0a, <2>1
  <2> HIDE DEF k
  <2>3. r[n + 1] = q[k + 1] /\ r[n + 1] \in Packet /\ g[n] \in Seq(Stamps)
    <3>1. r[n + 1] = q[k + 1]
      BY <2>1 DEF k
    <3>2. r[n + 1] \in Packet
      BY <2>1
    <3>3. g[n] \in Seq(Stamps)
      BY <1>1, <2>1
    <3> QED BY <3>1, <3>2, <3>3
  <2>4. f[k + 1] = Picked(f[d] \o g[n], r[n + 1], l)
    BY <1>2, <2>1, <2>2, <2>3
  <2>5. f[k + 1] = f[d] \o Picked(g[n], r[n + 1], l)
    BY <1>3, <2>3, <2>4, PickedAfter
  <2> QED BY <1>2, <2>1, <2>5
<1> HIDE DEF N
<1>6. \A n \in Nat : n \in N
  BY <1>4, <1>5, Climb
<1>7. \A n \in 0..Len(r) : f[n + d] = f[d] \o g[n]
  <2> TAKE n \in 0..Len(r)
  <2>1. n \in Nat /\ n <= Len(r)
    BY <1>0
  <2>2. n \in N
    BY <1>6, <2>1
  <2> QED BY <2>1, <2>2, Zenon DEF N
<1> QED BY <1>7 DEF f, g

\* A packet that arrives is the last that its lidar has in the queue.
LEMMA PicksAppended ==
  ASSUME NEW q \in Seq(Packet), NEW p \in Packet, NEW l
  PROVE  PicksOf(Append(q, p), l)[Len(Append(q, p))] = Picked(PicksOf(q, l)[Len(q)], p, l)
<1> DEFINE r == Append(q, p)
<1>1. /\ r \in Seq(Packet) /\ Len(q) \in Nat /\ Len(r) = Len(q) + 1
      /\ r[Len(q) + 1] = p /\ \A n \in 1..Len(q) : r[n] = q[n]
  BY AppendProperties
<1> HIDE DEF r
<1>2. /\ Picks(r, l, Len(r), PicksOf(r, l))
      /\ PicksOf(q, l) \in [0..Len(q) -> Seq(Stamps)]
  BY <1>1, PicksExists
<1>3. /\ PicksOf(r, l)[0] = <<>>
      /\ PicksOf(r, l)[Len(q) + 1] = Picked(PicksOf(r, l)[Len(q)], p, l)
  <2> DEFINE m == Len(r)
  <2>1. m \in Nat /\ Picks(r, l, m, PicksOf(r, l)) /\ Len(q) \in 0..m - 1
    BY <1>1, <1>2
  <2> HIDE DEF m
  <2>2. /\ PicksOf(r, l)[0] = <<>>
        /\ \A n \in 0..m - 1 : PicksOf(r, l)[n + 1] = Picked(PicksOf(r, l)[n], r[n + 1], l)
    BY <2>1, PicksNext, Zenon
  <2> QED BY <1>1, <2>1, <2>2
<1>4. PicksOf(r, l)[Len(q)] = <<>> \o PicksOf(q, l)[Len(q)]
  <2>1. 0 + Len(q) <= Len(r) /\ \A n \in 1..Len(q) : q[n] = r[n + 0]
    BY <1>1
  <2>2. \A n \in 0..Len(q) : PicksOf(r, l)[n + 0] = PicksOf(r, l)[0] \o PicksOf(q, l)[n]
    <3>1. 0 \in Nat
      OBVIOUS
    <3> QED BY <1>1, <2>1, <3>1, PicksShifted, Zenon
  <2>3. Len(q) \in 0..Len(q) /\ Len(q) + 0 = Len(q)
    BY <1>1
  <2> QED BY <1>3, <2>2, <2>3
<1>5. <<>> \o PicksOf(q, l)[Len(q)] = PicksOf(q, l)[Len(q)]
  BY <1>1, <1>2, ConcatEmptySeq
<1> QED BY <1>1, <1>3, <1>4, <1>5 DEF r

\* The packet that is taken is the first that its lidar has in the queue.
LEMMA PicksTaken ==
  ASSUME NEW q \in Seq(Packet), q # <<>>, NEW l
  PROVE  PicksOf(q, l)[Len(q)] = Picked(<<>>, Head(q), l) \o PicksOf(Tail(q), l)[Len(Tail(q))]
<1> DEFINE r == Tail(q)
<1>1. /\ r \in Seq(Packet) /\ Len(q) \in Nat /\ Len(q) > 0 /\ Len(r) = Len(q) - 1
      /\ Head(q) = q[1] /\ \A n \in 1..Len(r) : r[n] = q[n + 1]
  BY HeadTailProperties, EmptySeq
<1> HIDE DEF r
<1>2. PicksOf(q, l)[1] = Picked(<<>>, Head(q), l)
  <2>1. PicksOf(q, l)[0] = <<>> /\ PicksOf(q, l)[0 + 1] = Picked(PicksOf(q, l)[0], q[0 + 1], l)
    BY <1>1, PicksExists, PicksNext
  <2> QED BY <1>1, <2>1
<1>3. PicksOf(q, l)[Len(r) + 1] = PicksOf(q, l)[1] \o PicksOf(r, l)[Len(r)]
  <2>1. 1 + Len(r) <= Len(q) /\ Len(r) \in 0..Len(r)
    BY <1>1
  <2>2. \A n \in 0..Len(r) : PicksOf(q, l)[n + 1] = PicksOf(q, l)[1] \o PicksOf(r, l)[n]
    <3>1. 1 \in Nat
      OBVIOUS
    <3>2. 1 + Len(r) <= Len(q) /\ r \in Seq(Packet) /\ \A n \in 1..Len(r) : r[n] = q[n + 1]
      BY <1>1, <2>1
    <3> QED BY <3>1, <3>2, PicksShifted, Zenon
  <2> QED BY <2>1, <2>2
<1>4. Len(r) + 1 = Len(q)
  BY <1>1
<1>5. PicksOf(q, l)[Len(q)] = Picked(<<>>, Head(q), l) \o PicksOf(r, l)[Len(r)]
  BY <1>2, <1>3, <1>4
<1> QED BY <1>5 DEF r

(***************************************************************************)
(* PubHandler implements PacketStream.                                     *)
(***************************************************************************)
\* The packets of l that are in no frame yet.
PendingOf(l) == cloud[l] \o QueuedOf(l)

LEMMA QueuedTypes ==
  ASSUME TypeOK, NEW l \in Lidars
  PROVE  QueuedOf(l) \in Seq(Stamps) /\ cloud[l] \in Seq(Stamps)
<1>1. queue \in Seq(Packet) /\ cloud[l] \in Seq(Stamps)
  BY DEF TypeOK, Packet
<1>2. PicksOf(queue, l) \in [0..Len(queue) -> Seq(Stamps)] /\ Len(queue) \in 0..Len(queue)
  BY <1>1, PicksExists
<1> QED BY <1>1, <1>2, QueuedIs

LEMMA QueueKept ==
  ASSUME queue' = queue, NEW l
  PROVE  QueuedOf(l)' = QueuedOf(l)
BY DEF QueuedOf

LEMMA ArrivalQueued ==
  ASSUME TypeOK, NEW p \in Packet, queue' = Append(queue, p), cloud' = cloud, NEW l \in Lidars
  PROVE  PendingOf(l)' = Picked(PendingOf(l), p, l)
<1>1. queue \in Seq(Packet) /\ QueuedOf(l) \in Seq(Stamps) /\ cloud[l] \in Seq(Stamps)
  BY QueuedTypes DEF TypeOK, Packet
<1>2. QueuedOf(l)' = PicksOf(queue', l)[Len(queue')]
  BY DEF QueuedOf, PicksOf, Picks, Picked
<1>3. QueuedOf(l)' = Picked(QueuedOf(l), p, l)
  BY <1>1, <1>2, PicksAppended, QueuedIs
<1>4. PendingOf(l)' = cloud[l] \o Picked(QueuedOf(l), p, l)
  BY <1>3 DEF PendingOf
<1>5. Picked(cloud[l] \o QueuedOf(l), p, l) = cloud[l] \o Picked(QueuedOf(l), p, l)
  <2> DEFINE a == cloud[l]
             b == QueuedOf(l)
  <2>1. a \in Seq(Stamps) /\ b \in Seq(Stamps)
    BY <1>1
  <2> HIDE DEF a, b
  <2>2. Picked(a \o b, p, l) = a \o Picked(b, p, l)
    BY <2>1, PickedAfter
  <2> QED BY <2>2 DEF a, b
<1> QED BY <1>4, <1>5 DEF PendingOf

\* A packet that is taken from the queue goes to the end of its cloud.
LEMMA TakingKeepsPending ==
  ASSUME TypeOK, queue # <<>>, queue' = Tail(queue), NEW l \in Lidars
  PROVE  PendingOf(l) = Clouds[l] \o QueuedOf(l)' /\ QueuedOf(l)' \in Seq(Stamps)
<1>1. queue \in Seq(Packet) /\ QueuedOf(l) \in Seq(Stamps) /\ cloud[l] \in Seq(Stamps)
  BY QueuedTypes DEF TypeOK, Packet
<1>2. QueuedOf(l)' = PicksOf(queue', l)[Len(queue')]
  BY DEF QueuedOf, PicksOf, Picks, Picked
<1>3. Taken \in Packet /\ queue' \in Seq(Packet) /\ Taken = Head(queue)
  BY <1>1 DEF Taken
<1>4. QueuedOf(l)' \in Seq(Stamps)
  <2>1. PicksOf(queue', l) \in [0..Len(queue') -> Seq(Stamps)] /\ Len(queue') \in 0..Len(queue')
    BY <1>3, PicksExists
  <2> QED BY <1>2, <2>1
<1>5. QueuedOf(l) = Picked(<<>>, Taken, l) \o QueuedOf(l)'
  BY <1>1, <1>2, <1>3, PicksTaken, QueuedIs
<1>6. Clouds[l] = Picked(cloud[l], Taken, l)
  BY <1>3 DEF Clouds, Picked, Packet, TypeOK
<1>7. cloud[l] \o (Picked(<<>>, Taken, l) \o QueuedOf(l)')
        = Picked(cloud[l], Taken, l) \o QueuedOf(l)'
  <2> DEFINE a == cloud[l]
             b == QueuedOf(l)'
             p == Taken
  <2>1. a \in Seq(Stamps) /\ b \in Seq(Stamps) /\ p \in Packet
    BY <1>1, <1>3, <1>4
  <2> HIDE DEF a, b, p
  <2>2. a \o (Picked(<<>>, p, l) \o b) = Picked(a, p, l) \o b
    BY <2>1, PickedBetween
  <2> QED BY <2>2 DEF a, b, p
<1> QED BY <1>4, <1>5, <1>6, <1>7 DEF PendingOf

Pending == [l \in Lidars |-> PendingOf(l)]

LEMMA StreamStep ==
  ASSUME TypeOK, TypeOK', [Next]_vars
  PROVE  [Stream!Next]_<<Pending, out>>
<1> USE DEF Stream!NoFrame, NoFrame
<1>1. ASSUME UNCHANGED <<queue, cloud>>, out' = NoFrame
      PROVE  Stream!Next
  <2>1. \A l \in Lidars : PendingOf(l)' = PendingOf(l)
    BY <1>1, QueueKept DEF PendingOf
  <2> QED BY <1>1, <2>1 DEF Stream!Next, Stream!Quiet, Pending, PendingOf
<1>2. ASSUME NEW m \in Lidars, NEW synced \in Modes, Receive(m, synced)
      PROVE  Stream!Next
  <2>1. PICK p : /\ queue' = Append(queue, p) /\ p.lidar = m
                 /\ p \in Packet /\ p.stamp \in Stamps
    <3> DEFINE s == IF synced THEN (now + skew) % StampMod ELSE now
               p == [lidar |-> m, stamp |-> s]
    <3>1. s \in Stamps
      <4>1. now + skew \in Int /\ now \in Stamps
        BY Numbers DEF TypeOK, Stamps
      <4>2. (now + skew) % StampMod \in Stamps
        BY <4>1, StampModIs
      <4> QED BY <4>1, <4>2
    <3>2. p \in Packet /\ p.lidar = m /\ p.stamp \in Stamps
      BY <3>1 DEF Packet
    <3>3. queue' = Append(queue, p)
      BY <1>2 DEF Receive
    <3> HIDE DEF p
    <3> QED BY <3>2, <3>3
  <2>2. cloud' = cloud /\ out' = NoFrame
    BY <1>2 DEF Receive
  <2>3. \A l \in Lidars : PendingOf(l)' = Picked(PendingOf(l), p, l)
    BY <2>1, <2>2, ArrivalQueued
  <2>4. Pending' = [Pending EXCEPT ![m] = Append(@, p.stamp)]
    BY <2>1, <2>3 DEF Pending, Picked
  <2>5. Stream!Arrive(m, p.stamp)
    BY <2>2, <2>4 DEF Stream!Arrive, Pending, PendingOf
  <2> QED BY <2>1, <2>5 DEF Stream!Next
<1>3. ASSUME queue # <<>>, queue' = Tail(queue), NEW ls \in SUBSET Lidars, KeepClouds(ls)
      PROVE  Stream!Next
  <2>1. \A l \in Lidars : PendingOf(l)' = PendingOf(l)
    BY <1>3, TakingKeepsPending DEF KeepClouds, PendingOf
  <2>2. out' = NoFrame
    BY <1>3 DEF KeepClouds
  <2> QED BY <2>1, <2>2 DEF Stream!Next, Stream!Quiet, Pending, PendingOf
<1>4. ASSUME queue # <<>>, queue' = Tail(queue), NEW ls \in SUBSET Lidars,
             Taken.lidar \in ls, PublishClouds(ls)
      PROVE  Stream!Next
  <2>1. /\ out' = [l \in Lidars |-> IF l \in ls THEN Clouds[l] ELSE <<>>]
        /\ cloud' = [l \in Lidars |-> IF l \in ls THEN <<>> ELSE Clouds[l]]
    BY <1>4 DEF PublishClouds
  <2>2. out' # NoFrame
    <3>1. Clouds[Taken.lidar] # <<>>
      <4>1. /\ Clouds[Taken.lidar] = Append(cloud[Taken.lidar], Taken.stamp)
            /\ cloud[Taken.lidar] \in Seq(Stamps) /\ Taken.stamp \in Stamps
        BY <1>4, TakenIs DEF TypeOK
      <4> QED BY <4>1, AppendProperties
    <3> QED BY <1>4, <2>1, <3>1
  <2>3. ASSUME NEW l \in Lidars PROVE PendingOf(l) = out'[l] \o PendingOf(l)'
    <3>1. /\ PendingOf(l) = Clouds[l] \o QueuedOf(l)' /\ QueuedOf(l)' \in Seq(Stamps)
          /\ Clouds[l] \in Seq(Stamps)
      BY <1>4, TakingKeepsPending, TakenIs
    <3>2. PendingOf(l)' = cloud'[l] \o QueuedOf(l)'
      BY DEF PendingOf
    <3>3. CASE l \in ls
      <4>1. out'[l] = Clouds[l] /\ cloud'[l] = <<>>
        BY <2>1, <3>3
      <4> QED BY <3>1, <3>2, <4>1, ConcatEmptySeq
    <3>4. CASE l \notin ls
      <4>1. out'[l] = <<>> /\ cloud'[l] = Clouds[l]
        BY <2>1, <3>4
      <4>2. Clouds[l] \o QueuedOf(l)' \in Seq(Stamps)
        BY <3>1, ConcatProperties
      <4> QED BY <3>1, <3>2, <4>1, <4>2, ConcatEmptySeq
    <3> QED BY <3>3, <3>4
  <2> QED BY <2>2, <2>3 DEF Stream!Next, Stream!Publish, Pending, PendingOf
<1>5. CASE Tick \/ ClockStep \/ \E synced \in Modes : ReceiveImu(synced)
  BY <1>1, <1>5 DEF Tick, ClockStep, ReceiveImu
<1>6. CASE ProcessSync
  BY <1>3, <1>4, <1>6, TakenIs DEF ProcessSync
<1>7. CASE ProcessTimed
  BY <1>3, <1>4, <1>7, TakenIs DEF ProcessTimed
<1>8. CASE UNCHANGED vars
  <2>1. \A l \in Lidars : PendingOf(l)' = PendingOf(l)
    BY <1>8, QueueKept DEF vars, PendingOf
  <2> QED BY <1>8, <2>1 DEF vars, Pending, PendingOf
<1> QED BY <1>2, <1>5, <1>6, <1>7, <1>8 DEF Next

\* StreamRefined: whatever switches of mode and steps of the clock there are,
\* every packet RawDataProcess takes is published once, in the order of
\* arrival, with the frame of its lidar.
THEOREM PacketsStream == Spec => StreamRefined
<1>1. Init => Stream!Init
  <2> SUFFICES ASSUME Init PROVE Stream!Init
    OBVIOUS
  <2>1. TypeOK /\ queue = <<>> /\ Len(queue) = 0
    BY TypesInit DEF Init
  <2>2. ASSUME NEW l \in Lidars PROVE cloud[l] \o QueuedOf(l) = <<>>
    <3>1. cloud[l] = <<>> /\ queue \in Seq(Packet)
      BY <2>1 DEF Init, NoFrame, TypeOK, Packet
    <3>2. PicksOf(queue, l)[0] = <<>>
      <4>1. Picks(queue, l, 0, PicksOf(queue, l)) /\ 0 \in Nat
        BY <2>1, <3>1, PicksExists
      <4> QED BY <4>1, PicksNext, Zenon
    <3>3. QueuedOf(l) = <<>>
      BY <2>1, <3>2, QueuedIs
    <3> QED BY <3>1, <3>3
  <2> QED BY <2>2 DEF Init, NoFrame, Stream!Init, Stream!NoFrame
<1>2. TypeOK /\ TypeOK' /\ [Next]_vars
        => [Stream!Next]_<<[l \in Lidars |-> cloud[l] \o QueuedOf(l)], out>>
  BY StreamStep DEF Pending, PendingOf
<1> QED BY <1>1, <1>2, FramingTypes, PTL DEF Spec, StreamRefined, Stream!Spec
=============================================================================
