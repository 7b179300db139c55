--------------------------- MODULE BodyModes_proofs ---------------------------
(***************************************************************************)
(* Theorems about BodyModes, for gestures of any size.                     *)
(***************************************************************************)
EXTENDS BodyModes, SequenceTheorems, FiniteSetTheorems, TLAPS

(***************************************************************************)
(* Clamping an integer to an interval gives an integer of the interval.    *)
(***************************************************************************)
LEMMA ClampWithin ==
  ASSUME NEW x \in Int, NEW a \in Int, NEW b \in Int, a <= b
  PROVE  Clamp(x, <<a, b>>) \in Int /\ Within(Clamp(x, <<a, b>>), <<a, b>>)
BY DEF Clamp, Within

(***************************************************************************)
(* The limits of every mode are proper intervals around 0.                 *)
(***************************************************************************)
LEMMA Limits ==
  ASSUME NEW m \in BodyMode, NEW x \in Int
  PROVE  /\ Clamp(x, LiftLimit(m)) \in Int
         /\ Within(Clamp(x, LiftLimit(m)), LiftLimit(m))
         /\ Clamp(x, TurnLimit(m)) \in Int
         /\ Within(Clamp(x, TurnLimit(m)), TurnLimit(m))
         /\ Clamp(x, LeanLimit) \in Int
         /\ Within(Clamp(x, LeanLimit), LeanLimit)
         /\ Within(0, LiftLimit(m)) /\ Within(0, TurnLimit(m)) /\ Within(0, LeanLimit)
<1>1. CASE m = "DRIVE"
  BY <1>1, ClampWithin DEF LiftLimit, TurnLimit, LeanLimit, Within
<1>2. CASE m # "DRIVE"
  BY <1>2, ClampWithin DEF LiftLimit, TurnLimit, LeanLimit, Within
<1> QED BY <1>1, <1>2

(***************************************************************************)
(* The C++ quotient and remainder of an integer by 4.                      *)
(***************************************************************************)
Quotient(a) == IF a >= 0 THEN a \div 4 ELSE -((-a) \div 4)

(***************************************************************************)
(* Rem and Quotient divide: a is four quotients and the remainder.         *)
(***************************************************************************)
LEMMA Remainder ==
  ASSUME NEW a \in Int
  PROVE  /\ Rem(a, 4) \in -3..3 /\ Quotient(a) \in Int
         /\ Rem(a, 4) = a - 4 * Quotient(a)
<1>1. ASSUME NEW b \in Nat
      PROVE  /\ b % 4 \in 0..3 /\ b \div 4 \in Int
             /\ b = 4 * (b \div 4) + (b % 4)
  OBVIOUS
<1>2. CASE a >= 0
  BY <1>1, <1>2 DEF Rem, Quotient
<1>3. CASE a < 0
  <2> DEFINE b == -a
             q == b \div 4
  <2>1. b \in Nat
    BY <1>3
  <2>2. b % 4 \in 0..3 /\ q \in Int /\ b = 4 * q + (b % 4)
    BY <1>1, <2>1
  <2>3. Rem(a, 4) = -(b % 4) /\ Quotient(a) = -q
    BY <1>3 DEF Rem, Quotient
  <2> QED BY <2>2, <2>3
<1> QED BY <1>2, <1>3

(***************************************************************************)
(* The remainder of a multiple of 4 is 0.                                  *)
(***************************************************************************)
LEMMA RemainderOfMultiple ==
  ASSUME NEW a \in Int, NEW k \in Int, a = 4 * k
  PROVE  Rem(a, 4) = 0
<1> DEFINE q == Quotient(a)
           r == Rem(a, 4)
<1>1. r \in -3..3 /\ q \in Int /\ r = a - 4 * q
  BY Remainder
<1> HIDE DEF q, r
<1>2. r = 4 * (k - q) /\ k - q \in Int
  BY <1>1
<1>3. r = 0
  BY <1>1, <1>2
<1> QED BY <1>3 DEF r

(***************************************************************************)
(* A walk of any number of steps, forward or backward, that starts in the  *)
(* first phase ends in it.                                                 *)
(***************************************************************************)
LEMMA WalkReturns ==
  ASSUME NEW dir \in Int
  PROVE  Phase4(0, dir) = 0
<1> DEFINE p1 == Phase1(0, dir)
           p2 == Phase2(0, dir)
           p3 == Phase3(0, dir)
           k1 == Quotient(0 + dir)
           k2 == Quotient(p1 + dir)
           k3 == Quotient(p2 + dir)
<1>1. /\ p1 = Rem(0 + dir, 4) /\ p2 = Rem(p1 + dir, 4)
      /\ p3 = Rem(p2 + dir, 4) /\ Phase4(0, dir) = Rem(p3 + dir, 4)
  BY DEF Phase1, Phase2, Phase3, Phase4, NextPhase
<1> HIDE DEF p1, p2, p3
<1>2. k1 \in Int /\ p1 = 0 + dir - 4 * k1
  <2>1. 0 + dir \in Int
    OBVIOUS
  <2> QED BY <1>1, <2>1, Remainder
<1>3. k2 \in Int /\ p2 = p1 + dir - 4 * k2
  <2>1. p1 + dir \in Int
    BY <1>2
  <2> QED BY <1>1, <2>1, Remainder
<1>4. k3 \in Int /\ p3 = p2 + dir - 4 * k3
  <2>1. p2 + dir \in Int
    BY <1>2, <1>3
  <2> QED BY <1>1, <2>1, Remainder
<1> HIDE DEF k1, k2, k3
<1>5. /\ dir - k1 - k2 - k3 \in Int /\ p3 + dir \in Int
      /\ p3 + dir = 4 * (dir - k1 - k2 - k3)
  BY <1>2, <1>3, <1>4
<1> QED BY <1>1, <1>5, RemainderOfMultiple

(***************************************************************************)
(* The distance of a gesture is an integer number of steps.                *)
(***************************************************************************)
LEMMA StepsInteger == \A d \in Int : WholeSteps(d) \in Int
BY DEF WholeSteps

IInv == TypeOK /\ RestsInFirstPhase

(***************************************************************************)
(* The invariant holds when the node starts.                               *)
(***************************************************************************)
LEMMA InitIInv == Init => IInv
BY Limits DEF Init, IInv, TypeOK, RestsInFirstPhase, Within

(***************************************************************************)
(* Entering and leaving modes keeps every accumulator and the phase.       *)
(***************************************************************************)
LEMMA SwitchStep == ASSUME IInv, Switch PROVE IInv'
<1>1. CASE Leave
  BY <1>1 DEF Leave, acc, IInv, TypeOK, RestsInFirstPhase
<1>2. CASE EnterWalk
  <2>1. phase' = 0
    BY <1>2 DEF EnterWalk, NextPhase, Rem, IInv, RestsInFirstPhase
  <2> QED BY <1>2, <2>1 DEF EnterWalk, acc, IInv, TypeOK, RestsInFirstPhase, BodyMode
<1>3. ASSUME NEW m \in PoseMode, EnterPose(m)
      PROVE  IInv'
  BY <1>3 DEF EnterPose, acc, IInv, TypeOK, RestsInFirstPhase, BodyMode
<1> QED BY <1>1, <1>2, <1>3 DEF Switch

(***************************************************************************)
(* Every gesture keeps the accumulators within their limits and brings the *)
(* gait back to its first phase.                                           *)
(***************************************************************************)
LEMMA GestureStep ==
  ASSUME IInv, NEW d \in Amount, Gesture(d)
  PROVE  IInv'
<1>0. d \in Int
  BY AmountAssumption
<1>1. CASE GestureLift(d)
  <2>1. mode \in BodyMode
    BY <1>1 DEF GestureLift, BodyMode, PoseMode
  <2> QED BY <1>0, <1>1, <2>1, Limits
          DEF GestureLift, SendPosture, IInv, TypeOK, RestsInFirstPhase
<1>2. CASE GestureTurn(d)
  <2>1. mode \in BodyMode
    BY <1>2 DEF GestureTurn, BodyMode, PoseMode
  <2> QED BY <1>0, <1>2, <2>1, Limits
          DEF GestureTurn, SendPosture, IInv, TypeOK, RestsInFirstPhase
<1>3. CASE GestureLean(d)
  <2>1. mode \in BodyMode
    BY <1>3 DEF GestureLean, BodyMode, PoseMode
  <2> QED BY <1>0, <1>3, <2>1, Limits
          DEF GestureLean, SendPosture, IInv, TypeOK, RestsInFirstPhase
<1>4. CASE GestureWalk(d)
  <2>1. WholeSteps(d) \in Int
    BY <1>0, StepsInteger
  <2>2. phase' = 0
    BY <1>4, <2>1, WalkReturns DEF GestureWalk, IInv, RestsInFirstPhase
  <2> QED BY <1>4, <2>1, <2>2 DEF GestureWalk, acc, IInv, TypeOK, RestsInFirstPhase
<1>5. CASE GestureWalkLift(d)
  <2>1. phase' = 0
    BY <1>5 DEF GestureWalkLift, NextPhase, Rem, IInv, RestsInFirstPhase
  <2>2. "WALK" \in BodyMode
    BY DEF BodyMode
  <2> QED BY <1>0, <1>5, <2>1, <2>2, Limits
          DEF GestureWalkLift, IInv, TypeOK, RestsInFirstPhase
<1> QED BY <1>1, <1>2, <1>3, <1>4, <1>5 DEF Gesture

(***************************************************************************)
(* Every switch of modes and every gesture keeps the invariant.            *)
(***************************************************************************)
LEMMA StepIInv == IInv /\ [Next]_vars => IInv'
<1>1. CASE UNCHANGED vars
  BY <1>1 DEF vars, acc, IInv, TypeOK, RestsInFirstPhase
<1> QED BY <1>1, SwitchStep, GestureStep DEF Next

(***************************************************************************)
(* Whatever the sizes of the gestures and the order of the modes, the      *)
(* accumulators stay within their limits.                                  *)
(***************************************************************************)
THEOREM AccumulatorsBounded == Spec => []TypeOK
<1>1. IInv => TypeOK
  BY DEF IInv
<1> QED BY <1>1, InitIInv, StepIInv, PTL DEF Spec

(***************************************************************************)
(* For walks of any number of steps in either direction the gait comes to  *)
(* rest in its first phase.                                                *)
(***************************************************************************)
THEOREM GaitRests == Spec => []RestsInFirstPhase
<1>1. IInv => RestsInFirstPhase
  BY DEF IInv
<1> QED BY <1>1, InitIInv, StepIInv, PTL DEF Spec

-----------------------------------------------------------------------------
(***************************************************************************)
(* A half of the robot is six numbers, and two halves one after the other  *)
(* are the twelve joints.                                                  *)
(***************************************************************************)
LEMMA TwoHalves ==
  ASSUME NEW s \in Seq(Int), NEW t \in Seq(Int), Len(s) = 6, Len(t) = 6, NEW i \in Joints
  PROVE  (s \o t)[i + 1] = IF i < 6 THEN s[i + 1] ELSE t[i - 5]
<1> DEFINE j == i + 1
<1>1. j \in 1 .. Len(s) + Len(t) /\ (j <= Len(s) <=> i < 6) /\ j - Len(s) = i - 5
  BY DEF Joints
<1>2. \A n \in 1 .. Len(s) + Len(t) :
        (s \o t)[n] = IF n <= Len(s) THEN s[n] ELSE t[n - Len(s)]
  BY ConcatProperties
<1> HIDE DEF j
<1>3. (s \o t)[j] = IF i < 6 THEN s[j] ELSE t[i - 5]
  BY <1>1, <1>2
<1> QED BY <1>3 DEF j

(***************************************************************************)
(* What the halves of all four phases have in common.                      *)
(***************************************************************************)
HalfStride(s) == /\ s \in Seq(Int) /\ Len(s) = 6
           /\ s[1] = 0 /\ s[2] = 0
           /\ \A j \in 1..6 : s[j] \in -80..100

(***************************************************************************)
(* No phase of the gait asks a joint for more than the URDF allows, at any *)
(* lift.                                                                   *)
(***************************************************************************)
LEMMA StrideWithin ==
  ASSUME NEW k \in 0..3, NEW l \in Int, Within(l, <<-100, 0>>), NEW i \in Joints
  PROVE  Within(Stride(k, l)[i], UrdfLimit(i))
<1> DEFINE a1 == 60
      l0 == 70 + l
      l1 == l0 + 30
      l2 == l0 - 50
      s1 == <<0, 0, -a1, l1, a1, l1>>
      s2 == <<0, 0, 0, l2, 0, l0>>
      s3 == <<0, 0, a1, l1, -a1, l1>>
      s4 == <<0, 0, 0, l0, 0, l2>>
      of == <<s1 \o s2, s2 \o s1, s3 \o s4, s4 \o s3>>
<1>1. Stride(k, l)[i] = of[k + 1][i + 1]
  BY DEF Stride
<1>2. HalfStride(s1) /\ HalfStride(s2) /\ HalfStride(s3) /\ HalfStride(s4)
  BY DEF HalfStride, Within
<1>3. ASSUME NEW s, NEW t, HalfStride(s), HalfStride(t)
      PROVE  Within((s \o t)[i + 1], UrdfLimit(i))
  <2>0. i \in Int /\ 0 <= i /\ i <= 11
    BY DEF Joints
  <2>1. (s \o t)[i + 1] = IF i < 6 THEN s[i + 1] ELSE t[i - 5]
    BY <1>3, TwoHalves DEF HalfStride
  <2> DEFINE v == (s \o t)[i + 1]
  <2>a. i < 6 => i + 1 \in 1 .. 6
    BY <2>0
  <2>b. i >= 6 => i - 5 \in 1 .. 6
    BY <2>0
  <2>c. v \in -80..100
    <3>1. CASE i < 6
      <4>1. v = s[i + 1]
        BY <2>1, <3>1
      <4> QED BY <1>3, <2>a, <3>1, <4>1 DEF HalfStride
    <3>2. CASE i >= 6
      <4>1. v = t[i - 5]
        BY <2>0, <2>1, <3>2
      <4>2. t[i - 5] \in -80..100
        BY <1>3, <2>b, <3>2 DEF HalfStride
      <4> QED BY <4>1, <4>2
    <3> HIDE DEF v
    <3> QED BY <2>0, <3>1, <3>2
  <2>d. i \in {0, 1, 6, 7} => v = 0
    <3>1. s[1] = 0 /\ s[2] = 0 /\ t[1] = 0 /\ t[2] = 0
      BY <1>3 DEF HalfStride
    <3>2. v = IF i < 6 THEN s[i + 1] ELSE t[i - 5]
      BY <2>1
    <3> HIDE DEF v
    <3> QED BY <3>1, <3>2
  <2>2. v \in -80..100 /\ (i \in {0, 1, 6, 7} => v = 0)
    BY <2>c, <2>d
  <2> HIDE DEF v
  <2>3. Within(v, UrdfLimit(i))
    <3>1. CASE i \in {0, 6}
      BY <2>2, <3>1 DEF Within, UrdfLimit, Inner
    <3>2. CASE i \in {1, 7}
      BY <2>2, <3>2 DEF Within, UrdfLimit, Inner
    <3>3. CASE i \in Inner
      BY <2>2, <3>3 DEF Within, UrdfLimit, Inner
    <3>4. CASE i \notin {0, 1, 6, 7} \cup Inner
      BY <2>2, <3>4 DEF Within, UrdfLimit, Inner
    <3> QED BY <3>1, <3>2, <3>3, <3>4
  <2> QED BY <2>3 DEF v
<1> HIDE DEF s1, s2, s3, s4
<1>4. of[k + 1] \in {s1 \o s2, s2 \o s1, s3 \o s4, s4 \o s3}
  <2>1. /\ of[1] = s1 \o s2 /\ of[2] = s2 \o s1
        /\ of[3] = s3 \o s4 /\ of[4] = s4 \o s3
    OBVIOUS
  <2>2. k + 1 \in {1, 2, 3, 4}
    OBVIOUS
  <2> QED BY <2>1, <2>2
<1> HIDE DEF of
<1> QED BY <1>1, <1>2, <1>3, <1>4

(***************************************************************************)
(* What a point of a walk can ask for.                                     *)
(***************************************************************************)
GaitPositions(q) ==
  q = NoPositions \/ \E k \in 0..3, l \in -100..0 : q = Stride(k, l)

(***************************************************************************)
(* next_phase_ fills in a phase of the gait, or keeps what the point had.  *)
(***************************************************************************)
LEMMA GaitPoint ==
  ASSUME NEW point, NEW ph \in Int, NEW l \in -100..0, GaitPositions(point.positions)
  PROVE  GaitPositions(NextPoint(point, ph, l).positions)
<1>1. CASE ph \in 0..3
  BY <1>1 DEF NextPoint, Point, GaitPositions
<1>2. CASE ph \notin 0..3
  BY <1>2 DEF NextPoint, Point, GaitPositions
<1> QED BY <1>1, <1>2

(***************************************************************************)
(* In WALK every point is a phase of the gait at a lift within its limits, *)
(* or has no positions at all.                                             *)
(***************************************************************************)
GaitSent ==
  mode = "WALK" => \A j \in 1..Len(sent) : GaitPositions(sent[j].positions)

(***************************************************************************)
(* So it is with the single point of enter() and of a lift ...             *)
(***************************************************************************)
LEMMA GaitOfOne ==
  ASSUME NEW ph \in Int, NEW l \in -100..0
  PROVE  \A j \in 1..Len(<<NextPoint(NewPoint, ph, l)>>) :
           GaitPositions(<<NextPoint(NewPoint, ph, l)>>[j].positions)
<1>1. GaitPositions(NewPoint.positions)
  BY DEF NewPoint, Point, GaitPositions
<1>2. GaitPositions(NextPoint(NewPoint, ph, l).positions)
  BY <1>1, GaitPoint
<1> DEFINE n == NextPoint(NewPoint, ph, l)
<1> HIDE DEF n
<1>3. \A j \in 1..Len(<<n>>) : <<n>>[j] = n
  OBVIOUS
<1> QED BY <1>2, <1>3 DEF n

(***************************************************************************)
(* ... and with the four points of a walk.                                 *)
(***************************************************************************)
LEMMA GaitOfFour ==
  ASSUME NEW dir \in Int, NEW l \in -100..0
  PROVE  \A j \in 1..Len(Animation(0, dir, l)) :
           GaitPositions(Animation(0, dir, l)[j].positions)
<1> DEFINE p1 == NextPoint(NewPoint, Phase1(0, dir), l)
           p2 == NextPoint(p1, Phase2(0, dir), l)
           p3 == NextPoint(p2, Phase3(0, dir), l)
           p4 == NextPoint(p3, Phase4(0, dir), l)
<1>1. /\ Phase1(0, dir) \in Int /\ Phase2(0, dir) \in Int
      /\ Phase3(0, dir) \in Int /\ Phase4(0, dir) \in Int
  <2>1. \A a \in Int : Rem(a, 4) \in Int
    BY DEF Rem
  <2>2. \A a \in Int : NextPhase(a, dir) \in Int
    BY <2>1 DEF NextPhase
  <2> QED BY <2>2 DEF Phase1, Phase2, Phase3, Phase4
<1>2. GaitPositions(NewPoint.positions)
  BY DEF NewPoint, Point, GaitPositions
<1>3. GaitPositions(p1.positions)
  BY <1>1, <1>2, GaitPoint
<1>4. GaitPositions(p2.positions)
  BY <1>1, <1>3, GaitPoint
<1>5. GaitPositions(p3.positions)
  BY <1>1, <1>4, GaitPoint
<1>6. GaitPositions(p4.positions)
  BY <1>1, <1>5, GaitPoint
<1>7. Animation(0, dir, l) = <<p1, p2, p3, p4>>
  BY DEF Animation
<1> HIDE DEF p1, p2, p3, p4
<1>8. \A j \in 1..Len(<<p1, p2, p3, p4>>) : <<p1, p2, p3, p4>>[j] \in {p1, p2, p3, p4}
  OBVIOUS
<1> QED BY <1>3, <1>4, <1>5, <1>6, <1>7, <1>8

(***************************************************************************)
(* Every mode switch and every gesture sends such points while in WALK.    *)
(***************************************************************************)
LEMMA GaitStep == IInv /\ IInv' /\ GaitSent /\ [Next]_vars => GaitSent'
<1> SUFFICES ASSUME IInv, IInv', GaitSent, [Next]_vars, mode' = "WALK"
             PROVE  \A j \in 1..Len(sent') : GaitPositions(sent'[j].positions)
  BY DEF GaitSent
<1>1. lift["WALK"] \in -100..0 /\ lift'["WALK"] \in -100..0 /\ phase = 0 /\ phase' = 0
  BY DEF IInv, TypeOK, RestsInFirstPhase, BodyMode, LiftLimit, Within
<1>2. CASE UNCHANGED <<mode, sent>>
  BY <1>2 DEF GaitSent
<1>a. ASSUME NEW l \in -100..0, sent' = <<NextPoint(NewPoint, 0, l)>>
      PROVE  \A j \in 1..Len(sent') : GaitPositions(sent'[j].positions)
  <2>0. 0 \in Int
    OBVIOUS
  <2>1. \A j \in 1..Len(<<NextPoint(NewPoint, 0, l)>>) :
           GaitPositions(<<NextPoint(NewPoint, 0, l)>>[j].positions)
    BY <2>0, GaitOfOne, Zenon
  <2> QED BY <1>a, <2>1
<1>3. CASE EnterWalk
  <2>1. sent' = <<NextPoint(NewPoint, 0, lift["WALK"])>>
    BY <1>1, <1>3 DEF EnterWalk
  <2> QED BY <1>1, <1>a, <2>1
<1>4. ASSUME NEW d \in Amount, GestureWalk(d)
      PROVE  \A j \in 1..Len(sent') : GaitPositions(sent'[j].positions)
  <2>1. WholeSteps(d) \in Int
    BY AmountAssumption, StepsInteger
  <2>2. sent' = Animation(0, WholeSteps(d), lift["WALK"])
    BY <1>1, <1>4 DEF GestureWalk
  <2> QED BY <1>1, <2>1, <2>2, GaitOfFour
<1>5. ASSUME NEW d \in Amount, GestureWalkLift(d)
      PROVE  \A j \in 1..Len(sent') : GaitPositions(sent'[j].positions)
  <2>1. sent' = <<NextPoint(NewPoint, 0, lift'["WALK"])>>
    BY <1>1, <1>5 DEF GestureWalkLift
  <2> QED BY <1>1, <1>a, <2>1
<1> QED
  BY <1>2, <1>3, <1>4, <1>5
     DEF Next, Switch, Gesture, Leave, EnterPose, PoseMode, GestureLift, GestureTurn,
         GestureLean, SendPosture, vars

(***************************************************************************)
(* However far and in whatever direction the robot walks, and whatever its *)
(* lift, walking commands no joint beyond its limit.                       *)
(***************************************************************************)
THEOREM WalkLimits == Spec => []WalkWithinUrdfLimits
<1>1. Init => GaitSent
  BY DEF Init, GaitSent
<1>2. GaitSent => WalkWithinUrdfLimits
  <2> SUFFICES ASSUME GaitSent, mode = "WALK", NEW j \in 1..Len(sent),
                      NEW i \in DOMAIN sent[j].positions
               PROVE  Within(sent[j].positions[i], UrdfLimit(i))
    BY DEF WalkWithinUrdfLimits
  <2>1. CASE sent[j].positions = NoPositions
    BY <2>1 DEF NoPositions
  <2>2. ASSUME NEW k \in 0..3, NEW l \in -100..0, sent[j].positions = Stride(k, l)
        PROVE  Within(sent[j].positions[i], UrdfLimit(i))
    <3>1. DOMAIN Stride(k, l) = Joints
      BY DEF Stride
    <3>2. l \in Int /\ Within(l, <<-100, 0>>)
      BY DEF Within
    <3> QED BY <2>2, <3>1, <3>2, StrideWithin
  <2> QED BY <2>1, <2>2 DEF GaitSent, GaitPositions
<1>3. Spec => []IInv
  BY InitIInv, StepIInv, PTL DEF Spec
<1> QED BY <1>1, <1>2, <1>3, GaitStep, PTL DEF Spec

-----------------------------------------------------------------------------
(***************************************************************************)
(* Four points of a gait are two seconds apart, because the time of each   *)
(* is that of the one before it, and 20 tenths.                            *)
(***************************************************************************)
LEMMA AnimationTimes ==
  ASSUME NEW ph, NEW dir, NEW l
  PROVE  /\ Len(Animation(ph, dir, l)) = 4
         /\ \A j \in 1..4 : Animation(ph, dir, l)[j].time = 20 * j
<1> DEFINE p1 == NextPoint(NewPoint, Phase1(ph, dir), l)
           p2 == NextPoint(p1, Phase2(ph, dir), l)
           p3 == NextPoint(p2, Phase3(ph, dir), l)
           p4 == NextPoint(p3, Phase4(ph, dir), l)
<1>1. NewPoint.time = 0
  BY DEF NewPoint, Point
<1>2. \A point, p : NextPoint(point, p, l).time = point.time + 20
  BY DEF NextPoint, Point
<1>3. p1.time = 20 /\ p2.time = 40 /\ p3.time = 60 /\ p4.time = 80
  BY <1>1, <1>2
<1>4. Animation(ph, dir, l) = <<p1, p2, p3, p4>>
  BY DEF Animation
<1> HIDE DEF p1, p2, p3, p4
<1> QED BY <1>3, <1>4

(***************************************************************************)
(* Every trajectory that a body mode publishes has its points in order.    *)
(***************************************************************************)
THEOREM PointsInOrder == Spec => []TimesIncrease
<1>1. Init => TimesIncrease
  BY DEF Init, TimesIncrease
<1>2. ASSUME NEW point, point.time > 0, sent' = <<point>>
      PROVE  TimesIncrease'
  BY <1>2 DEF TimesIncrease
<1>3. \A m, q : Point(TimeFromStart(m), q).time > 0
  BY DEF Point, TimeFromStart
<1>4. \A p, l : NextPoint(NewPoint, p, l).time > 0
  BY DEF NextPoint, NewPoint, Point
<1>5. TimesIncrease /\ [Next]_vars => TimesIncrease'
  <2> SUFFICES ASSUME TimesIncrease, [Next]_vars PROVE TimesIncrease'
    OBVIOUS
  <2>1. CASE UNCHANGED sent
    BY <2>1 DEF TimesIncrease
  <2>2. CASE EnterWalk \/ \E m \in PoseMode : EnterPose(m)
    BY <1>2, <1>3, <1>4, <2>2 DEF EnterWalk, EnterPose
  <2>3. CASE SendPosture
    BY <1>2, <1>3, <2>3 DEF SendPosture
  <2>4. ASSUME NEW d \in Amount, GestureWalkLift(d) PROVE TimesIncrease'
    BY <1>2, <1>4, <2>4 DEF GestureWalkLift
  <2>5. ASSUME NEW d \in Amount, GestureWalk(d) PROVE TimesIncrease'
    <3>1. Len(sent') = 4 /\ \A j \in 1..4 : sent'[j].time = 20 * j
      BY <2>5, AnimationTimes DEF GestureWalk
    <3> QED BY <3>1 DEF TimesIncrease
  <2> QED
    BY <2>1, <2>2, <2>3, <2>4, <2>5
       DEF Next, Switch, Leave, Gesture, GestureLift, GestureTurn, GestureLean, vars
<1> QED BY <1>1, <1>5, PTL DEF Spec
-----------------------------------------------------------------------------
(***************************************************************************)
(* The inner arm that a phase of the gait lifts.                           *)
(***************************************************************************)
Lifted(k) == CASE k = 0 -> 9 [] k = 1 -> 3 [] k = 2 -> 11 [] OTHER -> 5

(***************************************************************************)
(* Each of the four phases has one inner arm raised, each another one.     *)
(***************************************************************************)
LEMMA RaisedArm ==
  ASSUME NEW k \in 0..3, NEW l \in Int
  PROVE  Raised(Stride(k, l), l) = {Lifted(k)}
<1> DEFINE a1 == 60
      l0 == 70 + l
      l1 == l0 + 30
      l2 == l0 - 50
      s1 == <<0, 0, -a1, l1, a1, l1>>
      s2 == <<0, 0, 0, l2, 0, l0>>
      s3 == <<0, 0, a1, l1, -a1, l1>>
      s4 == <<0, 0, 0, l0, 0, l2>>
      of == <<s1 \o s2, s2 \o s1, s3 \o s4, s4 \o s3>>
      up == 20 + l
<1>1. \A i \in Joints : Stride(k, l)[i] = of[k + 1][i + 1]
  BY DEF Stride
<1>2. /\ s1 \in Seq(Int) /\ Len(s1) = 6 /\ s2 \in Seq(Int) /\ Len(s2) = 6
      /\ s3 \in Seq(Int) /\ Len(s3) = 6 /\ s4 \in Seq(Int) /\ Len(s4) = 6
  OBVIOUS
<1>3. /\ s1[4] # up /\ s1[6] # up /\ s3[4] # up /\ s3[6] # up
      /\ s2[4] = up /\ s2[6] # up /\ s4[4] # up /\ s4[6] = up
  OBVIOUS
<1>4. ASSUME NEW s \in Seq(Int), NEW t \in Seq(Int), Len(s) = 6, Len(t) = 6
      PROVE  /\ (s \o t)[3 + 1] = s[4] /\ (s \o t)[5 + 1] = s[6]
             /\ (s \o t)[9 + 1] = t[4] /\ (s \o t)[11 + 1] = t[6]
  <2>1. 3 \in Joints /\ 5 \in Joints /\ 9 \in Joints /\ 11 \in Joints
    BY DEF Joints
  <2>2. \A i \in Joints : (s \o t)[i + 1] = IF i < 6 THEN s[i + 1] ELSE t[i - 5]
    BY <1>4, TwoHalves
  <2> DEFINE q == s \o t
  <2> HIDE DEF q
  <2>3. \A i \in Joints : q[i + 1] = IF i < 6 THEN s[i + 1] ELSE t[i - 5]
    BY <2>2 DEF q
  <2>4. q[3 + 1] = s[4]
    BY <2>1, <2>3
  <2>5. q[5 + 1] = s[6]
    BY <2>1, <2>3
  <2>6. q[9 + 1] = t[4]
    BY <2>1, <2>3
  <2>7. q[11 + 1] = t[6]
    BY <2>1, <2>3
  <2> QED BY <2>4, <2>5, <2>6, <2>7 DEF q
<1> HIDE DEF s1, s2, s3, s4
<1>5. /\ of[1] = s1 \o s2 /\ of[2] = s2 \o s1 /\ of[3] = s3 \o s4 /\ of[4] = s4 \o s3
  OBVIOUS
<1>6. /\ (s1 \o s2)[3 + 1] # up /\ (s1 \o s2)[5 + 1] # up
      /\ (s1 \o s2)[9 + 1] = up /\ (s1 \o s2)[11 + 1] # up
  BY <1>2, <1>3, <1>4
<1>7. /\ (s2 \o s1)[3 + 1] = up /\ (s2 \o s1)[5 + 1] # up
      /\ (s2 \o s1)[9 + 1] # up /\ (s2 \o s1)[11 + 1] # up
  BY <1>2, <1>3, <1>4
<1>8. /\ (s3 \o s4)[3 + 1] # up /\ (s3 \o s4)[5 + 1] # up
      /\ (s3 \o s4)[9 + 1] # up /\ (s3 \o s4)[11 + 1] = up
  BY <1>2, <1>3, <1>4
<1>9. /\ (s4 \o s3)[3 + 1] # up /\ (s4 \o s3)[5 + 1] = up
      /\ (s4 \o s3)[9 + 1] # up /\ (s4 \o s3)[11 + 1] # up
  BY <1>2, <1>3, <1>4
<1> DEFINE A == s1 \o s2
           B == s2 \o s1
           C == s3 \o s4
           D == s4 \o s3
<1>10. /\ of[1] = A /\ of[2] = B /\ of[3] = C /\ of[4] = D
       /\ A[3 + 1] # up /\ A[5 + 1] # up /\ A[9 + 1] = up /\ A[11 + 1] # up
       /\ B[3 + 1] = up /\ B[5 + 1] # up /\ B[9 + 1] # up /\ B[11 + 1] # up
       /\ C[3 + 1] # up /\ C[5 + 1] # up /\ C[9 + 1] # up /\ C[11 + 1] = up
       /\ D[3 + 1] # up /\ D[5 + 1] = up /\ D[9 + 1] # up /\ D[11 + 1] # up
  BY <1>5, <1>6, <1>7, <1>8, <1>9
<1> HIDE DEF A, B, C, D, of
<1>11. \A i \in Inner : Stride(k, l)[i] = up <=> i = Lifted(k)
  <2>1. \A i \in Inner : Stride(k, l)[i] = of[k + 1][i + 1]
    BY <1>1 DEF Inner, Joints
  <2> DEFINE v(i) == Stride(k, l)[i]
  <2>2. /\ v(3) = of[k + 1][3 + 1] /\ v(5) = of[k + 1][5 + 1]
        /\ v(9) = of[k + 1][9 + 1] /\ v(11) = of[k + 1][11 + 1]
    BY <2>1 DEF Inner
  <2> HIDE DEF v
  <2>3. \A i \in Inner : v(i) = up <=> i = Lifted(k)
    <3>1. CASE k = 0
      BY <1>10, <2>2, <3>1 DEF Inner, Lifted
    <3>2. CASE k = 1
      BY <1>10, <2>2, <3>2 DEF Inner, Lifted
    <3>3. CASE k = 2
      BY <1>10, <2>2, <3>3 DEF Inner, Lifted
    <3>4. CASE k = 3
      BY <1>10, <2>2, <3>4 DEF Inner, Lifted
    <3> QED BY <3>1, <3>2, <3>3, <3>4
  <2> QED BY <2>3 DEF v
<1>12. Lifted(k) \in Inner
  BY DEF Lifted, Inner
<1>13. up = 70 + l - 50
  OBVIOUS
<1> HIDE DEF up
<1> QED BY <1>11, <1>12, <1>13 DEF Raised

(***************************************************************************)
(* An odd number of steps forward goes through the phases one by one,      *)
(* upwards or downwards, and ends in phase 0.                              *)
(***************************************************************************)
LEMMA OddPhases ==
  ASSUME NEW dir \in Int, dir > 0, dir % 2 = 1
  PROVE  /\ Phase4(0, dir) = 0 /\ Phase2(0, dir) = 2
         /\ {Phase1(0, dir), Phase3(0, dir)} = {1, 3}
<1> DEFINE r == dir % 4
<1>1. \A a \in Nat : Rem(a, 4) = a % 4
  BY DEF Rem
<1>2. r \in {1, 3}
  OBVIOUS
<1>3. \A a \in 0..3 : NextPhase(a, dir) = (a + r) % 4
  BY <1>1 DEF NextPhase
<1> HIDE DEF r
<1>4. CASE r = 1
  <2>1. NextPhase(0, dir) = 1 /\ NextPhase(1, dir) = 2
        /\ NextPhase(2, dir) = 3 /\ NextPhase(3, dir) = 0
    BY <1>3, <1>4
  <2> QED BY <2>1 DEF Phase1, Phase2, Phase3, Phase4
<1>5. CASE r = 3
  <2>1. NextPhase(0, dir) = 3 /\ NextPhase(3, dir) = 2
        /\ NextPhase(2, dir) = 1 /\ NextPhase(1, dir) = 0
    BY <1>3, <1>5
  <2> QED BY <2>1 DEF Phase1, Phase2, Phase3, Phase4
<1> QED BY <1>2, <1>4, <1>5

(***************************************************************************)
(* What was sent for a walk stays what it was until another gesture or     *)
(* mode takes its place.                                                   *)
(***************************************************************************)
WalkSent == steps # 0 => sent = Animation(0, steps, lift["WALK"])

(***************************************************************************)
(* Gestures of all modes keep it: those of the pose modes send no steps,   *)
(* and a walk starts in phase 0.                                           *)
(***************************************************************************)
LEMMA WalkSentStep == IInv /\ WalkSent /\ [Next]_vars => WalkSent'
<1> SUFFICES ASSUME IInv, WalkSent, [Next]_vars PROVE WalkSent'
  OBVIOUS
<1>1. CASE UNCHANGED <<steps, sent, lift>>
  BY <1>1 DEF WalkSent
<1>2. CASE steps' = 0
  BY <1>2 DEF WalkSent
<1>3. ASSUME NEW d \in Amount, GestureWalk(d) PROVE WalkSent'
  BY <1>3 DEF GestureWalk, WalkSent, acc, IInv, RestsInFirstPhase
<1> QED
  BY <1>1, <1>2, <1>3
     DEF Next, Switch, Gesture, Leave, EnterWalk, EnterPose, GestureLift, GestureTurn,
         GestureLean, GestureWalkLift, SendPosture, vars, acc

(***************************************************************************)
(* Walking an odd number of steps forward, by any distance and at any      *)
(* lift, raises each arm exactly once, one arm at a time.                  *)
(***************************************************************************)
THEOREM OneArmAtATime == Spec => []EachArmStepsOnce
<1>1. Init => WalkSent
  BY DEF Init, WalkSent
<1>2. IInv /\ WalkSent => EachArmStepsOnce
  <2> SUFFICES ASSUME IInv, WalkSent, steps > 0, steps % 2 = 1
               PROVE  /\ \A j \in 1..4 :
                           Cardinality(Raised(sent[j].positions, lift["WALK"])) = 1
                      /\ UNION {Raised(sent[j].positions, lift["WALK"]) : j \in 1..4}
                           = Inner
    BY DEF EachArmStepsOnce
  <2> DEFINE l == lift["WALK"]
             ph == <<Phase1(0, steps), Phase2(0, steps), Phase3(0, steps), Phase4(0, steps)>>
             up(j) == Raised(sent[j].positions, l)
  <2>1. steps \in Int /\ l \in Int
    BY DEF IInv, TypeOK, BodyMode
  <2>2. ph[1] \in {1, 3} /\ ph[2] = 2 /\ ph[3] \in {1, 3} /\ ph[4] = 0
        /\ {ph[1], ph[3]} = {1, 3}
    BY <2>1, OddPhases
  <2>3. /\ sent[1].positions = Stride(ph[1], l) /\ sent[2].positions = Stride(ph[2], l)
        /\ sent[3].positions = Stride(ph[3], l) /\ sent[4].positions = Stride(ph[4], l)
    <3>1. \A point, k : k \in 0..3 => NextPoint(point, k, l).positions = Stride(k, l)
      BY DEF NextPoint, Point
    <3>2. sent = Animation(0, steps, l)
      BY DEF WalkSent
    <3> DEFINE p1 == NextPoint(NewPoint, ph[1], l)
               p2 == NextPoint(p1, ph[2], l)
               p3 == NextPoint(p2, ph[3], l)
               p4 == NextPoint(p3, ph[4], l)
    <3>3. sent = <<p1, p2, p3, p4>>
      BY <3>2 DEF Animation
    <3>4. ph[1] \in 0..3 /\ ph[2] \in 0..3 /\ ph[3] \in 0..3 /\ ph[4] \in 0..3
      BY <2>2
    <3> HIDE DEF ph
    <3>5. /\ p1.positions = Stride(ph[1], l) /\ p2.positions = Stride(ph[2], l)
          /\ p3.positions = Stride(ph[3], l) /\ p4.positions = Stride(ph[4], l)
      BY <3>1, <3>4, Zenon
    <3> HIDE DEF p1, p2, p3, p4
    <3> QED BY <3>3, <3>5
  <2> HIDE DEF ph, l
  <2>4. \A j \in 1..4 : ph[j] \in 0..3 /\ up(j) = Raised(Stride(ph[j], l), l)
    BY <2>2, <2>3
  <2> HIDE DEF up
  <2>5. \A j \in 1..4 : up(j) = {Lifted(ph[j])}
    BY <2>1, <2>4, RaisedArm
  <2>6. \A j \in 1..4 : Cardinality(up(j)) = 1
    BY <2>5, FS_Singleton
  <2>7. UNION {up(j) : j \in 1..4} = {Lifted(ph[j]) : j \in 1..4}
    BY <2>5
  <2>8. {Lifted(ph[j]) : j \in 1..4}
          = {Lifted(ph[1]), Lifted(ph[2]), Lifted(ph[3]), Lifted(ph[4])}
    OBVIOUS
  <2>9. {Lifted(ph[1]), Lifted(ph[2]), Lifted(ph[3]), Lifted(ph[4])} = Inner
    BY <2>2 DEF Lifted, Inner
  <2> QED BY <2>6, <2>7, <2>8, <2>9 DEF up, l
<1>3. Spec => []IInv
  BY InitIInv, StepIInv, PTL DEF Spec
<1> QED BY <1>1, <1>2, <1>3, WalkSentStep, PTL DEF Spec
=============================================================================
