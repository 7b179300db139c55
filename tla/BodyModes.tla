----------------------------- MODULE BodyModes -----------------------------
(***************************************************************************)
(* The trajectories that the whole-body modes of                           *)
(* openvmp_control_interactive publish: the walking gait of WalkMode and   *)
(* the adjustable poses of DriveMode, HugMode, HangMode, GrabMode and      *)
(* LiftMode.  A mode object lives as long as the node, so what a gesture   *)
(* accumulated in it is still there when the mode is entered again.        *)
(*                                                                         *)
(* Angles and distances are integers in hundredths (of a radian, of a      *)
(* metre), times are in tenths of a second.  A trajectory point's          *)
(* positions are a function on 0..11, indexed as the C++ vectors are:      *)
(* for the front half, then the rear half, the turn table, the body, the   *)
(* left arm, the left inner arm, the right arm and the right inner arm.    *)
(*                                                                         *)
(* While one of these modes runs the trajectory publisher is open          *)
(* (InteractiveControl!PublishersFollowMode), so every publish() succeeds. *)
(***************************************************************************)
EXTENDS Integers, Sequences, FiniteSets

CONSTANTS
  Amount  \* displacements of a released marker along the axis of its control

ASSUME AmountAssumption == Amount \subseteq Int

PoseMode == {"DRIVE", "HUG", "HANG", "GRAB", "LIFT"}
BodyMode == PoseMode \cup {"WALK"}
Joints == 0..11
Inner == {3, 5, 9, 11}

VARIABLES
  mode,   \* the mode that runs; "NONE" stands for every mode outside BodyMode
  lift,   \* lift_ of each mode object (0 in those that have none)
  turn,   \* turn_ of each mode object
  lean,   \* lean_ of each mode object
  phase,  \* WalkMode::phase_
  sent,   \* the points of the last trajectory published
  steps   \* what that trajectory was for: the steps to walk, or 0

acc == <<lift, turn, lean>>
vars == <<mode, acc, phase, sent, steps>>

-----------------------------------------------------------------------------
(***************************************************************************)
(* point_template_ and msg_template_ of the pose modes, as <<front, rear>> *)
(* halves, and the limits of their accumulators.                           *)
(***************************************************************************)
Half ==
  [DRIVE |-> << <<0, 0, 314, -52, 314, -52>>, <<0, 0, 314, -52, 314, -52>> >>,
   HUG   |-> << <<0, 0, 0, -314, 0, -314>>, <<0, 0, 0, -314, 0, -314>> >>,
   HANG  |-> << <<0, 0, 344, 133, 284, 133>>, <<0, 0, 344, 133, 284, 133>> >>,
   GRAB  |-> << <<157, -157, -24, -230, -200, 75>>, <<0, 157, 350, 75, 350, 75>> >>,
   LIFT  |-> << <<157, -157, -190, 75, -190, 75>>, <<0, 157, 350, 75, 350, 75>> >>]

Template(m) == [i \in Joints |-> (Half[m][1] \o Half[m][2])[i + 1]]

TimeFromStart(m) == IF m = "DRIVE" THEN 20 ELSE 5

LiftLimit(m) == IF m = "DRIVE" THEN <<-78, 78>> ELSE <<-100, 0>>
TurnLimit(m) == IF m = "DRIVE" THEN <<-52, 52>> ELSE <<-100, 100>>
LeanLimit == <<-50, 50>>

ClampBelow(x, limit) == IF x < limit[1] THEN limit[1] ELSE x

Clamp(x, limit) ==
  IF x < limit[1] THEN limit[1] ELSE IF x > limit[2] THEN limit[2] ELSE x

(***************************************************************************)
(* The point that processFeedback_ of a pose mode publishes: its template  *)
(* with the accumulators l, t and n (lift, turn, lean) added in.           *)
(***************************************************************************)
Shift(m, i, l, t, n) ==
  CASE m = "DRIVE" /\ i \in Inner             -> -l
    [] m = "DRIVE" /\ i = 0                   -> t
    [] m = "DRIVE" /\ i = 6                   -> -t
    [] m = "HUG" /\ i \in Inner               -> -l
    [] m = "HANG" /\ i \in Inner              -> l
    [] m \in {"GRAB", "LIFT"} /\ i = 0        -> -t
    [] m \in {"GRAB", "LIFT"} /\ i = 4        -> -n
    [] m = "LIFT" /\ i = 2                    -> -n
    [] m \in {"GRAB", "LIFT"} /\ i \in {8, 10} -> n
    [] OTHER                                  -> 0

Posture(m, l, t, n) == [i \in Joints |-> Template(m)[i] + Shift(m, i, l, t, n)]

Point(time, positions) == [time |-> time, positions |-> positions]

-----------------------------------------------------------------------------
(***************************************************************************)
(* WalkMode::next_phase_.  The remainder of C++ has the sign of the        *)
(* dividend, and the switch has no case for a negative phase: the point    *)
(* keeps the positions it came with, which at first are none.              *)
(***************************************************************************)
Rem(a, b) == IF a >= 0 THEN a % b ELSE -((-a) % b)

NoPositions == <<>>

Stride(k, l) ==
  LET a1 == 60
      l0 == 70 + l
      l1 == l0 + 30
      l2 == l0 - 50
      half == [s1 |-> <<0, 0, -a1, l1, a1, l1>>, s2 |-> <<0, 0, 0, l2, 0, l0>>,
               s3 |-> <<0, 0, a1, l1, -a1, l1>>, s4 |-> <<0, 0, 0, l0, 0, l2>>]
      of == <<half.s1 \o half.s2, half.s2 \o half.s1,
              half.s3 \o half.s4, half.s4 \o half.s3>>
  IN  [i \in Joints |-> of[k + 1][i + 1]]

NextPhase(ph, dir) == Rem(ph + dir, 4)

NextPointAtTwo(point, ph, l) ==
  Point(20, IF ph \in 0..3 THEN Stride(ph, l) ELSE point.positions)

NextPoint(point, ph, l) ==
  Point(point.time + 20, IF ph \in 0..3 THEN Stride(ph, l) ELSE point.positions)

NewPoint == Point(0, NoPositions)

(***************************************************************************)
(* next_phase_animation_: four phases on, with one point object that is    *)
(* pushed four times.                                                      *)
(***************************************************************************)
Phase1(ph, dir) == NextPhase(ph, dir)
StayInPhase1(ph, dir) == Phase1(ph, dir)
Phase2(ph, dir) == NextPhase(Phase1(ph, dir), dir)
Phase3(ph, dir) == NextPhase(Phase2(ph, dir), dir)
StayInPhase3(ph, dir) == Phase3(ph, dir)
Phase4(ph, dir) == NextPhase(Phase3(ph, dir), dir)

Animation(ph, dir, l) ==
  LET p1 == NextPoint(NewPoint, Phase1(ph, dir), l)
      p2 == NextPoint(p1, Phase2(ph, dir), l)
      p3 == NextPoint(p2, Phase3(ph, dir), l)
      p4 == NextPoint(p3, Phase4(ph, dir), l)
  IN  <<p1, p2, p3, p4>>

\* dist > 0 ? ceil(dist) : floor(dist), in whole metres.
WholeSteps(dist) == IF dist > 0 THEN -((-dist) \div 100) ELSE dist \div 100

-----------------------------------------------------------------------------
Init ==
  /\ mode = "NONE"
  /\ lift = [m \in BodyMode |-> 0]
  /\ turn = [m \in BodyMode |-> 0]
  /\ lean = [m \in BodyMode |-> 0]
  /\ phase = 0
  /\ sent = <<>>
  /\ steps = 0

\* leave() of the mode that runs, enter() of a mode that is not a body mode.
Leave == mode' = "NONE" /\ UNCHANGED <<acc, phase, sent, steps>>

\* enter(): "Move into the initial position".
EnterPose(m) ==
  /\ mode' = m
  /\ sent' = <<Point(TimeFromStart(m), Template(m))>>
  /\ steps' = 0
  /\ UNCHANGED <<acc, phase>>

EnterWalk ==
  /\ mode' = "WALK"
  /\ phase' = NextPhase(phase, 0)
  /\ sent' = <<NextPoint(NewPoint, phase', lift["WALK"])>>
  /\ steps' = 0
  /\ UNCHANGED acc

SendPosture ==
  /\ sent' = <<Point(TimeFromStart(mode),
                     Posture(mode, lift'[mode], turn'[mode], lean'[mode]))>>
  /\ steps' = 0
  /\ UNCHANGED <<mode, phase>>

\* move_z in DRIVE raises the robot, in HUG and HANG it lowers lift_.
GestureLift(d) ==
  /\ mode \in {"DRIVE", "HUG", "HANG"}
  /\ LET x == IF mode = "DRIVE" THEN lift[mode] + d ELSE lift[mode] - d
     IN  lift' = [lift EXCEPT ![mode] = Clamp(x, LiftLimit(mode))]
  /\ UNCHANGED <<turn, lean>>
  /\ SendPosture

\* "turn" in DRIVE, move_z in GRAB and LIFT.
GestureTurn(d) ==
  /\ mode \in {"DRIVE", "GRAB", "LIFT"}
  /\ turn' = [turn EXCEPT ![mode] = Clamp(turn[mode] - d, TurnLimit(mode))]
  /\ UNCHANGED <<lift, lean>>
  /\ SendPosture

\* move_x in GRAB and LIFT.
GestureLean(d) ==
  /\ mode \in {"GRAB", "LIFT"}
  /\ lean' = [lean EXCEPT ![mode] = Clamp(lean[mode] - d, LeanLimit)]
  /\ UNCHANGED <<lift, turn>>
  /\ SendPosture

\* move_x in WALK.
GestureWalk(d) ==
  /\ mode = "WALK"
  /\ steps' = WholeSteps(d)
  /\ phase' = Phase4(phase, steps')
  /\ sent' = Animation(phase, steps', lift["WALK"])
  /\ UNCHANGED <<mode, acc>>

\* move_z in WALK.
GestureWalkLift(d) ==
  /\ mode = "WALK"
  /\ lift' = [lift EXCEPT !["WALK"] = Clamp(lift["WALK"] + d, LiftLimit("WALK"))]
  /\ phase' = NextPhase(phase, 0)
  /\ sent' = <<NextPoint(NewPoint, phase', lift'["WALK"])>>
  /\ steps' = 0
  /\ UNCHANGED <<mode, turn, lean>>

Switch == Leave \/ EnterWalk \/ \E m \in PoseMode : EnterPose(m)

Gesture(d) == \/ GestureLift(d) \/ GestureTurn(d) \/ GestureLean(d)
              \/ GestureWalk(d) \/ GestureWalkLift(d)

Next == Switch \/ \E d \in Amount : Gesture(d)

Spec == Init /\ [][Next]_vars

-----------------------------------------------------------------------------
Within(x, limit) == limit[1] <= x /\ x <= limit[2]

(***************************************************************************)
(* The accumulators stay within the limits of their modes (LIFT_LIMIT,     *)
(* TURN_LIMIT, LEAN_LIMIT), the phase among those of the gait, through any *)
(* sequence of gestures and mode switches.                                 *)
(***************************************************************************)
TypeOK ==
  /\ mode \in BodyMode \cup {"NONE"}
  /\ lift \in [BodyMode -> Int] /\ turn \in [BodyMode -> Int] /\ lean \in [BodyMode -> Int]
  /\ \A m \in BodyMode : /\ Within(lift[m], LiftLimit(m))
                         /\ Within(turn[m], TurnLimit(m))
                         /\ Within(lean[m], LeanLimit)
  /\ phase \in -3..3
  /\ steps \in Int

(***************************************************************************)
(* The gait always comes to rest in its first phase: four times any number *)
(* of steps is a multiple of four, whatever the sign of the C++ remainders *)
(* in between.  (A remainder left over would make every later walk and     *)
(* lift start in the middle of the gait.)                                  *)
(***************************************************************************)
RestsInFirstPhase == phase = 0

Raised(positions, l) == {i \in Inner : positions[i] = 70 + l - 50}

(***************************************************************************)
(* Walking an odd number of steps forward raises each arm exactly once,    *)
(* one arm at a time, as the four phases drawn in next_phase_ do.          *)
(***************************************************************************)
EachArmStepsOnce ==
  steps > 0 /\ steps % 2 = 1 =>
    LET up(j) == Raised(sent[j].positions, lift["WALK"])
    IN  /\ \A j \in 1..4 : Cardinality(up(j)) = 1
        /\ UNION {up(j) : j \in 1..4} = Inner

(***************************************************************************)
(* The points of a trajectory are ordered in time, though they are copies  *)
(* of one point object whose time is passed by reference into next_phase_. *)
(***************************************************************************)
TimesIncrease ==
  \A j \in 1..Len(sent) :
    sent[j].time > (IF j = 1 THEN 0 ELSE sent[j - 1].time)

(***************************************************************************)
(* Every point names a position for each of the 12 joint_names, as the     *)
(* four phases of the comment in next_phase_ do.  (The code breaks it.)    *)
(***************************************************************************)
PointsComplete == \A j \in 1..Len(sent) : DOMAIN sent[j].positions = Joints

(***************************************************************************)
(* The limits of the revolute joints in the robot's URDF: turn tables      *)
(* pi/2, bodies 7pi/6, arms pi, inner arms -0.9pi to 0.7pi.                *)
(***************************************************************************)
UrdfLimit(i) ==
  CASE i \in {0, 6} -> <<-157, 157>>
    [] i \in {1, 7} -> <<-366, 366>>
    [] i \in Inner  -> <<-282, 219>>
    [] OTHER        -> <<-314, 314>>

(***************************************************************************)
(* Walking never commands a joint beyond its limit, at any lift.           *)
(***************************************************************************)
WalkWithinUrdfLimits ==
  mode = "WALK" =>
    \A j \in 1..Len(sent) : \A i \in DOMAIN sent[j].positions :
      Within(sent[j].positions[i], UrdfLimit(i))
=============================================================================
