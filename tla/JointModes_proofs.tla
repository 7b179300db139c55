-------------------------- MODULE JointModes_proofs ---------------------------
(***************************************************************************)
(* Theorems about JointModes, for any gestures, postures and bounds.       *)
(***************************************************************************)
EXTENDS JointModes, SequenceTheorems, TLAPS

(***************************************************************************)
(* The smaller and the larger of two integers.                             *)
(***************************************************************************)
LEMMA MinMaxOfTwo ==
  ASSUME NEW a \in Int, NEW b \in Int
  PROVE  /\ Min({a, b}) = (IF a <= b THEN a ELSE b)
         /\ Max({a, b}) = (IF a <= b THEN b ELSE a)
BY DEF Min, Max

(***************************************************************************)
(* The links are records with a joint, an axis and a direction, and the    *)
(* joint is one of Joint.                                                  *)
(***************************************************************************)
LEMMA LinkFields ==
  ASSUME NEW l \in get_links
  PROVE  /\ l.joint \in Joint /\ l.axis_rot \in {"x", "y", "z"}
         /\ l.invert \in BOOLEAN
<1> DEFINE Fields(k) == k.axis_rot \in {"x", "y", "z"} /\ k.invert \in BOOLEAN
<1>1. ASSUME NEW s, NEW a, NEW h \in BOOLEAN, NEW i \in BOOLEAN, NEW k \in robot_arm(s, a, h, i)
      PROVE  Fields(k)
  BY <1>1 DEF robot_arm
<1>2. ASSUME NEW s, NEW i \in BOOLEAN, NEW k \in robot_half(s, i)
      PROVE  Fields(k)
  <2>1. CASE k \in robot_arm(s, "left", i, TRUE) \cup robot_arm(s, "right", i, FALSE)
    BY <2>1, <1>1
  <2> DEFINE table == [link |-> <<s, "turn_table_link">>, joint |-> <<s, "turn_table_joint">>,
                       axis_vis |-> "Y", axis_rot |-> "z", invert |-> TRUE]
             body == [link |-> <<s, "body_link">>, joint |-> <<s, "body_joint">>,
                      axis_vis |-> "X", axis_rot |-> "x", invert |-> ~i]
  <2>2. Fields(table) /\ Fields(body)
    BY <1>2
  <2>3. robot_half(s, i) = {table, body} \cup robot_arm(s, "left", i, TRUE)
                                         \cup robot_arm(s, "right", i, FALSE)
    BY DEF robot_half
  <2> HIDE DEF table, body, Fields
  <2>4. k \in {table, body}
           \/ k \in robot_arm(s, "left", i, TRUE) \cup robot_arm(s, "right", i, FALSE)
    BY <1>2, <2>3
  <2> QED BY <2>1, <2>2, <2>4
<1>3. Fields(l)
  BY <1>2 DEF get_links
<1>4. l.joint \in Joint
  BY DEF Joint, LinkJoints
<1> QED BY <1>3, <1>4

(***************************************************************************)
(* A gesture turns its link by an integer.                                 *)
(***************************************************************************)
LEMMA TurnIsInteger ==
  ASSUME NEW l \in get_links, NEW pose \in Poses(l.axis_vis)
  PROVE  Turn(l, pose) \in Int
<1>1. \A axis \in {"x", "y", "z"} : pose[axis] \in Int
  BY DEF Poses
<1> QED BY <1>1, LinkFields DEF Turn

(***************************************************************************)
(* The trajectory message of FULL gives each joint an integer, the angle   *)
(* of a link of that joint.                                                *)
(***************************************************************************)
LEMMA LinkOfJoint ==
  ASSUME NEW j \in LinkJoints
  PROVE  LET l == CHOOSE l \in get_links : l.joint = j
         IN  l \in get_links /\ l.joint = j
BY DEF LinkJoints

(***************************************************************************)
(* The angles that FULL takes from a message are the message's or its own. *)
(***************************************************************************)
LEMMA HeardAngle ==
  ASSUME NEW angle \in [get_links -> Int], NEW r \in Angles
  PROVE  /\ Heard(angle, r) \in [get_links -> Int]
         /\ \A l \in get_links :
              \/ l.joint \in ControllerJoints /\ Heard(angle, r)[l] = r[l.joint]
              \/ Heard(angle, r)[l] = angle[l]
<1>1. DOMAIN r = ControllerJoints /\ \A j \in ControllerJoints : r[j] \in Int
  BY DEF Angles
<1> QED BY <1>1 DEF Heard
-----------------------------------------------------------------------------
(***************************************************************************)
(* The part of TypeOK, and what it takes to keep it, that is about the     *)
(* controllers' joints: NeverOvershoots is inductive together with it.     *)
(***************************************************************************)
IInv == TypeOK /\ NeverOvershoots

LEMMA InitIInv == Init => IInv
<1> SUFFICES ASSUME Init PROVE IInv
  OBVIOUS
<1>1. PICK a \in Standing :
        /\ actual = [j \in ControllerJoints |-> a]
        /\ reach = [j \in Joint |-> [low |-> Min({0, a}), high |-> Max({0, a})]]
  BY DEF Init
<1>2. a \in Int
  BY JointModesAssumption
<1>3. /\ Min({0, a}) \in Int /\ Max({0, a}) \in Int
      /\ Min({0, a}) <= 0 /\ Min({0, a}) <= a
      /\ Max({0, a}) >= 0 /\ Max({0, a}) >= a
  BY <1>2, MinMaxOfTwo
<1>4. reach \in [Joint -> [low : Int, high : Int]]
  BY <1>1, <1>3
<1>5. TypeOK
  <2>1. goal \in Angles /\ actual \in Angles
    BY <1>1, <1>2 DEF Init, Angles
  <2>2. camera \in [CameraLink -> Int] /\ aimed \in [CameraLink -> Int]
    BY DEF Init
  <2>3. servo \in [DOMAIN ServoJoints -> Int]
    BY DEF Init
  <2>4. commands \in 0..MaxCommands
    <3>1. MaxCommands \in Nat /\ commands = 0
      BY JointModesAssumption DEF Init
    <3> QED BY <3>1
  <2>5. mode \in Mode /\ matched \in BOOLEAN
    BY Zenon DEF Init, Mode
  <2>6. last_angle \in [get_links -> Int]
    BY DEF Init
  <2>7. report \in SUBSET Angles /\ \A r1, r2 \in report : r1 = r2
    BY DEF Init
  <2> QED BY <1>4, <2>1, <2>2, <2>3, <2>4, <2>5, <2>6, <2>7 DEF TypeOK
<1>6. NeverOvershoots
  <2>1. ASSUME NEW l \in get_links PROVE Within(last_angle[l], reach[l.joint])
    BY <1>1, <1>3, LinkFields DEF Init, Within
  <2>2. ASSUME NEW j \in ControllerJoints
        PROVE  Within(goal[j], reach[j]) /\ Within(actual[j], reach[j])
    BY <1>1, <1>3 DEF Init, Within, Joint
  <2> QED BY <2>1, <2>2 DEF NeverOvershoots, Init
<1> QED BY <1>5, <1>6 DEF IInv

(***************************************************************************)
(* Discovery and switching touch neither the angles nor the commands.      *)
(***************************************************************************)
LEMMA QuietSteps ==
  ASSUME IInv, UNCHANGED <<full, cameras, commands>>, mode' \in Mode, matched' \in BOOLEAN
  PROVE  IInv'
BY DEF IInv, TypeOK, NeverOvershoots, full, cameras

(***************************************************************************)
(* A joint on its way from one angle to another stays between them.        *)
(***************************************************************************)
LEMMA MoveIInv == IInv /\ Move => IInv'
<1> SUFFICES ASSUME IInv, Move PROVE IInv'
  OBVIOUS
<1> USE DEF IInv
<1>1. /\ goal \in [ControllerJoints -> Int] /\ actual \in [ControllerJoints -> Int]
      /\ \A j \in ControllerJoints : reach[j].low \in Int /\ reach[j].high \in Int
  BY DEF TypeOK, Angles, Joint
<1>2. ASSUME NEW j \in ControllerJoints
      PROVE  actual'[j] \in Int /\ Within(actual'[j], reach[j])
  BY <1>1 DEF Move, Toward, NeverOvershoots, Within
<1>3. actual' \in Angles
  BY <1>2 DEF Move, Angles
<1>4. TypeOK'
  BY <1>3 DEF TypeOK, Move, cameras
<1>5. NeverOvershoots'
  BY <1>2 DEF NeverOvershoots, Move
<1> QED BY <1>4, <1>5

(***************************************************************************)
(* A report is a copy of where the joints are.                             *)
(***************************************************************************)
LEMMA ReportIInv == IInv /\ Report => IInv'
<1> SUFFICES ASSUME IInv, Report PROVE IInv'
  OBVIOUS
<1>1. TypeOK'
  BY DEF IInv, TypeOK, Report, cameras
<1>2. NeverOvershoots'
  BY DEF IInv, NeverOvershoots, Report
<1> QED BY <1>1, <1>2 DEF IInv

(***************************************************************************)
(* trajectoryStateHandler_ takes angles that the robot was at.             *)
(***************************************************************************)
LEMMA HandleStateIInv == IInv /\ HandleState => IInv'
<1> SUFFICES ASSUME IInv, HandleState PROVE IInv'
  OBVIOUS
<1>1. PICK r \in report : last_angle' = Heard(last_angle, r)
  BY DEF HandleState
<1>2. r \in Angles /\ last_angle \in [get_links -> Int]
  BY DEF IInv, TypeOK
<1>3. /\ last_angle' \in [get_links -> Int]
      /\ \A l \in get_links :
           \/ l.joint \in ControllerJoints /\ last_angle'[l] = r[l.joint]
           \/ last_angle'[l] = last_angle[l]
  BY <1>1, <1>2, HeardAngle
<1>4. TypeOK'
  BY <1>3 DEF IInv, TypeOK, HandleState, cameras
<1>5. ASSUME NEW l \in get_links PROVE Within(last_angle'[l], reach[l.joint])
  BY <1>1, <1>3 DEF IInv, NeverOvershoots
<1>6. NeverOvershoots'
  BY <1>5 DEF IInv, NeverOvershoots, HandleState
<1> QED BY <1>4, <1>6 DEF IInv

(***************************************************************************)
(* A posture widens what every joint is allowed to reach and is the goal.  *)
(***************************************************************************)
LEMMA PostureIInv ==
  ASSUME IInv, NEW a \in Standing, Posture(a)
  PROVE  IInv'
<1>1. a \in Int
  BY JointModesAssumption
<1>2. \A j \in Joint : reach[j].low \in Int /\ reach[j].high \in Int
  BY DEF IInv, TypeOK
<1>3. ASSUME NEW j \in Joint
      PROVE  /\ reach'[j].low \in Int /\ reach'[j].high \in Int
             /\ reach'[j].low <= reach[j].low /\ reach'[j].low <= a
             /\ reach'[j].high >= reach[j].high /\ reach'[j].high >= a
  <2>1. reach'[j] = [low |-> Min({reach[j].low, a}), high |-> Max({reach[j].high, a})]
    BY DEF Posture
  <2>2. /\ reach'[j].low = Min({reach[j].low, a})
        /\ reach'[j].high = Max({reach[j].high, a})
    BY <2>1
  <2>3. \A x, y \in Int : /\ Min({x, y}) = (IF x <= y THEN x ELSE y)
                         /\ Max({x, y}) = (IF x <= y THEN y ELSE x)
    BY MinMaxOfTwo
  <2>4. reach[j].low \in Int /\ reach[j].high \in Int
    BY <1>2
  <2>5. reach'[j].low = IF reach[j].low <= a THEN reach[j].low ELSE a
    BY <1>1, <2>2, <2>3, <2>4
  <2>6. reach'[j].high = IF reach[j].high <= a THEN a ELSE reach[j].high
    BY <1>1, <2>2, <2>3, <2>4
  <2> QED BY <1>1, <2>4, <2>5, <2>6
<1>4. reach' \in [Joint -> [low : Int, high : Int]]
  <2>1. \A j \in Joint : reach'[j] = [low |-> reach'[j].low, high |-> reach'[j].high]
    BY DEF Posture
  <2>2. reach' = [j \in Joint |-> reach'[j]]
    BY DEF Posture
  <2> QED BY <1>3, <2>1, <2>2
<1>5. goal' = goal \/ goal' = [j \in ControllerJoints |-> a]
  BY DEF Posture, Command
<1>6. goal' \in Angles
  BY <1>1, <1>5 DEF IInv, TypeOK, Angles
<1>7. mode' \in Mode /\ matched' \in BOOLEAN
  BY DEF Posture, Enter, Mode
<1>8. commands' \in 0..MaxCommands
  BY JointModesAssumption DEF IInv, TypeOK, Posture, Counted
<1>9. TypeOK'
  BY <1>4, <1>6, <1>7, <1>8 DEF IInv, TypeOK, Posture, cameras
<1>10. ASSUME NEW j \in Joint, NEW x \in Int, Within(x, reach[j])
       PROVE  Within(x, reach'[j])
  BY <1>2, <1>3, <1>10 DEF Within
<1>11. ASSUME NEW l \in get_links PROVE Within(last_angle'[l], reach'[l.joint])
  <2>1. last_angle[l] \in Int /\ Within(last_angle[l], reach[l.joint])
    BY DEF IInv, TypeOK, NeverOvershoots
  <2> QED BY <1>10, <2>1, LinkFields DEF Posture
<1>12. ASSUME NEW j \in ControllerJoints
       PROVE  /\ Within(goal'[j], reach'[j]) /\ Within(actual'[j], reach'[j])
              /\ \A r \in report' : Within(r[j], reach'[j])
  <2>1. j \in Joint
    BY DEF Joint
  <2>2. /\ goal[j] \in Int /\ actual[j] \in Int
        /\ \A r \in report : r[j] \in Int
    BY DEF IInv, TypeOK, Angles
  <2>3. /\ Within(goal[j], reach[j]) /\ Within(actual[j], reach[j])
        /\ \A r \in report : Within(r[j], reach[j])
    BY DEF IInv, NeverOvershoots
  <2>4. Within(a, reach'[j])
    BY <1>1, <1>3, <2>1 DEF Within
  <2>5. Within(goal'[j], reach'[j])
    BY <1>5, <1>10, <2>1, <2>2, <2>3, <2>4
  <2> QED BY <1>10, <2>1, <2>2, <2>3, <2>5 DEF Posture
<1>13. NeverOvershoots'
  BY <1>11, <1>12 DEF NeverOvershoots
<1> QED BY <1>9, <1>13 DEF IInv

(***************************************************************************)
(* A gesture in FULL widens what its joint is allowed to reach, and the    *)
(* goal becomes the angles of the links.                                   *)
(***************************************************************************)
LEMMA FullFeedbackIInv ==
  ASSUME IInv, NEW link \in Draggable, NEW pose \in Poses(link.axis_vis),
         FullFeedback(link, pose)
  PROVE  IInv'
<1> DEFINE d == Turn(link, pose)
<1>1. link \in get_links /\ link.joint \in Joint /\ d \in Int
  BY DraggableAssumption, LinkFields, TurnIsInteger
<1>2. /\ \A j \in Joint : reach[j].low \in Int /\ reach[j].high \in Int
      /\ \A l \in get_links : last_angle[l] \in Int
      /\ last_angle \in [get_links -> Int]
      /\ reach \in [Joint -> [low : Int, high : Int]]
  BY DEF IInv, TypeOK
<1>3. /\ Min({0, d}) \in Int /\ Max({0, d}) \in Int
      /\ Min({0, d}) <= 0 /\ Min({0, d}) <= d
      /\ Max({0, d}) >= 0 /\ Max({0, d}) >= d
  BY <1>1, MinMaxOfTwo
<1> DEFINE wider == [low |-> reach[link.joint].low + Min({0, d}),
                     high |-> reach[link.joint].high + Max({0, d})]
<1>4. reach' = [reach EXCEPT ![link.joint] = wider]
  BY DEF FullFeedback
<1>5. /\ last_angle' = [last_angle EXCEPT ![link] = @ + d]
      /\ actual' = actual /\ report' = report
  BY DEF FullFeedback, Turned
<1> HIDE DEF d
<1>6. wider \in [low : Int, high : Int]
  BY <1>1, <1>2, <1>3
<1>7. reach' \in [Joint -> [low : Int, high : Int]]
  BY <1>2, <1>4, <1>6
<1>8. ASSUME NEW j \in Joint, NEW x \in Int, Within(x, reach[j])
      PROVE  /\ Within(x, reach'[j])
             /\ j = link.joint => Within(x + d, reach'[j])
  <2>1. CASE j = link.joint
    <3>1. reach'[j] = wider
      BY <1>2, <1>4, <2>1
    <3>2. reach'[j].low = reach[j].low + Min({0, d}) /\ reach'[j].high = reach[j].high + Max({0, d})
      BY <3>1, <2>1
    <3> QED BY <1>1, <1>2, <1>3, <1>8, <3>2 DEF Within
  <2>2. CASE j # link.joint
    BY <1>2, <1>4, <1>8, <2>2
  <2> QED BY <2>1, <2>2
<1>9. last_angle' \in [get_links -> Int]
  BY <1>1, <1>2, <1>5
<1>10. ASSUME NEW l \in get_links PROVE Within(last_angle'[l], reach'[l.joint])
  <2>1. Within(last_angle[l], reach[l.joint]) /\ l.joint \in Joint /\ last_angle[l] \in Int
    BY <1>2, LinkFields DEF IInv, NeverOvershoots
  <2>2. CASE l = link
    BY <1>2, <1>5, <1>8, <2>1, <2>2
  <2>3. CASE l # link
    BY <1>2, <1>5, <1>8, <2>1, <2>3
  <2> QED BY <2>2, <2>3
<1> DEFINE positions == [j \in LinkJoints |->
                           last_angle'[CHOOSE l \in get_links : l.joint = j]]
<1>11. goal' = goal \/ (DOMAIN positions = ControllerJoints /\ goal' = positions)
  BY DEF FullFeedback, Command
<1>12. ASSUME NEW j \in LinkJoints
       PROVE  positions[j] \in Int /\ Within(positions[j], reach'[j])
  BY <1>9, <1>10, LinkOfJoint
<1>13. ASSUME NEW j \in ControllerJoints
       PROVE  goal'[j] \in Int /\ Within(goal'[j], reach'[j])
  <2>1. j \in Joint /\ goal[j] \in Int /\ Within(goal[j], reach[j])
    BY DEF Joint, IInv, TypeOK, Angles, NeverOvershoots
  <2>2. CASE goal' = goal
    BY <1>8, <2>1, <2>2
  <2>3. CASE DOMAIN positions = ControllerJoints /\ goal' = positions
    BY <1>12, <2>3
  <2> QED BY <1>11, <2>2, <2>3
<1>14. goal' \in Angles
  <2>1. CASE goal' = goal
    BY <2>1 DEF IInv, TypeOK
  <2>2. CASE DOMAIN positions = ControllerJoints /\ goal' = positions
    BY <1>12, <2>2 DEF Angles
  <2> QED BY <1>11, <2>1, <2>2
<1>15. commands' \in 0..MaxCommands
  BY JointModesAssumption DEF IInv, TypeOK, FullFeedback, Counted
<1>16. TypeOK'
  BY <1>5, <1>7, <1>9, <1>14, <1>15 DEF IInv, TypeOK, FullFeedback, cameras
<1>17. ASSUME NEW j \in ControllerJoints
       PROVE  Within(actual'[j], reach'[j]) /\ \A r \in report' : Within(r[j], reach'[j])
  <2>1. /\ j \in Joint /\ actual[j] \in Int /\ Within(actual[j], reach[j])
        /\ \A r \in report : r[j] \in Int /\ Within(r[j], reach[j])
    BY DEF Joint, IInv, TypeOK, Angles, NeverOvershoots
  <2> QED BY <1>5, <1>8, <2>1
<1>18. NeverOvershoots'
  BY <1>10, <1>13, <1>17 DEF NeverOvershoots
<1> QED BY <1>16, <1>18 DEF IInv

(***************************************************************************)
(* A gesture in a camera mode leaves the other controller's joints alone.  *)
(***************************************************************************)
LEMMA CameraFeedbackIInv ==
  ASSUME IInv, NEW link \in CameraLink, NEW pose \in Poses(CameraAxis(link)),
         CameraFeedback(link, pose)
  PROVE  IInv'
<1>1. \A axis \in {"x", "y", "z"} : pose[axis] \in Int
  BY DEF Poses
<1>2. Around[CameraAxis(link)] \in {"x", "y", "z"}
  BY DEF Around, CameraAxis
<1>3. camera \in [CameraLink -> Int] /\ aimed \in [CameraLink -> Int]
  BY DEF IInv, TypeOK
<1>4. camera' \in [CameraLink -> Int]
  BY <1>1, <1>3 DEF CameraFeedback
<1>5. aimed' \in [CameraLink -> Int]
  BY <1>1, <1>2, <1>3 DEF CameraFeedback
<1> DEFINE data == [i \in DOMAIN joints_ |-> camera'[joints_[i]]]
<1>6. servo' = servo \/ servo' = data
  BY DEF CameraFeedback
<1>7. data \in [DOMAIN ServoJoints -> Int]
  <2>1. DOMAIN joints_ = DOMAIN ServoJoints
    BY DEF joints_, ServoJoints, CameraLinks, Servos
  <2>2. \A i \in DOMAIN joints_ : joints_[i] \in CameraLink
    BY DEF CameraLink, Range
  <2> QED BY <1>4, <2>1, <2>2
<1>8. servo' \in [DOMAIN ServoJoints -> Int]
  BY <1>6, <1>7 DEF IInv, TypeOK
<1>9. commands' \in 0..MaxCommands
  BY JointModesAssumption DEF IInv, TypeOK, CameraFeedback, Counted
<1>10. TypeOK'
  BY <1>4, <1>5, <1>8, <1>9 DEF IInv, TypeOK, CameraFeedback, full
<1>11. NeverOvershoots'
  BY DEF IInv, NeverOvershoots, CameraFeedback, full
<1> QED BY <1>10, <1>11 DEF IInv

(***************************************************************************)
(* Every step keeps the invariant.                                         *)
(***************************************************************************)
LEMMA NextIInv == IInv /\ [Next]_vars => IInv'
<1> SUFFICES ASSUME IInv, [Next]_vars PROVE IInv'
  OBVIOUS
<1>1. CASE HandleState
  BY <1>1, HandleStateIInv
<1>2. ASSUME NEW m \in Mode, SwitchMode(m) PROVE IInv'
  <2>1. matched \in BOOLEAN
    BY DEF IInv, TypeOK
  <2>2. mode' \in Mode /\ matched' \in BOOLEAN
    BY <1>2, <2>1 DEF SwitchMode, Enter
  <2> QED BY <1>2, <2>2, QuietSteps DEF SwitchMode
<1>3. ASSUME NEW a \in Standing, Posture(a) PROVE IInv'
  BY <1>3, PostureIInv
<1>4. ASSUME NEW link \in Draggable, NEW pose \in Poses(link.axis_vis),
             FullFeedback(link, pose)
      PROVE  IInv'
  BY <1>4, FullFeedbackIInv
<1>5. ASSUME NEW link \in CameraLink, NEW pose \in Poses(CameraAxis(link)),
             CameraFeedback(link, pose)
      PROVE  IInv'
  BY <1>5, CameraFeedbackIInv
<1>6. CASE Discover
  BY <1>6, QuietSteps DEF Discover, IInv, TypeOK
<1>7. CASE Move
  BY <1>7, MoveIInv
<1>8. CASE Report
  BY <1>8, ReportIInv
<1>9. CASE UNCHANGED vars
  BY <1>9, QuietSteps DEF vars, IInv, TypeOK
<1> QED BY <1>1, <1>2, <1>3, <1>4, <1>5, <1>6, <1>7, <1>8, <1>9 DEF Next, Callbacks

(***************************************************************************)
(* The variables of the joint modes have their types, and at most one      *)
(* message of the controller waits, for any gestures and postures.         *)
(***************************************************************************)
THEOREM TypeCorrect == Spec => []TypeOK
<1>1. IInv => TypeOK
  BY DEF IInv
<1> QED BY InitIInv, NextIInv, <1>1, PTL DEF Spec

(***************************************************************************)
(* No gesture counts twice, whenever the controller's states arrive: the   *)
(* angles, goals and positions of every joint stay within what gestures    *)
(* and postures add up to.                                                 *)
(***************************************************************************)
THEOREM NoOvershoot == Spec => []NeverOvershoots
<1>1. IInv => NeverOvershoots
  BY DEF IInv
<1> QED BY InitIInv, NextIInv, <1>1, PTL DEF Spec

-----------------------------------------------------------------------------
(***************************************************************************)
(* The cameras: joints_state_ adds up the gestures of all camera modes.    *)
(***************************************************************************)
AnglesAddUp == camera = aimed

(***************************************************************************)
(* Four pairs, one after the other.                                        *)
(***************************************************************************)
LEMMA FourPairs ==
  ASSUME NEW a, NEW b, NEW c, NEW d, NEW e, NEW f, NEW g, NEW h,
         NEW q, q = <<a, b>> \o <<c, d>> \o <<e, f>> \o <<g, h>>
  PROVE  /\ DOMAIN q = 1..8
         /\ q[1] = a /\ q[2] = b /\ q[3] = c /\ q[4] = d
         /\ q[5] = e /\ q[6] = f /\ q[7] = g /\ q[8] = h
<1> DEFINE S == {a, b, c, d, e, f, g, h}
           t1 == <<a, b>>
           t2 == <<c, d>>
           t3 == <<e, f>>
           t4 == <<g, h>>
           q2 == t1 \o t2
           q3 == q2 \o t3
           q4 == q3 \o t4
<1>1. /\ t1 \in Seq(S) /\ Len(t1) = 2 /\ t1[1] = a /\ t1[2] = b
      /\ t2 \in Seq(S) /\ Len(t2) = 2 /\ t2[1] = c /\ t2[2] = d
      /\ t3 \in Seq(S) /\ Len(t3) = 2 /\ t3[1] = e /\ t3[2] = f
      /\ t4 \in Seq(S) /\ Len(t4) = 2 /\ t4[1] = g /\ t4[2] = h
  OBVIOUS
<1> HIDE DEF S, t1, t2, t3, t4
<1>2. /\ q2 \in Seq(S) /\ Len(q2) = Len(t1) + Len(t2)
      /\ \A i \in 1 .. Len(t1) + Len(t2) :
           q2[i] = IF i <= Len(t1) THEN t1[i] ELSE t2[i - Len(t1)]
  BY <1>1, ConcatProperties
<1> HIDE DEF q2
<1>3. Len(q2) = 4 /\ q2[1] = a /\ q2[2] = b /\ q2[3] = c /\ q2[4] = d
  BY <1>1, <1>2
<1>4. /\ q3 \in Seq(S) /\ Len(q3) = Len(q2) + Len(t3)
      /\ \A i \in 1 .. Len(q2) + Len(t3) :
           q3[i] = IF i <= Len(q2) THEN q2[i] ELSE t3[i - Len(q2)]
  <2>1. q2 \in Seq(S) /\ t3 \in Seq(S)
    BY <1>1, <1>2
  <2> QED BY <2>1, ConcatProperties, Zenon
<1> HIDE DEF q3
<1>5. /\ Len(q3) = 6
      /\ q3[1] = a /\ q3[2] = b /\ q3[3] = c /\ q3[4] = d /\ q3[5] = e /\ q3[6] = f
  BY <1>1, <1>3, <1>4
<1>6. /\ q4 \in Seq(S) /\ Len(q4) = Len(q3) + Len(t4)
      /\ \A i \in 1 .. Len(q3) + Len(t4) :
           q4[i] = IF i <= Len(q3) THEN q3[i] ELSE t4[i - Len(q3)]
  <2>1. q3 \in Seq(S) /\ t4 \in Seq(S)
    BY <1>1, <1>4
  <2> QED BY <2>1, ConcatProperties, Zenon
<1> HIDE DEF q4
<1>7. /\ DOMAIN q4 = 1..8
      /\ q4[1] = a /\ q4[2] = b /\ q4[3] = c /\ q4[4] = d
      /\ q4[5] = e /\ q4[6] = f /\ q4[7] = g /\ q4[8] = h
  BY <1>1, <1>5, <1>6
<1> QED BY <1>7 DEF t1, t2, t3, t4, q2, q3, q4

(***************************************************************************)
(* Both tables have the servos and their links in the same order.          *)
(***************************************************************************)
LEMMA SameOrder ==
  /\ DOMAIN joints_ = DOMAIN ServoJoints
  /\ \A i \in DOMAIN ServoJoints : joints_[i] = ChildLink(ServoJoints[i])
<1> DEFINE l(side, arm) == <<side, arm, "servo_upper_link">>
           c(side, arm) == <<side, arm, "camera">>
           lower(side, arm) == <<side, arm, "servo_lower_joint">>
           upper(side, arm) == <<side, arm, "servo_upper_joint">>
<1>1. /\ \A s, a : CameraLinks(s, a) = <<l(s, a), c(s, a)>>
      /\ \A s, a : Servos(s, a) = <<lower(s, a), upper(s, a)>>
      /\ \A s, a : ChildLink(lower(s, a)) = l(s, a) /\ ChildLink(upper(s, a)) = c(s, a)
  BY DEF CameraLinks, Servos, ChildLink
<1> HIDE DEF l, c, lower, upper
<1>2. /\ DOMAIN joints_ = 1..8
      /\ joints_[1] = l("front", "left") /\ joints_[2] = c("front", "left")
      /\ joints_[3] = l("front", "right") /\ joints_[4] = c("front", "right")
      /\ joints_[5] = l("rear", "left") /\ joints_[6] = c("rear", "left")
      /\ joints_[7] = l("rear", "right") /\ joints_[8] = c("rear", "right")
  <2>1. joints_ = <<l("front", "left"), c("front", "left")>>
                  \o <<l("front", "right"), c("front", "right")>>
                  \o <<l("rear", "left"), c("rear", "left")>>
                  \o <<l("rear", "right"), c("rear", "right")>>
    BY <1>1, Zenon DEF joints_
  <2> QED BY <2>1, FourPairs
<1>3. /\ DOMAIN ServoJoints = 1..8
      /\ ServoJoints[1] = lower("front", "left") /\ ServoJoints[2] = upper("front", "left")
      /\ ServoJoints[3] = lower("front", "right") /\ ServoJoints[4] = upper("front", "right")
      /\ ServoJoints[5] = lower("rear", "left") /\ ServoJoints[6] = upper("rear", "left")
      /\ ServoJoints[7] = lower("rear", "right") /\ ServoJoints[8] = upper("rear", "right")
  <2>1. ServoJoints = <<lower("front", "left"), upper("front", "left")>>
                      \o <<lower("front", "right"), upper("front", "right")>>
                      \o <<lower("rear", "left"), upper("rear", "left")>>
                      \o <<lower("rear", "right"), upper("rear", "right")>>
    BY <1>1, Zenon DEF ServoJoints
  <2> QED BY <2>1, FourPairs
<1>4. \A i \in 1..8 : joints_[i] = ChildLink(ServoJoints[i])
  BY <1>1, <1>2, <1>3
<1> QED BY <1>2, <1>3, <1>4

(***************************************************************************)
(* The sum of the two components that the code reads is the turn around    *)
(* the marker's own axis: the other component is 0.                        *)
(***************************************************************************)
LEMMA OneComponent ==
  ASSUME NEW link \in CameraLink, NEW pose \in Poses(CameraAxis(link))
  PROVE  pose["x"] + pose["z"] = pose[Around[CameraAxis(link)]]
BY DEF Poses, CameraAxis, Around

(***************************************************************************)
(* A gesture keeps the sums, and what it sends is in the servos' order.    *)
(***************************************************************************)
LEMMA CameraStep ==
  ASSUME TypeOK, AnglesAddUp, [Next]_vars
  PROVE  /\ AnglesAddUp'
         /\ servo' # servo =>
              \A i \in DOMAIN ServoJoints : servo'[i] = aimed'[ChildLink(ServoJoints[i])]
<1>1. ASSUME NEW link \in CameraLink, NEW pose \in Poses(CameraAxis(link)),
             CameraFeedback(link, pose)
      PROVE  /\ AnglesAddUp'
             /\ servo' # servo =>
                  \A i \in DOMAIN ServoJoints : servo'[i] = aimed'[ChildLink(ServoJoints[i])]
  <2> DEFINE data == [i \in DOMAIN joints_ |-> camera'[joints_[i]]]
  <2>1. camera' = [camera EXCEPT ![link] = @ + pose["x"] + pose["z"]]
    BY <1>1 DEF CameraFeedback
  <2>2. aimed' = [aimed EXCEPT ![link] = @ + pose[Around[CameraAxis(link)]]]
    BY <1>1 DEF CameraFeedback
  <2>3. servo' = servo \/ servo' = data
    BY <1>1 DEF CameraFeedback
  <2>4. /\ pose["x"] \in Int /\ pose["z"] \in Int
        /\ camera \in [CameraLink -> Int]
    BY DEF Poses, TypeOK
  <2>5. camera[link] + pose["x"] + pose["z"] = aimed[link] + pose[Around[CameraAxis(link)]]
    BY <2>4, OneComponent DEF AnglesAddUp
  <2>6. camera' = aimed'
    BY <2>1, <2>2, <2>5 DEF AnglesAddUp
  <2>7. DOMAIN joints_ = DOMAIN ServoJoints
    BY SameOrder
  <2>8. ASSUME servo' # servo, NEW i \in DOMAIN ServoJoints
        PROVE  servo'[i] = aimed'[ChildLink(ServoJoints[i])]
    BY <2>3, <2>6, <2>7, <2>8, SameOrder
  <2> QED BY <2>6, <2>8 DEF AnglesAddUp
<1>2. CASE \/ \E a \in Standing : Posture(a)
           \/ \E link \in Draggable : \E pose \in Poses(link.axis_vis) : FullFeedback(link, pose)
           \/ \E m \in Mode : SwitchMode(m)
           \/ HandleState \/ Discover \/ Move \/ Report
  BY <1>2 DEF Posture, FullFeedback, SwitchMode, HandleState, Discover, Move, Report, cameras,
              AnglesAddUp
<1>3. CASE UNCHANGED vars
  BY <1>3 DEF vars, cameras, AnglesAddUp
<1> QED BY <1>1, <1>2, <1>3 DEF Next, Callbacks

(***************************************************************************)
(* Whatever camera modes the gestures were made in, a command takes every  *)
(* servo to the sum of the gestures on its own link.                       *)
(***************************************************************************)
THEOREM CamerasAddUp == Spec => CamerasKeepTheirPlace
<1> DEFINE Kept == servo' # servo =>
                     \A i \in DOMAIN ServoJoints : servo'[i] = aimed'[ChildLink(ServoJoints[i])]
<1>1. Init => AnglesAddUp
  BY DEF Init, AnglesAddUp
<1>2. TypeOK /\ AnglesAddUp /\ [Next]_vars => AnglesAddUp' /\ [Kept]_vars
  BY CameraStep
<1> QED BY <1>1, <1>2, TypeCorrect, PTL DEF Spec, CamerasKeepTheirPlace

-----------------------------------------------------------------------------
(* What AnglesCatchUp rests on beside fairness.                             *)

\* How far a joint is from its goal.
Distance(j) == IF actual[j] <= goal[j] THEN goal[j] - actual[j] ELSE actual[j] - goal[j]

\* No state of the controller that is under way is out of date.
UpToDate == goal = actual /\ report \subseteq {actual}

Settled == UpToDate /\ \A l \in get_links : last_angle[l] = actual[l.joint]

Settling ==
  commands' = commands =>
    /\ goal' = goal
    /\ \A j \in ControllerJoints : Distance(j)' \in 0..Distance(j)
    /\ Move => \A j \in ControllerJoints : Distance(j) > 0 => Distance(j)' < Distance(j)
    /\ UpToDate => UpToDate'
    /\ UpToDate /\ HandleState => Settled'
    /\ Settled => Settled'

(***************************************************************************)
(* The links of FULL are the joints of the trajectory controller.          *)
(***************************************************************************)
LEMMA SameJoints == \A l \in get_links : l.joint \in ControllerJoints
<1>1. ASSUME NEW s \in Side, NEW a \in Arm, NEW h, NEW i, NEW l \in robot_arm(s, a, h, i)
      PROVE  l.joint \in ControllerJoints
  <2>1. l.joint \in {<<s, a, "arm_joint">>, <<s, a, "arm_inner_joint">>}
    BY <1>1 DEF robot_arm
  <2> QED BY <2>1 DEF ControllerJoints
<1>2. ASSUME NEW s \in Side, NEW i, NEW l \in robot_half(s, i)
      PROVE  l.joint \in ControllerJoints
  <2> DEFINE table == [link |-> <<s, "turn_table_link">>, joint |-> <<s, "turn_table_joint">>,
                       axis_vis |-> "Y", axis_rot |-> "z", invert |-> TRUE]
             body == [link |-> <<s, "body_link">>, joint |-> <<s, "body_joint">>,
                      axis_vis |-> "X", axis_rot |-> "x", invert |-> ~i]
  <2>1. "left" \in Arm /\ "right" \in Arm
    BY DEF Arm
  <2>2. CASE l \in robot_arm(s, "left", i, TRUE) \cup robot_arm(s, "right", i, FALSE)
    BY <1>1, <2>1, <2>2
  <2>3. CASE l \notin robot_arm(s, "left", i, TRUE) \cup robot_arm(s, "right", i, FALSE)
    <3>1. /\ table.joint = <<s, "turn_table_joint">>
          /\ body.joint = <<s, "body_joint">>
      OBVIOUS
    <3>2. robot_half(s, i) = {table, body} \cup robot_arm(s, "left", i, TRUE)
                                           \cup robot_arm(s, "right", i, FALSE)
      BY DEF robot_half
    <3> HIDE DEF table, body
    <3>3. l = table \/ l = body
      BY <1>2, <2>3, <3>2
    <3> QED BY <3>1, <3>3 DEF ControllerJoints
  <2> QED BY <2>2, <2>3
<1> QED BY <1>2 DEF get_links, Side

(***************************************************************************)
(* A joint that moves comes closer to its goal, unless it is there.        *)
(***************************************************************************)
LEMMA MovesCloser ==
  ASSUME TypeOK, Move, NEW j \in ControllerJoints
  PROVE  /\ Distance(j)' \in 0..Distance(j)
         /\ Distance(j) > 0 => Distance(j)' < Distance(j)
<1>1. actual[j] \in Int /\ goal[j] \in Int
  BY DEF TypeOK, Angles
<1>2. actual'[j] = Toward(actual[j], goal[j]) /\ goal' = goal
  BY DEF Move
<1>3. Distance(j)' = IF actual'[j] <= goal[j] THEN goal[j] - actual'[j]
                                             ELSE actual'[j] - goal[j]
  BY <1>2 DEF Distance
<1>4. CASE actual[j] < goal[j]
  <2>1. actual'[j] = actual[j] + 1
    BY <1>2, <1>4 DEF Toward
  <2> QED BY <1>1, <1>3, <1>4, <2>1 DEF Distance
<1>5. CASE actual[j] > goal[j]
  <2>1. actual'[j] = actual[j] - 1
    BY <1>1, <1>2, <1>5 DEF Toward
  <2> QED BY <1>1, <1>3, <1>5, <2>1 DEF Distance
<1>6. CASE actual[j] = goal[j]
  <2>1. actual'[j] = actual[j]
    BY <1>1, <1>2, <1>6 DEF Toward
  <2> QED BY <1>1, <1>3, <1>6, <2>1 DEF Distance
<1> QED BY <1>1, <1>4, <1>5, <1>6

LEMMA SettlingStep == ASSUME TypeOK, [Next]_vars PROVE Settling
<1> SUFFICES ASSUME commands' = commands
             PROVE  /\ goal' = goal
                    /\ \A j \in ControllerJoints : Distance(j)' \in 0..Distance(j)
                    /\ Move => \A j \in ControllerJoints :
                                 Distance(j) > 0 => Distance(j)' < Distance(j)
                    /\ UpToDate => UpToDate'
                    /\ UpToDate /\ HandleState => Settled'
                    /\ Settled => Settled'
  BY DEF Settling
<1>1. commands \in Nat
  BY JointModesAssumption DEF TypeOK
<1>2. ASSUME NEW j \in ControllerJoints PROVE Distance(j) \in Nat
  <2>1. actual[j] \in Int /\ goal[j] \in Int
    BY DEF TypeOK, Angles
  <2> QED BY <2>1 DEF Distance
<1>3. CASE Move
  <2>1. actual # goal /\ goal' = goal
    BY <1>3 DEF Move
  <2>2. ~HandleState
    BY <1>3, <2>1 DEF Move, HandleState
  <2> QED BY <1>3, <2>1, MovesCloser DEF UpToDate, Settled
<1>4. ASSUME UNCHANGED <<goal, actual>>
      PROVE  /\ \A j \in ControllerJoints : Distance(j)' \in 0..Distance(j)
             /\ ~Move
  <2>1. \A j \in ControllerJoints : Distance(j)' = Distance(j)
    BY <1>4 DEF Distance
  <2>2. ~Move
    <3> SUFFICES ASSUME Move PROVE FALSE
      OBVIOUS
    <3>1. actual \in Angles /\ goal \in Angles
      BY DEF TypeOK
    <3>2. PICK j \in ControllerJoints : actual[j] # goal[j]
      BY <3>1 DEF Move, Angles
    <3>3. actual[j] \in Int /\ goal[j] \in Int
      BY <3>1 DEF Angles
    <3>4. actual'[j] = Toward(actual[j], goal[j]) /\ actual' = actual
      BY <1>4 DEF Move
    <3> QED BY <3>2, <3>3, <3>4 DEF Toward
  <2> QED BY <1>2, <2>1, <2>2
<1>5. CASE Report
  <2>1. /\ UNCHANGED <<goal, actual, last_angle>> /\ report' = {actual}
    BY <1>5 DEF Report
  <2>2. UpToDate /\ HandleState => FALSE
    BY <2>1 DEF HandleState
  <2> QED BY <1>4, <2>1, <2>2 DEF UpToDate, Settled
<1>6. CASE HandleState
  <2>1. UNCHANGED <<goal, actual>> /\ report' = {}
    BY <1>6 DEF HandleState
  <2>2. PICK r \in report : last_angle' = Heard(last_angle, r)
    BY <1>6 DEF HandleState
  <2>3. DOMAIN r = ControllerJoints
    BY DEF TypeOK, Angles
  <2>4. \A l \in get_links : last_angle'[l] = r[l.joint]
    BY <2>2, <2>3, SameJoints DEF Heard
  <2>5. UpToDate => UpToDate' /\ r = actual
    BY <2>1 DEF UpToDate
  <2>6. UpToDate => Settled'
    BY <2>1, <2>4, <2>5 DEF Settled
  <2> QED BY <1>4, <2>1, <2>5, <2>6 DEF Settled
<1>7. CASE Discover \/ (\E m \in Mode : SwitchMode(m)) \/ UNCHANGED vars
  <2>1. UNCHANGED full
    BY <1>7 DEF Discover, SwitchMode, vars
  <2>2. UNCHANGED <<last_angle, report, goal, actual>>
    BY <2>1 DEF full
  <2>3. UpToDate /\ HandleState => Settled'
    <3> SUFFICES ASSUME HandleState PROVE FALSE
      OBVIOUS
    <3>1. report # {} /\ report' = {}
      BY DEF HandleState
    <3> QED BY <2>2, <3>1
  <2> QED BY <1>4, <2>2, <2>3 DEF UpToDate, Settled
<1>8. ~Counted
  BY <1>1 DEF Counted
<1>9. \A a : ~Posture(a)
  BY <1>8 DEF Posture
<1>10. \A link, pose : ~FullFeedback(link, pose) /\ ~CameraFeedback(link, pose)
  BY <1>8, Zenon DEF FullFeedback, CameraFeedback
<1> QED BY <1>3, <1>5, <1>6, <1>7, <1>9, <1>10 DEF Next, Callbacks

(***************************************************************************)
(* Between two gestures nothing but a gesture changes the goal, every      *)
(* motion brings the joints closer to it, and no state that was sent       *)
(* before the robot stood there is handled after one that was sent there:  *)
(* FULL's angles, once they are the robot's, stay so, however the          *)
(* operator switches modes (trajectoryStateHandler_).                      *)
(***************************************************************************)
THEOREM AnglesSettle == Spec => [][Settling]_vars
<1>1. TypeOK /\ [Next]_vars => [Settling]_vars
  BY SettlingStep
<1> QED BY <1>1, TypeCorrect, PTL DEF Spec
=============================================================================
