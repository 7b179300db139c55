------------------------------ MODULE JointModes ------------------------------
(***************************************************************************)
(* The modes of openvmp_control_interactive in which a gesture turns one   *)
(* joint: FULL, for the joints of the trajectory controller, and the four  *)
(* camera modes, for the servos of the position controller.                *)
(*                                                                         *)
(* Both controllers take commands for all of their joints at once, so      *)
(* these modes keep an angle of every joint.  FULL keeps it in the global  *)
(* links and overwrites it with the state of the controller, which comes   *)
(* late: throttled to one message a second, through a queue of depth one,  *)
(* and in the middle of motions.  The camera modes share a static map that *)
(* nothing else writes.  InteractiveControl models how modes are switched  *)
(* and how gestures reach them; here that is one step.                     *)
(***************************************************************************)
EXTENDS Integers, Sequences, FiniteSetsExt, Functions

CONSTANTS
  Draggable,   \* bound: the links of FULL that the operator drags
  CameraMode,  \* bound: the camera modes that the operator enters
  MaxCommands, \* bound: gestures and postures together
  Standing     \* angles of the other modes' postures, the same for all joints

ASSUME JointModesAssumption ==
  MaxCommands \in Nat /\ Standing \in SUBSET Int /\ Standing # {}

VARIABLES
  mode,        \* the running mode; OTHER is any whole-body mode but FULL
  matched,     \* has its controller discovered the publisher of its family?
  last_angle,  \* Link::last_angle of the links
  report,      \* the controller's state waiting in FULL's subscription, if any
  goal,        \* the trajectory controller's goal
  actual,      \* where the joints are
  camera,      \* CamerasMode::joints_state_
  servo,       \* the command that the position controller carries out
  commands,    \* number of gestures and postures so far
  reach,       \* history: for each joint, what postures and gestures add up to
  aimed        \* history: the sum of the gestures on each camera link

full == <<last_angle, report, goal, actual, reach>>
cameras == <<camera, servo, aimed>>
vars == <<mode, matched, full, cameras, commands>>

-----------------------------------------------------------------------------
(***************************************************************************)
(* The links, with the axis and the direction in which a marker's          *)
(* orientation turns their joint.                                          *)
(***************************************************************************)
robot_arm(side, arm, half_invert, side_invert) ==
  {[link |-> <<side, arm, "arm_lower_part">>, joint |-> <<side, arm, "arm_joint">>,
    axis_vis |-> "Z", axis_rot |-> "y", invert |-> half_invert],
   [link |-> <<side, arm, "arm_upper_part">>, joint |-> <<side, arm, "arm_inner_joint">>,
    axis_vis |-> "X", axis_rot |-> "x", invert |-> side_invert]}

robot_half(side, invert) ==
  {[link |-> <<side, "turn_table_link">>, joint |-> <<side, "turn_table_joint">>,
    axis_vis |-> "Y", axis_rot |-> "z", invert |-> TRUE],
   [link |-> <<side, "body_link">>, joint |-> <<side, "body_joint">>,
    axis_vis |-> "X", axis_rot |-> "x", invert |-> ~invert]}
  \cup robot_arm(side, "left", invert, TRUE)
  \cup robot_arm(side, "right", invert, FALSE)

get_links == robot_half("front", TRUE) \cup robot_half("rear", FALSE)

LinkJoints == {l.joint : l \in get_links}

(***************************************************************************)
(* The joints of trajectory_controller in ros2_controllers.yaml.  It       *)
(* refuses a goal that leaves one out (allow_partial_joints_goal).         *)
(***************************************************************************)
Side == {"front", "rear"}
Arm == {"left", "right"}

ControllerJoints ==
  {<<s, p>> : s \in Side, p \in {"turn_table_joint", "body_joint"}}
  \cup {<<s, a, p>> : s \in Side, a \in Arm, p \in {"arm_joint", "arm_inner_joint"}}

Joint == LinkJoints \cup ControllerJoints

ASSUME DraggableAssumption == Draggable \subseteq get_links

(***************************************************************************)
(* CamerasMode::joints_, the links that its message is about, in order.    *)
(***************************************************************************)
\* As the map joints_state_ would be iterated.
CameraLinksSorted(side, arm) == <<<<side, arm, "camera">>, <<side, arm, "servo_upper_link">>>>

CameraLinks(side, arm) == <<<<side, arm, "servo_upper_link">>, <<side, arm, "camera">>>>

joints_ == CameraLinks("front", "left") \o CameraLinks("front", "right")
           \o CameraLinks("rear", "left") \o CameraLinks("rear", "right")

\* The joints of position_controller in ros2_controllers.yaml, in order.
Servos(side, arm) == <<<<side, arm, "servo_lower_joint">>, <<side, arm, "servo_upper_joint">>>>

ServoJoints == Servos("front", "left") \o Servos("front", "right")
               \o Servos("rear", "left") \o Servos("rear", "right")

\* The link that a servo turns, in openvmp_robot_don1.urdf.
ChildLink(j) == <<j[1], j[2], IF j[3] = "servo_lower_joint" THEN "servo_upper_link"
                                                            ELSE "camera">>

CameraLink == Range(joints_)

PREFIXES == [CAMERAS_FRONT_LEFT |-> <<"front", "left">>,
             CAMERAS_FRONT_RIGHT |-> <<"front", "right">>,
             CAMERAS_REAR_LEFT |-> <<"rear", "left">>,
             CAMERAS_REAR_RIGHT |-> <<"rear", "right">>]

\* The links whose markers a camera mode shows.
LinksOf(m) == {l \in CameraLink : <<l[1], l[2]>> = PREFIXES[m]}

ASSUME CameraModeAssumption == CameraMode \subseteq DOMAIN PREFIXES

Mode == {"NONE", "FULL", "OTHER"} \cup CameraMode
Control(m) == CASE m \in CameraMode -> "POSITION"
                [] m \in {"FULL", "OTHER"} -> "TRAJ_VEL"
                [] OTHER -> "CONTROL_NONE"

-----------------------------------------------------------------------------
(***************************************************************************)
(* The node has just started: its angles are 0 whatever posture the robot  *)
(* stands in.  The cameras are where a new position controller puts them.  *)
(***************************************************************************)
Init ==
  /\ mode = "NONE" /\ matched = FALSE /\ commands = 0
  /\ last_angle = [l \in get_links |-> 0]
  /\ report = {}
  /\ \E a \in Standing :
       /\ actual = [j \in ControllerJoints |-> a]
       /\ reach = [j \in Joint |-> [low |-> Min({0, a}), high |-> Max({0, a})]]
  /\ goal = actual
  /\ camera = [l \in CameraLink |-> 0]
  /\ servo = [i \in DOMAIN ServoJoints |-> 0]
  /\ aimed = camera

Counted == commands < MaxCommands /\ commands' = commands + 1

\* trajectory_commands_->publish(): the controller takes a complete goal, if
\* it is there yet to hear it.
Command(positions) ==
  goal' = IF matched' /\ DOMAIN positions = ControllerJoints THEN positions ELSE goal

-----------------------------------------------------------------------------
(* The controllers and the throttle (external).                            *)

Discover ==
  /\ mode # "NONE" /\ ~matched
  /\ matched' = TRUE
  /\ UNCHANGED <<mode, full, cameras, commands>>

\* The joints come closer to their goal together.
Toward(a, g) == IF a < g THEN a + 1 ELSE IF a > g THEN a - 1 ELSE a

Move ==
  /\ actual # goal
  /\ actual' = [j \in ControllerJoints |-> Toward(actual[j], goal[j])]
  /\ UNCHANGED <<mode, matched, last_angle, report, goal, reach, cameras, commands>>

\* A message passes the throttle; the subscription keeps the last one.
ReportKept ==
  /\ report' = report \cup {actual}
  /\ UNCHANGED <<mode, matched, last_angle, goal, actual, reach, cameras, commands>>

Report ==
  /\ report' = {actual}
  /\ UNCHANGED <<mode, matched, last_angle, goal, actual, reach, cameras, commands>>

-----------------------------------------------------------------------------
(* The node's callbacks.                                                   *)

HeardOnce(angle, positions) ==
  [l \in get_links |-> IF angle[l] = 0 THEN positions[l.joint] ELSE angle[l]]

HeardAdded(angle, positions) ==
  [l \in get_links |-> angle[l] + positions[l.joint]]

\* The links whose joint the message names take its position.
Heard(angle, positions) ==
  [l \in get_links |->
     IF l.joint \in DOMAIN positions THEN positions[l.joint] ELSE angle[l]]

\* FullMode::trajectoryStateHandler_, in whatever mode: the subscription is
\* the constructor's.  No other thread holds state_lock_.
HandleState ==
  /\ \E positions \in report : last_angle' = Heard(last_angle, positions)
  /\ report' = {}
  /\ UNCHANGED <<mode, matched, goal, actual, reach, cameras, commands>>

\* A mode of another family makes a new publisher.
Enter(m) ==
  /\ mode' = m
  /\ matched' = (matched /\ Control(m) = Control(mode))

SwitchMode(m) ==
  /\ m \notin {mode, "OTHER"}
  /\ Enter(m)
  /\ UNCHANGED <<full, cameras, commands>>

\* One of the other whole-body modes sends a posture: its first one when it
\* is entered, or one after a gesture.
Posture(a) ==
  /\ Enter("OTHER")
  /\ Counted
  /\ Command([j \in ControllerJoints |-> a])
  /\ reach' = [j \in Joint |-> [low |-> Min({reach[j].low, a}),
                                high |-> Max({reach[j].high, a})]]
  /\ UNCHANGED <<last_angle, report, actual, cameras>>

\* Rotating a marker gives a pose that turns around the axis of its control:
\* the x axis turned by the control's own orientation (external: RViz).
Around == [X |-> "x", Y |-> "z", Z |-> "y"]
Poses(axis_vis) ==
  {[axis \in {"x", "y", "z"} |-> IF axis = Around[axis_vis] THEN d ELSE 0] : d \in {-1, 1}}

Turn(link, pose) == IF link.invert THEN -pose[link.axis_rot] ELSE pose[link.axis_rot]

Turned(angle, link, pose) == [angle EXCEPT ![link] = @ + Turn(link, pose)]

\* FullMode::processFeedback_ on MOUSE_UP.
FullFeedback(link, pose) ==
  /\ mode = "FULL"
  /\ Counted
  /\ UNCHANGED <<mode, matched, report, actual, cameras>>
  /\ last_angle' = Turned(last_angle, link, pose)
  /\ Command([j \in LinkJoints |->
               last_angle'[CHOOSE l \in get_links : l.joint = j]])
  /\ reach' = [reach EXCEPT ![link.joint] =
                [low |-> @.low + Min({0, Turn(link, pose)}),
                 high |-> @.high + Max({0, Turn(link, pose)})]]

\* The axis of the marker of a camera link (CamerasMode::enter).
CameraAxis(link) == IF link[3] = "servo_upper_link" THEN "Y" ELSE "X"

\* CamerasMode::processFeedback_ on MOUSE_UP.
CameraFeedback(link, pose) ==
  /\ mode \in CameraMode
  /\ link \in LinksOf(mode)
  /\ Counted
  /\ camera' = [camera EXCEPT ![link] = @ + pose["x"] + pose["z"]]
  /\ LET data == [i \in DOMAIN joints_ |-> camera'[joints_[i]]]
     IN servo' = IF matched /\ Len(data) = Len(ServoJoints) THEN data ELSE servo
  /\ aimed' = [aimed EXCEPT ![link] = @ + pose[Around[CameraAxis(link)]]]
  /\ UNCHANGED <<mode, matched, full>>

-----------------------------------------------------------------------------
Callbacks ==
  \/ HandleState
  \/ \E m \in Mode : SwitchMode(m)
  \/ \E a \in Standing : Posture(a)
  \/ \E link \in Draggable : \E pose \in Poses(link.axis_vis) : FullFeedback(link, pose)
  \/ \E link \in CameraLink : \E pose \in Poses(CameraAxis(link)) : CameraFeedback(link, pose)

Next == Callbacks \/ Discover \/ Move \/ Report

(***************************************************************************)
(* The robot reaches its goal, the controller's state keeps coming, and    *)
(* the executor handles it.  Nothing is assumed about the operator or      *)
(* discovery.                                                              *)
(***************************************************************************)
Spec == Init /\ [][Next]_vars
        /\ WF_vars(Move) /\ WF_vars(Report) /\ WF_vars(HandleState)
-----------------------------------------------------------------------------
Angles == [ControllerJoints -> Int]

(***************************************************************************)
(* The types of the variables: of Link::last_angle, joints_state_ and the  *)
(* messages to and from the controllers, of which at most one waits.       *)
(***************************************************************************)
TypeOK ==
  /\ mode \in Mode /\ matched \in BOOLEAN
  /\ last_angle \in [get_links -> Int]
  /\ report \in SUBSET Angles
  /\ \A r, s \in report : r = s
  /\ goal \in Angles /\ actual \in Angles
  /\ camera \in [CameraLink -> Int] /\ aimed \in [CameraLink -> Int]
  /\ servo \in [DOMAIN ServoJoints -> Int]
  /\ commands \in 0..MaxCommands
  /\ reach \in [Joint -> [low : Int, high : Int]]

Within(a, r) == r.low <= a /\ a <= r.high

(***************************************************************************)
(* However late and in whatever order the controller's states overwrite    *)
(* last_angle between gestures (trajectoryStateHandler_), no gesture       *)
(* counts twice: a joint is never sent, and never goes, further than the   *)
(* postures and the gestures on its own link add up to.                    *)
(***************************************************************************)
NeverOvershoots ==
  /\ \A l \in get_links : Within(last_angle[l], reach[l.joint])
  /\ \A j \in ControllerJoints :
       /\ Within(goal[j], reach[j]) /\ Within(actual[j], reach[j])
       /\ \A r \in report : Within(r[j], reach[j])

(***************************************************************************)
(* FULL's angles catch up with the robot: once the gestures are over, they *)
(* are where the robot stands, and it stands at its goal.  (A gesture made *)
(* earlier may undo another one on a joint still in motion.)               *)
(***************************************************************************)
AnglesCatchUp ==
  <>[](/\ goal = actual
       /\ \A l \in get_links : last_angle[l] = actual[l.joint])

(***************************************************************************)
(* The servos stand where the gestures on their own camera links add up    *)
(* to, in whichever camera mode they were made: a command of one camera    *)
(* leaves the others in place (joints_state_ is shared), and joints_ lists *)
(* the links in the order of the controller's servos.                      *)
(***************************************************************************)
CamerasKeepTheirPlace ==
  [][servo' # servo =>
       \A i \in DOMAIN ServoJoints : servo'[i] = aimed'[ChildLink(ServoJoints[i])]]_vars
=============================================================================
