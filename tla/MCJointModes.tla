----------------------------- MODULE MCJointModes -----------------------------
(***************************************************************************)
(* Constants for TLC: two links of one arm, which turn in opposite         *)
(* directions, and two camera modes.                                       *)
(***************************************************************************)
EXTENDS JointModes

BodyAndArm == {l \in get_links : l.link \in {<<"rear", "body_link">>,
                                             <<"front", "left", "arm_lower_part">>}}
TwoCameras == {"CAMERAS_FRONT_LEFT", "CAMERAS_REAR_RIGHT"}
Upright == {0, 2}
=============================================================================
