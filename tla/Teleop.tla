------------------------------- MODULE Teleop -------------------------------
(***************************************************************************)
(* What the interactive control node promises its operator, without its    *)
(* menu, marker server, publishers and queues: one mode is active at a     *)
(* time, only the active mode commands the robot, and the screen shows the *)
(* controls of one mode or of none, never a mixture of two.                *)
(***************************************************************************)
CONSTANT Mode

VARIABLES
  active,     \* the mode that runs
  commander,  \* the mode that commanded the robot last
  shown       \* the modes whose controls are on the operator's screen

vars == <<active, commander, shown>>

Screens == {{}} \cup {{m} : m \in Mode \ {"NONE"}}

Init == active = "NONE" /\ commander = "NONE" /\ shown = {}

\* Another mode starts; it may command the robot at once.
Switch(m) ==
  /\ active' = m
  /\ commander' \in {commander, m}
  /\ UNCHANGED shown

Act == commander' = active /\ UNCHANGED <<active, shown>>

\* The screen goes blank before it shows the controls of another mode.
Hide == shown' = {} /\ UNCHANGED <<active, commander>>

Show ==
  /\ shown = {}
  /\ shown' \in Screens
  /\ UNCHANGED <<active, commander>>

\* A screen that is drawn afresh shows the mode that is active.
Redraw == shown' = {active} \ {"NONE"} /\ UNCHANGED <<active, commander>>

Next == (\E m \in Mode : Switch(m)) \/ Act \/ Hide \/ Show \/ Redraw

Spec == Init /\ [][Next]_vars
=============================================================================
