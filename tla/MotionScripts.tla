---------------------------- MODULE MotionScripts ----------------------------
(***************************************************************************)
(* The programs that move the robot by one goal each: the scripts of       *)
(* openvmp_motion_control_py and the preset walk of the robot's node.      *)
(*                                                                         *)
(* A script waits for the brakes' services and for the action server of    *)
(* the trajectory controller, sends its goal and ends when the controller  *)
(* has answered: the motion outlives it.  Scripts may run at the same      *)
(* time, while services come up one by one, and the operator may interrupt *)
(* them.                                                                   *)
(*                                                                         *)
(* The services that a script waits for have other names, and another      *)
(* type, than those of the brakes' drivers of this repository: whoever     *)
(* ends its wait is external.  So is the controller                        *)
(* (joint_trajectory_controller of ros2_controllers): it refuses a         *)
(* malformed goal; an accepted one replaces the one it executes.           *)
(***************************************************************************)
EXTENDS Integers, Sequences

CONSTANTS
  Scripts,      \* the scripts that are run, once each
  Brakes,       \* the joints that have a brake
  Driven        \* those for whose brake the hardware manager brings up a driver

ASSUME ScriptsAssumption == Scripts \subseteq {"stand", "stand2", "hug", "walk", "step"}
ASSUME BrakesAssumption ==
  {"rear_right_arm_inner_joint", "rear_right_arm_wheel_joint"} \subseteq Brakes
ASSUME DrivenAssumption == Driven \subseteq Brakes

Programs == Scripts \cup {"preset"}

VARIABLES
  services,     \* the services of brakes that somebody offers
  server,       \* is the action server there?
  pc,           \* where each program is
  goal,         \* what became of the goal of each program
  active        \* the program whose goal the controller executes, or "none"

vars == <<services, server, pc, goal, active>>

-----------------------------------------------------------------------------
(***************************************************************************)
(* The goals.  A point is the time it is to be reached at, in seconds, and *)
(* its posture, named; a point that was not filled in has none.            *)
(***************************************************************************)
Point(t, p) == [time |-> t, posture |-> p]

Postures == {"rest", "lift_left", "turn_left", "lift_right", "turn_right",
             "stand", "stand2", "hug", "preset1", "preset2", "none"}

cycles == 7
Gait == <<"lift_left", "turn_left", "lift_right", "turn_right">>
Cycle == [j \in 1 .. 4 * cycles |-> Point(j + 1, Gait[((j - 1) % 4) + 1])]

WalkWithEarlyEnd ==
  <<Point(1, "rest")>> \o Cycle \o <<Point(4 * cycles + 1, "lift_left"),
                                     Point(4 * cycles + 2, "rest")>>

\* Seven cycles between two rests, one point a second; the last two points
\* come a second later.
Walk ==
  <<Point(1, "rest")>> \o Cycle \o <<Point(2 + 4 * cycles + 1, "lift_left"),
                                     Point(2 + 4 * cycles + 2, "rest")>>

\* The code fills in points[0], points[1] and points[3] of three points.
PresetWalk == <<Point(1, "preset1"), Point(2, "preset2"), Point(0, "none")>>

Stand(p) == <<Point(2, p)>>

Goal(p) == CASE p = "walk"   -> Walk
             [] p = "preset" -> PresetWalk
             [] p = "step"   -> <<>>      \* no joints and no points
             [] OTHER        -> Stand(p)

\* What the controller checks: joints, positions and increasing times.
WellFormed(points) ==
  /\ points # <<>>
  /\ \A i \in DOMAIN points : points[i].posture # "none"
  /\ \A i \in 2 .. Len(points) : points[i - 1].time < points[i].time

-----------------------------------------------------------------------------
(***************************************************************************)
(* The services of a joint's brake.  The scripts ask for                   *)
(* /openvmp/robot_<id>/joint_<joint>_brake/command of package brake; the   *)
(* drivers, real or simulated, offer /brake/<joint>/... of package         *)
(* remote_brake.                                                           *)
(***************************************************************************)
ScriptsService(joint) == [package |-> "brake", joint |-> joint]
DriversService(joint) == [package |-> "remote_brake", joint |-> joint]

(***************************************************************************)
(* brake_clients: the service that the client of each joint is for.  That  *)
(* of the last wheel is created for its inner joint's brake.               *)
(***************************************************************************)
BrakeClient(joint) ==
  ScriptsService(IF joint = "rear_right_arm_wheel_joint"
                 THEN "rear_right_arm_inner_joint" ELSE joint)

Init ==
  /\ services = {} /\ server = FALSE
  /\ pc = [p \in Programs |-> "idle"]
  /\ goal = [p \in Programs |-> "none"]
  /\ active = "none"

\* A program goes from one place to another.
Goes(p, from, to) == pc[p] = from /\ pc' = [pc EXCEPT ![p] = to]

\* ActionClientNode.__init__ up to the brakes.  Without the parameter "unit"
\* it raises.
Start(s) ==
  /\ Goes(s, "idle", "brakes") \/ Goes(s, "idle", "interrupted")
  /\ UNCHANGED <<services, server, goal, active>>

AwaitFirstBrake(s) ==
  /\ Goes(s, "brakes", "server")
  /\ \E joint \in Brakes : BrakeClient(joint) \in services
  /\ UNCHANGED <<services, server, goal, active>>

\* wait_for_service for one client after the other; services stay.
AwaitBrakes(s) ==
  /\ Goes(s, "brakes", "server")
  /\ \A joint \in Brakes : BrakeClient(joint) \in services
  /\ UNCHANGED <<services, server, goal, active>>

\* A request that is sent before the server is there is lost.
SendGoalAtOnce(s) ==
  /\ Goes(s, "server", "answer")
  /\ goal' = [goal EXCEPT ![s] = IF server THEN "sent" ELSE "lost"]
  /\ UNCHANGED <<services, server, active>>

\* wait_for_server and send_goal_async.
SendGoal(s) ==
  /\ Goes(s, "server", "answer")
  /\ server
  /\ goal' = [goal EXCEPT ![s] = "sent"]
  /\ UNCHANGED <<services, server, active>>

\* spin_until_future_complete: the future is the controller's answer, not the
\* result of the motion.
End(s) ==
  /\ Goes(s, "answer", "done")
  /\ goal[s] \notin {"sent", "lost"}
  /\ UNCHANGED <<services, server, goal, active>>

\* Control-C.
Interrupt(s) ==
  /\ \E place \in {"brakes", "server", "answer"} : Goes(s, place, "interrupted")
  /\ UNCHANGED <<services, server, goal, active>>

-----------------------------------------------------------------------------
(***************************************************************************)
(* The robot's node: its constructor sleeps and calls preset_motion_walk.  *)
(* Writing points[3] is undefined: the node crashes, or goes on without    *)
(* the last point.  The client lives no longer than the function, so that  *)
(* the node never hears an answer.                                         *)
(***************************************************************************)
StartPreset ==
  /\ Goes("preset", "idle", "server")
  /\ UNCHANGED <<services, server, goal, active>>

SendPreset ==
  /\ server
  /\ \/ Goes("preset", "server", "crashed") /\ UNCHANGED goal
     \/ Goes("preset", "server", "spinning") /\ goal' = [goal EXCEPT !["preset"] = "sent"]
  /\ UNCHANGED <<services, server, active>>

\* Control-C.  A client cannot be created after the shutdown; a wait that fails
\* is reported, but the function does not return: it writes points[3] and sends
\* its goal to whomever is there.
ShutDownPreset ==
  /\ \/ Goes("preset", "idle", "crashed") /\ UNCHANGED goal
     \/ Goes("preset", "server", "crashed") /\ UNCHANGED goal
     \/ /\ Goes("preset", "server", "interrupted")
        /\ goal' = [goal EXCEPT !["preset"] = IF server THEN "sent" ELSE "lost"]
     \/ Goes("preset", "spinning", "interrupted") /\ UNCHANGED goal
  /\ UNCHANGED <<services, server, active>>

-----------------------------------------------------------------------------
(* The environment.                                                        *)

Offer(service) ==
  /\ service \notin services
  /\ services' = services \cup {service}
  /\ UNCHANGED <<server, pc, goal, active>>

\* The hardware manager, or the simulation, has brought up a brake's driver.
DriverUp(joint) == Offer(DriversService(joint))

\* Somebody else offers what the scripts ask for: nothing in the repository does.
OutsiderUp(joint) == Offer(ScriptsService(joint))

ServerUp ==
  /\ ~server
  /\ server' = TRUE
  /\ UNCHANGED <<services, pc, goal, active>>

Accept(p) ==
  /\ goal[p] = "sent" /\ WellFormed(Goal(p))
  /\ goal' = [q \in Programs |-> CASE q = p      -> "executed"
                                   [] q = active -> "replaced"
                                   [] OTHER      -> goal[q]]
  /\ active' = p
  /\ UNCHANGED <<services, server, pc>>

Reject(p) ==
  /\ goal[p] = "sent" /\ ~WellFormed(Goal(p))
  /\ goal' = [goal EXCEPT ![p] = "rejected"]
  /\ UNCHANGED <<services, server, pc, active>>

Finish ==
  /\ active # "none"
  /\ goal' = [goal EXCEPT ![active] = "finished"]
  /\ active' = "none"
  /\ UNCHANGED <<services, server, pc>>

BringUp ==
  \/ \E joint \in Driven : DriverUp(joint)
  \/ \E joint \in Brakes : OutsiderUp(joint)
  \/ ServerUp
Answer(p) == Accept(p) \/ Reject(p)
Runs(s) == Start(s) \/ AwaitBrakes(s) \/ SendGoal(s) \/ End(s)

Next ==
  \/ \E s \in Scripts : Runs(s) \/ Interrupt(s)
  \/ StartPreset \/ SendPreset \/ ShutDownPreset
  \/ \E p \in Programs : Answer(p)
  \/ BringUp \/ Finish

Spec == Init /\ [][Next]_vars

(***************************************************************************)
(* A script that was started is scheduled; the controller comes up and     *)
(* answers.  Nobody has to offer the services of brakes.                   *)
(***************************************************************************)
FairSpec ==
  /\ Spec
  /\ WF_vars(ServerUp)
  /\ \A s \in Scripts : WF_vars(AwaitBrakes(s) \/ SendGoal(s) \/ End(s))
  /\ \A p \in Programs : WF_vars(Answer(p))

-----------------------------------------------------------------------------
Outcomes == {"none", "sent", "lost", "rejected", "executed", "replaced", "finished"}

(***************************************************************************)
(* The types of the variables.  No script's goal is lost: it is only sent  *)
(* once the server was seen.  The controller executes the goal that is     *)
(* "executed".                                                             *)
(***************************************************************************)
TypeOK ==
  /\ services \subseteq [package : {"brake", "remote_brake"}, joint : Brakes]
  /\ server \in BOOLEAN
  /\ pc \in [Programs -> {"idle", "brakes", "server", "answer", "done", "interrupted",
                          "spinning", "crashed"}]
  /\ goal \in [Programs -> Outcomes] /\ \A s \in Scripts : goal[s] # "lost"
  /\ active \in Programs \cup {"none"}
  /\ \A p \in Programs : goal[p] = "executed" <=> active = p

(***************************************************************************)
(* A script that ended by itself has handed over its motion: the           *)
(* controller has accepted the goal and executes or has executed it, or    *)
(* another program's came later.  ("step" has no goal to speak of.)        *)
(***************************************************************************)
MotionHandedOver ==
  \A s \in Scripts \ {"step"} :
     pc[s] = "done" => goal[s] \in {"executed", "replaced", "finished"}

(***************************************************************************)
(* A script hangs nowhere but in its wait for the brakes: once somebody    *)
(* offers what it asks for there, it ends or is interrupted, whatever      *)
(* other programs do to its goal in the meantime.  (In the repository      *)
(* nobody offers that: without an outsider the wait has no end.)           *)
(***************************************************************************)
ScriptsEnd ==
  \A s \in Scripts :
     (pc[s] = "brakes" /\ \A joint \in Brakes : BrakeClient(joint) \in services)
        ~> (pc[s] \in {"done", "interrupted"})

(***************************************************************************)
(* While services come up one after the other, those of drivers among      *)
(* them, no script moves the robot before every brake that it waits for is *)
(* offered by the name it waits for, all but the one that the code         *)
(* forgets.                                                                *)
(***************************************************************************)
BrakesAwaited ==
  \A s \in Scripts : goal[s] # "none" =>
     \A joint \in Brakes \ {"rear_right_arm_wheel_joint"} : ScriptsService(joint) \in services

(***************************************************************************)
(* `for joint in self.brake_clients: wait_for_service()`: nothing moves    *)
(* by a script before the service of every brake is there.  (The code      *)
(* breaks it: nobody waits for the brake of the last wheel.)               *)
(***************************************************************************)
EveryBrakeAwaited ==
  \A s \in Scripts : goal[s] = "executed" =>
     \A joint \in Brakes : ScriptsService(joint) \in services
=============================================================================
