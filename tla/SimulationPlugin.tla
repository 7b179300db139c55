-------------------------- MODULE SimulationPlugin --------------------------
(***************************************************************************)
(* The Gazebo plugin of package openvmp_hardware_simulation_gazebo with    *)
(* one joint of its model.  Gazebo's thread loads the plugin, which        *)
(* creates a node, reads the hardware configuration, constructs the        *)
(* joint's devices one by one, asks the robot's robot_state_publisher for  *)
(* the URDF and connects the controller manager to the updates of the      *)
(* world, and later destroys it all.  Each of these can fail, with an      *)
(* exception that is caught here, in Load, or by Gazebo.                   *)
(* Meanwhile the plugin's spinner thread runs the callbacks of the devices *)
(* that exist already: velocity commands for the actuator, commands for    *)
(* the brake and readings of the encoder; and it is the spinner that hands *)
(* Load the answer it waits for.  (It calls spin_once in a loop, so        *)
(* callbacks run one at a time, multi-threaded executor or not.)           *)
(*                                                                         *)
(* Joint::updateFriction runs on either thread, without a lock.  The       *)
(* reads of a device pointer that is being set are data races whose        *)
(* outcomes are those of reading before or after.                          *)
(***************************************************************************)
EXTENDS Naturals, Sequences

Devices == {"brake", "actuator", "encoder"}
Descriptions == {"absent", "empty", "invalid", "unnamed", "valid"}
Configurations == {"missing", "malformed", "without joint", "complete"}
Threads == {"gazebo", "spinner"}

VARIABLES
  config,       \* the plugin's hardware_configuration: "missing", "malformed"
                \* (cannot be read), about a joint that the model does not
                \* have, or "complete"
  braked,       \* does the joint's configuration have a brake?
  urdf,         \* robot_state_publisher: "absent", or with a robot_description
                \* that is "empty", "invalid" (cannot be parsed), "unnamed" (a
                \* component has no namespace) or "valid"
  ok,           \* rclcpp::ok()
  gazebo,       \* Gazebo's thread: Load at "start" and "configure", the joint
                \* at "load" and "friction", Control at "control", "service",
                \* "request", "response", then "running", and the destructor
                \* at "clear", "cancel", "join", "gone"
  spinner,      \* spin_(): "none" before it starts, "check", "wait", a
                \* callback, or "exited"; both threads are "crashed" when one
                \* has used a null pointer, and "threw" when an exception was
                \* not caught
  reply,        \* the future in get_urdf_: "none", "pending" or what it holds
  connected,    \* is update_ connected to the updates of the world?
  stop,         \* do_stop_
  woken,        \* the executor's interrupt guard condition
  lives,        \* is there a Joint that the devices' weak pointers lead to?
  made,         \* devices whose pointer in Joint is set
  served,       \* devices whose node was added to the executor
  initialized,  \* Joint::initialized_
  engaged,      \* the brake's engaged_
  running,      \* is the actuator's mode_ RUNNING (or DETENT)?
  target,       \* the argument of the velocity command under way: moving or not
  moving,       \* is the "vel" parameter of Gazebo's joint other than zero?
  placed,       \* has SetPosition put Gazebo's joint somewhere?
  friction,     \* the "friction" parameter of Gazebo's joint
  update,       \* where each thread is in updateFriction
  part          \* the friction each thread has added up there

devices == <<config, braked, lives, made, served>>
state == <<engaged, running, target, moving, placed>>
frictions == <<friction, update, part>>
control == <<urdf, ok, reply, connected>>
vars == <<gazebo, spinner, stop, woken, devices, initialized, state, frictions, control>>

-----------------------------------------------------------------------------
(***************************************************************************)
(* A friction is told by what went into it: which torque of each device,   *)
(* "none" when the device was not there.  The gearbox scales it by a       *)
(* constant.                                                               *)
(***************************************************************************)
NoFriction == [brake |-> "none", actuator |-> "none"]

\* Brake::get_friction and Actuator::get_friction; mode_ is never STALLING.
BrakeFriction == IF engaged THEN "engaged" ELSE "released"
ActuatorFriction == IF running THEN "torque" ELSE "detent"

Combined == [brake |-> IF braked THEN BrakeFriction ELSE "none",
             actuator |-> ActuatorFriction]

Configured == Devices \ (IF braked THEN {} ELSE {"brake"})

BrakeAlways == CASE "brake" \notin made    -> "brake"
                 [] "actuator" \in made -> "encoder"
                 [] OTHER               -> "actuator"

NextDevice == CASE "brake" \in Configured \ made -> "brake"
                [] "actuator" \in made           -> "encoder"
                [] OTHER                         -> "actuator"

-----------------------------------------------------------------------------
Init ==
  /\ config \in Configurations /\ braked \in BOOLEAN
  /\ gazebo = "start"
  /\ urdf \in Descriptions /\ ok = TRUE
  /\ reply = "none" /\ connected = FALSE
  /\ lives = FALSE
  /\ spinner = "none" /\ stop = FALSE /\ woken = FALSE
  /\ made = {} /\ served = {}
  /\ initialized = FALSE
  /\ engaged \in BOOLEAN     \* engagedByDefault
  /\ running = FALSE /\ target = FALSE
  /\ moving = FALSE /\ placed = FALSE
  /\ friction = NoFriction
  /\ update = [t \in Threads |-> "idle"]
  /\ part = [t \in Threads |-> NoFriction]

-----------------------------------------------------------------------------
(* Joint::updateFriction, step by step, on thread t.                       *)

ReadBrake(t) ==
  /\ update[t] = "brake"
  /\ part' = [part EXCEPT ![t].brake = IF "brake" \in made THEN BrakeFriction ELSE "none"]
  /\ update' = [update EXCEPT ![t] = "actuator"]
  /\ UNCHANGED friction

ReadActuator(t) ==
  /\ update[t] = "actuator"
  /\ part' = [part EXCEPT ![t].actuator =
                IF "actuator" \in made THEN ActuatorFriction ELSE "none"]
  /\ update' = [update EXCEPT ![t] = "set"]
  /\ UNCHANGED friction

SetFriction(t) ==
  /\ update[t] = "set"
  /\ friction' = part[t]
  /\ update' = [update EXCEPT ![t] = "idle"]
  /\ UNCHANGED part

Within(t) == IF t = "gazebo" THEN gazebo = "friction" ELSE spinner = "brake"

UpdateFriction(t) ==
  /\ Within(t)
  /\ ReadBrake(t) \/ ReadActuator(t) \/ SetFriction(t)
  /\ UNCHANGED <<gazebo, spinner, stop, woken, devices, initialized, state, control>>

-----------------------------------------------------------------------------
(* Gazebo's thread: the beginning of Load.                                 *)

\* A member function is called on a null pointer.
Crash == gazebo' = "crashed" /\ spinner' = "crashed"

\* rclcpp refuses to make the node, say for its namespace: Load catches the
\* exception, and goes on to use node_.
Start ==
  /\ gazebo = "start"
  /\ \/ gazebo' = "configure" /\ spinner' = "check"
     \/ Crash
  /\ UNCHANGED <<stop, woken, devices, initialized, state, frictions, control>>

\* Without hardware_configuration Load returns; one that cannot be parsed
\* leaves configuration_ null, which is used next.
ReadConfiguration ==
  /\ gazebo = "configure"
  /\ \/ config = "missing" /\ gazebo' = "running" /\ UNCHANGED spinner
     \/ config = "malformed" /\ Crash
     \/ config = "without joint" /\ gazebo' = "control" /\ UNCHANGED spinner
     \/ config = "complete" /\ gazebo' = "load" /\ UNCHANGED spinner
  /\ lives' = (config = "complete")
  /\ UNCHANGED <<stop, woken, config, braked, made, served, initialized, state, frictions, control>>

-----------------------------------------------------------------------------
(* Gazebo's thread: Joint::init and the destructor.                        *)

MakeDevice ==
  /\ gazebo = "load" /\ ok /\ made = served /\ made # Configured
  /\ made' = made \cup {NextDevice}
  /\ UNCHANGED <<gazebo, spinner, stop, woken, config, braked, lives, served, initialized, state,
                 frictions, control>>

\* The constructor of a device throws: Load drops the joint, and keeps the
\* nodes of the devices before.
FailDevice ==
  /\ gazebo = "load" /\ made = served /\ made # Configured
  /\ gazebo' = "control"
  /\ lives' = FALSE
  /\ UNCHANGED <<spinner, stop, woken, config, braked, made, served, initialized, state, frictions,
                 control>>

ServeDevice ==
  /\ gazebo = "load" /\ made # served
  /\ served' = made
  /\ UNCHANGED <<gazebo, spinner, stop, woken, config, braked, lives, made, initialized, state,
                 frictions, control>>

FinishInit ==
  /\ gazebo = "load" /\ served = Configured
  /\ gazebo' = "friction"
  /\ initialized' = TRUE
  /\ update' = [update EXCEPT !["gazebo"] = "brake"]
  /\ UNCHANGED <<spinner, stop, woken, devices, state, friction, part, control>>

\* joints_.insert.
Loaded ==
  /\ gazebo = "friction" /\ update["gazebo"] = "idle"
  /\ gazebo' = "control"
  /\ UNCHANGED <<spinner, stop, woken, devices, initialized, state, frictions, control>>

UnloadSilently ==
  /\ gazebo = "running"
  /\ gazebo' = "clear"
  /\ UNCHANGED <<spinner, stop, woken, devices, initialized, state, frictions, control>>

\* The destructor: do_stop_ = true.
Unload ==
  /\ gazebo = "running"
  /\ gazebo' = "clear"
  /\ stop' = TRUE
  /\ UNCHANGED <<spinner, woken, devices, initialized, state, frictions, control>>

\* joints_.clear(): the devices' weak pointers expire, their nodes live on.
\* control_.reset() disconnects from the world.
Clear ==
  /\ gazebo = "clear"
  /\ gazebo' = "cancel"
  /\ lives' = FALSE
  /\ connected' = FALSE
  /\ UNCHANGED <<spinner, stop, woken, config, braked, made, served, initialized, state, frictions,
                 urdf, ok, reply>>

\* exec_->cancel() wakes the spinner, now or when it next waits.
Cancel ==
  /\ gazebo = "cancel"
  /\ gazebo' = "join"
  /\ woken' = TRUE
  /\ UNCHANGED <<spinner, stop, devices, initialized, state, frictions, control>>

NoJoin ==
  /\ gazebo = "join"
  /\ gazebo' = "gone"
  /\ UNCHANGED <<spinner, stop, woken, devices, initialized, state, frictions, control>>

Join ==
  /\ gazebo = "join" /\ spinner = "exited"
  /\ gazebo' = "gone"
  /\ UNCHANGED <<spinner, stop, woken, devices, initialized, state, frictions, control>>

Load == Start \/ ReadConfiguration
        \/ MakeDevice \/ FailDevice \/ ServeDevice \/ FinishInit \/ UpdateFriction("gazebo") \/ Loaded
Destroy == Clear \/ Cancel \/ Join

-----------------------------------------------------------------------------
(***************************************************************************)
(* Gazebo's thread: Control.  get_urdf_ waits for robot_state_publisher    *)
(* and asks until the description is not empty.  A runtime_error up to     *)
(* the parsing of the URDF leaves the plugin inactive.  Any other          *)
(* exception leaves Load: Gazebo catches it and destroys the plugin.       *)
(***************************************************************************)
Alive == <<woken, devices, initialized, state, frictions, urdf, ok>>

\* The destructor's do_stop_ = true, in a Load that has failed.
Refuse == gazebo' = "clear" /\ stop' = TRUE

\* A client cannot be created after a shutdown (a runtime_error).
CreateClient ==
  /\ gazebo = "control"
  /\ gazebo' = IF ok THEN "service" ELSE "running"
  /\ UNCHANGED <<spinner, stop, Alive, reply, connected>>

\* After a shutdown `return 0` makes a std::string of a null pointer, which
\* is a logic_error.
AwaitService ==
  /\ gazebo = "service"
  /\ \/ ok /\ urdf # "absent" /\ gazebo' = "request" /\ UNCHANGED stop
     \/ ~ok /\ Refuse
  /\ UNCHANGED <<spinner, Alive, reply, connected>>

RequestUrdf ==
  /\ gazebo = "request"
  /\ gazebo' = "response" /\ reply' = "pending"
  /\ UNCHANGED <<spinner, stop, Alive, connected>>

\* f.wait() has no timeout and does not look at rclcpp::ok().
AwaitResponse ==
  /\ gazebo = "response" /\ reply # "pending"
  /\ reply' = "none"
  /\ \/ /\ reply = "empty"
        /\ gazebo' = "request"
        /\ UNCHANGED <<stop, connected>>
     \/ /\ reply = "invalid"
        /\ gazebo' = "running"
        /\ UNCHANGED <<stop, connected>>
     \/ /\ reply \in {"unnamed", "valid"}   \* .at("namespace"), or the loader, throws
        /\ Refuse
        /\ UNCHANGED connected
     \/ /\ reply = "valid"
        /\ gazebo' = "running"
        /\ connected' \in BOOLEAN           \* FALSE without an update_rate
        /\ UNCHANGED stop
  /\ UNCHANGED <<spinner, Alive>>

(***************************************************************************)
(* Control::update_, if the world runs.  The constructor has set           *)
(* last_update_sim_time_ros_ to rclcpp::Time(), a time of the system's     *)
(* clock; its difference to a simulated time throws, which ends Gazebo.    *)
(***************************************************************************)
WorldUpdate ==
  /\ gazebo = "running" /\ connected
  /\ gazebo' = "threw" /\ spinner' = "threw"
  /\ UNCHANGED <<stop, Alive, reply, connected>>

(***************************************************************************)
(* The environment: robot_state_publisher starts, and is given its URDF.   *)
(* A shutdown of rclcpp wakes the spinner.  Load begins by undoing one     *)
(* that came before it.                                                    *)
(***************************************************************************)
Describe ==
  /\ urdf \in {"absent", "empty"}
  /\ urdf' \in Descriptions \ {"absent"}
  /\ UNCHANGED <<gazebo, spinner, stop, woken, devices, initialized, state, frictions,
                 ok, reply, connected>>

Shutdown ==
  /\ ok /\ gazebo \notin {"start", "crashed", "threw"}
  /\ ok' = FALSE /\ woken' = TRUE
  /\ UNCHANGED <<gazebo, spinner, stop, devices, initialized, state, frictions,
                 urdf, reply, connected>>

-----------------------------------------------------------------------------
(* The spinner thread: spin_() and the callbacks.                          *)

CheckStop ==
  /\ spinner = "check"
  /\ spinner' = IF ok /\ ~stop THEN "wait" ELSE "exited"
  /\ UNCHANGED <<gazebo, stop, woken, devices, initialized, state, frictions, control>>

WakeUp ==
  /\ spinner = "wait" /\ woken
  /\ spinner' = "check" /\ woken' = FALSE
  /\ UNCHANGED <<gazebo, stop, devices, initialized, state, frictions, control>>

Callback(device) == spinner = "wait" /\ device \in served

ReadEncoder ==
  /\ Callback("encoder")
  /\ spinner' = "check"
  /\ UNCHANGED <<gazebo, stop, woken, devices, initialized, state, frictions, control>>

SetVelocityUnchecked(nonzero) ==
  /\ Callback("actuator")
  /\ running' = nonzero
  /\ target' = nonzero
  /\ IF lives THEN spinner' = "engage" /\ UNCHANGED gazebo ELSE Crash
  /\ UNCHANGED <<stop, woken, devices, initialized, engaged, moving, placed, frictions, control>>

\* Actuator::velocity_set_real_ up to Joint::setVelocity's check of
\* initialized_: without it the command has no further effect.
SetVelocity(nonzero) ==
  /\ Callback("actuator")
  /\ running' = nonzero
  /\ target' = nonzero
  /\ IF lives
     THEN spinner' = (IF initialized THEN "engage" ELSE "check") /\ UNCHANGED gazebo
     ELSE Crash
  /\ UNCHANGED <<stop, woken, devices, initialized, engaged, moving, placed, frictions, control>>

\* Actuator::position_set_real_, with Joint::setPosition.
SetPosition ==
  /\ Callback("actuator")
  /\ IF lives THEN spinner' = "check" /\ UNCHANGED gazebo ELSE Crash
  /\ placed' = (placed \/ (lives /\ initialized))
  /\ UNCHANGED <<stop, woken, devices, initialized, engaged, running, target, moving, frictions,
                 control>>

EngageInverted ==
  /\ spinner = "engage"
  /\ engaged' = IF braked THEN target ELSE engaged
  /\ spinner' = "drive"
  /\ UNCHANGED <<gazebo, stop, woken, devices, initialized, running, target, moving, placed, frictions, control>>

\* brake_->device->set_engaged(velocity is zero).
Engage ==
  /\ spinner = "engage"
  /\ engaged' = IF braked THEN ~target ELSE engaged
  /\ spinner' = "drive"
  /\ UNCHANGED <<gazebo, stop, woken, devices, initialized, running, target, moving, placed, frictions, control>>

\* joint_->SetParam("vel", ...).
Drive ==
  /\ spinner = "drive"
  /\ moving' = target
  /\ spinner' = "check"
  /\ UNCHANGED <<gazebo, stop, woken, devices, initialized, engaged, running, target, placed, frictions, control>>

\* remote_brake sets engaged_, then Brake::command_handler_real_.
BrakeCommand(engage) ==
  /\ Callback("brake")
  /\ engaged' = engage
  /\ IF lives
     THEN /\ spinner' = "brake" /\ UNCHANGED gazebo
          /\ update' = [update EXCEPT !["spinner"] = "brake"]
     ELSE Crash /\ UNCHANGED update
  /\ UNCHANGED <<stop, woken, devices, initialized, running, target, moving, placed,
                 friction, part, control>>

BrakeDone ==
  /\ spinner = "brake" /\ update["spinner"] = "idle"
  /\ spinner' = "check"
  /\ UNCHANGED <<gazebo, stop, woken, devices, initialized, state, frictions, control>>

ResponseAfterLoad ==
  /\ spinner = "wait" /\ reply = "pending" /\ gazebo = "running"
  /\ reply' = urdf
  /\ spinner' = "check"
  /\ UNCHANGED <<gazebo, stop, Alive, connected>>

\* The parameters client of node_ gets what robot_state_publisher answers.
Response ==
  /\ spinner = "wait" /\ reply = "pending"
  /\ reply' = urdf
  /\ spinner' = "check"
  /\ UNCHANGED <<gazebo, stop, Alive, connected>>

Command ==
  \/ ReadEncoder \/ SetPosition
  \/ \E b \in BOOLEAN : SetVelocity(b) \/ BrakeCommand(b)

Spinner == CheckStop \/ WakeUp \/ Engage \/ Drive \/ UpdateFriction("spinner") \/ BrakeDone

-----------------------------------------------------------------------------
Connect == CreateClient \/ AwaitService \/ RequestUrdf \/ AwaitResponse

Next == \/ Load \/ Connect \/ Unload \/ Destroy
        \/ Spinner \/ Response \/ Command
        \/ WorldUpdate \/ Describe \/ Shutdown

Spec == Init /\ [][Next]_vars

(***************************************************************************)
(* Both threads are scheduled.  Commands may come or not, and Gazebo need  *)
(* not unload the model.  However many commands come, the spinner gets to  *)
(* the response: the executor runs everything that was ready when it last  *)
(* waited before it waits again.                                           *)
(***************************************************************************)
FairSpec == /\ Spec
            /\ WF_vars(Load \/ Connect \/ Destroy)
            /\ WF_vars(Spinner)
            /\ SF_vars(Response)

-----------------------------------------------------------------------------
Brakes == {"none", "engaged", "released"}
Actuators == {"none", "torque", "detent"}
Frictions == [brake : Brakes, actuator : Actuators]

(***************************************************************************)
(* The types of the variables.                                             *)
(***************************************************************************)
TypeOK ==
  /\ config \in Configurations /\ braked \in BOOLEAN /\ lives \in BOOLEAN
  /\ gazebo \in {"start", "configure", "load", "friction", "control", "service", "request", "response",
                "running", "clear", "cancel", "join", "gone", "crashed", "threw"}
  /\ spinner \in {"none", "check", "wait", "engage", "drive", "brake", "exited",
                 "crashed", "threw"}
  /\ urdf \in Descriptions /\ ok \in BOOLEAN
  /\ reply \in {"none", "pending", "empty", "invalid", "unnamed", "valid"}
  /\ connected \in BOOLEAN
  /\ stop \in BOOLEAN /\ woken \in BOOLEAN
  /\ made \subseteq Configured /\ served \subseteq made
  /\ initialized \in BOOLEAN
  /\ engaged \in BOOLEAN /\ running \in BOOLEAN
  /\ target \in BOOLEAN /\ moving \in BOOLEAN /\ placed \in BOOLEAN
  /\ friction \in Frictions
  /\ update \in [Threads -> {"idle", "brake", "actuator", "set"}]
  /\ part \in [Threads -> Frictions]

(***************************************************************************)
(* A joint is never set in motion against its brake: when "vel" becomes    *)
(* other than zero the brake has been released before (setVelocity), and   *)
(* no command got in between.                                              *)
(***************************************************************************)
StartsReleased == [][~moving /\ moving' => ~(braked /\ engaged')]_vars

(***************************************************************************)
(* A joint moves only after all of its devices exist: commands that arrive *)
(* while Joint::init constructs them are dropped, and a joint whose device *)
(* could not be constructed never moves.                                   *)
(***************************************************************************)
MovesWhenComplete == moving \/ placed => made = Configured

(***************************************************************************)
(* After the destructor, of a plugin that was unloaded or whose Load has   *)
(* thrown, nothing touches the joint any more: the spinner was joined.     *)
(***************************************************************************)
QuietWhenGone == [][gazebo = "gone" => UNCHANGED <<state, frictions>>]_vars

(***************************************************************************)
(* The destructor returns, whatever the spinner was doing when it set      *)
(* do_stop_ and cancelled the executor (or else the process has crashed).  *)
(***************************************************************************)
UnloadEnds == (gazebo = "clear") ~> (gazebo \in {"gone", "crashed"})

(***************************************************************************)
(* Load, which blocks Gazebo, ends once robot_state_publisher has a URDF,  *)
(* unless rclcpp is shut down: the spinner that hands it the answer runs   *)
(* already, and no stream of commands keeps it from that.                  *)
(***************************************************************************)
LoadReturns ==
  (urdf \in {"invalid", "unnamed", "valid"}) ~>
    (~ok \/ gazebo \notin {"start", "configure", "load", "friction",
                          "control", "service", "request", "response"})

Quiet == \A t \in Threads : update[t] = "idle"

(***************************************************************************)
(* "updateFriction is called by brakes and actuators to calculate the      *)
(* combined friction": between callbacks of a loaded joint the friction is *)
(* that of the state its brake and its actuator are in.  (The code breaks  *)
(* it: a velocity command never updates the friction.)                     *)
(***************************************************************************)
FrictionFollowsDevices ==
  gazebo = "running" /\ lives /\ spinner \in {"check", "wait"} /\ Quiet => friction = Combined
=============================================================================
