# TLA+ models of OpenVMP

This directory holds the formal models of the OpenVMP monorepo: what runs on
the robot, in its simulator and on its operator's screen between a hardware
configuration file and a moving joint. Every model is a translation of the
sources in `src/` (paths below are relative to it; `platform/src/` is left out
of package names). TLC checks the models on small instances; TLAPS proves the
most important results for all values of the constants.

`PROJECT.json` has the machine-readable side: components, runs, the mutation of
the model that each property is known to catch, the source lines behind every
definition, the hazards and the theorems.

Contents: 1 Inventory, 2 Modules, 3 Runs and bounds, 4 Fairness, 5 Findings,
6 Proofs, 7 What is assumed of code outside the repository, 8 What is not
modelled, 9 Plan.

## 1. Inventory

OpenVMP's robot Don1 has two halves, each with a turn table, a body and two
arms of three joints (arm, inner arm, wheel), and eight camera servos. ROS 2
nodes talk over topics, services and one action.

```
 RViz <-- markers, menu --> openvmp_control_interactive --+
                                                          | topics
 openvmp_motion_control_py, openvmp_robot_don1 --action---+--> ros2_control
                                                                   |
 hardware.yaml -> openvmp_hardware_configuration                   | topics,
        |                        |                                 | services
        v                        v                                 v
 openvmp_hardware_manager   openvmp_hardware_simulation_gazebo  (driver nodes)
   (real hardware)             (the same nodes, simulated)
```

### Interactive control (`openvmp_control_interactive`)

*State*: the running mode, the menu (one check mark), a mode object per mode
that lives as long as the node, the publishers of a control family (static
members shared by its mode objects, with a static `initialized_`; the velocity
publisher is, by contrast, a member of each object), the contexts and pending
updates of the marker server; per body mode the accumulators `lift_`, `turn_`,
`lean_` and the gait's `phase_`; FULL's `last_angle` of every link, a copy of
the controller's state; the cameras' angles, one static map for four modes.
*Operations*: `modeCb_` (menu feedback: `leave()` of the old and `enter()` of
the new mode, check marks, `applyChanges`), `processFeedback_` of each mode
(a released marker becomes a trajectory, a velocity or a camera position and
snaps back), `trajectoryStateHandler_` (the controller's state, once a second).
*Interactions*: the client shows markers and menu as of an earlier update and
sends feedback that may concern a mode that has been left meanwhile; the
controllers receive the published commands.
*Hard*: ordering between the two queues, sharing of publishers across mode
objects, state that survives a visit of a mode, C++ arithmetic of the gait,
commands computed from a state that is late.
*Correct when*: menu, publishers and markers agree with the mode; only the
running mode commands the robot; the client never shows a mixture and catches
up; accumulators stay in their limits and the gait in phase; no joint is sent
further than the operator asked; each camera keeps its place.

### Hardware configuration (`openvmp_hardware_configuration`)

*State*: none beyond the parsed file: joints by name with brake, actuator,
encoder and gearbox, buses, and for each of them a driver with parameters and
init steps. *Operations*: constructors from YAML, with defaults for missing
keys. *Correct when*: every device of the file is there once, in an order in
which nobody needs what comes later.

### Hardware manager (`openvmp_hardware_manager`)

*State*: the list of drivers, nodes in an executor, service requests and
futures. *Operations*: a bring-up thread constructs the drivers, waits for each
one's services and carries out init steps; the main thread spins the executor.
*Hard*: a wait that only another thread can end, waits without timeouts,
interrupts during construction. *Correct when*: init steps are carried out
once, in order, against drivers that are there; the bring-up ends; an interrupt
ends the process.

### Gazebo plugin (`openvmp_hardware_simulation_gazebo`)

*State*: joints with their devices, brake and actuator states, friction and
velocity parameters of Gazebo's joint, a spinner thread, the controller
manager. *Operations*: `Load` (makes a node, reads the configuration,
constructs the joints, asks for the URDF, connects to the world), the
destructor, callbacks of position, velocity and brake commands, `update_` in
every step of the world. *Hard*: two threads without locks, callbacks during
construction and destruction, a blocking wait on Gazebo's thread for an answer
that the other thread has to receive, exceptions at every step of `Load`, of
which some are caught there and some are not.
*Correct when*: a joint moves only when complete and released; friction follows
the devices; `Load` and the destructor return; nothing happens afterwards.

### Motion scripts and the preset walk (`openvmp_motion_control_py`, `openvmp_robot`, `openvmp_robot_don1`)

*State*: one goal each. *Operations*: wait for brakes and server, send a goal,
end with the answer. *Hard*: scripts race each other and the services that come
up, can be interrupted, and wait without timeouts for services by names that
are spelled out in two places. *Correct when*: a script moves the robot only
when the brakes' services are there, ends when they are, and leaves its motion
running.

### Part catalogue of Don1 (`simulation/don1/catalogue.py`)

*State*: the directory of part files: for each part of a vendor the file
`<part>.step`, and `<part>.step.part` while it is being downloaded.
*Operations*: `fetch` (downloads what is missing, part after part), `check`
(exits with 0 when nothing is missing). *Hard*: no lock keeps two fetches
apart, each can fail or be killed at any point, and a check looks at one part
after the other meanwhile. *Correct when*: a part that has its name is
complete; a fetch that ends without an error, or a check that reports nothing
missing, means that the robot's parts are there; a fetch that is tried again
gets there.

### Others

Legacy and Python readers of the configuration, launch files, deployment
scripts, and the geometry of Don1 (the rest of `simulation/don1`) are listed in
`PROJECT.json`; see section 8.

## 2. Modules

| Module | Models | Extends / uses |
|---|---|---|
| `Teleop` | what the operator is promised (abstract) | |
| `InteractiveControl` | node, marker server, client, queues | implements `Teleop` |
| `InteractiveControl_proofs` | its theorems | |
| `MCInteractiveControl` | instances for TLC | |
| `BodyModes` | what the body modes publish | |
| `BodyModes_proofs`, `MCBodyModes` | its theorems, instances | |
| `JointModes` | FULL and the camera modes: a gesture turns one joint | |
| `JointModes_proofs`, `MCJointModes` | its theorems, instances | |
| `HardwareConfiguration` | from a file to the list of drivers | |
| `HardwareConfiguration_proofs` | its theorems | |
| `Commissioning` | what a bring-up promises (abstract) | |
| `HardwareManager` | the process | extends `HardwareConfiguration`, implements `Commissioning` |
| `HardwareManager_proofs` | its theorems | extends `HardwareConfiguration_proofs` |
| `MCHardwareManager` | files for TLC | |
| `SimulationPlugin` | the Gazebo plugin with one joint | |
| `SimulationPlugin_proofs` | its theorems | |
| `MotionScripts` | scripts, preset walk, controller | |
| `MotionScripts_proofs` | its theorems | |
| `Catalogue` | fetching and checking the parts of Don1 | |
| `Catalogue_proofs`, `MCCatalogue` | its theorems, instances | |

### InteractiveControl

A mode's markers are one group named after the mode, because each mode inserts
and erases all of its markers in one callback. `publishers` is the record of
the static flags and pointers and of the objects whose own velocity publisher
is set; `TrajVelInit`, `TrajVelFini`, `ControlLeave`, `ControlEnter` are the
functions of `control*.cpp` on that record. `server` follows the source of the
marker server: live contexts, bound callbacks, pending insertions, erasures,
poses and menu changes; `applyChanges` moves them to the contexts and into one
message. A callback of the node is one action, because the node's callbacks are
in one mutually exclusive group: `ModeCb` is `modeCb_` with the whole of
`leave()` and `enter()`, each of which calls `applyChanges`, so that one switch
can send two messages; `ProcessFeedback` is `processFeedback_`. The client
applies messages in order (`DeliverUpdate`) and may reconnect, getting a fresh
picture. `matched` and `robot` say what the trajectory controller could hear.

### BodyModes

Angles and distances are integers in hundredths, times in tenths of a second. A
mode switch is `EnterPose`, `EnterWalk` or `Leave`; each gesture updates an
accumulator, clamps it as the code does and publishes the resulting points in
`sent`. The gait follows `next_phase_` and `next_phase_animation_` line by line
where it matters: the remainder of C++ on negative numbers, a switch without a
matching case, and a time passed by reference into the point that is built.

### JointModes

`get_links` is the table of `link.cpp`, with each link's axis and direction;
`ControllerJoints` and `ServoJoints` are the joints of the two controllers, in
the order of `ros2_controllers.yaml`. `FullFeedback` and `CameraFeedback` are
the two `processFeedback_`, with the message they publish: both controllers
take commands for all joints at once, so a gesture on one joint sends the
node's idea of all others. `HandleState` is `trajectoryStateHandler_`; its
message waits in `report`, a queue of depth one, while gestures and motion go
on. `Posture` is what any other whole-body mode sends meanwhile, and a switch
of family (`Enter`) makes a new publisher that the controller has to discover.
Angles are whole numbers of one gesture's size. `reach` and `aimed` are history
variables: what the operator has asked of each joint so far.

### HardwareConfiguration, Commissioning, HardwareManager

`Plan(document, useFake)` is the order of constructor calls that a file leads
to: the buses that have a path, then, joint by joint in the order of the names,
the devices that are there. `Document` is the set of all files that load. Its
definitions are set constructions, not folds: `InOrder` lists a finite set in
the order of a key, which is what inserting into a `std::map`, or filtering
while iterating, leaves. (`Type` is `STRING` with `"fake"` added, because the
provers know no member of `STRING`.) `HardwareManager` takes any set of such
files, `Documents`, and starts with the plan of one of them, for real or for
fake hardware (`Plans`): the thread's program counter is `thread`,
`next` and `step`, and a service call goes through `requests`, `responses`,
`answered`. The executor's worker threads are the actions `Serve` and `Answer`;
they run only while the main thread spins and the context is valid. `Interrupt`
may come at any point, and `Exit` ends the process with the bring-up thread
wherever it is. An exception in the thread ends the process too (`Construct` and
`Throw`: a node or a client after a shutdown, a step without a value).
`Commissioning` says in three actions what all that is for.

### SimulationPlugin

`gazebo` and `spinner` are the places of the two threads. `updateFriction` is
split into its reads and its write, because it runs on both threads without a
lock and reads pointers that the other one sets; other callbacks are split
where another thread can see the difference. Callbacks run one at a time: the
plugin calls `spin_once` of a multi-threaded executor in a loop on one thread.
`CreateClient`, `AwaitService`, `RequestUrdf`, `AwaitResponse` are `Control`'s
constructor, `WorldUpdate` is `update_`.

`Load` can fail in four ways, which the code treats differently. An exception
that it catches before the joints (`Start`, `ReadConfiguration`) leaves a null
pointer that the next statement uses: both threads are `"crashed"`. A device
whose constructor throws (`FailDevice`) costs the joint, but the nodes of its
other devices stay in the executor, with weak pointers that lead nowhere
(`lives`). A `runtime_error` of `Control` leaves a plugin that runs without
control. Any other exception of `Control` leaves `Load`, and Gazebo destroys
the plugin (`Refuse`). One in `update_` is caught by nobody: both threads are
at `"threw"`. `Shutdown` may come at any point.

### MotionScripts

`pc` is the place of each program and `goal` the fate of its goal. Goals are
sequences of points with their times and named postures, taken from the code;
`WellFormed` is what the controller checks. `Brakes` are the joints with a
brake, and `BrakeClient` is the dictionary that `action.py` builds, with its
slip.

`services` holds what is offered, in the two forms that a brake's service has in
the code: `ScriptsService` is what `action.py` waits for
(`/openvmp/robot_<id>/joint_<joint>_brake/command`, package `brake`),
`DriversService` is what the hardware manager and the simulation offer
(`/brake/<joint>/...`, package `remote_brake`). They differ, so that `DriverUp`
ends no script's wait; only `OutsiderUp` does, a node from outside the
repository. Scripts that get past the wait exist in the model because of it.

### Catalogue

A part's two directory entries, `target` and `partial`, name files (inodes),
because two processes that opened the same `.part` write into the same file
also after one of them has renamed it. A file's content is the set of blocks
that have been written. A fetch goes through `Connect`, `Open`, `Write`,
`Close`, `Replace` for each part, which are the points at which another process
can see or disturb it; `Stop` is an exception or a kill at any of them, and
`Begin` starts a fetch anew. `check` looks at one part per step. `shared` is a
history variable: the parts whose `.part` a fetch has emptied while another
one was at work on it.

### How the modules fit together

`HardwareManager` is composed with `HardwareConfiguration`: it runs the
plans that whole files give. `BodyModes` relies on
`InteractiveControl!PublishersFollowMode` (a body mode can always publish), and
so does `JointModes`, which keeps of a mode only its family and its publisher.
`MotionScripts!DriverUp` is what `HardwareManager` shows in detail (drivers come
up one by one), but it is not what the scripts wait for. `Teleop` and `Commissioning` are substituted for by state
functions of the detailed modules (`ImplementsTeleop`,
`ImplementsCommissioning`), without auxiliary variables.

## 3. Runs and bounds

| Run | Question | Distinct states |
|---|---|---|
| `teleop` | consistency of node and client, refinement of `Teleop` | 350 thousand |
| `teleop_live` | does the client catch up, do markers return home | small |
| `teleop_drive` | can DRIVE drive (no) | violation |
| `body_modes` | accumulators, gait, points | 413 thousand |
| `walk_backwards` | are points complete (no) | violation |
| `joint_modes` | angles of FULL and of the cameras against late states | 90 thousand |
| `bring_up` | order and completeness of a bring-up, liveness, refinement | 644 |
| `sim_joint` | joint and plugin through load, its failures, commands, unload | 329 thousand |
| `sim_friction` | does friction follow the devices (no) | violation |
| `motion_scripts` | do scripts wait, hand over, and end once they are past the brakes | 54 thousand |
| `motion_brakes` | is every brake awaited (no) | violation |
| `catalogue` | two fetches and a check, with failures and retries | 387 thousand |

Bounds and why they suffice:

- `teleop`: four modes, namely NONE, two of the family that shares the trajectory
  publisher (one of them with a velocity publisher) and a camera mode, so that every kind
  of switch occurs: within a family, across families, from and to NONE, and to
  the same mode. `MaxFeedback = 2` lets a gesture wait behind a mode switch and
  a switch behind a gesture; `MaxUpdates = 3` holds the two messages of one
  switch and one of another. The modes differ only in family and outputs, and the theorems of
  section 6 hold for all of them and for all bounds.
- `teleop_live`: one body mode and NONE, with three feedback messages: a drag, a
  release and a mode switch can be under way together.
- `body_modes`: displacements of -1 and 1 reach every limit (the widest is a
  radian); 2.5 gives walks of three steps and, with accumulations, positions
  that are not multiples of others. Two steps do not occur as a walk of their own, but the
  gait is the same modulo four and `GaitRests` is proved for all.
- `joint_modes`: of the twelve links the operator drags two, one of each
  direction (`invert`); the others show what a command does to joints that were
  not touched. Two camera modes, so that one's command carries the other's
  angle. Two gestures or postures are the least number with which a gesture can
  be made on an angle that is out of date because of the one before; the robot
  starts upright (0) or in a posture that the node does not know of (2), which
  takes it more than one step to reach. `NoOvershoot` is proved for any number.
- `bring_up`: five files, each as real and as fake hardware: two joints that are
  not in order of their names, with a repeated one, a bus without a path and
  two steps each; a bus without driver and an unknown type; a step without a
  service, and one without a value; and Don1's kind of file. The theorems are for every
  file.
- `sim_joint`, `sim_friction`: one joint, with and without a brake, engaged or
  not by default; four outcomes of reading the configuration and five states of
  the URDF. Joints share no state but the spinner, which runs one callback at a
  time. There is nothing to bound: the state space is finite.
- `catalogue`: two fetches, four parts: one of the blueprints' own, the side
  channel, which is a script, and two of vendors, so that a fetch can skip,
  begin and go on to a next part. Two blocks make an incomplete file. Three
  inodes are enough for an installed file, a `.part` and one still open. One
  failure (`MaxStops`) is enough to leave remains; the theorems are for any
  number of fetches, parts, blocks and failures.
- `motion_scripts`: a long walk, a one-point motion, the empty `step`, and the
  preset walk; three brakes, of which two are those that the code confuses. One
  of them has a driver: drivers are in nobody's way, and one shows that it does
  not count. Each script runs once.

Where `CHECK_DEADLOCK FALSE` is given the system really stops: the bring-up
process ends, the plugin is unloaded, all scripts have ended.

The four violations need particular sequences, and the traces that TLC prints
are the shortest.

## 4. Fairness

- `InteractiveControl!FairSpec`: the executor spins (`WF(Spin)`), and the
  reliable topic of updates delivers (`WF(DeliverUpdate)`). The operator, a
  reconnection and discovery are not forced.
- `JointModes!Spec`: the joints move towards their goal, the controller keeps
  reporting and the executor handles what it reports. Gestures, switches and
  discovery are not forced.
- `HardwareManager!FairSpec`: both threads are scheduled; the executor serves
  what is ready. Interrupts are not forced; nothing is assumed of services that
  do not exist.
- `SimulationPlugin!FairSpec`: both threads are scheduled. Strong fairness of
  `Response` is the executor's: it collects everything that is ready, and runs
  all of it before it waits again, so that a stream of commands cannot keep the
  response away. Commands, updates of the world, shutdowns and unloading are not
  forced.
- `MotionScripts!FairSpec`: scripts that wait are scheduled, the controller comes
  up (otherwise a script rightly waits forever) and answers. Starting and
  interrupting scripts is not forced. Nor is that anybody offers a brake's
  service: `ScriptsEnd` is about scripts for which somebody does.
- `Catalogue!FairSpec`: a fetch that runs is scheduled, and one that has failed is
  started again (`Retry`), which is what the message of `import_step` tells its
  reader to do. Downloads fail finitely often. Nobody has to start a first
  fetch or a check.

## 5. Findings

| Run | What the code does |
|---|---|
| `teleop_drive` | `TrajVelControl::velocity_commands_` is not static, but `initialized_` is: DRIVE or HUG entered from another whole-body mode have no velocity publisher, and every `move_x` is dropped. |
| `walk_backwards` | `phase_ %= 4` is negative after steps backwards, the switch has no such case, and the trajectory is published without positions. |
| `sim_friction` | A velocity command changes brake and actuator and nobody updates the friction. |
| `motion_brakes` | The client for the brake of `rear_right_arm_wheel_joint` is one for `rear_right_arm_inner_joint`. (It shows when a node from elsewhere offers the names that the scripts wait for; see the first point below.) |

The models show more than the runs state. The following are consequences of
actions as they are, noted here and under the hazards.

- The scripts wait for `/openvmp/robot_<id>/joint_<joint>_brake/command` of package
  `brake` (`action.py:18-83`), while every brake driver of the repository is
  under `/brake/<joint>` and of package `remote_brake` (hardware manager
  `node.cpp:47`, `driver.cpp:35`, `drivers.cpp:79` and `:90`; simulation
  `joint.cpp:32`, hardware configuration `brake.cpp:37`). The wait has no
  timeout: on a robot that is brought up by this repository alone, each script
  hangs there until it is interrupted. `DriversEndNoWait` proves it of the model.
- The initial position of a mode is published before the controller can have
  discovered the publisher (`InteractiveControl`).
- `driver.cpp` knows `remote_modbus/srv/ConfiguredHoldingRegisterWrite`, while
  every step of the shipped `hardware.yaml` says `ros2_modbus/srv/...`: every
  init step of Don1 is skipped with a line in the log (`HardwareManager`, a
  step without a service).
- HUG's template has its inner arms at -3.14, beyond the -0.9 pi that the URDF
  allows (`BodyModes`).
- A gesture in FULL before the controller's first state has come sends the
  other joints to 0, wherever the robot stands; one made in the middle of a motion
  sends the others back to where the last state has seen them
  (`JointModes!FullFeedback`). `NeverOvershoots` bounds where that can be and excludes neither.
- The first `update_` of the plugin subtracts a time of the system clock from a
  simulated time, which rclcpp refuses by an exception: a plugin that has got
  its controllers ends Gazebo at the first step of the world (`WorldUpdate`).
- A device that cannot be constructed leaves the nodes of its joint's other
  devices with weak pointers that have expired; the next command for one of
  them crashes Gazebo. So does any command between `joints_.clear()` and the
  join of the spinner. A node or a configuration that cannot be made leaves a
  null pointer that `Load` uses in its next statement (`SimulationPlugin`).
- A shutdown while `Load` waits for the URDF hangs it for good, or ends in a
  `logic_error` made from the null pointer that `get_urdf_` returns, which
  leaves `Load` (`AwaitResponse`, `AwaitService`).
- The preset walk writes behind its three points and can only crash or be
  refused (`SendPreset`). If its wait for the server fails, it goes on all the
  same (`ShutDownPreset`).
- Two fetches at work on the same `.part`, one of which is killed after the
  other has emptied the file, can leave a part that is incomplete, has its
  final name and is never fetched again (`Catalogue`, where `WholeOnDisk`
  excepts `shared`).
- The side channel is cut from a part that is fetched and checked only when the
  blueprints also place it on its own. They do, and `ChannelAssumption` says so:
  `CheckedMeansThere` rests on it.

## 6. Proofs

All proofs are checked by TLAPS down to the last leaf. Assumptions on constants
are named in the modules: `ModeAssumption` (NONE is a mode, modes are those of
the enumeration), `BoundsAssumption` (queue bounds are natural numbers),
`AmountAssumption` (displacements are integers), `JointModesAssumption`,
`DraggableAssumption` and `CameraModeAssumption` (angles are integers, there is
a posture; links and modes are those of the tables), `DocumentsAssumption`
(files are of the form that loads), `ScriptsAssumption`, `BrakesAssumption` and
`DrivenAssumption` (the scripts are those of the package; the two joints that
the code confuses have brakes, and drivers are for joints with brakes),
`CatalogueAssumption` (parts are a sequence, files have at least one block,
there is at least one fetch) and
`ChannelAssumption` (the channel is a part of the blueprints).

- **InteractiveControl.** `TypeCorrect`, `NodeFollowsMode` (the menu),
  `PublishersHandedOver`, `MarkersHandedOver`, `RunningModeCommands`,
  `NeverAMixture`, `DeliveredMeansUpToDate`, `ReleaseBringsBack` and
  `Refinement` (of `Teleop`). The first invariant is `TypeOK /\ MenuShowsMode /\
  PublishersFollowMode /\ MarkersFollowMode`. The parts need each other: that
  `processFeedback_` only runs for the mode that is active follows from
  `MarkersFollowMode` (a bound, live group can only be that of the mode); that a
  gesture can publish needs the types of the queues. The mode switch is the one
  large step: `HandOver` shows that leaving and entering hands the publishers
  over for any two families, `MarkersSwapped` that two `applyChanges` leave the
  markers of the new mode and nothing pending. What the client displays needs
  the contents of the queue: `QueueLeads` says that its messages lead from what
  the client shows to what the server has, and through consistent screens only,
  since no single message takes the markers of one mode away and brings those of
  another. It is that which a mode switch upholds by calling `applyChanges`
  twice. The refinement reads the promised screen and mode off this path, and so
  does `DeliveredMeansUpToDate`: when the path is empty, the client is at its
  end. `ReleaseBringsBack` is about a marker that was dragged and let go: a
  message that ends the drag is queued from the moment that the node receives
  the release. When the mode still runs, `processFeedback_` sends it. When the
  mode was left meanwhile, the invariant `TakenDown` finds it: a group that the
  client shows and the server no longer has is erased by some message of the
  queue.
- **BodyModes.** `AccumulatorsBounded`: clamping is the only way an accumulator
  changes. `GaitRests`: four times any number of steps comes back to phase 0. It
  needs facts on the remainder of C++ for both signs; that the phase is 0
  *before* every gesture is the induction. `WalkLimits` (what a walk sends is
  within the URDF's limits, however far the gestures have added up) goes from
  the limits of the accumulators to each joint of each half (`HalfStride`,
  `TwoHalves`); `OneArmAtATime` finds the arm that each phase raises
  (`RaisedArm`) and the order in which an odd number of steps goes through the
  phases (`OddPhases`); `PointsInOrder` (the times of a walk's points increase)
  is about the time that is passed by reference (`AnimationTimes`).
- **JointModes.** `TypeCorrect`, `NoOvershoot`, `CamerasAddUp` and
  `AnglesSettle`. The invariant of `NoOvershoot` is the property itself with the
  types: the copies of an angle (`last_angle`, the waiting report, the goal, the
  joint) are each within the joint's reach, and each action only moves a value
  from one copy to another, or adds to the reach what it adds to the copy.
  `CamerasAddUp` rests on the invariant that the angle kept for each camera is
  the sum of the gestures on its markers, and on the two tables having the
  servos in the same order (`SameOrder`). `AnglesSettle` goes through every step
  that is not a gesture: each motion brings every joint closer to its goal
  (`MovesCloser`), a robot that has arrived and reports it goes on doing both
  (`UpToDate`), the next state that is handled gives FULL the true angles, and
  nothing takes them away again.
- **HardwareConfiguration.** `JointsOfConfiguration`, `BusesOfConfiguration`,
  `PlanOfDocument` and `NothingForgotten`, for files of any length and content.
  All of them rest on `InOrderLists`: when the keys of a finite set differ,
  there is a list of its members in the order of their keys, and it lists them
  all. That list is the inverse of a member's rank (`RankOrder`, `RankOnto`),
  the number of members that come before it; it needs no induction, only that an
  injection between finite sets of one size is onto. A device's key is its
  joint's place and its class, in this order (`Lexicographic`), which is what
  keeps two devices of one joint apart, as strictly ordered names keep two
  joints apart (`DriversOfJoints`).
- **HardwareManager.** `TypeCorrect`, `NoRequestLost`, `BusesBeforeDevices`,
  `NodesNamedApart`, `RequestedOnce`, `BringUpProgress` and `Refinement`. The
  invariant adds `Progress` (the steps handled are exactly those before the
  thread's place, plus the current one if its request was served), `InFlight`
  (at most the current step is under way, in one of three places) and
  `Constructed` (drivers before the current one are up). `Progress` is what the
  refinement needs: the next step served is the least one that is missing.
  `BusesBeforeDevices` and `NodesNamedApart` take the order and the names of the
  drivers from `PlanOfDocument`, and from `OneByOne` that a driver exists only
  when those before it do; no file is excluded. `BringUpProgress` has three
  parts: every step of the thread or of a worker goes forward in the
  lexicographic order of driver, place, init step and state of the request
  (`Advances`) unless it ends the process; the place stays within the plan
  (`WithinPlan`); and while the context is valid and the services and values
  exist, nothing throws and the thread or a worker can take its step
  (`CanGoOn`).
- **SimulationPlugin.** `TypeCorrect`, `CompleteBeforeMotion`,
  `ReleasedBeforeMotion`, `NothingAfterwards`, `CompleteJointIsSafe`,
  `DestructorCanEnd` and `LoadIsAnswered`. The invariant has a part for each
  hand-over between the threads: `Complete` (what is `initialized_` has all its
  devices), `Accepted` (a velocity is being set only for such a joint),
  `BrakeSet` (the brake follows the target before the joint does) and `Joined`
  (the spinner has exited once the destructor is through). `CompleteJointIsSafe`
  needs `Held` and `Ended` besides: a joint that is complete keeps its devices
  until the destructor clears them, and only the destructor does. The last two
  are what the threads owe each other: in `DestructorCanEnd` the flag and the
  wake-up of `cancel()` find the spinner wherever it is (`Stopping`), in
  `LoadIsAnswered` the spinner has not left its loop while `Load` waits
  (`SpinnerGoesOn`).
- **MotionScripts.** `TypeCorrect`, `BrakesBeforeGoals`, `NoMotionRefused`,
  `GoalsGoOneWay`, `DriversEndNoWait` and `ScriptsProgress`. `BrakesAwaited` is not inductive: a
  script that has seen the brakes has no goal yet. `SeenAtServer` says so of
  scripts at `"server"`; services stay, so it survives. `NoGoalYet` is needed
  because sending overwrites a goal, which must not be the one that is being
  executed. `NoMotionRefused` follows from the goals themselves: the walk is put
  together from its three parts (`WalkPoints`), so that its 31 times increase,
  and all but `step` are well formed (`GoalsWellFormed`). `GoalsGoOneWay` orders
  the places of a goal; the hard step is that an accepted goal replaces another
  program's, which is superseded and does not come back. `DriversEndNoWait`
  says what the names in the code lead to: a script past its wait has seen the
  service of the inner joint's brake, which is no driver's. `ScriptsProgress` is
  the other half of `ScriptsEnd`: a wait that is over stays over, whatever others
  do (services stay, `GoalsGoOneWay`), places are only left forwards, and an
  answer is owed to every goal.
- **Catalogue.** `TypeCorrect`, `WholeOrShared`, `FetchIsComplete`,
  `CheckIsRight`, `NotAllLost`, `FetchProgress` and `FetchNeverWaits`. `Alone`
  is the heart of the first: a part that was never shared has at most one
  writer, whose file is the `.part` and holds exactly the blocks it has written,
  so that what it installs is complete. `Passed` says of a fetch, and `Looked`
  of a check, that all parts before its place are there; `FilesStay` (what is on
  disk stays) keeps both true while others work. `NotAllLost` shows that there
  is always a fetch that nobody is ahead of (`OneAhead`): an opened `.part` goes
  away only by becoming the part (`PartKept`), and then somebody is ahead of
  whoever has lost it. `FetchProgress` says the same of a single step, beside
  that every step of a fetch goes forward through the parts and the places of a
  download. `FetchNeverWaits` is about the bound of the model: with more inodes
  than fetches there is always a free one (by the pigeonhole principle), so that
  a small directory takes no behaviour away.

Every safety property and both refinements that a passing run checks are stated
by a theorem. Only model-checked are the liveness properties: fairness and
ENABLED are outside the prover. For all but `InterruptEndsProcess`, where the
main thread waits for nobody, theorems state what
they rest on beside fairness, for every value of the constants:

| Liveness property | Its steps, proved |
|---|---|
| `ViewCatchesUp` | `DeliveredMeansUpToDate` |
| `MarkerSnapsBack` | `ReleaseBringsBack` |
| `AnglesCatchUp` | `AnglesSettle` |
| `BringUpFinishes` | `BringUpProgress` |
| `LoadReturns` | `LoadIsAnswered` |
| `UnloadEnds` | `DestructorCanEnd` |
| `ScriptsEnd` | `ScriptsProgress`, `GoalsGoOneWay` |
| `EventuallyFetched` | `FetchProgress`, `NotAllLost` |

## 7. Assumed of code outside the repository

Definitions for these are marked external in `PROJECT.json`. They say what the
code in `src/` relies on.

- *interactive_markers*: `insert`, `erase`, `setPose`, `setCallback` queue
  updates until `applyChanges` sends them as one message; feedback for a marker
  without context or callback is ignored; a client that reconnects gets the
  current markers.
- *RViz*: sends menu feedback and pose feedback for the markers it displays; a
  marker stays where it was dragged until an update moves it; a rotation turns
  it around the x axis of its control.
- *DDS*: updates and feedback arrive in order and are not lost; a new
  publisher is discovered some time after it was created, and what it published
  before is lost.
- *rclcpp*: executors run each callback once; `wait_for_service` returns on
  shutdown; creating a node in a context that is shut down throws; the
  difference of times of different clocks throws; creating a client after a
  shutdown throws.
- *nodes outside the repository*: one may offer the brakes' services by the names
  that the motion scripts wait for. Nothing is assumed of whether it does.
- *driver packages* (`remote_*`, git submodules): a driver's services exist once
  its factory has returned; they answer every request, if its bus is up.
- *joint_trajectory_controller*: refuses goals without joints or without some of
  its joints, with incomplete points or with times that do not increase, and
  replaces the running goal by a newly accepted one. The topic of its state is
  throttled to one message a second, and the last one is kept.
- *Gazebo*: loads and unloads a plugin on the thread that updates the world. It
  catches an exception that leaves `Load`, and destroys the plugin; it catches
  none that leaves `update_`.
- *The operating system*: a rename is atomic; opening a file for writing empties
  it for everybody who has it open; a file lives while it is open. Power
  failures are left out: the code does not sync.
- *urllib*: `read` returns the whole body, or raises.

## 8. Not modelled

- Values: torques, gear ratios, stepper parameters, colours and sizes of
  markers, names of topics. They are copied through and decide nothing. (The names of the
  brakes' services do decide something and are modelled, by what tells them
  apart.)
- Encoder values: one call of Gazebo's API each.
- pluginlib and the hardware components that `Control` loads: external.
- `brakes_engage_all`, `brakes_disengage_all`: no script calls them.
- The Python `config.py` and the legacy manager: superseded, nobody starts them.
- `simulation/don1` but for `catalogue.py`: assembly of meshes, forward
  kinematics, interference. Geometry without state; its properties are about
  real numbers.
- Launch files, Ansible, Docker and systemd units: declarations.

## 9. Plan

Done, in this order: `InteractiveControl` (where queues, shared publishers and
modes meet), `BodyModes` (what is sent to the joints), `HardwareManager` with
`HardwareConfiguration`, `SimulationPlugin`, `MotionScripts`; then `JointModes`
(states that come late), the failures of the plugin's `Load`, `Catalogue`, and
the theorems about them. What would come next:

1. *Composition*: `MotionScripts` with the trajectories that `InteractiveControl`
   publishes meanwhile to the same controller, and, once the scripts wait for
   what the drivers offer, with the drivers of `HardwareManager`.
2. *Two joints in `SimulationPlugin`*, if joints should come to share more than
   the spinner.
