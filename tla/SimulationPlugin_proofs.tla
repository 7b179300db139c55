----------------------- MODULE SimulationPlugin_proofs -----------------------
(***************************************************************************)
(* Theorems about the Gazebo plugin, with and without a brake, for every   *)
(* way in which its loading can succeed or fail.                           *)
(***************************************************************************)
EXTENDS SimulationPlugin, TLAPS

-----------------------------------------------------------------------------
(***************************************************************************)
(* robot_state_publisher is there once it is asked: the type of reply      *)
(* needs it.                                                               *)
(***************************************************************************)
Asked == gazebo \in {"request", "response"} \/ reply = "pending" => urdf # "absent"

LEMMA AskedStep == ASSUME Asked, [Next]_vars PROVE Asked'
<1> USE DEF Asked, devices, state, frictions, control, Alive
<1>1. CASE Load
  BY <1>1 DEF Load, Start, ReadConfiguration, MakeDevice, FailDevice, ServeDevice, FinishInit,
              UpdateFriction, Loaded, Crash, Within
<1>2. CASE Connect
  BY <1>2 DEF Connect, CreateClient, AwaitService, RequestUrdf, AwaitResponse, Refuse
<1>3. CASE Unload \/ Destroy \/ Response \/ WorldUpdate \/ Describe \/ Shutdown
  BY <1>3 DEF Unload, Destroy, Clear, Cancel, Join, Response, WorldUpdate, Describe, Shutdown
<1>4. CASE Spinner \/ Command
  BY <1>4 DEF Spinner, CheckStop, WakeUp, Engage, Drive, UpdateFriction, BrakeDone, Command,
              ReadEncoder, SetVelocity, SetPosition, BrakeCommand, Crash
<1>5. CASE UNCHANGED vars BY <1>5 DEF vars
<1> QED BY <1>1, <1>2, <1>3, <1>4, <1>5 DEF Next

(***************************************************************************)
(* The next device is one that the configuration has.                      *)
(***************************************************************************)
LEMMA NextConfigured == ASSUME TypeOK PROVE NextDevice \in Configured
  BY DEF TypeOK, NextDevice, Configured, Devices

(***************************************************************************)
(* The steps of updateFriction, on either thread, keep the types.          *)
(***************************************************************************)
LEMMA FrictionTypes ==
  ASSUME TypeOK, NEW t \in Threads, UpdateFriction(t) PROVE TypeOK'
<1> USE DEF TypeOK, Frictions, Brakes, Actuators, BrakeFriction, ActuatorFriction, Threads,
            UpdateFriction, devices, state, control, Configured
<1>1. CASE ReadBrake(t) BY <1>1 DEF ReadBrake
<1>2. CASE ReadActuator(t) BY <1>2 DEF ReadActuator
<1>3. CASE SetFriction(t)
  <2>1. friction' \in Frictions BY <1>3 DEF SetFriction
  <2> QED BY <1>3, <2>1 DEF SetFriction
<1> QED BY <1>1, <1>2, <1>3

(***************************************************************************)
(* The steps of Load keep the types.                                       *)
(***************************************************************************)
LEMMA LoadTypes == ASSUME TypeOK, Load PROVE TypeOK'
<1> USE DEF TypeOK, devices, state, frictions, control, Configured
<1>1. CASE Start BY <1>1 DEF Start, Crash
<1>2. CASE ReadConfiguration
  <2>1. lives' \in BOOLEAN BY <1>2, Zenon DEF ReadConfiguration
  <2>2. /\ gazebo' \in {"running", "crashed", "control", "load"}
        /\ spinner' \in {spinner, "crashed"}
    BY <1>2 DEF ReadConfiguration, Crash
  <2>3. UNCHANGED <<stop, woken, config, braked, made, served, initialized, state, frictions, control>>
    BY <1>2 DEF ReadConfiguration
  <2> QED BY <2>1, <2>2, <2>3
<1>3. CASE MakeDevice BY <1>3, NextConfigured DEF MakeDevice
<1>4. CASE FailDevice
  <2>1. lives' \in BOOLEAN BY <1>4, Zenon DEF FailDevice
  <2> QED BY <1>4, <2>1 DEF FailDevice
<1>5. CASE ServeDevice BY <1>5 DEF ServeDevice
<1>6. CASE FinishInit BY <1>6 DEF FinishInit, Threads
<1>7. CASE UpdateFriction("gazebo") BY <1>7, FrictionTypes DEF Threads
<1>8. CASE Loaded BY <1>8 DEF Loaded
<1> QED BY <1>1, <1>2, <1>3, <1>4, <1>5, <1>6, <1>7, <1>8 DEF Load

(***************************************************************************)
(* The steps of Control, of the destructor and of the environment keep the *)
(* types.                                                                  *)
(***************************************************************************)
LEMMA ControlTypes == ASSUME TypeOK, Connect PROVE TypeOK'
<1> USE DEF TypeOK, devices, state, frictions, Alive, Refuse, Configured
<1>1. CASE CreateClient BY <1>1 DEF CreateClient
<1>2. CASE AwaitService
  <2>1. stop' \in BOOLEAN BY <1>2, Zenon DEF AwaitService
  <2> QED BY <1>2, <2>1 DEF AwaitService
<1>3. CASE RequestUrdf BY <1>3 DEF RequestUrdf
<1>4. CASE AwaitResponse
  <2>1. stop' \in BOOLEAN /\ connected' \in BOOLEAN BY <1>4, Zenon DEF AwaitResponse
  <2> QED BY <1>4, <2>1 DEF AwaitResponse
<1> QED BY <1>1, <1>2, <1>3, <1>4 DEF Connect

LEMMA OtherTypes ==
  ASSUME TypeOK, Asked, Unload \/ Destroy \/ Response \/ WorldUpdate \/ Describe \/ Shutdown
  PROVE  TypeOK'
<1> USE DEF TypeOK, devices, state, frictions, control, Alive, Configured, Descriptions, Asked
<1>1. CASE Unload BY <1>1 DEF Unload
<1>2. CASE Clear
  <2>1. lives' \in BOOLEAN /\ connected' \in BOOLEAN BY <1>2, Zenon DEF Clear
  <2> QED BY <1>2, <2>1 DEF Clear
<1>3. CASE Cancel BY <1>3 DEF Cancel
<1>4. CASE Join BY <1>4 DEF Join
<1>5. CASE Response
  <2>1. reply' \in {"none", "pending", "empty", "invalid", "unnamed", "valid"}
    BY <1>5 DEF Response
  <2> QED BY <1>5, <2>1 DEF Response
<1>6. CASE WorldUpdate BY <1>6 DEF WorldUpdate
<1>7. CASE Describe BY <1>7 DEF Describe
<1>8. CASE Shutdown
  <2>1. ok' \in BOOLEAN /\ woken' \in BOOLEAN BY <1>8, Zenon DEF Shutdown
  <2> QED BY <1>8, <2>1 DEF Shutdown
<1> QED BY <1>1, <1>2, <1>3, <1>4, <1>5, <1>6, <1>7, <1>8 DEF Destroy

(***************************************************************************)
(* The steps of the spinner keep the types.                                *)
(***************************************************************************)
LEMMA SpinnerTypes == ASSUME TypeOK, Spinner \/ Command PROVE TypeOK'
<1> USE DEF TypeOK, devices, state, frictions, control, Configured, Crash, Callback
<1>1. CASE CheckStop BY <1>1 DEF CheckStop
<1>2. CASE WakeUp
  <2>1. woken' \in BOOLEAN BY <1>2, Zenon DEF WakeUp
  <2> QED BY <1>2, <2>1 DEF WakeUp
<1>3. CASE Engage
  <2>1. engaged' \in BOOLEAN BY <1>3, Zenon DEF Engage
  <2> QED BY <1>3, <2>1 DEF Engage
<1>4. CASE Drive
  <2>1. moving' \in BOOLEAN BY <1>4, Zenon DEF Drive
  <2> QED BY <1>4, <2>1 DEF Drive
<1>5. CASE UpdateFriction("spinner") BY <1>5, FrictionTypes DEF Threads
<1>6. CASE BrakeDone BY <1>6 DEF BrakeDone
<1>7. CASE ReadEncoder BY <1>7 DEF ReadEncoder
<1>8. CASE SetPosition
  <2>1. placed' \in BOOLEAN BY <1>8 DEF SetPosition
  <2> QED BY <1>8, <2>1 DEF SetPosition
<1>9. ASSUME NEW b \in BOOLEAN, SetVelocity(b) PROVE TypeOK'
  BY <1>9 DEF SetVelocity
<1>10. ASSUME NEW b \in BOOLEAN, BrakeCommand(b) PROVE TypeOK'
  BY <1>10 DEF BrakeCommand, Threads
<1> QED BY <1>1, <1>2, <1>3, <1>4, <1>5, <1>6, <1>7, <1>8, <1>9, <1>10 DEF Spinner, Command

LEMMA TypeStep == ASSUME TypeOK, Asked, [Next]_vars PROVE TypeOK'
<1>1. CASE Next BY <1>1, LoadTypes, ControlTypes, OtherTypes, SpinnerTypes DEF Next
<1>2. CASE UNCHANGED vars
  BY <1>2 DEF vars, TypeOK, devices, state, frictions, control, Configured
<1> QED BY <1>1, <1>2

LEMMA TypeInit == Init => TypeOK /\ Asked
<1> SUFFICES ASSUME Init PROVE TypeOK /\ Asked
  OBVIOUS
<1> USE DEF Init
<1>1. Asked BY DEF Asked
<1>2. /\ made \subseteq Configured /\ served \subseteq made
      /\ urdf \in Descriptions /\ config \in Configurations
  BY DEF Configured, Descriptions, Configurations
<1>3. /\ lives \in BOOLEAN /\ ok \in BOOLEAN /\ connected \in BOOLEAN /\ stop \in BOOLEAN
      /\ woken \in BOOLEAN /\ initialized \in BOOLEAN /\ engaged \in BOOLEAN
      /\ running \in BOOLEAN /\ target \in BOOLEAN /\ moving \in BOOLEAN
      /\ placed \in BOOLEAN /\ braked \in BOOLEAN
  BY Zenon
<1>4. /\ friction \in Frictions
      /\ update \in [Threads -> {"idle", "brake", "actuator", "set"}]
      /\ part \in [Threads -> Frictions]
  BY DEF Frictions, Brakes, Actuators, NoFriction, Threads
<1> QED BY <1>1, <1>2, <1>3, <1>4 DEF TypeOK

(***************************************************************************)
(* The variables have their types, however Load ends.                      *)
(***************************************************************************)
THEOREM TypeCorrect == Spec => []TypeOK
<1>1. TypeOK /\ Asked /\ [Next]_vars => TypeOK' /\ Asked'
  BY TypeStep, AskedStep
<1> QED BY <1>1, TypeInit, PTL DEF Spec

-----------------------------------------------------------------------------
(***************************************************************************)
(* What the properties rest on: a joint is initialized only once it is     *)
(* complete, only an initialized one has been moved or is being moved, the *)
(* brake is as the velocity command under way has set it, and the spinner  *)
(* has ended when the plugin is gone.                                      *)
(***************************************************************************)
Complete ==
  initialized => made = Configured /\ gazebo \notin {"start", "configure", "load"}
Accepted == moving \/ placed \/ spinner \in {"engage", "drive"} => initialized
BrakeSet == spinner = "drive" /\ braked => (engaged <=> ~target)
Joined == gazebo = "gone" => spinner = "exited"

Inv == Complete /\ Accepted /\ BrakeSet /\ Joined

LEMMA InvInit == Init => Inv
  BY DEF Init, Inv, Complete, Accepted, BrakeSet, Joined

(***************************************************************************)
(* Load completes the joint; the other steps of Gazebo's thread and the    *)
(* environment leave it alone.                                             *)
(***************************************************************************)
LEMMA LoadInv == ASSUME TypeOK, Inv, Load PROVE Inv'
<1> USE DEF Inv, Complete, Accepted, BrakeSet, Joined, devices, state, frictions, control,
            Configured
<1>1. CASE Start BY <1>1 DEF Start, Crash
<1>2. CASE ReadConfiguration BY <1>2 DEF ReadConfiguration, Crash
<1>3. CASE MakeDevice BY <1>3 DEF MakeDevice
<1>4. CASE FailDevice BY <1>4 DEF FailDevice
<1>5. CASE ServeDevice BY <1>5 DEF ServeDevice
<1>6. CASE FinishInit BY <1>6 DEF FinishInit, TypeOK
<1>7. CASE UpdateFriction("gazebo") BY <1>7 DEF UpdateFriction
<1>8. CASE Loaded BY <1>8 DEF Loaded
<1> QED BY <1>1, <1>2, <1>3, <1>4, <1>5, <1>6, <1>7, <1>8 DEF Load

LEMMA OtherInv ==
  ASSUME Inv, Connect \/ Unload \/ Destroy \/ Response \/ WorldUpdate \/ Describe \/ Shutdown
  PROVE  Inv'
<1> USE DEF Inv, Complete, Accepted, BrakeSet, Joined, devices, state, frictions, control,
            Alive, Configured
<1>1. CASE Connect
  BY <1>1 DEF Connect, CreateClient, AwaitService, RequestUrdf, AwaitResponse, Refuse
<1>2. CASE Unload \/ Destroy BY <1>2 DEF Unload, Destroy, Clear, Cancel, Join
<1>3. CASE Response BY <1>3 DEF Response
<1>4. CASE WorldUpdate BY <1>4 DEF WorldUpdate
<1>5. CASE Describe \/ Shutdown BY <1>5 DEF Describe, Shutdown
<1> QED BY <1>1, <1>2, <1>3, <1>4, <1>5

LEMMA SpinnerInv == ASSUME TypeOK, Inv, Spinner \/ Command PROVE Inv'
<1> USE DEF Inv, Complete, Accepted, BrakeSet, Joined, devices, state, frictions, control,
            Configured, Crash, Callback
<1>1. CASE CheckStop BY <1>1 DEF CheckStop
<1>2. CASE WakeUp BY <1>2 DEF WakeUp
<1>3. CASE Engage BY <1>3 DEF Engage, TypeOK
<1>4. CASE Drive BY <1>4 DEF Drive
<1>5. CASE UpdateFriction("spinner") BY <1>5 DEF UpdateFriction
<1>6. CASE BrakeDone BY <1>6 DEF BrakeDone
<1>7. CASE ReadEncoder BY <1>7 DEF ReadEncoder
<1>8. CASE SetPosition BY <1>8 DEF SetPosition
<1>9. ASSUME NEW b \in BOOLEAN, SetVelocity(b) PROVE Inv' BY <1>9 DEF SetVelocity
<1>10. ASSUME NEW b \in BOOLEAN, BrakeCommand(b) PROVE Inv' BY <1>10 DEF BrakeCommand
<1> QED BY <1>1, <1>2, <1>3, <1>4, <1>5, <1>6, <1>7, <1>8, <1>9, <1>10 DEF Spinner, Command

LEMMA InvStep == ASSUME TypeOK, Inv, [Next]_vars PROVE Inv'
<1>1. CASE Next BY <1>1, LoadInv, OtherInv, SpinnerInv DEF Next
<1>2. CASE UNCHANGED vars
  BY <1>2 DEF vars, Inv, Complete, Accepted, BrakeSet, Joined, devices, state, frictions,
              control, Configured
<1> QED BY <1>1, <1>2

LEMMA Invariance == Spec => [](TypeOK /\ Inv)
<1>1. TypeOK /\ Inv /\ [Next]_vars => Inv' BY InvStep
<1> QED BY <1>1, InvInit, TypeCorrect, PTL DEF Spec

(***************************************************************************)
(* A joint moves only after all of its devices exist.                      *)
(***************************************************************************)
THEOREM CompleteBeforeMotion == Spec => []MovesWhenComplete
<1>1. Inv => MovesWhenComplete BY DEF Inv, Complete, Accepted, MovesWhenComplete
<1> QED BY <1>1, Invariance, PTL

(***************************************************************************)
(* A joint is never set in motion against its brake: only Drive does it,   *)
(* after Engage has released the brake.                                    *)
(***************************************************************************)
THEOREM ReleasedBeforeMotion == Spec => StartsReleased
<1>1. TypeOK /\ Inv /\ [Next]_vars => [~moving /\ moving' => ~(braked /\ engaged')]_vars
  <2> SUFFICES ASSUME Inv, Next, ~moving, moving' PROVE ~(braked /\ engaged')
    OBVIOUS
  <2> USE DEF devices, state, frictions, control, Alive
  <2>1. CASE Drive
    <3>1. spinner = "drive" /\ target /\ (engaged' <=> engaged)
      BY <2>1 DEF Drive
    <3> QED BY <3>1 DEF Inv, BrakeSet
  <2>2. CASE Load
    BY <2>2 DEF Load, Start, ReadConfiguration, MakeDevice, FailDevice, ServeDevice, FinishInit,
                UpdateFriction, Loaded
  <2>3. CASE Connect \/ Unload \/ Destroy
    BY <2>3 DEF Connect, CreateClient, AwaitService, RequestUrdf, AwaitResponse,
                Unload, Destroy, Clear, Cancel, Join
  <2>4. CASE Response \/ WorldUpdate \/ Describe \/ Shutdown
    BY <2>4 DEF Response, WorldUpdate, Describe, Shutdown
  <2>5. CASE Spinner \/ Command
    BY <2>1, <2>5 DEF Spinner, CheckStop, WakeUp, Engage, UpdateFriction, BrakeDone, Command,
                      ReadEncoder, SetVelocity, SetPosition, BrakeCommand
  <2> QED BY <2>2, <2>3, <2>4, <2>5 DEF Next
<1> QED BY <1>1, Invariance, PTL DEF Spec, StartsReleased

(***************************************************************************)
(* After the destructor nothing touches the joint: the spinner has ended   *)
(* and Gazebo's thread has no more steps.                                  *)
(***************************************************************************)
THEOREM NothingAfterwards == Spec => QuietWhenGone
<1>1. TypeOK /\ Inv /\ [Next]_vars => [gazebo = "gone" => UNCHANGED <<state, frictions>>]_vars
  <2> SUFFICES ASSUME Inv, Next, gazebo = "gone" PROVE UNCHANGED <<state, frictions>>
    OBVIOUS
  <2>1. spinner = "exited" BY DEF Inv, Joined
  <2> USE <2>1
  <2>2. ~Load
    BY DEF Load, Start, ReadConfiguration, MakeDevice, FailDevice, ServeDevice, FinishInit,
           UpdateFriction, Loaded, Within
  <2>3. ~Connect /\ ~Unload /\ ~Destroy /\ ~Response /\ ~WorldUpdate
    BY DEF Connect, CreateClient, AwaitService, RequestUrdf, AwaitResponse, Unload, Destroy,
           Clear, Cancel, Join, Response, WorldUpdate
  <2>4. ~Spinner /\ ~Command
    BY DEF Spinner, CheckStop, WakeUp, Engage, Drive, UpdateFriction, Within, BrakeDone, Command,
           ReadEncoder, SetVelocity, SetPosition, BrakeCommand, Callback
  <2>5. Describe \/ Shutdown BY <2>2, <2>3, <2>4 DEF Next
  <2> QED BY <2>5 DEF Describe, Shutdown
<1> QED BY <1>1, Invariance, PTL DEF Spec, QuietWhenGone

-----------------------------------------------------------------------------
(***************************************************************************)
(* OnlyUnloadKills: once the joint is complete, nothing but the unloading  *)
(* of the plugin makes a process that uses it crash: until the destructor  *)
(* clears joints_ the devices' weak pointers lead to a Joint.              *)
(***************************************************************************)
OnlyUnloadKills ==
  [][initialized /\ gazebo # "crashed" /\ gazebo' = "crashed" =>
       gazebo \in {"cancel", "join"}]_vars

\* A joint is initialized while Load holds it, and dropped by Clear alone.
Held ==
  /\ gazebo = "load" => lives
  /\ initialized => \/ lives /\ gazebo \notin {"start", "configure", "load"}
                    \/ gazebo \in {"cancel", "join", "gone", "crashed", "threw"}
\* The spinner has ended, or the process, when Gazebo's thread is done.
Ended ==
  /\ gazebo = "crashed" <=> spinner = "crashed"
  /\ gazebo = "gone" => spinner = "exited"
  /\ gazebo = "threw" <=> spinner = "threw"

LEMMA HeldInit == Init => Held /\ Ended
BY DEF Init, Held, Ended

LEMMA HeldStep == ASSUME TypeOK, Held, Ended, [Next]_vars PROVE Held' /\ Ended'
<1> USE DEF Held, Ended, devices, state, frictions, control, Alive, Crash, Callback
<1>1. CASE Start BY <1>1 DEF Start
<1>2. CASE ReadConfiguration BY <1>2 DEF ReadConfiguration
<1>3. CASE MakeDevice \/ ServeDevice BY <1>3 DEF MakeDevice, ServeDevice
<1>4. CASE FailDevice BY <1>4 DEF FailDevice
<1>5. CASE FinishInit BY <1>5 DEF FinishInit
<1>6. CASE UpdateFriction("gazebo") \/ Loaded BY <1>6 DEF UpdateFriction, Loaded
<1>7. CASE Connect
  BY <1>7 DEF Connect, CreateClient, AwaitService, RequestUrdf, AwaitResponse, Refuse
<1>8. CASE Unload \/ Clear \/ Cancel BY <1>8 DEF Unload, Clear, Cancel
<1>9. CASE Join BY <1>9 DEF Join
<1>10. CASE CheckStop BY <1>10 DEF CheckStop
<1>11. CASE WakeUp \/ Response \/ ReadEncoder BY <1>11 DEF WakeUp, Response, ReadEncoder
<1>12. CASE Engage \/ Drive BY <1>12 DEF Engage, Drive
<1>13. CASE UpdateFriction("spinner") \/ BrakeDone BY <1>13 DEF UpdateFriction, BrakeDone
<1>14. CASE SetPosition BY <1>14 DEF SetPosition
<1>15. ASSUME NEW b \in BOOLEAN, SetVelocity(b) PROVE Held' /\ Ended'
  BY <1>15 DEF SetVelocity
<1>16. ASSUME NEW b \in BOOLEAN, BrakeCommand(b) PROVE Held' /\ Ended'
  BY <1>16 DEF BrakeCommand
<1>17. CASE WorldUpdate BY <1>17 DEF WorldUpdate
<1>18. CASE Describe \/ Shutdown BY <1>18 DEF Describe, Shutdown
<1>19. CASE UNCHANGED vars BY <1>19 DEF vars
<1> QED
  BY <1>1, <1>2, <1>3, <1>4, <1>5, <1>6, <1>7, <1>8, <1>9, <1>10, <1>11, <1>12, <1>13, <1>14,
     <1>15, <1>16, <1>17, <1>18, <1>19
  DEF Next, Load, Destroy, Spinner, Command

\* Once a joint has all its devices, Gazebo only dies of it while the plugin is
\* being unloaded.
THEOREM CompleteJointIsSafe == Spec => OnlyUnloadKills
<1>1. Held /\ Ended /\ [Next]_vars =>
        [initialized /\ gazebo # "crashed" /\ gazebo' = "crashed" =>
           gazebo \in {"cancel", "join"}]_vars
  <2> SUFFICES ASSUME Held, Ended, Next, initialized, gazebo # "crashed", gazebo' = "crashed"
               PROVE  gazebo \in {"cancel", "join"}
    OBVIOUS
  <2>1. ~Load
    BY DEF Load, Start, ReadConfiguration, MakeDevice, FailDevice, ServeDevice, FinishInit,
           UpdateFriction, Loaded, Held
  <2>2. ~Connect /\ ~Unload /\ ~Destroy /\ ~Response /\ ~WorldUpdate /\ ~Describe /\ ~Shutdown
    BY DEF Connect, CreateClient, AwaitService, RequestUrdf, AwaitResponse, Refuse, Unload,
           Destroy, Clear, Cancel, Join, Response, WorldUpdate, Describe, Shutdown
  <2>3. ~lives /\ spinner = "wait"
    BY <2>1, <2>2
    DEF Next, Spinner, CheckStop, WakeUp, Engage, Drive, UpdateFriction, BrakeDone, Command,
        ReadEncoder, SetVelocity, SetPosition, BrakeCommand, Callback
  <2> QED BY <2>3 DEF Held, Ended
<1> QED BY <1>1, HeldInit, HeldStep, TypeCorrect, PTL DEF Spec, OnlyUnloadKills

-----------------------------------------------------------------------------
(***************************************************************************)
(* JoinCanEnd: while the destructor waits for the spinner, the spinner has *)
(* a step to take, from wherever it was when do_stop_ was set: the wake-up *)
(* of exec_->cancel() is not lost, and no wait begins after it.            *)
(***************************************************************************)
JoinCanEnd ==
  gazebo = "join" =>
    \/ spinner \in {"exited", "check", "engage", "drive", "brake"}
    \/ spinner = "wait" /\ woken

(***************************************************************************)
(* EndsAtTheCheck: and its next look at do_stop_ is its last.              *)
(***************************************************************************)
EndsAtTheCheck ==
  [][gazebo = "join" /\ spinner = "check" /\ spinner' # spinner => spinner' = "exited"]_vars

\* do_stop_ is set as long as the destructor runs, and the spinner has begun.
Stopping ==
  /\ gazebo \in {"clear", "cancel", "join"} => stop
  /\ gazebo # "start" => spinner # "none"
  /\ gazebo = "join" /\ spinner = "wait" => woken

LEMMA StoppingStep == ASSUME TypeOK, Stopping, [Next]_vars PROVE Stopping'
<1> USE DEF Stopping, devices, state, frictions, control, Alive, Crash, Callback
<1>1. CASE Load
  BY <1>1 DEF Load, Start, ReadConfiguration, MakeDevice, ServeDevice, FailDevice, FinishInit,
              UpdateFriction, Loaded
<1>2. CASE Connect
  BY <1>2 DEF Connect, CreateClient, AwaitService, RequestUrdf, AwaitResponse, Refuse
<1>3. CASE Unload \/ Destroy BY <1>3 DEF Unload, Destroy, Clear, Cancel, Join
<1>4. CASE CheckStop BY <1>4 DEF CheckStop
<1>5. CASE WakeUp \/ Engage \/ Drive \/ UpdateFriction("spinner") \/ BrakeDone
  BY <1>5 DEF WakeUp, Engage, Drive, UpdateFriction, BrakeDone
<1>6. CASE Response BY <1>6 DEF Response
<1>7. CASE Command BY <1>7 DEF Command, ReadEncoder, SetPosition, SetVelocity, BrakeCommand
<1>8. CASE WorldUpdate \/ Describe \/ Shutdown
  BY <1>8 DEF WorldUpdate, Describe, Shutdown
<1>9. CASE UNCHANGED vars BY <1>9 DEF vars
<1> QED BY <1>1, <1>2, <1>3, <1>4, <1>5, <1>6, <1>7, <1>8, <1>9 DEF Next, Spinner

\* The destructor's cancel() is never lost to the spinner, and the spinner ends
\* where it checks do_stop_.
THEOREM DestructorCanEnd == Spec => []JoinCanEnd /\ EndsAtTheCheck
<1>1. Init => Stopping
  BY DEF Init, Stopping
<1>2. TypeOK /\ Ended /\ Stopping => JoinCanEnd
  <2> SUFFICES ASSUME TypeOK, Ended, Stopping, gazebo = "join" PROVE JoinCanEnd
    BY DEF JoinCanEnd
  <2>1. spinner \in {"check", "wait", "engage", "drive", "brake", "exited", "threw"}
    BY DEF TypeOK, Ended, Stopping
  <2> QED BY <2>1 DEF Ended, Stopping, JoinCanEnd
<1>3. Stopping /\ [Next]_vars =>
        [gazebo = "join" /\ spinner = "check" /\ spinner' # spinner => spinner' = "exited"]_vars
  <2> SUFFICES ASSUME Stopping, Next, gazebo = "join", spinner = "check", spinner' # spinner
               PROVE  spinner' = "exited"
    OBVIOUS
  <2>1. stop BY DEF Stopping
  <2>2. CheckStop
    BY DEF Next, Load, Start, ReadConfiguration, MakeDevice, ServeDevice, FailDevice, FinishInit,
       UpdateFriction, Loaded, Within, Connect, CreateClient, AwaitService, RequestUrdf,
       AwaitResponse, Unload, Destroy, Clear, Cancel, Join, Spinner, WakeUp, Engage, Drive,
       BrakeDone, Response, Command, ReadEncoder, SetPosition, SetVelocity, BrakeCommand,
       Callback, WorldUpdate, Describe, Shutdown
  <2> QED BY <2>1, <2>2 DEF CheckStop
<1> QED
  BY <1>1, <1>2, <1>3, HeldInit, HeldStep, StoppingStep, TypeCorrect, PTL
  DEF Spec, EndsAtTheCheck

-----------------------------------------------------------------------------
(***************************************************************************)
(* AnswererAlive: unless rclcpp is shut down, Load never waits for an      *)
(* answer that nobody will hand out: its request is pending or answered,   *)
(* and the spinner runs (spin_() has begun before and ends only after the  *)
(* destructor has set do_stop_).                                           *)
(***************************************************************************)
AnswererAlive ==
  gazebo = "response" /\ ok =>
    /\ reply # "none"
    /\ spinner \in {"check", "wait", "engage", "drive", "brake"}

\* While Load is under way do_stop_ is not set, and the spinner goes on.
Loading == {"start", "configure", "load", "friction", "control", "service", "request",
            "response", "running"}

SpinnerGoesOn ==
  /\ gazebo \in Loading => ~stop
  /\ gazebo \in Loading \ {"start"} /\ ok => spinner \notin {"none", "exited"}
  /\ gazebo = "start" => ok /\ spinner = "none"
  /\ gazebo = "response" => reply # "none"

LEMMA SpinnerGoesOnStep == ASSUME TypeOK, SpinnerGoesOn, [Next]_vars PROVE SpinnerGoesOn'
<1> USE DEF SpinnerGoesOn, Loading, devices, state, frictions, control, Alive, Crash, Callback
<1>1. CASE Load
  <2>1. CASE Start BY <2>1 DEF Start
  <2>2. CASE ReadConfiguration BY <2>2 DEF ReadConfiguration
  <2>3. CASE MakeDevice \/ ServeDevice \/ FailDevice
    BY <2>3 DEF MakeDevice, ServeDevice, FailDevice
  <2>4. CASE FinishInit \/ UpdateFriction("gazebo") \/ Loaded
    BY <2>4 DEF FinishInit, UpdateFriction, Loaded
  <2> QED BY <1>1, <2>1, <2>2, <2>3, <2>4 DEF Load
<1>2. CASE Connect
  BY <1>2 DEF Connect, CreateClient, AwaitService, RequestUrdf, AwaitResponse, Refuse
<1>3. CASE Unload \/ Destroy BY <1>3 DEF Unload, Destroy, Clear, Cancel, Join
<1>4. CASE CheckStop BY <1>4 DEF CheckStop
<1>5. CASE WakeUp \/ Engage \/ Drive \/ UpdateFriction("spinner") \/ BrakeDone
  BY <1>5 DEF WakeUp, Engage, Drive, UpdateFriction, Within, BrakeDone
<1>6. CASE Response
  <2>1. spinner = "wait" /\ spinner' = "check" /\ UNCHANGED <<gazebo, stop, ok>>
    BY <1>6 DEF Response
  <2>2. gazebo = "response" => reply' # "none"
    BY <1>6 DEF Response, TypeOK, Descriptions
  <2> QED BY <2>1, <2>2
<1>7. CASE Command BY <1>7 DEF Command, ReadEncoder, SetPosition, SetVelocity, BrakeCommand
<1>8. CASE WorldUpdate \/ Describe \/ Shutdown
  BY <1>8 DEF WorldUpdate, Describe, Shutdown
<1>9. CASE UNCHANGED vars BY <1>9 DEF vars
<1> QED BY <1>1, <1>2, <1>3, <1>4, <1>5, <1>6, <1>7, <1>8, <1>9 DEF Next, Spinner

\* While Load waits for an answer, the thread that brings it is there, unless
\* the context was shut down.
THEOREM LoadIsAnswered == Spec => []AnswererAlive
<1>1. Init => SpinnerGoesOn
  BY DEF Init, SpinnerGoesOn, Loading
<1>2. TypeOK /\ Ended /\ SpinnerGoesOn => AnswererAlive
  BY DEF TypeOK, Ended, SpinnerGoesOn, Loading, AnswererAlive
<1> QED
  BY <1>1, <1>2, HeldInit, HeldStep, SpinnerGoesOnStep, TypeCorrect, PTL DEF Spec
=============================================================================
