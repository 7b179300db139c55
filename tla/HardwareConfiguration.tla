------------------------ MODULE HardwareConfiguration ------------------------
(***************************************************************************)
(* What package openvmp_hardware_configuration makes of a hardware.yaml,   *)
(* and the order in which the node of openvmp_hardware_manager constructs  *)
(* its drivers from that.                                                  *)
(*                                                                         *)
(* A document is a sequence of joints and a sequence of buses.  A joint    *)
(* has a name (a number, in the order of std::string; NoName if the key is *)
(* missing) and the devices brake, actuator and encoder; a bus has a path  *)
(* (whether the key is there) and a driver.  A device or a bus is          *)
(* described by its "driver" key:                                          *)
(*   [type, init, needs]: the driver's type, its init steps and the bus    *)
(*                        its parameters name (NoBus: none);               *)
(*   NoDriver: the device is there and has no "driver" key;                *)
(*   Absent:   the device itself is not there.                             *)
(* A step is its service type, whether the driver offers its service, and  *)
(* whether it has a "value" that is an integer.                            *)
(* A document whose joint has no actuator does not load: as<std::string>() *)
(* of its missing type throws.                                             *)
(***************************************************************************)
EXTENDS Naturals, Sequences, FiniteSets

NoName == 0
NoBus == 0
NoDriver == [type |-> "fake", init |-> <<>>, needs |-> NoBus]
Absent == [type |-> "absent", init |-> <<>>, needs |-> NoBus]

\* Any string (the provers do not know that "fake" is one).
Type == STRING \cup {"fake"}

Step == [type : STRING, offered : BOOLEAN, valued : BOOLEAN]
Description == [type : Type, init : Seq(Step), needs : Nat]
JointNode == [name : Nat, brake : Description, actuator : Description \ {Absent},
              encoder : Description]
BusNode == [path : BOOLEAN, driver : Description]
Document == [joints : Seq(JointNode), buses : Seq(BusNode)]

\* One driver as the manager constructs it.
Driver == [class : {"bus", "brake", "actuator", "encoder"}, id : Nat,
           type : Type, init : Seq(Step), needs : Nat]

\* The members of a finite set in the order of their keys.
InOrder(K, key) ==
  CHOOSE s \in [1..Cardinality(K) -> K] :
    \A k, l \in 1..Cardinality(K) : k < l => key[s[k]] < key[s[l]]

(***************************************************************************)
(* Configuration's joints_: std::map::insert keeps the first joint of a    *)
(* name, joints without a name are skipped, and the map is in the order of *)
(* its keys.                                                               *)
(***************************************************************************)
FirstOfItsName(joints, i) ==
  joints[i].name # NoName /\ \A j \in 1..(i - 1) : joints[j].name # joints[i].name

KeptJoints(joints) ==
  LET kept == {i \in DOMAIN joints : FirstOfItsName(joints, i)}
      order == InOrder(kept, [i \in kept |-> joints[i].name])
  IN  [k \in DOMAIN order |-> joints[order[k]]]

\* Configuration's buses_: in the order of the file, without those that have no path.
KeptBuses(buses) ==
  LET kept == {i \in DOMAIN buses : buses[i].path}
      order == InOrder(kept, [i \in kept |-> i])
  IN  [k \in DOMAIN order |-> buses[order[k]]]

(***************************************************************************)
(* One call of the manager's Driver constructor.  With fake hardware the   *)
(* configuration is dropped.                                               *)
(***************************************************************************)
Entry(class, id, driver, useFake) ==
  LET d == IF useFake THEN NoDriver ELSE driver
  IN  [class |-> class, id |-> id, type |-> d.type, init |-> d.init, needs |-> d.needs]

BusDrivers(buses, useFake) ==
  [i \in DOMAIN buses |-> Entry("bus", i, buses[i].driver, useFake)]

Classes == <<"brake", "actuator", "encoder">>

\* Encoder is constructed, and then fake, even when its key is missing.
Device(joint, c) ==
  IF c = 3 /\ joint.encoder = Absent THEN NoDriver ELSE joint[Classes[c]]

\* Joint by joint, the devices that are there in the order of Classes.
AllJointDrivers(joints, useFake) ==
  LET there == {d \in (DOMAIN joints) \X (1..3) : Device(joints[d[1]], d[2]) # Absent}
      order == InOrder(there, [d \in there |-> 3 * d[1] + d[2]])
  IN  [n \in DOMAIN order |->
         LET k == order[n][1]
             c == order[n][2]
         IN  Entry(Classes[c], joints[k].name, Device(joints[k], c), useFake)]

JointsFirst(doc, useFake) ==
  AllJointDrivers(KeptJoints(doc.joints), useFake)
  \o BusDrivers(KeptBuses(doc.buses), useFake)

\* Node::Node: the buses, then the joints.
Plan(doc, useFake) ==
  BusDrivers(KeptBuses(doc.buses), useFake)
  \o AllJointDrivers(KeptJoints(doc.joints), useFake)
=============================================================================
