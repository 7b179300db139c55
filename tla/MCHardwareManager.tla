-------------------------- MODULE MCHardwareManager --------------------------
(***************************************************************************)
(* Instances of HardwareManager for TLC: small hardware configuration      *)
(* files.                                                                  *)
(***************************************************************************)
EXTENDS HardwareManager

SetRegister == [type |-> StepType, offered |-> TRUE, valued |-> TRUE]
SetUnknown  == [type |-> StepType, offered |-> FALSE, valued |-> TRUE]
SetNothing  == [type |-> StepType, offered |-> TRUE, valued |-> FALSE]
\* The form in which openvmp_robot_don1/config/hardware.yaml writes its steps.
SetShipped  == [type |-> "ros2_modbus/srv/ConfiguredHoldingRegisterWrite",
                offered |-> TRUE, valued |-> TRUE]

Described(type, init, bus) == [type |-> type, init |-> init, needs |-> bus]
Stepper(init, bus) == Described("em2rs", init, bus)
Joint(name, brake, actuator, encoder) ==
  [name |-> name, brake |-> brake, actuator |-> actuator, encoder |-> encoder]
Bus(path, driver) == [path |-> path, driver |-> driver]

Modbus == Bus(TRUE, Described("modbus_rtu", <<>>, NoBus))
Serial == Bus(TRUE, Described("serial_bus", <<>>, NoBus))

\* Two buses, one entry without a path; two joints out of order, each with
\* two steps, and a third that repeats a name.
TwoJoints ==
  [buses |-> <<Modbus, Bus(FALSE, NoDriver), Serial>>,
   joints |-> <<Joint(2, NoDriver, Stepper(<<SetRegister, SetRegister>>, 1),
                      Described("amt21", <<>>, 2)),
                Joint(1, Absent, Stepper(<<SetRegister, SetRegister>>, 2), NoDriver),
                Joint(2, Absent, Stepper(<<SetRegister>>, 1), Absent)>>]

\* A bus without a driver, which a step needs; a type that does not exist.
NoBusDriver ==
  [buses |-> <<Bus(TRUE, NoDriver)>>,
   joints |-> <<Joint(1, Described("servo", <<SetRegister>>, NoBus),
                      Stepper(<<SetRegister>>, 1), Absent)>>]

\* A step that names a service its driver does not have.
NoService ==
  [buses |-> <<Modbus>>,
   joints |-> <<Joint(1, NoDriver, Stepper(<<SetRegister, SetUnknown>>, 1), NoDriver)>>]

\* A step whose value is missing.
NoValue ==
  [buses |-> <<Modbus>>,
   joints |-> <<Joint(1, NoDriver, Stepper(<<SetRegister, SetNothing>>, 1), NoDriver)>>]

\* One joint as the robot Don1 is configured, and one step of each type.
Don1 ==
  [buses |-> <<Modbus>>,
   joints |-> <<Joint(1, NoDriver, Stepper(<<SetShipped, SetRegister>>, 1),
                      Described("amt21", <<>>, 1))>>]

SmallDocuments == {TwoJoints, NoBusDriver, NoService, NoValue, Don1}
=============================================================================
