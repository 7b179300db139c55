--------------------------- MODULE HardwareManager ---------------------------
(***************************************************************************)
(* The process of openvmp_hardware_manager.  A bring-up thread constructs  *)
(* the drivers one after another, each with a node of its own that it adds *)
(* to the executor, and sends the driver's init steps as service requests  *)
(* whose answers it waits for.  The main thread spins the executor, whose  *)
(* worker threads run the services and hand out the answers, until an      *)
(* interrupt shuts the context down.                                       *)
(*                                                                         *)
(* A driver and its steps are as HardwareConfiguration describes them.     *)
(***************************************************************************)
EXTENDS HardwareConfiguration

CONSTANTS
  Documents  \* the hardware.yaml files the manager may be started with

ASSUME DocumentsAssumption == Documents \subseteq Document

\* The sequences of drivers to construct, for real and for fake hardware.
Plans == {Plan(doc, useFake) : doc \in Documents, useFake \in BOOLEAN}

VARIABLES
  plan,      \* the drivers, in the order of Node's constructor
  context,   \* the rclcpp context: "valid" or "shutdown"
  main,      \* main thread: "starting", "spinning", "returned"; "ended": the process
  thread,    \* bring-up thread: "construct", "factory", "init", "response", "finished"
  next,      \* the driver under construction
  step,      \* the init step it is at
  nodes,     \* the drivers whose node the executor has
  up,        \* the drivers whose factory has returned: their interface is there
  requests,  \* requests on their way to a service
  responses, \* responses on their way to their client
  answered,  \* requests whose future is ready
  handled    \* requests a driver has carried out, in success or in failure

bringUp == <<thread, next, step>>
wires == <<requests, responses, answered, handled>>
vars == <<plan, context, main, bringUp, nodes, up, wires>>

-----------------------------------------------------------------------------
\* driver_classes: the types that have a factory.
DriverTypes(class) ==
  CASE class = "bus"      -> {"microcontroller", "modbus_rtu", "serial_bus"}
    [] class = "brake"    -> {"fake", "switch"}
    [] class = "encoder"  -> {"fake", "amt21"}
    [] class = "actuator" -> {"fake", "em2rs", "pwm"}

Supported(i) == plan[i].type \in DriverTypes(plan[i].class)

\* The type of service that the constructor has a client for.
StepType == "remote_modbus/srv/ConfiguredHoldingRegisterWrite"

Steps == UNION {{i} \X DOMAIN plan[i].init : i \in {j \in DOMAIN plan : Supported(j)}}

TypeOf(p) == plan[p[1]].init[p[2]].type
Valued(p) == plan[p[1]].init[p[2]].valued

\* The steps that are requested: those of the one type.
Work == {p \in Steps : TypeOf(p) = StepType}

(***************************************************************************)
(* A service is there once the interface of its driver is (external: the   *)
(* driver packages), and can do its work once the bus of the driver is.    *)
(***************************************************************************)
Offered(p) == p[1] \in up /\ plan[p[1]].init[p[2]].offered

BusUp(p) == LET b == plan[p[1]].needs IN b = 0 \/ b \in up

-----------------------------------------------------------------------------
Init ==
  /\ plan \in Plans
  /\ context = "valid"
  /\ main = "starting"
  /\ thread = "construct" /\ next = 1 /\ step = 1
  /\ nodes = {} /\ up = {}
  /\ requests = {} /\ responses = {} /\ answered = {} /\ handled = {}

-----------------------------------------------------------------------------
(* The bring-up thread: Node::Node and Driver::Driver.                     *)

Building == main # "ended" /\ next \in DOMAIN plan

\* No entry in driver_classes: a fake driver that is not needed, or an error.
SkipDriver ==
  /\ Building /\ thread = "construct" /\ ~Supported(next)
  /\ next' = next + 1
  /\ UNCHANGED <<plan, context, main, thread, step, nodes, up, wires>>

ConstructWithoutExecutor ==
  /\ Building /\ thread = "construct" /\ Supported(next)
  /\ IF context = "valid" THEN thread' = "factory" /\ UNCHANGED main
     ELSE main' = "ended" /\ UNCHANGED thread
  /\ UNCHANGED <<plan, context, next, step, nodes, up, wires>>

\* The driver's node is created and added to the executor.  Creating a node
\* throws when the context is shut down, which ends the process.
Construct ==
  /\ Building /\ thread = "construct" /\ Supported(next)
  /\ IF context = "valid"
     THEN thread' = "factory" /\ nodes' = nodes \cup {next} /\ UNCHANGED main
     ELSE main' = "ended" /\ UNCHANGED <<thread, nodes>>
  /\ UNCHANGED <<plan, context, next, step, up, wires>>

Factory ==
  /\ Building /\ thread = "factory"
  /\ up' = up \cup {next}
  /\ thread' = "init" /\ step' = 1
  /\ UNCHANGED <<plan, context, main, next, nodes, wires>>

Current == <<next, step>>
Initializing == Building /\ thread = "init" /\ step \in DOMAIN plan[next].init

\* "Unsupported initialization step type".
SkipStep ==
  /\ Initializing /\ TypeOf(Current) # StepType
  /\ step' = step + 1
  /\ UNCHANGED <<plan, context, main, thread, next, nodes, up, wires>>

RequestAndGoOn ==
  /\ Initializing /\ TypeOf(Current) = StepType /\ Valued(Current)
  /\ Offered(Current) \/ context = "shutdown"
  /\ requests' = requests \cup {Current}
  /\ step' = step + 1
  /\ UNCHANGED <<plan, context, main, thread, next, nodes, up, responses, answered, handled>>

RequestAtOnce ==
  /\ Initializing /\ TypeOf(Current) = StepType /\ Valued(Current)
  /\ requests' = requests \cup {Current}
  /\ thread' = "response"
  /\ UNCHANGED <<plan, context, main, next, step, nodes, up, responses, answered, handled>>

\* wait_for_service() waits without a timeout, but returns, with a result
\* nobody looks at, when the context is shut down.  Then async_send_request.
Request ==
  /\ Initializing /\ TypeOf(Current) = StepType /\ Valued(Current)
  /\ Offered(Current) \/ context = "shutdown"
  /\ requests' = requests \cup {Current}
  /\ thread' = "response"
  /\ UNCHANGED <<plan, context, main, next, step, nodes, up, responses, answered, handled>>

\* An exception that nobody catches ends the process: a client cannot be
\* created after a shutdown, and a value that is no integer is found out only
\* when the service is there.
Throw ==
  /\ Initializing /\ TypeOf(Current) = StepType
  /\ context = "shutdown" \/ (Offered(Current) /\ ~Valued(Current))
  /\ main' = "ended"
  /\ UNCHANGED <<plan, context, bringUp, nodes, up, wires>>

\* f.wait() returns; the response's exception_code is not looked at.
Response ==
  /\ Building /\ thread = "response" /\ Current \in answered
  /\ thread' = "init" /\ step' = step + 1
  /\ UNCHANGED <<plan, context, main, next, nodes, up, wires>>

DriverDone ==
  /\ Building /\ thread = "init" /\ step \notin DOMAIN plan[next].init
  /\ thread' = "construct" /\ next' = next + 1
  /\ UNCHANGED <<plan, context, main, step, nodes, up, wires>>

\* The manager's own node, without callbacks, joins the executor.
Finish ==
  /\ main # "ended" /\ thread = "construct" /\ next \notin DOMAIN plan
  /\ thread' = "finished"
  /\ UNCHANGED <<plan, context, main, next, step, nodes, up, wires>>

BringUp == \/ SkipDriver \/ Construct \/ Factory \/ SkipStep
           \/ Request \/ Throw \/ Response \/ DriverDone \/ Finish

-----------------------------------------------------------------------------
(* The executor's workers.  A node's callbacks run one at a time; those of *)
(* different nodes, and requests to one node, in any order.                *)

Executing == main = "spinning" /\ context = "valid"

Serve(p) ==
  /\ Executing
  /\ p \in requests /\ p[1] \in nodes /\ Offered(p) /\ BusUp(p)
  /\ requests' = requests \ {p}
  /\ responses' = responses \cup {p}
  /\ handled' = handled \cup {p}
  /\ UNCHANGED <<plan, context, main, bringUp, nodes, up, answered>>

Answer(p) ==
  /\ Executing
  /\ p \in responses /\ p[1] \in nodes
  /\ responses' = responses \ {p}
  /\ answered' = answered \cup {p}
  /\ UNCHANGED <<plan, context, main, bringUp, nodes, up, requests, handled>>

-----------------------------------------------------------------------------
(* The main thread, and the signal handler of rclcpp.                      *)

Spin ==
  /\ main = "starting"
  /\ main' = IF context = "valid" THEN "spinning" ELSE "returned"
  /\ UNCHANGED <<plan, context, bringUp, nodes, up, wires>>

Interrupt ==
  /\ main # "ended" /\ context = "valid"
  /\ context' = "shutdown"
  /\ UNCHANGED <<plan, main, bringUp, nodes, up, wires>>

SpinReturns ==
  /\ main = "spinning" /\ context = "shutdown"
  /\ main' = "returned"
  /\ UNCHANGED <<plan, context, bringUp, nodes, up, wires>>

ExitJoining ==
  /\ main = "returned" /\ thread = "finished"
  /\ main' = "ended"
  /\ UNCHANGED <<plan, context, bringUp, nodes, up, wires>>

\* main returns while "thread" is neither joined nor detached: its destructor
\* calls std::terminate, wherever the bring-up is.
Exit ==
  /\ main = "returned"
  /\ main' = "ended"
  /\ UNCHANGED <<plan, context, bringUp, nodes, up, wires>>

Main == Spin \/ SpinReturns \/ Exit

Next == BringUp \/ Main \/ Interrupt \/ \E p \in Steps : Serve(p) \/ Answer(p)

Spec == Init /\ [][Next]_vars

(***************************************************************************)
(* The threads are scheduled and the executor gets to every callback that  *)
(* is ready.  Nothing is assumed about interrupts.                         *)
(***************************************************************************)
FairSpec ==
  /\ Spec
  /\ WF_vars(BringUp) /\ WF_vars(Main)
  /\ WF_vars(\E p \in Steps : Serve(p)) /\ WF_vars(\E p \in Steps : Answer(p))

-----------------------------------------------------------------------------
(***************************************************************************)
(* The types of the variables.  Every interface belongs to a node that the *)
(* executor spins.                                                         *)
(***************************************************************************)
TypeOK ==
  /\ plan \in Plans
  /\ context \in {"valid", "shutdown"}
  /\ main \in {"starting", "spinning", "returned", "ended"}
  /\ thread \in {"construct", "factory", "init", "response", "finished"}
  /\ next \in Nat \ {0} /\ step \in Nat \ {0}
  /\ nodes \subseteq DOMAIN plan /\ up \subseteq nodes
  /\ requests \subseteq Steps /\ responses \subseteq Steps
  /\ answered \subseteq Steps /\ handled \subseteq Steps

(***************************************************************************)
(* No init step asks a device that is not there: while the context is      *)
(* valid, a request is only ever under way to a driver whose interface is  *)
(* up and whose node the executor spins, and nothing else is under way     *)
(* (Driver waits for the service before, and for the answer after, it      *)
(* sends the request).                                                     *)
(***************************************************************************)
RequestsReachTheirDriver ==
  context = "valid" =>
    /\ \A p \in requests : Offered(p) /\ p[1] \in nodes
    /\ Cardinality(requests \cup responses) <= 1

(***************************************************************************)
(* The buses come first: no device that uses a bus exists before every bus *)
(* that has a driver is up (the two loops of Node's constructor).          *)
(***************************************************************************)
BusesFirst ==
  \A i \in nodes, b \in DOMAIN plan :
    plan[i].class # "bus" /\ plan[b].class = "bus" /\ Supported(b) => b \in up

(***************************************************************************)
(* The threads together implement Commissioning: every init step of the    *)
(* supported type is carried out once, in the order of the configuration,  *)
(* and the bring-up finishes only after the last.                          *)
(***************************************************************************)
Promise == INSTANCE Commissioning WITH work <- Work, ready <- thread = "finished"
ImplementsCommissioning == Promise!Spec

Serviceable ==
  \A p \in Work :
    /\ plan[p[1]].init[p[2]].offered /\ Valued(p)
    /\ LET b == plan[p[1]].needs
       IN  b = 0 \/ (b \in DOMAIN plan /\ b < p[1] /\ Supported(b))

(***************************************************************************)
(* When every step has a value and names a service that its driver offers, *)
(* on a bus that is brought up before, the bring-up finishes unless it is  *)
(* interrupted: no wait in Driver's constructor waits for something that   *)
(* can only happen after it.                                               *)
(***************************************************************************)
BringUpFinishes == Serviceable ~> (thread = "finished" \/ context = "shutdown")

(***************************************************************************)
(* An interrupt ends the process, also while the bring-up thread is stuck  *)
(* in a wait that will never end.                                          *)
(***************************************************************************)
InterruptEndsProcess == (context = "shutdown") ~> (main = "ended")
=============================================================================
