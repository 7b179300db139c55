----------------------- MODULE HardwareManager_proofs -----------------------
(***************************************************************************)
(* Proofs about HardwareManager, for every plan: the types, that no        *)
(* request goes to a driver that is not there, and that the threads        *)
(* implement Commissioning.                                                *)
(***************************************************************************)
EXTENDS HardwareManager, HardwareConfiguration_proofs

(***************************************************************************)
(* The steps of the drivers before n, and of driver n before its step s.   *)
(***************************************************************************)
Done(n, s) == {p \in Work : p[1] < n \/ (p[1] = n /\ p[2] < s)}

Earlier(n) == {p \in Work : p[1] < n}

(***************************************************************************)
(* What has been carried out tells where the bring-up thread is, and the   *)
(* other way round; at most its current request is under way.              *)
(***************************************************************************)
Progress ==
  /\ thread \in {"construct", "factory"} => handled = Earlier(next)
  /\ thread = "init" => handled = Done(next, step)
  /\ thread = "response" =>
       /\ Current \in Work
       /\ handled = Done(next, step) \cup (IF Current \in requests THEN {} ELSE {Current})
       /\ Current \in requests \/ Current \in responses \/ Current \in answered
  /\ thread = "finished" => handled = Work
  /\ answered \subseteq handled

InFlight ==
  /\ thread # "response" => requests = {} /\ responses = {}
  /\ requests \subseteq {Current} /\ responses \subseteq {Current}
  /\ responses \subseteq handled /\ responses \cap answered = {}
  /\ context = "valid" => \A p \in requests : Offered(p)

Constructed ==
  /\ thread \in {"factory", "init", "response"} =>
       next \in DOMAIN plan /\ Supported(next) /\ next \in nodes
  /\ thread \in {"init", "response"} => next \in up

IInv == TypeOK /\ Progress /\ InFlight /\ Constructed

-----------------------------------------------------------------------------
(***************************************************************************)
(* The plans that documents give: sequences of drivers, the buses first    *)
(* and no driver twice.                                                    *)
(***************************************************************************)
LEMMA PlansOfDocuments ==
  \A p \in Plans : p \in Seq(Driver) /\ BusesAhead(p) /\ NoDriverTwice(p)
BY DocumentsAssumption, PlanOfDocument DEF Plans

(***************************************************************************)
(* Steps are pairs of a supported driver and a position in its init.       *)
(***************************************************************************)
LEMMA StepPairs ==
  ASSUME plan \in Seq(Driver)
  PROVE  /\ DOMAIN plan = 1..Len(plan) /\ Len(plan) \in Nat
         /\ \A i \in DOMAIN plan : /\ DOMAIN plan[i].init = 1..Len(plan[i].init)
                                   /\ Len(plan[i].init) \in Nat
         /\ \A i, j : <<i, j>> \in Steps <=>
              i \in DOMAIN plan /\ Supported(i) /\ j \in DOMAIN plan[i].init
         /\ \A p \in Steps : /\ p = <<p[1], p[2]>>
                             /\ p[1] \in Nat \ {0} /\ p[2] \in Nat \ {0}
<1>1. /\ DOMAIN plan = 1..Len(plan) /\ Len(plan) \in Nat
      /\ \A i \in DOMAIN plan : plan[i] \in Driver
  OBVIOUS
<1>2. \A i \in DOMAIN plan : plan[i].init \in Seq(Step)
  BY <1>1 DEF Driver
<1>3. \A i \in DOMAIN plan : /\ DOMAIN plan[i].init = 1..Len(plan[i].init)
                             /\ Len(plan[i].init) \in Nat
  BY <1>2
<1>4. ASSUME NEW i, NEW j
      PROVE  <<i, j>> \in Steps <=>
               i \in DOMAIN plan /\ Supported(i) /\ j \in DOMAIN plan[i].init
  BY DEF Steps
<1>5. ASSUME NEW p \in Steps
      PROVE  p = <<p[1], p[2]>> /\ p[1] \in Nat \ {0} /\ p[2] \in Nat \ {0}
  <2>1. PICK i \in DOMAIN plan : p \in {i} \X DOMAIN plan[i].init
    BY <1>5 DEF Steps
  <2>2. p = <<p[1], p[2]>> /\ p[1] = i /\ p[2] \in DOMAIN plan[i].init
    BY <2>1
  <2> QED BY <1>1, <1>3, <2>1, <2>2
<1> QED BY <1>1, <1>3, <1>4, <1>5

(***************************************************************************)
(* The plan never changes, and with it what is derived from it alone.      *)
(***************************************************************************)
LEMMA SamePlan ==
  ASSUME UNCHANGED plan
  PROVE  Steps' = Steps /\ Work' = Work /\ \A i : Supported(i)' = Supported(i)
BY DEF Steps, Work, TypeOf, Supported, DriverTypes

-----------------------------------------------------------------------------
(***************************************************************************)
(* The invariant holds of the initial states: nothing is done yet.         *)
(***************************************************************************)
LEMMA Initially == Init => IInv
<1> SUFFICES ASSUME Init PROVE IInv
  OBVIOUS
<1>1. plan \in Seq(Driver)
  BY PlansOfDocuments DEF Init
<1>2. TypeOK
  BY DEF Init, TypeOK
<1>3. Earlier(1) = {}
  <2>1. \A p \in Work : p[1] \in Nat \ {0}
    BY <1>1, StepPairs DEF Work
  <2> QED BY <2>1 DEF Earlier
<1> QED BY <1>2, <1>3 DEF Init, IInv, Progress, InFlight, Constructed

-----------------------------------------------------------------------------
(***************************************************************************)
(* What the sets of earlier steps are when the bring-up thread moves on.   *)
(***************************************************************************)
LEMMA SkippedDriver ==
  ASSUME TypeOK, plan \in Seq(Driver), ~Supported(next)
  PROVE  Earlier(next + 1) = Earlier(next)
<1>1. \A p \in Work : p[1] # next /\ p[1] \in Nat
  BY StepPairs DEF Work
<1> QED BY <1>1 DEF Earlier, TypeOK

(***************************************************************************)
(* Before a driver's first step, the steps done are those of the drivers   *)
(* before it.                                                              *)
(***************************************************************************)
LEMMA FirstStep ==
  ASSUME plan \in Seq(Driver)
  PROVE  Done(next, 1) = Earlier(next)
<1>1. \A p \in Work : p[2] \in Nat \ {0}
  BY StepPairs DEF Work
<1> QED BY <1>1 DEF Done, Earlier

(***************************************************************************)
(* One step on, the steps done grow by the current one, if it is of a type *)
(* that is carried out.                                                    *)
(***************************************************************************)
LEMMA NextStep ==
  ASSUME TypeOK, plan \in Seq(Driver)
  PROVE  /\ Current \notin Work => Done(next, step + 1) = Done(next, step)
         /\ Current \in Work => Done(next, step + 1) = Done(next, step) \cup {Current}
         /\ Current \notin Done(next, step)
<1>1. \A p \in Work : p = <<p[1], p[2]>> /\ p[1] \in Nat /\ p[2] \in Nat
  BY StepPairs DEF Work
<1>2. next \in Nat /\ step \in Nat
  BY DEF TypeOK
<1>3. Done(next, step + 1) = Done(next, step) \cup {p \in Work : p[1] = next /\ p[2] = step}
  BY <1>1, <1>2 DEF Done
<1>4. \A p \in Work : p[1] = next /\ p[2] = step <=> p = Current
  BY <1>1 DEF Current
<1>5. Current[1] = next /\ Current[2] = step
  BY DEF Current
<1>6. Current \notin Done(next, step)
  BY <1>2, <1>5 DEF Done
<1> QED BY <1>3, <1>4, <1>6

(***************************************************************************)
(* After a driver's last step, its steps count as those of an earlier      *)
(* driver.                                                                 *)
(***************************************************************************)
LEMMA LastStep ==
  ASSUME TypeOK, plan \in Seq(Driver), next \in DOMAIN plan,
         step \notin DOMAIN plan[next].init
  PROVE  Done(next, step) = Earlier(next + 1)
<1>1. \A p \in Work : /\ p[1] \in Nat /\ p[2] \in Nat
                      /\ p[1] = next => p[2] \in DOMAIN plan[next].init
  BY StepPairs DEF Work
<1>2. /\ DOMAIN plan[next].init = 1..Len(plan[next].init)
      /\ Len(plan[next].init) \in Nat
  BY StepPairs
<1>3. next \in Nat /\ step \in Nat \ {0} /\ step > Len(plan[next].init)
  BY <1>2 DEF TypeOK
<1> QED BY <1>1, <1>2, <1>3 DEF Done, Earlier

(***************************************************************************)
(* After the last driver every step has been carried out.                  *)
(***************************************************************************)
LEMMA LastDriver ==
  ASSUME TypeOK, plan \in Seq(Driver), next \notin DOMAIN plan
  PROVE  Earlier(next) = Work
<1>1. DOMAIN plan = 1..Len(plan) /\ Len(plan) \in Nat
  BY StepPairs
<1>2. \A p \in Work : p[1] \in 1..Len(plan)
  BY <1>1, StepPairs DEF Work
<1>3. next \in Nat \ {0} /\ next > Len(plan)
  BY <1>1 DEF TypeOK
<1> QED BY <1>1, <1>2, <1>3 DEF Earlier

-----------------------------------------------------------------------------
(***************************************************************************)
(* The bring-up thread preserves the invariant.  (When it throws: see      *)
(* MainStep.)                                                              *)
(***************************************************************************)
LEMMA ThreadStep == ASSUME IInv, BringUp, ~Throw PROVE IInv'
<1>1. plan \in Seq(Driver) /\ UNCHANGED plan
  BY PlansOfDocuments DEF IInv, TypeOK, BringUp, SkipDriver, Construct, Factory,
     SkipStep, Request, Response, DriverDone, Finish
<1>2. /\ Steps' = Steps /\ Work' = Work
      /\ \A i : Supported(i)' = Supported(i)
      /\ plan' = plan /\ plan' \in Plans
  BY <1>1, SamePlan DEF IInv, TypeOK
<1>3. CASE SkipDriver
  <2>1. TypeOK'
    BY <1>2, <1>3 DEF SkipDriver, IInv, TypeOK, wires
  <2>2. Earlier(next)' = Earlier(next)
    <3>1. Earlier(next + 1) = Earlier(next)
      BY <1>1, <1>3, SkippedDriver DEF SkipDriver, IInv
    <3> QED BY <1>2, <1>3, <3>1 DEF SkipDriver, Earlier
  <2>3. Progress' /\ InFlight' /\ Constructed'
    BY <1>2, <1>3, <2>2 DEF SkipDriver, IInv, Progress, InFlight, Constructed, wires
  <2> QED BY <2>1, <2>3 DEF IInv
<1>4. CASE Construct
  <2>1. TypeOK'
    BY <1>2, <1>4 DEF Construct, Building, IInv, TypeOK, wires
  <2>2. Earlier(next)' = Earlier(next)
    BY <1>2, <1>4 DEF Construct, Earlier
  <2>3. Progress'
    BY <1>4, <2>2 DEF Construct, IInv, Progress, wires
  <2>4. InFlight'
    BY <1>4 DEF Construct, IInv, InFlight, wires
  <2>5. Constructed'
    BY <1>2, <1>4 DEF Construct, Building, IInv, Constructed
  <2> QED BY <2>1, <2>3, <2>4, <2>5 DEF IInv
<1>5. CASE Factory
  <2>1. TypeOK'
    BY <1>2, <1>5 DEF Factory, Building, IInv, TypeOK, Constructed, wires
  <2>2. Done(next, step)' = Earlier(next)
    <3>1. Done(next, 1) = Earlier(next)
      BY <1>1, FirstStep
    <3> QED BY <1>2, <1>5, <3>1 DEF Factory, Done
  <2>3. Progress'
    BY <1>5, <2>2 DEF Factory, IInv, Progress, wires
  <2>4. InFlight'
    BY <1>5 DEF Factory, IInv, InFlight, wires
  <2>5. Constructed'
    BY <1>2, <1>5 DEF Factory, IInv, Constructed
  <2> QED BY <2>1, <2>3, <2>4, <2>5 DEF IInv
<1>6. CASE SkipStep
  <2>1. TypeOK'
    BY <1>2, <1>6 DEF SkipStep, IInv, TypeOK, wires
  <2>2. Done(next, step)' = Done(next, step)
    <3>1. Current \notin Work
      BY <1>6 DEF SkipStep, Work
    <3>2. Done(next, step + 1) = Done(next, step)
      BY <1>1, <3>1, NextStep DEF IInv
    <3> QED BY <1>2, <1>6, <3>2 DEF SkipStep, Done
  <2>3. Progress'
    BY <1>6, <2>2 DEF SkipStep, Initializing, IInv, Progress, wires
  <2>4. InFlight'
    BY <1>6 DEF SkipStep, Initializing, IInv, InFlight, wires
  <2>5. Constructed'
    BY <1>2, <1>6 DEF SkipStep, Initializing, IInv, Constructed
  <2> QED BY <2>1, <2>3, <2>4, <2>5 DEF IInv
<1>7. CASE Request
  <2>1. Current \in Steps /\ Current \in Work /\ Current' = Current
    <3>1. Current \in Steps
      BY <1>1, <1>7, StepPairs DEF Request, Initializing, Current, IInv, Constructed
    <3> QED BY <1>7, <3>1 DEF Request, Current, Work
  <2>2. TypeOK'
    BY <1>2, <1>7, <2>1 DEF Request, IInv, TypeOK
  <2>3. Done(next, step)' = Done(next, step)
    BY <1>2, <1>7 DEF Request, Done
  <2>4. Progress'
    BY <1>2, <1>7, <2>1, <2>3 DEF Request, Initializing, IInv, Progress
  <2>5. InFlight'
    BY <1>1, <1>7, <2>1 DEF Request, Initializing, IInv, InFlight, Offered
  <2>6. Constructed'
    BY <1>2, <1>7 DEF Request, Initializing, IInv, Constructed
  <2> QED BY <2>2, <2>4, <2>5, <2>6 DEF IInv
<1>8. CASE Response
  <2>1. TypeOK'
    BY <1>2, <1>8 DEF Response, IInv, TypeOK, wires
  <2>2. Current \notin Done(next, step) /\ Current \in Work /\ Current \in handled
    BY <1>1, <1>8, NextStep DEF Response, IInv, Progress
  <2>3. Current \notin requests
    BY <1>8, <2>2 DEF Response, IInv, Progress
  <2>4. Done(next, step)' = Done(next, step) \cup {Current}
    <3>1. Done(next, step + 1) = Done(next, step) \cup {Current}
      BY <1>1, <2>2, NextStep DEF IInv
    <3> QED BY <1>2, <1>8, <3>1 DEF Response, Done
  <2>5. Progress'
    BY <1>8, <2>3, <2>4 DEF Response, IInv, Progress, wires
  <2>6. InFlight'
    BY <1>8, <2>3 DEF Response, IInv, InFlight, wires
  <2>7. Constructed'
    BY <1>2, <1>8 DEF Response, IInv, Constructed
  <2> QED BY <2>1, <2>5, <2>6, <2>7 DEF IInv
<1>9. CASE DriverDone
  <2>1. TypeOK'
    BY <1>2, <1>9 DEF DriverDone, IInv, TypeOK, wires
  <2>2. Earlier(next)' = Done(next, step)
    <3>1. Done(next, step) = Earlier(next + 1)
      BY <1>1, <1>9, LastStep DEF DriverDone, Building, IInv
    <3> QED BY <1>2, <1>9, <3>1 DEF DriverDone, Earlier
  <2>3. Progress'
    BY <1>9, <2>2 DEF DriverDone, IInv, Progress, wires
  <2>4. InFlight'
    BY <1>9 DEF DriverDone, IInv, InFlight, wires
  <2>5. Constructed'
    BY <1>9 DEF DriverDone, IInv, Constructed
  <2> QED BY <2>1, <2>3, <2>4, <2>5 DEF IInv
<1>10. CASE Finish
  <2>1. TypeOK'
    BY <1>2, <1>10 DEF Finish, IInv, TypeOK, wires
  <2>2. Earlier(next) = Work
    BY <1>1, <1>10, LastDriver DEF Finish, IInv
  <2>3. Progress'
    BY <1>2, <1>10, <2>2 DEF Finish, IInv, Progress, wires
  <2>4. InFlight'
    BY <1>10 DEF Finish, IInv, InFlight, wires
  <2>5. Constructed'
    BY <1>10 DEF Finish, IInv, Constructed
  <2> QED BY <2>1, <2>3, <2>4, <2>5 DEF IInv
<1> QED BY <1>3, <1>4, <1>5, <1>6, <1>7, <1>8, <1>9, <1>10 DEF BringUp
-----------------------------------------------------------------------------
(***************************************************************************)
(* So do the executor's workers.                                           *)
(***************************************************************************)
LEMMA ServeStep == ASSUME IInv, NEW p, Serve(p) PROVE IInv'
<1>1. /\ plan \in Seq(Driver)
      /\ Steps' = Steps /\ Work' = Work
      /\ \A i : Supported(i)' = Supported(i)
      /\ plan' \in Plans
  BY PlansOfDocuments, SamePlan DEF Serve, IInv, TypeOK
<1>2. p = Current /\ thread = "response" /\ Current' = Current
  BY DEF Serve, IInv, InFlight, bringUp, Current
<1>3. /\ Done(next, step)' = Done(next, step)
      /\ Current \notin Done(next, step)
      /\ Current \in requests /\ Current \in Work
      /\ handled = Done(next, step)
  BY <1>1, <1>2, NextStep DEF Serve, IInv, Progress, bringUp, Done
<1>4. TypeOK'
  BY <1>1, <1>2 DEF Serve, IInv, TypeOK, bringUp
<1>5. Current \notin answered
  BY <1>3 DEF IInv, Progress
<1>6. Progress'
  BY <1>1, <1>2, <1>3 DEF Serve, IInv, Progress, bringUp
<1>7. InFlight'
  <2>1. requests \subseteq {Current} /\ responses \subseteq {Current}
    BY DEF IInv, InFlight
  <2>2. requests' = {} /\ responses' = {Current}
    BY <1>2, <2>1 DEF Serve
  <2> QED BY <1>2, <1>5, <2>2 DEF Serve, IInv, InFlight, bringUp
<1>8. Constructed'
  BY <1>1 DEF Serve, IInv, Constructed, bringUp
<1> QED BY <1>4, <1>6, <1>7, <1>8 DEF IInv

(***************************************************************************)
(* The executor answers a request: the future of the waiting thread is     *)
(* set.                                                                    *)
(***************************************************************************)
LEMMA AnswerStep == ASSUME IInv, NEW p, Answer(p) PROVE IInv'
<1>1. /\ plan \in Seq(Driver)
      /\ Steps' = Steps /\ Work' = Work
      /\ \A i : Supported(i)' = Supported(i)
      /\ plan' \in Plans
  BY PlansOfDocuments, SamePlan DEF Answer, IInv, TypeOK
<1>2. p = Current /\ thread = "response" /\ Current' = Current /\ p \in handled
  BY DEF Answer, IInv, InFlight, bringUp, Current
<1>3. Done(next, step)' = Done(next, step)
  BY <1>1 DEF Answer, bringUp, Done
<1>4. TypeOK'
  BY <1>1, <1>2 DEF Answer, IInv, TypeOK, bringUp
<1>5. Progress'
  BY <1>1, <1>2, <1>3 DEF Answer, IInv, Progress, bringUp
<1>6. InFlight'
  <2>1. responses' = {}
    BY <1>2 DEF Answer, IInv, InFlight
  <2>2. /\ UNCHANGED <<plan, context, thread, next, step, up, requests, handled>>
        /\ \A q : Offered(q)' = Offered(q)
    BY DEF Answer, bringUp, Offered
  <2> QED BY <1>2, <2>1, <2>2 DEF IInv, InFlight
<1>7. Constructed'
  BY <1>1 DEF Answer, IInv, Constructed, bringUp
<1> QED BY <1>4, <1>5, <1>6, <1>7 DEF IInv

(***************************************************************************)
(* And the main thread, interrupts, the end of the process and steps that  *)
(* change nothing.                                                         *)
(***************************************************************************)
LEMMA MainStep == ASSUME IInv, Main \/ Interrupt \/ Throw \/ UNCHANGED vars PROVE IInv'
<1>1. /\ UNCHANGED <<plan, thread, next, step, nodes, up, requests, responses,
                     answered, handled>>
      /\ context' = "valid" => context = "valid"
  BY DEF Main, Spin, SpinReturns, Exit, Interrupt, Throw, vars, bringUp, wires
<1>2. /\ Steps' = Steps /\ Work' = Work /\ Current' = Current
      /\ \A i : Supported(i)' = Supported(i)
      /\ \A q : Offered(q)' = Offered(q)
  BY <1>1, SamePlan DEF Current, Offered
<1>3. Done(next, step)' = Done(next, step) /\ Earlier(next)' = Earlier(next)
  BY <1>1, <1>2 DEF Done, Earlier
<1>4. context' \in {"valid", "shutdown"}
      /\ main' \in {"starting", "spinning", "returned", "ended"}
  BY DEF Main, Spin, SpinReturns, Exit, Interrupt, Throw, vars, IInv, TypeOK
<1>5. TypeOK'
  BY <1>1, <1>2, <1>4 DEF IInv, TypeOK
<1>6. Progress' /\ InFlight' /\ Constructed'
  BY <1>1, <1>2, <1>3 DEF IInv, Progress, InFlight, Constructed
<1> QED BY <1>5, <1>6 DEF IInv

(***************************************************************************)
(* Every step of the threads keeps the invariant.                          *)
(***************************************************************************)
LEMMA Inductive == IInv /\ [Next]_vars => IInv'
<1> SUFFICES ASSUME IInv, [Next]_vars PROVE IInv'
  OBVIOUS
<1>1. CASE BringUp /\ ~Throw
  BY <1>1, ThreadStep
<1>2. CASE Main \/ Interrupt \/ Throw \/ UNCHANGED vars
  BY <1>2, MainStep
<1>3. CASE \E p \in Steps : Serve(p)
  BY <1>3, ServeStep
<1>4. CASE \E p \in Steps : Answer(p)
  BY <1>4, AnswerStep
<1> QED BY <1>1, <1>2, <1>3, <1>4 DEF Next

-----------------------------------------------------------------------------
(***************************************************************************)
(* The invariant holds throughout: where the bring-up thread is tells      *)
(* exactly which init steps have been carried out.                         *)
(***************************************************************************)
THEOREM Invariance == Spec => []IInv
<1> QED BY Initially, Inductive, PTL DEF Spec

(***************************************************************************)
(* TypeOK: the types of the variables, for every plan.                     *)
(***************************************************************************)
THEOREM TypeCorrect == Spec => []TypeOK
<1>1. IInv => TypeOK
  BY DEF IInv
<1> QED BY <1>1, Invariance, PTL

(***************************************************************************)
(* RequestsReachTheirDriver: while the context is valid, at most one       *)
(* request is under way, and its driver is there to serve it.              *)
(***************************************************************************)
THEOREM NoRequestLost == Spec => []RequestsReachTheirDriver
<1>1. IInv => RequestsReachTheirDriver
  <2> SUFFICES ASSUME IInv, context = "valid"
               PROVE  /\ \A p \in requests : Offered(p) /\ p[1] \in nodes
                      /\ Cardinality(requests \cup responses) <= 1
    BY DEF RequestsReachTheirDriver
  <2>1. \A p \in requests : Offered(p) /\ p[1] \in nodes
    BY DEF IInv, TypeOK, InFlight, Offered
  <2>2. requests \cup responses = {} \/ requests \cup responses = {Current}
    BY DEF IInv, InFlight
  <2>3. Cardinality({}) = 0 /\ Cardinality({Current}) = 1
    BY FS_EmptySet, FS_Singleton
  <2> QED BY <2>1, <2>2, <2>3
<1> QED BY <1>1, Invariance, PTL

-----------------------------------------------------------------------------
(***************************************************************************)
(* ImplementsCommissioning: for every plan the threads of the manager      *)
(* carry out the init steps once each, in their order, and finish only     *)
(* after the last.  Serve implements Handle, Finish implements Finish, and *)
(* every other action leaves the abstract state alone.                     *)
(***************************************************************************)
THEOREM Refinement == Spec => ImplementsCommissioning
<1>1. Init => Promise!Init
  BY DEF Init, Promise!Init
<1>2. ASSUME IInv, NEW p, Serve(p) PROVE Promise!Next
  <2>1. plan \in Seq(Driver) /\ Work' = Work /\ UNCHANGED thread
    BY <1>2, PlansOfDocuments, SamePlan DEF Serve, IInv, TypeOK, bringUp
  <2>2. p = Current /\ thread = "response" /\ p \in requests
    BY <1>2 DEF Serve, IInv, InFlight
  <2>3. p \in Work /\ handled = Done(next, step) /\ p \notin handled
    BY <1>2, <2>1, <2>2, NextStep DEF IInv, Progress
  <2>4. \A q \in Work : Promise!Before(q, p) => q \in handled
    BY <2>2, <2>3 DEF Promise!Before, Done, Current
  <2>5. handled' = handled \cup {p}
    BY <1>2 DEF Serve
  <2> QED BY <2>1, <2>2, <2>3, <2>4, <2>5 DEF Promise!Next, Promise!Handle
<1>3. ASSUME IInv, BringUp PROVE [Promise!Next]_(Promise!vars)
  <2>1. Work' = Work /\ UNCHANGED handled
    BY <1>3, SamePlan DEF BringUp, SkipDriver, Construct, Factory, SkipStep, Request, Throw,
       Throw, bringUp, Response, DriverDone, Finish, wires
  <2>2. CASE Finish
    <3>1. handled = Work
      BY <2>2, <1>3, LastDriver, PlansOfDocuments DEF Finish, IInv, TypeOK, Progress
    <3> QED BY <2>1, <2>2, <3>1 DEF Finish, Promise!Next, Promise!Finish
  <2>3. CASE ~Finish
    <3>1. (thread = "finished")' = (thread = "finished")
      BY <1>3, <2>3 DEF BringUp, SkipDriver, Construct, Factory, SkipStep, Request, Throw,
         Response, DriverDone, Initializing, bringUp
    <3> QED BY <2>1, <3>1 DEF Promise!vars
  <2> QED BY <2>2, <2>3
<1>4. ASSUME IInv, ~BringUp, \A p : ~Serve(p), [Next]_vars
      PROVE  UNCHANGED Promise!vars
  <2>1. UNCHANGED <<plan, thread, handled>>
    BY <1>4 DEF Next, Main, Spin, SpinReturns, Exit, Interrupt, Answer, vars,
       bringUp, wires
  <2> QED BY <2>1, SamePlan DEF Promise!vars
<1>5. IInv /\ [Next]_vars => [Promise!Next]_(Promise!vars)
  BY <1>2, <1>3, <1>4
<1> QED BY <1>1, <1>5, Invariance, PTL DEF Spec, ImplementsCommissioning, Promise!Spec

-----------------------------------------------------------------------------
(***************************************************************************)
(* Drivers are constructed one after another: none beyond the current one  *)
(* has a node, and those before it are up, if they have a factory.         *)
(***************************************************************************)
OneByOne ==
  /\ \A i \in nodes : i <= next
  /\ \A i \in DOMAIN plan : i < next /\ Supported(i) => i \in up

LEMMA OneByOneStep == ASSUME IInv, OneByOne, [Next]_vars PROVE OneByOne'
<1>1. /\ UNCHANGED plan /\ next \in Nat /\ plan \in Seq(Driver)
      /\ \A i \in DOMAIN plan : i \in Nat
  <2>1. UNCHANGED plan
    BY DEF Next, BringUp, SkipDriver, Construct, Factory, SkipStep, Request, Throw, Response,
           DriverDone, Finish, Main, Spin, SpinReturns, Exit, Interrupt, Serve, Answer, vars
  <2>2. plan \in Seq(Driver) BY PlansOfDocuments DEF IInv, TypeOK
  <2> QED BY <2>1, <2>2 DEF IInv, TypeOK
<1>2. \A i : Supported(i)' = Supported(i) BY <1>1, SamePlan
<1>3. nodes \subseteq Nat BY <1>1 DEF IInv, TypeOK
<1>4. CASE SkipDriver
  BY <1>1, <1>2, <1>3, <1>4 DEF SkipDriver, OneByOne
<1>5. CASE Construct
  <2>1. nodes' \subseteq nodes \cup {next} /\ next' = next /\ up' = up
    BY <1>5, Zenon DEF Construct
  <2> QED BY <1>1, <1>2, <1>3, <2>1 DEF OneByOne
<1>6. CASE Factory
  BY <1>1, <1>2, <1>6 DEF Factory, OneByOne
<1>7. CASE DriverDone
  <2>1. next \in up BY <1>7 DEF DriverDone, IInv, Constructed
  <2> QED BY <1>1, <1>2, <1>3, <1>7, <2>1 DEF DriverDone, OneByOne
<1>8. CASE UNCHANGED <<next, nodes, up>>
  BY <1>1, <1>2, <1>8 DEF OneByOne
<1> QED
  BY <1>4, <1>5, <1>6, <1>7, <1>8
  DEF Next, BringUp, SkipStep, Request, Throw, Response, Finish, Main, Spin, SpinReturns, Exit,
      Interrupt, Serve, Answer, vars, bringUp

(***************************************************************************)
(* BusesFirst: whatever the document, every bus is up before a device      *)
(* exists, however long factories and init steps take and whatever is      *)
(* skipped: the plan has the buses first, and one driver is constructed    *)
(* after another.                                                          *)
(***************************************************************************)
THEOREM BusesBeforeDevices == Spec => []BusesFirst
<1>1. Init => OneByOne
  <2> SUFFICES ASSUME Init PROVE OneByOne
    OBVIOUS
  <2>1. \A i \in DOMAIN plan : i \in Nat \ {0} BY PlansOfDocuments DEF Init
  <2> QED BY <2>1 DEF Init, OneByOne
<1>2. IInv /\ OneByOne /\ [Next]_vars => OneByOne' BY OneByOneStep
<1>3. IInv /\ OneByOne => BusesFirst
  <2> SUFFICES ASSUME IInv, OneByOne, NEW i \in nodes, NEW b \in DOMAIN plan,
                      plan[i].class # "bus", plan[b].class = "bus", Supported(b)
               PROVE  b \in up
    BY DEF BusesFirst
  <2>1. i \in DOMAIN plan /\ BusesAhead(plan) BY PlansOfDocuments DEF IInv, TypeOK
  <2>2. b < i BY <2>1 DEF BusesAhead
  <2>3. i \in Nat /\ b \in Nat /\ next \in Nat
    BY <2>1, PlansOfDocuments DEF IInv, TypeOK
  <2> QED BY <2>2, <2>3 DEF OneByOne
<1> QED BY <1>1, <1>2, <1>3, Invariance, PTL DEF Spec

-----------------------------------------------------------------------------
(***************************************************************************)
(* NodeNamesDiffer: no two nodes of the process have the same name,        *)
(* whatever the document (Driver names its node by class and id).          *)
(***************************************************************************)
NodeNamesDiffer ==
  \A i, j \in nodes : plan[i].class = plan[j].class /\ plan[i].id = plan[j].id => i = j

\* No document gives the manager two nodes of one name.
THEOREM NodesNamedApart == Spec => []NodeNamesDiffer
<1>1. IInv => NodeNamesDiffer
  BY PlansOfDocuments DEF IInv, TypeOK, NodeNamesDiffer, NoDriverTwice
<1> QED BY <1>1, Invariance, PTL

(***************************************************************************)
(* RequestedOnce: an init step is requested only once, and never again     *)
(* after it was carried out: the registers of a device are not written     *)
(* twice (Driver's loop over init).                                        *)
(***************************************************************************)
NotRequestedYet == Current \notin requests \cup responses \cup answered \cup handled

\* No step of the manager requests an init step a second time.
THEOREM RequestedOnce == Spec => [][Request => NotRequestedYet]_vars
<1>1. IInv /\ Request => NotRequestedYet
  <2> SUFFICES ASSUME IInv, Request PROVE NotRequestedYet
    OBVIOUS
  <2>1. plan \in Seq(Driver)
    BY PlansOfDocuments DEF IInv, TypeOK
  <2>2. Current \notin Done(next, step)
    BY <2>1, NextStep DEF IInv
  <2> QED BY <2>2 DEF Request, Initializing, IInv, Progress, InFlight, NotRequestedYet
<1>2. IInv /\ [Next]_vars => [Request => NotRequestedYet]_vars
  BY <1>1
<1> QED BY <1>2, Invariance, PTL DEF Spec

-----------------------------------------------------------------------------
(* Why the bring-up finishes.  Every step of its thread, and of a worker   *)
(* for its request, brings it forward; there is a last place; and when     *)
(* every step is serviceable, it is always somewhere from where it can     *)
(* go on.  That some step is then taken is the fairness of FairSpec.       *)

\* How far the bring-up is, to be read from left to right.
Phase == CASE thread = "construct" -> 0
           [] thread = "factory" -> 1
           [] thread = "init" -> 2
           [] thread = "response" -> 2
           [] thread = "finished" -> 3

Waited == IF thread # "response" THEN 0
          ELSE IF Current \in requests THEN 1 ELSE IF Current \in responses THEN 2 ELSE 3

Forward ==
  \/ next' > next
  \/ next' = next /\ Phase' > Phase
  \/ next' = next /\ Phase' = Phase /\ step' > step
  \/ next' = next /\ Phase' = Phase /\ step' = step /\ Waited' > Waited

(***************************************************************************)
(* Advances: while the context is valid, every step of the bring-up thread *)
(* and of a worker brings the bring-up forward, or ends the process        *)
(* (Throw), which CanGoOn excludes when every step is serviceable.         *)
(***************************************************************************)
Advances ==
  context = "valid" /\ (BringUp \/ \E p \in Steps : Serve(p) \/ Answer(p)) =>
    Forward \/ main' = "ended"

LEMMA ThreadAdvances ==
  ASSUME IInv, BringUp, context = "valid"
  PROVE  Forward \/ main' = "ended"
<1>1. next \in Nat /\ step \in Nat
  BY DEF IInv, TypeOK
<1>2. CASE SkipDriver \/ DriverDone
  BY <1>1, <1>2 DEF SkipDriver, DriverDone, Forward
<1>3. CASE Construct
  BY <1>3 DEF Construct, Forward, Phase
<1>4. CASE Factory
  BY <1>4 DEF Factory, Forward, Phase
<1>5. CASE SkipStep
  BY <1>1, <1>5 DEF SkipStep, Initializing, Forward, Phase
<1>6. CASE Request
  <2>1. Current' = Current /\ Current \in requests' /\ thread = "init" /\ thread' = "response"
    BY <1>6 DEF Request, Initializing, Current
  <2>2. Phase = 2 /\ Phase' = 2 /\ Waited = 0
    BY <2>1 DEF Phase, Waited
  <2>3. Waited' = 1
    BY <2>1 DEF Waited
  <2> QED BY <1>6, <2>2, <2>3 DEF Request, Forward
<1>7. CASE Response
  BY <1>1, <1>7 DEF Response, Forward, Phase
<1>8. CASE Finish
  BY <1>8 DEF Finish, Forward, Phase
<1>9. CASE Throw
  BY <1>9 DEF Throw
<1> QED BY <1>2, <1>3, <1>4, <1>5, <1>6, <1>7, <1>8, <1>9 DEF BringUp

LEMMA WorkerAdvances ==
  ASSUME IInv, NEW p, Serve(p) \/ Answer(p)
  PROVE  Forward
<1>1. thread = "response" /\ p = Current
  BY DEF Serve, Answer, IInv, InFlight
<1>2. UNCHANGED <<thread, next, step>> /\ Current' = Current
  BY DEF Serve, Answer, bringUp, Current
<1>3. Phase' = Phase /\ thread' = "response"
  BY <1>1, <1>2 DEF Phase
<1>4. CASE Serve(p)
  <2>1. Current \in requests /\ Current \notin requests' /\ Current \in responses'
    BY <1>1, <1>4 DEF Serve
  <2>2. Waited = 1
    BY <1>1, <2>1 DEF Waited
  <2>3. Waited' = 2
    BY <1>2, <1>3, <2>1 DEF Waited
  <2> QED BY <1>2, <1>3, <2>2, <2>3 DEF Forward
<1>5. CASE Answer(p)
  <2>1. Current \in responses /\ Current \notin responses' /\ UNCHANGED requests
    BY <1>1, <1>5 DEF Answer
  <2>2. Current \notin requests
    <3>1. plan \in Seq(Driver)
      BY PlansOfDocuments DEF IInv, TypeOK
    <3>2. Current \in handled /\ Current \notin Done(next, step)
      BY <2>1, <3>1, NextStep DEF IInv, InFlight
    <3> QED BY <1>1, <3>2 DEF IInv, Progress
  <2>3. Waited = 2
    BY <1>1, <2>1, <2>2 DEF Waited
  <2>4. Waited' = 3
    BY <1>2, <1>3, <2>1, <2>2 DEF Waited
  <2> QED BY <1>2, <1>3, <2>3, <2>4 DEF Forward
<1> QED BY <1>4, <1>5

(***************************************************************************)
(* With serviceable steps, the main thread leaves the executor, and the    *)
(* process ends, only when the context is shut down.                       *)
(***************************************************************************)
MainStays == context = "valid" /\ Serviceable => main \in {"starting", "spinning"}

\* A step that is being carried out is one of those that Serviceable is about.
LEMMA CurrentWork ==
  ASSUME IInv, Initializing, TypeOf(Current) = StepType
  PROVE  Current \in Work
<1>1. plan \in Seq(Driver)
  BY PlansOfDocuments DEF IInv, TypeOK
<1>2. <<next, step>> \in Steps
  BY <1>1, StepPairs DEF Initializing, Building, IInv, Constructed
<1> QED BY <1>2 DEF Work, Current

LEMMA MainStaysStep == ASSUME IInv, MainStays, [Next]_vars PROVE MainStays'
<1>1. UNCHANGED plan /\ (context' = "valid" => context = "valid")
  BY DEF Next, BringUp, SkipDriver, Construct, Factory, SkipStep, Request, Throw, Response,
         DriverDone, Finish, Main, Spin, SpinReturns, Exit, Interrupt, Serve, Answer, vars
<1>2. Serviceable' <=> Serviceable
  BY <1>1, SamePlan DEF Serviceable, Valued
<1>3. CASE Throw
  <2>1. context' = "valid" => ~Valued(Current) /\ Current \in Work
    BY <1>1, <1>3, CurrentWork DEF Throw
  <2> QED BY <1>2, <2>1 DEF MainStays, Serviceable
<1>4. CASE ~Throw
  <2>1. context' = "valid" => \/ UNCHANGED main
                             \/ main' \in {"starting", "spinning"}
                             \/ main \notin {"starting", "spinning"}
    BY <1>4 DEF Next, BringUp, SkipDriver, Construct, Factory, SkipStep, Request, Response,
         DriverDone, Finish, Main, Spin, SpinReturns, Exit, Interrupt, Serve, Answer, vars
  <2> QED BY <1>1, <1>2, <2>1 DEF MainStays
<1> QED BY <1>3, <1>4

(***************************************************************************)
(* The places are within the plan: the last is one beyond its end.         *)
(***************************************************************************)
WithinPlan ==
  /\ next <= Len(plan) + 1
  /\ thread \in {"init", "response"} => step <= Len(plan[next].init) + 1

LEMMA WithinPlanStep == ASSUME IInv, WithinPlan, [Next]_vars PROVE WithinPlan'
<1>1. plan \in Seq(Driver) /\ UNCHANGED plan /\ next \in Nat /\ step \in Nat \ {0}
  <2>1. UNCHANGED plan
    BY DEF Next, BringUp, SkipDriver, Construct, Factory, SkipStep, Request, Throw, Response,
           DriverDone, Finish, Main, Spin, SpinReturns, Exit, Interrupt, Serve, Answer, vars
  <2> QED BY <2>1, PlansOfDocuments DEF IInv, TypeOK
<1>2. /\ DOMAIN plan = 1..Len(plan) /\ Len(plan) \in Nat
      /\ \A i \in DOMAIN plan : /\ DOMAIN plan[i].init = 1..Len(plan[i].init)
                                /\ Len(plan[i].init) \in Nat
  BY <1>1, StepPairs
<1>3. CASE SkipDriver \/ DriverDone
  <2>1. next \in DOMAIN plan /\ next' = next + 1 /\ thread' = "construct"
    BY <1>3 DEF SkipDriver, DriverDone, Building
  <2> QED BY <1>1, <1>2, <2>1 DEF WithinPlan
<1>4. CASE Construct \/ Finish
  <2>1. next' = next /\ thread' \notin {"init", "response"}
    BY <1>4 DEF Construct, Finish, IInv, TypeOK
  <2> QED BY <1>1, <2>1 DEF WithinPlan
<1>5. CASE Factory
  <2>1. next' = next /\ step' = 1 /\ next \in DOMAIN plan
    BY <1>5 DEF Factory, Building
  <2> QED BY <1>1, <1>2, <2>1 DEF WithinPlan
<1>6. CASE SkipStep
  <2>1. next' = next /\ step' = step + 1 /\ next \in DOMAIN plan /\ step \in DOMAIN plan[next].init
    BY <1>6 DEF SkipStep, Initializing, Building
  <2> QED BY <1>1, <1>2, <2>1 DEF WithinPlan
<1>7. CASE Request
  <2>1. next' = next /\ step' = step /\ thread = "init"
    BY <1>7 DEF Request, Initializing
  <2> QED BY <1>1, <2>1 DEF WithinPlan
<1>8. CASE Response
  <2>1. next' = next /\ step' = step + 1 /\ next \in DOMAIN plan
    BY <1>8 DEF Response, Building
  <2>2. step \in DOMAIN plan[next].init
    <3>1. <<next, step>> \in Steps
      BY <1>8 DEF Response, IInv, Progress, Work, Current
    <3> QED BY <1>1, <3>1, StepPairs
  <2> QED BY <1>1, <1>2, <2>1, <2>2 DEF WithinPlan
<1>9. CASE UNCHANGED <<next, step, thread>>
  BY <1>1, <1>9 DEF WithinPlan
<1> QED
  BY <1>3, <1>4, <1>5, <1>6, <1>7, <1>8, <1>9
  DEF Next, BringUp, Throw, Main, Spin, SpinReturns, Exit, Interrupt, Serve, Answer, vars, bringUp

(***************************************************************************)
(* CanGoOn: when every step has a value and names a service its driver     *)
(* offers, on a bus that is brought up before, the bring-up thread does    *)
(* not throw and is never in a wait that nothing ends: it can take its     *)
(* next step, or its request can be served, or the answer handed out (the  *)
(* guards of BringUp, Serve and Answer), and the main thread spins the     *)
(* executor or is about to.                                                *)
(***************************************************************************)
ThreadCanStep ==
  \/ thread \in {"construct", "factory"}
  \/ thread = "init" /\ (Initializing /\ TypeOf(Current) = StepType =>
                          Offered(Current) /\ Valued(Current))
  \/ thread = "response" /\ Current \in answered

WorkerCanStep ==
  /\ thread = "response" /\ next \in nodes
  /\ Current \in responses \/ (Current \in requests /\ Offered(Current) /\ BusUp(Current))

CanGoOn ==
  context = "valid" /\ Serviceable =>
    /\ main \in {"starting", "spinning"}
    /\ thread # "finished" => ThreadCanStep \/ WorkerCanStep

(***************************************************************************)
(* Forward is a strict order, so with WithinPlan and CanGoOn it is why     *)
(* BringUpFinishes holds under FairSpec.                                   *)
(***************************************************************************)
THEOREM BringUpProgress == Spec => [](WithinPlan /\ CanGoOn) /\ [][Advances]_vars
<1>1. Init => OneByOne /\ WithinPlan /\ MainStays
  <2> SUFFICES ASSUME Init PROVE OneByOne /\ WithinPlan /\ MainStays
    OBVIOUS
  <2>1. plan \in Seq(Driver) /\ \A i \in DOMAIN plan : i \in Nat \ {0}
    BY PlansOfDocuments DEF Init
  <2>2. Len(plan) \in Nat
    BY <2>1
  <2> QED BY <2>1, <2>2 DEF Init, OneByOne, WithinPlan, MainStays
<1>2. IInv /\ OneByOne /\ WithinPlan /\ MainStays /\ [Next]_vars =>
        OneByOne' /\ WithinPlan' /\ MainStays'
  BY OneByOneStep, WithinPlanStep, MainStaysStep
<1>3. IInv /\ OneByOne /\ MainStays => CanGoOn
  <2> SUFFICES ASSUME IInv, OneByOne, context = "valid", Serviceable, thread # "finished",
                      ~ThreadCanStep
               PROVE  WorkerCanStep
    BY DEF CanGoOn, MainStays
  <2>1. plan \in Seq(Driver) /\ next \in Nat
    BY PlansOfDocuments DEF IInv, TypeOK
  <2>2. /\ plan[next].init[step].offered /\ Valued(Current)
        /\ LET b == plan[next].needs
           IN  b = 0 \/ (b \in DOMAIN plan /\ b < next /\ Supported(b))
    <3>1. Current \in Work
      <4>1. CASE thread = "init"
        <5>1. Initializing /\ TypeOf(Current) = StepType
          BY <4>1 DEF ThreadCanStep
        <5> QED BY <5>1, CurrentWork
      <4>2. CASE thread = "response"
        BY <4>2 DEF IInv, Progress
      <4> QED BY <4>1, <4>2 DEF ThreadCanStep, IInv, TypeOK
    <3>2. Current[1] = next /\ Current[2] = step
      BY DEF Current
    <3> QED BY <3>1, <3>2 DEF Serviceable
  <2>3. thread \in {"init", "response"} /\ next \in up /\ next \in nodes
    BY DEF ThreadCanStep, IInv, TypeOK, Constructed
  <2>4. Offered(Current)
    BY <2>2, <2>3 DEF Offered, Current
  <2>5. BusUp(Current)
    BY <2>2 DEF BusUp, Current, OneByOne
  <2>6. thread = "response" /\ Current \notin answered
    BY <2>2, <2>3, <2>4 DEF ThreadCanStep
  <2>7. Current \in requests \/ Current \in responses
    BY <2>6 DEF IInv, Progress
  <2> QED BY <2>3, <2>4, <2>5, <2>6, <2>7 DEF WorkerCanStep
<1>4. IInv /\ [Next]_vars => [Advances]_vars
  BY ThreadAdvances, WorkerAdvances DEF Advances
<1> QED BY <1>1, <1>2, <1>3, <1>4, Invariance, PTL DEF Spec
=============================================================================
