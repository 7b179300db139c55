------------------------ MODULE MotionScripts_proofs ------------------------
(***************************************************************************)
(* For every set of scripts and of joints with brakes: no script moves the *)
(* robot before the services it waits for are there, and in this           *)
(* repository nobody offers them.                                          *)
(***************************************************************************)
EXTENDS MotionScripts, SequenceTheorems, TLAPS

Awaited == {ScriptsService(joint) : joint \in Brakes \ {"rear_right_arm_wheel_joint"}}

(***************************************************************************)
(* BrakesAwaited is not inductive: a script at "server" has seen the       *)
(* brakes, but has no goal yet.  And the types need that a program has a   *)
(* goal only once it has been at the place where it sends it.              *)
(***************************************************************************)
NoGoalYet ==
  \A p \in Programs : pc[p] \in {"idle", "brakes", "server"} => goal[p] = "none"

SeenAtServer ==
  \A s \in Scripts : pc[s] = "server" \/ goal[s] # "none" => Awaited \subseteq services

IInv == TypeOK /\ NoGoalYet /\ SeenAtServer

(***************************************************************************)
(* Each client but that of the last wheel is for its own joint's brake,    *)
(* and all of them are for services of joints that have a brake.           *)
(***************************************************************************)
LEMMA ClientsCover ==
  ASSUME \A joint \in Brakes : BrakeClient(joint) \in services
  PROVE  Awaited \subseteq services
BY DEF BrakeClient, Awaited

(***************************************************************************)
(* Somebody offers a service: that of a joint that has a brake.            *)
(***************************************************************************)
LEMMA OfferStep ==
  ASSUME IInv, NEW service \in [package : {"brake", "remote_brake"}, joint : Brakes],
         Offer(service)
  PROVE  IInv'
<1>1. services' = services \cup {service} /\ UNCHANGED <<server, pc, goal, active>>
  BY DEF Offer
<1>2. TypeOK'
  BY <1>1 DEF IInv, TypeOK
<1>3. NoGoalYet' /\ SeenAtServer'
  BY <1>1 DEF IInv, NoGoalYet, SeenAtServer, Awaited, ScriptsService
<1> QED BY <1>2, <1>3 DEF IInv

(***************************************************************************)
(* A program that only goes on from one place to another, without touching *)
(* its goal, keeps the types.                                              *)
(***************************************************************************)
LEMMA PlaceType ==
  ASSUME IInv, NEW p \in Programs, NEW from,
         NEW to \in {"brakes", "server", "answer", "done", "interrupted",
                     "spinning", "crashed"},
         Goes(p, from, to), UNCHANGED <<services, server, active>>,
         \/ UNCHANGED goal
         \/ from = "server" /\ goal' = [goal EXCEPT ![p] = "sent"]
         \/ from = "server" /\ p \notin Scripts /\ goal' = [goal EXCEPT ![p] = "lost"],
         to \in {"brakes", "server"} => from \in {"idle", "brakes"} /\ UNCHANGED goal
  PROVE  TypeOK' /\ NoGoalYet'
<1>1. pc' = [pc EXCEPT ![p] = to] /\ pc[p] = from
  BY DEF Goes
<1>2. TypeOK'
  <2>1. pc' \in [Programs -> {"idle", "brakes", "server", "answer", "done",
                              "interrupted", "spinning", "crashed"}]
    BY <1>1 DEF IInv, TypeOK
  <2>2. goal' \in [Programs -> Outcomes] /\ \A s \in Scripts : goal'[s] # "lost"
    BY DEF IInv, TypeOK, Outcomes, Programs
  <2>3. \A q \in Programs : goal'[q] = "executed" <=> active = q
    <3>1. CASE UNCHANGED goal
      BY <3>1 DEF IInv, TypeOK
    <3>2. ASSUME from = "server", NEW o \in {"sent", "lost"}, goal' = [goal EXCEPT ![p] = o]
          PROVE  \A q \in Programs : goal'[q] = "executed" <=> active = q
      <4>1. goal[p] = "none"
        BY <1>1, <3>2 DEF IInv, NoGoalYet
      <4> QED BY <3>2, <4>1 DEF IInv, TypeOK
    <3> QED BY <3>1, <3>2
  <2> QED BY <2>1, <2>2, <2>3 DEF IInv, TypeOK
<1>3. NoGoalYet'
  <2> SUFFICES ASSUME NEW q \in Programs, pc'[q] \in {"idle", "brakes", "server"}
               PROVE  goal'[q] = "none"
    BY DEF NoGoalYet
  <2>1. CASE q = p
    BY <1>1, <2>1 DEF IInv, NoGoalYet, TypeOK
  <2>2. CASE q # p
    BY <1>1, <2>2 DEF IInv, NoGoalYet, TypeOK
  <2> QED BY <2>1, <2>2
<1> QED BY <1>2, <1>3

(***************************************************************************)
(* The steps of a script.                                                  *)
(***************************************************************************)
LEMMA ScriptStep ==
  ASSUME IInv, NEW s \in Scripts, Runs(s) \/ Interrupt(s)
  PROVE  IInv'
<1>0. s \in Programs
  BY DEF Programs
<1>1. CASE Start(s)
  <2>1. TypeOK' /\ NoGoalYet'
    BY <1>0, <1>1, PlaceType DEF Start
  <2>2. SeenAtServer'
    BY <1>0, <1>1 DEF Start, Goes, IInv, TypeOK, SeenAtServer, Programs
  <2> QED BY <2>1, <2>2 DEF IInv
<1>2. CASE AwaitBrakes(s)
  <2>1. TypeOK' /\ NoGoalYet'
    BY <1>0, <1>2, PlaceType DEF AwaitBrakes
  <2>2. Awaited \subseteq services /\ services' = services
    BY <1>2, ClientsCover DEF AwaitBrakes
  <2> QED BY <2>1, <2>2 DEF IInv, SeenAtServer
<1>3. CASE SendGoal(s)
  <2>1. TypeOK' /\ NoGoalYet'
    BY <1>0, <1>3, PlaceType DEF SendGoal
  <2>2. Awaited \subseteq services /\ services' = services
    BY <1>3 DEF SendGoal, Goes, IInv, SeenAtServer
  <2> QED BY <2>1, <2>2 DEF IInv, SeenAtServer
<1>4. CASE End(s) \/ Interrupt(s)
  <2>1. TypeOK' /\ NoGoalYet'
    <3>1. CASE End(s)
      BY <1>0, <3>1, PlaceType DEF End
    <3>2. CASE Interrupt(s)
      BY <1>0, <3>2, PlaceType DEF Interrupt
    <3> QED BY <1>4, <3>1, <3>2
  <2>2. SeenAtServer'
    BY <1>0, <1>4 DEF End, Interrupt, Goes, IInv, TypeOK, SeenAtServer, Programs
  <2> QED BY <2>1, <2>2 DEF IInv
<1> QED BY <1>1, <1>2, <1>3, <1>4 DEF Runs

(***************************************************************************)
(* The steps of the robot's node, which is no script.                      *)
(***************************************************************************)
LEMMA PresetStep ==
  ASSUME IInv, StartPreset \/ SendPreset \/ ShutDownPreset
  PROVE  IInv'
<1>0. "preset" \in Programs /\ "preset" \notin Scripts
  BY ScriptsAssumption DEF Programs
<1>1. TypeOK' /\ NoGoalYet'
  <2>1. CASE StartPreset
    BY <1>0, <2>1, PlaceType DEF StartPreset
  <2>2. CASE SendPreset
    BY <1>0, <2>2, PlaceType DEF SendPreset
  <2>3. CASE ShutDownPreset
    BY <1>0, <2>3, PlaceType DEF ShutDownPreset
  <2> QED BY <2>1, <2>2, <2>3
<1>2. SeenAtServer'
  BY <1>0 DEF StartPreset, SendPreset, ShutDownPreset, Goes, IInv, TypeOK, SeenAtServer, Programs
<1> QED BY <1>1, <1>2 DEF IInv

(***************************************************************************)
(* The steps of the controller and of the drivers: services stay, and only *)
(* goals that were sent change.                                            *)
(***************************************************************************)
LEMMA EnvironmentStep ==
  ASSUME IInv, BringUp \/ Finish \/ \E p \in Programs : Answer(p)
  PROVE  IInv'
<1>1. CASE BringUp
  <2>1. ASSUME NEW joint \in Driven, DriverUp(joint)
        PROVE  IInv'
    <3>1. DriversService(joint) \in [package : {"brake", "remote_brake"}, joint : Brakes]
      BY DrivenAssumption DEF DriversService
    <3> QED BY <2>1, <3>1, OfferStep DEF DriverUp
  <2>2. ASSUME NEW joint \in Brakes, OutsiderUp(joint)
        PROVE  IInv'
    <3>1. ScriptsService(joint) \in [package : {"brake", "remote_brake"}, joint : Brakes]
      BY DEF ScriptsService
    <3> QED BY <2>2, <3>1, OfferStep DEF OutsiderUp
  <2>3. CASE ServerUp
    BY <2>3 DEF ServerUp, IInv, TypeOK, NoGoalYet, SeenAtServer
  <2> QED BY <1>1, <2>1, <2>2, <2>3 DEF BringUp
<1>2. CASE Finish
  <2>1. active \in Programs /\ goal[active] = "executed"
    BY <1>2 DEF Finish, IInv, TypeOK
  <2>2. "none" \notin Programs
    BY ScriptsAssumption DEF Programs
  <2>3. TypeOK'
    BY <1>2, <2>1, <2>2 DEF Finish, IInv, TypeOK, Outcomes
  <2>4. NoGoalYet'
    BY <1>2, <2>1 DEF Finish, IInv, TypeOK, NoGoalYet
  <2>5. SeenAtServer'
    BY <1>2, <2>1 DEF Finish, IInv, TypeOK, SeenAtServer, Programs
  <2> QED BY <2>3, <2>4, <2>5 DEF IInv
<1>3. ASSUME NEW p \in Programs, Answer(p)
      PROVE  IInv'
  <2>1. CASE Accept(p)
    <3>1. /\ goal[p] = "sent" /\ active' = p
          /\ goal' = [q \in Programs |-> CASE q = p      -> "executed"
                                           [] q = active -> "replaced"
                                           [] OTHER      -> goal[q]]
          /\ UNCHANGED <<services, server, pc>>
      BY <2>1 DEF Accept
    <3>2. \A q \in Programs : goal[q] = "executed" <=> active = q
      BY DEF IInv, TypeOK
    <3>3. active # p
      BY <3>1, <3>2
    <3>4. \A q \in Programs : goal'[q] = IF q = p THEN "executed"
                                         ELSE IF q = active THEN "replaced" ELSE goal[q]
      BY <3>1, <3>3
    <3>5. goal' \in [Programs -> Outcomes] /\ \A s \in Scripts : goal'[s] # "lost"
      <4>1. \A q \in Programs : goal'[q] \in Outcomes
        BY <3>4 DEF IInv, TypeOK, Outcomes
      <4>2. \A s \in Scripts : goal'[s] # "lost"
        BY <3>4 DEF IInv, TypeOK, Programs
      <4> QED BY <3>1, <4>1, <4>2
    <3>6. TypeOK'
      BY <3>1, <3>2, <3>4, <3>5 DEF IInv, TypeOK
    <3>7. \A q \in Programs : goal'[q] # "none" => goal[q] # "none"
      BY <3>1, <3>2, <3>4
    <3>8. NoGoalYet'
      BY <3>1, <3>2, <3>4 DEF IInv, NoGoalYet
    <3>9. SeenAtServer'
      BY <3>1, <3>7 DEF IInv, SeenAtServer, Programs
    <3> QED BY <3>6, <3>8, <3>9 DEF IInv
  <2>2. CASE Reject(p)
    <3>1. TypeOK'
      BY <2>2 DEF Reject, IInv, TypeOK, Outcomes
    <3>2. NoGoalYet'
      BY <2>2 DEF Reject, IInv, TypeOK, NoGoalYet
    <3>3. SeenAtServer'
      BY <2>2 DEF Reject, IInv, TypeOK, SeenAtServer, Programs
    <3> QED BY <3>1, <3>2, <3>3 DEF IInv
  <2> QED BY <1>3, <2>1, <2>2 DEF Answer
<1> QED BY <1>1, <1>2, <1>3

(***************************************************************************)
(* The invariant holds in every reachable state, for all constants.        *)
(***************************************************************************)
THEOREM Invariance == Spec => []IInv
<1>1. Init => IInv
  <2> SUFFICES ASSUME Init PROVE IInv
    OBVIOUS
  <2>1. "none" \notin Programs
    BY ScriptsAssumption DEF Programs
  <2> QED BY <2>1 DEF Init, IInv, TypeOK, NoGoalYet, SeenAtServer, Outcomes, Programs
<1>2. IInv /\ [Next]_vars => IInv'
  <2> SUFFICES ASSUME IInv, [Next]_vars PROVE IInv'
    OBVIOUS
  <2>1. CASE \E s \in Scripts : Runs(s) \/ Interrupt(s)
    BY <2>1, ScriptStep
  <2>2. CASE StartPreset \/ SendPreset \/ ShutDownPreset
    BY <2>2, PresetStep
  <2>3. CASE BringUp \/ Finish \/ \E p \in Programs : Answer(p)
    BY <2>3, EnvironmentStep
  <2>4. CASE UNCHANGED vars
    BY <2>4 DEF vars, IInv, TypeOK, NoGoalYet, SeenAtServer
  <2> QED BY <2>1, <2>2, <2>3, <2>4 DEF Next
<1> QED BY <1>1, <1>2, PTL DEF Spec

(***************************************************************************)
(* The types, for any scripts and brakes: no goal is sent to a server that *)
(* is not there, and the controller executes one goal at a time.           *)
(***************************************************************************)
THEOREM TypeCorrect == Spec => []TypeOK
<1>1. IInv => TypeOK
  BY DEF IInv
<1> QED BY <1>1, Invariance, PTL

(***************************************************************************)
(* Whatever the order in which drivers come up and scripts are run, no     *)
(* script has sent its goal before the brakes it waits for are there.      *)
(***************************************************************************)
THEOREM BrakesBeforeGoals == Spec => []BrakesAwaited
<1>1. IInv => BrakesAwaited
  BY DEF IInv, SeenAtServer, BrakesAwaited, Awaited
<1> QED BY <1>1, Invariance, PTL
-----------------------------------------------------------------------------
(***************************************************************************)
(* A point that the controller can use.                                    *)
(***************************************************************************)
Filled == [time : Int, posture : Postures \ {"none"}]

(***************************************************************************)
(* The 28 points of the seven cycles, from the second second on.           *)
(***************************************************************************)
LEMMA CyclePoints ==
  /\ Cycle \in Seq(Filled) /\ Len(Cycle) = 28
  /\ \A j \in 1 .. 28 : Cycle[j].time = j + 1
<1>1. \A k \in {1, 2, 3, 4} : Gait[k] \in Postures \ {"none"}
  BY DEF Gait, Postures
<1>2. \A j \in 1 .. 28 : ((j - 1) % 4) + 1 \in {1, 2, 3, 4}
  <2>1. \A k \in Int : k % 4 \in 0 .. 3
    OBVIOUS
  <2> QED BY <2>1
<1>3. \A j \in 1 .. 28 : Gait[((j - 1) % 4) + 1] \in Postures \ {"none"}
  BY <1>1, <1>2
<1>4. \A t \in Int, q \in Postures \ {"none"} :
        Point(t, q) \in Filled /\ Point(t, q).time = t
  BY DEF Point, Filled
<1>5. 4 * cycles = 28
  BY DEF cycles
<1>6. Cycle = [j \in 1 .. 28 |-> Point(j + 1, Gait[((j - 1) % 4) + 1])]
  BY <1>5 DEF Cycle
<1>7. \A j \in 1 .. 28 : Cycle[j] \in Filled /\ Cycle[j].time = j + 1
  <2> SUFFICES ASSUME NEW j \in 1 .. 28
               PROVE  Cycle[j] \in Filled /\ Cycle[j].time = j + 1
    OBVIOUS
  <2> DEFINE q == Gait[((j - 1) % 4) + 1]
  <2>1. q \in Postures \ {"none"} /\ j + 1 \in Int /\ Cycle[j] = Point(j + 1, q)
    BY <1>3, <1>6
  <2> HIDE DEF q
  <2> QED BY <1>4, <2>1
<1>8. Cycle \in [1 .. 28 -> Filled]
  BY <1>6, <1>7
<1> DEFINE b == Cycle
<1>9. b \in [1 .. 28 -> Filled] /\ \A j \in 1 .. 28 : b[j].time = j + 1
  BY <1>7, <1>8
<1> HIDE DEF b
<1>10. b \in Seq(Filled) /\ Len(b) = 28
  <2>1. b \in Seq(Filled)
    <3>1. 28 \in Nat
      OBVIOUS
    <3> QED BY <1>9, <3>1, SeqDef
  <2>2. Len(b) \in Nat /\ DOMAIN b = 1 .. Len(b)
    BY <2>1, LenProperties
  <2>3. DOMAIN b = 1 .. 28
    BY <1>9
  <2>4. 1 .. Len(b) = 1 .. 28
    BY <2>2, <2>3
  <2>5. \A n \in Nat : 1 .. n = 1 .. 28 => n = 28
    <3> SUFFICES ASSUME NEW n \in Nat, 1 .. n = 1 .. 28 PROVE n = 28
      OBVIOUS
    <3>1. 28 \in 1 .. n /\ n + 1 \notin 1 .. 28
      BY 28 \in 1 .. 28, n + 1 \notin 1 .. n
    <3> QED BY <3>1
  <2> QED BY <2>1, <2>2, <2>4, <2>5
<1> QED BY <1>9, <1>10 DEF b

(***************************************************************************)
(* The points of the walk: the rest, the cycles, and the two at the end,   *)
(* which come a second later.                                              *)
(***************************************************************************)
LEMMA WalkPoints ==
  /\ Walk \in Seq(Filled) /\ Len(Walk) = 31
  /\ \A i \in 1 .. 31 : Walk[i].time = IF i <= 29 THEN i ELSE i + 1
<1> DEFINE x == Point(1, "rest")
           y == Point(2 + 4 * cycles + 1, "lift_left")
           z == Point(2 + 4 * cycles + 2, "rest")
           a == <<x>>
           b == Cycle
           c == <<y, z>>
<1>1. /\ x \in Filled /\ x.time = 1 /\ y \in Filled /\ y.time = 31
      /\ z \in Filled /\ z.time = 32
  BY DEF Point, Filled, Postures, cycles
<1>2. Walk = (a \o b) \o c
  BY DEF Walk
<1> HIDE DEF x, y, z
<1>3. a \in Seq(Filled) /\ Len(a) = 1 /\ a[1] = x
  BY <1>1
<1>4. c \in Seq(Filled) /\ Len(c) = 2 /\ c[1] = y /\ c[2] = z
  BY <1>1
<1>5. /\ b \in Seq(Filled) /\ Len(b) = 28
      /\ \A j \in 1 .. 28 : b[j].time = j + 1
  BY CyclePoints
<1> HIDE DEF a, b, c
<1> DEFINE d == a \o b
           w == d \o c
<1>6. /\ d \in Seq(Filled) /\ Len(d) = 29
      /\ \A i \in 1 .. 29 : d[i] = IF i <= 1 THEN a[i] ELSE b[i - 1]
  <2>1. a \in Seq(Filled) /\ b \in Seq(Filled)
    BY <1>3, <1>5
  <2>2. /\ d \in Seq(Filled) /\ Len(d) = Len(a) + Len(b)
        /\ \A i \in 1 .. Len(a) + Len(b) :
             d[i] = IF i <= Len(a) THEN a[i] ELSE b[i - Len(a)]
    BY <2>1, ConcatProperties, Zenon
  <2>3. Len(a) = 1 /\ Len(b) = 28
    BY <1>3, <1>5
  <2> HIDE DEF d
  <2> QED BY <2>2, <2>3
<1> HIDE DEF d
<1>7. \A i \in 1 .. 29 : d[i].time = i
  <2> SUFFICES ASSUME NEW i \in 1 .. 29 PROVE d[i].time = i
    OBVIOUS
  <2>1. CASE i = 1
    <3>1. d[1] = a[1]
      BY <1>6
    <3> QED BY <1>1, <1>3, <2>1, <3>1
  <2>2. CASE i # 1
    <3>1. i - 1 \in 1 .. 28 /\ d[i] = b[i - 1]
      BY <1>6, <2>2
    <3>2. b[i - 1].time = (i - 1) + 1
      BY <1>5, <3>1
    <3> QED BY <3>1, <3>2
  <2> QED BY <2>1, <2>2
<1>8. /\ w \in Seq(Filled) /\ Len(w) = 31
      /\ \A i \in 1 .. 31 : w[i] = IF i <= 29 THEN d[i] ELSE c[i - 29]
  <2>1. d \in Seq(Filled) /\ c \in Seq(Filled)
    BY <1>4, <1>6
  <2>2. /\ w \in Seq(Filled) /\ Len(w) = Len(d) + Len(c)
        /\ \A i \in 1 .. Len(d) + Len(c) :
             w[i] = IF i <= Len(d) THEN d[i] ELSE c[i - Len(d)]
    BY <2>1, ConcatProperties, Zenon
  <2>3. Len(d) = 29 /\ Len(c) = 2
    BY <1>4, <1>6
  <2> HIDE DEF w
  <2> QED BY <2>2, <2>3
<1>9. Walk = w
  BY <1>2 DEF d
<1> HIDE DEF w
<1>10. \A i \in 1 .. 31 : w[i].time = IF i <= 29 THEN i ELSE i + 1
  <2> SUFFICES ASSUME NEW i \in 1 .. 31
               PROVE  w[i].time = IF i <= 29 THEN i ELSE i + 1
    OBVIOUS
  <2>1. CASE i <= 29
    <3>1. i \in 1 .. 29
      BY <2>1
    <3>2. w[i] = d[i]
      BY <1>8, <2>1
    <3> QED BY <1>7, <2>1, <3>1, <3>2
  <2>2. CASE i = 30
    <3>1. w[30] = c[1]
      BY <1>8
    <3> QED BY <1>1, <1>4, <2>2, <3>1
  <2>3. CASE i = 31
    <3>1. w[31] = c[2]
      BY <1>8
    <3> QED BY <1>1, <1>4, <2>3, <3>1
  <2> QED BY <2>1, <2>2, <2>3
<1> QED BY <1>8, <1>9, <1>10

(***************************************************************************)
(* The controller has no reason to refuse any script's goal but that of    *)
(* "step".                                                                 *)
(***************************************************************************)
LEMMA GoalsWellFormed ==
  ASSUME NEW s \in Scripts, s # "step"
  PROVE  WellFormed(Goal(s))
<1>1. CASE s = "walk"
  <2> DEFINE w == Walk
  <2>1. w \in Seq(Filled) /\ Len(w) = 31
    BY WalkPoints
  <2>2. \A i \in 1 .. 31 : w[i].time = IF i <= 29 THEN i ELSE i + 1
    BY WalkPoints
  <2>3. Goal(s) = w
    BY <1>1 DEF Goal
  <2> HIDE DEF w
  <2>4. w \in [1 .. 31 -> Filled] /\ w # <<>>
    <3>1. w \in [1 .. Len(w) -> Filled]
      BY <2>1, LenProperties
    <3>2. w \in [1 .. 31 -> Filled]
      BY <2>1, <3>1
    <3>3. 1 \in DOMAIN w /\ 1 \notin DOMAIN <<>>
      BY <3>2
    <3> QED BY <3>2, <3>3
  <2>5. \A i \in 1 .. 31 : w[i].posture # "none"
    BY <2>4 DEF Filled
  <2>6. \A i \in 2 .. 31 : w[i - 1].time < w[i].time
    <3> SUFFICES ASSUME NEW i \in 2 .. 31 PROVE w[i - 1].time < w[i].time
      OBVIOUS
    <3>1. i - 1 \in 1 .. 31 /\ i \in 1 .. 31
      OBVIOUS
    <3>2. w[i - 1].time = IF i - 1 <= 29 THEN i - 1 ELSE (i - 1) + 1
      BY <2>2, <3>1
    <3>3. w[i].time = IF i <= 29 THEN i ELSE i + 1
      BY <2>2, <3>1
    <3> QED BY <3>2, <3>3
  <2>7. WellFormed(w)
    BY <2>1, <2>4, <2>5, <2>6 DEF WellFormed
  <2> QED BY <2>3, <2>7
<1>2. CASE s # "walk"
  <2>1. s \in {"stand", "stand2", "hug"}
    BY <1>2, ScriptsAssumption
  <2>2. Goal(s) = <<Point(2, s)>>
    BY <2>1 DEF Goal, Stand
  <2>3. Point(2, s).posture # "none"
    BY <2>1 DEF Point
  <2> DEFINE q == Point(2, s)
  <2> HIDE DEF q
  <2>4. q.posture # "none" => WellFormed(<<q>>)
    BY DEF WellFormed
  <2> QED BY <2>2, <2>3, <2>4 DEF q
<1> QED BY <1>1, <1>2

(***************************************************************************)
(* A script at "answer" or further has sent its goal, and what has become  *)
(* of it by "done" is for good: the controller answers a goal once.        *)
(***************************************************************************)
Settled(s) ==
  /\ pc[s] \in {"answer", "done"} => goal[s] # "none"
  /\ pc[s] = "done" => goal[s] # "sent"
  /\ s # "step" => goal[s] # "rejected"

Answered == \A s \in Scripts : Settled(s)

(***************************************************************************)
(* Programs, drivers and the controller keep this: a script's goal is      *)
(* refused only if it is that of "step".                                   *)
(***************************************************************************)
LEMMA AnsweredStep == IInv /\ Answered /\ [Next]_vars => Answered'
<1> SUFFICES ASSUME IInv, Answered, [Next]_vars, NEW s \in Scripts
             PROVE  Settled(s)'
  BY DEF Answered
<1>0. /\ s \in Programs /\ s # "preset" /\ s # "none"
      /\ pc \in [Programs -> {"idle", "brakes", "server", "answer", "done", "interrupted",
                              "spinning", "crashed"}]
      /\ goal \in [Programs -> Outcomes]
  BY ScriptsAssumption DEF Programs, IInv, TypeOK
<1>1. Settled(s)
  BY DEF Answered
<1>2. ASSUME NEW p \in Scripts, Start(p) \/ AwaitBrakes(p) \/ Interrupt(p),
             NEW to \in {"brakes", "server", "interrupted"},
             pc' = [pc EXCEPT ![p] = to], UNCHANGED goal
      PROVE  Settled(s)'
  BY <1>0, <1>1, <1>2 DEF Settled
<1>3. ASSUME NEW p \in Scripts, SendGoal(p)
      PROVE  Settled(s)'
  BY <1>0, <1>1, <1>3 DEF SendGoal, Goes, Settled
<1>4. ASSUME NEW p \in Scripts, End(p)
      PROVE  Settled(s)'
  BY <1>0, <1>1, <1>4 DEF End, Goes, Settled
<1>5. CASE StartPreset \/ SendPreset \/ ShutDownPreset
  BY <1>0, <1>1, <1>5 DEF StartPreset, SendPreset, ShutDownPreset, Goes, Settled
<1>6. ASSUME NEW p \in Programs, Accept(p)
      PROVE  Settled(s)'
  <2>1. goal'[s] = CASE s = p      -> "executed"
                     [] s = active -> "replaced"
                     [] OTHER      -> goal[s]
    BY <1>0, <1>6 DEF Accept
  <2>2. goal'[s] \in {"executed", "replaced", goal[s]}
    BY <2>1
  <2>3. pc' = pc
    BY <1>6 DEF Accept
  <2> QED BY <1>1, <2>2, <2>3 DEF Settled
<1>7. ASSUME NEW p \in Programs, Reject(p)
      PROVE  Settled(s)'
  <2>1. s # "step" => s # p
    BY <1>7, GoalsWellFormed DEF Reject
  <2> QED BY <1>0, <1>1, <1>7, <2>1 DEF Reject, Settled
<1>8. CASE Finish
  BY <1>0, <1>1, <1>8 DEF Finish, Settled
<1>9. CASE BringUp \/ UNCHANGED vars
  BY <1>1, <1>9 DEF BringUp, DriverUp, OutsiderUp, Offer, ServerUp, vars, Settled
<1>10. ASSUME NEW p \in Scripts, Start(p) \/ AwaitBrakes(p) \/ Interrupt(p)
       PROVE  Settled(s)'
  <2>1. UNCHANGED goal
    BY <1>10 DEF Start, AwaitBrakes, Interrupt
  <2>2. PICK to \in {"brakes", "server", "interrupted"} : pc' = [pc EXCEPT ![p] = to]
    BY <1>10 DEF Start, AwaitBrakes, Interrupt, Goes
  <2> QED BY <1>2, <1>10, <2>1, <2>2
<1> QED
  BY <1>3, <1>4, <1>5, <1>6, <1>7, <1>8, <1>9, <1>10 DEF Next, Runs, Answer

(***************************************************************************)
(* A script that ended by itself has handed over its motion, in whatever   *)
(* order scripts run and the controller answers them: it has not refused   *)
(* the goal, because every script but "step" sends one that is well        *)
(* formed.                                                                 *)
(***************************************************************************)
THEOREM NoMotionRefused == Spec => []MotionHandedOver
<1>1. Init => Answered
  BY DEF Init, Answered, Settled, Programs
<1>2. IInv /\ Answered => MotionHandedOver
  BY DEF IInv, TypeOK, Answered, Settled, MotionHandedOver, Outcomes, Programs
<1> QED BY <1>1, <1>2, AnsweredStep, Invariance, PTL DEF Spec

-----------------------------------------------------------------------------
(***************************************************************************)
(* GoalLife: what becomes of a program's goal goes one way.  It is sent    *)
(* once, answered once, and once it is refused, replaced or finished the   *)
(* controller does not come back to it, whatever other programs send and   *)
(* in whatever order (send_goal_async, and the controller as it is used).  *)
(***************************************************************************)
After(o) == CASE o = "none"     -> {"sent", "lost"}
              [] o = "sent"     -> {"executed", "rejected"}
              [] o = "executed" -> {"replaced", "finished"}
              [] OTHER          -> {}

GoalLife ==
  [][\A p \in Programs : goal'[p] # goal[p] => goal'[p] \in After(goal[p])]_vars

LEMMA GoalStep ==
  ASSUME IInv, Next, NEW p \in Programs, goal'[p] # goal[p]
  PROVE  goal'[p] \in After(goal[p])
<1>1. goal \in [Programs -> Outcomes] /\ "none" \notin Programs
  BY ScriptsAssumption DEF IInv, TypeOK, Programs
<1>2. ASSUME NEW s \in Scripts, Runs(s) \/ Interrupt(s)
      PROVE  goal'[p] \in After(goal[p])
  <2>1. SendGoal(s)
    BY <1>2 DEF Runs, Start, AwaitBrakes, End, Interrupt
  <2>2. p = s /\ goal'[p] = "sent"
    BY <1>1, <2>1 DEF SendGoal
  <2>3. goal[p] = "none"
    BY <2>1, <2>2 DEF SendGoal, Goes, IInv, NoGoalYet
  <2> QED BY <2>2, <2>3 DEF After
<1>3. CASE StartPreset \/ SendPreset \/ ShutDownPreset
  <2>1. p = "preset" /\ goal'[p] \in {"sent", "lost"} /\ pc[p] = "server"
    BY <1>1, <1>3 DEF StartPreset, SendPreset, ShutDownPreset, Goes
  <2>2. goal[p] = "none"
    BY <2>1 DEF IInv, NoGoalYet
  <2> QED BY <2>1, <2>2 DEF After
<1>4. ASSUME NEW q \in Programs, Accept(q)
      PROVE  goal'[p] \in After(goal[p])
  <2>1. goal'[p] = CASE p = q      -> "executed"
                     [] p = active -> "replaced"
                     [] OTHER      -> goal[p]
    BY <1>4 DEF Accept
  <2>2. goal[q] = "sent" /\ (goal[p] = "executed" <=> active = p)
    BY <1>4 DEF Accept, IInv, TypeOK
  <2>3. CASE p = q
    <3>1. goal'[p] \in {"executed", "replaced"} /\ p # active
      BY <2>1, <2>2, <2>3
    <3>2. goal'[p] = "executed"
      BY <2>1, <2>3, <3>1
    <3> QED BY <2>2, <2>3, <3>2 DEF After
  <2>4. CASE p # q
    <3>1. p = active /\ goal'[p] = "replaced"
      BY <2>1, <2>4
    <3> QED BY <2>2, <3>1 DEF After
  <2> QED BY <2>3, <2>4
<1>5. ASSUME NEW q \in Programs, Reject(q)
      PROVE  goal'[p] \in After(goal[p])
  BY <1>1, <1>5 DEF Reject, After
<1>6. CASE Finish
  <2>1. p = active /\ goal'[p] = "finished"
    BY <1>1, <1>6 DEF Finish
  <2>2. goal[p] = "executed"
    BY <2>1 DEF IInv, TypeOK
  <2> QED BY <2>1, <2>2 DEF After
<1>7. ~BringUp
  BY DEF BringUp, DriverUp, OutsiderUp, Offer, ServerUp
<1> QED BY <1>2, <1>3, <1>4, <1>5, <1>6, <1>7 DEF Next, Answer

\* A goal goes from sent to answered to done, and never back.
THEOREM GoalsGoOneWay == Spec => GoalLife
<1>1. IInv /\ [Next]_vars =>
        [\A p \in Programs : goal'[p] # goal[p] => goal'[p] \in After(goal[p])]_vars
  BY GoalStep
<1> QED BY <1>1, Invariance, PTL DEF Spec, GoalLife

-----------------------------------------------------------------------------
(***************************************************************************)
(* PastTheWait: the script has got past its wait for the brakes.           *)
(***************************************************************************)
PastTheWait(s) == pc[s] \in {"server", "answer", "done"} \/ goal[s] # "none"

LEMMA WaitSeen ==
  ASSUME IInv, Answered, NEW s \in Scripts, PastTheWait(s)
  PROVE  Awaited \subseteq services
BY DEF IInv, SeenAtServer, Answered, Settled, PastTheWait

(***************************************************************************)
(* NoneGetsPast: while only drivers of this repository offer services, no  *)
(* script has got past its wait for the brakes or sent a goal, however     *)
(* many of the drivers are up: what the scripts ask for (action.py) is not *)
(* what drivers offer (brake_prefix of the hardware manager and of the     *)
(* simulation).                                                            *)
(***************************************************************************)
NoneGetsPast ==
  services \subseteq {DriversService(joint) : joint \in Driven} =>
    \A s \in Scripts : ~PastTheWait(s)

\* The repository's drivers end no script's wait for the brakes.
THEOREM DriversEndNoWait == Spec => []NoneGetsPast
<1>1. Init => Answered
  BY DEF Init, Programs, Answered, Settled
<1>2. IInv /\ Answered => NoneGetsPast
  <2> SUFFICES ASSUME IInv, Answered,
                      services \subseteq {DriversService(joint) : joint \in Driven},
                      NEW s \in Scripts, PastTheWait(s)
               PROVE  FALSE
    BY DEF NoneGetsPast
  <2> DEFINE inner == ScriptsService("rear_right_arm_inner_joint")
  <2>1. inner \in Awaited
    BY BrakesAssumption DEF Awaited
  <2>2. inner \in services
    BY <2>1, WaitSeen
  <2>3. PICK joint \in Driven : inner = DriversService(joint)
    BY <2>2
  <2>4. inner.package = "brake" /\ DriversService(joint).package = "remote_brake"
    BY DEF ScriptsService, DriversService
  <2> QED BY <2>3, <2>4
<1> QED BY <1>1, <1>2, AnsweredStep, Invariance, PTL DEF Spec

(***************************************************************************)
(* WaitOver: what the script waits for at its place has come.  At "answer" *)
(* the controller owes an answer to every goal, since none is lost.        *)
(***************************************************************************)
WaitOver(s) ==
  CASE pc[s] = "brakes" -> \A joint \in Brakes : BrakeClient(joint) \in services
    [] pc[s] = "server" -> server
    [] pc[s] = "answer" -> goal[s] # "sent"
    [] OTHER            -> TRUE

AnswerOwed == \A s \in Scripts : pc[s] = "answer" => goal[s] \notin {"none", "lost"}

\* Where a script can go from a place.
Onward(place) ==
  CASE place = "idle"   -> {"brakes", "interrupted"}
    [] place = "brakes" -> {"server", "interrupted"}
    [] place = "server" -> {"answer", "interrupted"}
    [] place = "answer" -> {"done", "interrupted"}
    [] OTHER            -> {}

(***************************************************************************)
(* ScriptsGoOn: a script only goes on through its places, and when what it *)
(* waits for has come, no step of anybody takes that away: services stay,  *)
(* and a goal that was answered is not sent again.  So the fairness of the *)
(* script and of the controller bring it from the wait for the brakes to   *)
(* its end.                                                                *)
(***************************************************************************)
ScriptsGoOn ==
  [][\A s \in Scripts :
       IF pc'[s] = pc[s] THEN WaitOver(s) => WaitOver(s)'
                         ELSE pc'[s] \in Onward(pc[s])]_vars

LEMMA ServicesStay ==
  ASSUME Next
  PROVE  services \subseteq services' /\ (server => server')
<1>1. ASSUME NEW s \in Scripts, Runs(s) \/ Interrupt(s)
      PROVE  UNCHANGED <<services, server>>
  BY <1>1 DEF Runs, Start, AwaitBrakes, SendGoal, End, Interrupt
<1>2. ASSUME StartPreset \/ SendPreset \/ ShutDownPreset
      PROVE  UNCHANGED <<services, server>>
  BY <1>2 DEF StartPreset, SendPreset, ShutDownPreset
<1>3. ASSUME Finish \/ \E p \in Programs : Answer(p)
      PROVE  UNCHANGED <<services, server>>
  BY <1>3 DEF Finish, Answer, Accept, Reject
<1>4. ASSUME BringUp
      PROVE  services \subseteq services' /\ (server => server')
  BY <1>4 DEF BringUp, DriverUp, OutsiderUp, Offer, ServerUp
<1> QED BY <1>1, <1>2, <1>3, <1>4 DEF Next

LEMMA PlacesInOrder ==
  ASSUME IInv, Next, NEW s \in Scripts, pc'[s] # pc[s]
  PROVE  pc'[s] \in Onward(pc[s])
<1>1. /\ pc \in [Programs -> {"idle", "brakes", "server", "answer", "done", "interrupted",
                              "spinning", "crashed"}]
      /\ s \in Programs /\ s # "preset" /\ "preset" \in Programs
  BY ScriptsAssumption DEF IInv, TypeOK, Programs
<1>2. ASSUME NEW p \in Scripts, Runs(p) \/ Interrupt(p)
      PROVE  pc'[s] \in Onward(pc[s])
  <2>1. PICK from, to : Goes(p, from, to) /\ to \in Onward(from)
    BY <1>2 DEF Runs, Start, AwaitBrakes, SendGoal, End, Interrupt, Onward
  <2>2. pc' = [pc EXCEPT ![p] = to] /\ pc[p] = from
    BY <2>1 DEF Goes
  <2>3. s = p
    BY <1>1, <2>2
  <2> QED BY <1>1, <2>1, <2>2, <2>3
<1>3. ~(StartPreset \/ SendPreset \/ ShutDownPreset)
  BY <1>1 DEF StartPreset, SendPreset, ShutDownPreset, Goes
<1>4. ~(Finish \/ BringUp \/ \E p \in Programs : Answer(p))
  BY DEF Finish, BringUp, DriverUp, OutsiderUp, Offer, ServerUp, Answer, Accept, Reject
<1> QED BY <1>2, <1>3, <1>4 DEF Next

LEMMA NoWaitBack ==
  ASSUME IInv, Answered, Next, NEW s \in Scripts, pc'[s] = pc[s], WaitOver(s)
  PROVE  WaitOver(s)'
<1>1. services \subseteq services' /\ (server => server')
  BY ServicesStay
<1>2. CASE pc[s] = "brakes"
  BY <1>1, <1>2 DEF WaitOver
<1>3. CASE pc[s] = "server"
  BY <1>1, <1>3 DEF WaitOver
<1>4. CASE pc[s] = "answer"
  <2>1. s \in Programs /\ goal[s] \notin {"none", "sent"}
    BY <1>4 DEF Programs, WaitOver, Answered, Settled
  <2>2. "sent" \notin After(goal[s])
    BY <2>1 DEF After
  <2>3. goal'[s] # "sent"
    BY <2>1, <2>2, GoalStep
  <2> QED BY <1>4, <2>3 DEF WaitOver
<1>5. CASE pc[s] \notin {"brakes", "server", "answer"}
  BY <1>5 DEF WaitOver
<1> QED BY <1>2, <1>3, <1>4, <1>5

\* A wait that is over stays over, and an answer is owed to every goal.
THEOREM ScriptsProgress == Spec => []AnswerOwed /\ ScriptsGoOn
<1>1. Init => Answered
  BY DEF Init, Programs, Answered, Settled
<1>2. IInv /\ Answered => AnswerOwed
  BY DEF IInv, TypeOK, Programs, Answered, Settled, AnswerOwed
<1>3. IInv /\ Answered /\ [Next]_vars =>
        [\A s \in Scripts :
           IF pc'[s] = pc[s] THEN WaitOver(s) => WaitOver(s)'
                             ELSE pc'[s] \in Onward(pc[s])]_vars
  BY PlacesInOrder, NoWaitBack
<1> QED BY <1>1, <1>2, <1>3, AnsweredStep, Invariance, PTL DEF Spec, ScriptsGoOn
=============================================================================
