---------------------- MODULE InteractiveControl_proofs ----------------------
(***************************************************************************)
(* Theorems about InteractiveControl for every set of modes and every      *)
(* capacity of the queues.                                                 *)
(***************************************************************************)
EXTENDS InteractiveControl, SequenceTheorems, TLAPS

(***************************************************************************)
(* The inductive invariant: the three facts about the running mode need    *)
(* one another.  A mode switch closes the publishers of the family of      *)
(* mode_last_ and erases the markers of mode_last_, so that nothing is     *)
(* left behind only if those were the ones that existed.                   *)
(***************************************************************************)
IInv == TypeOK /\ MenuShowsMode /\ PublishersFollowMode /\ MarkersFollowMode

(***************************************************************************)
(* What a client sends is well typed.                                      *)
(***************************************************************************)
LEMMA SendType ==
  ASSUME NEW kind \in {"menu", "drag", "mouse_up"}, NEW m \in Mode,
         NEW topic \in Topics \cup {"none"},
         feedback \in Seq(FeedbackMessages), Send(kind, m, topic)
  PROVE  feedback' \in Seq(FeedbackMessages)
BY DEF Send, FeedbackMessages

(***************************************************************************)
(* What the node takes from its subscription is well typed, and so is what *)
(* stays behind.                                                           *)
(***************************************************************************)
LEMMA ReceiveType ==
  ASSUME NEW kind, feedback \in Seq(FeedbackMessages), Receive(kind)
  PROVE  /\ Received \in FeedbackMessages
         /\ Received.mode \in Mode
         /\ Received.topic \in Topics \cup {"none"}
         /\ feedback' \in Seq(FeedbackMessages)
<1>1. feedback # <<>> /\ feedback' = Tail(feedback)
  BY DEF Receive
<1>2. Received \in FeedbackMessages /\ feedback' \in Seq(FeedbackMessages)
  BY <1>1, HeadTailProperties DEF Received
<1> QED BY <1>2 DEF FeedbackMessages

(***************************************************************************)
(* The topics of a mode's gestures are topics.                             *)
(***************************************************************************)
LEMMA OutputsType == \A m : Outputs(m) \subseteq Topics \cup {"none"}
BY DEF Outputs, Topics

(***************************************************************************)
(* ControlImpl::leave then ControlImpl::enter hand the static publishers   *)
(* over: if they were those of the old mode's family, they are afterwards  *)
(* those of the new mode's family.                                         *)
(***************************************************************************)
FamilyTopic(m) == CASE Control(m) = "TRAJ_VEL" -> {"trajectory"}
                    [] Control(m) = "POSITION" -> {"position"}
                    [] OTHER -> {}

PublisherStates == [initialized : SUBSET {"TRAJ_VEL", "POSITION"},
                    open : SUBSET {"trajectory", "position"},
                    velocity : SUBSET Mode]

(***************************************************************************)
(* ControlImpl::leave and enter hand the publishers over: those of the new *)
(* mode's family are open and initialized, whatever the two modes are.     *)
(***************************************************************************)
LEMMA HandOver ==
  ASSUME NEW p \in PublisherStates, NEW old \in Mode, NEW new \in Mode,
         p.open = FamilyTopic(old),
         p.initialized = {Control(old)} \ {"CONTROL_NONE"}
  PROVE  LET q == ControlEnter(ControlLeave(p, old, new), old, new)
         IN /\ q \in PublisherStates
            /\ q.open = FamilyTopic(new)
            /\ q.initialized = {Control(new)} \ {"CONTROL_NONE"}
<1> DEFINE l == ControlLeave(p, old, new)
           q == ControlEnter(l, old, new)
<1>1. CASE Control(old) = Control(new)
  BY <1>1 DEF ControlEnter, ControlLeave, FamilyTopic
<1>2. CASE Control(old) # Control(new)
  <2>1. /\ l \in PublisherStates
        /\ l.open = {} /\ l.initialized = {}
    BY <1>2 DEF ControlLeave, TrajVelFini, PositionFini, FamilyTopic,
                PublisherStates, Control
  <2> HIDE DEF l
  <2>2. /\ q \in PublisherStates
        /\ q.open = FamilyTopic(new)
        /\ q.initialized = {Control(new)} \ {"CONTROL_NONE"}
    BY <1>2, <2>1 DEF ControlEnter, TrajVelInit, PositionInit, FamilyTopic,
                      PublisherStates, Control
  <2> QED BY <2>2 DEF l
<1> QED BY <1>1, <1>2

(***************************************************************************)
(* leave() then enter() swap the markers: if the server had those of the   *)
(* old mode and nothing pending but poses, then after the applyChanges()   *)
(* of modeCb_ it has those of the new mode, and nothing pending.           *)
(***************************************************************************)
ServerStates == [live : SUBSET Mode, bound : SUBSET Mode, insert : SUBSET Mode,
                 erase : SUBSET Mode, moved : SUBSET Mode, home : SUBSET Mode,
                 menu : SUBSET Mode]

SwitchMarkers(s, old, new) ==
  LET left == LeaveMarkers(s, old)
      between == IF old = "NONE" THEN left ELSE Applied(left)
  IN  BindCallback(InsertMarkers(between, new), new)

(***************************************************************************)
(* Node::modeCb_ takes the markers of the old mode down and those of the   *)
(* new mode up, each bound to its callback.                                *)
(***************************************************************************)
LEMMA MarkersSwapped ==
  ASSUME NEW s \in ServerStates, NEW old \in Mode, NEW new \in Mode,
         s.live = Group(old), s.bound = s.live,
         s.insert = {}, s.erase = {}, s.menu = {}
  PROVE  LET t == SwitchMarkers(s, old, new)
         IN /\ t \in ServerStates
            /\ t.live = {} /\ t.insert = Group(new) /\ t.erase = {}
            /\ t.bound = Group(new)
            /\ LeaveMarkers(s, old) \in ServerStates
            /\ old # "NONE" => /\ LeaveMarkers(s, old).insert = {}
                               /\ LeaveMarkers(s, old).erase = {old}
                               /\ LeaveMarkers(s, old).menu = {}
<1> DEFINE left == LeaveMarkers(s, old)
           between == IF old = "NONE" THEN left ELSE Applied(left)
           ins == InsertMarkers(between, new)
<1>1. /\ left \in ServerStates
      /\ old = "NONE" => left = s
      /\ old # "NONE" => /\ left.live = {old} /\ left.bound = {}
                         /\ left.insert = {} /\ left.erase = {old} /\ left.menu = {}
  <2>1. CASE old = "NONE"
    BY <2>1 DEF LeaveMarkers
  <2>2. CASE old # "NONE"
    <3> DEFINE c == ClearCallback(s, old)
    <3>1. Group(old) = {old}
      BY <2>2 DEF Group
    <3>2. c = [s EXCEPT !.bound = @ \ {old}]
      BY <3>1 DEF ClearCallback, Known
    <3>3. /\ c \in ServerStates /\ c.live = {old} /\ c.bound = {}
          /\ c.insert = {} /\ c.erase = {} /\ c.menu = {}
      BY <3>1, <3>2 DEF ServerStates
    <3> HIDE DEF c
    <3>4. left = EraseMarkers(c, old)
      BY <2>2 DEF LeaveMarkers, c
    <3>5. left = [c EXCEPT !.insert = {}, !.moved = @ \ {old}, !.home = @ \ {old},
                           !.erase = {old}]
      BY <3>1, <3>3, <3>4 DEF EraseMarkers, Known
    <3> HIDE DEF left
    <3>6. left \in ServerStates
      BY <3>3, <3>5 DEF ServerStates
    <3> QED BY <2>2, <3>3, <3>5, <3>6 DEF ServerStates
  <2> QED BY <2>1, <2>2
<1> HIDE DEF left
<1>2. /\ between \in ServerStates
      /\ between.live = {} /\ between.bound = {}
      /\ between.insert = {} /\ between.erase = {}
  BY <1>1 DEF Applied, Group, ServerStates
<1> HIDE DEF between
<1>3. /\ ins \in ServerStates
      /\ ins.live = {} /\ ins.bound = {}
      /\ ins.insert = Group(new) /\ ins.erase = {}
  BY <1>2 DEF InsertMarkers, Group, ServerStates
<1> HIDE DEF ins
<1>4. LET t == BindCallback(ins, new)
      IN /\ t \in ServerStates
         /\ t.live = {} /\ t.insert = Group(new) /\ t.erase = {}
         /\ t.bound = Group(new)
  BY <1>3 DEF BindCallback, Known, Group, ServerStates
<1> QED BY <1>1, <1>4 DEF SwitchMarkers, ins, between, left

(***************************************************************************)
(* applyChanges at the end of a callback keeps the types, and leaves       *)
(* nothing pending.                                                        *)
(***************************************************************************)
LEMMA FinishType ==
  ASSUME NEW s \in ServerStates, NEW before \in Seq(UpdateMessages),
         updates \in Seq(UpdateMessages), FinishWith(s, before)
  PROVE  /\ server' \in ServerStates
         /\ updates' \in Seq(UpdateMessages)
         /\ server'.live = (s.live \cup s.insert) \ s.erase
         /\ server'.bound = s.bound \ s.erase
         /\ server'.insert = {} /\ server'.erase = {} /\ server'.menu = {}
<1>1. Published(s) \in Seq(UpdateMessages)
  <2>1. UpdateMessage(s) \in UpdateMessages
    BY DEF UpdateMessage, UpdateMessages, ServerStates
  <2>2. <<UpdateMessage(s)>> \in Seq(UpdateMessages)
    BY <2>1
  <2> QED BY <2>2 DEF Published
<1> QED BY <1>1 DEF FinishWith, Applied, ServerStates

(***************************************************************************)
(* setPose of a known marker only adds a pending pose.                     *)
(***************************************************************************)
LEMMA PoseHomeType ==
  ASSUME NEW s \in ServerStates, NEW m \in Mode, m \in s.live
  PROVE  /\ SetPoseHome(s, m) \in ServerStates
         /\ SetPoseHome(s, m).live = s.live
         /\ SetPoseHome(s, m).bound = s.bound
         /\ SetPoseHome(s, m).insert = s.insert
         /\ SetPoseHome(s, m).erase = s.erase
BY DEF SetPoseHome, Known, ServerStates

(***************************************************************************)
(* A publish() changes at most the last command and what the robot got,    *)
(* and a changed command is of the mode that published.                    *)
(***************************************************************************)
LEMMA PublishType ==
  ASSUME NEW p, NEW m \in Mode, NEW topic \in Topics \cup {"none"}, NEW b,
         TypeOK, Publish(p, m, topic, b)
  PROVE  /\ command' \in [by : Mode, topic : Topics \cup {"none"}]
         /\ robot' \in Mode
         /\ command' # command => command'.by = m
         /\ robot' # robot => robot' = m
BY DEF Publish, TypeOK, CanPublish

(***************************************************************************)
(* IInv holds at the end of the constructor.                               *)
(***************************************************************************)
LEMMA InitIInv == Init => IInv
<1> SUFFICES ASSUME Init PROVE IInv
  OBVIOUS
<1>0. "NONE" \in Mode
  BY ModeAssumption
<1>1. TypeOK
  <2>1. updates \in Seq(UpdateMessages)
    <3>1. [insert |-> {}, erase |-> {}, home |-> {}, menu |-> {"NONE"}]
            \in UpdateMessages
      BY <1>0 DEF UpdateMessages
    <3> QED BY <3>1 DEF Init
  <2>2. feedback \in Seq(FeedbackMessages)
    BY DEF Init
  <2>3. /\ publishers \in PublisherStates
        /\ server \in ServerStates
        /\ command \in [by : Mode, topic : Topics \cup {"none"}]
    BY <1>0 DEF Init, NoCommand, PublisherStates, ServerStates
  <2>4. /\ mode \in Mode /\ checked \in SUBSET Mode /\ robot \in Mode
        /\ view \in SUBSET Mode /\ viewMenu \in SUBSET Mode /\ dragged \in SUBSET Mode
    BY <1>0 DEF Init
  <2>5. matched \in BOOLEAN
    BY DEF Init
  <2> QED BY <2>1, <2>2, <2>3, <2>4, <2>5 DEF TypeOK, PublisherStates, ServerStates
<1>2. MenuShowsMode /\ PublishersFollowMode /\ MarkersFollowMode
  BY DEF Init, MenuShowsMode, PublishersFollowMode, MarkersFollowMode, Control,
         Group, WholeBody, Cameras
<1> QED BY <1>1, <1>2 DEF IInv

(***************************************************************************)
(* The steps of the client and of DDS leave the node alone.                *)
(***************************************************************************)
LEMMA NodeUnchanged ==
  ASSUME IInv, UNCHANGED node
  PROVE  (MenuShowsMode /\ PublishersFollowMode /\ MarkersFollowMode)'
BY DEF IInv, node, MenuShowsMode, PublishersFollowMode, MarkersFollowMode

(***************************************************************************)
(* What the operator does leaves the node's invariant alone.                *)
(***************************************************************************)
LEMMA OperatorStep == ASSUME IInv, Operator PROVE IInv'
<1>1. PICK m \in Mode : \/ SelectMode(m) \/ Drag(m)
                        \/ \E t \in Outputs(m) : Release(m, t)
  BY DEF Operator
<1>2. CASE SelectMode(m)
  BY <1>2, SendType, NodeUnchanged DEF SelectMode, IInv, TypeOK, node, client, Topics
<1>3. CASE Drag(m)
  BY <1>3, SendType, NodeUnchanged DEF Drag, IInv, TypeOK, node, client, Topics
<1>4. ASSUME NEW t \in Outputs(m), Release(m, t)
      PROVE  IInv'
  <2>1. t \in Topics \cup {"none"}
    BY OutputsType
  <2> QED BY <1>4, <2>1, SendType, NodeUnchanged
          DEF Release, IInv, TypeOK, node, client
<1> QED BY <1>1, <1>2, <1>3, <1>4

(***************************************************************************)
(* So do the delivery of updates, a reconnection and discovery.            *)
(***************************************************************************)
LEMMA DeliveryStep == ASSUME IInv, DeliverUpdate \/ Reconnect \/ Discover PROVE IInv'
<1>1. CASE DeliverUpdate
  <2>1. /\ Head(updates) \in UpdateMessages
        /\ Tail(updates) \in Seq(UpdateMessages)
    BY <1>1, HeadTailProperties DEF DeliverUpdate, IInv, TypeOK
  <2>2. (view \in SUBSET Mode /\ viewMenu \in SUBSET Mode /\ dragged \in SUBSET Mode)'
    BY <1>1, <2>1 DEF DeliverUpdate, IInv, TypeOK, UpdateMessages
  <2> QED BY <1>1, <2>1, <2>2, NodeUnchanged DEF DeliverUpdate, IInv, TypeOK, node
<1>2. CASE Reconnect
  <2>1. <<>> \in Seq(UpdateMessages)
    OBVIOUS
  <2> QED BY <1>2, <2>1, NodeUnchanged DEF Reconnect, IInv, TypeOK, node
<1>3. CASE Discover
  BY <1>3, NodeUnchanged DEF Discover, IInv, TypeOK, node, client
<1> QED BY <1>1, <1>2, <1>3

(***************************************************************************)
(* The mode switch.                                                        *)
(***************************************************************************)
LEMMA ModeCbStep ==
  ASSUME IInv, ModeCb
  PROVE  IInv' /\ ByRunningMode
<1> DEFINE new == Received.mode
           old == mode
           left == LeaveMarkers(server, old)
           checks == Checks(old, new)
           closed == ControlLeave(publishers, old, new)
           opened == ControlEnter(closed, old, new)
           same == "trajectory" \in closed.open
           entered == SwitchMarkers(server, old, new)
           final == [entered EXCEPT !.menu = checks]
           before == IF old = "NONE" THEN <<>> ELSE Published(left)
<1>1. /\ feedback' \in Seq(FeedbackMessages)
      /\ new \in Mode /\ old \in Mode
  BY ReceiveType DEF ModeCb, IInv, TypeOK
<1>2. /\ publishers' = opened
      /\ matched' = (matched /\ same)
      /\ IF HasInitialPosition(new)
         THEN Publish(opened, new, "trajectory", matched /\ same)
         ELSE UNCHANGED <<command, robot>>
      /\ checked' = checks
      /\ mode' = new
      /\ FinishWith(final, before)
      /\ UNCHANGED client
  BY DEF ModeCb, SwitchMarkers
<1> HIDE DEF new
<1>3. checked' = {new}
  BY <1>2 DEF IInv, MenuShowsMode, Checks
<1>4. /\ opened \in PublisherStates
      /\ opened.open = FamilyTopic(new)
      /\ opened.initialized = {Control(new)} \ {"CONTROL_NONE"}
  BY <1>1, HandOver DEF IInv, TypeOK, PublishersFollowMode, PublisherStates, FamilyTopic
<1>5. /\ server \in ServerStates
      /\ server.live = Group(old) /\ server.bound = server.live
      /\ server.insert = {} /\ server.erase = {} /\ server.menu = {}
  BY DEF IInv, TypeOK, MarkersFollowMode, ServerStates
<1>6. /\ entered \in ServerStates
      /\ entered.live = {} /\ entered.insert = Group(new) /\ entered.erase = {}
      /\ entered.bound = Group(new)
      /\ left \in ServerStates
  BY <1>1, <1>5, MarkersSwapped
<1> HIDE DEF entered, left
<1>7. /\ final \in ServerStates
      /\ final.live = {} /\ final.insert = Group(new) /\ final.erase = {}
      /\ final.bound = Group(new)
  BY <1>1, <1>6, <1>2, <1>3 DEF ServerStates
<1> HIDE DEF final
<1>8. before \in Seq(UpdateMessages)
  <2>1. Published(left) \in Seq(UpdateMessages)
    <3>1. UpdateMessage(left) \in UpdateMessages
      BY <1>6 DEF UpdateMessage, UpdateMessages, ServerStates
    <3>2. <<UpdateMessage(left)>> \in Seq(UpdateMessages)
      BY <3>1
    <3> QED BY <3>2 DEF Published
  <2> QED BY <2>1
<1> HIDE DEF before
<1>9. /\ server' \in ServerStates /\ updates' \in Seq(UpdateMessages)
      /\ server'.live = Group(new) /\ server'.bound = Group(new)
      /\ server'.insert = {} /\ server'.erase = {} /\ server'.menu = {}
  <2>1. updates \in Seq(UpdateMessages)
    BY DEF IInv, TypeOK
  <2>2. /\ server' \in ServerStates /\ updates' \in Seq(UpdateMessages)
        /\ server'.live = (final.live \cup final.insert) \ final.erase
        /\ server'.bound = final.bound \ final.erase
        /\ server'.insert = {} /\ server'.erase = {} /\ server'.menu = {}
    BY <1>2, <1>7, <1>8, <2>1, FinishType
  <2> QED BY <1>7, <2>2
<1>10. /\ command' \in [by : Mode, topic : Topics \cup {"none"}]
       /\ robot' \in Mode
       /\ command' # command => command'.by = new
       /\ robot' # robot => robot' = new
  BY <1>1, <1>2, PublishType DEF IInv, TypeOK, Topics
<1> HIDE DEF opened, closed, same, checks
<1>11. matched' \in BOOLEAN
  BY <1>2 DEF IInv, TypeOK
<1>12. TypeOK'
  BY <1>1, <1>2, <1>3, <1>4, <1>9, <1>10, <1>11
     DEF IInv, TypeOK, client, PublisherStates, ServerStates
<1>13. (MenuShowsMode /\ PublishersFollowMode /\ MarkersFollowMode)'
  BY <1>2, <1>3, <1>4, <1>9
     DEF MenuShowsMode, PublishersFollowMode, MarkersFollowMode, FamilyTopic
<1> QED BY <1>2, <1>10, <1>12, <1>13 DEF IInv, ByRunningMode

(***************************************************************************)
(* The other callbacks.  A gesture that is not ignored is one of the       *)
(* running mode: its group is live, and Group(mode) is all that is live.   *)
(***************************************************************************)
LEMMA FeedbackStep ==
  ASSUME IInv, DragCb \/ ProcessFeedback \/ IgnoreFeedback
  PROVE  IInv' /\ ByRunningMode
<1> DEFINE m == Received.mode
<1>0. server \in ServerStates
  BY DEF IInv, TypeOK, ServerStates
<1>1. CASE DragCb
  <2>1. m \in Mode /\ feedback' \in Seq(FeedbackMessages)
    BY <1>1, ReceiveType DEF DragCb, IInv, TypeOK
  <2>2. server' = [server EXCEPT !.moved = @ \cup {m}, !.home = @ \ {m}]
    BY <1>1 DEF DragCb, SetPoseMoved, Known
  <2>3. /\ server' \in ServerStates
        /\ server'.live = server.live /\ server'.bound = server.bound
        /\ server'.insert = server.insert /\ server'.erase = server.erase
        /\ server'.menu = server.menu
    BY <1>0, <2>1, <2>2 DEF ServerStates
  <2> QED BY <1>1, <2>1, <2>3
          DEF DragCb, IInv, TypeOK, client, MenuShowsMode, PublishersFollowMode,
              MarkersFollowMode, ServerStates, ByRunningMode
<1>2. CASE ProcessFeedback
  <2>1. /\ m \in Mode /\ feedback' \in Seq(FeedbackMessages)
        /\ Received.topic \in Topics \cup {"none"}
    BY <1>2, ReceiveType DEF ProcessFeedback, IInv, TypeOK
  <2>2. m = mode
    BY <1>2 DEF ProcessFeedback, IInv, MarkersFollowMode, Group
  <2>4. /\ SetPoseHome(server, m) \in ServerStates
        /\ SetPoseHome(server, m).live = server.live
        /\ SetPoseHome(server, m).bound = server.bound
        /\ SetPoseHome(server, m).insert = {}
        /\ SetPoseHome(server, m).erase = {}
    <3>1. server.insert = {} /\ server.erase = {} /\ m \in server.live
      BY <1>2 DEF IInv, MarkersFollowMode, ProcessFeedback
    <3> HIDE DEF m
    <3> QED BY <1>0, <2>1, <3>1, PoseHomeType
  <2>5. FinishWith(SetPoseHome(server, m), <<>>) /\ <<>> \in Seq(UpdateMessages)
    BY <1>2 DEF ProcessFeedback
  <2>6. /\ server' \in ServerStates /\ updates' \in Seq(UpdateMessages)
        /\ server'.live = server.live /\ server'.bound = server.bound
        /\ server'.insert = {} /\ server'.erase = {} /\ server'.menu = {}
    <3>1. updates \in Seq(UpdateMessages)
      BY DEF IInv, TypeOK
    <3> DEFINE h == SetPoseHome(server, m)
    <3>2. /\ h \in ServerStates /\ h.live = server.live /\ h.bound = server.bound
          /\ h.insert = {} /\ h.erase = {} /\ FinishWith(h, <<>>)
      BY <2>4, <2>5
    <3> HIDE DEF h
    <3>3. /\ server' \in ServerStates /\ updates' \in Seq(UpdateMessages)
          /\ server'.live = (h.live \cup h.insert) \ h.erase
          /\ server'.bound = h.bound \ h.erase
          /\ server'.insert = {} /\ server'.erase = {} /\ server'.menu = {}
      BY <2>5, <3>1, <3>2, FinishType
    <3> QED BY <3>2, <3>3
  <2>7. /\ command' \in [by : Mode, topic : Topics \cup {"none"}]
        /\ robot' \in Mode
        /\ command' # command => command'.by = m
        /\ robot' # robot => robot' = m
    BY <1>2, <2>1, PublishType DEF ProcessFeedback, IInv
  <2> QED BY <1>2, <2>1, <2>2, <2>6, <2>7
          DEF ProcessFeedback, IInv, TypeOK, client, MenuShowsMode,
              PublishersFollowMode, MarkersFollowMode, ServerStates, ByRunningMode
<1>3. CASE IgnoreFeedback
  <2>1. feedback' \in Seq(FeedbackMessages)
    BY <1>3, ReceiveType DEF IgnoreFeedback, IInv, TypeOK
  <2> QED BY <1>3, <2>1, NodeUnchanged
          DEF IgnoreFeedback, IInv, TypeOK, node, client, ByRunningMode
<1> QED BY <1>1, <1>2, <1>3

(***************************************************************************)
(* Every step keeps IInv, and if it commands the robot, it does so for the *)
(* mode that runs.                                                         *)
(***************************************************************************)
LEMMA StepIInv ==
  ASSUME IInv, [Next]_vars
  PROVE  IInv' /\ ByRunningMode
<1>1. CASE Operator
  BY <1>1, OperatorStep
     DEF Operator, SelectMode, Drag, Release, node, ByRunningMode
<1>2. CASE DeliverUpdate \/ Reconnect \/ Discover
  BY <1>2, DeliveryStep DEF DeliverUpdate, Reconnect, Discover, node, ByRunningMode
<1>3. CASE ModeCb
  BY <1>3, ModeCbStep
<1>4. CASE DragCb \/ ProcessFeedback \/ IgnoreFeedback
  BY <1>4, FeedbackStep
<1>5. CASE UNCHANGED vars
  BY <1>5, NodeUnchanged DEF vars, node, client, IInv, TypeOK, ByRunningMode
<1> QED BY <1>1, <1>2, <1>3, <1>4, <1>5 DEF Next, Spin

(***************************************************************************)
(* For any set of modes and any queue bounds, the inductive invariant      *)
(* holds in every reachable state.                                         *)
(***************************************************************************)
THEOREM Invariance == Spec => []IInv
<1>1. IInv /\ [Next]_vars => IInv'
  BY StepIInv
<1> QED BY <1>1, InitIInv, PTL DEF Spec

(***************************************************************************)
(* The types of the node's, the server's and the client's state.           *)
(***************************************************************************)
THEOREM TypeCorrect == Spec => []TypeOK
<1>1. IInv => TypeOK
  BY DEF IInv
<1> QED BY <1>1, Invariance, PTL

(***************************************************************************)
(* The menu follows the running mode through every sequence of switches.   *)
(***************************************************************************)
THEOREM NodeFollowsMode == Spec => []MenuShowsMode
<1>1. IInv => MenuShowsMode
  BY DEF IInv
<1> QED BY <1>1, Invariance, PTL

(***************************************************************************)
(* Whatever modes are left and entered, a family's publishers are open     *)
(* exactly while one of its modes runs.                                    *)
(***************************************************************************)
THEOREM PublishersHandedOver == Spec => []PublishersFollowMode
<1>1. IInv => PublishersFollowMode
  BY DEF IInv
<1> QED BY <1>1, Invariance, PTL

(***************************************************************************)
(* The marker server has the running mode's markers and no others, with    *)
(* nothing left to apply.                                                  *)
(***************************************************************************)
THEOREM MarkersHandedOver == Spec => []MarkersFollowMode
<1>1. IInv => MarkersFollowMode
  BY DEF IInv
<1> QED BY <1>1, Invariance, PTL

(***************************************************************************)
(* However long a gesture waits in the queue, and whatever is selected     *)
(* meanwhile, only the running mode commands the robot.                    *)
(***************************************************************************)
THEOREM RunningModeCommands == Spec => OnlyRunningModeCommands
<1>1. IInv /\ [Next]_vars => [ByRunningMode]_vars
  BY StepIInv
<1> QED BY <1>1, Invariance, PTL DEF Spec, OnlyRunningModeCommands

-----------------------------------------------------------------------------
(***************************************************************************)
(* The update queue.  A screen is what a client displays: markers and the  *)
(* checked items of the menu.  It is consistent when it has no markers, or *)
(* those of the one mode that its menu shows.                              *)
(***************************************************************************)
Screen == {s \in [view : SUBSET Mode, menu : SUBSET Mode] :
             s.view = {} \/ (s.view = s.menu /\ \E m \in Mode \ {"NONE"} : s.view = {m})}

After(s, u) == [view |-> (s.view \ u.erase) \cup u.insert,
                menu |-> IF u.menu = {} THEN s.menu ELSE u.menu]

\* Markers of one mode are not replaced by those of another in one message.
Smooth(s, t) == s.view = {} \/ t.view \in {{}, s.view}

(***************************************************************************)
(* The messages of a queue lead from one screen to another, through        *)
(* consistent screens, one after each message.                             *)
(***************************************************************************)
Path(f, queue) ==
  /\ f \in [1 .. Len(queue) + 1 -> Screen]
  /\ \A i \in 1 .. Len(queue) : f[i + 1] = After(f[i], queue[i]) /\ Smooth(f[i], f[i + 1])

Leads(queue, from, to) ==
  \E f : Path(f, queue) /\ f[1] = from /\ f[Len(queue) + 1] = to

(***************************************************************************)
(* An empty queue leads nowhere else.                                      *)
(***************************************************************************)
LEMMA LeadsNowhere == ASSUME NEW s \in Screen PROVE Leads(<<>>, s, s)
<1> DEFINE f == [i \in 1 .. 1 |-> s]
<1>1. Path(f, <<>>) /\ f[1] = s /\ Len(<<>>) = 0
  BY DEF Path
<1> HIDE DEF f
<1> QED BY <1>1 DEF Leads

(***************************************************************************)
(* A client that applies the first message is led on by the others.        *)
(***************************************************************************)
LEMMA LeadsOn ==
  ASSUME NEW queue \in Seq(UpdateMessages), queue # <<>>, NEW from, NEW to,
         Leads(queue, from, to)
  PROVE  /\ After(from, Head(queue)) \in Screen
         /\ Smooth(from, After(from, Head(queue)))
         /\ Leads(Tail(queue), After(from, Head(queue)), to)
<1>1. PICK f : Path(f, queue) /\ f[1] = from /\ f[Len(queue) + 1] = to
  BY DEF Leads
<1> DEFINE n == Len(queue)
           g == [i \in 1 .. n |-> f[i + 1]]
<1>2. /\ n \in Nat \ {0} /\ Len(Tail(queue)) = n - 1 /\ Head(queue) = queue[1]
      /\ \A i \in 1 .. n - 1 : Tail(queue)[i] = queue[i + 1]
  BY HeadTailProperties, LenProperties
<1>3. f \in [1 .. n + 1 -> Screen]
  BY <1>1 DEF Path
<1>4. \A i \in 1 .. n : f[i + 1] = After(f[i], queue[i]) /\ Smooth(f[i], f[i + 1])
  BY <1>1 DEF Path
<1>5. f[2] = After(from, Head(queue)) /\ f[2] \in Screen /\ Smooth(from, f[2])
  BY <1>1, <1>2, <1>3, <1>4
<1>6. g \in [1 .. (n - 1) + 1 -> Screen] /\ g[1] = f[2] /\ g[(n - 1) + 1] = to
  BY <1>1, <1>2, <1>3
<1>7. ASSUME NEW i \in 1 .. n - 1
      PROVE  g[i + 1] = After(g[i], Tail(queue)[i]) /\ Smooth(g[i], g[i + 1])
  <2>1. i \in 1 .. n /\ i + 1 \in 1 .. n
    BY <1>2
  <2>2. g[i] = f[i + 1] /\ g[i + 1] = f[(i + 1) + 1]
    BY <2>1
  <2>3. f[(i + 1) + 1] = After(f[i + 1], queue[i + 1]) /\ Smooth(f[i + 1], f[(i + 1) + 1])
    BY <2>1, <1>4
  <2> QED BY <2>2, <2>3, <1>2
<1> HIDE DEF g
<1>8. Path(g, Tail(queue))
  BY <1>2, <1>6, <1>7 DEF Path
<1> QED BY <1>2, <1>5, <1>6, <1>8 DEF Leads

(***************************************************************************)
(* A message at the end of the queue leads on from where it led before.    *)
(***************************************************************************)
LEMMA LeadsFurther ==
  ASSUME NEW queue \in Seq(UpdateMessages), NEW u \in UpdateMessages,
         NEW from, NEW to, Leads(queue, from, to),
         After(to, u) \in Screen, Smooth(to, After(to, u))
  PROVE  Leads(Append(queue, u), from, After(to, u))
<1>1. PICK f : Path(f, queue) /\ f[1] = from /\ f[Len(queue) + 1] = to
  BY DEF Leads
<1> DEFINE n == Len(queue)
           longer == Append(queue, u)
           g == [i \in 1 .. (n + 1) + 1 |-> IF i <= n + 1 THEN f[i] ELSE After(to, u)]
<1>2. /\ n \in Nat /\ Len(longer) = n + 1 /\ longer[n + 1] = u
      /\ \A i \in 1 .. n : longer[i] = queue[i]
  BY AppendProperties, LenProperties
<1>3. f \in [1 .. n + 1 -> Screen]
  BY <1>1 DEF Path
<1>4. \A i \in 1 .. n : f[i + 1] = After(f[i], queue[i]) /\ Smooth(f[i], f[i + 1])
  BY <1>1 DEF Path
<1>5. /\ g \in [1 .. (n + 1) + 1 -> Screen]
      /\ g[1] = from /\ g[n + 1] = to /\ g[(n + 1) + 1] = After(to, u)
      /\ \A i \in 1 .. n + 1 : g[i] = f[i]
  BY <1>1, <1>2, <1>3
<1> HIDE DEF g
<1>6. ASSUME NEW i \in 1 .. n + 1
      PROVE  g[i + 1] = After(g[i], longer[i]) /\ Smooth(g[i], g[i + 1])
  <2>1. CASE i \in 1 .. n
    <3>1. i + 1 \in 1 .. n + 1
      BY <2>1, <1>2
    <3> QED BY <2>1, <3>1, <1>2, <1>4, <1>5
  <2>2. CASE i = n + 1
    BY <2>2, <1>2, <1>5
  <2> QED BY <2>1, <2>2, <1>2
<1>7. Path(g, longer)
  BY <1>2, <1>5, <1>6 DEF Path
<1> QED BY <1>2, <1>5, <1>7 DEF Leads

(***************************************************************************)
(* The invariant: whatever waits in the queue leads the client from what   *)
(* it displays to what the server has, through consistent screens.         *)
(***************************************************************************)
Displayed == [view |-> view, menu |-> viewMenu]
Latest == [view |-> server.live, menu |-> checked]

QueueLeads == Leads(updates, Displayed, Latest)

(***************************************************************************)
(* What a client displays is consistent when something leads on from it.   *)
(***************************************************************************)
LEMMA DisplayedIsScreen == ASSUME TypeOK, QueueLeads PROVE Displayed \in Screen
<1>1. PICK f : Path(f, updates) /\ f[1] = Displayed
  BY DEF QueueLeads, Leads
<1>2. 1 \in 1 .. Len(updates) + 1
  BY LenProperties DEF TypeOK
<1> QED BY <1>1, <1>2 DEF Path

(***************************************************************************)
(* The markers and the menu of any one mode are consistent; the server has *)
(* those of the running mode.                                              *)
(***************************************************************************)
LEMMA ModeIsScreen == \A m \in Mode : [view |-> Group(m), menu |-> {m}] \in Screen
<1> SUFFICES ASSUME NEW m \in Mode PROVE [view |-> Group(m), menu |-> {m}] \in Screen
  OBVIOUS
<1> DEFINE s == [view |-> Group(m), menu |-> {m}]
<1>1. s \in [view : SUBSET Mode, menu : SUBSET Mode]
  BY DEF Group
<1>2. s.view = {} \/ (s.view = s.menu /\ m \in Mode \ {"NONE"} /\ s.view = {m})
  BY DEF Group
<1> HIDE DEF s
<1>3. s \in Screen
  BY <1>1, <1>2 DEF Screen
<1> QED BY <1>3 DEF s

LEMMA LatestIsScreen == ASSUME IInv PROVE Latest \in Screen
<1>1. mode \in Mode /\ Latest = [view |-> Group(mode), menu |-> {mode}]
  BY DEF IInv, TypeOK, MenuShowsMode, MarkersFollowMode, Latest
<1> QED BY <1>1, ModeIsScreen

(***************************************************************************)
(* The constructor's message shows the menu, and no markers.               *)
(***************************************************************************)
LEMMA QueueInit == Init => QueueLeads
<1> SUFFICES ASSUME Init PROVE QueueLeads
  OBVIOUS
<1> DEFINE u == [insert |-> {}, erase |-> {}, home |-> {}, menu |-> {"NONE"}]
<1>1. "NONE" \in Mode /\ u \in UpdateMessages
  BY ModeAssumption DEF UpdateMessages
<1>2. updates = Append(<<>>, u) /\ <<>> \in Seq(UpdateMessages)
  BY DEF Init
<1>3. Displayed \in Screen /\ Displayed.view = {}
  BY DEF Init, Displayed, Screen
<1>4. After(Displayed, u) = Latest /\ Latest \in Screen
  BY <1>1 DEF Init, Displayed, Latest, Screen, After
<1>5. Leads(<<>>, Displayed, Displayed)
  BY <1>3, LeadsNowhere
<1>6. Leads(Append(<<>>, u), Displayed, After(Displayed, u))
  <2> HIDE DEF u
  <2> QED BY <1>1, <1>2, <1>3, <1>4, <1>5, LeadsFurther DEF Smooth
<1> QED BY <1>2, <1>4, <1>6 DEF QueueLeads

(***************************************************************************)
(* modeCb_ sends one message that takes the old markers down, if there are *)
(* any, and one that shows the new ones together with the menu.            *)
(***************************************************************************)
LEMMA SwitchMessages ==
  ASSUME IInv, ModeCb
  PROVE  \E u \in UpdateMessages :
           /\ u.insert = Group(mode') /\ u.erase = {} /\ u.menu = {mode'}
           /\ \/ mode = "NONE" /\ updates' = Append(updates, u)
              \/ /\ mode # "NONE"
                 /\ \E e \in UpdateMessages :
                      /\ e.insert = {} /\ e.erase = {mode} /\ e.menu = {}
                      /\ updates' = Append(Append(updates, e), u)
<1> DEFINE new == Received.mode
           left == LeaveMarkers(server, mode)
           checks == Checks(mode, new)
           entered == SwitchMarkers(server, mode, new)
           final == [entered EXCEPT !.menu = checks]
           before == IF mode = "NONE" THEN <<>> ELSE Published(left)
           u == UpdateMessage(final)
           e == UpdateMessage(left)
<1>1. new \in Mode /\ mode \in Mode /\ updates \in Seq(UpdateMessages)
  BY ReceiveType DEF ModeCb, IInv, TypeOK
<1>2. mode' = new /\ FinishWith(final, before)
  BY DEF ModeCb, SwitchMarkers
<1> HIDE DEF new
<1>3. checks = {new}
  BY DEF IInv, MenuShowsMode, Checks
<1>4. /\ server \in ServerStates
      /\ server.live = Group(mode) /\ server.bound = server.live
      /\ server.insert = {} /\ server.erase = {} /\ server.menu = {}
  BY DEF IInv, TypeOK, MarkersFollowMode, ServerStates
<1>5. /\ entered \in ServerStates /\ entered.insert = Group(new) /\ entered.erase = {}
      /\ left \in ServerStates
      /\ mode # "NONE" => left.insert = {} /\ left.erase = {mode} /\ left.menu = {}
  BY <1>1, <1>4, MarkersSwapped
<1> HIDE DEF entered, left, checks
<1>6. /\ final \in ServerStates
      /\ final.insert = Group(new) /\ final.erase = {} /\ final.menu = {new}
  BY <1>1, <1>3, <1>5 DEF ServerStates
<1> HIDE DEF final
<1>7. /\ u \in UpdateMessages
      /\ u.insert = Group(new) /\ u.erase = {} /\ u.menu = {new}
      /\ Published(final) = <<u>>
  BY <1>6 DEF UpdateMessage, UpdateMessages, ServerStates, Published
<1>8. mode # "NONE" => /\ e \in UpdateMessages
                       /\ e.insert = {} /\ e.erase = {mode} /\ e.menu = {}
                       /\ Published(left) = <<e>>
  BY <1>5 DEF UpdateMessage, UpdateMessages, ServerStates, Published
<1>9. updates' = (updates \o before) \o Published(final)
  BY <1>2 DEF FinishWith
<1> HIDE DEF u, e
<1>10. CASE mode = "NONE"
  <2>1. updates' = Append(updates, u)
    BY <1>1, <1>7, <1>9, <1>10
  <2> QED BY <1>2, <1>7, <1>10, <2>1
<1>11. CASE mode # "NONE"
  <2>1. before = <<e>>
    BY <1>8, <1>11
  <2> HIDE DEF before
  <2>2. updates' = (updates \o <<e>>) \o <<u>>
    BY <1>7, <1>9, <2>1
  <2>3. updates' = Append(Append(updates, e), u)
    <3>1. e \in UpdateMessages /\ u \in UpdateMessages
      BY <1>7, <1>8, <1>11
    <3>2. updates \o <<e>> = Append(updates, e)
      BY <1>1, <3>1
    <3>3. Append(updates, e) \in Seq(UpdateMessages)
      BY <1>1, <3>1
    <3>4. Append(updates, e) \o <<u>> = Append(Append(updates, e), u)
      BY <3>1, <3>3
    <3> QED BY <2>2, <3>2, <3>4
  <2> QED BY <1>2, <1>7, <1>8, <1>11, <2>3
<1> QED BY <1>10, <1>11

(***************************************************************************)
(* A switch leads the client on from what the server had to what it has.   *)
(***************************************************************************)
LEMMA ModeCbQueue == ASSUME IInv, QueueLeads, ModeCb PROVE QueueLeads'
<1>1. PICK u \in UpdateMessages :
        /\ u.insert = Group(mode') /\ u.erase = {} /\ u.menu = {mode'}
        /\ \/ mode = "NONE" /\ updates' = Append(updates, u)
           \/ /\ mode # "NONE"
              /\ \E e \in UpdateMessages :
                   /\ e.insert = {} /\ e.erase = {mode} /\ e.menu = {}
                   /\ updates' = Append(Append(updates, e), u)
  BY SwitchMessages
<1>2. IInv'
  BY ModeCbStep
<1>3. /\ mode \in Mode /\ mode' \in Mode /\ updates \in Seq(UpdateMessages)
      /\ Latest = [view |-> Group(mode), menu |-> {mode}]
      /\ Latest' = [view |-> Group(mode'), menu |-> {mode'}]
  BY <1>2 DEF IInv, TypeOK, MenuShowsMode, MarkersFollowMode, Latest
<1>4. Latest' \in Screen
  BY <1>3, ModeIsScreen
<1>5. Displayed' = Displayed
  BY DEF ModeCb, client, Displayed
<1>6. CASE mode = "NONE"
  <2>1. After(Latest, u) = Latest' /\ Latest.view = {}
    BY <1>1, <1>3, <1>6 DEF After, Group
  <2>2. Leads(Append(updates, u), Displayed, After(Latest, u))
    BY <1>3, <1>4, <2>1, LeadsFurther DEF QueueLeads, Smooth
  <2> QED BY <1>1, <1>5, <1>6, <2>1, <2>2 DEF QueueLeads
<1>7. CASE mode # "NONE"
  <2>1. PICK e \in UpdateMessages :
          /\ e.insert = {} /\ e.erase = {mode} /\ e.menu = {}
          /\ updates' = Append(Append(updates, e), u)
    BY <1>1, <1>7
  <2> DEFINE blank == After(Latest, e)
  <2>2. blank = [view |-> {}, menu |-> {mode}]
    BY <1>3, <1>7, <2>1 DEF After, Group
  <2>3. blank \in Screen /\ blank.view = {} /\ Smooth(Latest, blank)
    <3> HIDE DEF blank
    <3>1. blank \in Screen
      <4>1. /\ [view |-> {}, menu |-> {mode}] \in [view : SUBSET Mode, menu : SUBSET Mode]
            /\ [view |-> {}, menu |-> {mode}].view = {}
        BY <1>3
      <4> QED BY <2>2, <4>1 DEF Screen
    <3> QED BY <2>2, <3>1 DEF Smooth
  <2>4. Leads(Append(updates, e), Displayed, blank)
    BY <1>3, <2>3, LeadsFurther DEF QueueLeads
  <2>5. After(blank, u) = Latest'
    BY <1>1, <1>3, <2>2 DEF After
  <2> HIDE DEF blank
  <2>6. Leads(Append(Append(updates, e), u), Displayed, After(blank, u))
    <3>1. Append(updates, e) \in Seq(UpdateMessages)
      BY <1>3
    <3> QED BY <1>4, <2>3, <2>4, <2>5, <3>1, LeadsFurther DEF Smooth
  <2> QED BY <1>5, <2>1, <2>5, <2>6 DEF QueueLeads
<1> QED BY <1>6, <1>7

(***************************************************************************)
(* A gesture adds a message that only moves markers home.                  *)
(***************************************************************************)
LEMMA GestureQueue == ASSUME IInv, QueueLeads, ProcessFeedback PROVE QueueLeads'
<1> DEFINE m == Received.mode
           s == SetPoseHome(server, m)
           u == UpdateMessage(s)
<1>1. /\ server \in ServerStates /\ updates \in Seq(UpdateMessages)
      /\ server.insert = {} /\ server.erase = {} /\ server.menu = {}
      /\ m \in server.live
  BY DEF IInv, TypeOK, MarkersFollowMode, ServerStates, ProcessFeedback
<1>2. /\ FinishWith(s, <<>>) /\ UNCHANGED <<checked, client>>
  BY DEF ProcessFeedback
<1>3. s = [server EXCEPT !.home = @ \cup {m}, !.moved = @ \ {m}]
  BY <1>1 DEF SetPoseHome, Known
<1> HIDE DEF m
<1>4. /\ s \in ServerStates /\ m \in s.home
      /\ s.insert = {} /\ s.erase = {} /\ s.menu = {} /\ s.live = server.live
  <2>1. m \in Mode
    BY <1>1 DEF ServerStates
  <2> HIDE DEF s
  <2> QED BY <1>1, <1>3, <2>1 DEF ServerStates
<1> HIDE DEF s
<1>5. /\ u \in UpdateMessages
      /\ u.insert = {} /\ u.erase = {} /\ u.menu = {} /\ Published(s) = <<u>>
  BY <1>4 DEF UpdateMessage, UpdateMessages, ServerStates, Published
<1> HIDE DEF u
<1>6. updates' = Append(updates, u)
  BY <1>1, <1>2, <1>5 DEF FinishWith
<1>7. Latest' = Latest /\ Displayed' = Displayed
  BY <1>2, <1>4 DEF FinishWith, Applied, Latest, Displayed, client
<1>8. After(Latest, u) = Latest /\ Smooth(Latest, Latest)
  BY <1>5 DEF After, Latest, Smooth
<1>9. Latest \in Screen
  BY LatestIsScreen
<1>10. Leads(Append(updates, u), Displayed, After(Latest, u))
  BY <1>1, <1>5, <1>8, <1>9, LeadsFurther DEF QueueLeads
<1> QED BY <1>6, <1>7, <1>8, <1>10 DEF QueueLeads

(***************************************************************************)
(* The client applies the head of the queue, or begins afresh.             *)
(***************************************************************************)
LEMMA ClientQueue ==
  ASSUME IInv, QueueLeads, DeliverUpdate \/ Reconnect
  PROVE  QueueLeads' /\ (DeliverUpdate => Smooth(Displayed, Displayed'))
<1>1. CASE DeliverUpdate
  <2>1. /\ updates \in Seq(UpdateMessages) /\ updates # <<>>
        /\ updates' = Tail(updates)
        /\ Displayed' = After(Displayed, Head(updates))
        /\ Latest' = Latest
    BY <1>1 DEF DeliverUpdate, IInv, TypeOK, Displayed, Latest, After, node
  <2> QED BY <2>1, LeadsOn DEF QueueLeads
<1>2. CASE Reconnect /\ ~DeliverUpdate
  <2>1. updates' = <<>> /\ Displayed' = Latest' /\ Latest' = Latest
    BY <1>2 DEF Reconnect, Displayed, Latest, node
  <2>2. Latest \in Screen
    BY LatestIsScreen
  <2> QED BY <1>2, <2>1, <2>2, LeadsNowhere DEF QueueLeads
<1> QED BY <1>1, <1>2

(***************************************************************************)
(* Every step keeps the queue leading from the client to the server.       *)
(***************************************************************************)
LEMMA QueueStep == ASSUME IInv, QueueLeads, [Next]_vars PROVE QueueLeads'
<1>1. CASE ModeCb BY <1>1, ModeCbQueue
<1>2. CASE ProcessFeedback BY <1>2, GestureQueue
<1>3. CASE DeliverUpdate \/ Reconnect BY <1>3, ClientQueue
<1>4. CASE Operator \/ Discover \/ DragCb \/ IgnoreFeedback \/ UNCHANGED vars
  <2>1. UNCHANGED <<checked, updates, view, viewMenu>> /\ server'.live = server.live
    <3>1. CASE DragCb
      <4>1. server' = [server EXCEPT !.moved = @ \cup {Received.mode},
                                     !.home = @ \ {Received.mode}]
        BY <3>1 DEF DragCb, SetPoseMoved, Known
      <4> QED BY <3>1, <4>1 DEF DragCb, client, IInv, TypeOK
    <3>2. CASE Operator \/ Discover \/ IgnoreFeedback \/ UNCHANGED vars
      BY <3>2 DEF Operator, SelectMode, Drag, Release, Discover, IgnoreFeedback, vars,
                  node, client
    <3> QED BY <1>4, <3>1, <3>2
  <2>2. Latest' = Latest /\ Displayed' = Displayed
    BY <2>1 DEF Latest, Displayed
  <2> QED BY <2>1, <2>2 DEF QueueLeads
<1> QED BY <1>1, <1>2, <1>3, <1>4 DEF Next, Spin

LEMMA QueueInvariance == Spec => [](IInv /\ QueueLeads)
<1>1. IInv /\ QueueLeads /\ [Next]_vars => QueueLeads'
  BY QueueStep
<1> QED BY <1>1, QueueInit, Invariance, PTL DEF Spec

(***************************************************************************)
(* However many updates are under way, and wherever the client is in them, *)
(* it displays the markers of one mode, the one its menu shows as checked. *)
(***************************************************************************)
THEOREM NeverAMixture == Spec => []OneModeShown
<1>1. IInv /\ QueueLeads => OneModeShown
  BY DisplayedIsScreen DEF IInv, Displayed, Screen, OneModeShown
<1> QED BY <1>1, QueueInvariance, PTL

-----------------------------------------------------------------------------
(***************************************************************************)
(* The refinement of Teleop: each step of the node, the server, the client *)
(* and the queues between them is one of its steps, or none.               *)
(***************************************************************************)
LEMMA PromiseStep ==
  ASSUME IInv, QueueLeads, [Next]_vars
  PROVE  [Promise!Next]_Promise!vars
<1> USE DEF Promise!Next, Promise!vars
<1>1. CASE DeliverUpdate
  <2>1. Displayed \in Screen /\ Displayed' \in Screen /\ Smooth(Displayed, Displayed')
    <3>1. IInv' /\ QueueLeads' /\ Smooth(Displayed, Displayed')
      BY <1>1, DeliveryStep, ClientQueue
    <3>2. Displayed \in Screen
      BY DisplayedIsScreen DEF IInv
    <3>3. (TypeOK /\ QueueLeads)' => (Displayed \in Screen)'
      BY DisplayedIsScreen, PTL
    <3>4. (Displayed \in Screen)' <=> Displayed' \in Screen
      BY DEF Screen
    <3> QED BY <3>1, <3>2, <3>3, <3>4 DEF IInv
  <2>2. UNCHANGED <<mode, command>>
    BY <1>1 DEF DeliverUpdate, node
  <2>3. view' = {} \/ view' = view \/ (view = {} /\ view' \in Promise!Screens)
    BY <2>1 DEF Displayed, Screen, Smooth, Promise!Screens
  <2> QED BY <2>2, <2>3 DEF Promise!Hide, Promise!Show
<1>2. CASE Reconnect
  BY <1>2 DEF Reconnect, node, IInv, MarkersFollowMode, Group, Promise!Redraw
<1>3. CASE ModeCb
  <2>1. /\ mode' \in Mode /\ view' = view
        /\ command' # command => command'.by = mode'
    BY <1>3, ModeCbStep DEF ModeCb, client, IInv, TypeOK, ByRunningMode
  <2>2. command'.by \in {command.by, mode'}
    BY <2>1
  <2> QED BY <2>1, <2>2 DEF Promise!Switch
<1>4. CASE ProcessFeedback
  <2>1. /\ mode' = mode /\ view' = view
        /\ command' # command => command'.by = mode'
    BY <1>4, FeedbackStep DEF ProcessFeedback, client, ByRunningMode
  <2> QED BY <2>1 DEF Promise!Act
<1>5. CASE Operator \/ Discover \/ DragCb \/ IgnoreFeedback \/ UNCHANGED vars
  BY <1>5 DEF Operator, SelectMode, Drag, Release, Discover, DragCb, IgnoreFeedback, vars,
              node, client
<1> QED BY <1>1, <1>2, <1>3, <1>4, <1>5 DEF Next, Spin

(***************************************************************************)
(* For any modes and any queues, what the operator sees and causes is what *)
(* Teleop promises: modes switch, command and are drawn as if at once.     *)
(***************************************************************************)
THEOREM Refinement == Spec => ImplementsTeleop
<1>1. Init => Promise!Init
  BY DEF Init, NoCommand, Promise!Init
<1>2. IInv /\ QueueLeads /\ [Next]_vars => [Promise!Next]_Promise!vars
  BY PromiseStep
<1> QED BY <1>1, <1>2, QueueInvariance, PTL DEF Spec, ImplementsTeleop, Promise!Spec

-----------------------------------------------------------------------------
(***************************************************************************)
(* UpToDate: a client that has applied every message of the server shows   *)
(* the running mode's markers and has it checked in its menu: no part of a *)
(* mode switch is held back or forgotten (applyChanges at the end of       *)
(* modeCb_, and in leave()).                                               *)
(***************************************************************************)
UpToDate == updates = <<>> => view = Group(mode) /\ viewMenu = {mode}

\* ViewCatchesUp, but for the fairness of delivery, for any modes and queues.
THEOREM DeliveredMeansUpToDate == Spec => []UpToDate
<1>1. IInv /\ QueueLeads => UpToDate
  <2> SUFFICES ASSUME IInv, QueueLeads, updates = <<>>
               PROVE  view = Group(mode) /\ viewMenu = {mode}
    BY DEF UpToDate
  <2>1. PICK f : f[1] = Displayed /\ f[Len(updates) + 1] = Latest
    BY DEF QueueLeads, Leads
  <2>2. Len(updates) + 1 = 1
    OBVIOUS
  <2>3. Displayed = Latest
    BY <2>1, <2>2
  <2>4. view = server.live /\ viewMenu = checked
    BY <2>3 DEF Displayed, Latest
  <2> QED BY <2>4 DEF IInv, MenuShowsMode, MarkersFollowMode
<1> QED BY <1>1, QueueInvariance, PTL

-----------------------------------------------------------------------------
(***************************************************************************)
(* What the client shows or is about to show, and the server has no more,  *)
(* a later message takes down.                                             *)
(***************************************************************************)
Goes(q, m, i) == \E j \in 1 .. Len(q) : j > i /\ m \in q[j].erase

TakenDown ==
  /\ dragged \subseteq view
  /\ \A m \in Mode \ server.live :
       /\ m \in view => Goes(updates, m, 0)
       /\ \A i \in 1 .. Len(updates) : m \in updates[i].insert => Goes(updates, m, i)

(***************************************************************************)
(* A message that brings a group's marker back to its origin, or takes it  *)
(* down, is on its way.                                                    *)
(***************************************************************************)
Returns(u, m) == m \in u.insert \cup u.erase \cup u.home

Returning(m) == \E i \in 1 .. Len(updates) : Returns(updates[i], m)

BringsBack ==
  \A m \in Mode :
    /\ /\ ProcessFeedback \/ IgnoreFeedback
       /\ Received.kind = "mouse_up" /\ Received.mode = m /\ m \in dragged
       => Returning(m)'
    /\ Returning(m) /\ m \in dragged' => Returning(m)'

(***************************************************************************)
(* Messages stay in the queue when others are added behind them.           *)
(***************************************************************************)
LEMMA Appended ==
  ASSUME NEW q \in Seq(UpdateMessages), NEW u \in UpdateMessages
  PROVE  LET r == Append(q, u)
         IN  /\ r \in Seq(UpdateMessages) /\ Len(r) = Len(q) + 1 /\ Len(q) \in Nat
             /\ r[Len(r)] = u
             /\ \A i \in 1 .. Len(q) : i \in 1 .. Len(r) /\ r[i] = q[i]
             /\ \A i \in 1 .. Len(r) : i \in 1 .. Len(q) \/ i = Len(r)
OBVIOUS

LEMMA GoesOn ==
  ASSUME NEW q \in Seq(UpdateMessages), NEW u \in UpdateMessages, NEW m, NEW i
  PROVE  /\ Goes(q, m, i) => Goes(Append(q, u), m, i)
         /\ i \in 0 .. Len(q) /\ m \in u.erase => Goes(Append(q, u), m, i)
<1> DEFINE r == Append(q, u)
<1>1. /\ Len(r) = Len(q) + 1 /\ Len(q) \in Nat /\ r[Len(r)] = u
      /\ \A j \in 1 .. Len(q) : j \in 1 .. Len(r) /\ r[j] = q[j]
  BY Appended
<1> HIDE DEF r
<1>2. Goes(q, m, i) => Goes(r, m, i)
  BY <1>1 DEF Goes
<1>3. i \in 0 .. Len(q) /\ m \in u.erase => Goes(r, m, i)
  BY <1>1 DEF Goes
<1> QED BY <1>2, <1>3 DEF r

(***************************************************************************)
(* A message that shows nothing of m, added to a queue in which m goes.    *)
(***************************************************************************)
LEMMA StillGoes ==
  ASSUME NEW q \in Seq(UpdateMessages), NEW u \in UpdateMessages, NEW m, m \notin u.insert,
         \A i \in 1 .. Len(q) : m \in q[i].insert => Goes(q, m, i) \/ m \in u.erase
  PROVE  \A i \in 1 .. Len(Append(q, u)) :
           m \in Append(q, u)[i].insert => Goes(Append(q, u), m, i)
<1> DEFINE r == Append(q, u)
<1>1. /\ Len(r) = Len(q) + 1 /\ Len(q) \in Nat /\ r[Len(r)] = u
      /\ \A j \in 1 .. Len(q) : j \in 1 .. Len(r) /\ r[j] = q[j]
      /\ \A i \in 1 .. Len(r) : i \in 1 .. Len(q) \/ i = Len(r)
  BY Appended
<1>2. \A i \in 0 .. Len(q) : Goes(q, m, i) \/ m \in u.erase => Goes(r, m, i)
  BY GoesOn
<1> HIDE DEF r
<1>3. ASSUME NEW i \in 1 .. Len(r), m \in r[i].insert PROVE Goes(r, m, i)
  <2>1. i \in 1 .. Len(q) /\ r[i] = q[i]
    BY <1>1, <1>3
  <2>2. i \in 0 .. Len(q)
    BY <1>1, <2>1
  <2> QED BY <1>2, <1>3, <2>1, <2>2
<1> QED BY <1>3 DEF r

LEMMA DeliveryTakesDown == ASSUME IInv, TakenDown, DeliverUpdate PROVE TakenDown'
<1> DEFINE u == Head(updates)
           rest == Tail(updates)
<1>1. updates \in Seq(UpdateMessages) /\ updates # <<>>
  BY DEF IInv, TypeOK, DeliverUpdate
<1>2. /\ Len(updates) \in Nat \ {0} /\ Len(rest) = Len(updates) - 1
      /\ u = updates[1]
      /\ \A i \in 1 .. Len(rest) : rest[i] = updates[i + 1]
  BY <1>1
<1>3. /\ view' = (view \ u.erase) \cup u.insert
      /\ dragged' = dragged \ (u.erase \cup u.insert \cup u.home)
      /\ updates' = rest /\ server' = server
  BY DEF DeliverUpdate, node
<1> HIDE DEF u, rest
<1>4. ASSUME NEW m, NEW i \in Nat, Goes(updates, m, i + 1) PROVE Goes(rest, m, i)
  <2>1. PICK j \in 1 .. Len(updates) : j > i + 1 /\ m \in updates[j].erase
    BY <1>4 DEF Goes
  <2>2. j - 1 \in 1 .. Len(rest) /\ j - 1 > i /\ (j - 1) + 1 = j
    BY <1>2, <2>1
  <2>3. m \in rest[j - 1].erase
    BY <1>2, <2>1, <2>2
  <2> QED BY <2>2, <2>3 DEF Goes
<1>5. dragged' \subseteq view'
  BY <1>3 DEF TakenDown
<1>6. ASSUME NEW m \in Mode \ server.live, m \in view' PROVE Goes(rest, m, 0)
  <2>1. Goes(updates, m, 1)
    <3>1. CASE m \in u.insert
      <4>1. 1 \in 1 .. Len(updates) /\ m \in updates[1].insert
        BY <1>2, <3>1
      <4> QED BY <4>1 DEF TakenDown
    <3>2. CASE m \in view /\ m \notin u.erase
      <4>1. PICK j \in 1 .. Len(updates) : m \in updates[j].erase
        BY <3>2 DEF TakenDown, Goes
      <4>2. j > 1
        BY <1>2, <3>2, <4>1
      <4> QED BY <4>1, <4>2 DEF Goes
    <3> QED BY <1>3, <1>6, <3>1, <3>2
  <2>2. Goes(updates, m, 0 + 1)
    BY <2>1
  <2> QED BY <1>4, <2>2
<1>7. ASSUME NEW m \in Mode \ server.live, NEW i \in 1 .. Len(rest), m \in rest[i].insert
      PROVE  Goes(rest, m, i)
  <2>1. i \in Nat /\ i + 1 \in 1 .. Len(updates) /\ m \in updates[i + 1].insert
    BY <1>2, <1>7
  <2>2. Goes(updates, m, i + 1)
    BY <2>1 DEF TakenDown
  <2> QED BY <1>4, <2>1, <2>2
<1> QED BY <1>3, <1>5, <1>6, <1>7 DEF TakenDown

LEMMA SwitchTakesDown == ASSUME IInv, TakenDown, ModeCb PROVE TakenDown'
<1>1. PICK u \in UpdateMessages :
        /\ u.insert = Group(mode') /\ u.erase = {}
        /\ \/ mode = "NONE" /\ updates' = Append(updates, u)
           \/ /\ mode # "NONE"
              /\ \E e \in UpdateMessages :
                   /\ e.insert = {} /\ e.erase = {mode}
                   /\ updates' = Append(Append(updates, e), u)
  BY SwitchMessages
<1>2. /\ updates \in Seq(UpdateMessages) /\ Len(updates) \in Nat
      /\ server.live = Group(mode) /\ view' = view /\ dragged' = dragged
  BY DEF IInv, TypeOK, MarkersFollowMode, ModeCb, client
<1>3. server'.live = Group(mode')
  BY ModeCbStep DEF IInv, MarkersFollowMode
<1> SUFFICES ASSUME NEW m \in Mode, m \notin Group(mode')
             PROVE  /\ m \in view => Goes(updates', m, 0)
                    /\ \A i \in 1 .. Len(updates') :
                         m \in updates'[i].insert => Goes(updates', m, i)
  BY <1>2, <1>3 DEF TakenDown
<1>4. m \notin u.insert
  BY <1>1
<1>5. 0 \in 0 .. Len(updates)
  BY <1>2
<1>6. CASE mode = "NONE"
  <2>1. updates' = Append(updates, u) /\ m \notin server.live
    BY <1>1, <1>2, <1>6 DEF Group
  <2>2. /\ m \in view => Goes(updates, m, 0)
        /\ \A i \in 1 .. Len(updates) : m \in updates[i].insert => Goes(updates, m, i)
    BY <2>1 DEF TakenDown
  <2>3. m \in view => Goes(Append(updates, u), m, 0)
    BY <1>2, <2>2, GoesOn
  <2>4. \A i \in 1 .. Len(Append(updates, u)) :
          m \in Append(updates, u)[i].insert => Goes(Append(updates, u), m, i)
    BY <1>2, <1>4, <2>2, StillGoes
  <2> QED BY <2>1, <2>3, <2>4
<1>7. CASE mode # "NONE"
  <2>1. PICK e \in UpdateMessages :
          /\ e.insert = {} /\ e.erase = {mode}
          /\ updates' = Append(Append(updates, e), u)
    BY <1>1, <1>7
  <2> DEFINE q == Append(updates, e)
  <2>2. q \in Seq(UpdateMessages)
    BY <1>2
  <2>3. /\ m \in view => Goes(updates, m, 0) \/ m \in e.erase
        /\ \A i \in 1 .. Len(updates) :
             m \in updates[i].insert => Goes(updates, m, i) \/ m \in e.erase
    <3>1. m \in server.live => m \in e.erase
      BY <1>2, <2>1 DEF Group
    <3> QED BY <3>1 DEF TakenDown
  <2>4. m \in view => Goes(q, m, 0)
    BY <1>2, <1>5, <2>3, GoesOn
  <2>5. \A i \in 1 .. Len(q) : m \in q[i].insert => Goes(q, m, i)
    BY <1>2, <2>1, <2>3, StillGoes
  <2> HIDE DEF q
  <2>6. m \in view => Goes(Append(q, u), m, 0)
    BY <2>2, <2>4, GoesOn
  <2>7. \A i \in 1 .. Len(Append(q, u)) :
          m \in Append(q, u)[i].insert => Goes(Append(q, u), m, i)
    BY <1>4, <2>2, <2>5, StillGoes
  <2> QED BY <2>1, <2>6, <2>7 DEF q
<1> QED BY <1>6, <1>7

(***************************************************************************)
(* A released marker that is still there gets a message to go home.        *)
(***************************************************************************)
LEMMA GestureMessage ==
  ASSUME IInv, ProcessFeedback
  PROVE  \E u \in UpdateMessages :
           /\ u.insert = {} /\ u.erase = {} /\ Received.mode \in u.home
           /\ updates' = Append(updates, u)
           /\ server'.live = server.live
<1> DEFINE m == Received.mode
           s == SetPoseHome(server, m)
           u == UpdateMessage(s)
<1>1. /\ server \in ServerStates /\ updates \in Seq(UpdateMessages)
      /\ server.insert = {} /\ server.erase = {} /\ server.menu = {}
      /\ m \in server.live
  BY DEF IInv, TypeOK, MarkersFollowMode, ServerStates, ProcessFeedback
<1>2. FinishWith(s, <<>>)
  BY DEF ProcessFeedback
<1>3. s = [server EXCEPT !.home = @ \cup {m}, !.moved = @ \ {m}]
  BY <1>1 DEF SetPoseHome, Known
<1> HIDE DEF m
<1>4. /\ s \in ServerStates /\ m \in s.home
      /\ s.insert = {} /\ s.erase = {} /\ s.live = server.live
  <2>1. m \in Mode
    BY <1>1 DEF ServerStates
  <2> HIDE DEF s
  <2> QED BY <1>1, <1>3, <2>1 DEF ServerStates
<1> HIDE DEF s
<1>5. /\ u \in UpdateMessages
      /\ u.insert = {} /\ u.erase = {} /\ m \in u.home /\ Published(s) = <<u>>
  BY <1>4 DEF UpdateMessage, UpdateMessages, ServerStates, Published
<1> HIDE DEF u
<1>6. updates' = Append(updates, u)
  BY <1>1, <1>2, <1>5 DEF FinishWith
<1>7. server'.live = server.live
  BY <1>2, <1>4 DEF FinishWith, Applied
<1> QED BY <1>5, <1>6, <1>7 DEF m

LEMMA TakenDownStep == ASSUME IInv, TakenDown, [Next]_vars PROVE TakenDown'
<1>1. CASE ModeCb BY <1>1, SwitchTakesDown
<1>2. CASE DeliverUpdate BY <1>2, DeliveryTakesDown
<1>3. CASE Reconnect
  <2>1. view' = server'.live /\ dragged' = {} /\ updates' = <<>>
    BY <1>3 DEF Reconnect, node
  <2>2. Len(updates') = 0
    BY <2>1
  <2> QED BY <2>1, <2>2 DEF TakenDown
<1>4. CASE ProcessFeedback
  <2>1. PICK u \in UpdateMessages :
          /\ u.insert = {} /\ updates' = Append(updates, u) /\ server'.live = server.live
    BY <1>4, GestureMessage
  <2>2. updates \in Seq(UpdateMessages) /\ view' = view /\ dragged' = dragged
    BY <1>4 DEF IInv, TypeOK, ProcessFeedback, client
  <2> SUFFICES ASSUME NEW m \in Mode \ server.live
               PROVE  /\ m \in view => Goes(Append(updates, u), m, 0)
                      /\ \A i \in 1 .. Len(Append(updates, u)) :
                           m \in Append(updates, u)[i].insert => Goes(Append(updates, u), m, i)
    BY <2>1, <2>2 DEF TakenDown
  <2>3. /\ m \in view => Goes(updates, m, 0)
        /\ \A i \in 1 .. Len(updates) : m \in updates[i].insert => Goes(updates, m, i)
    BY DEF TakenDown
  <2>4. m \in view => Goes(Append(updates, u), m, 0)
    BY <2>2, <2>3, GoesOn
  <2> QED BY <2>1, <2>2, <2>3, <2>4, StillGoes
<1>5. CASE Operator \/ Discover \/ DragCb \/ IgnoreFeedback \/ UNCHANGED vars
  <2>1. /\ UNCHANGED <<updates, view>> /\ server'.live = server.live
        /\ dragged' \subseteq dragged \cup view
    <3>1. CASE DragCb
      <4>1. server' = [server EXCEPT !.moved = @ \cup {Received.mode},
                                     !.home = @ \ {Received.mode}]
        BY <3>1 DEF DragCb, SetPoseMoved, Known
      <4> QED BY <3>1, <4>1 DEF DragCb, client, IInv, TypeOK
    <3>2. CASE Operator \/ Discover \/ IgnoreFeedback \/ UNCHANGED vars
      BY <3>2 DEF Operator, SelectMode, Drag, Release, Discover, IgnoreFeedback, vars,
                  node, client
    <3> QED BY <1>5, <3>1, <3>2
  <2> QED BY <2>1 DEF TakenDown
<1> QED BY <1>1, <1>2, <1>3, <1>4, <1>5 DEF Next, Spin

LEMMA BringsBackStep == ASSUME IInv, TakenDown, [Next]_vars PROVE BringsBack
<1> SUFFICES ASSUME NEW m \in Mode
             PROVE  /\ /\ ProcessFeedback \/ IgnoreFeedback
                       /\ Received.kind = "mouse_up" /\ Received.mode = m /\ m \in dragged
                       => Returning(m)'
                    /\ Returning(m) /\ m \in dragged' => Returning(m)'
  BY DEF BringsBack
<1>0. updates \in Seq(UpdateMessages)
  BY DEF IInv, TypeOK
<1>1. CASE ProcessFeedback /\ Received.mode = m
  <2>1. PICK u \in UpdateMessages : m \in u.home /\ updates' = Append(updates, u)
    BY <1>1, GestureMessage
  <2>2. Len(updates') \in 1 .. Len(updates') /\ updates'[Len(updates')] = u
    BY <1>0, <2>1
  <2> QED BY <2>1, <2>2 DEF Returning, Returns
<1>2. CASE IgnoreFeedback /\ Received.kind = "mouse_up" /\ Received.mode = m
  <2>1. updates' = updates
    BY <1>2 DEF IgnoreFeedback
  <2>2. m \notin server.live
    BY <1>2 DEF IgnoreFeedback, Receive, IInv, MarkersFollowMode
  <2>3. m \in dragged => Goes(updates, m, 0)
    BY <2>2 DEF TakenDown
  <2> QED BY <2>1, <2>3 DEF Goes, Returning, Returns
<1>3. ASSUME Returning(m), m \in dragged' PROVE Returning(m)'
  <2>1. PICK i \in 1 .. Len(updates) : Returns(updates[i], m)
    BY <1>3 DEF Returning
  <2>2. ASSUME NEW u \in UpdateMessages, NEW q \in Seq(UpdateMessages),
               i \in 1 .. Len(q), q[i] = updates[i]
        PROVE  i \in 1 .. Len(Append(q, u)) /\ Append(q, u)[i] = updates[i]
    BY <2>2, Appended
  <2>3. CASE ModeCb
    <3>1. \/ \E u \in UpdateMessages : updates' = Append(updates, u)
          \/ \E e \in UpdateMessages, u \in UpdateMessages :
               updates' = Append(Append(updates, e), u)
      BY <2>3, SwitchMessages
    <3>2. \A e \in UpdateMessages : Append(updates, e) \in Seq(UpdateMessages)
      BY <1>0
    <3>3. i \in 1 .. Len(updates') /\ updates'[i] = updates[i]
      BY <1>0, <2>2, <3>1, <3>2
    <3> QED BY <2>1, <3>3 DEF Returning
  <2>4. CASE ProcessFeedback
    <3>1. \E u \in UpdateMessages : updates' = Append(updates, u)
      BY <2>4, GestureMessage
    <3>2. i \in 1 .. Len(updates') /\ updates'[i] = updates[i]
      BY <1>0, <2>2, <3>1
    <3> QED BY <2>1, <3>2 DEF Returning
  <2>5. CASE DeliverUpdate
    <3>1. /\ updates # <<>> /\ updates' = Tail(updates)
          /\ m \notin Head(updates).erase \cup Head(updates).insert \cup Head(updates).home
      BY <1>3, <2>5 DEF DeliverUpdate
    <3>2. i # 1
      BY <1>0, <2>1, <3>1 DEF Returns
    <3>3. i - 1 \in 1 .. Len(updates') /\ updates'[i - 1] = updates[i]
      BY <1>0, <3>1, <3>2
    <3> QED BY <2>1, <3>3 DEF Returning
  <2>6. CASE Reconnect
    BY <1>3, <2>6 DEF Reconnect
  <2>7. CASE Operator \/ Discover \/ DragCb \/ IgnoreFeedback \/ UNCHANGED vars
    <3>1. updates' = updates
      BY <2>7 DEF Operator, SelectMode, Drag, Release, Discover, DragCb, IgnoreFeedback, vars
    <3> QED BY <2>1, <3>1 DEF Returning
  <2> QED BY <2>3, <2>4, <2>5, <2>6, <2>7 DEF Next, Spin
<1> QED BY <1>1, <1>2, <1>3

(***************************************************************************)
(* When the release of a dragged marker is received, whether its mode      *)
(* still runs (processFeedback_ moves it home) or was left (leave() has    *)
(* erased it), a message that ends the drag is on its way to the client,   *)
(* and stays there until the client has applied it.  This is               *)
(* MarkerSnapsBack but for fairness, for any modes and queues.             *)
(***************************************************************************)
THEOREM ReleaseBringsBack == Spec => [][BringsBack]_vars
<1>1. Init => TakenDown
  <2> SUFFICES ASSUME Init PROVE TakenDown
    OBVIOUS
  <2>1. /\ view = {} /\ dragged = {}
        /\ updates = <<[insert |-> {}, erase |-> {}, home |-> {}, menu |-> {"NONE"}]>>
    BY DEF Init
  <2>2. \A i \in 1 .. Len(updates) : updates[i].insert = {}
    BY <2>1
  <2> QED BY <2>1, <2>2 DEF TakenDown
<1>2. IInv /\ TakenDown /\ [Next]_vars => TakenDown' /\ BringsBack
  BY TakenDownStep, BringsBackStep
<1> QED BY <1>1, <1>2, Invariance, PTL DEF Spec
=============================================================================
