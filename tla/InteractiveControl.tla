------------------------- MODULE InteractiveControl -------------------------
(***************************************************************************)
(* The interactive teleoperation node of package                           *)
(* openvmp_control_interactive, the marker server it drives and one RViz   *)
(* client.                                                                 *)
(*                                                                         *)
(* The operator selects a mode in a menu.  A mode owns a group of markers  *)
(* in RViz, and a gesture on one of them becomes a command on a ROS topic. *)
(* Modes of one control family (trajectory+velocity, or position) share    *)
(* static publishers, which exist only while a mode of that family runs.   *)
(*                                                                         *)
(* All callbacks belong to the node's default, mutually exclusive,         *)
(* callback group, so one callback is one step.  What is concurrent is the *)
(* client: it works on the markers of updates already delivered, while the *)
(* server may have moved on, and its feedback waits in a queue.            *)
(***************************************************************************)
EXTENDS Naturals, Sequences, FiniteSets

CONSTANTS
  Mode,         \* the modes added to Node::modes_
  MaxFeedback,  \* bound: feedback messages waiting in the node's subscription
  MaxUpdates    \* bound: server updates not yet delivered to the client

(***************************************************************************)
(* enum Mode, without the prefix of its C++ namespace.                     *)
(***************************************************************************)
WholeBody == {"FULL", "WALK", "DRIVE", "HUG", "HANG", "GRAB", "LIFT"}
Cameras == {"CAMERAS_FRONT_LEFT", "CAMERAS_FRONT_RIGHT",
            "CAMERAS_REAR_LEFT", "CAMERAS_REAR_RIGHT"}
AllModes == {"NONE"} \cup WholeBody \cup Cameras

ASSUME ModeAssumption == Mode \subseteq AllModes /\ "NONE" \in Mode
ASSUME BoundsAssumption == MaxFeedback \in Nat \ {0} /\ MaxUpdates \in Nat \ {0, 1}

VARIABLES
  mode,        \* Node::mode_last_; menu items are one to one with modes, so
               \* it stands for item_last_ too
  checked,     \* the modes whose menu item has the check state CHECKED
  publishers,  \* the static and per-instance publishers of the control families
  server,      \* marker contexts and pending updates of the marker server
  command,     \* the last message given to a live publisher
  matched,     \* has the controller discovered the trajectory publisher?
  robot,       \* mode whose trajectory the controller received last
  updates,     \* server -> client: published InteractiveMarkerUpdates
  feedback,    \* client -> server: InteractiveMarkerFeedback
  view,        \* client: the marker groups it displays
  viewMenu,    \* client: menu items it displays as checked ({}: no menu yet)
  dragged      \* client: displayed groups whose marker is away from its origin

node == <<mode, checked, publishers, server, command, robot>>
client == <<view, viewMenu, dragged>>
vars == <<node, matched, updates, feedback, client>>

-----------------------------------------------------------------------------
(***************************************************************************)
(* get_control(): the control family of a mode.                            *)
(***************************************************************************)
Control(m) == IF m \in WholeBody THEN "TRAJ_VEL"
              ELSE IF m \in Cameras THEN "POSITION" ELSE "CONTROL_NONE"

(***************************************************************************)
(* The markers of a mode form one group, named after the mode: their names *)
(* differ between modes, and each mode inserts and erases all of its own   *)
(* in one callback.  NONE has no marker.                                   *)
(***************************************************************************)
Group(m) == {m} \ {"NONE"}

(***************************************************************************)
(* Where the gestures of a mode go: its controls (move_x, move_z, turn and *)
(* the rotations) by the topic processFeedback_ publishes to.  HANG only   *)
(* logs a move_x.                                                          *)
(***************************************************************************)
Outputs(m) ==
  CASE m \in {"DRIVE", "HUG"}                 -> {"velocity", "trajectory"}
    [] m = "HANG"                             -> {"none", "trajectory"}
    [] m \in {"FULL", "WALK", "GRAB", "LIFT"} -> {"trajectory"}
    [] m \in Cameras                          -> {"position"}
    [] OTHER                                  -> {}

(***************************************************************************)
(* Entering one of these modes publishes its initial position.             *)
(***************************************************************************)
HasInitialPosition(m) == m \in WholeBody \ {"FULL"}

Topics == {"trajectory", "velocity", "position"}
NoCommand == [by |-> "NONE", topic |-> "none"]

-----------------------------------------------------------------------------
(***************************************************************************)
(* Publishers.  "initialized" are the families whose static initialized_   *)
(* is true, "open" the static publishers that are not null, "velocity" the *)
(* mode objects whose own (not static) velocity_commands_ is not null.     *)
(***************************************************************************)
TrajVelInitAllStatic(p, m) ==
  IF "TRAJ_VEL" \in p.initialized THEN p
  ELSE [p EXCEPT !.open = @ \cup {"trajectory", "velocity"},
                 !.initialized = @ \cup {"TRAJ_VEL"}]

TrajVelInit(p, m) ==
  IF "TRAJ_VEL" \in p.initialized THEN p
  ELSE [p EXCEPT !.open = @ \cup {"trajectory"},
                 !.velocity = @ \cup {m},
                 !.initialized = @ \cup {"TRAJ_VEL"}]

TrajVelFiniOnce(p, m) ==
  [p EXCEPT !.open = @ \ {"trajectory"}, !.velocity = @ \ {m}]

TrajVelFini(p, m) ==
  [p EXCEPT !.open = @ \ {"trajectory"},
            !.velocity = @ \ {m},
            !.initialized = @ \ {"TRAJ_VEL"}]

PositionInit(p) ==
  IF "POSITION" \in p.initialized THEN p
  ELSE [p EXCEPT !.open = @ \cup {"position"},
                 !.initialized = @ \cup {"POSITION"}]

PositionFini(p) ==
  [p EXCEPT !.open = @ \ {"position"}, !.initialized = @ \ {"POSITION"}]

(***************************************************************************)
(* ControlImpl::leave and ControlImpl::enter: only a change of family      *)
(* closes and opens publishers.                                            *)
(***************************************************************************)
ControlLeave(p, from, to) ==
  IF Control(from) = Control(to) THEN p
  ELSE CASE Control(from) = "TRAJ_VEL" -> TrajVelFini(p, from)
         [] Control(from) = "POSITION" -> PositionFini(p)
         [] OTHER -> p

ControlEnter(p, from, to) ==
  IF Control(from) = Control(to) THEN p
  ELSE CASE Control(to) = "TRAJ_VEL" -> TrajVelInit(p, to)
         [] Control(to) = "POSITION" -> PositionInit(p)
         [] OTHER -> p

CanPublish(p, m, topic) ==
  IF topic = "velocity" THEN m \in p.velocity ELSE topic \in p.open

-----------------------------------------------------------------------------
(***************************************************************************)
(* The marker server (external: interactive_markers).  "live" are its      *)
(* contexts, "bound" the groups with a feedback callback; the other fields *)
(* are the updates that wait for applyChanges: groups to insert, to erase, *)
(* to move to where the client dragged them or back home, and the menu.    *)
(***************************************************************************)
Known(s, m) == m \in s.live \cup s.insert

InsertMarkers(s, m) ==
  [s EXCEPT !.insert = @ \cup Group(m), !.erase = @ \ Group(m)]

BindCallback(s, m) ==
  IF Known(s, m) THEN [s EXCEPT !.bound = @ \cup {m}] ELSE s

ClearCallback(s, m) ==
  IF Known(s, m) THEN [s EXCEPT !.bound = @ \ {m}] ELSE s

EraseNothing(s, m) == s

EraseMarkers(s, m) ==
  IF Known(s, m)
  THEN [s EXCEPT !.insert = @ \ {m}, !.moved = @ \ {m}, !.home = @ \ {m},
                 !.erase = @ \cup {m}]
  ELSE s

SetNoPose(s, m) == s

SetPoseHome(s, m) ==
  IF Known(s, m) THEN [s EXCEPT !.home = @ \cup {m}, !.moved = @ \ {m}] ELSE s

SetPoseMoved(s, m) ==
  IF Known(s, m) THEN [s EXCEPT !.moved = @ \cup {m}, !.home = @ \ {m}] ELSE s

(***************************************************************************)
(* applyChanges: the pending updates take effect in the server and go out  *)
(* as one message, unless there is none.                                   *)
(***************************************************************************)
Applied(s) ==
  [live |-> (s.live \cup s.insert) \ s.erase, bound |-> s.bound \ s.erase,
   insert |-> {}, erase |-> {}, moved |-> {}, home |-> {}, menu |-> {}]

UpdateWithoutMenu(s) ==
  [insert |-> s.insert, erase |-> s.erase, home |-> s.home, menu |-> {}]

UpdateMessage(s) ==
  [insert |-> s.insert, erase |-> s.erase, home |-> s.home, menu |-> s.menu]

PublishedWithMenu(s) == IF s.menu = {} THEN <<>> ELSE <<UpdateMessage(s)>>

Published(s) ==
  IF s.insert \cup s.erase \cup s.home \cup s.moved \cup s.menu = {} THEN <<>>
  ELSE <<UpdateMessage(s)>>

-----------------------------------------------------------------------------
(***************************************************************************)
(* The node after its constructor: every menu item exists, NONE is checked *)
(* and the menu marker is published.  No client is connected yet.          *)
(***************************************************************************)
Init ==
  /\ mode = "NONE"
  /\ checked = {"NONE"}
  /\ publishers = [initialized |-> {}, open |-> {}, velocity |-> {}]
  /\ server = [live |-> {}, bound |-> {}, insert |-> {}, erase |-> {},
               moved |-> {}, home |-> {}, menu |-> {}]
  /\ command = NoCommand
  /\ matched = FALSE
  /\ robot = "NONE"
  /\ updates = <<[insert |-> {}, erase |-> {}, home |-> {}, menu |-> {"NONE"}]>>
  /\ feedback = <<>>
  /\ view = {} /\ viewMenu = {} /\ dragged = {}

-----------------------------------------------------------------------------
(* The client (external: RViz).                                            *)

Send(kind, m, topic) ==
  /\ Len(feedback) < MaxFeedback
  /\ feedback' = Append(feedback, [kind |-> kind, mode |-> m, topic |-> topic])

\* The operator picks a mode in the menu.
SelectMode(m) ==
  /\ viewMenu # {}
  /\ Send("menu", m, "none")
  /\ UNCHANGED <<node, matched, updates, client>>

\* The operator moves a displayed marker: an event other than MOUSE_UP.
Drag(m) ==
  /\ m \in view
  /\ Send("drag", m, "none")
  /\ dragged' = dragged \cup {m}
  /\ UNCHANGED <<node, matched, updates, view, viewMenu>>

\* The operator lets go of a displayed marker: MOUSE_UP.
Release(m, topic) ==
  /\ m \in dragged
  /\ Send("mouse_up", m, topic)
  /\ UNCHANGED <<node, matched, updates, client>>

\* The client applies the next update message.
DeliverUpdate ==
  /\ updates # <<>>
  /\ LET u == Head(updates) IN
       /\ view' = (view \ u.erase) \cup u.insert
       /\ viewMenu' = IF u.menu = {} THEN viewMenu ELSE u.menu
       /\ dragged' = dragged \ (u.erase \cup u.insert \cup u.home)
  /\ updates' = Tail(updates)
  /\ UNCHANGED <<node, matched, feedback>>

\* RViz restarts, or finds a gap in the sequence numbers: it asks the server
\* for its current markers and forgets older updates.
Reconnect ==
  /\ view' = server.live
  /\ viewMenu' = checked
  /\ dragged' = {}
  /\ updates' = <<>>
  /\ UNCHANGED <<node, matched, feedback>>

-----------------------------------------------------------------------------
(* The node's callbacks.                                                   *)

Received == Head(feedback)

Receive(kind) ==
  /\ feedback # <<>>
  /\ Received.kind = kind
  /\ feedback' = Tail(feedback)

\* server_->applyChanges() at the end of a callback that has built s; "before"
\* holds the messages that the same callback has published already.
FinishWith(s, before) ==
  /\ server' = Applied(s)
  /\ updates' = updates \o before \o Published(s)
  /\ Len(updates') <= MaxUpdates

\* publish(), behind the null check every caller has.  The controller gets
\* what its subscription is matched for; volatile publishers keep nothing.
Publish(p, m, topic, isMatched) ==
  IF CanPublish(p, m, topic)
  THEN /\ command' = [by |-> m, topic |-> topic]
       /\ robot' = IF topic = "trajectory" /\ isMatched THEN m ELSE robot
  ELSE UNCHANGED <<command, robot>>

ClearOnly(s, m) == IF m = "NONE" THEN s ELSE ClearCallback(s, m)

LeaveNothing(s, m) == s

\* leave(): clears the callbacks, erases the markers and applies that.
LeaveMarkers(s, m) ==
  IF m = "NONE" THEN s ELSE EraseMarkers(ClearCallback(s, m), m)

CheckThenUncheck(old, new) == (checked \cup {new}) \ {old}

\* The item of the old mode is unchecked before that of the new one is checked.
Checks(old, new) == (checked \ {old}) \cup {new}

\* Node::modeCb_ with leave() of the old and enter() of the new mode.
ModeCb ==
  /\ Receive("menu")
  /\ LET new == Received.mode
         old == mode
         left == LeaveMarkers(server, old)
         between == IF old = "NONE" THEN left ELSE Applied(left)
         entered == BindCallback(InsertMarkers(between, new), new)
         checks == Checks(old, new)
         closed == ControlLeave(publishers, old, new)
         opened == ControlEnter(closed, old, new)
         same == "trajectory" \in closed.open
     IN
     /\ publishers' = opened
     /\ matched' = (matched /\ same)
     /\ IF HasInitialPosition(new)
        THEN Publish(opened, new, "trajectory", matched /\ same)
        ELSE UNCHANGED <<command, robot>>
     /\ checked' = checks
     /\ mode' = new
     /\ FinishWith([entered EXCEPT !.menu = checks],
                   IF old = "NONE" THEN <<>> ELSE Published(left))
  /\ UNCHANGED client

\* An event before the gesture is committed: the server remembers the pose,
\* and the mode's processFeedback_ returns at once.
DragCb ==
  /\ Receive("drag")
  /\ Received.mode \in server.live
  /\ server' = SetPoseMoved(server, Received.mode)
  /\ UNCHANGED <<mode, checked, publishers, command, robot, matched, updates, client>>

\* processFeedback_ of the mode that owns the marker.
ProcessFeedback ==
  /\ Receive("mouse_up")
  /\ Received.mode \in server.live \cap server.bound
  /\ Publish(publishers, Received.mode, Received.topic, matched)
  /\ FinishWith(SetPoseHome(server, Received.mode), <<>>)
  /\ UNCHANGED <<mode, checked, publishers, matched, client>>

\* Feedback on a marker that the server no longer has, or that has no callback.
IgnoreFeedback ==
  /\ \/ Receive("drag") /\ Received.mode \notin server.live
     \/ Receive("mouse_up") /\ Received.mode \notin server.live \cap server.bound
  /\ UNCHANGED <<node, matched, updates, client>>

\* DDS discovery: the controller's subscription meets the new publisher.
Discover ==
  /\ "trajectory" \in publishers.open /\ ~matched
  /\ matched' = TRUE
  /\ UNCHANGED <<node, updates, feedback, client>>

-----------------------------------------------------------------------------
Spin == ModeCb \/ DragCb \/ ProcessFeedback \/ IgnoreFeedback

Operator ==
  \E m \in Mode : SelectMode(m) \/ Drag(m) \/ \E t \in Outputs(m) : Release(m, t)

Next == Operator \/ DeliverUpdate \/ Reconnect \/ Spin \/ Discover

Spec == Init /\ [][Next]_vars

(***************************************************************************)
(* The executor keeps spinning and the reliable update topic keeps         *)
(* delivering.  Nothing is assumed about the operator or about discovery.  *)
(***************************************************************************)
FairSpec == Spec /\ WF_vars(Spin) /\ WF_vars(DeliverUpdate)
-----------------------------------------------------------------------------
UpdateMessages == [insert : SUBSET Mode, erase : SUBSET Mode, home : SUBSET Mode,
                   menu : SUBSET Mode]
FeedbackMessages == [kind : {"menu", "drag", "mouse_up"}, mode : Mode,
                     topic : Topics \cup {"none"}]

(***************************************************************************)
(* The types of the variables: of the fields of Node, of the publishers of *)
(* its modes, of the marker server and of the client.                      *)
(***************************************************************************)
TypeOK ==
  /\ mode \in Mode
  /\ checked \in SUBSET Mode
  /\ publishers \in [initialized : SUBSET {"TRAJ_VEL", "POSITION"},
                     open : SUBSET {"trajectory", "position"},
                     velocity : SUBSET Mode]
  /\ server \in [live : SUBSET Mode, bound : SUBSET Mode, insert : SUBSET Mode,
                 erase : SUBSET Mode, moved : SUBSET Mode, home : SUBSET Mode,
                 menu : SUBSET Mode]
  /\ command \in [by : Mode, topic : Topics \cup {"none"}]
  /\ matched \in BOOLEAN
  /\ robot \in Mode
  /\ updates \in Seq(UpdateMessages)
  /\ feedback \in Seq(FeedbackMessages)
  /\ view \in SUBSET Mode /\ viewMenu \in SUBSET Mode /\ dragged \in SUBSET Mode

(***************************************************************************)
(* The menu shows exactly the running mode as checked (Node::modeCb_       *)
(* unchecks item_last_ and checks the new item, also when they are the     *)
(* same item).                                                             *)
(***************************************************************************)
MenuShowsMode == checked = {mode}

(***************************************************************************)
(* The shared publishers exist exactly while a mode of their family runs:  *)
(* the static initialized_ flags and pointers of TrajVelControl and        *)
(* PositionControl are handed over correctly between modes whose init()    *)
(* and fini() run on different objects.                                    *)
(***************************************************************************)
PublishersFollowMode ==
  /\ publishers.open = CASE Control(mode) = "TRAJ_VEL" -> {"trajectory"}
                         [] Control(mode) = "POSITION" -> {"position"}
                         [] OTHER -> {}
  /\ publishers.initialized = {Control(mode)} \ {"CONTROL_NONE"}

(***************************************************************************)
(* Between callbacks the server's markers are those of the running mode,   *)
(* each with its callback, and no insertion or removal waits for           *)
(* applyChanges: leave() and enter() leave nothing behind.                 *)
(***************************************************************************)
MarkersFollowMode ==
  /\ server.live = Group(mode)
  /\ server.bound = server.live
  /\ server.insert = {} /\ server.erase = {} /\ server.menu = {}

(***************************************************************************)
(* Whatever the client displays, late as it may be, is consistent: markers *)
(* of one mode only, and of the mode that its menu shows as checked.       *)
(***************************************************************************)
OneModeShown == view # {} => view = viewMenu

(***************************************************************************)
(* A gesture queued for a mode that has been left never becomes a command  *)
(* of that mode: only the running mode's processFeedback_ or enter()       *)
(* publishes (the markers' callbacks are cleared and erased by leave()),   *)
(* and only it moves the robot.                                            *)
(***************************************************************************)
ByRunningMode ==
  /\ command' # command => command'.by = mode'
  /\ robot' # robot => robot' = mode'

OnlyRunningModeCommands == [][ByRunningMode]_vars

(***************************************************************************)
(* The client ends up with the markers and the menu of the mode selected,  *)
(* unless another mode is selected meanwhile (server_->applyChanges() at   *)
(* the end of modeCb_).                                                    *)
(***************************************************************************)
ViewCatchesUp ==
  \A m \in Mode :
    (mode = m) ~> (mode # m \/ (view = Group(m) /\ viewMenu = {m}))

(***************************************************************************)
(* The node, its marker server and its client implement Teleop: switching, *)
(* commanding and drawing, over all the queues between them, look like the *)
(* atomic steps of that specification.                                     *)
(***************************************************************************)
Promise == INSTANCE Teleop WITH active <- mode, commander <- command.by,
                                shown <- view
ImplementsTeleop == Promise!Spec

Released(m) ==
  \E i \in DOMAIN feedback : feedback[i].kind = "mouse_up" /\ feedback[i].mode = m

(***************************************************************************)
(* "Make the marker snap back to robot": a marker that was dragged and     *)
(* released returns to its origin or disappears, also when its mode was    *)
(* left before the gesture was received.                                   *)
(***************************************************************************)
MarkerSnapsBack ==
  \A m \in Mode : (m \in dragged /\ Released(m)) ~> (m \notin dragged)

(***************************************************************************)
(* What docs/Control.md promises of a mode that drives the wheels: its     *)
(* move_x gesture can be published, that is, DriveMode and HugMode have a  *)
(* velocity publisher while they run.  (The code breaks it.)               *)
(***************************************************************************)
VelocityReady == "velocity" \in Outputs(mode) => mode \in publishers.velocity
=============================================================================
