------------------------------- MODULE Vehicle -------------------------------
(***************************************************************************)
(* The driving loop: the click plugin of Gazebo publishes paths, the local *)
(* planner (BaseDwaPlanner, CarDwaPlanner) turns them into velocity        *)
(* commands, the car plugin keeps the last command it got, and the odometry *)
(* and pose plugins report back.  The planner has two threads without a    *)
(* lock: its node's thread runs the callbacks and the watchdog timer, one  *)
(* at a time, and process_thread_ runs plan().  Shared are points_,        *)
(* current_step_, local_goal_ and the volatile flags; every access to one  *)
(* of them between which the other thread may run is a step here.          *)
(*                                                                         *)
(* A place is a position told apart by goal_tolerance_, Away any position  *)
(* that is near no waypoint.  Which velocity generateTrajectory picks is   *)
(* in DwaSearch; here a command drives or stops.  The topics between the   *)
(* nodes deliver at once and in order (see ShmTopic).                      *)
(*                                                                         *)
(* Bounds: MaxPaths paths.  Sensor are the sensors the watchdog looks at    *)
(* (the code has odom, pose and map).  The watchdog's 20, 1000 and 1000000  *)
(* are CntMax, CntStart and CntWrap.                                       *)
(***************************************************************************)
EXTENDS Naturals, Sequences

CONSTANTS Place, Away, Sensor, MaxPaths, CntMax, CntStart, CntWrap

ASSUME VehicleAssumption ==
  /\ Away \notin Place /\ Place # {}
  /\ "pose" \in Sensor
  /\ MaxPaths \in Nat
  /\ CntMax \in Nat /\ CntStart \in Nat /\ CntWrap \in Nat
  /\ CntMax <= CntStart /\ CntStart <= CntWrap /\ CntMax < CntWrap

Pose == Place \cup {Away}

VARIABLES
  click,       \* the click plugin: [goal_enabled, start], Away: no has_start
  paths,       \* paths published so far
  points,      \* points_
  step,        \* current_step_
  goal,        \* local_goal_, Away before the first
  goal_update, \* goal_update_
  update,      \* odom_update_, pose_update_, map_update_
  watch,       \* watch_cnt[0], [2], [3]
  pose,        \* current_pose_
  pc,          \* where plan() is
  io,          \* where the node's thread is within a callback
  cmd,         \* the command in the car plugin: "stop" or "drive"
  age,         \* history: ticks of the timer since the sensor spoke, capped
  raced        \* history: a replan request overlapped a turn of plan()

sensorVars == <<update, watch, age>>
planVars == <<points, step, goal, goal_update>>
vhVars == <<click, paths, planVars, sensorVars, pose, pc, io, cmd, raced>>

\* DiffDriveCarPlugin::Load: the car stands.  Then CmdCallback keeps a command, and
\* OnUpdate applies it in every step of the world until another one comes.
CarLoads == cmd = "stop"
Commands(c) == cmd' = c

\* The members of BaseDwaPlanner, its constructor and the plugins' Load.
VhInit ==
  /\ click = [goal_enabled |-> FALSE, start |-> Away]
  /\ paths = 0
  /\ points = <<>> /\ step = 0 /\ goal = Away /\ goal_update = FALSE
  /\ update = [s \in Sensor |-> FALSE]
  /\ watch = [s \in Sensor |-> CntStart]
  /\ pose = Away
  /\ pc = "check" /\ io = "idle"
  /\ CarLoads
  /\ age = [s \in Sensor |-> CntMax + 1]
  /\ raced = FALSE

-----------------------------------------------------------------------------
(* The watchdog and the sensors, on the node's thread *)

\* Mutant: the counter starts again from nothing.
RewoundToZero(n) == IF n > CntWrap THEN 0 ELSE n

Rewound(n) == IF n > CntWrap THEN CntMax + 1 ELSE n

on_timer ==
  /\ io = "idle"
  /\ update' = [s \in Sensor |-> watch[s] < CntMax]
  /\ watch' = [s \in Sensor |-> Rewound(watch[s] + 1)]
  /\ age' = [s \in Sensor |-> IF age[s] > CntMax THEN age[s] ELSE age[s] + 1]
  /\ UNCHANGED <<click, paths, planVars, pose, pc, io, cmd, raced>>

Feeds(s) ==
  /\ watch' = [watch EXCEPT ![s] = 0]
  /\ age' = [age EXCEPT ![s] = 0]
  /\ UNCHANGED update

\* odomCallback (with OdomPublisherPlugin::OnUpdate before it) and mapCallback.
dataCallback(s) ==
  /\ io = "idle" /\ Feeds(s)
  /\ UNCHANGED <<click, paths, planVars, pose, pc, io, cmd, raced>>

\* PosePublisherPlugin::OnUpdate, and poseCallback: wherever the wheels have
\* brought the car.
poseCallback(p) ==
  /\ io = "idle" /\ Feeds("pose")
  /\ pose' = p
  /\ UNCHANGED <<click, paths, planVars, pc, io, cmd, raced>>

-----------------------------------------------------------------------------
(* Paths: the click plugin and other planners publish them *)

keyPressEvent ==
  /\ click' = [goal_enabled |-> ~click.goal_enabled, start |-> Away]
  /\ UNCHANGED <<paths, planVars, sensorVars, pose, pc, io, cmd, raced>>

\* A press that meets the ground.
OnLeftClick(p) ==
  /\ click.goal_enabled
  /\ click' = [click EXCEPT !.start = p]
  /\ UNCHANGED <<paths, planVars, sensorVars, pose, pc, io, cmd, raced>>

\* goalCallback up to its look at pose_update_.  points_ is only ever extended.
Receives(path) ==
  /\ io = "idle"
  /\ paths < MaxPaths
  /\ paths' = paths + 1
  /\ points' = points \o path
  /\ io' = IF update["pose"] THEN "step" ELSE "idle"
  /\ UNCHANGED <<step, goal, goal_update, sensorVars, pose, pc, cmd, raced>>

\* A release on the ground: too near to the press it publishes nothing.  One off
\* the ground leaves has_start set.
OnLeftRelease(far) ==
  /\ click.goal_enabled /\ click.start # Away
  /\ click' = [click EXCEPT !.start = Away]
  /\ IF far THEN Receives(<<click.start>>)
            ELSE UNCHANGED <<paths, planVars, sensorVars, pose, pc, io, cmd, raced>>

\* A path of another planner.
GlobalPath(path) == Receives(path) /\ UNCHANGED click

\* goalCallback: current_step_, local_goal_ and goal_update_ in turn.
goalCallback ==
  /\ \/ io = "step" /\ io' = "goal" /\ step' = 0 /\ UNCHANGED <<goal, goal_update>>
     \/ io = "goal" /\ io' = "flag" /\ goal' = points[step + 1] /\ UNCHANGED <<step, goal_update>>
     \/ io = "flag" /\ io' = "idle" /\ goal_update' = TRUE /\ UNCHANGED <<step, goal>>
  /\ UNCHANGED <<click, paths, points, sensorVars, pose, pc, cmd, raced>>

\* replanCallback: the stop command first, then goal_update_.
replanCallback ==
  /\ \/ io = "idle" /\ io' = "replan" /\ Commands("stop") /\ UNCHANGED goal_update
     \/ io = "replan" /\ io' = "idle" /\ goal_update' = FALSE /\ UNCHANGED cmd
  /\ raced' = (pc # "check" \/ (io = "replan" /\ raced))
  /\ UNCHANGED <<click, paths, points, step, goal, sensorVars, pose, pc>>

-----------------------------------------------------------------------------
(* plan(), on process_thread_ *)

Goes(there) ==
  /\ pc' = there
  /\ UNCHANGED <<click, paths, points, sensorVars, pose, io>>

MayPlan == goal_update /\ \A s \in Sensor : update[s]

PlanCheck ==
  /\ pc = "check" /\ MayPlan
  /\ Goes("reached")
  /\ raced' = (raced \/ io = "replan")
  /\ UNCHANGED <<step, goal, goal_update, cmd>>

\* goalReached.
AtLast == step + 1 >= Len(points)
goalReached ==
  /\ pc = "reached"
  /\ \/ pose = goal /\ AtLast /\ Goes("arrived") /\ UNCHANGED goal_update
     \/ pose = goal /\ ~AtLast /\ Goes("advance") /\ goal_update' = FALSE
     \/ pose # goal /\ Goes("generate") /\ UNCHANGED goal_update
  /\ UNCHANGED <<step, goal, cmd, raced>>

\* Mutant: where the loop over the waypoints in the map ended.
AheadPastEnd(i, forward) == i

\* The last waypoint within the map, or the first beyond it.
Ahead(i, forward) == IF i = forward THEN i - 1 ELSE i

\* CarDwaPlanner::getLocalGoal: up to three waypoints ahead; i is the first that
\* is outside the map, or forward.
getLocalGoal ==
  /\ \/ /\ pc = "advance"
        /\ LET forward == IF Len(points) < step + 3 THEN Len(points) ELSE step + 3
           IN \E i \in step .. forward : step' = Ahead(i, forward)
        /\ Goes("local") /\ UNCHANGED <<goal, goal_update>>
     \/ /\ pc = "local"
        /\ goal' = IF step < Len(points) THEN points[step + 1] ELSE goal
        /\ Goes("resume") /\ UNCHANGED <<step, goal_update>>
     \/ /\ pc = "resume"
        /\ goal_update' = TRUE
        /\ Goes("generate") /\ UNCHANGED <<step, goal>>
  /\ UNCHANGED <<cmd, raced>>

\* raycast, generateTrajectory, and the command: no trajectory is a stop.
Generate ==
  /\ pc = "generate"
  /\ \E c \in {"stop", "drive"} : Commands(c)
  /\ Goes("check")
  /\ UNCHANGED <<step, goal, goal_update, raced>>

\* Mutant: the goal is given up without a command.
ArrivesMoving ==
  /\ \/ pc = "arrived" /\ Goes("clear") /\ UNCHANGED <<cmd, goal_update>>
     \/ pc = "clear" /\ goal_update' = FALSE /\ Goes("check") /\ UNCHANGED cmd
  /\ UNCHANGED <<step, goal, raced>>

\* The last waypoint: the stop command, then goal_update_.
Arrives ==
  /\ \/ pc = "arrived" /\ Commands("stop") /\ Goes("clear") /\ UNCHANGED goal_update
     \/ pc = "clear" /\ goal_update' = FALSE /\ Goes("check") /\ UNCHANGED cmd
  /\ UNCHANGED <<step, goal, raced>>

Callbacks ==
  \/ on_timer
  \/ \E s \in Sensor \ {"pose"} : dataCallback(s)
  \/ \E p \in Pose : poseCallback(p)
  \/ keyPressEvent
  \/ \E p \in Place : OnLeftClick(p)
  \/ \E far \in BOOLEAN : OnLeftRelease(far)
  \/ \E p \in Place : \E q \in Place \ {p} : GlobalPath(<<p, q>>)
  \/ goalCallback \/ replanCallback

Plan == PlanCheck \/ goalReached \/ getLocalGoal \/ Generate \/ Arrives

VhNext == Callbacks \/ Plan
VhSpec == VhInit /\ [][VhNext]_vhVars

-----------------------------------------------------------------------------
(* Properties *)

VhTypeOK ==
  /\ click \in [goal_enabled : BOOLEAN, start : Pose]
  /\ paths \in 0 .. MaxPaths
  /\ points \in Seq(Place) /\ step \in Nat /\ goal \in Pose /\ goal_update \in BOOLEAN
  /\ update \in [Sensor -> BOOLEAN]
  /\ watch \in [Sensor -> 0 .. CntWrap]
  /\ age \in [Sensor -> 0 .. CntMax + 1]
  /\ pose \in Pose
  /\ pc \in {"check", "reached", "advance", "local", "resume", "generate", "arrived", "clear"}
  /\ io \in {"idle", "step", "goal", "flag", "replan"}
  /\ cmd \in {"stop", "drive"} /\ raced \in BOOLEAN

\* A sensor counts as present only when a message of it came within the last
\* CntMax ticks of the timer, however long it has been silent and however often
\* its counter was wound back (BaseDwaPlanner.cpp:58-101): the planner never
\* plans on a map or a pose it never got.
WatchdogFresh == \A s \in Sensor : update[s] => age[s] <= CntMax

\* points_[current_step_] exists once a path has come, and a goal that plan() may
\* follow is a waypoint, whatever both threads have done to the two in between
\* (getLocalGoal, CarDwaPlanner.cpp:22-56, against goalCallback).
GoalOnPath ==
  /\ VhTypeOK
  /\ points # <<>> => step < Len(points)
  /\ goal_update => \E k \in DOMAIN points : goal = points[k]

\* With no goal to follow and no thread at work the car stands, unless a replan
\* request came in the middle of a turn of plan(), whose command then overtakes
\* the stop (BaseDwaPlanner.cpp:205-214, 275-284).
StopsHold ==
  pc = "check" /\ io = "idle" /\ ~goal_update /\ ~raced => cmd = "stop"

\* "1秒未收到twist喂狗信息，就停掉" (BaseDwaPlanner.cpp:78): without a message of a
\* sensor for the watchdog's time the car is stopped.
WatchdogStops ==
  \A s \in Sensor : age[s] > CntMax /\ ~update[s] /\ pc = "check" => cmd = "stop"
=============================================================================
