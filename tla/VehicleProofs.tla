--------------------------- MODULE VehicleProofs ----------------------------
(* Theorems about Vehicle for any places, sensors, number of paths and limits of
   the watchdog, and about DwaSearch for any limits and number of samples.  In
   Vehicle the watchdog, the path and the stop have an invariant each, on top of the
   types; that of DwaSearch says what the samples priced so far have shown. *)
EXTENDS Vehicle, DwaSearch, TLAPS

\* A counter below the limit counts at least the ticks since the sensor spoke.
Watched == \A s \in Sensor : watch[s] < CntMax => age[s] <= watch[s]

OnPath == \E k \in DOMAIN points : goal = points[k]

\* The step is one of the path; the goal is a waypoint as soon as one of the
\* threads may follow it, and both threads only set it once there are points.
PathInv ==
  /\ step = 0 \/ step < Len(points)
  /\ (goal_update \/ pc # "check" \/ io = "flag") => OnPath
  /\ io \in {"step", "goal"} => points # <<>>

VhInv == VhTypeOK /\ Watched /\ WatchdogFresh /\ PathInv

USE DEF Pose

\* The variables of the sensors change in on_timer and Feeds only.
LEMMA TimerStep ==
  ASSUME VhTypeOK, Watched, on_timer
  PROVE /\ update' \in [Sensor -> BOOLEAN] /\ watch' \in [Sensor -> 0 .. CntWrap]
        /\ age' \in [Sensor -> 0 .. CntMax + 1]
        /\ Watched' /\ WatchdogFresh'
<1> USE VehicleAssumption DEF VhTypeOK, on_timer, Rewound
<1>1. update' \in [Sensor -> BOOLEAN]
  OBVIOUS
<1>2. watch' \in [Sensor -> 0 .. CntWrap]
  OBVIOUS
<1>3. age' \in [Sensor -> 0 .. CntMax + 1]
  OBVIOUS
<1>4. Watched'
  BY DEF Watched
<1>5. ASSUME NEW s \in Sensor, update'[s] PROVE age'[s] <= CntMax
  <2>1. watch[s] < CntMax
    BY <1>5
  <2>2. age[s] < CntMax
    BY <2>1 DEF Watched
  <2> QED
    BY <2>2
<1> QED
  BY <1>1, <1>2, <1>3, <1>4, <1>5 DEF WatchdogFresh

LEMMA FeedsStep ==
  ASSUME VhTypeOK, Watched, WatchdogFresh, NEW s \in Sensor, Feeds(s)
  PROVE /\ update' \in [Sensor -> BOOLEAN] /\ watch' \in [Sensor -> 0 .. CntWrap]
        /\ age' \in [Sensor -> 0 .. CntMax + 1]
        /\ Watched' /\ WatchdogFresh'
  BY VehicleAssumption DEF VhTypeOK, Feeds, Watched, WatchdogFresh

\* A path that arrives leaves the waypoints before it where they are.
LEMMA ReceivesStep ==
  ASSUME VhTypeOK, PathInv, NEW path \in Seq(Place), path # <<>>, Receives(path)
  PROVE /\ points' \in Seq(Place) /\ paths' \in 0 .. MaxPaths
        /\ io' \in {"idle", "step"}
        /\ PathInv'
<1>1. points' \in Seq(Place) /\ points' # <<>>
  BY DEF VhTypeOK, Receives
<1>2. paths' \in 0 .. MaxPaths
  BY VehicleAssumption DEF VhTypeOK, Receives
<1>3. io' \in {"idle", "step"}
  BY DEF Receives
<1>4. step' < Len(points')
  <2>1. step < Len(points) \/ step = 0
    BY DEF PathInv
  <2>2. Len(points') = Len(points) + Len(path) /\ Len(path) > 0
    BY DEF VhTypeOK, Receives
  <2>3. step' = step /\ Len(points) \in Nat /\ step \in Nat
    BY DEF VhTypeOK, Receives
  <2> QED
    BY <2>1, <2>2, <2>3
<1>5. OnPath => OnPath'
  <2> SUFFICES ASSUME NEW k \in DOMAIN points, goal = points[k] PROVE OnPath'
    BY DEF OnPath
  <2>1. points' = points \o path /\ goal' = goal
    BY DEF Receives
  <2>2. points \in Seq(Place) /\ k \in 1 .. Len(points)
    BY DEF VhTypeOK
  <2>3. k \in DOMAIN (points \o path) /\ (points \o path)[k] = points[k]
    BY <2>2
  <2> QED
    BY <2>1, <2>3 DEF OnPath
<1> QED
  BY <1>1, <1>2, <1>3, <1>4, <1>5 DEF PathInv, Receives

LEMMA SensorsStay ==
  ASSUME Watched, WatchdogFresh, UNCHANGED sensorVars
  PROVE  Watched' /\ WatchdogFresh'
  BY DEF Watched, WatchdogFresh, sensorVars

LEMMA PathStays ==
  ASSUME PathInv, UNCHANGED <<planVars, pc, io>>
  PROVE  PathInv'
  BY DEF PathInv, OnPath, planVars

\* What the callbacks do to the invariant: the watchdog and the sensors, the click
\* plugin, a path, the steps of goalCallback and of replanCallback.
LEMMA CallbacksStep ==
  ASSUME VhInv, Callbacks
  PROVE  VhInv'
<1> USE DEF VhInv
<1>1. CASE on_timer
  <2>1. VhTypeOK'
    BY <1>1, TimerStep DEF VhTypeOK, on_timer, planVars
  <2>2. PathInv'
    BY <1>1, PathStays DEF on_timer
  <2> QED
    BY <1>1, <2>1, <2>2, TimerStep
<1>2. ASSUME NEW s \in Sensor \ {"pose"}, dataCallback(s) PROVE VhInv'
  <2>0. Feeds(s)
    BY <1>2 DEF dataCallback
  <2>1. VhTypeOK'
    BY <1>2, <2>0, FeedsStep DEF VhTypeOK, dataCallback, planVars
  <2>2. PathInv'
    BY <1>2, PathStays DEF dataCallback
  <2> QED
    BY <2>0, <2>1, <2>2, FeedsStep
<1>3. ASSUME NEW p \in Pose, poseCallback(p) PROVE VhInv'
  <2>0. Feeds("pose") /\ "pose" \in Sensor
    BY <1>3, VehicleAssumption DEF poseCallback
  <2>1. VhTypeOK'
    BY <1>3, <2>0, FeedsStep DEF VhTypeOK, poseCallback, planVars
  <2>2. PathInv'
    BY <1>3, PathStays DEF poseCallback
  <2> QED
    BY <2>0, <2>1, <2>2, FeedsStep
<1>4. CASE keyPressEvent
  <2>1. VhTypeOK'
    BY <1>4 DEF VhTypeOK, keyPressEvent, planVars, sensorVars
  <2> QED
    BY <1>4, <2>1, SensorsStay, PathStays DEF keyPressEvent
<1>5. ASSUME NEW p \in Place, OnLeftClick(p) PROVE VhInv'
  <2>1. VhTypeOK'
    BY <1>5 DEF VhTypeOK, OnLeftClick, planVars, sensorVars
  <2> QED
    BY <1>5, <2>1, SensorsStay, PathStays DEF OnLeftClick
<1>6. ASSUME NEW path \in Seq(Place), path # <<>>, Receives(path),
             click' \in [goal_enabled : BOOLEAN, start : Pose]
      PROVE  VhInv'
  <2>1. VhTypeOK'
    BY <1>6, ReceivesStep DEF VhTypeOK, Receives, sensorVars
  <2>2. Watched' /\ WatchdogFresh'
    BY <1>6, SensorsStay DEF Receives
  <2> QED
    BY <1>6, <2>1, <2>2, ReceivesStep
<1>7. ASSUME NEW far \in BOOLEAN, OnLeftRelease(far) PROVE VhInv'
  <2>1. click' \in [goal_enabled : BOOLEAN, start : Pose]
    BY <1>7 DEF VhTypeOK, OnLeftRelease
  <2>2. CASE far
    <3>1. click.start \in Place
      BY <1>7 DEF VhTypeOK, OnLeftRelease
    <3>2. <<click.start>> \in Seq(Place) /\ <<click.start>> # <<>>
      BY <3>1
    <3> QED
      BY <1>6, <1>7, <2>1, <2>2, <3>2 DEF OnLeftRelease
  <2>3. CASE ~far
    <3>1. UNCHANGED <<paths, planVars, sensorVars, pose, pc, io, cmd, raced>>
      BY <1>7, <2>3 DEF OnLeftRelease
    <3>2. VhTypeOK'
      BY <2>1, <3>1 DEF VhTypeOK, planVars, sensorVars
    <3> QED
      BY <3>1, <3>2, SensorsStay, PathStays
  <2> QED
    BY <2>2, <2>3
<1>8. ASSUME NEW p \in Place, NEW q \in Place \ {p}, GlobalPath(<<p, q>>) PROVE VhInv'
  <2>1. <<p, q>> \in Seq(Place) /\ <<p, q>> # <<>>
    OBVIOUS
  <2>2. click' \in [goal_enabled : BOOLEAN, start : Pose]
    BY <1>8 DEF VhTypeOK, GlobalPath
  <2> QED
    BY <1>6, <1>8, <2>1, <2>2 DEF GlobalPath
<1>9. CASE goalCallback
  <2>0. Watched' /\ WatchdogFresh' /\ points' = points /\ pc' = pc
    BY <1>9, SensorsStay DEF goalCallback
  <2>1. CASE io = "step"
    <3>1. VhTypeOK'
      BY <1>9, <2>1 DEF VhTypeOK, goalCallback, sensorVars
    <3>2. PathInv'
      BY <1>9, <2>1, <2>0 DEF PathInv, OnPath, goalCallback
    <3> QED
      BY <2>0, <3>1, <3>2
  <2>2. CASE io = "goal"
    <3>1. step + 1 \in DOMAIN points
      BY <2>2 DEF VhTypeOK, PathInv
    <3>2. /\ io' = "flag" /\ goal' = points[step + 1] /\ step' = step
          /\ goal_update' = goal_update
      BY <1>9, <2>2 DEF goalCallback
    <3>3. goal' \in Place
      BY <3>1, <3>2 DEF VhTypeOK
    <3>4. VhTypeOK'
      BY <1>9, <2>2, <3>2, <3>3 DEF VhTypeOK, goalCallback, sensorVars
    <3>5. OnPath'
      BY <2>0, <3>1, <3>2 DEF OnPath
    <3> QED
      BY <2>0, <3>2, <3>4, <3>5 DEF PathInv
  <2>3. CASE io = "flag"
    <3>1. VhTypeOK'
      BY <1>9, <2>3 DEF VhTypeOK, goalCallback, sensorVars
    <3>2. PathInv'
      BY <1>9, <2>3, <2>0 DEF PathInv, OnPath, goalCallback
    <3> QED
      BY <2>0, <3>1, <3>2
  <2> QED
    BY <1>9, <2>1, <2>2, <2>3 DEF goalCallback
<1>10. CASE replanCallback
  <2>1. Watched' /\ WatchdogFresh'
    BY <1>10, SensorsStay DEF replanCallback
  <2>2. raced' \in BOOLEAN
    BY <1>10 DEF replanCallback, VhTypeOK
  <2>3. VhTypeOK'
    BY <1>10, <2>2 DEF VhTypeOK, replanCallback, Commands, sensorVars
  <2>4. PathInv'
    BY <1>10 DEF PathInv, OnPath, replanCallback
  <2> QED
    BY <2>1, <2>3, <2>4
<1> QED
  BY <1>1, <1>2, <1>3, <1>4, <1>5, <1>7, <1>8, <1>9, <1>10 DEF Callbacks

\* What a turn of plan() does to it: only getLocalGoal moves the step and the goal.
LEMMA PlanStep ==
  ASSUME VhInv, Plan
  PROVE  VhInv'
<1> USE DEF VhInv
<1>0. /\ points' = points /\ io' = io /\ UNCHANGED <<click, paths, sensorVars, pose>>
      /\ Watched' /\ WatchdogFresh'
  BY SensorsStay DEF Plan, PlanCheck, goalReached, getLocalGoal, Generate, Arrives, Goes
<1>1. CASE PlanCheck
  <2>1. VhTypeOK'
    BY <1>0, <1>1 DEF VhTypeOK, PlanCheck, Goes, sensorVars
  <2>2. PathInv'
    BY <1>0, <1>1 DEF PathInv, OnPath, PlanCheck, MayPlan
  <2> QED
    BY <1>0, <2>1, <2>2
<1>2. CASE goalReached
  <2>1. VhTypeOK'
    BY <1>0, <1>2 DEF VhTypeOK, goalReached, Goes, sensorVars
  <2>2. PathInv'
    BY <1>0, <1>2 DEF PathInv, OnPath, goalReached
  <2> QED
    BY <1>0, <2>1, <2>2
<1>3. CASE getLocalGoal
  <2>1. points # <<>> /\ step < Len(points) /\ OnPath
    BY <1>3 DEF getLocalGoal, PathInv, OnPath, VhTypeOK
  <2>2. CASE pc = "advance"
    <3>1. step' \in Nat /\ step' < Len(points)
      BY <1>3, <2>1, <2>2 DEF getLocalGoal, Ahead, VhTypeOK
    <3>2. VhTypeOK'
      BY <1>0, <1>3, <2>2, <3>1 DEF VhTypeOK, getLocalGoal, Goes, sensorVars
    <3>3. PathInv'
      BY <1>0, <1>3, <2>1, <2>2, <3>1 DEF PathInv, OnPath, getLocalGoal
    <3> QED
      BY <1>0, <3>2, <3>3
  <2>3. CASE pc = "local"
    <3>1. goal' = points[step + 1] /\ step + 1 \in DOMAIN points
      BY <1>3, <2>1, <2>3 DEF getLocalGoal, VhTypeOK
    <3>2. goal' \in Place /\ OnPath'
      BY <1>0, <3>1 DEF VhTypeOK, OnPath
    <3>3. VhTypeOK'
      BY <1>0, <1>3, <2>3, <3>2 DEF VhTypeOK, getLocalGoal, Goes, sensorVars
    <3>4. PathInv'
      BY <1>0, <1>3, <2>1, <2>3, <3>2 DEF PathInv, getLocalGoal
    <3> QED
      BY <1>0, <3>3, <3>4
  <2>4. CASE pc = "resume"
    <3>1. VhTypeOK'
      BY <1>0, <1>3, <2>4 DEF VhTypeOK, getLocalGoal, Goes, sensorVars
    <3>2. PathInv'
      BY <1>0, <1>3, <2>1, <2>4 DEF PathInv, OnPath, getLocalGoal
    <3> QED
      BY <1>0, <3>1, <3>2
  <2> QED
    BY <1>3, <2>2, <2>3, <2>4 DEF getLocalGoal
<1>4. CASE Generate
  <2>1. VhTypeOK'
    BY <1>0, <1>4 DEF VhTypeOK, Generate, Goes, Commands, sensorVars
  <2>2. PathInv'
    BY <1>0, <1>4 DEF PathInv, OnPath, Generate, Goes
  <2> QED
    BY <1>0, <2>1, <2>2
<1>5. CASE Arrives
  <2>1. VhTypeOK'
    BY <1>0, <1>5 DEF VhTypeOK, Arrives, Goes, Commands, sensorVars
  <2>2. PathInv'
    BY <1>0, <1>5 DEF PathInv, OnPath, Arrives, Goes
  <2> QED
    BY <1>0, <2>1, <2>2
<1> QED
  BY <1>1, <1>2, <1>3, <1>4, <1>5 DEF Plan

LEMMA VhInvInductive == VhSpec => []VhInv
<1>1. VhInit => VhInv
  <2> SUFFICES ASSUME VhInit PROVE VhInv
    OBVIOUS
  <2>1. /\ update \in [Sensor -> BOOLEAN] /\ watch \in [Sensor -> 0 .. CntWrap]
        /\ age \in [Sensor -> 0 .. CntMax + 1]
    BY VehicleAssumption DEF VhInit
  <2>2. VhTypeOK
    <3>1. click \in [goal_enabled : BOOLEAN, start : Pose]
      BY DEF VhInit
    <3>2. points \in Seq(Place) /\ step \in Nat /\ goal \in Pose /\ paths \in 0 .. MaxPaths
      BY VehicleAssumption DEF VhInit
    <3> QED
      BY <2>1, <3>1, <3>2 DEF VhInit, CarLoads, VhTypeOK
  <2>3. Watched /\ WatchdogFresh
    BY VehicleAssumption DEF VhInit, Watched, WatchdogFresh
  <2>4. PathInv
    BY DEF VhInit, PathInv
  <2> QED
    BY <2>2, <2>3, <2>4 DEF VhInv
<1>2. VhInv /\ [VhNext]_vhVars => VhInv'
  <2> SUFFICES ASSUME VhInv, [VhNext]_vhVars PROVE VhInv'
    OBVIOUS
  <2>1. CASE VhNext
    BY <2>1, CallbacksStep, PlanStep DEF VhNext
  <2>2. CASE UNCHANGED vhVars
    <3>1. VhTypeOK'
      BY <2>2 DEF VhInv, VhTypeOK, vhVars, planVars, sensorVars
    <3> QED
      BY <2>2, <3>1, SensorsStay, PathStays DEF VhInv, vhVars
  <2> QED
    BY <2>1, <2>2
<1> QED
  BY <1>1, <1>2, PTL DEF VhSpec

\* The planner takes no sensor for present that was silent for more than CntMax
\* ticks, whatever the limits of the watchdog and however often its counters wrap.
THEOREM WatchdogCorrect == VhSpec => []WatchdogFresh
<1>1. VhInv => WatchdogFresh
  BY DEF VhInv
<1> QED
  BY <1>1, VhInvInductive, PTL

\* The step of the path and the goal stay on the path although the two threads of
\* the planner share them without a lock, for any places and any number of paths.
THEOREM GoalCorrect == VhSpec => []GoalOnPath
<1>1. VhInv => GoalOnPath
  BY DEF VhInv, VhTypeOK, PathInv, OnPath, GoalOnPath
<1> QED
  BY <1>1, VhInvInductive, PTL

-----------------------------------------------------------------------------
(* Stop commands.  The flag goal_update and the command agree only between the
   turns of the two threads, so the invariant says what is true within them. *)

\* A turn of plan() that may end in a drive command still has its goal, and one
\* that gives the goal up has stopped the car; so has a replan request.
StopInv ==
  ~raced =>
    /\ pc = "check" /\ ~goal_update => cmd = "stop"
    /\ pc \in {"reached", "generate", "arrived"} => goal_update
    /\ pc = "clear" => cmd = "stop"
    /\ io = "replan" => pc = "check" /\ cmd = "stop"

LEMMA StopStays ==
  ASSUME StopInv, UNCHANGED <<goal_update, pc, cmd, raced>>,
         io' # "replan" \/ io' = io
  PROVE  StopInv'
  BY DEF StopInv

LEMMA StopStep ==
  ASSUME VhTypeOK, StopInv, [VhNext]_vhVars
  PROVE  StopInv'
<1>1. CASE Callbacks
  <2>1. CASE on_timer
    BY <2>1, StopStays DEF on_timer, planVars
  <2>2. ASSUME NEW s \in Sensor, dataCallback(s) PROVE StopInv'
    BY <2>2, StopStays DEF dataCallback, planVars
  <2>3. ASSUME NEW p \in Pose, poseCallback(p) PROVE StopInv'
    BY <2>3, StopStays DEF poseCallback, planVars
  <2>4. CASE keyPressEvent
    BY <2>4, StopStays DEF keyPressEvent, planVars
  <2>5. ASSUME NEW p \in Place, OnLeftClick(p) PROVE StopInv'
    BY <2>5, StopStays DEF OnLeftClick, planVars
  <2>6. ASSUME NEW path, Receives(path) PROVE StopInv'
    BY <2>6, StopStays DEF Receives
  <2>7. ASSUME NEW far \in BOOLEAN, OnLeftRelease(far) PROVE StopInv'
    BY <2>6, <2>7, StopStays DEF OnLeftRelease, planVars
  <2>8. ASSUME NEW p \in Place, NEW q \in Place, GlobalPath(<<p, q>>) PROVE StopInv'
    BY <2>6, <2>8 DEF GlobalPath
  <2>9. CASE goalCallback
    BY <2>9 DEF goalCallback, StopInv
  <2>10. CASE replanCallback
    BY <2>10 DEF replanCallback, StopInv, Commands
  <2> QED
    BY <1>1, <2>1, <2>2, <2>3, <2>4, <2>5, <2>7, <2>8, <2>9, <2>10 DEF Callbacks
<1>2. CASE Plan
  <2>1. CASE PlanCheck
    BY <2>1 DEF PlanCheck, MayPlan, Goes, StopInv
  <2>2. CASE goalReached
    BY <2>2 DEF goalReached, Goes, StopInv
  <2>3. CASE getLocalGoal
    BY <2>3 DEF getLocalGoal, Goes, StopInv
  <2>4. CASE Generate
    BY <2>4 DEF Generate, Goes, Commands, StopInv
  <2>5. CASE Arrives
    BY <2>5 DEF Arrives, Goes, Commands, StopInv
  <2> QED
    BY <1>2, <2>1, <2>2, <2>3, <2>4, <2>5 DEF Plan
<1>3. CASE UNCHANGED vhVars
  BY <1>3, StopStays DEF vhVars, planVars
<1> QED
  BY <1>1, <1>2, <1>3 DEF VhNext

\* The car stands when there is no goal to follow and no thread is at work, unless a
\* replan request came in the middle of a turn of plan(), for any places, sensors
\* and number of paths.
THEOREM StopsCorrect == VhSpec => []StopsHold
<1>1. VhInit => StopInv
  BY DEF VhInit, CarLoads, StopInv
<1>2. VhInv /\ StopInv /\ [VhNext]_vhVars => StopInv'
  BY StopStep DEF VhInv
<1>3. StopInv => StopsHold
  BY DEF StopInv, StopsHold
<1> QED
  BY <1>1, <1>2, <1>3, VhInvInductive, PTL DEF VhSpec

-----------------------------------------------------------------------------
(* The dynamic window search *)

Asks == [vel : 0 .. MaxVel, yaw : {0, MaxTheta}, cap : Caps, back : BOOLEAN,
         allow_pub : BOOLEAN, goal : {<<MaxVel, MinTheta>>, <<0, 0>>},
         obstacle : Ends \cup {NoObstacle}]

\* A limit that was sent is not below the fastest way backwards, and no trajectory is
\* as dear as the first value of min_cost.
InRange == /\ \A c \in Caps : c >= MinVel
           /\ 3 * (MaxVel + MaxBack) + 2 * MaxTheta + 2 * Target < Far

Multiple(a, s) == a >= 0 /\ a % s = 0
StepX == StepSize(min_vel_x, max_vel_x)
StepTheta == StepSize(min_vel_theta, max_vel_theta)

\* The samples of the window, and the ones that are priced before sample s.
Grid == {end \in Int \X Int :
           /\ end[1] <= max_vel_x /\ Multiple(end[1] - min_vel_x, StepX)
           /\ end[2] <= max_vel_theta /\ Multiple(end[2] - min_vel_theta, StepTheta)}
Before(end, s) == end[1] < s[1] \/ (end[1] = s[1] /\ end[2] < s[2])

\* Where the search is, what it has seen, and what it has found.
SearchInv ==
  /\ sample \in Int \X Int
  /\ Multiple(sample[1] - min_vel_x, StepX)
  /\ Multiple(sample[2] - min_vel_theta, StepTheta) /\ sample[2] <= max_vel_theta
SeenInv ==
  ~ask.allow_pub => \A end \in Grid : Before(end, sample) =>
                      calculateCost(end) = Invalid \/ min_cost <= calculateCost(end)
FoundInv ==
  /\ min_cost \in Int /\ min_cost <= Far
  /\ min_cost # Far => /\ ~ask.allow_pub /\ best \in Grid
                       /\ calculateCost(best) = min_cost /\ min_cost # Invalid
  /\ answer # "searching" =>
       /\ ~InWindow
       /\ answer = IF min_cost = Far THEN "stop" ELSE "best"
DwInv == ask \in Asks /\ SearchInv /\ SeenInv /\ FoundInv

\* A product with a positive number grows with its factor.
LEMMA Product ==
  ASSUME NEW s \in Nat \ {0}, NEW p \in Int, NEW q \in Int, p < q
  PROVE  s * p + s <= s * q /\ s * p \in Int /\ s * q \in Int
<1>1. PICK d \in Nat : q = p + 1 + d
  <2>1. q - p - 1 \in Nat /\ q = p + 1 + (q - p - 1)
    OBVIOUS
  <2> QED BY <2>1
<1>2. s * q = s * p + s + s * d
  BY <1>1
<1>3. s * d >= 0 /\ s * p \in Int /\ s * q \in Int /\ s * d \in Int
  OBVIOUS
<1> QED
  BY <1>2, <1>3

LEMMA Factor ==
  ASSUME NEW s \in Nat \ {0}, NEW a \in Int
  PROVE  \E p \in Int, r \in 0 .. s - 1 : r = a % s /\ a = s * p + r
<1>1. PICK p \in Int, r \in 0 .. s - 1 : p = a \div s /\ r = a % s /\ a = s * p + r
  OBVIOUS
<1> QED BY <1>1

\* Two multiples of a step are a step apart.
LEMMA Apart ==
  ASSUME NEW s \in Nat \ {0}, NEW a \in Int, NEW b \in Int,
         Multiple(a, s), Multiple(b, s), a < b
  PROVE  a + s <= b
<1>1. PICK p \in Int, r \in 0 .. s - 1 : r = a % s /\ a = s * p + r
  BY Factor
<1>2. PICK q \in Int, t \in 0 .. s - 1 : t = b % s /\ b = s * q + t
  BY Factor
<1>3. a = s * p /\ b = s * q
  BY <1>1, <1>2 DEF Multiple
<1>4. p < q
  <2> SUFFICES ASSUME q <= p PROVE FALSE
    OBVIOUS
  <2>1. CASE q = p
    BY <1>3, <2>1
  <2>2. CASE q < p
    <3>1. s * q + s <= s * p
      BY <2>2, Product
    <3> QED BY <1>3, <3>1
  <2> QED BY <2>1, <2>2
<1>5. s * p + s <= s * q
  BY <1>4, Product
<1> QED
  BY <1>3, <1>5

LEMMA NextMultiple ==
  ASSUME NEW s \in Nat \ {0}, NEW a \in Int, Multiple(a, s)
  PROVE  Multiple(a + s, s)
<1>1. PICK p \in Int, r \in 0 .. s - 1 : r = a % s /\ a = s * p + r
  BY Factor
<1>2. PICK u \in Int, v \in 0 .. s - 1 : v = (a + s) % s /\ a + s = s * u + v
  <2>1. PICK b \in Int : b = a + s
    OBVIOUS
  <2>2. \E u \in Int, v \in 0 .. s - 1 : v = b % s /\ b = s * u + v
    BY Factor
  <2> QED BY <2>1, <2>2
<1>3. a = s * p /\ s * u + v = s * p + s /\ s * u \in Int /\ s * p \in Int
  BY <1>1, <1>2 DEF Multiple
<1>4. ~(p < u - 1)
  <2> SUFFICES ASSUME p + 1 < u PROVE FALSE
    OBVIOUS
  <2>1. s * (p + 1) + s <= s * u /\ s * (p + 1) = s * p + s
    BY Product
  <2> QED BY <1>3, <2>1
<1>5. ~(u <= p)
  <2> SUFFICES ASSUME u < p + 1 PROVE FALSE
    OBVIOUS
  <2>1. s * u + s <= s * (p + 1) /\ s * (p + 1) = s * p + s
    BY Product
  <2> QED BY <1>3, <2>1
<1>6. u = p + 1 /\ s * u = s * p + s
  BY <1>4, <1>5
<1>7. v = 0
  BY <1>3, <1>6
<1> QED
  BY <1>2, <1>7 DEF Multiple

LEMMA FirstMultiple ==
  ASSUME NEW s \in Nat \ {0}
  PROVE  Multiple(0, s)
BY DEF Multiple

\* The window lies within the limits, and is all of them above its lower end.
LEMMA Window ==
  ASSUME InRange, ask \in Asks
  PROVE  /\ max_vel_x \in Int /\ min_vel_x \in Int /\ StepX \in Nat \ {0}
         /\ max_vel_theta \in Int /\ min_vel_theta \in Int /\ StepTheta \in Nat \ {0}
         /\ MinVel <= min_vel_x /\ max_vel_x <= MaxVel /\ (ask.back \/ min_vel_x >= 0)
         /\ MinTheta <= min_vel_theta /\ max_vel_theta <= MaxTheta
         /\ min_vel_theta <= max_vel_theta
         /\ \A x \in Int : x <= MaxVel =>
              (x <= max_vel_x <=> x <= ask.vel + Acc /\ (ask.cap # 0 => x <= ask.cap))
         /\ \A x \in Int : x <= MaxTheta => (x <= max_vel_theta <=> x <= ask.yaw + AccTheta)
<1> USE DwaAssumption
<1>1. /\ ask.vel \in 0..MaxVel /\ ask.yaw \in {0, MaxTheta} /\ ask.cap \in Caps
      /\ ask.cap \in Int /\ ask.cap >= 0 - MaxBack
  BY DEF Asks, InRange, MinVel
<1>2. /\ max_vel_x \in Int /\ max_vel_x <= MaxVel /\ 0 - MaxBack <= max_vel_x
      /\ \A x \in Int : x <= MaxVel =>
           (x <= max_vel_x <=> x <= ask.vel + Acc /\ (ask.cap # 0 => x <= ask.cap))
  BY <1>1 DEF max_vel_x, Lesser
<1>3. /\ min_vel_x \in Int /\ 0 - MaxBack <= min_vel_x /\ (ask.back \/ min_vel_x >= 0)
  BY <1>1, <1>2 DEF min_vel_x, Lesser, Greater, MinVel
<1>4. /\ max_vel_theta \in Int /\ max_vel_theta <= MaxTheta /\ 0 <= max_vel_theta
      /\ \A x \in Int : x <= MaxTheta => (x <= max_vel_theta <=> x <= ask.yaw + AccTheta)
  BY <1>1 DEF max_vel_theta, Lesser
<1>5. /\ min_vel_theta \in Int /\ 0 - MaxTheta <= min_vel_theta
      /\ min_vel_theta <= max_vel_theta
  BY <1>1, <1>4 DEF min_vel_theta, Lesser, Greater, MinTheta
<1>6. \A low, high \in Int : StepSize(low, high) \in Nat \ {0}
  <2> SUFFICES ASSUME NEW low \in Int, NEW high \in Int
               PROVE  StepSize(low, high) \in Nat \ {0}
    OBVIOUS
  <2>1. Greater(1, Samples - 1) \in Nat \ {0}
    BY DEF Greater
  <2>2. (high - low) \div Greater(1, Samples - 1) \in Int
    BY <2>1
  <2> QED BY <2>2 DEF StepSize, Greater
<1> QED
  BY <1>2, <1>3, <1>4, <1>5, <1>6 DEF StepX, StepTheta, MinVel, MinTheta

\* A trajectory is priced unless it ends at the obstacle, and costs less than Far.
LEMMA Costs ==
  ASSUME InRange, ask \in Asks, NEW end \in Ends
  PROVE  /\ calculateCost(end) \in Int
         /\ calculateCost(end) = Invalid <=> ~(Distance(end, ask.obstacle) > MinObsDist)
         /\ calculateCost(end) # Invalid => 0 <= calculateCost(end) /\ calculateCost(end) < Far
<1> USE DwaAssumption DEF MinVel, MinTheta, Far
<1>1. PICK x \in (0 - MaxBack) .. MaxVel, y \in (0 - MaxTheta) .. MaxTheta : end = <<x, y>>
  BY DEF Ends
<1>2. PICK a \in Int, b \in Int : ask.obstacle = <<a, b>>
  <2>1. ask.obstacle \in Ends \cup {NoObstacle}
    BY DEF Asks
  <2> QED BY <2>1 DEF Ends, NoObstacle
<1>3. PICK g \in 0..MaxVel, h \in (0 - MaxTheta)..0 : ask.goal = <<g, h>>
  <2>1. ask.goal \in {<<MaxVel, MinTheta>>, <<0, 0>>}
    BY DEF Asks
  <2> QED BY <2>1
<1>4. Distance(end, ask.obstacle) \in Int
  BY <1>1, <1>2 DEF Distance, Greater
<1>5. /\ Distance(end, ask.goal) \in Int /\ Distance(end, ask.goal) >= 0
      /\ Distance(end, ask.goal) <= MaxVel + MaxBack + 2 * MaxTheta
  BY <1>1, <1>3 DEF Distance, Greater
<1>6. /\ SpeedCost(end) \in Int /\ SpeedCost(end) >= 0
      /\ SpeedCost(end) <= 2 * (Target + MaxVel + MaxBack)
  <2>1. end[1] = x
    BY <1>1
  <2>2. PICK d : d = Distance(<<Target, 0>>, <<end[1], 0>>)
    OBVIOUS
  <2>3. d \in Int /\ d >= 0 /\ d <= Target + MaxVel + MaxBack
    BY <2>1, <2>2 DEF Distance, Greater
  <2>4. SpeedCost(end) = IF x >= 0 THEN d ELSE d * 2
    BY <2>1, <2>2 DEF SpeedCost
  <2> QED BY <2>3, <2>4
<1>7. Distance(end, ask.goal) + SpeedCost(end) < 1000
  BY <1>5, <1>6 DEF InRange
<1> QED
  BY <1>4, <1>5, <1>6, <1>7 DEF calculateCost, Invalid

\* The samples of the window that are priced are the ones that are allowed.
LEMMA GridIsAllowed ==
  ASSUME InRange, ask \in Asks
  PROVE  /\ Grid \subseteq Ends
         /\ \A end \in Grid : calculateCost(end) # Invalid => end \in Allowed
         /\ \A end \in Allowed :
              /\ calculateCost(end) # Invalid
              /\ (end[1] >= min_vel_x /\ end[2] >= min_vel_theta
                    /\ (end[1] - min_vel_x) % StepX = 0
                    /\ (end[2] - min_vel_theta) % StepTheta = 0) => end \in Grid
<1>w. /\ max_vel_x \in Int /\ min_vel_x \in Int /\ StepX \in Nat \ {0}
      /\ max_vel_theta \in Int /\ min_vel_theta \in Int /\ StepTheta \in Nat \ {0}
      /\ MinVel <= min_vel_x /\ max_vel_x <= MaxVel /\ (ask.back \/ min_vel_x >= 0)
      /\ MinTheta <= min_vel_theta /\ max_vel_theta <= MaxTheta
      /\ \A x \in Int : x <= MaxVel =>
           (x <= max_vel_x <=> x <= ask.vel + Acc /\ (ask.cap # 0 => x <= ask.cap))
      /\ \A x \in Int : x <= MaxTheta => (x <= max_vel_theta <=> x <= ask.yaw + AccTheta)
  BY Window
<1>v. MinVel \in Int /\ MaxVel \in Int /\ MinTheta \in Int /\ MaxTheta \in Int
  BY DwaAssumption DEF MinVel, MinTheta
<1>1. ASSUME NEW end \in Grid PROVE end \in Ends /\ (calculateCost(end) # Invalid => end \in Allowed)
  <2>1. PICK x \in Int, y \in Int : end = <<x, y>>
    BY DEF Grid
  <2>2. /\ x <= max_vel_x /\ x - min_vel_x >= 0 /\ y <= max_vel_theta
        /\ y - min_vel_theta >= 0
    BY <2>1 DEF Grid, Multiple
  <2>3. x \in MinVel .. MaxVel /\ y \in MinTheta .. MaxTheta /\ (ask.back \/ x >= 0)
    BY <1>w, <1>v, <2>2
  <2>4. end \in Ends
    BY <2>1, <2>3 DEF Ends
  <2>5. x <= ask.vel + Acc /\ (ask.cap # 0 => x <= ask.cap) /\ y <= ask.yaw + AccTheta
    BY <1>w, <2>2, <2>3
  <2> QED BY <2>1, <2>3, <2>4, <2>5, Costs DEF Allowed
<1>2. ASSUME NEW end \in Allowed
      PROVE  /\ calculateCost(end) # Invalid
             /\ (end[1] >= min_vel_x /\ end[2] >= min_vel_theta
                   /\ (end[1] - min_vel_x) % StepX = 0
                   /\ (end[2] - min_vel_theta) % StepTheta = 0) => end \in Grid
  <2>1. PICK x \in MinVel .. MaxVel, y \in MinTheta .. MaxTheta : end = <<x, y>>
    BY DEF Allowed, Ends
  <2>2. x <= max_vel_x /\ y <= max_vel_theta /\ x \in Int /\ y \in Int
    <3>1. x <= ask.vel + Acc /\ (ask.cap # 0 => x <= ask.cap) /\ y <= ask.yaw + AccTheta
      BY <2>1 DEF Allowed
    <3> QED BY <1>w, <1>v, <3>1
  <2>3. calculateCost(end) # Invalid
    BY Costs DEF Allowed
  <2>4. ASSUME x >= min_vel_x, y >= min_vel_theta, (x - min_vel_x) % StepX = 0,
               (y - min_vel_theta) % StepTheta = 0
        PROVE  end \in Grid
    <3>1. x - min_vel_x >= 0 /\ y - min_vel_theta >= 0
      BY <1>w, <2>2, <2>4
    <3> QED BY <2>1, <2>2, <2>4, <3>1 DEF Grid, Multiple
  <2> QED BY <2>1, <2>3, <2>4
<1> QED
  BY <1>1, <1>2

\* After the window every sample of it has been passed.
LEMMA Passed ==
  ASSUME InRange, ask \in Asks, SearchInv
  PROVE  /\ InWindow => sample \in Grid
         /\ ~InWindow => \A end \in Grid : Before(end, sample)
<1>1. PICK i \in Int, k \in Int : sample = <<i, k>>
  BY DEF SearchInv
<1>2. max_vel_x \in Int /\ max_vel_theta \in Int
  BY Window
<1>3. Multiple(i - min_vel_x, StepX) /\ Multiple(k - min_vel_theta, StepTheta) /\ k <= max_vel_theta
  BY <1>1 DEF SearchInv
<1>4. InWindow => sample \in Grid
  BY <1>1, <1>3 DEF InWindow, Grid
<1>5. ASSUME ~InWindow, NEW end \in Grid PROVE Before(end, sample)
  <2>1. i > max_vel_x
    BY <1>1, <1>2, <1>3, <1>5 DEF InWindow
  <2>2. end[1] \in Int /\ end[1] <= max_vel_x
    BY DEF Grid
  <2> QED BY <1>1, <1>2, <2>1, <2>2 DEF Before
<1> QED
  BY <1>4, <1>5

\* The next sample, and nothing between it and the last one.
LEMMA Advance ==
  ASSUME InRange, ask \in Asks, SearchInv, InWindow
  PROVE  /\ NextSample \in Int \X Int
         /\ Multiple(NextSample[1] - min_vel_x, StepX)
         /\ Multiple(NextSample[2] - min_vel_theta, StepTheta)
         /\ NextSample[2] <= max_vel_theta
         /\ \A end \in Grid : Before(end, NextSample) => Before(end, sample) \/ end = sample
<1>1. PICK i \in Int, k \in Int : sample = <<i, k>>
  BY DEF SearchInv
<1>2. PICK lx, hx, sx, lt, ht, st :
        /\ lx = min_vel_x /\ hx = max_vel_x /\ sx = StepX
        /\ lt = min_vel_theta /\ ht = max_vel_theta /\ st = StepTheta
  OBVIOUS
<1>3. /\ lx \in Int /\ hx \in Int /\ lt \in Int /\ ht \in Int /\ lt <= ht
      /\ sx \in Nat \ {0} /\ st \in Nat \ {0}
  BY <1>2, Window
<1>4. Multiple(i - lx, sx) /\ Multiple(k - lt, st) /\ k <= ht
  BY <1>1, <1>2 DEF SearchInv
<1>5. NextSample = IF k + st <= ht THEN <<i, k + st>> ELSE <<i + sx, lt>>
  BY <1>1, <1>2 DEF NextSample, StepX, StepTheta
<1>6. Multiple(i + sx - lx, sx) /\ Multiple(k + st - lt, st) /\ Multiple(lt - lt, st)
  <2>1. i + sx - lx = (i - lx) + sx /\ k + st - lt = (k - lt) + st /\ lt - lt = 0
        /\ i - lx \in Int /\ k - lt \in Int
    BY <1>3
  <2>2. Multiple((i - lx) + sx, sx) /\ Multiple((k - lt) + st, st) /\ Multiple(0, st)
    BY <1>3, <1>4, <2>1, NextMultiple, FirstMultiple
  <2> QED BY <2>1, <2>2
<1>7. ASSUME NEW x \in Int, NEW y \in Int, <<x, y>> \in Grid
      PROVE  /\ ~(i < x /\ x < i + sx) /\ ~(k < y /\ y < k + st)
             /\ y <= ht /\ y >= lt /\ x >= lx
  <2>1. Multiple(x - lx, sx) /\ Multiple(y - lt, st) /\ y <= ht
    BY <1>2, <1>7 DEF Grid
  <2>2. i < x => (i - lx) + sx <= x - lx
    BY <1>3, <1>4, <2>1, Apart
  <2>3. k < y => (k - lt) + st <= y - lt
    BY <1>3, <1>4, <2>1, Apart
  <2>4. x - lx >= 0 /\ y - lt >= 0
    BY <2>1 DEF Multiple
  <2> QED BY <1>3, <2>1, <2>2, <2>3, <2>4
<1>8. ASSUME NEW x \in Int, NEW y \in Int, <<x, y>> \in Grid, Before(<<x, y>>, NextSample)
      PROVE  Before(<<x, y>>, sample) \/ <<x, y>> = sample
  <2>1. x < i \/ (x = i /\ y < k) \/ (x = i /\ y = k)
    <3>1. CASE k + st <= ht
      <4>1. x < i \/ (x = i /\ y < k + st)
        BY <1>5, <1>8, <3>1 DEF Before
      <4> QED BY <1>3, <1>7, <1>8, <4>1
    <3>2. CASE ~(k + st <= ht)
      <4>1. x < i + sx \/ (x = i + sx /\ y < lt)
        BY <1>5, <1>8, <3>2 DEF Before
      <4> QED BY <1>3, <1>7, <1>8, <3>2, <4>1
    <3> QED BY <3>1, <3>2
  <2> QED BY <1>1, <2>1 DEF Before
<1>9. \A end \in Grid : \E x \in Int, y \in Int : end = <<x, y>>
  BY DEF Grid
<1>10. \A end \in Grid : Before(end, NextSample) => Before(end, sample) \/ end = sample
  BY <1>8, <1>9
<1>11. /\ NextSample \in Int \X Int
       /\ Multiple(NextSample[1] - lx, sx) /\ Multiple(NextSample[2] - lt, st)
       /\ NextSample[2] <= ht
  <2>1. CASE k + st <= ht
    BY <1>3, <1>4, <1>5, <1>6, <2>1
  <2>2. CASE ~(k + st <= ht)
    BY <1>3, <1>5, <1>6, <2>2
  <2> QED BY <2>1, <2>2
<1> QED
  BY <1>2, <1>10, <1>11

\* What depends on the arguments only stays.
LEMMA SameAsk ==
  ASSUME UNCHANGED ask
  PROVE  /\ Grid' = Grid /\ \A end : calculateCost(end)' = calculateCost(end)
         /\ min_vel_x' = min_vel_x /\ max_vel_x' = max_vel_x /\ StepX' = StepX
         /\ min_vel_theta' = min_vel_theta /\ max_vel_theta' = max_vel_theta
         /\ StepTheta' = StepTheta
<1>1. /\ max_vel_x' = max_vel_x /\ max_vel_theta' = max_vel_theta
  BY DEF max_vel_x, max_vel_theta
<1>2. /\ min_vel_x' = min_vel_x /\ min_vel_theta' = min_vel_theta
  BY <1>1 DEF min_vel_x, min_vel_theta
<1>3. StepX' = StepX /\ StepTheta' = StepTheta
  BY <1>1, <1>2 DEF StepX, StepTheta
<1>4. Grid' = Grid
  BY <1>1, <1>2, <1>3 DEF Grid
<1>5. \A end : calculateCost(end)' = calculateCost(end)
  BY DEF calculateCost
<1> QED
  BY <1>1, <1>2, <1>3, <1>4, <1>5

LEMMA SearchStep ==
  ASSUME InRange, DwInv, [DwNext]_dwVars
  PROVE  DwInv'
<1>0. ask \in Asks /\ SearchInv /\ SeenInv /\ FoundInv
  BY DEF DwInv
<1>1. CASE Sample
  <2>1. /\ answer = "searching" /\ InWindow /\ sample' = NextSample /\ UNCHANGED <<ask, answer>>
        /\ \/ /\ ~ask.allow_pub /\ Accepts(calculateCost(sample))
              /\ min_cost' = calculateCost(sample) /\ best' = sample
           \/ /\ ~(~ask.allow_pub /\ Accepts(calculateCost(sample)))
              /\ UNCHANGED <<min_cost, best>>
    BY <1>1 DEF Sample
  <2>2. /\ Grid' = Grid /\ \A end : calculateCost(end)' = calculateCost(end)
        /\ min_vel_x' = min_vel_x /\ max_vel_x' = max_vel_x /\ StepX' = StepX
        /\ min_vel_theta' = min_vel_theta /\ max_vel_theta' = max_vel_theta
        /\ StepTheta' = StepTheta
    BY <2>1, SameAsk
  <2>3. SearchInv'
    <3>1. /\ NextSample \in Int \X Int
          /\ Multiple(NextSample[1] - min_vel_x, StepX)
          /\ Multiple(NextSample[2] - min_vel_theta, StepTheta)
          /\ NextSample[2] <= max_vel_theta
      BY <1>0, <2>1, Advance
    <3> QED BY <2>1, <2>2, <3>1 DEF SearchInv, Multiple
  <2>4. sample \in Grid /\ \A end \in Grid : end \in Ends
    BY <1>0, <2>1, Passed, GridIsAllowed
  <2>5. PICK cost : cost = calculateCost(sample)
    OBVIOUS
  <2>6. /\ cost \in Int /\ (cost # Invalid => 0 <= cost /\ cost < Far)
        /\ \A end \in Grid : calculateCost(end) \in Int
    BY <1>0, <2>4, <2>5, Costs
  <2>7. min_cost' \in Int /\ min_cost' <= min_cost /\ min_cost \in Int /\ min_cost <= Far
    BY <1>0, <2>1, <2>5, <2>6 DEF FoundInv, Accepts
  <2>8. ~ask.allow_pub => cost = Invalid \/ min_cost' <= cost
    BY <2>1, <2>5, <2>6, <2>7 DEF Accepts
  <2>9. SeenInv'
    <3> SUFFICES ASSUME ~ask.allow_pub, NEW end \in Grid, Before(end, NextSample)
                 PROVE  calculateCost(end) = Invalid \/ min_cost' <= calculateCost(end)
      BY <2>1, <2>2 DEF SeenInv, Before
    <3>1. Before(end, sample) \/ end = sample
      BY <1>0, <2>1, Advance
    <3>2. CASE end = sample
      BY <2>5, <2>8, <3>2
    <3>3. CASE Before(end, sample)
      <4>1. calculateCost(end) = Invalid \/ min_cost <= calculateCost(end)
        BY <1>0, <3>3 DEF SeenInv
      <4> QED BY <2>6, <2>7, <4>1
    <3> QED BY <3>1, <3>2, <3>3
  <2>10. FoundInv'
    <3>1. min_cost' \in Int /\ min_cost' <= Far
      BY <2>7 DEF Far
    <3>2. ASSUME min_cost' # Far
          PROVE  /\ ~ask.allow_pub /\ best' \in Grid
                 /\ calculateCost(best') = min_cost' /\ min_cost' # Invalid
      BY <1>0, <2>1, <2>4, <3>2 DEF FoundInv, Accepts
    <3>3. calculateCost(best)' = calculateCost(best')
      BY <2>1 DEF calculateCost, SpeedCost
    <3> QED BY <2>1, <2>2, <3>1, <3>2, <3>3 DEF FoundInv
  <2> QED BY <1>0, <2>1, <2>3, <2>9, <2>10 DEF DwInv, Asks
<1>2. CASE Decides \/ UNCHANGED dwVars
  <2>1. /\ UNCHANGED <<ask, sample, min_cost, best>>
        /\ \/ UNCHANGED answer
           \/ ~InWindow /\ answer' = IF min_cost = Far THEN "stop" ELSE "best"
    BY <1>2 DEF Decides, dwVars
  <2>2. /\ Grid' = Grid /\ \A end : calculateCost(end)' = calculateCost(end)
        /\ min_vel_x' = min_vel_x /\ max_vel_x' = max_vel_x /\ StepX' = StepX
        /\ min_vel_theta' = min_vel_theta /\ max_vel_theta' = max_vel_theta
        /\ StepTheta' = StepTheta
    BY <2>1, SameAsk
  <2>3. SearchInv'
    BY <1>0, <2>1, <2>2 DEF SearchInv, Multiple
  <2>4. SeenInv'
    BY <1>0, <2>1, <2>2 DEF SeenInv, Before
  <2>5. InWindow' <=> InWindow
    BY <2>1, <2>2 DEF InWindow
  <2>6. FoundInv'
    <3>1. calculateCost(best)' = calculateCost(best)
      BY <2>1 DEF calculateCost, SpeedCost
    <3> QED BY <1>0, <2>1, <2>2, <2>5, <3>1 DEF FoundInv
  <2> QED BY <1>0, <2>1, <2>3, <2>4, <2>6 DEF DwInv, Asks
<1> QED
  BY <1>1, <1>2 DEF DwNext

\* The command of the dynamic window search is one that the limits and the obstacle
\* allow, and the cheapest of those that were sampled; the search ends with a stop
\* only when none is (BaseGeneratePath.cpp:95-246).  For any window, step and target,
\* as long as a limit that is sent is not below the fastest way backwards: a lower one
\* takes the whole window with it, since its lower end is cut to its upper end.
THEOREM BestIsAllowedCorrect ==
  ASSUME InRange
  PROVE  DwSpec => []BestIsAllowed
<1>1. DwInit => DwInv
  <2> SUFFICES ASSUME DwInit PROVE DwInv
    OBVIOUS
  <2>1. /\ ask \in Asks /\ sample = <<min_vel_x, min_vel_theta>> /\ min_cost = Far
        /\ answer = "searching"
    BY DEF DwInit, Asks
  <2>2. /\ min_vel_x \in Int /\ min_vel_theta \in Int /\ min_vel_theta <= max_vel_theta
        /\ StepX \in Nat \ {0} /\ StepTheta \in Nat \ {0}
    BY <2>1, Window
  <2>3. Multiple(0, StepX) /\ Multiple(0, StepTheta)
    BY <2>2, FirstMultiple
  <2>4. SearchInv
    <3>1. min_vel_x - min_vel_x = 0 /\ min_vel_theta - min_vel_theta = 0
      BY <2>2
    <3> QED BY <2>1, <2>2, <2>3, <3>1 DEF SearchInv
  <2>5. ASSUME NEW end \in Grid PROVE ~Before(end, sample)
    <3>1. PICK x \in Int, y \in Int : end = <<x, y>>
      BY DEF Grid
    <3>2. x - min_vel_x >= 0 /\ y - min_vel_theta >= 0
      BY <3>1 DEF Grid, Multiple
    <3> QED BY <2>1, <2>2, <3>1, <3>2 DEF Before
  <2>6. SeenInv
    BY <2>5 DEF SeenInv
  <2>7. FoundInv
    BY <2>1 DEF FoundInv, Far
  <2> QED BY <2>1, <2>4, <2>6, <2>7 DEF DwInv
<1>2. DwInv /\ [DwNext]_dwVars => DwInv'
  BY SearchStep
<1>3. DwInv => BestIsAllowed
  <2> SUFFICES ASSUME DwInv PROVE BestIsAllowed
    OBVIOUS
  <2> DEFINE priced == {end \in Allowed :
                   /\ end[1] >= min_vel_x /\ end[2] >= min_vel_theta
                   /\ (end[1] - min_vel_x) % StepSize(min_vel_x, max_vel_x) = 0
                   /\ (end[2] - min_vel_theta) % StepSize(min_vel_theta, max_vel_theta) = 0}
  <2>0. ask \in Asks /\ SearchInv /\ SeenInv /\ FoundInv
    BY DEF DwInv
  <2>1. \A end \in priced : end \in Grid /\ calculateCost(end) # Invalid
    BY <2>0, GridIsAllowed DEF StepX, StepTheta
  <2>2. ASSUME NEW end \in Grid, calculateCost(end) # Invalid PROVE end \in priced
    <3>1. end \in Allowed
      BY <2>0, <2>2, GridIsAllowed
    <3>2. PICK x \in Int, y \in Int : end = <<x, y>>
      BY DEF Grid
    <3>3. /\ x - min_vel_x >= 0 /\ (x - min_vel_x) % StepX = 0
          /\ y - min_vel_theta >= 0 /\ (y - min_vel_theta) % StepTheta = 0
      BY <3>2 DEF Grid, Multiple
    <3>4. min_vel_x \in Int /\ min_vel_theta \in Int
      BY <2>0, Window
    <3>5. x >= min_vel_x /\ y >= min_vel_theta
      BY <3>3, <3>4
    <3> QED BY <3>1, <3>2, <3>3, <3>5 DEF StepX, StepTheta
  <2> HIDE DEF priced
  <2>3. ASSUME answer # "searching", ~ask.allow_pub, NEW end \in priced
        PROVE  min_cost <= calculateCost(end) /\ min_cost # Far
    <3>1. end \in Grid /\ calculateCost(end) # Invalid /\ Before(end, sample) /\ end \in Ends
      BY <2>0, <2>1, <2>3, Passed, GridIsAllowed DEF FoundInv
    <3>2. min_cost <= calculateCost(end)
      BY <2>0, <2>3, <3>1 DEF SeenInv
    <3>3. calculateCost(end) \in Int /\ calculateCost(end) < Far
      BY <2>0, <3>1, Costs
    <3> QED BY <2>0, <3>2, <3>3 DEF FoundInv, Far
  <2>4. ASSUME answer = "best"
        PROVE  /\ best \in Allowed /\ best \in priced /\ ~ask.allow_pub
               /\ \A end \in priced : calculateCost(best) <= calculateCost(end)
    <3>1. min_cost # Far
      BY <2>0, <2>4 DEF FoundInv
    <3>2. /\ ~ask.allow_pub /\ best \in Grid
          /\ calculateCost(best) = min_cost /\ min_cost # Invalid
      BY <2>0, <3>1 DEF FoundInv
    <3>3. best \in priced /\ best \in Allowed
      BY <2>0, <2>2, <3>2, GridIsAllowed
    <3> QED BY <2>3, <2>4, <3>2, <3>3
  <2>5. ASSUME answer # "searching", ~ask.allow_pub, priced # {}
        PROVE  answer = "best"
    BY <2>0, <2>3, <2>5 DEF FoundInv
  <2>6. answer # "searching" => (answer = "best") = (~ask.allow_pub /\ priced # {})
    <3>1. answer # "searching" => (answer = "best" <=> ~ask.allow_pub /\ priced # {})
      BY <2>4, <2>5
    <3> QED BY <3>1
  <2>7. answer = "best" => best \in Allowed /\ \A end \in priced : calculateCost(best) <= calculateCost(end)
    BY <2>4
  <2> QED BY <2>6, <2>7 DEF BestIsAllowed, priced
<1> QED
  BY <1>1, <1>2, <1>3, PTL DEF DwSpec
=============================================================================
