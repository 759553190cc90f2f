------------------------------ MODULE DwaSearch ------------------------------
(***************************************************************************)
(* One turn of the dynamic window search: BaseGeneratePath::               *)
(* generateTrajectory samples the velocities and yaw rates that can be     *)
(* reached, BaseScore::calculateCost prices the trajectory of each sample,  *)
(* and the command is that of the cheapest.                                *)
(*                                                                         *)
(* Velocities are integers, the unit is the smallest step of the code      *)
(* (0.1 and 0.05).  Every element of a trajectory is the same State object *)
(* (traj.push_back(temp_state)), so a trajectory is priced by its end, and *)
(* the end is the pair (velocity, yaw rate) it was made with.  Distance of *)
(* pairs stands for the distances of the goal, path and obstacle costs     *)
(* (with the footprint), factors of the costs are left out, the 1.6 for    *)
(* driving backwards is 2.                                                 *)
(***************************************************************************)
EXTENDS Integers

CONSTANTS
  MaxVel, MaxBack,                  \* max_vel_x_ and - min_vel_x_
  Acc, Deacc,                       \* acc_lim_x_, - deacc_lim_x_, times sim_time_
  MaxTheta, AccTheta,               \* the same for the yaw rate, symmetric
  Samples,                          \* num_samples_x_ and num_samples_theta_
  Target, MinObsDist,
  Caps                              \* values of max_velocity, 0: none was sent

ASSUME DwaAssumption ==
  /\ MaxVel \in Nat /\ MaxBack \in Nat /\ Acc \in Nat /\ Deacc \in Nat
  /\ MaxTheta \in Nat /\ AccTheta \in Nat
  /\ Samples \in Nat \ {0} /\ Target \in Nat /\ MinObsDist \in Nat
  /\ Caps \subseteq Int

Far == 1000       \* min_cost = 1e6
Invalid == -1
NoObstacle == <<Far, Far>>
Lesser(x, y) == IF x < y THEN x ELSE y
Greater(x, y) == IF x < y THEN y ELSE x
Distance(p, q) == Greater(p[1] - q[1], q[1] - p[1]) + Greater(p[2] - q[2], q[2] - p[2])
MinVel == 0 - MaxBack
MinTheta == 0 - MaxTheta
Ends == (MinVel .. MaxVel) \X (MinTheta .. MaxTheta)

VARIABLES
  ask,      \* the arguments and what raycast found
  sample,   \* the one to price next
  min_cost,
  best,     \* best_traj, NoObstacle while it is empty
  answer    \* "searching", "stop" or "best"

dwVars == <<ask, sample, min_cost, best, answer>>

-----------------------------------------------------------------------------
(* The window *)

max_vel_x ==
  LET reach == Lesser(MaxVel, ask.vel + Acc)
  IN IF ask.cap = 0 THEN reach ELSE Lesser(reach, ask.cap)

min_vel_x ==
  LET reach == Lesser(Greater(MinVel, ask.vel - Deacc), max_vel_x)
  IN IF ask.back THEN reach ELSE Greater(reach, 0)

max_vel_theta == Lesser(MaxTheta, ask.yaw + AccTheta)
min_vel_theta == Lesser(Greater(MinTheta, ask.yaw - AccTheta), max_vel_theta)

StepSize(low, high) == Greater((high - low) \div Greater(1, Samples - 1), 1)

DwInit ==
  /\ ask \in [vel : 0 .. MaxVel, yaw : {0, MaxTheta}, cap : Caps, back : BOOLEAN,
              allow_pub : BOOLEAN, goal : {<<MaxVel, MinTheta>>, <<0, 0>>},
              obstacle : Ends \cup {NoObstacle}]
  /\ sample = <<min_vel_x, min_vel_theta>>
  /\ min_cost = Far /\ best = NoObstacle /\ answer = "searching"

-----------------------------------------------------------------------------
(* The search *)

\* calcSpeedCost charges more for driving backwards.
SpeedCost(end) == LET d == Distance(<<Target, 0>>, <<end[1], 0>>)
                  IN IF end[1] >= 0 THEN d ELSE d * 2

calculateCost(end) ==
  IF Distance(end, ask.obstacle) <= MinObsDist THEN Invalid
  ELSE Distance(end, ask.goal) + SpeedCost(end)

InWindow == sample[1] <= max_vel_x /\ sample[2] <= max_vel_theta

\* The inner loop over yaw rates, the outer one over velocities.
NextSample ==
  LET k == sample[2] + StepSize(min_vel_theta, max_vel_theta)
  IN IF k <= max_vel_theta THEN <<sample[1], k>>
     ELSE <<sample[1] + StepSize(min_vel_x, max_vel_x), min_vel_theta>>

\* Mutant: a trajectory that collides counts as the cheapest of all.
AcceptsInvalid(cost) == cost <= min_cost

Accepts(cost) == cost # Invalid /\ cost <= min_cost

\* With allow_pub_ the body of the loop is commented out.
Sample ==
  /\ answer = "searching" /\ InWindow
  /\ sample' = NextSample
  /\ LET cost == calculateCost(sample)
     IN IF ~ask.allow_pub /\ Accepts(cost)
        THEN min_cost' = cost /\ best' = sample
        ELSE UNCHANGED <<min_cost, best>>
  /\ UNCHANGED <<ask, answer>>

Decides ==
  /\ answer = "searching" /\ ~InWindow
  /\ answer' = IF min_cost = Far THEN "stop" ELSE "best"
  /\ UNCHANGED <<ask, sample, min_cost, best>>

DwNext == Sample \/ Decides

DwSpec == DwInit /\ [][DwNext]_dwVars

-----------------------------------------------------------------------------
(* The reference: what the parameters and the arguments allow *)

Allowed ==
  {end \in Ends :
     /\ end[1] <= ask.vel + Acc
     /\ ask.cap # 0 => end[1] <= ask.cap
     /\ ~ask.back => end[1] >= 0
     /\ end[2] <= ask.yaw + AccTheta
     /\ Distance(end, ask.obstacle) > MinObsDist}

\* The command the search ends with is one the limits allow, that does not end
\* at the obstacle, and none that is allowed and was sampled is cheaper; there is
\* a command other than the stop exactly when trajectories are searched at all
\* and one of the samples is allowed (BaseGeneratePath.cpp:95-246).
BestIsAllowed ==
  LET priced == {end \in Allowed :
                   /\ end[1] >= min_vel_x /\ end[2] >= min_vel_theta
                   /\ (end[1] - min_vel_x) % StepSize(min_vel_x, max_vel_x) = 0
                   /\ (end[2] - min_vel_theta) % StepSize(min_vel_theta, max_vel_theta) = 0}
  IN /\ answer = "best" =>
          best \in Allowed /\ \A end \in priced : calculateCost(best) <= calculateCost(end)
     /\ answer # "searching" =>
          (answer = "best") = (~ask.allow_pub /\ priced # {})
=============================================================================
