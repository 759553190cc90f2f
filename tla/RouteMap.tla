------------------------------ MODULE RouteMap ------------------------------
(***************************************************************************)
(* The routing table of a master (src/src/Master/src/interface/Map.cpp,    *)
(* InterfaceManager::setMaxWeight and setInitWeight).                      *)
(*                                                                         *)
(* The map of the network gives every link between two hosts a weight.     *)
(* When a link fails its weight becomes INT_MAX - 1, when it works again   *)
(* its initial weight; after each change getRoute runs Dijkstra's          *)
(* algorithm from the local host, host 0, and the table gets, for every    *)
(* host it reached, the first hop of the path it found.  The algorithm is  *)
(* modelled loop by loop, on ints of the width that IntMax gives.          *)
(***************************************************************************)
EXTENDS Integers, Sequences, FiniteSets, FiniteSetsExt, Functions

CONSTANTS
  N,          \* number of hosts
  MaxWeight,  \* largest initial weight
  IntMax      \* INT_MAX

ASSUME RouteAssumption ==
  /\ N \in Nat \ {0} /\ MaxWeight \in Nat \ {0}
  /\ IntMax \in Nat /\ IntMax > N * MaxWeight + 1

Key == 0..(N - 1)
Link == {l \in Key \X Key : l[1] < l[2]}
NoHop == -1

VARIABLES
  initWeight, weight,  \* of every link; 0 where there is none
  running,             \* getRoute is running
  visited, parent, distance,
  overflow,            \* a sum of distance and weight did not fit an int
  route                \* the first hop to every host, or NoHop

mapVars == <<initWeight, weight>>
vars == <<mapVars, running, visited, parent, distance, overflow, route>>

LinkOf(i, j) == IF i < j THEN <<i, j>> ELSE <<j, i>>
W(i, j) == IF i = j THEN 0 ELSE weight[LinkOf(i, j)]
Failed == IntMax - 1

\* The local variables of getRoute before its loop.
Start ==
  /\ running' = TRUE
  /\ visited' = {}
  /\ parent' = [i \in Key |-> NoHop]
  /\ distance' = [i \in Key |-> IF i = 0 THEN 0 ELSE IntMax]
  /\ overflow' = FALSE

\* init: any map with links of weight 1 to MaxWeight; getRoute is called.
Init ==
  /\ initWeight \in [Link -> 0..MaxWeight]
  /\ weight = initWeight
  /\ running = TRUE
  /\ visited = {}
  /\ parent = [i \in Key |-> NoHop]
  /\ distance = [i \in Key |-> IF i = 0 THEN 0 ELSE IntMax]
  /\ overflow = FALSE
  /\ route = [i \in Key |-> NoHop]

\* setMaxWeight and setInitWeight of the local host and a neighbour, or of two
\* other hosts as a /weight request names them.  Only hosts that share a link have
\* a HostInterface that reports it.
SetMaxWeight(l) ==
  /\ ~running
  /\ initWeight[l] > 0
  /\ weight' = [weight EXCEPT ![l] = Failed]
  /\ Start
  /\ UNCHANGED <<initWeight, route>>

SetInitWeight(l) ==
  /\ ~running
  /\ weight' = [weight EXCEPT ![l] = initWeight[l]]
  /\ Start
  /\ UNCHANGED <<initWeight, route>>

\* An int sum as the build computes it: it wraps around.
Fits(x) == x <= IntMax
Wrapped(x) == IF Fits(x) THEN x ELSE x - 2 * (IntMax + 1)

Candidates == {i \in Key \ visited : distance[i] < IntMax}

\* Mutant: the first reached host is taken, not the nearest.
AnyCandidate == Min(Candidates)

\* minIndex: the nearest host that is not visited, the first of equals.
MinIndex ==
  CHOOSE i \in Candidates :
    \A j \in Candidates : distance[i] < distance[j]
                            \/ (distance[i] = distance[j] /\ i <= j)

\* The path over m is shorter for i.
Relaxes(m, i) ==
  /\ i \notin visited /\ i # m
  /\ W(m, i) > 0
  /\ Wrapped(distance[m] + W(m, i)) < distance[i]

\* One turn of the while loop.
Visit ==
  LET m == MinIndex
      better == {i \in Key : Relaxes(m, i)}
      sums == {distance[m] + W(m, i) : i \in {x \in Key \ (visited \cup {m}) : W(m, x) > 0}} IN
  /\ running
  /\ Candidates # {}
  /\ visited' = visited \cup {m}
  /\ distance' = [i \in Key |->
       IF i \in better THEN Wrapped(distance[m] + W(m, i)) ELSE distance[i]]
  /\ parent' = [i \in Key |-> IF i \in better THEN m ELSE parent[i]]
  /\ overflow' = (overflow \/ \E x \in sums : ~Fits(x))
  /\ UNCHANGED <<mapVars, running, route>>

\* The host on the way from i back to host 0 whose parent is host 0.
Ancestor(i) ==
  LET anc[k \in 0..N] == IF k = 0 THEN i
                         ELSE IF anc[k - 1] = NoHop THEN NoHop ELSE parent[anc[k - 1]]
  IN anc

FirstHop(i) ==
  LET anc == Ancestor(i) IN
  IF \E k \in 0..(N - 1) : anc[k + 1] = 0
  THEN anc[CHOOSE k \in 0..(N - 1) : anc[k + 1] = 0]
  ELSE NoHop

\* After the loop: a new table with the hosts that were visited.
Finish ==
  /\ running
  /\ Candidates = {}
  /\ running' = FALSE
  /\ route' = [i \in Key |-> IF i \in visited \ {0} THEN FirstHop(i) ELSE NoHop]
  /\ UNCHANGED <<mapVars, visited, parent, distance, overflow>>

Next ==
  \/ \E l \in Link : SetMaxWeight(l) \/ SetInitWeight(l)
  \/ Visit \/ Finish

Spec == Init /\ [][Next]_vars

-----------------------------------------------------------------------------
(* Properties *)

\* Types.  A link has its initial weight or the one of a failed link.
TypeOK ==
  /\ initWeight \in [Link -> 0..MaxWeight]
  /\ weight \in [Link -> 0..MaxWeight \cup {Failed}]
  /\ \A l \in Link : weight[l] \in {initWeight[l], Failed}
  /\ running \in BOOLEAN /\ overflow \in BOOLEAN
  /\ visited \subseteq Key
  /\ parent \in [Key -> Key \cup {NoHop}]
  /\ distance \in [Key -> (-IntMax - 1)..IntMax]
  /\ route \in [Key -> Key \cup {NoHop}]

\* The while loop that follows the parents ends: every parent was visited before
\* its child, so from any visited host the way leads to host 0 in fewer than N
\* steps.  This holds whatever the sums overflow to.
ParentsLeadHome ==
  \A i \in visited : \E k \in 0..(N - 1) : /\ Ancestor(i)[k] = 0
                                           /\ Ancestor(i)[k + 1] = NoHop

\* Reference: the length of a shortest path from a to b, IntMax if there is none
\* shorter.  Best[k] allows k links.
Best(a) ==
  LET d[k \in 0..(N - 1)] ==
        IF k = 0 THEN [i \in Key |-> IF i = a THEN 0 ELSE IntMax]
        ELSE [i \in Key |->
               Min({d[k - 1][i]} \cup
                   {d[k - 1][j] + W(j, i) : j \in {x \in Key : W(x, i) > 0}})]
  IN d[N - 1]

Alive == {l \in Link : weight[l] \in 1..MaxWeight}
Connected(a, b, links) ==
  LET r[k \in 0..(N - 1)] ==
        IF k = 0 THEN {a}
        ELSE r[k - 1] \cup {j \in Key : \E i \in r[k - 1] : i # j /\ LinkOf(i, j) \in links}
  IN b \in r[N - 1]

\* Without overflow a failed link is not used while another way is there: the
\* whole path the parents describe consists of working links.
AvoidsFailedLinks ==
  \A i \in visited \ {0} :
    Connected(0, i, Alive) =>
      \A k \in 0..(N - 2) :
        LET a == Ancestor(i)[k] b == Ancestor(i)[k + 1] IN
        (a # NoHop /\ b # NoHop) => LinkOf(a, b) \in Alive

\* getRoute ends, and without overflow the table has a host if and only if a path
\* shorter than INT_MAX leads to it, its entry is the first hop of a shortest one,
\* and the paths avoid failed links (Map.cpp:77-121).
RouteIsShortest ==
  /\ TypeOK
  /\ ParentsLeadHome
  /\ (~running /\ ~overflow) =>
       /\ AvoidsFailedLinks
       /\ \A i \in Key \ {0} :
            LET best == Best(0)[i] IN
            IF best = IntMax
            THEN route[i] = NoHop
            ELSE /\ route[i] # NoHop
                 /\ W(0, route[i]) > 0
                 /\ W(0, route[i]) + Best(route[i])[i] = best
=============================================================================
