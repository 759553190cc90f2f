-------------------------- MODULE AlgorithmProofs ---------------------------
(***************************************************************************)
(* Proofs about the algorithms that the algorithms run checks on a small   *)
(* instance.  For every number of hosts and every map, the parents that    *)
(* Dijkstra's algorithm leaves form a tree and the routing table describes *)
(* shortest paths (RouteMap).  For any clocks, two stations do not         *)
(* transmit at once (SlotClock).  For every request, the reader of the UWB *)
(* link gets back what was sent (UwbText).                                 *)
(*                                                                         *)
(* Most definitions are functions defined by recursion: the way along the  *)
(* parents (Ancestor), the lengths of shortest paths (Best), the passes    *)
(* over a text (Unescape, SplitLines).  That such a function exists, and   *)
(* is the one CHOOSE takes, is the lemma Iterates; induction along it is   *)
(* StepByStep, where the predicate is a set of numbers.                    *)
(***************************************************************************)
EXTENDS RouteMap, SlotClock, UwbText, FiniteSetTheorems, SequenceTheorems,
        WellFoundedInduction, TLAPS

-----------------------------------------------------------------------------
(* Numbers *)

\* The order of the numbers is well-founded.
LEMMA OrderedNaturals ==
  \E R : IsWellFoundedOn(R, Nat) /\ \A x, y \in Nat : x < y => <<x, y>> \in R
<1>1. IsWellFoundedOn(OpToRel(<, Nat), Nat)
  BY NatLessThanWellFounded
<1>2. \A x, y \in Nat : x < y => <<x, y>> \in OpToRel(<, Nat)
  BY Zenon DEF OpToRel
<1> QED
  BY <1>1, <1>2, Zenon

\* A set of numbers that is not empty has a least one.
LEMMA Least ==
  ASSUME NEW T, T \subseteq Nat, T # {}
  PROVE  \E x \in T : \A y \in T : x <= y
<1>1. PICK R : IsWellFoundedOn(R, Nat) /\ \A x, y \in Nat : x < y => <<x, y>> \in R
  BY OrderedNaturals
<1>2. PICK x \in T : \A y \in T : ~(<<y, x>> \in R)
  <2>1. IsWellFoundedOn(R, Nat)
    BY <1>1, Zenon
  <2>2. \E x \in T : \A y \in T : ~(<<y, x>> \in R)
    BY ONLY <2>1, T \subseteq Nat, T # {}, WFMin, Zenon
  <2> QED BY ONLY <2>2, Zenon
<1>3. \A y \in T : ~(y < x)
  BY <1>1, <1>2
<1>4. \A y \in T : x <= y
  BY <1>3
<1> QED
  BY <1>4

\* Induction, for a set in the place of a predicate.
LEMMA StepByStep ==
  ASSUME NEW n \in Nat, NEW G, 0 \in G, \A k \in 1..n : k - 1 \in G => k \in G
  PROVE  \A k \in 0..n : k \in G
<1> DEFINE Bad == {k \in 0..n : k \notin G}
<1>1. SUFFICES ASSUME Bad # {} PROVE FALSE
  OBVIOUS
<1>2. PICK k \in Bad : \A j \in Bad : k <= j
  <2>1. Bad \subseteq Nat
    OBVIOUS
  <2> QED BY <1>1, <2>1, Least
<1>3. k \in 1..n /\ k - 1 \in 0..n /\ ~(k <= k - 1)
  BY <1>2
<1>4. k - 1 \in G
  BY <1>2, <1>3
<1> QED
  BY <1>2, <1>3, <1>4

\* What the functions f[1], f[2] ... make of x, one after the other.
Iterated(h, n, S, x, f) ==
  h \in [0..n -> S] /\ h[0] = x /\ \A k \in 1..n : h[k] = f[k][h[k - 1]]

\* A function defined by recursion over 0..n exists.
LEMMA Iterates ==
  ASSUME NEW n \in Nat, NEW S, NEW x \in S, NEW f \in [1..n -> [S -> S]]
  PROVE  \E h : Iterated(h, n, S, x, f)
<1> DEFINE G == {m \in 0..n : \E h \in [0..m -> S] :
                                h[0] = x /\ \A k \in 1..m : h[k] = f[k][h[k - 1]]}
<1>1. 0 \in G
  <2> DEFINE h == [k \in 0..0 |-> x]
  <2>1. h \in [0..0 -> S] /\ h[0] = x /\ \A k \in 1..0 : h[k] = f[k][h[k - 1]]
    OBVIOUS
  <2>2. \E g \in [0..0 -> S] : g[0] = x /\ \A k \in 1..0 : g[k] = f[k][g[k - 1]]
    BY <2>1
  <2>3. 0 \in 0..n
    OBVIOUS
  <2> QED BY <2>2, <2>3
<1>2. ASSUME NEW m \in 1..n, m - 1 \in G PROVE m \in G
  <2>1. PICK h \in [0..(m - 1) -> S] : h[0] = x /\ \A k \in 1..(m - 1) : h[k] = f[k][h[k - 1]]
    BY <1>2
  <2> DEFINE g == [k \in 0..m |-> IF k = m THEN f[m][h[m - 1]] ELSE h[k]]
  <2>2. m - 1 \in 0..(m - 1) /\ h[m - 1] \in S
    BY <2>1
  <2>3. g \in [0..m -> S]
    BY <2>1, <2>2
  <2>4. g[0] = x
    BY <2>1
  <2>5. ASSUME NEW k \in 1..m PROVE g[k] = f[k][g[k - 1]]
    <3>1. k - 1 \in 0..m /\ k - 1 # m /\ g[k - 1] = h[k - 1]
      OBVIOUS
    <3>2. CASE k = m
      BY <3>1, <3>2
    <3>3. CASE k # m
      BY <2>1, <3>1, <3>3
    <3> QED BY <3>2, <3>3
  <2>6. \E e \in [0..m -> S] : e[0] = x /\ \A k \in 1..m : e[k] = f[k][e[k - 1]]
    <3> HIDE DEF g
    <3> QED BY <2>3, <2>4, <2>5
  <2>7. m \in 0..n
    OBVIOUS
  <2> QED BY <2>6, <2>7
<1>3. n \in G
  <2>1. \A k \in 0..n : k \in G
    BY ONLY <1>1, <1>2, n \in Nat, StepByStep
  <2> QED BY <2>1
<1> QED
  BY <1>3 DEF Iterated

\* Min chooses the least number.
LEMMA LeastNumber ==
  ASSUME NEW T, T \subseteq Nat, T # {}
  PROVE  Min(T) \in T /\ \A y \in T : Min(T) <= y
<1>1. \E x \in T : \A y \in T : x <= y
  BY Least
<1> QED
  BY <1>1 DEF Min

-----------------------------------------------------------------------------
(* The recursive definitions *)

\* The way from i towards host 0, step by step.
LEMMA AncestorDef ==
  ASSUME parent \in [Key -> Key \cup {NoHop}], NEW i \in Key
  PROVE  /\ Ancestor(i) \in [0..N -> Key \cup {NoHop}]
         /\ Ancestor(i)[0] = i
         /\ \A k \in 1..N : Ancestor(i)[k] =
              IF Ancestor(i)[k - 1] = NoHop THEN NoHop ELSE parent[Ancestor(i)[k - 1]]
<1> DEFINE S == Key \cup {NoHop}
           up == [a \in S |-> IF a = NoHop THEN NoHop ELSE parent[a]]
           f == [k \in 1..N |-> up]
           Chain(h) == h = [k \in 0..N |-> IF k = 0 THEN i
                              ELSE IF h[k - 1] = NoHop THEN NoHop ELSE parent[h[k - 1]]]
<1>1. N \in Nat /\ i \in S /\ f \in [1..N -> [S -> S]] /\ NoHop \notin Key
  BY RouteAssumption DEF NoHop, Key
<1>2. PICK h : Iterated(h, N, S, i, f)
  <2> HIDE DEF S, f
  <2> QED BY <1>1, Iterates
<1>3. Chain(h)
  <2>1. ASSUME NEW k \in 0..N
        PROVE  h[k] = IF k = 0 THEN i ELSE IF h[k - 1] = NoHop THEN NoHop ELSE parent[h[k - 1]]
    <3>1. CASE k = 0
      BY <1>2, <3>1 DEF Iterated
    <3>2. CASE k # 0
      <4>1. k \in 1..N /\ k - 1 \in 0..N
        BY <1>1, <3>2
      <4> QED BY <1>2, <3>2, <4>1 DEF Iterated
    <3> QED BY <3>1, <3>2
  <2> QED BY <1>2, <2>1 DEF Iterated
<1>4. Chain(Ancestor(i))
  <2>1. Ancestor(i) = CHOOSE a : Chain(a)
    BY DEF Ancestor
  <2> QED BY <1>3, <2>1
<1>5. DOMAIN Ancestor(i) = 0..N /\ Ancestor(i)[0] = i
  BY <1>1, <1>4
<1>6. ASSUME NEW k \in 1..N
      PROVE  Ancestor(i)[k] =
               IF Ancestor(i)[k - 1] = NoHop THEN NoHop ELSE parent[Ancestor(i)[k - 1]]
  BY <1>1, <1>4
<1>7. \A k \in 0..N : Ancestor(i)[k] \in S
  <2> DEFINE G == {k \in 0..N : Ancestor(i)[k] \in S}
  <2>1. 0 \in G
    BY <1>1, <1>5
  <2>2. ASSUME NEW k \in 1..N, k - 1 \in G PROVE k \in G
    <3>1. Ancestor(i)[k] = IF Ancestor(i)[k - 1] = NoHop THEN NoHop ELSE parent[Ancestor(i)[k - 1]]
      BY <1>6
    <3> QED BY <2>2, <3>1
  <2>3. \A k \in 0..N : k \in G
    <3> HIDE DEF G
    <3> QED BY <1>1, <2>1, <2>2, StepByStep
  <2> QED BY <2>3
<1>8. Ancestor(i) = [k \in 0..N |-> Ancestor(i)[k]]
  BY <1>4, <1>5
<1> QED
  BY <1>5, <1>6, <1>7, <1>8

-----------------------------------------------------------------------------
(* The invariant *)

\* Every host that was reached was reached from one that was visited before it: the
\* parents form a tree, and the ranks of the hosts in it grow.  No overflow of the
\* distances disturbs this.
Tree ==
  /\ visited = {} => distance = [i \in Key |-> IF i = 0 THEN 0 ELSE IntMax]
  /\ visited # {} => 0 \in visited
  /\ parent[0] = NoHop /\ distance[0] = 0
  /\ \A i \in Key : parent[i] \in visited \cup {NoHop}
  /\ \A i \in Key \ {0} : distance[i] < IntMax => parent[i] # NoHop
  /\ \A i \in visited : distance[i] < IntMax

\* r gives the visited hosts ranks that fall from every host to its parent.
Ranked(r) ==
  \A i \in visited : /\ r[i] < Cardinality(visited)
                     /\ i # 0 => r[parent[i]] < r[i]
Ranks == \E r \in [Key -> Nat] : Ranked(r)

\* What the algorithm knows of the distances when no sum overflowed: visited hosts
\* are nearer than the others, no link from one of them is a short cut, and each
\* distance is that of the way over the parent.
Nearest ==
  /\ \A i \in Key : distance[i] >= 0
  /\ \A i \in visited, j \in Key \ visited : distance[i] <= distance[j]
  /\ \A i \in visited, j \in Key : W(i, j) > 0 => distance[j] <= distance[i] + W(i, j)
  /\ \A i \in Key : parent[i] # NoHop =>
       W(parent[i], i) > 0 /\ distance[i] = distance[parent[i]] + W(parent[i], i)

\* The table of the last run.
Table ==
  ~running =>
    /\ Candidates = {} /\ visited # {}
    /\ route = [i \in Key |-> IF i \in visited \ {0} THEN FirstHop(i) ELSE NoHop]

\* The inductive invariant.
RouteInv == TypeOK /\ Tree /\ Ranks /\ Table /\ (~overflow => Nearest)

-----------------------------------------------------------------------------
(* The steps *)

\* What the assumption says of the numbers: every path of working links is shorter

\* than one failed link.
LEMMA Bounds ==
  /\ MaxWeight \in Nat \ {0} /\ N \in Nat \ {0} /\ IntMax \in Nat
  /\ MaxWeight < Failed /\ Failed < IntMax /\ Failed \in Nat
  /\ (N - 1) * MaxWeight < Failed /\ (N - 1) * MaxWeight \in Nat
<1>1. /\ N \in Nat \ {0} /\ MaxWeight \in Nat \ {0}
      /\ IntMax \in Nat /\ IntMax > N * MaxWeight + 1
  BY RouteAssumption
<1>2. (N - 1) * MaxWeight \in Nat /\ N * MaxWeight = (N - 1) * MaxWeight + MaxWeight
  BY <1>1
<1> QED
  BY <1>1, <1>2 DEF Failed

\* Weights are symmetric, and those of failed links are the largest.
LEMMA Weights ==
  ASSUME TypeOK, NEW i \in Key, NEW j \in Key
  PROVE  /\ W(i, j) \in 0..Failed /\ W(j, i) = W(i, j)
         /\ W(i, j) > 0 => i # j /\ LinkOf(i, j) \in Link /\ W(i, j) = weight[LinkOf(i, j)]
         /\ W(i, j) \in 0..MaxWeight \cup {Failed}
<1>1. i \in Nat /\ j \in Nat
  BY Bounds DEF Key
<1>2. i # j => LinkOf(i, j) \in Link /\ LinkOf(i, j) = LinkOf(j, i)
  BY <1>1 DEF LinkOf, Link
<1>3. \A l \in Link : weight[l] \in 0..MaxWeight \cup {Failed}
  BY DEF TypeOK
<1>4. W(i, j) \in 0..MaxWeight \cup {Failed} /\ W(j, i) = W(i, j)
  BY <1>2, <1>3, Bounds DEF W
<1> QED
  BY <1>2, <1>4, Bounds DEF W

\* minIndex takes a host that is nearest of those not visited.
LEMMA MinIndexNearest ==
  ASSUME TypeOK, Candidates # {}
  PROVE  /\ MinIndex \in Key \ visited /\ distance[MinIndex] < IntMax
         /\ \A j \in Key \ visited : distance[MinIndex] <= distance[j]
<1> DEFINE far == {distance[i] + IntMax + 1 : i \in Candidates}
<1>1. /\ IntMax \in Nat /\ Candidates \subseteq Key /\ Key \subseteq Nat
      /\ \A i \in Key : distance[i] \in Int /\ distance[i] >= -IntMax - 1 /\ distance[i] <= IntMax
  BY Bounds DEF Candidates, TypeOK, Key
<1>2. far \subseteq Nat /\ far # {}
  <2>1. ASSUME NEW i \in Candidates PROVE distance[i] + IntMax + 1 \in Nat
    <3>1. i \in Key
      BY <1>1
    <3> QED BY <1>1, <3>1
  <2> QED BY <2>1
<1>3. PICK d \in far : \A e \in far : d <= e
  <2> HIDE DEF far
  <2> QED BY <1>2, Least
<1>4. PICK near \in Candidates : d = distance[near] + IntMax + 1
  OBVIOUS
<1>5. ASSUME NEW j \in Candidates PROVE distance[near] <= distance[j]
  <2>1. distance[near] + IntMax + 1 <= distance[j] + IntMax + 1
    BY <1>3, <1>4
  <2>2. near \in Key /\ j \in Key
    BY <1>1
  <2> QED BY <1>1, <2>1, <2>2
<1> DEFINE nearest == {i \in Candidates : distance[i] = distance[near]}
<1>6. PICK i \in nearest : \A j \in nearest : i <= j
  <2>1. nearest \subseteq Nat /\ nearest # {}
    BY <1>1
  <2> HIDE DEF nearest
  <2> QED BY <2>1, Least
<1>7. i \in Candidates /\ \A j \in Candidates :
        distance[i] < distance[j] \/ (distance[i] = distance[j] /\ i <= j)
  <2>1. i \in Candidates /\ distance[i] = distance[near]
    OBVIOUS
  <2>2. ASSUME NEW j \in Candidates
        PROVE  distance[i] < distance[j] \/ (distance[i] = distance[j] /\ i <= j)
    <3>1. distance[i] <= distance[j] /\ distance[i] \in Int /\ distance[j] \in Int
      BY <1>1, <1>5, <2>1
    <3>2. distance[j] = distance[near] => i <= j
      BY <1>6
    <3> QED BY <2>1, <3>1, <3>2
  <2> QED BY <2>1, <2>2
<1>8. MinIndex \in Candidates /\ \A j \in Candidates :
        distance[MinIndex] < distance[j] \/ (distance[MinIndex] = distance[j] /\ MinIndex <= j)
  BY <1>7 DEF MinIndex
<1>9. MinIndex \in Key \ visited /\ distance[MinIndex] < IntMax
  BY <1>8 DEF Candidates
<1>10. ASSUME NEW j \in Key \ visited PROVE distance[MinIndex] <= distance[j]
  <2>1. CASE j \in Candidates
    BY <1>1, <1>8, <1>9, <2>1
  <2>2. CASE j \notin Candidates
    <3>1. ~(distance[j] < IntMax)
      BY <2>2 DEF Candidates
    <3>2. distance[j] \in Int /\ distance[MinIndex] \in Int
      BY <1>1, <1>9
    <3> QED BY <1>1, <1>9, <3>1, <3>2
  <2> QED BY <2>1, <2>2
<1> QED
  BY <1>9, <1>10

\* A sum of a distance and a weight, as the build computes it, is an int.
LEMMA SumFits ==
  ASSUME TypeOK, NEW m \in Key, NEW i \in Key, distance[m] < IntMax
  PROVE  /\ Wrapped(distance[m] + W(m, i)) \in (-IntMax - 1)..IntMax
         /\ Fits(distance[m] + W(m, i)) => Wrapped(distance[m] + W(m, i)) = distance[m] + W(m, i)
<1>1. PICK d, w : d = distance[m] /\ w = W(m, i)
  OBVIOUS
<1>2. /\ IntMax \in Nat /\ d \in (-IntMax - 1)..IntMax /\ d < IntMax
      /\ w \in 0..Failed /\ Failed < IntMax /\ Failed \in Nat
  BY <1>1, Bounds, Weights DEF TypeOK
<1>3. Wrapped(d + w) \in (-IntMax - 1)..IntMax /\ (Fits(d + w) => Wrapped(d + w) = d + w)
  BY <1>2 DEF Wrapped, Fits
<1> QED
  BY <1>1, <1>3

\* What a turn of the loop does.
LEMMA VisitDoes ==
  ASSUME TypeOK, Tree, Visit, NEW m, m = MinIndex
  PROVE  /\ m \in Key \ visited /\ distance[m] < IntMax
         /\ \A j \in Key \ visited : distance[m] <= distance[j]
         /\ visited = {} => m = 0
         /\ visited' = visited \cup {m} /\ running /\ running'
         /\ UNCHANGED <<mapVars, route>>
         /\ \A i \in Key : Relaxes(m, i) =>
              /\ i \notin visited /\ i # m /\ i # 0 /\ W(m, i) > 0
              /\ distance'[i] = Wrapped(distance[m] + W(m, i))
              /\ distance'[i] < distance[i] /\ parent'[i] = m
         /\ \A i \in Key : ~Relaxes(m, i) => distance'[i] = distance[i] /\ parent'[i] = parent[i]
         /\ distance' \in [Key -> (-IntMax - 1)..IntMax] /\ parent' \in [Key -> Key \cup {NoHop}]
<1>1. Candidates # {}
  BY DEF Visit
<1>2. /\ m \in Key \ visited /\ distance[m] < IntMax
      /\ \A j \in Key \ visited : distance[m] <= distance[j]
  BY <1>1, MinIndexNearest
<1>3. visited = {} => m = 0
  <2>1. visited = {} => \A i \in Key : distance[i] = IF i = 0 THEN 0 ELSE IntMax
    BY DEF Tree
  <2> QED BY <1>2, <2>1, Bounds
<1>4. /\ visited' = visited \cup {m} /\ running /\ running' /\ UNCHANGED <<mapVars, route>>
  BY DEF Visit
<1>5. /\ distance' = [i \in Key |-> IF Relaxes(m, i) THEN Wrapped(distance[m] + W(m, i))
                                                    ELSE distance[i]]
      /\ parent' = [i \in Key |-> IF Relaxes(m, i) THEN m ELSE parent[i]]
  BY DEF Visit
<1>6. ASSUME NEW i \in Key, Relaxes(m, i)
      PROVE  /\ i \notin visited /\ i # m /\ i # 0 /\ W(m, i) > 0
             /\ distance'[i] = Wrapped(distance[m] + W(m, i))
             /\ distance'[i] < distance[i] /\ parent'[i] = m
  <2>1. /\ i \notin visited /\ i # m /\ W(m, i) > 0
        /\ Wrapped(distance[m] + W(m, i)) < distance[i]
    BY <1>6 DEF Relaxes
  <2>2. i # 0
    BY <1>3, <2>1 DEF Tree
  <2> QED BY <1>5, <1>6, <2>1, <2>2
<1>7. ASSUME NEW i \in Key, ~Relaxes(m, i)
      PROVE  distance'[i] = distance[i] /\ parent'[i] = parent[i]
  BY <1>5, <1>7
<1>8. \A i \in Key : Wrapped(distance[m] + W(m, i)) \in (-IntMax - 1)..IntMax
  BY <1>2, SumFits
<1>9. distance' \in [Key -> (-IntMax - 1)..IntMax]
  BY <1>5, <1>8 DEF TypeOK
<1>10. parent' \in [Key -> Key \cup {NoHop}]
  BY <1>2, <1>5 DEF TypeOK
<1> QED
  BY <1>2, <1>3, <1>4, <1>6, <1>7, <1>9, <1>10

\* A turn of the loop keeps the tree, whatever its sums overflow to.
LEMMA VisitTree ==
  ASSUME TypeOK, Tree, Visit
  PROVE  TypeOK' /\ Tree'
<1>1. PICK m : m = MinIndex
  OBVIOUS
<1>2. /\ m \in Key \ visited /\ distance[m] < IntMax
      /\ visited = {} => m = 0
      /\ visited' = visited \cup {m} /\ running'
      /\ UNCHANGED <<mapVars, route>>
      /\ \A i \in Key : Relaxes(m, i) =>
           i \notin visited /\ i # m /\ i # 0 /\ parent'[i] = m
      /\ \A i \in Key : ~Relaxes(m, i) => distance'[i] = distance[i] /\ parent'[i] = parent[i]
      /\ distance' \in [Key -> (-IntMax - 1)..IntMax] /\ parent' \in [Key -> Key \cup {NoHop}]
  BY <1>1, VisitDoes
<1>3. overflow' \in BOOLEAN
  <2>1. overflow' = TRUE \/ overflow' = FALSE
    BY DEF Visit, TypeOK
  <2> QED BY <2>1
<1>4. TypeOK'
  BY <1>2, <1>3 DEF TypeOK, mapVars
<1>5. Tree'
  <2>1. 0 \in Key /\ NoHop \notin Key
    BY Bounds DEF Key, NoHop
  <2>2. visited' # {} /\ 0 \in visited' /\ parent'[0] = NoHop
    BY <1>2, <2>1 DEF Tree
  <2>3. \A i \in Key : parent'[i] \in visited' \cup {NoHop}
    BY <1>2 DEF Tree
  <2>4. ASSUME NEW i \in Key \ {0}, distance'[i] < IntMax PROVE parent'[i] # NoHop
    BY <1>2, <2>1, <2>4 DEF Tree
  <2>5. \A i \in visited' : distance'[i] < IntMax
    <3>1. \A i \in visited' : i \in Key /\ ~Relaxes(m, i)
      BY <1>2 DEF TypeOK
    <3> QED BY <1>2, <3>1 DEF Tree
  <2>6. distance'[0] = 0
    BY <1>2, <2>1 DEF Tree
  <2> QED BY <2>2, <2>3, <2>4, <2>5, <2>6 DEF Tree
<1> QED
  BY <1>4, <1>5

\* The visited host gets the next rank.
LEMMA VisitRanks ==
  ASSUME TypeOK, Tree, Ranks, Visit
  PROVE  Ranks'
<1>1. PICK m : m = MinIndex
  OBVIOUS
<1>2. /\ m \in Key \ visited /\ distance[m] < IntMax
      /\ visited = {} => m = 0
      /\ visited' = visited \cup {m}
      /\ \A i \in Key : Relaxes(m, i) => i \notin visited /\ i # m
      /\ \A i \in Key : ~Relaxes(m, i) => parent'[i] = parent[i]
  BY <1>1, VisitDoes
<1>3. PICK r \in [Key -> Nat] : Ranked(r)
  BY DEF Ranks
<1>4. /\ Cardinality(visited) \in Nat /\ Cardinality(visited') = Cardinality(visited) + 1
  <2>1. IsFiniteSet(visited)
    <3>1. IsFiniteSet(Key)
      BY Bounds, FS_Interval DEF Key
    <3> QED BY <3>1, FS_Subset DEF TypeOK
  <2> QED BY <1>2, <2>1, FS_CardinalityType, FS_AddElement
<1>5. PICK c \in Nat : c = Cardinality(visited)
  BY <1>4
<1> DEFINE s == [i \in Key |-> IF i = m THEN c ELSE r[i]]
<1>6. s \in [Key -> Nat]
  OBVIOUS
<1>7. ASSUME NEW i \in visited'
      PROVE  s[i] < Cardinality(visited') /\ (i # 0 => s[parent'[i]] < s[i])
  <2>1. i \in Key /\ parent'[i] = parent[i]
    BY <1>2 DEF TypeOK
  <2>2. i # 0 => parent[i] \in visited
    <3>1. distance[i] < IntMax
      BY <1>2 DEF Tree
    <3> QED BY <2>1, <3>1 DEF Tree
  <2>3. \A j \in visited : j \in Key /\ j # m /\ r[j] \in Nat /\ r[j] < c
    BY <1>2, <1>3, <1>5 DEF TypeOK, Ranked
  <2>4. CASE i = m
    BY <1>4, <1>5, <2>1, <2>2, <2>3, <2>4
  <2>5. CASE i # m
    <3>1. i \in visited
      BY <1>2, <2>5
    <3>2. i # 0 => r[parent[i]] < r[i]
      BY <1>3, <3>1 DEF Ranked
    <3> QED BY <1>4, <1>5, <2>1, <2>2, <2>3, <2>5, <3>1, <3>2
  <2> QED BY <2>4, <2>5
<1>8. Ranked(s)'
  BY <1>7 DEF Ranked
<1> QED
  BY <1>6, <1>8 DEF Ranks

\* Without overflow the visited hosts stay the nearest ones, and the turn leaves no
\* short cut from the host it visits.
LEMMA VisitNearest ==
  ASSUME TypeOK, Tree, Nearest, Visit, ~overflow'
  PROVE  Nearest'
<1>1. PICK m : m = MinIndex
  OBVIOUS
<1>2. /\ m \in Key \ visited /\ distance[m] < IntMax
      /\ \A j \in Key \ visited : distance[m] <= distance[j]
      /\ visited' = visited \cup {m} /\ UNCHANGED <<mapVars, route>>
      /\ \A i \in Key : Relaxes(m, i) =>
           /\ i \notin visited /\ i # m /\ W(m, i) > 0
           /\ distance'[i] = Wrapped(distance[m] + W(m, i))
           /\ distance'[i] < distance[i] /\ parent'[i] = m
      /\ \A i \in Key : ~Relaxes(m, i) => distance'[i] = distance[i] /\ parent'[i] = parent[i]
  BY <1>1, VisitDoes
<1>3. /\ \A i \in Key : distance[i] \in Nat
      /\ \A i, j \in Key : W(i, j) \in Nat /\ (W(i, j) > 0 => i # j)
      /\ visited \subseteq Key
  <2>1. \A i, j \in Key : W(i, j) \in 0..Failed /\ (W(i, j) > 0 => i # j)
    BY Weights
  <2>2. \A i \in Key : distance[i] \in Int /\ distance[i] >= 0
    BY Bounds DEF Nearest, TypeOK
  <2> QED BY <2>1, <2>2, Bounds DEF TypeOK
<1>4. \A i, j : W(i, j)' = W(i, j)
  BY <1>2 DEF mapVars, W
<1>5. ASSUME NEW i \in Key \ (visited \cup {m}), W(m, i) > 0
      PROVE  /\ Wrapped(distance[m] + W(m, i)) = distance[m] + W(m, i)
             /\ distance'[i] <= distance[m] + W(m, i)
  <2>1. Fits(distance[m] + W(m, i))
    BY <1>1, <1>5 DEF Visit
  <2>2. Wrapped(distance[m] + W(m, i)) = distance[m] + W(m, i)
    BY <2>1 DEF Wrapped
  <2>3. CASE Relaxes(m, i)
    BY <1>2, <1>3, <2>2, <2>3
  <2>4. CASE ~Relaxes(m, i)
    <3>1. distance'[i] = distance[i] /\ ~(distance[m] + W(m, i) < distance[i])
      BY <1>2, <1>5, <2>2, <2>4 DEF Relaxes
    <3> QED BY <1>2, <1>3, <2>2, <3>1
  <2> QED BY <2>2, <2>3, <2>4
<1>6. ASSUME NEW i \in Key
      PROVE  \/ ~Relaxes(m, i) /\ distance'[i] = distance[i] /\ parent'[i] = parent[i]
             \/ /\ Relaxes(m, i) /\ i \notin visited /\ i # m /\ W(m, i) > 0 /\ parent'[i] = m
                /\ distance'[i] = distance[m] + W(m, i) /\ distance'[i] < distance[i]
  <2>1. CASE Relaxes(m, i)
    <3>1. Wrapped(distance[m] + W(m, i)) = distance[m] + W(m, i)
      BY <1>2, <1>5, <2>1
    <3> QED BY <1>2, <2>1, <3>1
  <2> QED BY <1>2, <2>1
<1>7. \A i \in visited' : i \in Key /\ distance'[i] = distance[i]
  BY <1>2, <1>3, <1>6
<1>8. \A i \in Key : distance'[i] \in Nat /\ distance'[i] <= distance[i]
  BY <1>2, <1>3, <1>6
<1>9. \A i \in Key : distance'[i] >= 0
  BY <1>8
<1>10. ASSUME NEW i \in visited', NEW j \in Key \ visited' PROVE distance'[i] <= distance'[j]
  <2>1. distance[i] <= distance[m] /\ distance[i] <= distance[j]
    BY <1>2, <1>3 DEF Nearest
  <2>2. j \in Key /\ m \in Key /\ i \in Key
    BY <1>2, <1>7
  <2> QED BY <1>3, <1>6, <1>7, <2>1, <2>2
<1>11. ASSUME NEW i \in visited', NEW j \in Key, W(i, j) > 0
       PROVE  distance'[j] <= distance'[i] + W(i, j)
  <2>1. CASE i \in visited
    <3>1. distance[j] <= distance[i] + W(i, j)
      BY <1>11, <2>1 DEF Nearest
    <3> QED BY <1>3, <1>7, <1>8, <2>1, <3>1
  <2>2. CASE i = m /\ j \in visited
    <3>1. distance[j] <= distance[m] /\ j \in visited'
      BY <1>2, <2>2 DEF Nearest
    <3> QED BY <1>2, <1>3, <1>7, <2>2, <3>1
  <2>3. CASE i = m /\ j \notin visited
    <3>1. j \in Key \ (visited \cup {m}) /\ distance'[m] = distance[m]
      BY <1>3, <1>7, <1>11, <2>3
    <3> QED BY <1>5, <1>11, <2>3, <3>1
  <2> QED BY <1>2, <2>1, <2>2, <2>3
<1>12. ASSUME NEW i \in Key, parent'[i] # NoHop
       PROVE  /\ W(parent'[i], i) > 0
              /\ distance'[i] = distance'[parent'[i]] + W(parent'[i], i)
  <2>1. CASE Relaxes(m, i)
    BY <1>2, <1>6, <1>7, <2>1
  <2>2. CASE ~Relaxes(m, i)
    <3>1. /\ parent'[i] = parent[i] /\ distance'[i] = distance[i] /\ parent[i] \in visited
          /\ parent[i] \in visited'
      BY <1>2, <1>12, <2>2 DEF Tree
    <3>2. W(parent[i], i) > 0 /\ distance[i] = distance[parent[i]] + W(parent[i], i)
      BY <1>12, <3>1 DEF Nearest
    <3> QED BY <1>7, <3>1, <3>2
  <2> QED BY <2>1, <2>2
<1> QED
  BY <1>4, <1>9, <1>10, <1>11, <1>12 DEF Nearest

\* getRoute begins.
LEMMA StartTree ==
  ASSUME TypeOK, Start, weight' \in [Link -> 0..MaxWeight \cup {Failed}],
         \A l \in Link : weight'[l] \in {initWeight[l], Failed}, UNCHANGED <<initWeight, route>>
  PROVE  RouteInv'
<1>1. /\ running' = TRUE /\ overflow' = FALSE /\ visited' = {}
      /\ parent' = [i \in Key |-> NoHop]
      /\ distance' = [i \in Key |-> IF i = 0 THEN 0 ELSE IntMax]
  BY DEF Start
<1>2. 0 \in (-IntMax - 1)..IntMax /\ IntMax \in (-IntMax - 1)..IntMax /\ IntMax > 0 /\ 0 \in Key
  BY Bounds DEF Key
<1>3. distance' \in [Key -> (-IntMax - 1)..IntMax] /\ parent' \in [Key -> Key \cup {NoHop}]
  BY <1>1, <1>2
<1>4. TypeOK'
  BY <1>1, <1>3 DEF TypeOK
<1>5. Tree'
  BY <1>1, <1>2 DEF Tree
<1>6. Ranks'
  <2>1. [i \in Key |-> 0] \in [Key -> Nat] /\ Ranked([i \in Key |-> 0])'
    BY <1>1 DEF Ranked
  <2> QED BY <2>1 DEF Ranks
<1>7. Nearest'
  BY <1>1, <1>2 DEF Nearest
<1> QED
  BY <1>1, <1>4, <1>5, <1>6, <1>7 DEF RouteInv, Table

\* The first hop is a host, if there is one.
LEMMA FirstHopType ==
  ASSUME TypeOK, NEW i \in Key
  PROVE  FirstHop(i) \in Key \cup {NoHop}
<1>1. Ancestor(i) \in [0..N -> Key \cup {NoHop}]
  BY AncestorDef DEF TypeOK
<1>2. CASE \E k \in 0..(N - 1) : Ancestor(i)[k + 1] = 0
  <2>1. PICK c \in 0..(N - 1) :
          c = CHOOSE k \in 0..(N - 1) : Ancestor(i)[k + 1] = 0
    BY <1>2
  <2>2. c \in 0..N
    BY <2>1, Bounds
  <2> QED BY <1>1, <1>2, <2>1, <2>2 DEF FirstHop
<1>3. CASE ~\E k \in 0..(N - 1) : Ancestor(i)[k + 1] = 0
  BY <1>3 DEF FirstHop
<1> QED
  BY <1>2, <1>3

\* The table is built when no host is left to visit.
LEMMA FinishTable ==
  ASSUME RouteInv, Finish
  PROVE  RouteInv'
<1>1. /\ running' = FALSE /\ Candidates = {}
      /\ route' = [i \in Key |-> IF i \in visited \ {0} THEN FirstHop(i) ELSE NoHop]
      /\ UNCHANGED <<initWeight, weight, visited, parent, distance, overflow>>
  BY DEF Finish, mapVars
<1>2. TypeOK /\ Tree /\ Ranks /\ (~overflow => Nearest)
  BY DEF RouteInv
<1>3. TypeOK'
  <2>1. route' \in [Key -> Key \cup {NoHop}]
    BY <1>1, <1>2, FirstHopType
  <2> QED BY <1>1, <1>2, <2>1 DEF TypeOK
<1>4. Tree' /\ Ranks'
  BY <1>1, <1>2 DEF Tree, Ranks, Ranked
<1>5. Nearest' = Nearest
  BY <1>1 DEF Nearest, W
<1>6. Candidates' = Candidates /\ \A i : FirstHop(i)' = FirstHop(i)
  BY <1>1 DEF Candidates, FirstHop, Ancestor
<1>7. visited # {}
  <2>1. visited = {} => distance[0] = 0 /\ 0 \in Key /\ IntMax > 0
    BY <1>2, Bounds DEF Tree, Key
  <2> QED BY <1>1, <2>1 DEF Candidates
<1>8. Table'
  BY <1>1, <1>6, <1>7 DEF Table
<1> QED
  BY <1>1, <1>2, <1>3, <1>4, <1>5, <1>8 DEF RouteInv

\* Every step keeps the invariant.
LEMMA RouteStep ==
  ASSUME RouteInv, [Next]_vars
  PROVE  RouteInv'
<1>0. TypeOK /\ Tree /\ Ranks /\ Table /\ (~overflow => Nearest)
  BY DEF RouteInv
<1>1. ASSUME NEW l \in Link, SetMaxWeight(l) PROVE RouteInv'
  <2>1. weight' = [weight EXCEPT ![l] = Failed] /\ Start /\ UNCHANGED <<initWeight, route>>
    BY <1>1 DEF SetMaxWeight
  <2>2. /\ weight' \in [Link -> 0..MaxWeight \cup {Failed}]
        /\ \A k \in Link : weight'[k] \in {initWeight[k], Failed}
    BY <1>0, <2>1 DEF TypeOK
  <2> QED BY <1>0, <2>1, <2>2, StartTree
<1>2. ASSUME NEW l \in Link, SetInitWeight(l) PROVE RouteInv'
  <2>1. weight' = [weight EXCEPT ![l] = initWeight[l]] /\ Start /\ UNCHANGED <<initWeight, route>>
    BY <1>2 DEF SetInitWeight
  <2>2. /\ weight' \in [Link -> 0..MaxWeight \cup {Failed}]
        /\ \A k \in Link : weight'[k] \in {initWeight[k], Failed}
    BY <1>0, <2>1 DEF TypeOK
  <2> QED BY <1>0, <2>1, <2>2, StartTree
<1>3. CASE Visit
  <2>1. TypeOK' /\ Tree' /\ Ranks'
    BY <1>0, <1>3, VisitTree, VisitRanks
  <2>2. ~overflow' => ~overflow
    BY <1>0, <1>3 DEF Visit, TypeOK
  <2>3. ~overflow' => Nearest'
    BY <1>0, <1>3, <2>2, VisitNearest
  <2>4. Table'
    BY <1>3 DEF Visit, Table
  <2> QED BY <2>1, <2>3, <2>4 DEF RouteInv
<1>4. CASE Finish
  BY <1>4, FinishTable
<1>5. CASE UNCHANGED vars
  <2>1. UNCHANGED <<initWeight, weight, running, visited, parent, distance, overflow, route>>
    BY <1>5 DEF vars, mapVars
  <2>2. TypeOK' /\ Tree' /\ Ranks'
    BY <1>0, <2>1 DEF TypeOK, Tree, Ranks, Ranked
  <2>3. Candidates' = Candidates /\ \A i : FirstHop(i)' = FirstHop(i)
    BY <2>1 DEF Candidates, FirstHop, Ancestor
  <2>4. Table'
    BY <1>0, <2>1, <2>3 DEF Table
  <2>5. ~overflow' => Nearest'
    BY <1>0, <2>1 DEF Nearest, W
  <2> QED BY <2>2, <2>4, <2>5 DEF RouteInv
<1> QED
  BY <1>1, <1>2, <1>3, <1>4, <1>5 DEF Next

\* The first run of getRoute begins with it.
LEMMA RouteStarts ==
  ASSUME Init
  PROVE  RouteInv
<1>1. /\ initWeight \in [Link -> 0..MaxWeight] /\ weight = initWeight
      /\ running = TRUE /\ overflow = FALSE /\ visited = {}
      /\ parent = [i \in Key |-> NoHop] /\ route = [i \in Key |-> NoHop]
      /\ distance = [i \in Key |-> IF i = 0 THEN 0 ELSE IntMax]
  BY DEF Init
<1>2. 0 \in (-IntMax - 1)..IntMax /\ IntMax \in (-IntMax - 1)..IntMax /\ IntMax > 0 /\ 0 \in Key
  BY Bounds DEF Key
<1>3. distance \in [Key -> (-IntMax - 1)..IntMax] /\ parent \in [Key -> Key \cup {NoHop}]
  BY <1>1, <1>2
<1>4. TypeOK
  BY <1>1, <1>3 DEF TypeOK
<1>5. Tree
  BY <1>1, <1>2 DEF Tree
<1>6. Ranks
  <2>1. [i \in Key |-> 0] \in [Key -> Nat] /\ Ranked([i \in Key |-> 0])
    BY <1>1 DEF Ranked
  <2> QED BY <2>1 DEF Ranks
<1>7. Nearest
  BY <1>1, <1>2 DEF Nearest
<1> QED
  BY <1>1, <1>4, <1>5, <1>6, <1>7 DEF RouteInv, Table

-----------------------------------------------------------------------------
(* The way that the parents describe *)

\* From i to host 0 in K steps, and no further.
Way(i, K) ==
  LET anc == Ancestor(i) IN
  /\ K \in 0..(N - 1) /\ anc[0] = i /\ anc[K] = 0
  /\ \A k \in 0..K : anc[k] \in visited
  /\ \A k \in 0..(K - 1) : anc[k] # 0 /\ anc[k + 1] = parent[anc[k]] /\ anc[k + 1] \in visited
  /\ \A k \in (K + 1)..N : anc[k] = NoHop

\* The ranks fall along the parents, so the way ends at host 0 before they are used up.
LEMMA WayHome ==
  ASSUME TypeOK, Tree, Ranks, NEW i \in visited
  PROVE  \E K : Way(i, K)
<1>1. PICK anc : anc = Ancestor(i)
  OBVIOUS
<1>2. /\ anc \in [0..N -> Key \cup {NoHop}] /\ anc[0] = i
      /\ \A k \in 1..N : anc[k] = IF anc[k - 1] = NoHop THEN NoHop ELSE parent[anc[k - 1]]
  BY <1>1, AncestorDef DEF TypeOK
<1>3. N \in Nat \ {0} /\ 0 \in Key /\ NoHop \notin Key /\ visited \subseteq Key
  BY Bounds DEF Key, NoHop, TypeOK
<1>4. \A j \in visited \ {0} : parent[j] \in visited
  BY <1>3 DEF Tree
<1>5. PICK r \in [Key -> Nat] : Ranked(r)
  BY DEF Ranks
<1>6. Cardinality(visited) <= N /\ Cardinality(visited) \in Nat
  <2>1. IsFiniteSet(Key) /\ Cardinality(Key) = N
    <3>1. /\ 0 \in Int /\ N - 1 \in Int /\ 0 <= N - 1
      BY <1>3
    <3>2. IsFiniteSet(0..(N - 1)) /\ Cardinality(0..(N - 1)) = (N - 1) - 0 + 1
      BY <3>1, FS_Interval
    <3> QED BY <1>3, <3>2 DEF Key
  <2> QED BY <1>3, <2>1, FS_Subset, FS_CardinalityType
<1>7. r[i] \in 0..(N - 1) /\ \A j \in visited : r[j] \in Nat
  BY <1>3, <1>5, <1>6 DEF Ranked
<1> DEFINE Home == {k \in 0..r[i] : anc[k] = 0}
<1>8. Home # {}
  <2> SUFFICES ASSUME Home = {} PROVE FALSE
    OBVIOUS
  <2> DEFINE G == {k \in 0..r[i] : anc[k] \in visited \ {0} /\ r[anc[k]] + k <= r[i]}
  <2>1. 0 \in G
    BY <1>2, <1>7
  <2>2. ASSUME NEW k \in 1..r[i], k - 1 \in G PROVE k \in G
    <3>1. anc[k - 1] \in visited \ {0} /\ r[anc[k - 1]] + (k - 1) <= r[i]
      BY <2>2
    <3>2. k \in 1..N /\ anc[k] = parent[anc[k - 1]]
      BY <1>2, <1>3, <1>7, <3>1
    <3>3. anc[k] \in visited /\ r[anc[k]] < r[anc[k - 1]]
      BY <1>4, <1>5, <3>1, <3>2 DEF Ranked
    <3>4. anc[k] # 0
      OBVIOUS
    <3>5. r[anc[k]] \in Nat /\ r[anc[k - 1]] \in Nat
      BY <1>7, <3>1, <3>3
    <3>6. r[anc[k]] + k <= r[i]
      BY <1>7, <3>1, <3>3, <3>5
    <3> QED BY <3>3, <3>4, <3>6
  <2>3. \A k \in 0..r[i] : k \in G
    <3>1. r[i] \in Nat
      BY <1>7
    <3> HIDE DEF G
    <3> QED BY <2>1, <2>2, <3>1, StepByStep
  <2>4. anc[r[i]] \in visited \ {0} /\ r[anc[r[i]]] + r[i] <= r[i]
    BY <1>7, <2>3
  <2>5. r[parent[anc[r[i]]]] < r[anc[r[i]]]
    BY <1>5, <2>4 DEF Ranked
  <2>6. parent[anc[r[i]]] \in visited
    BY <1>4, <2>4
  <2>7. r[parent[anc[r[i]]]] \in Nat /\ r[anc[r[i]]] \in Nat
    BY <1>7, <2>4, <2>6
  <2> QED BY <1>7, <2>4, <2>5, <2>7
<1>9. PICK K \in Home : \A k \in Home : K <= k
  <2>1. Home \subseteq Nat
    BY <1>7
  <2> HIDE DEF Home
  <2> QED BY <1>8, <2>1, Least
<1>9a. K \in 0..r[i] /\ anc[K] = 0
  BY <1>9
<1>9b. \A k \in 0..r[i] : anc[k] = 0 => K <= k
  BY <1>9
<1> HIDE DEF Home
<1>9c. K \in Nat /\ K <= N - 1 /\ K <= r[i] /\ r[i] \in Nat /\ N \in Nat
  <2>1. r[i] \in 0..(N - 1)
    BY <1>7
  <2> QED BY ONLY <1>3, <1>9a, <2>1
<1>9d. \A k \in 0..(K - 1) : anc[k] # 0
  <2> SUFFICES ASSUME NEW k \in 0..(K - 1) PROVE anc[k] # 0
    OBVIOUS
  <2>1. k \in 0..r[i] /\ ~(K <= k)
    BY ONLY <1>9c, k \in 0..(K - 1)
  <2> QED BY <1>9b, <2>1
<1>10. K \in 0..(N - 1) /\ anc[K] = 0 /\ \A k \in 0..(K - 1) : anc[k] # 0
  <2>1. K \in 0..(N - 1)
    BY ONLY <1>9c
  <2> QED BY <1>9a, <1>9d, <2>1
<1>11. \A k \in 0..K : anc[k] \in visited
  <2> DEFINE G == {k \in 0..K : anc[k] \in visited}
  <2>1. 0 \in G
    <3>1. 0 \in 0..K
      BY ONLY <1>9c
    <3> QED BY <1>2, <3>1
  <2>2. ASSUME NEW k \in 1..K, k - 1 \in G PROVE k \in G
    <3>0. k - 1 \in 0..(K - 1) /\ k \in 1..N
      BY ONLY <1>9c, k \in 1..K
    <3>1. k - 1 \in 0..(K - 1) /\ k \in 1..N /\ anc[k - 1] \in visited
      BY <2>2, <3>0
    <3>2. anc[k - 1] \in visited \ {0} /\ anc[k] = parent[anc[k - 1]]
      BY <1>2, <1>3, <1>10, <3>1
    <3>3. k \in 0..K
      OBVIOUS
    <3> QED BY <1>4, <3>2, <3>3
  <2>3. \A k \in 0..K : k \in G
    <3>1. K \in Nat
      BY <1>10
    <3> HIDE DEF G
    <3> QED BY <2>1, <2>2, <3>1, StepByStep
  <2> QED BY <2>3
<1>12. \A k \in 0..(K - 1) : anc[k] # 0 /\ anc[k + 1] = parent[anc[k]] /\ anc[k + 1] \in visited
  <2> SUFFICES ASSUME NEW k \in 0..(K - 1)
               PROVE  anc[k] # 0 /\ anc[k + 1] = parent[anc[k]] /\ anc[k + 1] \in visited
    OBVIOUS
  <2>1. k \in 0..K /\ k + 1 \in 1..N /\ (k + 1) - 1 = k /\ k + 1 \in 0..K
    BY ONLY <1>9c, k \in 0..(K - 1)
  <2>2. anc[k] # 0 /\ anc[k] \in visited /\ anc[k + 1] \in visited
    BY <1>10, <1>11, <2>1
  <2>3. anc[k + 1] = IF anc[k] = NoHop THEN NoHop ELSE parent[anc[k]]
    BY <1>2, <2>1
  <2> QED BY <1>3, <2>2, <2>3
<1>13. \A k \in (K + 1)..N : anc[k] = NoHop
  <2> DEFINE G == {k \in 0..N : K < k => anc[k] = NoHop}
  <2>1. 0 \in G
    BY ONLY <1>9c
  <2>2. ASSUME NEW k \in 1..N, k - 1 \in G PROVE k \in G
    <3>1. anc[k] = IF anc[k - 1] = NoHop THEN NoHop ELSE parent[anc[k - 1]]
      BY <1>2
    <3>2. CASE K < k - 1
      <4>1. anc[k - 1] = NoHop
        BY <2>2, <3>2
      <4> QED BY <3>1, <4>1
    <3>3. CASE k - 1 = K
      <4>1. anc[k - 1] = 0 /\ parent[0] = NoHop /\ 0 # NoHop
        BY <1>10, <3>3 DEF Tree, NoHop
      <4> QED BY <3>1, <4>1
    <3>4. CASE ~(K < k)
      BY <3>4
    <3>5. K < k - 1 \/ k - 1 = K \/ ~(K < k)
      BY ONLY <1>9c, k \in 1..N
    <3> QED BY <3>2, <3>3, <3>4, <3>5
  <2>3. \A k \in 0..N : k \in G
    <3>1. N \in Nat
      BY <1>3
    <3> HIDE DEF G
    <3> QED BY <2>1, <2>2, <3>1, StepByStep
  <2>4. ASSUME NEW k \in (K + 1)..N PROVE anc[k] = NoHop
    <3>1. k \in 0..N /\ K < k
      BY ONLY <1>9c, k \in (K + 1)..N
    <3> QED BY <2>3, <3>1
  <2> QED BY <2>4
<1>14. Way(i, K)
  BY <1>1, <1>2, <1>10, <1>11, <1>12, <1>13 DEF Way
<1> QED
  BY <1>14

\* The first hop is the last host before host 0.
LEMMA FirstHopOnWay ==
  ASSUME NEW i \in visited \ {0}, NEW K, Way(i, K)
  PROVE  K >= 1 /\ FirstHop(i) = Ancestor(i)[K - 1]
<1>1. PICK anc : anc = Ancestor(i)
  OBVIOUS
<1>2. /\ K \in 0..(N - 1) /\ anc[0] = i /\ anc[K] = 0
      /\ \A k \in 0..(K - 1) : anc[k] # 0
      /\ \A k \in (K + 1)..N : anc[k] = NoHop
  BY <1>1 DEF Way
<1>3. K # 0
  BY <1>2
<1>4. N \in Nat /\ K - 1 \in 0..(N - 1) /\ anc[(K - 1) + 1] = 0 /\ NoHop # 0
  BY <1>2, <1>3, Bounds DEF NoHop
<1>5. ASSUME NEW k \in 0..(N - 1), anc[k + 1] = 0 PROVE k = K - 1
  <2>1. ~(k + 1 > K)
    BY <1>2, <1>4, <1>5
  <2>2. ~(k + 1 < K)
    BY <1>2, <1>4, <1>5
  <2> QED BY <1>2, <2>1, <2>2
<1>6. (CHOOSE k \in 0..(N - 1) : anc[k + 1] = 0) = K - 1
  <2> DEFINE c == CHOOSE k \in 0..(N - 1) : anc[k + 1] = 0
  <2>1. c \in 0..(N - 1) /\ anc[c + 1] = 0
    BY <1>4, Zenon
  <2> HIDE DEF c
  <2>2. c = K - 1
    BY <1>5, <2>1
  <2> QED BY <2>2 DEF c
<1>7. K >= 1
  BY <1>2, <1>3
<1>8. FirstHop(i) = anc[CHOOSE k \in 0..(N - 1) : anc[k + 1] = 0]
  BY <1>1, <1>4, Zenon DEF FirstHop
<1> QED
  BY <1>1, <1>6, <1>7, <1>8

\* Distances fall by the weights along the way.
LEMMA DistancesOnWay ==
  ASSUME TypeOK, Tree, Nearest, NEW i \in visited, NEW K, Way(i, K)
  PROVE  /\ \A k \in 0..(K - 1) :
              LET a == Ancestor(i)[k] b == Ancestor(i)[k + 1] IN
              W(b, a) > 0 /\ distance[a] = distance[b] + W(b, a)
         /\ \A k \in 0..K : distance[Ancestor(i)[k]] <= distance[i]
<1>1. PICK anc : anc = Ancestor(i)
  OBVIOUS
<1>2. /\ K \in Nat /\ anc[0] = i
      /\ \A k \in 0..K : anc[k] \in visited
      /\ \A k \in 0..(K - 1) : anc[k + 1] = parent[anc[k]] /\ anc[k + 1] \in visited
  BY <1>1, Bounds DEF Way
<1>3. /\ visited \subseteq Key /\ NoHop \notin Key
      /\ \A j \in Key : distance[j] \in Int
      /\ \A a, b \in Key : W(a, b) \in Nat
  <2>1. \A a, b \in Key : W(a, b) \in 0..Failed
    BY Weights
  <2> QED BY <2>1, Bounds DEF TypeOK, Key, NoHop
<1>4. ASSUME NEW k \in 0..(K - 1)
      PROVE  /\ W(anc[k + 1], anc[k]) > 0
             /\ distance[anc[k]] = distance[anc[k + 1]] + W(anc[k + 1], anc[k])
  <2>1. k \in 0..K
    BY <1>2
  <2>2. anc[k] \in Key /\ anc[k + 1] = parent[anc[k]] /\ parent[anc[k]] # NoHop
    BY <1>2, <1>3, <2>1
  <2> QED BY <2>2 DEF Nearest
<1> DEFINE G == {k \in 0..K : distance[anc[k]] <= distance[i]}
<1>5. 0 \in G
  BY <1>2, <1>3
<1>6. ASSUME NEW k \in 1..K, k - 1 \in G PROVE k \in G
  <2>1. k - 1 \in 0..(K - 1) /\ (k - 1) + 1 = k /\ k \in 0..K /\ k - 1 \in 0..K
    BY <1>2
  <2>2. distance[anc[k - 1]] = distance[anc[k]] + W(anc[k], anc[k - 1])
    BY <1>4, <2>1
  <2>3. anc[k] \in Key /\ anc[k - 1] \in Key /\ distance[anc[k - 1]] <= distance[i] /\ i \in Key
    BY <1>2, <1>3, <1>6, <2>1
  <2>4. distance[anc[k]] <= distance[i]
    BY <1>3, <2>2, <2>3
  <2> QED BY <2>1, <2>4
<1>7. \A k \in 0..K : k \in G
  <2> HIDE DEF G
  <2> QED BY <1>2, <1>5, <1>6, StepByStep
<1> QED
  BY <1>1, <1>4, <1>7

-----------------------------------------------------------------------------
(* The reference *)

\* One more link: what Best does from k - 1 to k.
Further(e) == [i \in Key |-> Min({e[i]} \cup {e[j] + W(j, i) : j \in {x \in Key : W(x, i) > 0}})]

Lengths == [Key -> 0..IntMax]
From(a) == [i \in Key |-> IF i = a THEN 0 ELSE IntMax]

\* One more link makes no length longer, uses every link, and invents none.
LEMMA FurtherDoes ==
  ASSUME TypeOK, NEW e \in Lengths, NEW i \in Key
  PROVE  /\ Further(e)[i] \in 0..IntMax /\ Further(e)[i] <= e[i]
         /\ \A j \in Key : W(j, i) > 0 => Further(e)[i] <= e[j] + W(j, i)
         /\ \/ Further(e)[i] = e[i]
            \/ \E j \in Key : W(j, i) > 0 /\ Further(e)[i] = e[j] + W(j, i)
<1> DEFINE T == {e[i]} \cup {e[j] + W(j, i) : j \in {x \in Key : W(x, i) > 0}}
<1>1. /\ IntMax \in Nat /\ \A j \in Key : e[j] \in 0..IntMax
      /\ \A j \in Key : W(j, i) \in Nat
  <2>1. \A j \in Key : W(j, i) \in 0..Failed
    BY Weights
  <2> QED BY <2>1, Bounds DEF Lengths
<1>2. T \subseteq Nat
  <2>1. \A j \in Key : e[j] + W(j, i) \in Nat
    BY <1>1
  <2> QED BY <1>1, <2>1
<1>3. e[i] \in T
  OBVIOUS
<1>4. \A j \in Key : W(j, i) > 0 => e[j] + W(j, i) \in T
  OBVIOUS
<1>5. \A x \in T : x = e[i] \/ \E j \in Key : W(j, i) > 0 /\ x = e[j] + W(j, i)
  OBVIOUS
<1>6. Further(e)[i] = Min(T)
  BY DEF Further
<1> HIDE DEF T
<1>7. Min(T) \in T /\ \A y \in T : Min(T) <= y
  BY <1>2, <1>3, LeastNumber
<1>8. Min(T) \in Nat /\ Min(T) <= e[i]
  BY <1>2, <1>3, <1>7
<1>9. Min(T) \in 0..IntMax
  <2> PICK t, u : t = Min(T) /\ u = e[i]
    OBVIOUS
  <2> QED BY <1>1, <1>8
<1> QED
  BY <1>4, <1>5, <1>6, <1>7, <1>8, <1>9

\* The lengths of the shortest ways from a with at most 0, 1 ... N - 1 links.
Ways(d, a) ==
  /\ \A k \in 0..(N - 1) : d[k] \in Lengths
  /\ d[0] = From(a)
  /\ \A k \in 1..(N - 1) : d[k] = Further(d[k - 1])

\* The recursive function in Best exists, and Best is its last value.
LEMMA BestDef ==
  ASSUME TypeOK, NEW a \in Key
  PROVE  \E d : Ways(d, a) /\ Best(a) = d[N - 1]
<1> DEFINE step == [e \in Lengths |-> Further(e)]
           f == [k \in 1..(N - 1) |-> step]
           Chain(h) == h = [k \in 0..(N - 1) |-> IF k = 0 THEN From(a) ELSE Further(h[k - 1])]
<1>1. N - 1 \in Nat
  BY Bounds
<1>2. \A e \in Lengths : Further(e) \in Lengths
  <2> SUFFICES ASSUME NEW e \in Lengths PROVE Further(e) \in Lengths
    OBVIOUS
  <2>1. \A i \in Key : Further(e)[i] \in 0..IntMax
    BY FurtherDoes
  <2>2. Further(e) = [i \in Key |-> Further(e)[i]]
    BY DEF Further
  <2> QED BY <2>1, <2>2 DEF Lengths
<1>3. f \in [1..(N - 1) -> [Lengths -> Lengths]]
  BY <1>2
<1>4. From(a) \in Lengths
  BY Bounds DEF From, Lengths
<1>5. PICK h : Iterated(h, N - 1, Lengths, From(a), f)
  <2> HIDE DEF f
  <2> QED BY <1>1, <1>3, <1>4, Iterates
<1>6. Chain(h)
  <2>1. ASSUME NEW k \in 0..(N - 1)
        PROVE  h[k] = IF k = 0 THEN From(a) ELSE Further(h[k - 1])
    <3>1. CASE k = 0
      BY <1>5, <3>1 DEF Iterated
    <3>2. CASE k # 0
      <4>1. k \in 1..(N - 1) /\ k - 1 \in 0..(N - 1)
        BY <1>1, <3>2
      <4>2. h[k] = f[k][h[k - 1]] /\ h[k - 1] \in Lengths
        BY <1>5, <4>1 DEF Iterated
      <4> QED BY <3>2, <4>2
    <3> QED BY <3>1, <3>2
  <2>2. h = [k \in 0..(N - 1) |-> h[k]]
    BY <1>5 DEF Iterated
  <2> QED BY <2>1, <2>2
<1>7. PICK d : d = CHOOSE g : Chain(g)
  OBVIOUS
<1>8. Chain(d)
  BY <1>6, <1>7
<1>9. Best(a) = d[N - 1]
  BY <1>7 DEF Best, From, Further
<1>10. d[0] = From(a) /\ \A k \in 1..(N - 1) : d[k] = Further(d[k - 1])
  <2>1. 0 \in 0..(N - 1)
    BY <1>1
  <2>2. \A k \in 1..(N - 1) : k \in 0..(N - 1) /\ k # 0
    BY <1>1
  <2> QED BY <1>8, <2>1, <2>2
<1>11. \A k \in 0..(N - 1) : d[k] \in Lengths
  <2> DEFINE G == {k \in 0..(N - 1) : d[k] \in Lengths}
  <2>1. 0 \in G
    BY <1>1, <1>4, <1>10
  <2>2. ASSUME NEW k \in 1..(N - 1), k - 1 \in G PROVE k \in G
    <3>1. d[k] = Further(d[k - 1]) /\ d[k - 1] \in Lengths /\ k \in 0..(N - 1)
      BY <1>10, <2>2
    <3> QED BY <1>2, <3>1
  <2>3. \A k \in 0..(N - 1) : k \in G
    <3> HIDE DEF G
    <3> QED BY <1>1, <2>1, <2>2, StepByStep
  <2> QED BY <2>3
<1>12. Ways(d, a)
  BY <1>10, <1>11 DEF Ways
<1> QED
  BY <1>9, <1>12

\* What Connected does with one more link.
Neighbours(r, links) == r \cup {j \in Key : \E i \in r : i # j /\ LinkOf(i, j) \in links}

\* The hosts that at most 0, 1 ... N - 1 links connect to a.
Reaches(r, a, links) ==
  /\ \A k \in 0..(N - 1) : r[k] \subseteq Key
  /\ r[0] = {a}
  /\ \A k \in 1..(N - 1) : r[k] = Neighbours(r[k - 1], links)

\* The same for Connected.
LEMMA ConnectedDef ==
  ASSUME NEW a \in Key, NEW b \in Key, NEW links
  PROVE  \E r : Reaches(r, a, links) /\ (Connected(a, b, links) <=> b \in r[N - 1])
<1> DEFINE S == SUBSET Key
           step == [s \in S |-> Neighbours(s, links)]
           f == [k \in 1..(N - 1) |-> step]
           Chain(h) == h = [k \in 0..(N - 1) |-> IF k = 0 THEN {a} ELSE Neighbours(h[k - 1], links)]
<1>1. N - 1 \in Nat
  BY Bounds
<1>2. \A s \in S : Neighbours(s, links) \in S
  BY DEF Neighbours
<1>3. f \in [1..(N - 1) -> [S -> S]]
  BY <1>2
<1>4. {a} \in S
  OBVIOUS
<1>5. PICK h : Iterated(h, N - 1, S, {a}, f)
  <2> HIDE DEF S, f
  <2> QED BY <1>1, <1>3, <1>4, Iterates
<1>6. Chain(h)
  <2>1. ASSUME NEW k \in 0..(N - 1)
        PROVE  h[k] = IF k = 0 THEN {a} ELSE Neighbours(h[k - 1], links)
    <3>1. CASE k = 0
      BY <1>5, <3>1 DEF Iterated
    <3>2. CASE k # 0
      <4>1. k \in 1..(N - 1) /\ k - 1 \in 0..(N - 1)
        BY <1>1, <3>2
      <4>2. h[k] = f[k][h[k - 1]] /\ h[k - 1] \in S
        BY <1>5, <4>1 DEF Iterated
      <4> QED BY <3>2, <4>2
    <3> QED BY <3>1, <3>2
  <2>2. h = [k \in 0..(N - 1) |-> h[k]]
    BY <1>5 DEF Iterated
  <2> QED BY <2>1, <2>2
<1>7. PICK r : r = CHOOSE g : Chain(g)
  OBVIOUS
<1>8. Chain(r)
  BY <1>6, <1>7
<1>9. Connected(a, b, links) <=> b \in r[N - 1]
  BY <1>7 DEF Connected, Neighbours
<1>10. r[0] = {a} /\ \A k \in 1..(N - 1) : r[k] = Neighbours(r[k - 1], links)
  <2>1. 0 \in 0..(N - 1)
    BY <1>1
  <2>2. \A k \in 1..(N - 1) : k \in 0..(N - 1) /\ k # 0
    BY <1>1
  <2> QED BY <1>8, <2>1, <2>2
<1>11. \A k \in 0..(N - 1) : r[k] \in S
  <2> DEFINE G == {k \in 0..(N - 1) : r[k] \in S}
  <2>1. 0 \in G
    BY <1>1, <1>4, <1>10
  <2>2. ASSUME NEW k \in 1..(N - 1), k - 1 \in G PROVE k \in G
    <3>1. r[k] = Neighbours(r[k - 1], links) /\ r[k - 1] \in S /\ k \in 0..(N - 1)
      BY <1>10, <2>2
    <3> QED BY <1>2, <3>1
  <2>3. \A k \in 0..(N - 1) : k \in G
    <3> HIDE DEF G
    <3> QED BY <1>1, <2>1, <2>2, StepByStep
  <2> QED BY <2>3
<1>12. Reaches(r, a, links)
  BY <1>10, <1>11 DEF Reaches
<1> QED
  BY <1>9, <1>12

-----------------------------------------------------------------------------
(* The table of a run without overflow *)

\* getRoute has ended, and no sum overflowed.
Done == RouteInv /\ ~running /\ ~overflow

\* The run has ended: no link is a short cut any more, not even from a host that

\* was not reached.
LEMMA NoShortCut ==
  ASSUME Done
  PROVE  /\ \A i \in Key : distance[i] \in 0..IntMax
         /\ \A i \in Key : i \in visited <=> distance[i] < IntMax
         /\ \A i, j \in Key : W(i, j) > 0 => distance[j] <= distance[i] + W(i, j)
         /\ 0 \in visited /\ distance[0] = 0
<1>1. TypeOK /\ Tree /\ Nearest /\ Candidates = {} /\ visited # {}
  BY DEF Done, RouteInv, Table
<1>2. \A i \in Key : distance[i] \in 0..IntMax
  BY <1>1, Bounds DEF TypeOK, Nearest
<1>3. \A i \in Key : i \notin visited => ~(distance[i] < IntMax)
  BY <1>1 DEF Candidates
<1>4. \A i \in visited : distance[i] < IntMax
  BY <1>1 DEF Tree
<1>5. ASSUME NEW i \in Key, NEW j \in Key, W(i, j) > 0 PROVE distance[j] <= distance[i] + W(i, j)
  <2>1. CASE i \in visited
    BY <1>1, <1>5, <2>1 DEF Nearest
  <2>2. CASE i \notin visited
    <3>1. distance[i] = IntMax /\ distance[j] \in 0..IntMax /\ IntMax \in Nat
      BY <1>2, <1>3, <2>2, Bounds
    <3>2. W(i, j) \in 0..Failed /\ Failed \in Nat
      BY <1>1, Weights, Bounds
    <3> QED BY <3>1, <3>2
  <2> QED BY <2>1, <2>2
<1>6. 0 \in visited /\ distance[0] = 0
  BY <1>1 DEF Tree
<1> QED
  BY <1>2, <1>3, <1>4, <1>5, <1>6

\* No way from a is shorter than the difference of the distances.
LEMMA NoWayIsShorter ==
  ASSUME Done, NEW a \in Key, NEW i \in Key
  PROVE  Best(a)[i] \in 0..IntMax /\ distance[i] <= Best(a)[i] + distance[a]
<1>1. TypeOK /\ N - 1 \in Nat /\ IntMax \in Nat
  BY Bounds DEF Done, RouteInv
<1>2. PICK d : Ways(d, a) /\ Best(a) = d[N - 1]
  BY <1>1, BestDef
<1>3. \A j \in Key : distance[j] \in 0..IntMax
  BY NoShortCut
<1>4. \A j, k \in Key : W(j, k) \in Nat
  <2>1. \A j, k \in Key : W(j, k) \in 0..Failed
    BY <1>1, Weights
  <2> QED BY <2>1, Bounds
<1> DEFINE G == {k \in 0..(N - 1) : \A j \in Key : distance[j] <= d[k][j] + distance[a]}
<1>5. 0 \in G
  <2>1. ASSUME NEW j \in Key PROVE distance[j] <= d[0][j] + distance[a]
    <3>1. d[0][j] = IF j = a THEN 0 ELSE IntMax
      BY <1>2 DEF Ways, From
    <3> QED BY <1>1, <1>3, <3>1
  <2> QED BY <1>1, <2>1
<1>6. ASSUME NEW k \in 1..(N - 1), k - 1 \in G PROVE k \in G
  <2>1. k - 1 \in 0..(N - 1) /\ k \in 0..(N - 1)
    BY <1>1
  <2>2. PICK e : e = d[k - 1] /\ e \in Lengths /\ d[k] = Further(e)
    BY <1>2, <2>1 DEF Ways
  <2>3. \A j \in Key : distance[j] <= e[j] + distance[a] /\ e[j] \in 0..IntMax
    BY <1>6, <2>2 DEF Lengths
  <2>4. ASSUME NEW j \in Key PROVE distance[j] <= Further(e)[j] + distance[a]
    <3>1. CASE Further(e)[j] = e[j]
      BY <2>3, <3>1
    <3>2. ASSUME NEW l \in Key, W(l, j) > 0, Further(e)[j] = e[l] + W(l, j)
          PROVE  distance[j] <= Further(e)[j] + distance[a]
      <4>1. PICK x, y, w, z, u : x = distance[j] /\ y = distance[l] /\ w = W(l, j)
                                 /\ z = e[l] /\ u = distance[a]
        OBVIOUS
      <4>2. x <= y + w /\ y <= z + u
        BY <2>3, <3>2, <4>1, NoShortCut
      <4>3. x \in Nat /\ y \in Nat /\ w \in Nat /\ z \in Nat /\ u \in Nat
        BY <1>1, <1>3, <1>4, <2>3, <4>1
      <4>4. x <= (z + w) + u
        BY ONLY <4>2, <4>3
      <4> QED BY <3>2, <4>1, <4>4
    <3> QED BY <1>1, <2>2, <3>1, <3>2, FurtherDoes
  <2> QED BY <2>1, <2>2, <2>4
<1>7. \A k \in 0..(N - 1) : k \in G
  <2> HIDE DEF G
  <2> QED BY <1>1, <1>5, <1>6, StepByStep
<1>8. N - 1 \in 0..(N - 1)
  BY <1>1
<1>9. distance[i] <= d[N - 1][i] + distance[a]
  BY <1>7, <1>8
<1>10. d[N - 1][i] \in 0..IntMax
  BY <1>2, <1>8 DEF Ways, Lengths
<1> QED
  BY <1>2, <1>9, <1>10

\* The way that the parents describe is one of that length, from every host on it.
LEMMA WayIsShortest ==
  ASSUME Done, NEW i \in visited, NEW K, Way(i, K), NEW m \in 0..K
  PROVE  /\ Ancestor(i)[m] \in Key
         /\ Best(Ancestor(i)[m])[i] + distance[Ancestor(i)[m]] = distance[i]
<1>1. TypeOK /\ Tree /\ Nearest /\ N - 1 \in Nat /\ IntMax \in Nat /\ visited \subseteq Key
  BY Bounds DEF Done, RouteInv, TypeOK
<1>2. PICK anc, a : anc = Ancestor(i) /\ a = anc[m]
  OBVIOUS
<1>3. K \in Nat /\ K <= N - 1 /\ m \in Nat /\ m <= K /\ m \in 0..(N - 1) /\ anc[0] = i
  <2>1. K \in 0..(N - 1) /\ anc[0] = i
    BY <1>2 DEF Way
  <2> QED BY ONLY <1>1, <2>1, m \in 0..K
<1>4. \A k \in 0..K : anc[k] \in Key
  BY <1>1, <1>2 DEF Way
<1>5. \A k \in 0..(K - 1) : /\ W(anc[k + 1], anc[k]) > 0
                            /\ distance[anc[k]] = distance[anc[k + 1]] + W(anc[k + 1], anc[k])
  BY <1>1, <1>2, DistancesOnWay
<1>6. a \in Key
  BY <1>2, <1>4
<1>7. PICK d : Ways(d, a) /\ Best(a) = d[N - 1]
  BY <1>1, <1>6, BestDef
<1>8. \A j \in Key : distance[j] \in 0..IntMax
  BY NoShortCut
<1>9. \A j, k \in Key : W(j, k) \in Nat
  <2>1. \A j, k \in Key : W(j, k) \in 0..Failed
    BY <1>1, Weights
  <2> QED BY <2>1, Bounds
<1> DEFINE Short(k, j) == d[k][j] + distance[a] <= distance[j]
           G == {k \in 0..m : Short(k, anc[m - k])}
           H == {k \in 0..(N - 1) : m <= k => Short(k, i)}
<1>10. \A k \in 1..(N - 1), j \in Key :
         /\ d[k - 1][j] \in Nat /\ d[k][j] \in Nat /\ d[k][j] <= d[k - 1][j]
         /\ \A l \in Key : W(l, j) > 0 => d[k][j] <= d[k - 1][l] + W(l, j)
  <2> SUFFICES ASSUME NEW k \in 1..(N - 1), NEW j \in Key
               PROVE  /\ d[k - 1][j] \in Nat /\ d[k][j] \in Nat /\ d[k][j] <= d[k - 1][j]
                      /\ \A l \in Key : W(l, j) > 0 => d[k][j] <= d[k - 1][l] + W(l, j)
    OBVIOUS
  <2>1. k - 1 \in 0..(N - 1)
    BY <1>1
  <2>2. PICK e : e = d[k - 1] /\ e \in Lengths /\ d[k] = Further(e)
    BY <1>7, <2>1 DEF Ways
  <2>3. e[j] \in Nat
    BY <1>1, <2>2 DEF Lengths
  <2> QED BY <1>1, <2>2, <2>3, FurtherDoes
<1>11. 0 \in G
  <2>1. d[0][a] = 0
    BY <1>6, <1>7 DEF Ways, From
  <2>2. 0 \in 0..m /\ m - 0 = m
    BY <1>3
  <2>3. Short(0, a)
    BY <1>6, <1>8, <2>1
  <2> QED BY <1>2, <2>2, <2>3
<1>12. ASSUME NEW k \in 1..m, k - 1 \in G PROVE k \in G
  <2>1. /\ k \in 0..m /\ k \in 1..(N - 1) /\ m - k \in 0..(K - 1)
        /\ (m - k) + 1 = m - (k - 1) /\ m - k \in 0..K /\ m - (k - 1) \in 0..K
    BY ONLY <1>1, <1>3, k \in 1..m
  <2>2. PICK x, y : x = anc[m - k] /\ y = anc[m - (k - 1)]
    OBVIOUS
  <2>3. x \in Key /\ y \in Key
    BY <1>4, <2>1, <2>2
  <2>4. W(y, x) > 0 /\ distance[x] = distance[y] + W(y, x)
    BY <1>5, <2>1, <2>2
  <2>5. d[k - 1][y] + distance[a] <= distance[y]
    BY <1>12, <2>2
  <2>6. d[k][x] <= d[k - 1][y] + W(y, x)
    BY <1>10, <2>1, <2>3, <2>4
  <2>7. /\ d[k - 1][y] \in Nat /\ d[k][x] \in Nat
        /\ distance[a] \in Nat /\ distance[x] \in Nat /\ distance[y] \in Nat /\ W(y, x) \in Nat
    BY <1>1, <1>6, <1>8, <1>9, <1>10, <2>1, <2>3
  <2>8. d[k][x] + distance[a] <= distance[x]
    BY ONLY <2>4, <2>5, <2>6, <2>7
  <2> QED BY <2>1, <2>2, <2>8
<1>13. \A k \in 0..m : k \in G
  <2> HIDE DEF G
  <2> QED BY <1>3, <1>11, <1>12, StepByStep
<1>14. Short(m, i)
  <2>1. m \in 0..m /\ m - m = 0
    BY <1>3
  <2> QED BY <1>3, <1>13, <2>1
<1>15. 0 \in H
  <2>1. m <= 0 => m = 0
    BY <1>3
  <2> QED BY <1>1, <1>14, <2>1
<1>16. ASSUME NEW k \in 1..(N - 1), k - 1 \in H PROVE k \in H
  <2>1. k \in 0..(N - 1) /\ (m <= k => m = k \/ m <= k - 1)
    BY <1>1, <1>3
  <2>2. ASSUME m <= k - 1 PROVE Short(k, i)
    <3>1. d[k - 1][i] + distance[a] <= distance[i]
      BY <1>16, <2>2
    <3>2. i \in Key
      BY <1>1
    <3>3. d[k][i] <= d[k - 1][i] /\ d[k][i] \in Nat /\ d[k - 1][i] \in Nat
      BY <1>10, <3>2
    <3>4. distance[a] \in Nat /\ distance[i] \in Nat
      BY <1>6, <1>8, <3>2
    <3> QED BY <3>1, <3>3, <3>4
  <2> QED BY <1>14, <2>1, <2>2
<1>17. \A k \in 0..(N - 1) : k \in H
  <2> HIDE DEF H
  <2> QED BY <1>1, <1>15, <1>16, StepByStep
<1>18. N - 1 \in 0..(N - 1) /\ m <= N - 1
  BY <1>1, <1>3
<1>19. Best(a)[i] + distance[a] <= distance[i]
  BY <1>7, <1>17, <1>18
<1>20. Best(a)[i] \in 0..IntMax /\ distance[i] <= Best(a)[i] + distance[a]
  BY <1>1, <1>6, NoWayIsShorter
<1>21. distance[i] \in 0..IntMax /\ distance[a] \in 0..IntMax
  BY <1>1, <1>6, <1>8
<1>22. Best(a)[i] + distance[a] = distance[i]
  <2> PICK x, y, z : x = Best(a)[i] /\ y = distance[a] /\ z = distance[i]
    OBVIOUS
  <2>1. x + y <= z /\ z <= x + y /\ x \in Nat /\ y \in Nat /\ z \in Nat
    BY <1>1, <1>19, <1>20, <1>21
  <2>2. x + y = z
    BY ONLY <2>1
  <2> QED BY <2>2
<1> QED
  BY <1>2, <1>6, <1>22

\* A host that working links connect to host 0 is near.
LEMMA ConnectedIsNear ==
  ASSUME Done, NEW i \in Key, Connected(0, i, Alive)
  PROVE  distance[i] < Failed
<1>1. /\ TypeOK /\ N - 1 \in Nat /\ MaxWeight \in Nat /\ 0 \in Key
      /\ (N - 1) * MaxWeight < Failed /\ (N - 1) * MaxWeight \in Nat /\ Failed \in Nat
  BY Bounds DEF Done, RouteInv, Key
<1>2. PICK r : Reaches(r, 0, Alive) /\ (Connected(0, i, Alive) <=> i \in r[N - 1])
  BY <1>1, ConnectedDef
<1>3. \A j \in Key : distance[j] \in Nat
  BY NoShortCut, Bounds
<1> DEFINE G == {k \in 0..(N - 1) : \A j \in r[k] : distance[j] <= k * MaxWeight}
<1>4. 0 \in G
  <2>1. r[0] = {0} /\ distance[0] = 0
    BY <1>2, NoShortCut DEF Reaches
  <2>2. 0 * MaxWeight = 0 /\ 0 \in 0..(N - 1)
    BY <1>1
  <2> QED BY <2>1, <2>2
<1>5. ASSUME NEW k \in 1..(N - 1), k - 1 \in G PROVE k \in G
  <2>1. k - 1 \in 0..(N - 1) /\ k \in 0..(N - 1) /\ k \in Nat
    BY <1>1
  <2>2. r[k] = Neighbours(r[k - 1], Alive) /\ r[k - 1] \subseteq Key
    BY <1>2, <2>1 DEF Reaches
  <2>3. k * MaxWeight = (k - 1) * MaxWeight + MaxWeight /\ (k - 1) * MaxWeight \in Int
    BY <1>1, <2>1
  <2>4. ASSUME NEW j \in r[k] PROVE distance[j] <= k * MaxWeight
    <3>1. CASE j \in r[k - 1]
      <4>1. distance[j] <= (k - 1) * MaxWeight /\ distance[j] \in Nat
        BY <1>3, <1>5, <2>2, <3>1
      <4> QED BY <1>1, <2>3, <4>1
    <3>2. ASSUME NEW l \in r[k - 1], j \in Key, l # j, LinkOf(l, j) \in Alive
          PROVE  distance[j] <= k * MaxWeight
      <4>1. l \in Key
        BY <2>2
      <4>2. W(l, j) \in 1..MaxWeight
        BY <3>2 DEF W, Alive
      <4>3. distance[l] <= (k - 1) * MaxWeight
        BY <1>5
      <4>4. distance[j] <= distance[l] + W(l, j)
        BY <1>1, <3>2, <4>1, <4>2, NoShortCut
      <4>5. distance[j] \in Nat /\ distance[l] \in Nat
        BY <1>3, <3>2, <4>1
      <4>6. PICK p, q : p = (k - 1) * MaxWeight /\ q = k * MaxWeight
        OBVIOUS
      <4>7. q = p + MaxWeight /\ p \in Int
        BY <2>3, <4>6
      <4>8. distance[j] <= q
        BY ONLY <1>1, <4>2, <4>3, <4>4, <4>5, <4>6, <4>7
      <4> QED BY <4>6, <4>8
    <3> QED BY <2>2, <3>1, <3>2 DEF Neighbours
  <2> QED BY <2>1, <2>4
<1>6. \A k \in 0..(N - 1) : k \in G
  <2> HIDE DEF G
  <2> QED BY <1>1, <1>4, <1>5, StepByStep
<1>7. N - 1 \in 0..(N - 1)
  BY <1>1
<1>8. distance[i] <= (N - 1) * MaxWeight
  BY <1>2, <1>6, <1>7
<1>9. distance[i] \in Nat
  BY <1>3
<1> QED
  BY <1>1, <1>8, <1>9

\* A failed link is longer than the whole path of a connected host.
LEMMA PathsAvoidFailedLinks ==
  ASSUME Done
  PROVE  AvoidsFailedLinks
<1> SUFFICES ASSUME NEW i \in visited \ {0}, Connected(0, i, Alive), NEW k \in 0..(N - 2),
                    Ancestor(i)[k] # NoHop, Ancestor(i)[k + 1] # NoHop
             PROVE  LinkOf(Ancestor(i)[k], Ancestor(i)[k + 1]) \in Alive
  BY Zenon DEF AvoidsFailedLinks
<1>1. TypeOK /\ Tree /\ Ranks /\ Nearest /\ visited \subseteq Key /\ N \in Nat
  BY Bounds DEF Done, RouteInv, TypeOK
<1>2. PICK K : Way(i, K)
  BY <1>1, WayHome
<1>3. PICK a, b : a = Ancestor(i)[k] /\ b = Ancestor(i)[k + 1]
  OBVIOUS
<1>4. k \in 0..(K - 1) /\ k \in 0..K
  <2>1. K \in 0..(N - 1) /\ ~(k + 1 \in (K + 1)..N)
    BY <1>2 DEF Way
  <2> QED BY ONLY <1>1, <2>1, k \in 0..(N - 2)
<1>5. a \in Key /\ b \in Key
  BY <1>1, <1>2, <1>3, <1>4 DEF Way
<1>6. W(b, a) > 0 /\ distance[a] = distance[b] + W(b, a) /\ distance[a] <= distance[i]
  BY <1>1, <1>2, <1>3, <1>4, DistancesOnWay
<1>7. distance[i] < Failed
  BY <1>1, ConnectedIsNear
<1>8. distance[a] \in Nat /\ distance[b] \in Nat /\ distance[i] \in Nat /\ Failed \in Nat
  BY <1>1, <1>5, NoShortCut, Bounds
<1>9. W(b, a) = W(a, b) /\ W(b, a) \in 0..Failed /\ W(b, a) \in 0..MaxWeight \cup {Failed}
  BY <1>1, <1>5, Weights
<1>10. W(b, a) < Failed
  BY <1>6, <1>7, <1>8, <1>9
<1>11. W(a, b) > 0 /\ W(a, b) \in 1..MaxWeight
  BY <1>6, <1>9, <1>10, Bounds
<1>12. LinkOf(a, b) \in Link /\ W(a, b) = weight[LinkOf(a, b)]
  BY <1>1, <1>5, <1>11, Weights
<1> QED
  BY <1>3, <1>11, <1>12 DEF Alive

\* The loop that follows the parents ends.
LEMMA ParentsDoLeadHome ==
  ASSUME TypeOK, Tree, Ranks
  PROVE  ParentsLeadHome
<1> SUFFICES ASSUME NEW i \in visited
             PROVE  \E k \in 0..(N - 1) : Ancestor(i)[k] = 0 /\ Ancestor(i)[k + 1] = NoHop
  BY DEF ParentsLeadHome
<1>1. PICK K : Way(i, K)
  BY WayHome
<1>2. K \in 0..(N - 1) /\ Ancestor(i)[K] = 0 /\ \A k \in (K + 1)..N : Ancestor(i)[k] = NoHop
  BY <1>1 DEF Way
<1>3. K + 1 \in (K + 1)..N
  BY <1>2, Bounds
<1> QED
  BY <1>2, <1>3

\* The entry of a host in the table.
LEMMA EntryIsShortest ==
  ASSUME Done, NEW i \in Key \ {0}
  PROVE  IF Best(0)[i] = IntMax
         THEN route[i] = NoHop
         ELSE /\ route[i] # NoHop /\ W(0, route[i]) > 0
              /\ W(0, route[i]) + Best(route[i])[i] = Best(0)[i]
<1>1. /\ TypeOK /\ Tree /\ Ranks /\ Nearest /\ visited \subseteq Key /\ 0 \in Key
      /\ NoHop \notin Key /\ N \in Nat /\ IntMax \in Nat
      /\ route = [j \in Key |-> IF j \in visited \ {0} THEN FirstHop(j) ELSE NoHop]
  BY Bounds DEF Done, RouteInv, Table, TypeOK, Key, NoHop
<1>2. /\ \A j \in Key : distance[j] \in 0..IntMax
      /\ \A j \in Key : j \in visited <=> distance[j] < IntMax
      /\ distance[0] = 0
  BY NoShortCut
<1>3. CASE i \notin visited
  <2>1. distance[i] = IntMax
    BY <1>1, <1>2, <1>3
  <2>2. Best(0)[i] \in 0..IntMax /\ distance[i] <= Best(0)[i] + distance[0]
    BY <1>1, NoWayIsShorter
  <2>3. Best(0)[i] = IntMax
    BY <1>1, <1>2, <2>1, <2>2
  <2>4. route[i] = NoHop
    BY <1>1, <1>3
  <2> QED BY <2>3, <2>4
<1>4. CASE i \in visited
  <2>1. PICK K : Way(i, K)
    BY <1>1, <1>4, WayHome
  <2>2. PICK h : h = Ancestor(i)[K - 1]
    OBVIOUS
  <2>3. K >= 1 /\ route[i] = h
    BY <1>1, <1>4, <2>1, <2>2, FirstHopOnWay
  <2>4. K \in Nat /\ K - 1 \in 0..K /\ K \in 0..K /\ K - 1 \in 0..(K - 1) /\ (K - 1) + 1 = K
    <3>1. K \in 0..(N - 1)
      BY <2>1 DEF Way
    <3> QED BY <1>1, <2>3, <3>1
  <2>5. Ancestor(i)[K] = 0
    BY <2>1 DEF Way
  <2>6. Best(0)[i] + distance[0] = distance[i]
    BY <1>4, <2>1, <2>4, <2>5, WayIsShortest
  <2>7. h \in Key /\ Best(h)[i] + distance[h] = distance[i]
    BY <1>4, <2>1, <2>2, <2>4, WayIsShortest
  <2>8. W(0, h) > 0 /\ distance[h] = distance[0] + W(0, h)
    BY <1>1, <1>4, <2>1, <2>2, <2>4, <2>5, DistancesOnWay
  <2>9. Best(0)[i] \in 0..IntMax /\ Best(h)[i] \in 0..IntMax
    BY <1>1, <2>7, NoWayIsShorter
  <2>10. W(0, h) \in 0..Failed /\ Failed \in Nat
    BY <1>1, <2>7, Weights, Bounds
  <2>11. distance[i] \in 0..IntMax /\ distance[i] < IntMax /\ distance[h] \in 0..IntMax
    BY <1>2, <1>4, <2>7
  <2>12. Best(0)[i] < IntMax /\ W(0, h) + Best(h)[i] = Best(0)[i]
    <3> PICK u, v, x, y, w : /\ u = Best(0)[i] /\ v = Best(h)[i]
                             /\ x = distance[i] /\ y = distance[h] /\ w = W(0, h)
      OBVIOUS
    <3>1. u \in Nat /\ v \in Nat /\ x \in Nat /\ y \in Nat /\ w \in Nat
      BY <1>1, <2>9, <2>10, <2>11
    <3>2. u + 0 = x /\ v + y = x /\ y = 0 + w /\ x < IntMax
      BY <1>2, <2>6, <2>7, <2>8, <2>11
    <3>3. u < IntMax /\ w + v = u
      BY ONLY <1>1, <3>1, <3>2
    <3> QED BY <3>3
  <2>13. Best(0)[i] # IntMax
    BY <1>1, <2>9, <2>12
  <2> QED BY <1>1, <2>3, <2>7, <2>8, <2>12, <2>13
<1> QED
  BY <1>3, <1>4

\* The invariant says what the property asks.
LEMMA RouteSafe ==
  ASSUME RouteInv
  PROVE  RouteIsShortest
<1>1. TypeOK /\ Tree /\ Ranks
  BY DEF RouteInv
<1>2. ParentsLeadHome
  BY <1>1, ParentsDoLeadHome
<1>3. ASSUME ~running, ~overflow
      PROVE  /\ AvoidsFailedLinks
             /\ \A i \in Key \ {0} :
                  LET best == Best(0)[i] IN
                  IF best = IntMax
                  THEN route[i] = NoHop
                  ELSE /\ route[i] # NoHop
                       /\ W(0, route[i]) > 0
                       /\ W(0, route[i]) + Best(route[i])[i] = best
  <2>1. Done
    BY <1>3 DEF Done
  <2>2. AvoidsFailedLinks
    BY <2>1, PathsAvoidFailedLinks
  <2> QED BY <2>1, <2>2, EntryIsShortest
<1> QED
  BY <1>1, <1>2, <1>3 DEF RouteIsShortest

\* The table getRoute builds (Map.cpp:77-121): the parents lead from every visited

\* host to host 0 whatever the sums overflow to, and without overflow every entry is
\* the first hop of a shortest path and no failed link is used while a working path
\* is there, for every number of hosts, every map and every width of an int that
\* RouteAssumption admits.
THEOREM RouteCorrect == Spec => []RouteIsShortest
<1>1. Init => RouteInv
  BY RouteStarts
<1>2. RouteInv /\ [Next]_vars => RouteInv'
  BY RouteStep
<1>3. RouteInv => RouteIsShortest
  BY RouteSafe
<1> QED
  BY <1>1, <1>2, <1>3, PTL DEF Spec

-----------------------------------------------------------------------------
(* The time slots (SlotClock): two stations never transmit at once, for any number
   of stations, any slot and window, any clocks and any drain that ClockAssumption
   admits. *)

\* The slot of a larger number begins where this one ends, or later.
LEMMA Later ==
  ASSUME NEW a \in Int, NEW b \in Int, NEW L \in Nat, a < b
  PROVE  L * a + L <= L * b
<1>1. PICK d \in Nat : b = a + 1 + d
  <2> WITNESS b - a - 1 \in Nat
  <2> QED OBVIOUS
<1>2. L * b = L * a + L + L * d
  BY <1>1
<1>3. L * d >= 0
  OBVIOUS
<1> QED
  BY <1>2, <1>3

\* The slot a number stands for ends where the next one begins.
LEMMA Division ==
  ASSUME NEW a \in Int, NEW L \in Int, a >= 0, L > 0
  PROVE  \E q \in Nat, r \in 0 .. L - 1 : q = a \div L /\ r = a % L /\ a = L * q + r
<1>1. PICK q \in Int, r \in 0 .. L - 1 : q = a \div L /\ r = a % L /\ a = L * q + r
  OBVIOUS
<1>2. q >= 0
  <2> SUFFICES ASSUME q < 0 PROVE FALSE
    OBVIOUS
  <2>1. L * q + L <= L * 0
    BY Later
  <2>2. L * q \in Int
    OBVIOUS
  <2> QED
    BY <1>1, <2>1, <2>2
<1> QED
  BY <1>1, <1>2

\* Stations have different remainders.
LEMMA OneOwner ==
  ASSUME NEW n \in Station, NEW m \in Station, (n - 1) % MAX_NODES = (m - 1) % MAX_NODES
  PROVE  n = m
<1>1. n \in 1 .. MAX_NODES /\ m \in 1 .. MAX_NODES /\ MAX_NODES \in Nat
  BY ClockAssumption
<1>2. ASSUME NEW a \in 0 .. MAX_NODES - 1 PROVE a % MAX_NODES = a
  BY <1>1
<1> QED
  BY <1>1, <1>2

\* Where the slot that a station has noted begins on its clock.
Begin(n) == SLOT_DURATION * last[n]

\* A station that has read one slot only has read its own: it began to send within
\* the window of that slot, and is done a skew before the slot ends.
Sound(n) ==
  /\ doing[n] = "window" => last[n] % MAX_NODES = (n - 1) % MAX_NODES
  /\ doing[n] = "send" =>
       /\ last[n] % MAX_NODES = (n - 1) % MAX_NODES
       /\ Begin(n) <= now + ahead[n]
       /\ until[n] + ahead[n] + MaxSkew < Begin(n) + SLOT_DURATION

\* The inductive invariant of the slots.
ScInv ==
  /\ ScTypeOK
  /\ \A n \in Station : doing[n] = "send" => now <= until[n]
  /\ \A n \in Station \ straddled : Sound(n)

\* A station's clock is the beginning of its slot and the time in it.
LEMMA SlotOf ==
  ASSUME ScTypeOK, NEW n \in Station
  PROVE  /\ get_current_slot(n) \in Nat /\ get_time_in_slot(n) \in 0 .. SLOT_DURATION - 1
         /\ now + ahead[n] = SLOT_DURATION * get_current_slot(n) + get_time_in_slot(n)
<1>1. now + ahead[n] \in Nat /\ SLOT_DURATION \in Nat /\ SLOT_DURATION > 0
  BY ClockAssumption DEF ScTypeOK
<1> DEFINE a == now + ahead[n]
<1>2. get_current_slot(n) = a \div SLOT_DURATION /\ get_time_in_slot(n) = a % SLOT_DURATION
  BY DEF get_current_slot, get_time_in_slot
<1>3. a \in Nat
  BY <1>1
<1> HIDE DEF a
<1>4. PICK q \in Nat, r \in 0 .. SLOT_DURATION - 1 :
        /\ q = a \div SLOT_DURATION /\ r = a % SLOT_DURATION
        /\ a = SLOT_DURATION * q + r
  BY <1>1, <1>3, Division
<1>5. get_current_slot(n) = q /\ get_time_in_slot(n) = r
  BY <1>2, <1>4
<1> QED
  BY <1>4, <1>5 DEF a

\* The two slots of two stations that send at once would have to overlap.
LEMMA ScInvSafe == ScInv => SlotsDisjoint
<1> SUFFICES ASSUME ScInv, NEW n \in Station \ straddled, NEW m \in Station \ straddled,
                    n # m, doing[n] = "send", doing[m] = "send"
             PROVE  FALSE
  BY DEF SlotsDisjoint
<1>0. /\ now \in Nat /\ SLOT_DURATION \in Nat /\ MaxSkew \in Nat
      /\ \A k \in Station : ahead[k] \in 0 .. MaxSkew /\ last[k] \in Int /\ until[k] \in Int
  BY ClockAssumption DEF ScInv, ScTypeOK
<1>1. ASSUME NEW i \in Station \ straddled, NEW j \in Station \ straddled,
             doing[i] = "send", doing[j] = "send", last[i] < last[j]
      PROVE  FALSE
  <2>1. SLOT_DURATION * last[i] + SLOT_DURATION <= SLOT_DURATION * last[j]
    BY <1>0, <1>1, Later
  <2>2. now + ahead[i] + MaxSkew < SLOT_DURATION * last[i] + SLOT_DURATION
    <3>1. /\ now <= until[i]
          /\ until[i] + ahead[i] + MaxSkew < SLOT_DURATION * last[i] + SLOT_DURATION
      BY <1>1 DEF ScInv, Sound, Begin
    <3>2. SLOT_DURATION * last[i] \in Int
      BY <1>0
    <3> QED
      BY <1>0, <3>1, <3>2
  <2>3. SLOT_DURATION * last[j] <= now + ahead[j]
    BY <1>1 DEF ScInv, Sound, Begin
  <2>4. SLOT_DURATION * last[i] \in Int /\ SLOT_DURATION * last[j] \in Int
    BY <1>0
  <2> QED
    BY <1>0, <2>1, <2>2, <2>3, <2>4
<1>2. last[n] = last[m]
  BY <1>0, <1>1
<1>3. (n - 1) % MAX_NODES = (m - 1) % MAX_NODES
  BY <1>2 DEF ScInv, Sound
<1> QED
  BY <1>3, OneOwner

\* Every step keeps it.
LEMMA ScInvStep == ScInv /\ [ScNext]_scVars => ScInv'
<1> SUFFICES ASSUME ScInv, [ScNext]_scVars PROVE ScInv'
  OBVIOUS
<1>0. /\ MaxTime \in Nat /\ MaxSkew \in Nat /\ MaxDrain \in Nat /\ SLOT_DURATION \in Nat
      /\ TRANSMISSION_WINDOW \in Nat
      /\ MaxSkew + MaxDrain <= SLOT_DURATION - TRANSMISSION_WINDOW
  BY ClockAssumption
<1> USE DEF ScInv
<1>1. CASE PassTime
  <2>1. ScTypeOK'
    BY <1>0, <1>1 DEF ScTypeOK, PassTime
  <2>2. \A n \in Station : doing'[n] = "send" => now' <= until'[n]
    BY <1>1 DEF ScTypeOK, PassTime
  <2>3. ASSUME NEW n \in Station \ straddled PROVE Sound(n)'
    <3>1. Sound(n) /\ Begin(n)' = Begin(n) /\ Begin(n) \in Int
      BY <1>0, <1>1, <2>3 DEF PassTime, Begin, ScTypeOK
    <3>2. now' + ahead'[n] >= now + ahead[n] /\ now + ahead[n] \in Int /\ now' + ahead'[n] \in Int
      BY <1>0, <1>1 DEF PassTime, ScTypeOK
    <3> QED
      BY <1>1, <3>1, <3>2 DEF PassTime, Sound
  <2> QED
    BY <1>1, <2>1, <2>2, <2>3 DEF PassTime
<1>2. ASSUME NEW k \in Station, monitor_thread(k) PROVE ScInv'
  <2>1. ScTypeOK'
    BY <1>2, SlotOf DEF ScTypeOK, monitor_thread
  <2>2. \A n \in Station : doing'[n] = "send" => now' <= until'[n]
    BY <1>2 DEF ScTypeOK, monitor_thread
  <2>3. ASSUME NEW n \in Station, n # k, n \notin straddled PROVE Sound(n)'
    BY <1>2, <2>3 DEF monitor_thread, Sound, Begin, ScTypeOK
  <2>4. Sound(k)'
    BY <1>2 DEF monitor_thread, Sound, ScTypeOK
  <2> QED
    BY <1>2, <2>1, <2>2, <2>3, <2>4 DEF monitor_thread
<1>3. ASSUME NEW k \in Station, CheckMine(k) PROVE ScInv'
  <2>1. ScTypeOK'
    BY <1>3 DEF ScTypeOK, CheckMine
  <2>2. \A n \in Station : doing'[n] = "send" => now' <= until'[n]
    BY <1>3 DEF ScTypeOK, CheckMine
  <2>3. ASSUME NEW n \in Station, n # k, n \notin straddled PROVE Sound(n)'
    BY <1>3, <2>3 DEF CheckMine, Sound, Begin, ScTypeOK
  <2>4. ASSUME k \notin straddled' PROVE Sound(k)'
    <3>1. get_current_slot(k) = last[k]
      BY <1>3, <2>4 DEF CheckMine
    <3>2. doing'[k] = "window" => is_my_slot_now(k)
      BY <1>3 DEF CheckMine, ScTypeOK
    <3>3. doing'[k] # "send" /\ last' = last
      BY <1>3 DEF CheckMine, ScTypeOK
    <3> QED
      BY <3>1, <3>2, <3>3 DEF Sound, is_my_slot_now
  <2>5. straddled \subseteq straddled'
    BY <1>3 DEF CheckMine
  <2> QED
    BY <2>1, <2>2, <2>3, <2>4, <2>5
<1>4. ASSUME NEW k \in Station, NEW d \in 1 .. MaxDrain, CheckWindow(k, d) PROVE ScInv'
  <2>1. ScTypeOK'
    BY <1>0, <1>4 DEF ScTypeOK, CheckWindow
  <2>2. \A n \in Station : doing'[n] = "send" => now' <= until'[n]
    BY <1>0, <1>4 DEF ScTypeOK, CheckWindow
  <2>3. ASSUME NEW n \in Station, n # k, n \notin straddled PROVE Sound(n)'
    BY <1>4, <2>3 DEF CheckWindow, Sound, Begin, ScTypeOK
  <2>4. ASSUME k \notin straddled' PROVE Sound(k)'
    <3>1. get_current_slot(k) = last[k] /\ k \notin straddled
      BY <1>4, <2>4 DEF CheckWindow
    <3>2. last[k] % MAX_NODES = (k - 1) % MAX_NODES
      BY <1>4, <3>1 DEF CheckWindow, Sound
    <3>3. /\ get_time_in_slot(k) \in Nat /\ Begin(k) \in Int
          /\ now + ahead[k] = Begin(k) + get_time_in_slot(k)
      BY <1>0, <3>1, SlotOf DEF Begin, ScTypeOK
    <3>4. last' = last /\ now' = now /\ ahead' = ahead /\ Begin(k)' = Begin(k)
      BY <1>4 DEF CheckWindow, Begin
    <3>5. ASSUME doing'[k] = "send"
          PROVE  until'[k] = now + d /\ get_time_in_slot(k) < TRANSMISSION_WINDOW
      BY <1>4, <3>5 DEF CheckWindow, WindowOpen, ScTypeOK
    <3>6. doing'[k] # "window"
      BY <1>4 DEF CheckWindow, ScTypeOK
    <3>7. now \in Nat /\ ahead[k] \in Nat
      BY <1>0 DEF ScTypeOK
    <3>8. doing'[k] = "send" => Begin(k) <= now + ahead[k]
      BY <3>3, <3>7
    <3>9. doing'[k] = "send" => until'[k] + ahead[k] + MaxSkew < Begin(k) + SLOT_DURATION
      BY <1>0, <3>3, <3>5, <3>7
    <3> QED
      BY <3>2, <3>4, <3>6, <3>8, <3>9 DEF Sound
  <2>5. straddled \subseteq straddled'
    BY <1>4 DEF CheckWindow
  <2> QED
    BY <2>1, <2>2, <2>3, <2>4, <2>5
<1>5. ASSUME NEW k \in Station, SendDone(k) PROVE ScInv'
  <2>1. ScTypeOK'
    BY <1>5 DEF ScTypeOK, SendDone
  <2>2. \A n \in Station : doing'[n] = "send" => now' <= until'[n]
    BY <1>5 DEF ScTypeOK, SendDone
  <2>3. ASSUME NEW n \in Station \ straddled PROVE Sound(n)'
    BY <1>5, <2>3 DEF SendDone, Sound, Begin, ScTypeOK
  <2> QED
    BY <1>5, <2>1, <2>2, <2>3 DEF SendDone
<1>6. CASE UNCHANGED scVars
  BY <1>6 DEF scVars, ScTypeOK, Sound, Begin
<1> QED
  BY <1>1, <1>2, <1>3, <1>4, <1>5, <1>6 DEF ScNext

\* Stations whose monitor read the clock within one slot never transmit at once,
\* whatever the slot and the window, when skew and drain fit in the guard interval.
THEOREM SlotsCorrect == ScSpec => []SlotsDisjoint
<1>1. ScInit => ScInv
  BY ClockAssumption DEF ScInit, ScInv, ScTypeOK, Sound
<1> QED
  BY <1>1, ScInvStep, ScInvSafe, PTL DEF ScSpec

-----------------------------------------------------------------------------
(* The text on the UWB link *)

\* Texts.
Chars == Seq(Int)

\* e[k] is what the first k of the pieces are together.
Joined(e, pieces) ==
  /\ \A k \in 0..Len(pieces) : e[k] \in Chars
  /\ e[0] = <<>>
  /\ \A k \in 1..Len(pieces) : e[k] = e[k - 1] \o pieces[k]

\* FlattenSeq joins the pieces one after the other.
LEMMA FlattenDef ==
  ASSUME NEW pieces \in Seq(Chars)
  PROVE  \E e : Joined(e, pieces) /\ FlattenSeq(pieces) = e[Len(pieces)]
<1> DEFINE n == Len(pieces)
           f == [k \in 1..n |-> [t \in Chars |-> t \o pieces[k]]]
           Chain(h) == h = [i \in 1..n |-> IF i = 1 THEN pieces[i] ELSE h[i - 1] \o pieces[i]]
<1>1. n \in Nat /\ \A k \in 1..n : pieces[k] \in Chars
  OBVIOUS
<1>2. f \in [1..n -> [Chars -> Chars]] /\ <<>> \in Chars
  BY <1>1 DEF Chars
<1>3. PICK e : Iterated(e, n, Chars, <<>>, f)
  <2> HIDE DEF n, f
  <2> QED BY <1>1, <1>2, Iterates
<1>4. Joined(e, pieces)
  <2>1. e[0] = <<>> /\ \A k \in 0..n : e[k] \in Chars
    BY <1>3 DEF Iterated
  <2>2. ASSUME NEW k \in 1..n PROVE e[k] = e[k - 1] \o pieces[k]
    <3>1. k - 1 \in 0..n
      BY <1>1
    <3>2. e[k] = f[k][e[k - 1]]
      <4> HIDE DEF n, f
      <4> QED BY <1>3 DEF Iterated
    <3>3. f[k] = [t \in Chars |-> t \o pieces[k]]
      OBVIOUS
    <3> QED BY <2>1, <3>1, <3>2, <3>3
  <2> QED BY <2>1, <2>2 DEF Joined
<1>5. CASE n = 0
  <2>1. FlattenSeq(pieces) = pieces /\ pieces = <<>>
    BY <1>5 DEF FlattenSeq
  <2> QED BY <1>4, <1>5, <2>1 DEF Joined
<1>6. CASE n > 0
  <2> DEFINE h == [i \in 1..n |-> e[i]]
  <2>1. Chain(h)
    <3>1. ASSUME NEW i \in 1..n
          PROVE  h[i] = IF i = 1 THEN pieces[i] ELSE h[i - 1] \o pieces[i]
      <4>1. e[i] = e[i - 1] \o pieces[i] /\ pieces[i] \in Chars
        BY <1>1, <1>4 DEF Joined
      <4>2. CASE i = 1
        <5>1. e[i - 1] = <<>>
          BY <1>4, <4>2 DEF Joined
        <5>2. <<>> \o pieces[i] = pieces[i]
          BY <4>1 DEF Chars
        <5> QED BY <4>1, <4>2, <5>1, <5>2
      <4>3. CASE i # 1
        <5>1. i - 1 \in 1..n
          BY <1>1, <4>3
        <5> QED BY <4>1, <4>3, <5>1
      <4> QED BY <4>2, <4>3
    <3> QED BY <3>1
  <2>2. PICK g : g = CHOOSE c : Chain(c)
    OBVIOUS
  <2>3. Chain(g)
    BY <2>1, <2>2
  <2>4. FlattenSeq(pieces) = g[n]
    <3>1. Len(pieces) # 0
      BY <1>6
    <3> QED BY <2>2, <3>1 DEF FlattenSeq
  <2> DEFINE G == {k \in 0..n : k > 0 => g[k] = e[k]}
  <2>5. 0 \in G
    BY <1>1
  <2>6. ASSUME NEW k \in 1..n, k - 1 \in G PROVE k \in G
    <3>1. g[k] = (IF k = 1 THEN pieces[k] ELSE g[k - 1] \o pieces[k])
      BY <2>3
    <3>2. h[k] = (IF k = 1 THEN pieces[k] ELSE h[k - 1] \o pieces[k])
      BY <2>1
    <3>3. k # 1 => k - 1 \in 1..n /\ g[k - 1] = e[k - 1]
      BY <1>1, <2>6
    <3>4. g[k] = e[k]
      BY <3>1, <3>2, <3>3
    <3> QED BY <3>4
  <2>7. \A k \in 0..n : k \in G
    <3> HIDE DEF G, n
    <3> QED BY <1>1, <2>5, <2>6, StepByStep
  <2>8. g[n] = e[n]
    BY <1>1, <1>6, <2>7
  <2> QED BY <1>4, <2>4, <2>8
<1> QED
  BY <1>1, <1>5, <1>6

\* The states of the pass over the first characters.
State == [out : Chars, esc : BOOLEAN]
Fresh == [out |-> <<>>, esc |-> FALSE]
Scans(s, d) ==
  /\ \A k \in 0..Len(d) : s[k] \in State
  /\ s[0] = Fresh
  /\ \A k \in 1..Len(d) : s[k] = UnescapeChar(s[k - 1], d[k])

\* A character leads from a state to a state.
LEMMA UnescapeCharType ==
  ASSUME NEW s \in State, NEW c \in Int
  PROVE  UnescapeChar(s, c) \in State
<1> DEFINE x == IF s.esc THEN Unescaped(c) ELSE IF c = BackSlash THEN <<>> ELSE <<c>>
<1>1. x \in Chars
  <2>1. Unescaped(c) \in Chars
    BY DEF Chars, Unescaped, BackSlash, LF, CR
  <2> QED BY <2>1 DEF Chars
<1>2. s.out \in Chars
  BY DEF State
<1>3. s.out \o x \in Chars
  <2> HIDE DEF x
  <2> QED BY <1>1, <1>2 DEF Chars
<1>4. UnescapeChar(s, c) = [esc |-> ~s.esc /\ c = BackSlash, out |-> s.out \o x]
  BY DEF UnescapeChar
<1>5. (~s.esc /\ c = BackSlash) \in BOOLEAN
  OBVIOUS
<1> QED
  BY <1>3, <1>4, <1>5 DEF State

\* The pass over a text, continued by one character.
LEMMA ScanOne ==
  ASSUME NEW d \in Chars, NEW c \in Int, NEW s, Scans(s, d)
  PROVE  \E g : Scans(g, Append(d, c)) /\ g[Len(d) + 1] = UnescapeChar(s[Len(d)], c)
<1> DEFINE n == Len(d)
           g == [k \in 0..(n + 1) |-> IF k = n + 1 THEN UnescapeChar(s[n], c) ELSE s[k]]
           b == Append(d, c)
<1>1. n \in Nat /\ Len(b) = n + 1 /\ b[n + 1] = c /\ \A k \in 1..n : b[k] = d[k]
  BY DEF Chars
<1>2. s[n] \in State
  BY <1>1 DEF Scans
<1>3. \A k \in 0..n : g[k] = s[k]
  BY <1>1
<1>4. g[n + 1] = UnescapeChar(s[n], c)
  BY <1>1
<1> HIDE DEF g, b
<1>5. ASSUME NEW k \in 0..(n + 1) PROVE g[k] \in State
  <2>1. CASE k = n + 1
    BY <1>2, <1>4, <2>1, UnescapeCharType
  <2>2. CASE k # n + 1
    <3>1. k \in 0..n
      BY <1>1, <2>2
    <3> QED BY <1>3, <3>1 DEF Scans
  <2> QED BY <2>1, <2>2
<1>6. g[0] = Fresh
  <2>1. 0 \in 0..n
    BY <1>1
  <2> QED BY <1>3, <2>1 DEF Scans
<1>7. ASSUME NEW k \in 1..(n + 1) PROVE g[k] = UnescapeChar(g[k - 1], b[k])
  <2>1. CASE k = n + 1
    <3>1. k - 1 = n /\ n \in 0..n
      BY <1>1, <2>1
    <3> QED BY <1>1, <1>3, <1>4, <2>1, <3>1
  <2>2. CASE k # n + 1
    <3>1. k \in 1..n /\ k \in 0..n /\ k - 1 \in 0..n
      BY <1>1, <2>2
    <3> QED BY <1>1, <1>3, <3>1 DEF Scans
  <2> QED BY <2>1, <2>2
<1>8. Scans(g, b)
  BY <1>1, <1>5, <1>6, <1>7 DEF Scans
<1> QED
  BY <1>4, <1>8 DEF b

\* Unescape is the last state of the pass.
LEMMA UnescapeDef ==
  ASSUME NEW d \in Chars, NEW s, Scans(s, d)
  PROVE  Unescape(d) = IF s[Len(d)].esc THEN Append(s[Len(d)].out, BackSlash) ELSE s[Len(d)].out
<1> DEFINE n == Len(d)
           Chain(h) == h = [k \in 0..n |-> IF k = 0 THEN Fresh ELSE UnescapeChar(h[k - 1], d[k])]
           g == [k \in 0..n |-> s[k]]
<1>1. n \in Nat
  BY DEF Chars
<1>2. Chain(g)
  <2>1. ASSUME NEW k \in 0..n PROVE g[k] = IF k = 0 THEN Fresh ELSE UnescapeChar(g[k - 1], d[k])
    <3>1. CASE k = 0
      BY <3>1 DEF Scans
    <3>2. CASE k # 0
      <4>1. k \in 1..n /\ k - 1 \in 0..n
        BY <1>1, <3>2
      <4> QED BY <3>2, <4>1 DEF Scans
    <3> QED BY <3>1, <3>2
  <2> QED BY <2>1
<1>3. PICK h : h = CHOOSE c : Chain(c)
  OBVIOUS
<1>4. Chain(h)
  BY <1>2, <1>3
<1>5. Unescape(d) = IF h[n].esc THEN Append(h[n].out, BackSlash) ELSE h[n].out
  BY <1>3 DEF Unescape, Fresh
<1> DEFINE G == {k \in 0..n : h[k] = s[k]}
<1>6. 0 \in G
  BY <1>1, <1>4 DEF Scans
<1>7. ASSUME NEW k \in 1..n, k - 1 \in G PROVE k \in G
  <2>1. k \in 0..n /\ k # 0
    BY <1>1
  <2>2. h[k] = UnescapeChar(h[k - 1], d[k]) /\ s[k] = UnescapeChar(s[k - 1], d[k])
    BY <1>4, <2>1 DEF Scans
  <2>3. h[k - 1] = s[k - 1]
    BY <1>7
  <2> QED BY <2>1, <2>2, <2>3
<1>8. \A k \in 0..n : k \in G
  <2> HIDE DEF G, n
  <2> QED BY <1>1, <1>6, <1>7, StepByStep
<1>9. h[n] = s[n]
  BY <1>1, <1>8
<1> QED
  BY <1>5, <1>9

\* Outside an escape, and behind a backslash.
LEMMA UnescapePlain ==
  ASSUME NEW o \in Chars, NEW c \in Int
  PROVE  /\ c = BackSlash => UnescapeChar([out |-> o, esc |-> FALSE], c) = [out |-> o, esc |-> TRUE]
         /\ c # BackSlash => UnescapeChar([out |-> o, esc |-> FALSE], c) =
                               [out |-> Append(o, c), esc |-> FALSE]
<1>1. o \o <<>> = o /\ o \o <<c>> = Append(o, c)
  BY DEF Chars
<1> QED
  BY <1>1 DEF UnescapeChar

\* A backslash and the character behind it give one character back.
LEMMA UnescapeEscaped ==
  ASSUME NEW o \in Chars, NEW c \in Int, NEW x \in Int, Unescaped(x) = <<c>>
  PROVE  UnescapeChar([out |-> o, esc |-> TRUE], x) = [out |-> Append(o, c), esc |-> FALSE]
<1>1. o \o <<c>> = Append(o, c)
  BY DEF Chars
<1> QED
  BY <1>1 DEF UnescapeChar

\* The two characters of an escape, read one after the other, give the character back.
LEMMA EscapedReadBack ==
  ASSUME NEW d \in Chars, NEW c \in Int, NEW s, Scans(s, d), s[Len(d)].esc = FALSE
  PROVE  /\ d \o EscapeChar(c) \in Chars
         /\ \E g : /\ Scans(g, d \o EscapeChar(c))
                   /\ g[Len(d \o EscapeChar(c))] =
                        [out |-> Append(s[Len(d)].out, c), esc |-> FALSE]
         /\ \A i \in 1..Len(EscapeChar(c)) : EscapeChar(c)[i] # LF /\ EscapeChar(c)[i] # CR
<1>1. Len(d) \in Nat /\ s[Len(d)] \in State
  BY DEF Scans, Chars
<1>2. PICK o \in Chars : s[Len(d)] = [out |-> o, esc |-> FALSE]
  <2>1. s[Len(d)].out \in Chars /\ s[Len(d)] = [out |-> s[Len(d)].out, esc |-> FALSE]
    BY <1>1 DEF State
  <2> QED BY <2>1
<1>3. CASE c \notin {CR, LF, BackSlash}
  <2>1. EscapeChar(c) = <<c>>
    BY <1>3 DEF EscapeChar
  <2>2. d \o <<c>> = Append(d, c) /\ Append(d, c) \in Chars /\ Len(Append(d, c)) = Len(d) + 1
    BY DEF Chars
  <2>3. PICK g : Scans(g, Append(d, c)) /\ g[Len(d) + 1] = UnescapeChar(s[Len(d)], c)
    BY ScanOne
  <2>4. UnescapeChar(s[Len(d)], c) = [out |-> Append(o, c), esc |-> FALSE]
    BY <1>2, <1>3, UnescapePlain
  <2>5. \A i \in 1..Len(<<c>>) : <<c>>[i] # LF /\ <<c>>[i] # CR
    BY <1>3
  <2>6. s[Len(d)].out = o
    BY <1>2
  <2>7. \E k : Scans(k, Append(d, c)) /\ k[Len(Append(d, c))] =
             [out |-> Append(o, c), esc |-> FALSE]
    BY <2>2, <2>3, <2>4
  <2> QED BY <2>1, <2>2, <2>5, <2>6, <2>7
<1>4. CASE c \in {CR, LF, BackSlash}
  <2> DEFINE x == IF c = CR THEN LetterR ELSE IF c = LF THEN LetterN ELSE BackSlash
             b == Append(d, BackSlash)
  <2>1. x \in Int /\ BackSlash \in Int /\ x # LF /\ x # CR /\ BackSlash # LF /\ BackSlash # CR
    BY DEF LetterR, LetterN, BackSlash, LF, CR
  <2>2. EscapeChar(c) = <<BackSlash, x>>
    BY <1>4 DEF EscapeChar, CR, LF, BackSlash
  <2>3. b \in Chars /\ Len(b) = Len(d) + 1
    BY <2>1 DEF Chars
  <2>4. PICK g : Scans(g, b) /\ g[Len(d) + 1] = UnescapeChar(s[Len(d)], BackSlash)
    BY <2>1, ScanOne
  <2>5. UnescapeChar(s[Len(d)], BackSlash) = [out |-> o, esc |-> TRUE]
    BY <1>2, <2>1, UnescapePlain
  <2>6. PICK h : Scans(h, Append(b, x)) /\ h[Len(b) + 1] = UnescapeChar(g[Len(b)], x)
    <3> HIDE DEF x, b
    <3> QED BY <2>1, <2>3, <2>4, ScanOne
  <2>7. UnescapeChar([out |-> o, esc |-> TRUE], x) = [out |-> Append(o, c), esc |-> FALSE]
    <3>1. Unescaped(x) = <<c>>
      BY <1>4 DEF Unescaped, LF, CR, BackSlash, LetterN, LetterR
    <3> HIDE DEF x
    <3> QED BY <2>1, <3>1, UnescapeEscaped
  <2>8. d \o <<BackSlash, x>> = Append(b, x) /\ Append(b, x) \in Chars
        /\ Len(Append(b, x)) = Len(b) + 1
    <3> HIDE DEF x
    <3> QED BY <2>1 DEF Chars
  <2>9. h[Len(b) + 1] = [out |-> Append(o, c), esc |-> FALSE]
    BY <2>3, <2>4, <2>5, <2>6, <2>7
  <2>10. \A i \in 1..Len(<<BackSlash, x>>) : <<BackSlash, x>>[i] # LF /\ <<BackSlash, x>>[i] # CR
    <3> HIDE DEF x
    <3> QED BY <2>1
  <2> HIDE DEF x, b
  <2>11. \E k : Scans(k, Append(b, x)) /\ k[Len(Append(b, x))] =
             [out |-> Append(o, c), esc |-> FALSE]
    BY <2>6, <2>8, <2>9
  <2>12. s[Len(d)].out = o
    BY <1>2
  <2>13. d \o EscapeChar(c) = Append(b, x)
    BY <2>2, <2>8
  <2> QED BY <2>2, <2>8, <2>10, <2>11, <2>12, <2>13
<1> QED
  BY <1>3, <1>4

\* The reader gets every text back, and no line end is left in what is written.
LEMMA EscapeReturns ==
  ASSUME NEW t \in Chars
  PROVE  /\ Escape(t) \in Chars
         /\ Unescape(Escape(t)) = t
         /\ \A i \in 1..Len(Escape(t)) : Escape(t)[i] # LF /\ Escape(t)[i] # CR
<1> DEFINE n == Len(t)
           pieces == [i \in DOMAIN t |-> EscapeChar(t[i])]
           NoLineEnd(d) == \A i \in 1..Len(d) : d[i] # LF /\ d[i] # CR
           Reads(d, k) == \E s : Scans(s, d) /\ s[Len(d)] = [out |-> SubSeq(t, 1, k), esc |-> FALSE]
<1>1. n \in Nat /\ DOMAIN t = 1..n /\ \A k \in 1..n : t[k] \in Int
  BY DEF Chars
<1>2. \A c \in Int : EscapeChar(c) \in Chars
  BY DEF EscapeChar, Chars, CR, LF, BackSlash, LetterR, LetterN
<1>3. pieces \in Seq(Chars) /\ Len(pieces) = n
  <2>1. pieces = [i \in 1..n |-> EscapeChar(t[i])] /\ \A i \in 1..n : EscapeChar(t[i]) \in Chars
    BY <1>1, <1>2
  <2> HIDE DEF n
  <2> QED BY <1>1, <2>1
<1>4. PICK e : Joined(e, pieces) /\ FlattenSeq(pieces) = e[n]
  <2> HIDE DEF n, pieces
  <2> QED BY <1>3, FlattenDef
<1>5. /\ e[0] = <<>> /\ \A k \in 0..n : e[k] \in Chars
      /\ \A k \in 1..n : e[k] = e[k - 1] \o EscapeChar(t[k])
  BY <1>1, <1>3, <1>4 DEF Joined
<1>6. Escape(t) = e[n]
  BY <1>4 DEF Escape
<1> DEFINE G == {k \in 0..n : Reads(e[k], k) /\ NoLineEnd(e[k])}
<1>7. 0 \in G
  <2> DEFINE s == [k \in 0..0 |-> Fresh]
  <2>1. Fresh \in State /\ SubSeq(t, 1, 0) = <<>> /\ Len(<<>>) = 0
    BY DEF Fresh, State, Chars
  <2>2. Scans(s, <<>>)
    <3>1. s[0] = Fresh
      OBVIOUS
    <3>2. PICK d : d = <<>> /\ Len(d) = 0
      OBVIOUS
    <3> HIDE DEF s
    <3>3. Scans(s, d)
      BY <2>1, <3>1, <3>2 DEF Scans
    <3> QED BY <3>2, <3>3
  <2>3. s[0] = [out |-> SubSeq(t, 1, 0), esc |-> FALSE]
    <3>1. s[0] = Fresh
      OBVIOUS
    <3>2. Fresh = [out |-> <<>>, esc |-> FALSE]
      BY DEF Fresh
    <3> HIDE DEF s
    <3> QED BY <2>1, <3>1, <3>2
  <2>4. Reads(<<>>, 0)
    <3> HIDE DEF s
    <3> QED BY <2>1, <2>2, <2>3
  <2>5. NoLineEnd(<<>>)
    OBVIOUS
  <2> HIDE DEF Reads, NoLineEnd
  <2> QED BY <1>1, <1>5, <2>4, <2>5
<1>8. ASSUME NEW k \in 1..n, k - 1 \in G PROVE k \in G
  <2>1. k - 1 \in 0..n /\ k \in 0..n /\ t[k] \in Int
    BY <1>1
  <2>2. PICK d : d = e[k - 1]
    OBVIOUS
  <2>3. PICK s : Scans(s, d) /\ s[Len(d)] = [out |-> SubSeq(t, 1, k - 1), esc |-> FALSE]
    BY <1>8, <2>2
  <2>4. d \in Chars /\ e[k] = d \o EscapeChar(t[k])
    BY <1>5, <2>1, <2>2
  <2>5. s[Len(d)].esc = FALSE /\ s[Len(d)].out = SubSeq(t, 1, k - 1)
    BY <2>3
  <2>6. /\ d \o EscapeChar(t[k]) \in Chars
        /\ \E g : /\ Scans(g, d \o EscapeChar(t[k]))
                  /\ g[Len(d \o EscapeChar(t[k]))] =
                       [out |-> Append(s[Len(d)].out, t[k]), esc |-> FALSE]
        /\ NoLineEnd(EscapeChar(t[k]))
    BY <2>1, <2>3, <2>4, <2>5, EscapedReadBack
  <2>7. Append(SubSeq(t, 1, k - 1), t[k]) = SubSeq(t, 1, k)
    BY <1>1 DEF Chars
  <2>8. Reads(e[k], k)
    BY <2>4, <2>5, <2>6, <2>7
  <2>9. NoLineEnd(d)
    BY <1>8, <2>2
  <2>10. NoLineEnd(e[k])
    <3>1. PICK c : c = EscapeChar(t[k])
      OBVIOUS
    <3>2. c \in Chars /\ d \in Chars /\ NoLineEnd(c)
      BY <1>2, <2>1, <2>4, <2>6, <3>1
    <3>3. NoLineEnd(d \o c)
      BY <2>9, <3>2 DEF Chars
    <3> QED BY <2>4, <3>1, <3>3
  <2> HIDE DEF Reads, NoLineEnd
  <2> QED BY <2>1, <2>8, <2>10
<1>9. \A k \in 0..n : k \in G
  <2> HIDE DEF G, n
  <2> QED BY <1>1, <1>7, <1>8, StepByStep
<1>10. Reads(e[n], n) /\ NoLineEnd(e[n]) /\ e[n] \in Chars
  <2>1. n \in 0..n
    BY <1>1
  <2> HIDE DEF n, Reads, NoLineEnd
  <2> QED BY <1>5, <1>9, <2>1
<1>11. SubSeq(t, 1, n) = t
  BY <1>1 DEF Chars
<1>12. PICK s : Scans(s, e[n]) /\ s[Len(e[n])] = [out |-> t, esc |-> FALSE]
  BY <1>10, <1>11
<1>13. Unescape(e[n]) = t
  <2>1. Unescape(e[n]) = IF s[Len(e[n])].esc THEN Append(s[Len(e[n])].out, BackSlash)
                                           ELSE s[Len(e[n])].out
    BY <1>10, <1>12, UnescapeDef
  <2> QED BY <1>12, <2>1
<1> QED
  BY <1>6, <1>10, <1>13

\* The lines that SplitLines has made of d so far.
LineScan(s, d) ==
  /\ \A k \in 0..Len(d) : s[k] \in Seq(Chars)
  /\ s[0] = << <<>> >>
  /\ \A k \in 1..Len(d) : s[k] = LineChar(s[k - 1], d[k])
Splits(d, ls) == \E s : LineScan(s, d) /\ s[Len(d)] = ls

\* Appending to the second of two texts appends to both.
LEMMA AppendJoined ==
  ASSUME NEW a \in Chars, NEW b \in Chars, NEW c \in Int
  PROVE  Append(a \o b, c) = a \o Append(b, c)
<1>1. PICK x, y, z : x = a \o b /\ y = Append(x, c) /\ z = Append(b, c)
  OBVIOUS
<1>2. a \in Seq(Int) /\ b \in Seq(Int)
  BY DEF Chars
<1>3. /\ x \in Seq(Int) /\ Len(x) = Len(a) + Len(b)
      /\ \A i \in 1..(Len(a) + Len(b)) :
           x[i] = IF i <= Len(a) THEN a[i] ELSE b[i - Len(a)]
  BY <1>1, <1>2, ConcatProperties
<1>4. /\ y \in Seq(Int) /\ Len(y) = Len(x) + 1
      /\ y[Len(x) + 1] = c /\ \A i \in 1..Len(x) : y[i] = x[i]
  BY ONLY <1>1, <1>3, c \in Int
<1>5. /\ z \in Seq(Int) /\ Len(z) = Len(b) + 1
      /\ z[Len(b) + 1] = c /\ \A i \in 1..Len(b) : z[i] = b[i]
  BY ONLY <1>1, <1>2, c \in Int
<1>6. /\ a \o z \in Seq(Int) /\ Len(a \o z) = Len(a) + Len(z)
      /\ \A i \in 1..(Len(a) + Len(z)) :
           (a \o z)[i] = IF i <= Len(a) THEN a[i] ELSE z[i - Len(a)]
  BY <1>2, <1>5, ConcatProperties
<1>7. ASSUME NEW i \in 1..Len(y) PROVE y[i] = (a \o z)[i]
  <2>1. PICK n, m : /\ n = Len(a) /\ m = Len(b) /\ n \in Nat /\ m \in Nat
                    /\ Len(x) = n + m /\ Len(z) = m + 1 /\ i \in 1..(n + m + 1)
    <3>1. Len(a) \in Nat /\ Len(b) \in Nat /\ i \in 1..(Len(a) + Len(b) + 1)
      BY <1>2, <1>3, <1>4
    <3>2. Len(x) = Len(a) + Len(b) /\ Len(z) = Len(b) + 1
      BY <1>3, <1>5
    <3> QED BY ONLY <3>1, <3>2, Zenon
  <2>2. CASE i \in 1..n
    <3>1. i \in 1..(n + m) /\ i \in 1..(n + (m + 1)) /\ i <= n
      BY <2>1, <2>2
    <3> QED BY <1>3, <1>4, <1>6, <2>1, <3>1
  <2>3. CASE i \in (n + 1)..(n + m)
    <3>1. i \in 1..(n + m) /\ i \in 1..(n + (m + 1)) /\ ~(i <= n) /\ i - n \in 1..m
      BY <2>1, <2>3
    <3> QED BY <1>3, <1>4, <1>5, <1>6, <2>1, <3>1
  <2>4. CASE i = n + m + 1
    <3>1. i \in 1..(n + (m + 1)) /\ ~(i <= n) /\ i - n = m + 1 /\ i = (n + m) + 1
      BY <2>1, <2>4
    <3> QED BY <1>4, <1>5, <1>6, <2>1, <3>1
  <2> QED BY <2>1, <2>2, <2>3, <2>4
<1>8. Len(y) = Len(a \o z)
  BY <1>2, <1>3, <1>4, <1>5, <1>6
<1>9. y = a \o z
  BY ONLY <1>4, <1>6, <1>7, <1>8, SeqEqual
<1> QED
  BY <1>1, <1>9

\* SplitLines is the last state of its pass, without the CR of each line.
LEMMA SplitDef ==
  ASSUME NEW d \in Chars, NEW ls, Splits(d, ls)
  PROVE  SplitLines(d) = [i \in DOMAIN ls |-> Chomp(ls[i])]
<1> DEFINE n == Len(d)
           Chain(h) == h = [k \in 0..n |-> IF k = 0 THEN << <<>> >> ELSE LineChar(h[k - 1], d[k])]
<1>1. n \in Nat
  BY DEF Chars
<1>2. PICK s : LineScan(s, d) /\ s[n] = ls
  BY DEF Splits
<1> DEFINE g == [k \in 0..n |-> s[k]]
<1>3. Chain(g)
  <2>1. ASSUME NEW k \in 0..n
        PROVE  g[k] = IF k = 0 THEN << <<>> >> ELSE LineChar(g[k - 1], d[k])
    <3>1. CASE k = 0
      BY <1>2, <3>1 DEF LineScan
    <3>2. CASE k # 0
      <4>1. k \in 1..n /\ k - 1 \in 0..n
        BY <1>1, <3>2
      <4> QED BY <1>2, <3>2, <4>1 DEF LineScan
    <3> QED BY <3>1, <3>2
  <2> QED BY <2>1
<1>4. PICK h : h = CHOOSE c : Chain(c)
  OBVIOUS
<1>5. Chain(h)
  BY <1>3, <1>4
<1>6. SplitLines(d) = [i \in DOMAIN h[n] |-> Chomp(h[n][i])]
  BY <1>4 DEF SplitLines
<1> DEFINE G == {k \in 0..n : h[k] = s[k]}
<1>7. 0 \in G
  BY <1>1, <1>2, <1>5 DEF LineScan
<1>8. ASSUME NEW k \in 1..n, k - 1 \in G PROVE k \in G
  <2>1. k \in 0..n /\ k # 0
    BY <1>1
  <2>2. h[k] = LineChar(h[k - 1], d[k]) /\ s[k] = LineChar(s[k - 1], d[k])
    BY <1>2, <1>5, <2>1 DEF LineScan
  <2>3. h[k - 1] = s[k - 1]
    BY <1>8
  <2> QED BY <2>1, <2>2, <2>3
<1>9. \A k \in 0..n : k \in G
  <2> HIDE DEF G, n
  <2> QED BY <1>1, <1>7, <1>8, StepByStep
<1>10. h[n] = ls
  BY <1>1, <1>2, <1>9
<1> QED
  BY <1>6, <1>10

\* A line end begins a new line, any other character continues the last one.
LEMMA LineCharDoes ==
  ASSUME NEW p \in Seq(Chars), NEW u \in Chars, NEW c \in Int
  PROVE  /\ c = LF => LineChar(Append(p, u), c) = Append(Append(p, u), <<>>)
         /\ c # LF => LineChar(Append(p, u), c) = Append(p, Append(u, c))
<1>1. Front(Append(p, u)) = p
  BY DEF Front
<1>2. Last(Append(p, u)) = u
  BY DEF Last
<1> QED
  BY <1>1, <1>2 DEF LineChar

\* The lines of a text, continued by one character.
LEMMA SplitOne ==
  ASSUME NEW d \in Chars, NEW c \in Int, NEW p \in Seq(Chars), NEW u \in Chars,
         Splits(d, Append(p, u))
  PROVE  Splits(Append(d, c), LineChar(Append(p, u), c))
<1>1. PICK s : LineScan(s, d) /\ s[Len(d)] = Append(p, u)
  BY DEF Splits
<1> DEFINE n == Len(d)
           ls == LineChar(Append(p, u), c)
           g == [k \in 0..(n + 1) |-> IF k = n + 1 THEN ls ELSE s[k]]
           b == Append(d, c)
<1>2. n \in Nat /\ Len(b) = n + 1 /\ b[n + 1] = c /\ \A k \in 1..n : b[k] = d[k]
  BY DEF Chars
<1>3. ls \in Seq(Chars)
  <2>1. Append(u, c) \in Chars /\ <<>> \in Chars
    BY DEF Chars
  <2>2. Append(Append(p, u), <<>>) \in Seq(Chars) /\ Append(p, Append(u, c)) \in Seq(Chars)
    BY <2>1
  <2> QED BY <2>2, LineCharDoes
<1>4. \A k \in 0..n : g[k] = s[k]
  BY <1>2
<1>5. g[n + 1] = ls
  BY <1>2
<1> HIDE DEF g, b
<1>6. ASSUME NEW k \in 0..(n + 1) PROVE g[k] \in Seq(Chars)
  <2>1. CASE k = n + 1
    BY <1>3, <1>5, <2>1
  <2>2. CASE k # n + 1
    <3>1. k \in 0..n
      BY <1>2, <2>2
    <3> QED BY <1>1, <1>4, <3>1 DEF LineScan
  <2> QED BY <2>1, <2>2
<1>7. g[0] = << <<>> >>
  <2>1. 0 \in 0..n
    BY <1>2
  <2> QED BY <1>1, <1>4, <2>1 DEF LineScan
<1>8. ASSUME NEW k \in 1..(n + 1) PROVE g[k] = LineChar(g[k - 1], b[k])
  <2>1. CASE k = n + 1
    <3>1. k - 1 = n /\ n \in 0..n
      BY <1>2, <2>1
    <3>2. g[k - 1] = Append(p, u)
      BY <1>1, <1>4, <3>1
    <3> QED BY <1>2, <1>5, <2>1, <3>2
  <2>2. CASE k # n + 1
    <3>1. k \in 1..n /\ k \in 0..n /\ k - 1 \in 0..n
      BY <1>2, <2>2
    <3>2. s[k] = LineChar(s[k - 1], d[k])
      BY <1>1, <3>1 DEF LineScan
    <3> QED BY <1>2, <1>4, <3>1, <3>2
  <2> QED BY <2>1, <2>2
<1>9. LineScan(g, b)
  BY <1>2, <1>6, <1>7, <1>8 DEF LineScan
<1> HIDE DEF ls
<1>10. Splits(b, ls)
  BY <1>2, <1>5, <1>9 DEF Splits
<1> QED
  BY <1>10 DEF b, ls

\* Characters that are no line end.
LEMMA SplitWord ==
  ASSUME NEW d \in Chars, NEW p \in Seq(Chars), NEW u \in Chars, Splits(d, Append(p, u)),
         NEW w \in Chars, \A i \in 1..Len(w) : w[i] # LF
  PROVE  Splits(d \o w, Append(p, u \o w))
<1> DEFINE n == Len(w)
           Read(k) == Splits(d \o SubSeq(w, 1, k), Append(p, u \o SubSeq(w, 1, k)))
           G == {k \in 0..n : Read(k)}
<1>1. n \in Nat /\ \A k \in 1..n : w[k] \in Int
  BY DEF Chars
<1>2. \A k \in 0..n : SubSeq(w, 1, k) \in Chars
  BY <1>1 DEF Chars
<1>3. 0 \in G
  <2>1. SubSeq(w, 1, 0) = <<>> /\ d \o <<>> = d /\ u \o <<>> = u
    BY DEF Chars
  <2>2. Read(0)
    BY <2>1
  <2> HIDE DEF Read
  <2> QED BY <1>1, <2>2
<1>4. ASSUME NEW k \in 1..n, k - 1 \in G PROVE k \in G
  <2>1. k - 1 \in 0..n /\ k \in 0..n /\ w[k] \in Int /\ w[k] # LF
    BY <1>1
  <2>2. PICK v : v = SubSeq(w, 1, k - 1) /\ v \in Chars
    BY <1>2, <2>1
  <2>3. SubSeq(w, 1, k) = Append(v, w[k])
    BY <1>1, <2>1, <2>2 DEF Chars
  <2>4. Splits(d \o v, Append(p, u \o v)) /\ d \o v \in Chars /\ u \o v \in Chars
    <3>1. Splits(d \o v, Append(p, u \o v))
      BY <1>4, <2>2
    <3> QED BY <2>2, <3>1 DEF Chars
  <2>5. Splits(Append(d \o v, w[k]), LineChar(Append(p, u \o v), w[k]))
    BY <2>1, <2>4, SplitOne
  <2>6. LineChar(Append(p, u \o v), w[k]) = Append(p, Append(u \o v, w[k]))
    BY <2>1, <2>4, LineCharDoes
  <2>7. /\ Append(d \o v, w[k]) = d \o Append(v, w[k])
        /\ Append(u \o v, w[k]) = u \o Append(v, w[k])
    BY <2>1, <2>2, AppendJoined
  <2>8. Read(k)
    BY <2>3, <2>5, <2>6, <2>7
  <2> HIDE DEF Read
  <2> QED BY <2>1, <2>8
<1>5. \A k \in 0..n : k \in G
  <2> HIDE DEF G, n
  <2> QED BY <1>1, <1>3, <1>4, StepByStep
<1>6. Read(n)
  <2>1. n \in 0..n
    BY <1>1
  <2> HIDE DEF Read, n
  <2> QED BY <1>5, <2>1
<1>7. SubSeq(w, 1, n) = w
  BY <1>1 DEF Chars
<1> QED
  BY <1>6, <1>7

\* Two characters appended one after the other.
LEMMA AppendTwo ==
  ASSUME NEW e \in Chars, NEW c \in Int, NEW l \in Int
  PROVE  Append(Append(e, c), l) = e \o <<c, l>>
<1>0. <<c>> \in Chars /\ Append(<<c>>, l) = <<c, l>>
  <2>1. <<c>> \in Chars
    BY DEF Chars
  <2>2. <<c>> \in Seq(Int) /\ Len(<<c>>) = 1
    OBVIOUS
  <2>3. Append(<<c>>, l) = <<c, l>>
    <3>1. PICK y, z : y = Append(<<c>>, l) /\ z = <<c, l>>
      OBVIOUS
    <3>2. y \in Seq(Int) /\ Len(y) = 2 /\ y[1] = c /\ y[2] = l
      BY <3>1
    <3>3. z \in Seq(Int) /\ Len(z) = 2 /\ z[1] = c /\ z[2] = l
      BY <3>1
    <3>4. \A i \in 1..Len(y) : y[i] = z[i]
      <4>1. \A i \in 1..2 : i = 1 \/ i = 2
        OBVIOUS
      <4> QED BY <3>2, <3>3, <4>1
    <3>5. y = z
      BY ONLY <3>2, <3>3, <3>4, SeqEqual
    <3> QED BY <3>1, <3>5
  <2> QED BY <2>1, <2>3
<1>1. PICK x : x = <<c>> /\ x \in Chars /\ Append(x, l) = <<c, l>>
  BY <1>0
<1>2. e \o x = Append(e, c)
  BY <1>1 DEF Chars
<1>3. Append(e \o x, l) = e \o Append(x, l)
  BY <1>1, AppendJoined
<1> QED
  BY <1>1, <1>2, <1>3

\* A line of a head: not empty, and no line end in it.
HeadLine(w) ==
  /\ w \in Chars /\ w # <<>>
  /\ \A i \in 1..Len(w) : w[i] # LF /\ w[i] # CR

\* A text in which no line is empty.
NoBlank(d) ==
  /\ d \in Chars /\ d # <<>>
  /\ d[Len(d)] # LF /\ d[Len(d)] # CR
  /\ \A i \in 1..(Len(d) - 1) : d[i] = LF => d[i + 1] # CR

\* d[k] is what the first k lines are together, with line ends between them.
Glued(d, lines) ==
  /\ d[1] = lines[1]
  /\ \A k \in 2..Len(lines) : d[k] = d[k - 1] \o <<CR, LF>> \o lines[k]

\* The finished lines still have their CR.
Ended(lines, k) == [j \in 1..k |-> Append(lines[j], CR)]

\* One more line leaves no blank one.
LEMMA NoBlankGrows ==
  ASSUME NEW d, NoBlank(d), NEW w, HeadLine(w)
  PROVE  NoBlank(d \o <<CR, LF>> \o w)
<1>1. d \in Chars /\ w \in Chars /\ Len(d) \in Nat \ {0} /\ Len(w) \in Nat \ {0} /\ CR # LF
  BY DEF NoBlank, HeadLine, Chars, CR, LF
<1> DEFINE b == d \o <<CR, LF>> \o w
<1>2. /\ b \in Chars /\ Len(b) = Len(d) + 2 + Len(w)
      /\ \A i \in 1..Len(d) : b[i] = d[i]
      /\ b[Len(d) + 1] = CR /\ b[Len(d) + 2] = LF
      /\ \A i \in 1..Len(w) : b[Len(d) + 2 + i] = w[i]
  BY <1>1 DEF Chars, CR, LF
<1> HIDE DEF b
<1>3. b # <<>>
  BY <1>1, <1>2
<1>4. b[Len(b)] # LF /\ b[Len(b)] # CR
  BY <1>1, <1>2 DEF HeadLine
<1>5. ASSUME NEW i \in 1..(Len(b) - 1), b[i] = LF PROVE b[i + 1] # CR
  <2>1. CASE i \in 1..(Len(d) - 1)
    <3>1. i \in 1..Len(d) /\ i + 1 \in 1..Len(d)
      BY <1>1, <2>1
    <3> QED BY <1>2, <1>5, <2>1, <3>1 DEF NoBlank
  <2>2. CASE i = Len(d)
    <3>1. i \in 1..Len(d)
      BY <1>1, <2>2
    <3> QED BY <1>2, <1>5, <2>2, <3>1 DEF NoBlank
  <2>3. CASE i = Len(d) + 1
    BY <1>1, <1>2, <1>5, <2>3
  <2>4. CASE i \in (Len(d) + 2)..(Len(b) - 1)
    <3>1. PICK j \in 1..Len(w) : i + 1 = Len(d) + 2 + j
      <4>1. (i + 1) - (Len(d) + 2) \in 1..Len(w)
        BY <1>1, <1>2, <2>4
      <4>2. i + 1 = Len(d) + 2 + ((i + 1) - (Len(d) + 2))
        BY <1>1, <2>4
      <4> QED BY <4>1, <4>2
    <3>2. b[i + 1] = w[j]
      BY <1>2, <3>1
    <3> QED BY <3>2 DEF HeadLine
  <2> QED BY <1>1, <1>2, <2>1, <2>2, <2>3, <2>4
<1>6. NoBlank(b)
  BY <1>2, <1>3, <1>4, <1>5 DEF NoBlank
<1> QED
  BY <1>6 DEF b

\* SplitLines gives the lines back.
LEMMA HeadSplits ==
  ASSUME NEW lines \in Seq(Chars), Len(lines) > 0, \A k \in 1..Len(lines) : HeadLine(lines[k]),
         NEW d, Glued(d, lines)
  PROVE  NoBlank(d[Len(lines)]) /\ SplitLines(d[Len(lines)]) = lines
<1> DEFINE n == Len(lines)
           Good(k) == NoBlank(d[k]) /\ Splits(d[k], Append(Ended(lines, k - 1), lines[k]))
           G == {k \in 0..n : k > 0 => Good(k)}
<1>1. n \in Nat /\ n > 0 /\ \A k \in 1..n : lines[k] \in Chars /\ HeadLine(lines[k])
  OBVIOUS
<1>2. 0 \in G
  BY <1>1
<1>3. Good(1)
  <2>1. lines[1] \in Chars /\ HeadLine(lines[1]) /\ d[1] = lines[1]
    BY <1>1 DEF Glued
  <2>2. PICK w : w = lines[1] /\ w \in Chars /\ HeadLine(w)
    BY <2>1
  <2>3. NoBlank(w)
    BY <2>2 DEF NoBlank, HeadLine, Chars
  <2>4. Splits(<<>>, << <<>> >>)
    <3>1. << <<>> >> \in Seq(Chars)
      BY DEF Chars
    <3>0. PICK x : x = << <<>> >>
      OBVIOUS
    <3>2. PICK e : e = <<>> /\ Len(e) = 0
      OBVIOUS
    <3> DEFINE s == [k \in 0..0 |-> x]
    <3>3. s[0] = x
      OBVIOUS
    <3> HIDE DEF s
    <3>4. x \in Seq(Chars) /\ s[0] = << <<>> >>
      BY <3>0, <3>1, <3>3
    <3>5. LineScan(s, e)
      <4>1. \A k \in 0..Len(e) : s[k] \in Seq(Chars)
        <5>1. 0..Len(e) = 0..0 /\ \A k \in 0..0 : k = 0
          BY <3>2
        <5>2. s[0] \in Seq(Chars)
          BY <3>3, <3>4
        <5> QED BY <5>1, <5>2
      <4>2. \A k \in 1..Len(e) : s[k] = LineChar(s[k - 1], e[k])
        BY <3>2
      <4> QED BY <3>4, <4>1, <4>2 DEF LineScan
    <3>6. Splits(e, x)
      BY <3>2, <3>3, <3>5 DEF Splits
    <3> QED BY <3>0, <3>2, <3>6
  <2>5. <<>> \in Chars /\ <<>> \in Seq(Chars) /\ Append(<<>>, <<>>) = << <<>> >>
    BY DEF Chars
  <2>6. Splits(<<>> \o w, Append(<<>>, <<>> \o w))
    <3>1. \A i \in 1..Len(w) : w[i] # LF
      BY <2>2 DEF HeadLine
    <3> QED BY <2>2, <2>4, <2>5, <3>1, SplitWord
  <2>7. <<>> \o w = w
    BY <2>2 DEF Chars
  <2>8. Ended(lines, 1 - 1) = <<>>
    BY DEF Ended
  <2> QED BY <2>1, <2>2, <2>3, <2>6, <2>7, <2>8
<1>4. ASSUME NEW k \in 1..n, k - 1 \in G PROVE k \in G
  <2>1. CASE k = 1
    <3> HIDE DEF Good
    <3> QED BY <1>1, <1>3, <2>1
  <2>2. CASE k > 1
    <3>1. k \in 0..n /\ k \in 2..n /\ k - 1 \in 1..n /\ k - 1 > 0
      BY <1>1, <2>2
    <3>2. NoBlank(d[k - 1]) /\ Splits(d[k - 1], Append(Ended(lines, (k - 1) - 1), lines[k - 1]))
      BY <1>4, <3>1
    <3>3. d[k] = d[k - 1] \o <<CR, LF>> \o lines[k]
      BY <3>1 DEF Glued
    <3>4. PICK e, p, u, w : /\ e = d[k - 1] /\ p = Ended(lines, (k - 1) - 1)
                            /\ u = lines[k - 1] /\ w = lines[k]
      OBVIOUS
    <3>5. e \in Chars /\ u \in Chars /\ w \in Chars /\ HeadLine(w)
      BY <1>1, <3>1, <3>2, <3>4 DEF NoBlank
    <3>6. p \in Seq(Chars) /\ Append(p, Append(u, CR)) = Ended(lines, k - 1)
      <4>1. \A j \in 1..n : Append(lines[j], CR) \in Chars
        BY <1>1 DEF Chars, CR
      <4>2. PICK g : g = [j \in 1..n |-> Append(lines[j], CR)]
        OBVIOUS
      <4>3. g \in Seq(Chars) /\ Len(g) = n
        <5> HIDE DEF n
        <5> QED BY <1>1, <4>1, <4>2
      <4>4. \A m \in 0..n : Ended(lines, m) = SubSeq(g, 1, m)
        <5> SUFFICES ASSUME NEW m \in 0..n PROVE Ended(lines, m) = SubSeq(g, 1, m)
          OBVIOUS
        <5>1. SubSeq(g, 1, m) = [j \in 1..m |-> g[j]]
          BY <1>1, <4>3
        <5>2. \A j \in 1..m : g[j] = Append(lines[j], CR)
          BY <1>1, <4>2
        <5> QED BY <5>1, <5>2 DEF Ended
      <4>5. p = SubSeq(g, 1, (k - 1) - 1) /\ Ended(lines, k - 1) = SubSeq(g, 1, k - 1)
        BY <1>1, <3>1, <3>4, <4>4
      <4>6. g[k - 1] = Append(u, CR)
        BY <3>1, <3>4, <4>2
      <4>7. Append(SubSeq(g, 1, (k - 1) - 1), g[k - 1]) = SubSeq(g, 1, k - 1)
        BY <1>1, <3>1, <4>3
      <4> QED BY <1>1, <3>1, <4>3, <4>5, <4>6, <4>7
    <3>7. CR \in Int /\ LF \in Int /\ CR # LF
      BY DEF CR, LF
    <3>8. Splits(Append(e, CR), Append(p, Append(u, CR)))
      <4>1. Splits(Append(e, CR), LineChar(Append(p, u), CR))
        BY <3>2, <3>4, <3>5, <3>6, <3>7, SplitOne
      <4>2. LineChar(Append(p, u), CR) = Append(p, Append(u, CR))
        BY <3>5, <3>6, <3>7, LineCharDoes
      <4> QED BY <4>1, <4>2
    <3>9. PICK q, v : q = Append(e, CR) /\ v = Append(u, CR) /\ q \in Chars /\ v \in Chars
      <4>1. Append(e, CR) \in Chars /\ Append(u, CR) \in Chars
        BY <3>5, <3>7 DEF Chars
      <4> QED BY <4>1
    <3>10. Splits(Append(q, LF), Append(Append(p, v), <<>>))
      <4>1. Splits(Append(q, LF), LineChar(Append(p, v), LF))
        BY <3>6, <3>7, <3>8, <3>9, SplitOne
      <4>2. LineChar(Append(p, v), LF) = Append(Append(p, v), <<>>)
        BY <3>6, <3>7, <3>9, LineCharDoes
      <4> QED BY <4>1, <4>2
    <3>11. PICK z, y : /\ z = Append(q, LF) /\ z \in Chars
                       /\ y = Append(p, v) /\ y \in Seq(Chars)
      <4>1. Append(q, LF) \in Chars
        BY <3>7, <3>9 DEF Chars
      <4>2. Append(p, v) \in Seq(Chars)
        BY <3>6, <3>9
      <4> QED BY <4>1, <4>2
    <3>12. Splits(z \o w, Append(y, <<>> \o w))
      <4>1. \A i \in 1..Len(w) : w[i] # LF
        BY <3>5 DEF HeadLine
      <4>2. <<>> \in Chars
        BY DEF Chars
      <4> QED BY <3>5, <3>10, <3>11, <4>1, <4>2, SplitWord
    <3>13. <<>> \o w = w
      BY <3>5 DEF Chars
    <3>14. z \o w = e \o <<CR, LF>> \o w
      <4>1. Append(Append(e, CR), LF) = e \o <<CR, LF>>
        BY <3>5, <3>7, AppendTwo
      <4>2. z = e \o <<CR, LF>>
        BY <3>9, <3>11, <4>1
      <4> QED BY <4>2
    <3>15. Splits(d[k], Append(Ended(lines, k - 1), lines[k]))
      BY <3>3, <3>4, <3>6, <3>9, <3>11, <3>12, <3>13, <3>14
    <3>16. NoBlank(d[k])
      BY <3>2, <3>3, <3>4, <3>5, NoBlankGrows
    <3> QED BY <3>1, <3>15, <3>16
  <2> QED BY <1>1, <2>1, <2>2
<1>5. \A k \in 0..n : k \in G
  <2> HIDE DEF G, n
  <2> QED BY <1>1, <1>2, <1>4, StepByStep
<1>6. Good(n)
  <2> HIDE DEF Good
  <2> QED BY <1>1, <1>5
<1> DEFINE ls == Append(Ended(lines, n - 1), lines[n])
<1>7. SplitLines(d[n]) = [i \in DOMAIN ls |-> Chomp(ls[i])]
  BY <1>6, SplitDef DEF NoBlank
<1>8. DOMAIN ls = 1..n /\ ls[n] = lines[n] /\ \A i \in 1..(n - 1) : ls[i] = Append(lines[i], CR)
  <2>1. PICK e : e = Ended(lines, n - 1)
    OBVIOUS
  <2>2. e = [j \in 1..(n - 1) |-> Append(lines[j], CR)]
    BY <2>1 DEF Ended
  <2>3. \A j \in 1..(n - 1) : Append(lines[j], CR) \in Chars
    BY <1>1 DEF Chars, CR
  <2>4. e \in Seq(Chars) /\ Len(e) = n - 1
    <3> HIDE DEF n
    <3> QED BY <1>1, <2>2, <2>3
  <2>5. \A i \in 1..(n - 1) : e[i] = Append(lines[i], CR)
    BY <2>2
  <2>6. PICK w : w = lines[n] /\ w \in Chars
    BY <1>1
  <2> HIDE DEF n
  <2> QED BY <1>1, <2>1, <2>4, <2>5, <2>6
<1>9. ASSUME NEW i \in 1..n PROVE Chomp(ls[i]) = lines[i]
  <2>1. PICK l : l = lines[i] /\ l \in Chars /\ HeadLine(l)
    BY <1>1
  <2>2. CASE i = n
    <3>1. l # <<>> /\ Last(l) # CR
      BY <2>1 DEF HeadLine, Last, Chars
    <3> QED BY <1>8, <2>1, <2>2, <3>1 DEF Chomp
  <2>3. CASE i # n
    <3>1. ls[i] = Append(l, CR)
      BY <1>1, <1>8, <2>1, <2>3
    <3>2. Append(l, CR) # <<>> /\ Last(Append(l, CR)) = CR /\ Front(Append(l, CR)) = l
      <4>1. ASSUME NEW c \in Int
            PROVE  Append(l, c) # <<>> /\ Last(Append(l, c)) = c /\ Front(Append(l, c)) = l
        BY <2>1 DEF Last, Front, Chars
      <4>2. CR \in Int
        BY DEF CR
      <4> QED BY <4>1, <4>2
    <3> QED BY <2>1, <3>1, <3>2 DEF Chomp
  <2> QED BY <2>2, <2>3
<1>10. lines = [i \in 1..n |-> lines[i]]
  OBVIOUS
<1>11. SplitLines(d[n]) = [i \in 1..n |-> lines[i]]
  <2> HIDE DEF ls, n
  <2> QED BY <1>7, <1>8, <1>9
<1> QED
  BY <1>6, <1>10, <1>11

\* The line of a field in the head of a request.
FieldLine(f) == f[1] \o <<Colon, Space>> \o f[2]

\* Names and values a head can carry: no line end, no colon in the name, no space
\* at the edges of the value.
PlainName(w) ==
  /\ w \in Chars
  /\ \A i \in 1..Len(w) : w[i] # LF /\ w[i] # CR /\ w[i] # Colon
PlainValue(w) ==
  /\ w \in Chars
  /\ \A i \in 1..Len(w) : w[i] # LF /\ w[i] # CR
  /\ w # <<>> => w[1] # Space /\ w[Len(w)] # Space
PlainField == {f \in Chars \X Chars : PlainName(f[1]) /\ PlainValue(f[2])}

\* The space behind the colon is dropped, and nothing else is.
LEMMA TrimDoes ==
  ASSUME NEW v, PlainValue(v)
  PROVE  Trim(<<Space>> \o v) = v
<1>1. v \in Chars /\ Len(v) \in Nat
  BY DEF PlainValue, Chars
<1>2. PICK x : x = <<Space>> \o v
  OBVIOUS
<1>3. /\ x \in Chars /\ Len(x) = Len(v) + 1 /\ x[1] = Space
      /\ \A i \in 1..Len(v) : x[i + 1] = v[i]
  BY <1>1, <1>2 DEF Chars, Space
<1> DEFINE ink == {i \in DOMAIN x : x[i] # Space}
           first == CHOOSE i \in ink : \A j \in ink : i <= j
           final == CHOOSE i \in ink : \A j \in ink : i >= j
<1>4. DOMAIN x = 1..(Len(v) + 1)
  BY <1>3 DEF Chars
<1>5. CASE v = <<>>
  <2>1. ink = {}
    BY <1>3, <1>4, <1>5
  <2> QED BY <1>2, <1>5, <2>1 DEF Trim
<1>6. CASE v # <<>>
  <2>1. Len(v) \in Nat \ {0} /\ v[1] # Space /\ v[Len(v)] # Space
    BY <1>1, <1>6 DEF PlainValue, Chars
  <2>2. 2 \in ink /\ Len(v) + 1 \in ink
    <3>1. x[1 + 1] = v[1] /\ x[Len(v) + 1] = v[Len(v)]
      BY <1>3, <2>1
    <3> QED BY <1>4, <2>1, <3>1
  <2>3. \A j \in ink : j \in Int /\ 2 <= j /\ j <= Len(v) + 1
    BY <1>3, <1>4, <2>1
  <2>4. first = 2 /\ final = Len(v) + 1
    <3> HIDE DEF ink
    <3>1. first = 2
      <4>1. \A j \in ink : 2 <= j
        BY <2>3
      <4>2. first \in ink /\ \A j \in ink : first <= j
        BY <2>2, <4>1
      <4>3. first <= 2 /\ 2 <= first /\ first \in Int
        BY <2>2, <2>3, <4>2
      <4> QED BY ONLY <4>3
    <3>2. final = Len(v) + 1
      <4>1. \A j \in ink : Len(v) + 1 >= j
        BY <1>1, <2>3
      <4>2. final \in ink /\ \A j \in ink : final >= j
        BY <2>2, <4>1
      <4>3. final >= Len(v) + 1 /\ Len(v) + 1 >= final /\ final \in Int
        BY <2>2, <2>3, <4>1, <4>2
      <4> QED BY ONLY <1>1, <4>3
    <3> QED BY <3>1, <3>2
  <2>5. Trim(x) = SubSeq(x, first, final)
    <3>1. ink # {}
      BY <2>2
    <3> QED BY <3>1 DEF Trim
  <2>6. SubSeq(x, 2, Len(v) + 1) = v
    <3>1. PICK y : y = SubSeq(x, 2, Len(v) + 1)
      OBVIOUS
    <3>2. y \in Seq(Int) /\ Len(y) = Len(v) /\ \A i \in 1..Len(v) : y[i] = x[i + 1]
      BY <1>1, <1>3, <2>1, <3>1 DEF Chars
    <3>3. \A i \in 1..Len(y) : y[i] = v[i]
      BY <1>3, <3>2
    <3>4. v \in Seq(Int)
      BY <1>1 DEF Chars
    <3>5. y = v
      BY ONLY <3>2, <3>3, <3>4, SeqEqual
    <3> QED BY <3>1, <3>5
  <2>7. Trim(x) = SubSeq(x, 2, Len(v) + 1)
    BY <2>4, <2>5
  <2> QED BY <1>2, <2>6, <2>7
<1> QED
  BY <1>5, <1>6

\* FieldOf gives the field back.
LEMMA FieldReturns ==
  ASSUME NEW f \in PlainField
  PROVE  HeadLine(FieldLine(f)) /\ IsField(FieldLine(f)) /\ FieldOf(FieldLine(f)) = f
<1>1. PICK n, v : n = f[1] /\ v = f[2] /\ f = <<n, v>> /\ PlainName(n) /\ PlainValue(v)
  BY DEF PlainField
<1>2. n \in Chars /\ v \in Chars /\ Len(n) \in Nat /\ Len(v) \in Nat
  BY <1>1 DEF PlainName, PlainValue, Chars
<1>3. PICK s : s = <<Colon, Space>> /\ s \in Chars /\ Len(s) = 2 /\ s[1] = Colon /\ s[2] = Space
  <2>1. ASSUME NEW c \in Int, NEW e \in Int
        PROVE  <<c, e>> \in Chars /\ Len(<<c, e>>) = 2 /\ <<c, e>>[1] = c /\ <<c, e>>[2] = e
    BY DEF Chars
  <2>2. PICK c, e : c = Colon /\ e = Space /\ c \in Int /\ e \in Int
    BY DEF Colon, Space
  <2>3. <<c, e>> \in Chars /\ Len(<<c, e>>) = 2 /\ <<c, e>>[1] = c /\ <<c, e>>[2] = e
    BY <2>1, <2>2
  <2> QED BY <2>2, <2>3, Zenon
<1>4. PICK l : l = n \o s \o v
  OBVIOUS
<1>5. FieldLine(f) = l
  BY <1>1, <1>3, <1>4 DEF FieldLine
<1>6. /\ l \in Chars /\ Len(l) = Len(n) + 2 + Len(v)
      /\ \A i \in 1..Len(n) : l[i] = n[i]
      /\ l[Len(n) + 1] = Colon /\ l[Len(n) + 2] = Space
      /\ \A i \in 1..Len(v) : l[Len(n) + 2 + i] = v[i]
  <2>1. PICK m : m = n \o s
    OBVIOUS
  <2>2. /\ m \in Chars /\ Len(m) = Len(n) + 2
        /\ \A i \in 1..Len(n) : m[i] = n[i]
        /\ m[Len(n) + 1] = Colon /\ m[Len(n) + 2] = Space
    BY <1>2, <1>3, <2>1 DEF Chars
  <2>3. /\ m \o v \in Chars /\ Len(m \o v) = Len(m) + Len(v)
        /\ \A i \in 1..Len(m) : (m \o v)[i] = m[i]
        /\ \A i \in 1..Len(v) : (m \o v)[Len(m) + i] = v[i]
    <3>1. m \in Chars /\ v \in Chars /\ Len(m) \in Nat
      BY <1>2, <2>2
    <3> QED BY ONLY <3>1 DEF Chars
  <2>4. l = m \o v
    BY <1>4, <2>1
  <2> QED BY <1>2, <2>2, <2>3, <2>4
<1>7. HeadLine(l)
  <2>1. l # <<>>
    BY <1>2, <1>6
  <2>2. ASSUME NEW i \in 1..Len(l) PROVE l[i] # LF /\ l[i] # CR
    <3>1. CASE i \in 1..Len(n)
      BY <1>1, <1>6, <3>1 DEF PlainName
    <3>2. CASE i = Len(n) + 1 \/ i = Len(n) + 2
      BY <1>6, <3>2 DEF Colon, Space, LF, CR
    <3>3. CASE i \in (Len(n) + 3)..Len(l)
      <4>1. PICK j : j = i - (Len(n) + 2)
        OBVIOUS
      <4>2. j \in 1..Len(v) /\ i = Len(n) + 2 + j
        BY <1>2, <1>6, <3>3, <4>1
      <4>3. l[i] = v[j]
        BY <1>6, <4>2
      <4> QED BY <1>1, <4>2, <4>3 DEF PlainValue
    <3> QED BY <1>2, <1>6, <3>1, <3>2, <3>3
  <2> QED BY <1>6, <2>1, <2>2 DEF HeadLine
<1>8. IsField(l)
  BY <1>2, <1>6 DEF IsField, Contains
<1> DEFINE I == {i \in 1..Len(l) : l[i] = Colon}
<1>9. Min(I) = Len(n) + 1 /\ I # {}
  <2>1. Len(n) + 1 \in I
    BY <1>2, <1>6
  <2>2. ASSUME NEW j \in I PROVE Len(n) + 1 <= j
    <3>1. j \notin 1..Len(n)
      <4> SUFFICES ASSUME j \in 1..Len(n) PROVE FALSE
        OBVIOUS
      <4>1. n[j] = Colon
        BY <1>6
      <4> QED BY <1>1, <4>1 DEF PlainName
    <3> QED BY <1>2, <1>6, <3>1
  <2>3. I \subseteq Nat
    BY <1>2, <1>6
  <2>4. Min(I) \in I /\ \A j \in I : Min(I) <= j
    <3> HIDE DEF I
    <3> QED BY <2>1, <2>3, LeastNumber
  <2>5. Min(I) <= Len(n) + 1 /\ Len(n) + 1 <= Min(I) /\ Min(I) \in Nat
    <3> HIDE DEF I
    <3> QED BY <2>1, <2>2, <2>3, <2>4
  <2>6. Min(I) = Len(n) + 1
    BY ONLY <1>2, <2>5
  <2> QED BY <2>1, <2>6
<1>10. SelectInSeq(l, LAMBDA c : c = Colon) = Len(n) + 1
  BY <1>9 DEF SelectInSeq
<1>11. SubSeq(l, 1, (Len(n) + 1) - 1) = n
  <2>1. PICK y : y = SubSeq(l, 1, (Len(n) + 1) - 1)
    OBVIOUS
  <2>2. y \in Seq(Int) /\ Len(y) = Len(n) /\ \A i \in 1..Len(n) : y[i] = l[i]
    BY <1>2, <1>6, <2>1 DEF Chars
  <2>3. \A i \in 1..Len(y) : y[i] = n[i]
    BY <1>6, <2>2
  <2>4. n \in Seq(Int)
    BY <1>2 DEF Chars
  <2>5. y = n
    BY ONLY <2>2, <2>3, <2>4, SeqEqual
  <2> QED BY <2>1, <2>5
<1>12. SubSeq(l, (Len(n) + 1) + 1, Len(l)) = <<Space>> \o v
  <2>1. PICK y, z : y = SubSeq(l, (Len(n) + 1) + 1, Len(l)) /\ z = <<Space>> \o v
    OBVIOUS
  <2>2. y \in Seq(Int) /\ Len(y) = Len(v) + 1 /\ \A i \in 1..Len(y) : y[i] = l[Len(n) + 1 + i]
    <3>1. PICK a, b : a = (Len(n) + 1) + 1 /\ b = Len(l) /\ a \in Int /\ b \in Int
                      /\ b - a + 1 = Len(v) + 1 /\ a <= b /\ a = Len(n) + 2 /\ a > 0
      BY <1>2, <1>6
    <3>2. \A i \in a..b : l[i] \in Int
      BY <1>6, <3>1 DEF Chars
    <3>3. y = SubSeq(l, a, b)
      BY <2>1, <3>1
    <3>4. /\ y \in Seq(Int) /\ Len(y) = b - a + 1
          /\ \A i \in 1..(b - a + 1) : y[i] = l[a + i - 1]
      BY <3>1, <3>2, <3>3, SubSeqProperties
    <3>5. \A i \in 1..Len(y) : a + i - 1 = Len(n) + 1 + i
      BY <1>2, <3>1, <3>4
    <3> QED BY <3>1, <3>4, <3>5
  <2>3. z \in Seq(Int) /\ Len(z) = Len(v) + 1 /\ z[1] = Space
        /\ \A i \in 1..Len(v) : z[i + 1] = v[i]
    BY <1>2, <2>1 DEF Chars, Space
  <2>4. ASSUME NEW i \in 1..Len(y) PROVE y[i] = z[i]
    <3>1. CASE i = 1
      BY <1>2, <1>6, <2>2, <2>3, <3>1
    <3>2. CASE i # 1
      <4>1. PICK j : j = i - 1
        OBVIOUS
      <4>2. j \in 1..Len(v) /\ i = j + 1 /\ Len(n) + 1 + i = Len(n) + 2 + j
        BY <1>2, <2>2, <3>2, <4>1
      <4>3. y[i] = l[Len(n) + 2 + j] /\ z[i] = v[j]
        BY <2>2, <2>3, <4>2
      <4> QED BY <1>6, <4>2, <4>3
    <3> QED BY <3>1, <3>2
  <2>5. y = z
    BY ONLY <2>2, <2>3, <2>4, SeqEqual
  <2> QED BY <2>1, <2>5
<1>13. FieldOf(l) = <<n, v>>
  <2>1. Trim(<<Space>> \o v) = v
    BY <1>1, TrimDoes
  <2>2. PICK a, b : a = SubSeq(l, 1, (Len(n) + 1) - 1) /\ b = SubSeq(l, (Len(n) + 1) + 1, Len(l))
    OBVIOUS
  <2>3. FieldOf(l) = <<a, Trim(b)>>
    BY <1>10, <2>2 DEF FieldOf
  <2> QED BY <1>11, <1>12, <2>1, <2>2, <2>3
<1> QED
  BY <1>1, <1>5, <1>7, <1>8, <1>13

\* No name occurs twice.
OneEach(fields) ==
  \A i, j \in 1..Len(fields) : i # j => ~SameName(fields[i][1], fields[j][1])

\* The fields are read back from their lines.
LEMMA FieldsReturn ==
  ASSUME NEW fields \in Seq(PlainField), OneEach(fields), NEW ls,
         Len(ls) = Len(fields), \A k \in 1..Len(fields) : ls[k] = FieldLine(fields[k])
  PROVE  FieldsOf(ls) = fields
<1> DEFINE n == Len(fields)
           Does(u, k) == IF IsField(ls[k]) THEN SetField(u, FieldOf(ls[k])) ELSE u
           Chain(h) == h = [k \in 0..n |-> IF k = 0 THEN <<>> ELSE Does(h[k - 1], k)]
           g == [k \in 0..n |-> SubSeq(fields, 1, k)]
<1>1. n \in Nat /\ \A k \in 1..n : fields[k] \in PlainField
  OBVIOUS
<1>2. g[0] = <<>> /\ g[n] = fields
  BY <1>1
<1>3. ASSUME NEW k \in 1..n PROVE g[k] = Does(g[k - 1], k)
  <2>1. IsField(ls[k]) /\ FieldOf(ls[k]) = fields[k]
    BY <1>1, FieldReturns
  <2>2. PICK f, p, q : f = fields[k] /\ p = g[k - 1] /\ q = g[k]
    OBVIOUS
  <2>3. k - 1 \in 0..n /\ k \in 0..n
    BY <1>1
  <2>4. p = SubSeq(fields, 1, k - 1) /\ q = SubSeq(fields, 1, k)
    BY <2>2, <2>3
  <2>5. /\ p \in Seq(PlainField) /\ Len(p) = k - 1 /\ \A i \in 1..(k - 1) : p[i] = fields[i]
        /\ q \in Seq(PlainField) /\ Len(q) = k /\ \A i \in 1..k : q[i] = fields[i]
    BY <1>1, <2>3, <2>4
  <2>6. PICK r : r = Append(p, f)
    OBVIOUS
  <2>7. /\ r \in Seq(PlainField) /\ Len(r) = k /\ r[k] = f
        /\ \A i \in 1..(k - 1) : r[i] = p[i]
    <3>1. f \in PlainField
      BY <1>1, <2>2
    <3>2. /\ r \in Seq(PlainField) /\ Len(r) = Len(p) + 1 /\ r[Len(p) + 1] = f
          /\ \A i \in 1..Len(p) : r[i] = p[i]
      BY ONLY <2>5, <2>6, <3>1
    <3> QED BY <1>1, <2>5, <3>2
  <2>8. \A i \in 1..Len(q) : q[i] = r[i]
    <3>1. \A i \in 1..k : i = k \/ i \in 1..(k - 1)
      BY <1>1
    <3>2. q[k] = f
      <4>1. k \in 1..k
        BY <1>1
      <4> QED BY <2>2, <2>5, <4>1
    <3>3. \A i \in 1..(k - 1) : i \in 1..k
      BY <1>1
    <3>4. \A i \in 1..(k - 1) : q[i] = fields[i] /\ p[i] = fields[i] /\ r[i] = p[i]
      BY <2>5, <2>7, <3>3
    <3> QED BY <2>5, <2>7, <3>1, <3>2, <3>4
  <2>9. q = r
    BY ONLY <2>5, <2>7, <2>8, SeqEqual
  <2>10. SetField(p, f) = Append(p, f)
    <3>1. ASSUME NEW i \in 1..Len(p) PROVE ~SameName(p[i][1], f[1])
      <4>1. i \in 1..(k - 1) /\ i \in 1..n /\ i # k
        BY <1>1, <2>5
      <4>2. p[i] = fields[i]
        BY <2>5, <4>1
      <4> QED BY <2>2, <4>1, <4>2 DEF OneEach
    <3>2. {i \in 1..Len(p) : SameName(p[i][1], f[1])} = {}
      BY <3>1
    <3> QED BY <3>2 DEF SetField
  <2> QED BY <2>1, <2>2, <2>6, <2>9, <2>10
<1>4. Chain(g)
  <2>1. ASSUME NEW k \in 0..n PROVE g[k] = IF k = 0 THEN <<>> ELSE Does(g[k - 1], k)
    <3> HIDE DEF Does, g
    <3>1. CASE k = 0
      BY <1>2, <3>1
    <3>2. CASE k # 0
      BY <1>1, <1>3, <3>2
    <3> QED BY <3>1, <3>2
  <2>2. g = [k \in 0..n |-> g[k]]
    OBVIOUS
  <2> HIDE DEF Does, g
  <2> QED BY <2>1, <2>2
<1>5. PICK h : h = CHOOSE c : Chain(c)
  OBVIOUS
<1>6. Chain(h)
  <2> HIDE DEF Does, g
  <2> QED BY <1>4, <1>5
<1>7. FieldsOf(ls) = h[n]
  BY <1>5 DEF FieldsOf
<1> DEFINE G == {k \in 0..n : h[k] = g[k]}
<1>8. 0 \in G
  BY <1>1, <1>2, <1>6
<1>9. ASSUME NEW k \in 1..n, k - 1 \in G PROVE k \in G
  <2> HIDE DEF Does, g
  <2>1. k \in 0..n /\ k # 0
    BY <1>1
  <2>2. h[k] = Does(h[k - 1], k) /\ g[k] = Does(g[k - 1], k)
    BY <1>3, <1>6, <2>1
  <2>3. h[k - 1] = g[k - 1]
    BY <1>9
  <2> QED BY <2>1, <2>2, <2>3
<1>10. \A k \in 0..n : k \in G
  <2> HIDE DEF G, n
  <2> QED BY <1>1, <1>8, <1>9, StepByStep
<1>11. h[n] = g[n]
  <2> HIDE DEF g
  <2> QED BY <1>1, <1>10
<1> QED
  BY <1>2, <1>7, <1>11

\* The methods that the reader knows.
LEMMA MethodReturns ==
  ASSUME NEW m \in {"GET", "POST", "PUT", "DELETE"}
  PROVE  MethodOf(<<MethodChar[m]>>) = m /\ HeadLine(<<MethodChar[m]>>)
<1>1. /\ MethodChar["GET"] = 71 /\ MethodChar["POST"] = 80
      /\ MethodChar["PUT"] = 85 /\ MethodChar["DELETE"] = 68
  BY DEF MethodChar
<1> DEFINE known == {w \in {"GET", "POST", "PUT", "DELETE"} :
                       <<MethodChar[m]>> = <<MethodChar[w]>>}
<1>2. known = {m}
  <2>1. ASSUME NEW w \in {"GET", "POST", "PUT", "DELETE"}, w # m
        PROVE  MethodChar[m] # MethodChar[w]
    BY <1>1, <2>1
  <2>2. \A x, y : <<x>> = <<y>> => x = y
    OBVIOUS
  <2> QED BY <2>1, <2>2
<1>3. MethodOf(<<MethodChar[m]>>) = m
  <2>1. MethodOf(<<MethodChar[m]>>) = IF known = {} THEN "unknown" ELSE CHOOSE w \in known : TRUE
    BY DEF MethodOf
  <2> HIDE DEF known
  <2> QED BY <1>2, <2>1
<1>4. HeadLine(<<MethodChar[m]>>)
  <2>1. PICK c : c = MethodChar[m] /\ c \in Int /\ c # LF /\ c # CR
    BY <1>1 DEF LF, CR
  <2>2. <<c>> \in Chars /\ <<c>> # <<>> /\ \A i \in 1..Len(<<c>>) : <<c>>[i] = c
    BY <2>1 DEF Chars
  <2> QED BY <2>1, <2>2 DEF HeadLine
<1> QED
  BY <1>3, <1>4

\* The requests the link can carry: a method the reader knows, plain fields of
\* which no two have the same name, any body.
PlainRequest ==
  [method : {"GET", "POST", "PUT", "DELETE"}, fields : {fs \in Seq(PlainField) : OneEach(fs)},
   body : Chars]

\* The lines of its head.
LinesOf(r) ==
  [k \in 1..(Len(r.fields) + 1) |->
     IF k = 1 THEN <<MethodChar[r.method]>> ELSE FieldLine(r.fields[k - 1])]

\* No line of a request's head is empty or holds a line end.
LEMMA LinesAreLines ==
  ASSUME NEW r \in PlainRequest
  PROVE  /\ LinesOf(r) \in Seq(Chars) /\ Len(LinesOf(r)) = Len(r.fields) + 1
         /\ \A k \in 1..Len(LinesOf(r)) : HeadLine(LinesOf(r)[k])
<1>1. PICK m, fs : /\ m = r.method /\ fs = r.fields /\ m \in {"GET", "POST", "PUT", "DELETE"}
                   /\ fs \in Seq(PlainField)
  BY DEF PlainRequest
<1>2. PICK n : n = Len(fs) + 1 /\ n \in Nat
  BY <1>1
<1>3. ASSUME NEW k \in 1..n PROVE HeadLine(LinesOf(r)[k])
  <2>1. CASE k = 1
    BY <1>1, <1>2, <2>1, MethodReturns DEF LinesOf
  <2>2. CASE k # 1
    <3>1. k - 1 \in 1..Len(fs)
      BY <1>1, <1>2, <2>2
    <3>2. fs[k - 1] \in PlainField
      BY <1>1, <3>1
    <3>3. LinesOf(r)[k] = FieldLine(fs[k - 1])
      BY <1>1, <1>2, <2>2 DEF LinesOf
    <3> QED BY <3>2, <3>3, FieldReturns
  <2> QED BY <2>1, <2>2
<1>4. PICK ls : ls = LinesOf(r)
  OBVIOUS
<1>5. ls = [k \in 1..n |-> ls[k]]
  BY <1>1, <1>2, <1>4 DEF LinesOf
<1>6. \A k \in 1..n : ls[k] \in Chars
  BY <1>3, <1>4 DEF HeadLine
<1>7. ls \in Seq(Chars) /\ Len(ls) = n
  BY ONLY <1>2, <1>5, <1>6
<1> QED
  BY <1>1, <1>2, <1>3, <1>4, <1>7

\* Joining is associative.
LEMMA JoinedAgain ==
  ASSUME NEW a \in Chars, NEW b \in Chars, NEW c \in Chars
  PROVE  a \o b \in Chars /\ (a \o b) \o c = a \o (b \o c)
<1>1. a \in Seq(Int) /\ b \in Seq(Int) /\ c \in Seq(Int)
  BY DEF Chars
<1>2. a \o b \in Chars
  BY DEF Chars
<1>3. (a \o b) \o c = a \o (b \o c)
  BY ONLY <1>1, ConcatAssociative
<1> QED
  BY <1>2, <1>3

\* A head and a body, with a blank line between them.
HeadAndBody(d, body) == (d \o <<CR, LF, CR, LF>>) \o body

\* The text of a request is its lines, a blank line and the body.
LEMMA TextShape ==
  ASSUME NEW r \in PlainRequest
  PROVE  \E d : /\ Glued(d, LinesOf(r))
                /\ Text(r) = HeadAndBody(d[Len(LinesOf(r))], r.body)
<1>1. PICK m, fs, body : /\ m = r.method /\ fs = r.fields /\ body = r.body
                         /\ m \in {"GET", "POST", "PUT", "DELETE"}
                         /\ fs \in Seq(PlainField) /\ body \in Chars
  BY DEF PlainRequest
<1>2. PICK n : n = Len(fs) /\ n \in Nat
  BY <1>1
<1>3. PICK x, y, z, top : /\ x = <<MethodChar[m]>> /\ x \in Chars
                          /\ y = <<CR, LF>> /\ y \in Chars
                          /\ z = <<CR, LF, CR, LF>> /\ z \in Chars
                          /\ top = <<MethodChar[m], CR, LF>> /\ top \in Chars
                          /\ z = y \o y /\ top = x \o y
  <2>1. PICK c, a, b : c = MethodChar[m] /\ a = CR /\ b = LF /\ c \in Int /\ a \in Int /\ b \in Int
    BY <1>1 DEF MethodChar, CR, LF
  <2>2. <<c>> \in Chars /\ <<a, b>> \in Chars /\ <<a, b, a, b>> \in Chars /\ <<c, a, b>> \in Chars
    BY <2>1 DEF Chars
  <2>3. <<a, b, a, b>> = <<a, b>> \o <<a, b>>
    BY <2>1
  <2>4. <<c, a, b>> = <<c>> \o <<a, b>>
    BY <2>1
  <2> QED BY <2>1, <2>2, <2>3, <2>4
<1> DEFINE pieces == [i \in DOMAIN fs |-> FieldText(fs[i])]
<1>4. ASSUME NEW k \in 1..n
      PROVE  /\ FieldLine(fs[k]) \in Chars
             /\ FieldText(fs[k]) = FieldLine(fs[k]) \o y /\ FieldText(fs[k]) \in Chars
  <2>1. FieldLine(fs[k]) \in Chars
    BY <1>1, <1>2, FieldReturns DEF HeadLine
  <2>2. FieldText(fs[k]) = FieldLine(fs[k]) \o y
    BY <1>3 DEF FieldText, FieldLine
  <2>3. FieldLine(fs[k]) \o y \in Chars
    BY <1>3, <2>1 DEF Chars
  <2> QED BY <2>1, <2>2, <2>3
<1>5. pieces \in Seq(Chars) /\ Len(pieces) = n /\ \A k \in 1..n : pieces[k] = FieldText(fs[k])
  <2>1. pieces = [i \in 1..n |-> pieces[i]]
    BY <1>1, <1>2
  <2>2. \A i \in 1..n : pieces[i] \in Chars /\ pieces[i] = FieldText(fs[i])
    BY <1>1, <1>2, <1>4
  <2>3. pieces \in Seq(Chars) /\ Len(pieces) = n
    <3> HIDE DEF pieces
    <3> QED BY ONLY <1>2, <2>1, <2>2
  <2> QED BY <2>2, <2>3
<1>6. PICK e : Joined(e, pieces) /\ FlattenSeq(pieces) = e[n]
  <2> HIDE DEF pieces
  <2> QED BY <1>5, FlattenDef
<1>7. /\ \A k \in 0..n : e[k] \in Chars
      /\ e[0] = <<>> /\ \A k \in 1..n : e[k] = e[k - 1] \o (FieldLine(fs[k]) \o y)
  <2> HIDE DEF pieces
  <2> QED BY <1>4, <1>5, <1>6 DEF Joined
<1> DEFINE d == [k \in 1..(n + 1) |->
                   IF k = 1 THEN x ELSE (top \o e[k - 2]) \o FieldLine(fs[k - 1])]
<1>8. d[1] = x /\ \A k \in 1..n : d[k + 1] = (top \o e[k - 1]) \o FieldLine(fs[k])
  <2>1. ASSUME NEW k \in 1..n PROVE d[k + 1] = (top \o e[k - 1]) \o FieldLine(fs[k])
    <3>1. k + 1 \in 1..(n + 1) /\ k + 1 # 1 /\ (k + 1) - 2 = k - 1 /\ (k + 1) - 1 = k
      BY <1>2
    <3> QED BY <3>1
  <2>2. d[1] = x
    BY <1>2
  <2> QED BY <2>1, <2>2
<1>9. ASSUME NEW k \in 0..n PROVE top \o e[k] = d[k + 1] \o y /\ d[k + 1] \in Chars
  <2> HIDE DEF d
  <2>1. CASE k = 0
    <3>1. top \o <<>> = top
      BY <1>3 DEF Chars
    <3>2. e[k] = <<>>
      BY <1>7, <2>1
    <3>3. k + 1 = 1
      BY <2>1
    <3>4. d[k + 1] = x
      BY <1>8, <3>3
    <3>5. top \o e[k] = top
      BY <3>1, <3>2, Zenon
    <3> QED BY <1>3, <3>4, <3>5
  <2>2. CASE k # 0
    <3>1. k \in 1..n /\ k - 1 \in 0..n
      BY <1>2, <2>2
    <3>2. PICK l, p : l = FieldLine(fs[k]) /\ p = e[k - 1] /\ l \in Chars /\ p \in Chars
      BY <1>4, <1>7, <3>1
    <3>3. e[k] = p \o (l \o y) /\ d[k + 1] = (top \o p) \o l
      BY <1>7, <1>8, <3>1, <3>2
    <3>4. PICK u, v : u = l \o y /\ v = top \o p /\ u \in Chars /\ v \in Chars
      <4>1. l \o y \in Chars /\ top \o p \in Chars
        BY <1>3, <3>2 DEF Chars
      <4> QED BY <4>1
    <3>5. v \o u = top \o (p \o u)
      <4>1. top \in Chars /\ p \in Chars /\ u \in Chars
        BY <1>3, <3>2, <3>4
      <4>2. (top \o p) \o u = top \o (p \o u)
        BY ONLY <4>1, JoinedAgain
      <4> QED BY <3>4, <4>2
    <3>6. (v \o l) \o y = v \o u /\ v \o l \in Chars
      <4>1. v \in Chars /\ l \in Chars /\ y \in Chars
        BY <1>3, <3>2, <3>4
      <4>2. (v \o l) \o y = v \o (l \o y) /\ v \o l \in Chars
        BY ONLY <4>1, JoinedAgain
      <4> QED BY <3>4, <4>2
    <3> QED BY <3>3, <3>4, <3>5, <3>6
  <2> QED BY <2>1, <2>2
<1>10. PICK ls : ls = LinesOf(r) /\ Len(ls) = n + 1
  BY <1>1, <1>2, LinesAreLines
<1>11. ls[1] = x /\ \A k \in 1..n : ls[k + 1] = FieldLine(fs[k])
  <2>1. ls[1] = x
    BY <1>1, <1>2, <1>3, <1>10 DEF LinesOf
  <2>2. ASSUME NEW k \in 1..n PROVE ls[k + 1] = FieldLine(fs[k])
    <3>1. k + 1 \in 1..(n + 1) /\ k + 1 # 1 /\ (k + 1) - 1 = k
      BY <1>2
    <3> QED BY <1>1, <1>2, <1>10, <3>1 DEF LinesOf
  <2> QED BY <2>1, <2>2
<1>12. Glued(d, ls)
  <2> HIDE DEF d
  <2>1. ASSUME NEW j \in 2..(n + 1) PROVE d[j] = d[j - 1] \o y \o ls[j]
    <3>1. PICK k : k = j - 1 /\ k \in 1..n /\ k + 1 = j /\ k - 1 \in 0..n /\ (k - 1) + 1 = k
      BY <1>2
    <3>2. d[k + 1] = (top \o e[k - 1]) \o ls[k + 1]
      BY <1>8, <1>11, <3>1
    <3>3. top \o e[k - 1] = d[k] \o y
      BY <1>9, <3>1
    <3> QED BY <3>1, <3>2, <3>3
  <2>2. d[1] = ls[1]
    BY <1>8, <1>11
  <2> QED BY <1>3, <1>10, <2>1, <2>2 DEF Glued
<1>13. Text(r) = (d[n + 1] \o z) \o body
  <2> HIDE DEF d
  <2>1. Text(r) = ((top \o FlattenSeq(pieces)) \o y) \o body
    BY <1>1, <1>3 DEF Text
  <2>2. top \o FlattenSeq(pieces) = d[n + 1] \o y /\ d[n + 1] \in Chars
    <3> HIDE DEF pieces
    <3>1. n \in 0..n
      BY <1>2
    <3>2. top \o e[n] = d[n + 1] \o y /\ d[n + 1] \in Chars
      BY <1>9, <3>1
    <3> QED BY <1>6, <3>2, Zenon
  <2>3. (d[n + 1] \o y) \o y = d[n + 1] \o (y \o y)
    BY <1>3, <2>2, JoinedAgain
  <2> QED BY <1>3, <2>1, <2>2, <2>3
<1>14. Text(r) = HeadAndBody(d[Len(ls)], r.body)
  <2> HIDE DEF d
  <2> QED BY <1>1, <1>3, <1>10, <1>13 DEF HeadAndBody
<1>15. \E c : Glued(c, ls) /\ Text(r) = HeadAndBody(c[Len(ls)], r.body)
  <2> HIDE DEF d
  <2> QED BY <1>12, <1>14
<1> QED
  BY <1>10, <1>15

\* Where parse_http_request finds a blank line.
Ends(t) == {i \in 1..(Len(t) - 3) : SubSeq(t, i, i + 3) = <<CR, LF, CR, LF>>}
\* ... and the first of those places.
Cut(t) == CHOOSE i \in Ends(t) : \A j \in Ends(t) : i <= j

\* Where the characters of two texts are when they are joined.
LEMMA JoinedParts ==
  ASSUME NEW a \in Chars, NEW b \in Chars
  PROVE  /\ a \o b \in Chars /\ Len(a \o b) = Len(a) + Len(b)
         /\ \A i \in 1..Len(a) : (a \o b)[i] = a[i]
         /\ \A i \in 1..Len(b) : (a \o b)[Len(a) + i] = b[i]
BY DEF Chars

\* When four characters of a text are c, l, c, l.
LEMMA FourChars ==
  ASSUME NEW t \in Chars, NEW i \in 1..(Len(t) - 3), NEW c \in Int, NEW l \in Int
  PROVE  SubSeq(t, i, i + 3) = <<c, l, c, l>>
           <=> t[i] = c /\ t[i + 1] = l /\ t[i + 2] = c /\ t[i + 3] = l
<1>1. PICK y, z : y = SubSeq(t, i, i + 3) /\ z = <<c, l, c, l>>
  OBVIOUS
<1>2. /\ z \in Seq(Int) /\ Len(z) = 4
      /\ z[1] = c /\ z[2] = l /\ z[3] = c /\ z[4] = l
  BY <1>1
<1>3. /\ y \in Seq(Int) /\ Len(y) = 4
      /\ y[1] = t[i] /\ y[2] = t[i + 1] /\ y[3] = t[i + 2] /\ y[4] = t[i + 3]
  <2>1. PICK b : b = i + 3 /\ b \in Int /\ i \in Int /\ i <= b /\ b - i + 1 = 4 /\ b <= Len(t)
                 /\ i > 0
    BY DEF Chars
  <2>2. \A k \in i..b : t[k] \in Int
    BY <2>1 DEF Chars
  <2>3. /\ y \in Seq(Int) /\ Len(y) = (IF i <= b THEN b - i + 1 ELSE 0)
        /\ \A k \in 1..(b - i + 1) : y[k] = t[i + k - 1]
    BY <1>1, <2>1, <2>2, SubSeqProperties
  <2>4. i + 1 - 1 = i /\ i + 2 - 1 = i + 1 /\ i + 3 - 1 = i + 2 /\ i + 4 - 1 = i + 3
    BY <2>1
  <2> QED BY <2>1, <2>3, <2>4
<1>4. ASSUME y[1] = c, y[2] = l, y[3] = c, y[4] = l PROVE y = z
  <2>1. \A k \in 1..Len(y) : k = 1 \/ k = 2 \/ k = 3 \/ k = 4
    BY <1>3
  <2>2. \A k \in 1..Len(y) : y[k] = z[k]
    BY <1>2, <1>4, <2>1
  <2> QED BY ONLY <1>2, <1>3, <2>2, SeqEqual
<1>5. y = z <=> y[1] = c /\ y[2] = l /\ y[3] = c /\ y[4] = l
  BY ONLY <1>2, <1>4
<1> QED
  BY <1>1, <1>3, <1>5

\* The first blank line is the one behind the last line of the head.
LEMMA HeadEnds ==
  ASSUME NEW d, NoBlank(d), NEW body \in Chars,
         NEW t, t = HeadAndBody(d, body)
  PROVE  /\ t \in Chars /\ Ends(t) # {}
         /\ SubSeq(t, 1, Cut(t) - 1) = d
         /\ SubSeq(t, Cut(t) + 4, Len(t)) = body
<1>1. d \in Chars /\ Len(d) \in Nat \ {0} /\ Len(body) \in Nat /\ CR # LF
  BY DEF NoBlank, Chars, CR, LF
<1>2. PICK z, c, l : /\ z = <<CR, LF, CR, LF>> /\ c = CR /\ l = LF /\ z \in Chars /\ Len(z) = 4
                     /\ z[1] = c /\ z[2] = l /\ z[3] = c /\ z[4] = l
                     /\ c \in Int /\ l \in Int /\ z = <<c, l, c, l>>
  <2>1. PICK c, l : c = CR /\ l = LF /\ c \in Int /\ l \in Int
    BY DEF CR, LF
  <2>2. PICK z : z = <<c, l, c, l>>
    OBVIOUS
  <2>3. /\ z \in Chars /\ Len(z) = 4
        /\ z[1] = c /\ z[2] = l /\ z[3] = c /\ z[4] = l
    BY <2>1, <2>2 DEF Chars
  <2> QED BY <2>1, <2>2, <2>3, Zenon
<1>3. /\ t \in Chars /\ Len(t) = Len(d) + 4 + Len(body)
      /\ \A i \in 1..Len(d) : t[i] = d[i]
      /\ \A i \in 1..4 : t[Len(d) + i] = z[i]
      /\ \A i \in 1..Len(body) : t[Len(d) + 4 + i] = body[i]
  <2>1. PICK m : m = d \o z
    OBVIOUS
  <2>2. /\ m \in Chars /\ Len(m) = Len(d) + 4
        /\ \A i \in 1..Len(d) : m[i] = d[i]
        /\ \A i \in 1..4 : m[Len(d) + i] = z[i]
    <3>1. d \in Chars /\ z \in Chars /\ Len(z) = 4
      BY <1>1, <1>2
    <3>2. /\ d \o z \in Chars /\ Len(d \o z) = Len(d) + Len(z)
          /\ \A i \in 1..Len(d) : (d \o z)[i] = d[i]
          /\ \A i \in 1..Len(z) : (d \o z)[Len(d) + i] = z[i]
      BY ONLY <3>1, JoinedParts
    <3> QED BY ONLY <2>1, <3>1, <3>2
  <2>3. /\ m \o body \in Chars /\ Len(m \o body) = Len(m) + Len(body)
        /\ \A i \in 1..Len(m) : (m \o body)[i] = m[i]
        /\ \A i \in 1..Len(body) : (m \o body)[Len(m) + i] = body[i]
    BY <2>2, JoinedParts
  <2>4. t = m \o body
    BY <1>2, <2>1 DEF HeadAndBody
  <2>5. \A i \in 1..Len(d) : i \in 1..Len(m)
    BY <1>1, <2>2
  <2>6. \A i \in 1..4 : Len(d) + i \in 1..Len(m)
    BY <1>1, <2>2
  <2>7. \A i \in 1..Len(d) : t[i] = d[i]
    BY ONLY <2>2, <2>3, <2>4, <2>5
  <2>8. \A i \in 1..4 : t[Len(d) + i] = z[i]
    BY ONLY <2>2, <2>3, <2>4, <2>6
  <2>9. t \in Chars /\ Len(t) = Len(d) + 4 + Len(body)
    BY ONLY <2>2, <2>3, <2>4
  <2>10. \A i \in 1..Len(body) : t[Len(d) + 4 + i] = body[i]
    BY ONLY <2>2, <2>3, <2>4
  <2> QED BY <2>7, <2>8, <2>9, <2>10
<1>4. ASSUME NEW i \in 1..(Len(t) - 3)
      PROVE  i \in Ends(t) <=> t[i] = c /\ t[i + 1] = l /\ t[i + 2] = c /\ t[i + 3] = l
  <2>1. i \in Ends(t) <=> SubSeq(t, i, i + 3) = <<c, l, c, l>>
    BY <1>2 DEF Ends
  <2>2. t \in Chars
    BY <1>3
  <2>3. SubSeq(t, i, i + 3) = <<c, l, c, l>>
          <=> t[i] = c /\ t[i + 1] = l /\ t[i + 2] = c /\ t[i + 3] = l
    BY ONLY <1>2, <2>2, i \in 1..(Len(t) - 3), FourChars
  <2> QED BY ONLY <2>1, <2>3
<1>5. Len(d) + 1 \in Ends(t)
  <2>1. PICK i : i = Len(d) + 1 /\ i \in 1..(Len(t) - 3)
    BY <1>1, <1>3
  <2>2. i = Len(d) + 1 /\ i + 1 = Len(d) + 2 /\ i + 2 = Len(d) + 3 /\ i + 3 = Len(d) + 4
    BY <1>1, <2>1
  <2>3. t[i] = c /\ t[i + 1] = l /\ t[i + 2] = c /\ t[i + 3] = l
    BY <1>2, <1>3, <2>2
  <2> QED BY <1>4, <2>1, <2>3
<1>6. ASSUME NEW j \in Ends(t) PROVE Len(d) + 1 <= j
  <2>1. j \in 1..(Len(t) - 3)
    BY DEF Ends
  <2>2. t[j] = CR /\ t[j + 1] = LF /\ t[j + 2] = CR
    BY <1>2, <1>4, <2>1
  <2>3. ~(j \in 1..(Len(d) - 2))
    <3> SUFFICES ASSUME j \in 1..(Len(d) - 2) PROVE FALSE
      OBVIOUS
    <3>1. PICK k : k = j + 1 /\ k \in 1..(Len(d) - 1) /\ k + 1 = j + 2
                   /\ k \in 1..Len(d) /\ k + 1 \in 1..Len(d)
      BY <1>1
    <3>2. d[k] = LF /\ d[k + 1] = CR
      BY <1>3, <2>2, <3>1
    <3> QED BY <3>1, <3>2 DEF NoBlank
  <2>4. ~(j = Len(d) - 1)
    <3> SUFFICES ASSUME j = Len(d) - 1 PROVE FALSE
      OBVIOUS
    <3>1. j + 1 = Len(d) /\ Len(d) \in 1..Len(d)
      BY <1>1
    <3>2. d[Len(d)] = LF
      BY <1>3, <2>2, <3>1
    <3> QED BY <3>2 DEF NoBlank
  <2>5. ~(j = Len(d))
    <3> SUFFICES ASSUME j = Len(d) PROVE FALSE
      OBVIOUS
    <3>1. Len(d) \in 1..Len(d)
      BY <1>1
    <3>2. d[Len(d)] = CR
      BY <1>3, <2>2, <3>1
    <3> QED BY <3>2 DEF NoBlank
  <2> QED BY <1>1, <1>3, <2>1, <2>3, <2>4, <2>5
<1>7. Cut(t) = Len(d) + 1
  <2>1. Cut(t) \in Ends(t) /\ \A j \in Ends(t) : Cut(t) <= j
    <3>1. \E i \in Ends(t) : \A j \in Ends(t) : i <= j
      BY <1>5, <1>6
    <3> QED BY ONLY <3>1 DEF Cut
  <2>2. \A j \in Ends(t) : j \in Int
    BY DEF Ends
  <2>3. Cut(t) <= Len(d) + 1 /\ Len(d) + 1 <= Cut(t) /\ Cut(t) \in Int
    BY <1>5, <1>6, <2>1, <2>2
  <2> QED BY ONLY <1>1, <2>3
<1>8. SubSeq(t, 1, (Len(d) + 1) - 1) = d
  <2>1. PICK y, n : n = Len(d) /\ y = SubSeq(t, 1, n) /\ n \in Nat \ {0} /\ (Len(d) + 1) - 1 = n
    <3>1. (Len(d) + 1) - 1 = Len(d)
      BY <1>1
    <3> QED BY ONLY <1>1, <3>1, Zenon
  <2>2. y \in Seq(Int) /\ Len(y) = Len(d) /\ \A i \in 1..Len(d) : y[i] = t[i]
    <3>1. t \in Seq(Int) /\ n <= Len(t)
      BY <1>1, <1>3, <2>1 DEF Chars
    <3>2. SubSeq(t, 1, n) \in Seq(Int) /\ Len(SubSeq(t, 1, n)) = n
          /\ \A i \in 1..n : SubSeq(t, 1, n)[i] = t[i]
      BY ONLY <2>1, <3>1
    <3> QED BY ONLY <2>1, <3>2
  <2>3. \A i \in 1..Len(y) : y[i] = d[i]
    BY <1>3, <2>2
  <2>4. d \in Seq(Int)
    BY <1>1 DEF Chars
  <2>5. y = d
    BY ONLY <2>2, <2>3, <2>4, SeqEqual
  <2> QED BY <2>1, <2>5
<1>9. SubSeq(t, (Len(d) + 1) + 4, Len(t)) = body
  <2>1. PICK a, b : a = (Len(d) + 1) + 4 /\ b = Len(t) /\ a \in Int /\ b \in Int /\ a > 0
                    /\ b - a + 1 = Len(body) /\ a = Len(d) + 5
    BY <1>1, <1>3
  <2>2. PICK y : y = SubSeq(t, a, b)
    OBVIOUS
  <2>3. \A i \in a..b : t[i] \in Int
    BY <1>3, <2>1 DEF Chars
  <2>4. /\ y \in Seq(Int) /\ Len(y) = (IF a <= b THEN b - a + 1 ELSE 0)
        /\ \A i \in 1..(b - a + 1) : y[i] = t[a + i - 1]
    BY <2>1, <2>2, <2>3, SubSeqProperties
  <2>5. Len(y) = Len(body)
    <3>1. PICK k : k = Len(body) /\ k \in Nat /\ b - a + 1 = k
      BY <1>1, <2>1
    <3>2. (a <= b => k = b - a + 1) /\ (~(a <= b) => k = 0)
      BY ONLY <2>1, <3>1
    <3> QED BY <2>4, <3>1, <3>2
  <2>6. \A i \in 1..Len(y) : y[i] = body[i]
    <3>1. ASSUME NEW i \in 1..Len(body) PROVE y[i] = body[i]
      <4>1. a + i - 1 = Len(d) + 4 + i
        BY <1>1, <2>1
      <4> QED BY <1>3, <2>1, <2>4, <4>1
    <3> QED BY <2>5, <3>1
  <2>7. body \in Seq(Int)
    BY DEF Chars
  <2>8. y = body
    BY ONLY <2>4, <2>5, <2>6, <2>7, SeqEqual
  <2> QED BY <2>1, <2>2, <2>8
<1> QED
  BY <1>3, <1>5, <1>7, <1>8, <1>9

\* What parse_http_request makes of a text with a blank line.
Read(text) ==
  LET lines == SplitLines(SubSeq(text, 1, Cut(text) - 1))
      empty == SelectInSeq(lines, LAMBDA l : l = <<>>)
      head == IF empty = 0 THEN lines ELSE SubSeq(lines, 1, empty - 1) IN
  [method |-> IF head = <<>> THEN "unknown" ELSE MethodOf(head[1]),
   fields |-> FieldsOf(SubSeq(head, 2, Len(head))),
   body |-> SubSeq(text, Cut(text) + 4, Len(text))]

\* A request comes out of parse_http_request as it went into serialize_http_request,
\* and its text holds no line end: a line of the wire is a frame.
THEOREM RequestReturns ==
  \A r \in PlainRequest :
    /\ parse_http_request(serialize_http_request(r)) = r
    /\ \A i \in 1..Len(serialize_http_request(r)) : serialize_http_request(r)[i] # LF
<1> SUFFICES ASSUME NEW r \in PlainRequest
             PROVE  /\ parse_http_request(serialize_http_request(r)) = r
                    /\ \A i \in 1..Len(serialize_http_request(r)) :
                         serialize_http_request(r)[i] # LF
  OBVIOUS
<1>1. PICK ls : ls = LinesOf(r) /\ ls \in Seq(Chars) /\ Len(ls) = Len(r.fields) + 1
                /\ \A k \in 1..Len(ls) : HeadLine(ls[k])
  BY LinesAreLines
<1>2. PICK d : Glued(d, ls) /\ Text(r) = HeadAndBody(d[Len(ls)], r.body)
  BY <1>1, TextShape
<1>3. r.fields \in Seq(PlainField) /\ OneEach(r.fields) /\ r.body \in Chars /\ Len(r.fields) \in Nat
      /\ r.method \in {"GET", "POST", "PUT", "DELETE"}
      /\ r = [method |-> r.method, fields |-> r.fields, body |-> r.body]
  BY DEF PlainRequest
<1>4. PICK h, t : h = d[Len(ls)] /\ t = Text(r)
  OBVIOUS
<1>5. NoBlank(h) /\ SplitLines(h) = ls
  <2>1. Len(ls) > 0
    BY <1>1, <1>3
  <2> QED BY <1>1, <1>2, <1>4, <2>1, HeadSplits
<1>6. /\ t \in Chars /\ Ends(t) # {}
      /\ SubSeq(t, 1, Cut(t) - 1) = h
      /\ SubSeq(t, Cut(t) + 4, Len(t)) = r.body
  <2>1. NoBlank(h) /\ r.body \in Chars /\ t = HeadAndBody(h, r.body)
    BY <1>2, <1>3, <1>4, <1>5
  <2> QED BY ONLY <2>1, HeadEnds, Zenon
<1>7. PICK s : s = serialize_http_request(r) /\ Unescape(s) = t
               /\ \A i \in 1..Len(s) : s[i] # LF
  BY <1>4, <1>6, EscapeReturns DEF serialize_http_request
<1>8. SelectInSeq(ls, LAMBDA l : l = <<>>) = 0
  <2>1. {i \in 1..Len(ls) : ls[i] = <<>>} = {}
    BY <1>1 DEF HeadLine
  <2> QED BY <2>1 DEF SelectInSeq
<1>9. ls # <<>> /\ MethodOf(ls[1]) = r.method
  <2>1. ls[1] = <<MethodChar[r.method]>>
    BY <1>1, <1>3 DEF LinesOf
  <2> QED BY <1>1, <1>3, <2>1, MethodReturns
<1>10. FieldsOf(SubSeq(ls, 2, Len(ls))) = r.fields
  <2>1. PICK y, fs : y = SubSeq(ls, 2, Len(ls)) /\ fs = r.fields
    OBVIOUS
  <2>2. Len(y) = Len(fs) /\ \A k \in 1..Len(fs) : y[k] = ls[k + 1]
    BY <1>1, <1>3, <2>1
  <2>3. ASSUME NEW k \in 1..Len(fs) PROVE y[k] = FieldLine(fs[k])
    <3>1. k + 1 \in 1..(Len(fs) + 1) /\ k + 1 # 1 /\ (k + 1) - 1 = k
      BY <1>3, <2>1
    <3> QED BY <1>1, <2>1, <2>2, <3>1 DEF LinesOf
  <2>4. fs \in Seq(PlainField) /\ OneEach(fs)
    BY <1>3, <2>1
  <2>5. FieldsOf(y) = fs
    BY <2>2, <2>3, <2>4, FieldsReturn
  <2> QED BY <2>1, <2>5
<1>11. parse_http_request(s) =
         [method |-> MethodOf(ls[1]), fields |-> FieldsOf(SubSeq(ls, 2, Len(ls))),
          body |-> SubSeq(t, Cut(t) + 4, Len(t))]
  <2>1. ls # <<>>
    BY <1>9
  <2>2. SplitLines(SubSeq(t, 1, Cut(t) - 1)) = ls
    BY <1>5, <1>6
  <2>3. Ends(Unescape(s)) # {}
    BY <1>6, <1>7
  <2>4. parse_http_request(s) = Read(Unescape(s))
    BY <2>3 DEF parse_http_request, Read, Ends, Cut
  <2>5. Read(t) =
         [method |-> MethodOf(ls[1]), fields |-> FieldsOf(SubSeq(ls, 2, Len(ls))),
          body |-> SubSeq(t, Cut(t) + 4, Len(t))]
    BY <1>6, <1>8, <1>9, <2>2 DEF Read
  <2> QED BY <1>7, <2>4, <2>5
<1>12. parse_http_request(s) = r
  BY <1>3, <1>6, <1>9, <1>10, <1>11
<1> QED
  BY <1>7, <1>12
=============================================================================
