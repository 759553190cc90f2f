--------------------------- MODULE NodeLifeProofs ---------------------------
(***************************************************************************)
(* Proofs about NodeLife: the master that exits leaves no child, a node in *)
(* service holds its name, and a name is stale only after a crash, for any *)
(* number of programs, names and crashes.                                  *)
(***************************************************************************)
EXTENDS NodeLife, TLAPS

-----------------------------------------------------------------------------
(* The invariant *)

Process == Exec \X (1..2)

\* The kinds of the variables, in the groups that actions change together.
MasterOK ==
  /\ nodes \in [Name -> {None, Null} \cup Process]
  /\ inbox \subseteq Request
  /\ answered \subseteq Conn \X {"ok", "bad"}
ProcOK ==
  /\ main \in [Exec -> {"off", "new", "posted", "up", "close", "connect", "write", "read"}]
  /\ sig \in [Exec -> {"off", "wait", "close", "connect", "write", "read"}]
  /\ sock \in [Exec -> {"closed", "run", "main", "sig"}]
ManagerOK ==
  /\ starts \in [Exec -> 0..2]
  /\ pm \in [at : {"start", "check", "armed", "scan", "rescan", "wait", "idle", "failed",
                   "exited"}, i : Exec]
  /\ signals \subseteq {"CHLD", "INT"}
HistoryOK == crashed \subseteq Process /\ raced \subseteq Name

\* A program is started in its turn, and again at most once, by the one onSignal;
\* onSignal for SIGINT has waited for the programs before pm.i.
Launched(j) ==
  /\ Alive(j) => starts[j] >= 1
  /\ pm.at \in {"start", "check", "armed"} => starts[j] <= 1
  /\ pm.at = "start" /\ j >= pm.i => starts[j] = 0
  /\ pm.at = "check" /\ j > pm.i => starts[j] = 0
  /\ pm.at = "scan" /\ j >= pm.i => starts[j] <= 1
  /\ pm.at = "rescan" /\ j > pm.i => starts[j] <= 1
  /\ pm.at = "wait" /\ j < pm.i => ~Alive(j)
  /\ pm.at = "exited" => ~Alive(j)

LaunchInv ==
  /\ MasterOK /\ ProcOK /\ ManagerOK /\ HistoryOK
  /\ \A j \in Exec : Launched(j)

\* Past closing the socket in the code that onSignal and the destructor share.
Past == {"connect", "write", "read"}

\* The two threads of a process: when only one of them leaves, the socket is its own.
Alone(i) ==
  /\ ~(main[i] \in Past /\ sig[i] \in Past)
  /\ main[i] = "connect" \/ sig[i] = "connect" => sock[i] = "closed"
  /\ main[i] \in {"write", "read"} => sock[i] = "main"
  /\ sig[i] \in {"write", "read"} => sock[i] = "sig"
Threads(i) ==
  /\ main[i] \in {"off", "new", "posted"} => sig[i] = "off"
  /\ main[i] \in Past \/ sig[i] \in Past => sock[i] # "run"
  /\ NameOf[i] \in raced \/ Alone(i)

\* A process that has written DELETE reads.
Reads(i) == main[i] = "read" \/ sig[i] = "read"

\* The process <<program, start>> that still runs, and its name.
Current(p) == Alive(p[1]) /\ p = Pid(p[1])
NameFor(p) == NameOf[p[1]]

\* A request in the master's inbox.
Posted(r) ==
  /\ r.conn[2] = "run"
  /\ Current(r.conn[1]) => main[r.conn[1][1]] = "posted"
  /\ Current(r.conn[1]) \/ r.conn[1] \in crashed
Deleting(r) ==
  /\ r.conn[2] \in Thread
  /\ Current(r.conn[1]) => Reads(r.conn[1][1])
  /\ NameFor(r.conn[1]) \in raced \/ nodes[NameFor(r.conn[1])] = r.conn[1]
Waits(r) ==
  /\ r.conn[1][2] <= starts[r.conn[1][1]]
  /\ r.kind = "post" => Posted(r)
  /\ r.kind = "delete" => Deleting(r)

\* One process has one DELETE under way.
Single(r, s) ==
  r.kind = "delete" /\ s.kind = "delete" /\ r.conn[1] = s.conn[1]
    => r = s \/ NameFor(r.conn[1]) \in raced

\* The process that an answer is for is there; an answered DELETE has taken its name.
Answered(a) ==
  /\ Current(a[1][1])
  /\ main[a[1][1][1]] # "new"
  /\ a[1][2] \in Thread =>
       /\ Reads(a[1][1][1])
       /\ NameFor(a[1][1]) \in raced \/ nodes[NameFor(a[1][1])] # a[1][1]

\* The DELETE of process i is answered.
Returned(i) == \E a \in answered : a[1][1] = Pid(i) /\ a[1][2] \in Thread

\* A node that has been let in holds its name until its DELETE is answered.
Registered(i) == main[i] \in {"up", "close"} \cup Past \/ Response(i, "run", "ok")
HoldsName(i) ==
  Alive(i) /\ Registered(i) =>
    nodes[NameOf[i]] = Pid(i) \/ Returned(i) \/ NameOf[i] \in raced

\* A name is held by a process that was given it, and by one that is gone only when
\* it crashed or its DELETE is on the way.
Owned(n) ==
  nodes[n] \in {None, Null} \/ NameFor(nodes[n]) = n
Fresh(n) ==
  n \in raced \/ nodes[n] = None
    \/ /\ nodes[n] # Null
       /\ \/ Current(nodes[n])
          \/ \E r \in inbox : r.kind = "delete" /\ NameFor(r.conn[1]) = n
          \/ nodes[n] \in crashed

NameInv ==
  /\ \A i \in Exec : Threads(i) /\ HoldsName(i)
  /\ \A r \in inbox : Waits(r)
  /\ \A r, s \in inbox : Single(r, s)
  /\ \A a \in answered : Answered(a) /\ \A r \in inbox : a[1] # r.conn
  /\ \A n \in Name : Owned(n) /\ Fresh(n)

-----------------------------------------------------------------------------
(* The kinds of steps *)

\* ProcessManager goes on and starts no program, or a signal comes.
PmMoves ==
  /\ UNCHANGED <<nodes, inbox, answered, procVars, starts, crashed, raced>>
  /\ signals' \subseteq {"CHLD", "INT"}
  /\ \/ pm' = pm
     \/ pm' = [pm EXCEPT !.at = "failed"]
     \/ pm.at = "check" /\ pm.i < NumExec /\ pm' = [at |-> "start", i |-> pm.i + 1]
     \/ pm.at = "check" /\ pm.i = NumExec /\ pm' = [at |-> "armed", i |-> 1]
     \/ pm.at = "armed" /\ pm' = [at |-> "wait", i |-> 1]
     \/ pm.at = "armed" /\ pm' = [at |-> "scan", i |-> 1]
     \/ pm.at \in {"scan", "rescan"} /\ pm' = NextTurn("scan", "idle")
     \/ pm.at = "wait" /\ ~Alive(pm.i) /\ pm' = NextTurn("wait", "exited")

\* ProcessManager starts a program, or starts it again.
PmStarts ==
  /\ Started(pm.i)
  /\ \/ pm.at = "start" /\ pm' = [pm EXCEPT !.at = "check"]
     \/ pm.at = "scan" /\ ~Alive(pm.i) /\ pm' = [pm EXCEPT !.at = "rescan"]
  /\ UNCHANGED <<nodes, inbox, answered, signals, crashed, raced>>

\* Process i ends: it crashes, its DELETE is answered, or the other thread has
\* closed the socket.
Ending(i) ==
  /\ Alive(i) /\ Ends(i)
  /\ UNCHANGED <<nodes, inbox, pm, starts, raced>>
  /\ \/ crashed' = crashed \cup {Pid(i)}
     \/ crashed' = crashed /\ \E u \in Thread, a \in {"ok", "bad"} : Response(i, u, a)
     \/ crashed' = crashed /\ main[i] = "read" /\ sock[i] = "closed"

\* The threads and the socket of process i become x, y and z.
Becomes(i, x, y, z) ==
  /\ main' = [main EXCEPT ![i] = x]
  /\ sig' = [sig EXCEPT ![i] = y]
  /\ sock' = [sock EXCEPT ![i] = z]
  /\ UNCHANGED <<nodes, answered, pm, starts, signals, crashed>>

\* Process i goes on and sends nothing.
GoesOn(i) ==
  \/ /\ UNCHANGED <<inbox, raced>>
     /\ \/ main[i] = "posted" /\ Response(i, "run", "ok") /\ Becomes(i, "up", "wait", sock[i])
        \/ sig[i] = "wait" /\ Becomes(i, main[i], "close", sock[i])
        \/ main[i] = "up" /\ Becomes(i, "close", sig[i], sock[i])
        \/ main[i] = "connect" /\ sock[i] = "closed" /\ Becomes(i, "write", sig[i], "main")
        \/ sig[i] = "connect" /\ sock[i] = "closed" /\ Becomes(i, main[i], "write", "sig")
        \/ main[i] = "connect" /\ sock[i] # "closed" /\ Becomes(i, "write", sig[i], sock[i])
        \/ main[i] = "write" /\ sock[i] = "closed" /\ Becomes(i, "read", sig[i], sock[i])
  \/ /\ UNCHANGED inbox
     /\ \/ main[i] = "close" /\ Becomes(i, "connect", sig[i], "closed")
        \/ sig[i] = "close" /\ Becomes(i, main[i], "connect", "closed")
     /\ raced' = IF \A u \in Thread : Leaving(i, u) THEN raced \cup {NameOf[i]} ELSE raced

\* Process i sends its POST or a DELETE.
SendsPost(i) ==
  /\ main[i] = "new"
  /\ inbox' = inbox \cup {[conn |-> ConnOf(i, "run"), kind |-> "post"]}
  /\ Becomes(i, "posted", sig[i], "run") /\ UNCHANGED raced
SendsDelete(i) ==
  /\ sock[i] # "closed"
  /\ inbox' = Sent(ConnOf(i, sock[i]))
  /\ \/ main[i] = "write" /\ Becomes(i, "read", sig[i], sock[i])
     \/ sig[i] = "write" /\ Becomes(i, main[i], "read", sock[i])
  /\ UNCHANGED raced

-----------------------------------------------------------------------------
(* The manager and the kinds *)

\* A step of a node or of the master's server: no program is started.
LEMMA ManagerRests ==
  ASSUME LaunchInv, UNCHANGED <<pm, starts>>, signals' \subseteq {"CHLD", "INT"},
         \A j \in Exec : Alive(j)' => Alive(j)
  PROVE  ManagerOK' /\ \A j \in Exec : Launched(j)'
<1>1. ManagerOK /\ \A j \in Exec : Launched(j)
  BY DEF LaunchInv
<1>2. ManagerOK'
  BY <1>1 DEF ManagerOK
<1>3. ASSUME NEW j \in Exec PROVE Launched(j)'
  <2>1. Launched(j) /\ (Alive(j)' => Alive(j)) /\ UNCHANGED <<pm, starts>>
    BY <1>1
  <2> QED BY <2>1 DEF Launched
<1> QED
  BY <1>2, <1>3

\* A process that runs has been started.
LEMMA PidIsProcess ==
  ASSUME LaunchInv, NEW i \in Exec, Alive(i)
  PROVE  Pid(i) \in Process /\ \A c \in {"run", "main", "sig"} : ConnOf(i, c) \in Conn
<1>1. starts[i] \in 0..2 /\ starts[i] >= 1
  BY DEF LaunchInv, ManagerOK, Launched
<1>2. starts[i] \in 1..2
  BY <1>1
<1>3. Pid(i) \in Process
  BY <1>2 DEF Pid, Process
<1> QED
  BY <1>3 DEF ConnOf, Conn, Process

\* The end of a process.
LEMMA EndKinds ==
  ASSUME LaunchInv, NEW i \in Exec, Alive(i), Ends(i),
         UNCHANGED <<nodes, inbox, pm, starts, raced>>,
         crashed' \subseteq crashed \cup {Pid(i)}
  PROVE  LaunchInv'
<1>0. MasterOK /\ ProcOK /\ ManagerOK /\ HistoryOK
  BY DEF LaunchInv
<1>1. MasterOK'
  BY <1>0 DEF MasterOK, Ends
<1>2. ProcOK'
  BY <1>0 DEF ProcOK, Ends
<1>3. \A j \in Exec : Alive(j)' => Alive(j)
  BY <1>0 DEF ProcOK, Ends, Alive
<1>4. signals' \subseteq {"CHLD", "INT"}
  BY <1>0 DEF ManagerOK, Ends, Raise
<1>5. ManagerOK' /\ \A j \in Exec : Launched(j)'
  BY <1>3, <1>4, ManagerRests
<1>6. HistoryOK'
  BY <1>0, PidIsProcess DEF HistoryOK
<1> QED
  BY <1>1, <1>2, <1>5, <1>6 DEF LaunchInv

\* A step of a process that goes on.
LEMMA MoveKinds ==
  ASSUME LaunchInv, NEW i \in Exec, Alive(i), 
         NEW x \in {"new", "posted", "up", "close", "connect", "write", "read"},
         NEW y \in {"off", "wait", "close", "connect", "write", "read"},
         NEW z \in {"closed", "run", "main", "sig"}, Becomes(i, x, y, z),
         inbox' \subseteq inbox \cup Request, raced' \subseteq raced \cup Name
  PROVE  LaunchInv'
<1>0. MasterOK /\ ProcOK /\ ManagerOK /\ HistoryOK
  BY DEF LaunchInv
<1>1. MasterOK' /\ HistoryOK'
  BY <1>0 DEF Becomes, MasterOK, HistoryOK
<1>2. ProcOK'
  BY <1>0 DEF Becomes, ProcOK
<1>3. \A j \in Exec : Alive(j)' => Alive(j)
  BY <1>0 DEF Becomes, ProcOK, Alive
<1>4. signals' \subseteq {"CHLD", "INT"}
  BY <1>0 DEF Becomes, ManagerOK
<1>5. ManagerOK' /\ \A j \in Exec : Launched(j)'
  BY <1>3, <1>4, ManagerRests DEF Becomes
<1> QED
  BY <1>1, <1>2, <1>5 DEF LaunchInv

\* A step of ProcessManager that starts no program.
LEMMA ManagerMoves ==
  ASSUME LaunchInv, PmMoves
  PROVE  LaunchInv'
<1>0. MasterOK /\ ProcOK /\ ManagerOK /\ HistoryOK /\ \A j \in Exec : Launched(j)
  BY DEF LaunchInv
<1>1. MasterOK' /\ ProcOK' /\ HistoryOK'
  BY <1>0 DEF PmMoves, MasterOK, ProcOK, HistoryOK, procVars
<1>2. pm.i \in 1..NumExec /\ NumExec \in Nat \ {0}
  BY <1>0, NodeLifeAssumption DEF ManagerOK, Exec
<1>3. pm' \in [at : {"start", "check", "armed", "scan", "rescan", "wait", "idle", "failed",
                     "exited"}, i : Exec]
  BY <1>0, <1>2 DEF PmMoves, ManagerOK, NextTurn, Exec
<1>4. ManagerOK'
  BY <1>0, <1>3 DEF PmMoves, ManagerOK
<1>5. ASSUME NEW j \in Exec PROVE Launched(j)'
  <2>1. Launched(j) /\ UNCHANGED <<starts, main>> /\ j \in 1..NumExec /\ starts[j] \in 0..2
    BY <1>0 DEF PmMoves, procVars, Exec, ManagerOK
  <2> QED BY <1>0, <1>2, <2>1 DEF PmMoves, Launched, Alive, NextTurn, ManagerOK
<1> QED
  BY <1>1, <1>4, <1>5 DEF LaunchInv

\* A program is started, or started again.
LEMMA StartKinds ==
  ASSUME LaunchInv, PmStarts
  PROVE  LaunchInv'
<1>0. MasterOK /\ ProcOK /\ ManagerOK /\ HistoryOK /\ \A j \in Exec : Launched(j)
  BY DEF LaunchInv
<1>1. MasterOK' /\ HistoryOK'
  BY <1>0 DEF PmStarts, MasterOK, HistoryOK
<1>2. pm.i \in Exec /\ pm.i \in 1..NumExec /\ NumExec \in Nat \ {0}
  BY <1>0, NodeLifeAssumption DEF ManagerOK, Exec
<1>3. ProcOK'
  BY <1>0, <1>2 DEF PmStarts, ProcOK, Started
<1>4. starts[pm.i] \in 0..1 /\ starts \in [Exec -> 0..2]
  BY <1>0, <1>2 DEF PmStarts, Launched, ManagerOK
<1>5. starts' \in [Exec -> 0..2]
  BY <1>2, <1>4 DEF PmStarts, Started
<1>6. ManagerOK'
  BY <1>0, <1>5 DEF PmStarts, ManagerOK
<1>7. ASSUME NEW j \in Exec PROVE Launched(j)'
  <2>1. Launched(j) /\ j \in 1..NumExec /\ starts[j] \in 0..2
    BY <1>0 DEF Exec, ManagerOK
  <2>2. pm'.at = (IF pm.at = "start" THEN "check" ELSE "rescan") /\ pm'.i = pm.i
    BY <1>0 DEF PmStarts, ManagerOK
  <2>3. CASE j = pm.i
    BY <1>0, <1>2, <1>4, <2>1, <2>2, <2>3 DEF PmStarts, Launched, Started, ManagerOK
  <2>4. CASE j # pm.i
    <3>1. starts'[j] = starts[j] /\ main'[j] = main[j]
      BY <1>0, <1>2, <2>4 DEF PmStarts, Started, ProcOK, ManagerOK
    <3> QED BY <1>2, <2>1, <2>2, <2>4, <3>1 DEF PmStarts, Launched, Alive
  <2> QED BY <2>3, <2>4
<1> QED
  BY <1>1, <1>3, <1>6, <1>7 DEF LaunchInv

\* The server's part: a request is answered.
LEMMA HandleKinds ==
  ASSUME LaunchInv, MasterHandles
  PROVE  LaunchInv'
<1>0. MasterOK /\ ProcOK /\ ManagerOK /\ HistoryOK
  BY DEF LaunchInv
<1>1. PICK r \in inbox : /\ inbox' = inbox \ {r}
                         /\ \/ addNode(NameOf[r.conn[1][1]], r)
                            \/ handleDelete(NameOf[r.conn[1][1]], r)
  BY DEF MasterHandles
<1>2. r.conn \in Conn /\ r.conn[1] \in Process /\ NameOf[r.conn[1][1]] \in Name
  BY <1>0, NodeLifeAssumption DEF MasterOK, Request, Conn, Process
<1>3. answered' \subseteq answered \cup {<<r.conn, "ok">>, <<r.conn, "bad">>} /\ pm' = pm
  BY <1>1 DEF addNode, handleDelete, Answer
<1>4. nodes' \in [Name -> {None, Null} \cup Process]
  BY <1>0, <1>1, <1>2 DEF MasterOK, addNode, handleDelete
<1>5. MasterOK'
  BY <1>0, <1>1, <1>2, <1>3, <1>4 DEF MasterOK
<1>6. ProcOK' /\ HistoryOK' /\ UNCHANGED <<main, starts, signals>>
  BY <1>0 DEF MasterHandles, procVars, ProcOK, HistoryOK
<1>7. ManagerOK' /\ \A j \in Exec : Launched(j)'
  BY <1>0, <1>3, <1>6, ManagerRests DEF Alive, ManagerOK
<1> QED
  BY <1>5, <1>6, <1>7 DEF LaunchInv

\* What a process that goes on was doing.
LEMMA GoesOnAlive ==
  ASSUME LaunchInv, NEW i \in Exec, Threads(i), GoesOn(i) \/ SendsPost(i) \/ SendsDelete(i)
  PROVE  Alive(i) /\ NameOf[i] \in Name
BY NodeLifeAssumption DEF GoesOn, SendsPost, SendsDelete, Threads, Alive

LEMMA GoesOnKinds ==
  ASSUME LaunchInv, NEW i \in Exec, Threads(i), GoesOn(i) \/ SendsPost(i) \/ SendsDelete(i)
  PROVE  LaunchInv'
<1>0. MasterOK /\ ProcOK
  BY DEF LaunchInv
<1>1. Alive(i) /\ NameOf[i] \in Name
  BY GoesOnAlive
<1>2. /\ main[i] \in {"new", "posted", "up", "close", "connect", "write", "read"}
      /\ sig[i] \in {"off", "wait", "close", "connect", "write", "read"}
      /\ sock[i] \in {"closed", "run", "main", "sig"}
  BY <1>0, <1>1 DEF ProcOK, Alive
<1>3. inbox' \subseteq inbox \cup Request
  <2>1. \A c \in {"run", "main", "sig"} :
          /\ [conn |-> ConnOf(i, c), kind |-> "post"] \in Request
          /\ [conn |-> ConnOf(i, c), kind |-> "delete"] \in Request
    BY <1>1, PidIsProcess DEF Request
  <2>2. GoesOn(i) => inbox' = inbox
    BY DEF GoesOn
  <2>3. SendsPost(i) => inbox' \subseteq inbox \cup Request
    BY <2>1 DEF SendsPost
  <2>4. SendsDelete(i) => inbox' \subseteq inbox \cup Request
    BY <1>2, <2>1 DEF SendsDelete, Sent
  <2> QED BY <2>2, <2>3, <2>4
<1>4. raced' \subseteq raced \cup Name
  BY <1>1 DEF GoesOn, SendsPost, SendsDelete
<1>5. PICK x \in {"new", "posted", "up", "close", "connect", "write", "read"},
           y \in {"off", "wait", "close", "connect", "write", "read"},
           z \in {"closed", "run", "main", "sig"} : Becomes(i, x, y, z)
  BY <1>2 DEF GoesOn, SendsPost, SendsDelete
<1> QED
  BY <1>1, <1>3, <1>4, <1>5, MoveKinds

-----------------------------------------------------------------------------
(* Every step is of one of those kinds *)

LEMMA PmKinds ==
  ASSUME LaunchInv, Manager \/ MasterInt \/ MasterLists \/ UNCHANGED nlVars
  PROVE  PmMoves \/ PmStarts
<1>0. ManagerOK
  BY DEF LaunchInv
<1>1. pm.i \in 1..NumExec /\ NumExec \in Nat \ {0}
  BY <1>0, NodeLifeAssumption DEF ManagerOK, Exec
<1>2. signals \subseteq {"CHLD", "INT"}
  BY <1>0 DEF ManagerOK
<1>3. CASE PmStart
  BY <1>2, <1>3 DEF PmStart, PmMoves, PmStarts
<1>4. CASE PmCheck
  BY <1>1, <1>2, <1>4 DEF PmCheck, PmMoves
<1>5. CASE PmSignal
  BY <1>2, <1>5 DEF PmSignal, Reaction, PmMoves
<1>6. CASE PmScan
  BY <1>2, <1>6 DEF PmScan, PmMoves, PmStarts
<1>7. CASE PmRescan
  BY <1>2, <1>7 DEF PmRescan, PmMoves
<1>8. CASE PmWait
  BY <1>2, <1>8 DEF PmWait, PmMoves
<1>9. CASE MasterInt
  BY <1>2, <1>9 DEF MasterInt, Raise, PmMoves
<1>10. CASE MasterLists
  BY <1>2, <1>10 DEF MasterLists, PmMoves
<1>11. CASE UNCHANGED nlVars
  BY <1>2, <1>11 DEF nlVars, PmMoves
<1> QED
  BY <1>3, <1>4, <1>5, <1>6, <1>7, <1>8, <1>9, <1>10, <1>11 DEF Manager

\* Where a thread is: the same code runs in both.
LEMMA OneThread ==
  ASSUME NEW i, NEW pc, NEW t \in Thread, Goes(i, t, pc)
  PROVE  \/ t = "main" /\ main' = [main EXCEPT ![i] = pc] /\ sig' = sig
         \/ t = "sig" /\ sig' = [sig EXCEPT ![i] = pc] /\ main' = main
BY DEF Goes, Thread

LEMMA NodeKinds ==
  ASSUME LaunchInv, NEW i \in Exec, Threads(i),
         \/ NodeRun(i) \/ NodeUp(i) \/ onSignal(i) \/ Destroy(i) \/ Killed(i)
         \/ \E t \in Thread : Leave(i, t)
  PROVE  Ending(i) \/ GoesOn(i) \/ SendsPost(i) \/ SendsDelete(i)
<1>0. /\ main \in [Exec -> {"off", "new", "posted", "up", "close", "connect", "write", "read"}]
      /\ sig \in [Exec -> {"off", "wait", "close", "connect", "write", "read"}]
      /\ sock \in [Exec -> {"closed", "run", "main", "sig"}]
  BY DEF LaunchInv, ProcOK
<1>1. /\ main = [main EXCEPT ![i] = main[i]]
      /\ sig = [sig EXCEPT ![i] = sig[i]]
      /\ sock = [sock EXCEPT ![i] = sock[i]]
  BY <1>0
<1>2. CASE NodeRun(i)
  BY <1>1, <1>2 DEF NodeRun, SendsPost, Becomes
<1>3. CASE NodeUp(i)
  <2>1. main[i] = "posted" /\ Alive(i)
    BY <1>3 DEF NodeUp, Alive
  <2> QED BY <1>1, <1>3, <2>1 DEF NodeUp, GoesOn, Becomes, Dies, Ending
<1>4. CASE onSignal(i)
  BY <1>1, <1>4 DEF onSignal, GoesOn, Becomes
<1>5. CASE Destroy(i)
  BY <1>1, <1>5 DEF Destroy, GoesOn, Becomes
<1>6. CASE Killed(i)
  BY <1>6 DEF Killed, Dies, Ending
<1>7. ASSUME NEW t \in Thread, Leave(i, t)
      PROVE  Ending(i) \/ GoesOn(i) \/ SendsDelete(i)
  <2>1. (t = "main" /\ At(i, t) = main[i]) \/ (t = "sig" /\ At(i, t) = sig[i])
    BY DEF At, Thread
  <2>2. At(i, t) \in {"close"} \cup Past => Alive(i)
    BY <2>1 DEF Threads, Alive, Past
  <2>3. CASE LeaveClose(i, t)
    BY <1>1, <2>1, <2>3, OneThread DEF LeaveClose, GoesOn, Becomes
  <2>4. ASSUME NEW pc, OnError(i, t, pc), Alive(i), UNCHANGED <<nodes, inbox, starts, pm, raced>>
        PROVE  \/ Ending(i)
               \/ t = "main" /\ Becomes(i, pc, sig[i], sock[i])
    BY <1>1, <2>1, <2>4, OneThread DEF OnError, Dies, Ending, Becomes
  <2>5. CASE LeaveConnect(i, t)
    BY <1>1, <2>1, <2>2, <2>4, <2>5, OneThread DEF LeaveConnect, GoesOn, Becomes, Past
  <2>6. CASE LeaveWrite(i, t)
    BY <1>1, <2>1, <2>2, <2>4, <2>6, OneThread DEF LeaveWrite, GoesOn, SendsDelete, Becomes, Past
  <2>7. CASE LeaveRead(i, t)
    BY <2>1, <2>2, <2>7 DEF LeaveRead, Ending, Past
  <2> QED BY <1>7, <2>3, <2>5, <2>6, <2>7 DEF Leave
<1> QED
  BY <1>2, <1>3, <1>4, <1>5, <1>6, <1>7

-----------------------------------------------------------------------------
(* The names: a process that goes on *)

\* The parts of requests, answers and process numbers.
LEMMA RequestParts ==
  ASSUME LaunchInv, NEW r \in inbox
  PROVE  /\ r = [conn |-> r.conn, kind |-> r.kind] /\ r.kind \in {"post", "delete"}
         /\ r.conn \in Conn /\ r.conn = <<r.conn[1], r.conn[2]>>
         /\ r.conn[1] \in Process /\ r.conn[1][1] \in Exec
         /\ NameFor(r.conn[1]) \in Name
BY NodeLifeAssumption DEF LaunchInv, MasterOK, Request, Conn, Process, NameFor

LEMMA AnswerParts ==
  ASSUME LaunchInv, NEW a \in answered
  PROVE  /\ a[1] \in Conn /\ a[1] = <<a[1][1], a[1][2]>>
         /\ a[1][1] \in Process /\ a[1][1][1] \in Exec
         /\ NameFor(a[1][1]) \in Name
BY NodeLifeAssumption DEF LaunchInv, MasterOK, Conn, Process, NameFor

LEMMA PidParts ==
  ASSUME NEW i \in Exec, NEW c
  PROVE  /\ Pid(i)[1] = i /\ ConnOf(i, c)[1] = Pid(i) /\ ConnOf(i, c)[2] = c
         /\ NameFor(Pid(i)) = NameOf[i]
         /\ Current(Pid(i)) <=> Alive(i)
BY DEF Pid, ConnOf, NameFor, Current

\* What a step of process i leaves of the others, and of its own state.
LEMMA StepFrame ==
  ASSUME LaunchInv, NameInv, NEW i \in Exec,
         GoesOn(i) \/ SendsPost(i) \/ SendsDelete(i)
  PROVE  /\ UNCHANGED <<nodes, answered, starts, crashed>>
         /\ raced \subseteq raced' /\ inbox \subseteq inbox'
         /\ \A j \in Exec \ {i} : main'[j] = main[j] /\ sig'[j] = sig[j] /\ sock'[j] = sock[j]
         /\ Alive(i) /\ Alive(i)' /\ main'[i] # "new"
         /\ Reads(i) => Reads(i)'
<1>0. ProcOK /\ Threads(i)
  BY DEF LaunchInv, NameInv
<1>1. Alive(i)
  BY <1>0, GoesOnAlive
<1>2. UNCHANGED <<nodes, answered, starts, crashed>> /\ raced \subseteq raced'
  BY DEF GoesOn, SendsPost, SendsDelete, Becomes
<1>3. inbox \subseteq inbox'
  BY DEF GoesOn, SendsPost, SendsDelete, Sent
<1>4. PICK x, y, z : Becomes(i, x, y, z)
  BY DEF GoesOn, SendsPost, SendsDelete
<1>5. \A j \in Exec \ {i} : main'[j] = main[j] /\ sig'[j] = sig[j] /\ sock'[j] = sock[j]
  BY <1>0, <1>4 DEF Becomes, ProcOK
<1>6. Alive(i)' /\ main'[i] # "new"
  BY <1>0, <1>1 DEF GoesOn, SendsPost, SendsDelete, Becomes, ProcOK, Threads, Alive
<1>7. Reads(i) => Reads(i)'
  BY <1>0 DEF GoesOn, SendsPost, SendsDelete, Becomes, ProcOK, Threads, Reads
<1> QED
  BY <1>1, <1>2, <1>3, <1>5, <1>6, <1>7

LEMMA CurrentStays ==
  ASSUME NEW i \in Exec, UNCHANGED starts, Alive(i), Alive(i)',
         \A j \in Exec \ {i} : main'[j] = main[j],
         NEW p \in Process
  PROVE  Current(p)' <=> Current(p)
<1>1. p[1] \in Exec
  BY DEF Process
<1>2. Alive(p[1])' <=> Alive(p[1])
  BY <1>1 DEF Alive
<1> QED
  BY <1>2 DEF Current, Pid

LEMMA GoesOnRaced ==
  ASSUME NEW i, GoesOn(i)
  PROVE  raced' = raced \/ raced' = raced \cup {NameOf[i]}
BY DEF GoesOn

\* The threads and the socket of a process.
LEMMA ThreadsStay ==
  ASSUME LaunchInv, NameInv, NEW i \in Exec,
         GoesOn(i) \/ SendsPost(i) \/ SendsDelete(i), NEW j \in Exec
  PROVE  Threads(j)'
<1>0. ProcOK /\ Threads(i) /\ Threads(j)
  BY DEF LaunchInv, NameInv
<1>1. raced \subseteq raced'
  BY StepFrame
<1>2. CASE j # i
  <2>1. main'[j] = main[j] /\ sig'[j] = sig[j] /\ sock'[j] = sock[j]
    BY <1>2, StepFrame
  <2> QED BY <1>0, <1>1, <2>1 DEF Threads, Alone
<1>3. CASE j = i
  <2> USE DEF Becomes, ProcOK, Threads, Alone, Past
  <2>1. CASE SendsPost(i)
    BY <1>0, <1>3, <2>1 DEF SendsPost
  <2>2. CASE SendsDelete(i)
    BY <1>0, <1>3, <2>2 DEF SendsDelete
  <2>3. CASE GoesOn(i) /\ UNCHANGED raced
    BY <1>0, <1>1, <1>3, <2>3 DEF GoesOn, Leaving, At, Thread
  <2>4. CASE GoesOn(i) /\ raced' = raced \cup {NameOf[i]}
    BY <1>0, <1>3, <2>4 DEF GoesOn
  <2> QED BY <2>1, <2>2, <2>3, <2>4, GoesOnRaced
<1> QED
  BY <1>2, <1>3

\* No POST of a process that has been let in waits at the master.
LEMMA NoPostLeft ==
  ASSUME LaunchInv, NameInv, NEW i \in Exec,
         GoesOn(i) \/ SendsPost(i) \/ SendsDelete(i), NEW r \in inbox, r.conn[1] = Pid(i)
  PROVE  r.kind = "delete"
<1>0. Threads(i) /\ Waits(r) /\ \A a \in answered : a[1] # r.conn
  BY DEF NameInv
<1>1. Alive(i)
  BY StepFrame
<1>2. Current(r.conn[1]) /\ r.conn[1][1] = i
  BY <1>1, PidParts
<1>3. r.conn = <<r.conn[1], r.conn[2]>> /\ r.kind \in {"post", "delete"}
  BY RequestParts
<1>4. ASSUME r.kind = "post" PROVE FALSE
  <2>1. main[i] = "posted" /\ r.conn = ConnOf(i, "run")
    BY <1>0, <1>2, <1>3, <1>4 DEF Waits, Posted, ConnOf
  <2>2. Response(i, "run", "ok")
    BY <1>0, <2>1 DEF GoesOn, SendsPost, SendsDelete, Threads
  <2> QED BY <1>0, <2>1, <2>2 DEF Response
<1> QED
  BY <1>3, <1>4

\* The names, the answers and the requests that were there.
LEMMA OthersStay ==
  ASSUME LaunchInv, NameInv, NEW i \in Exec,
         GoesOn(i) \/ SendsPost(i) \/ SendsDelete(i)
  PROVE  /\ \A j \in Exec : HoldsName(j)'
         /\ \A r \in inbox : Waits(r)'
         /\ \A r, s \in inbox : Single(r, s)'
         /\ \A a \in answered : Answered(a)'
         /\ \A n \in Name : Owned(n)' /\ Fresh(n)'
<1>0. /\ UNCHANGED <<nodes, answered, starts, crashed>>
      /\ raced \subseteq raced' /\ inbox \subseteq inbox'
      /\ \A j \in Exec \ {i} : main'[j] = main[j] /\ sig'[j] = sig[j] /\ sock'[j] = sock[j]
      /\ Alive(i) /\ Alive(i)' /\ main'[i] # "new"
      /\ Reads(i) => Reads(i)'
  BY StepFrame
<1>1. \A p \in Process : Current(p)' <=> Current(p)
  BY <1>0, CurrentStays
<1>2. \A j \in Exec : Reads(j) => Reads(j)'
  BY <1>0 DEF Reads
<1>3. ASSUME NEW j \in Exec PROVE HoldsName(j)'
  <2>1. HoldsName(j) /\ Threads(i) /\ \A a \in answered : Answered(a)
    BY DEF NameInv
  <2>2. Alive(j)' => Alive(j)
    BY <1>0 DEF Alive
  <2>3. Pid(j)' = Pid(j) /\ (Returned(j)' <=> Returned(j))
    BY <1>0 DEF Pid, Returned
  <2>4. Registered(j)' => Registered(j)
    <3>1. Response(j, "run", "ok")' <=> Response(j, "run", "ok")
      BY <1>0, <2>3 DEF Response, ConnOf
    <3>2. CASE j # i
      BY <1>0, <3>1, <3>2 DEF Registered
    <3>3. CASE j = i /\ ~SendsPost(i)
      BY <1>0, <2>1, <3>3 DEF Registered, GoesOn, SendsDelete, Threads, Past, LaunchInv,
                              ProcOK, Alive
    <3>4. CASE j = i /\ SendsPost(i)
      <4>1. main[i] = "new" /\ main'[i] = "posted"
        BY <1>0, <3>4 DEF SendsPost, Becomes, LaunchInv, ProcOK
      <4> QED BY <3>1, <3>4, <4>1 DEF Registered, Past
    <3> QED BY <3>2, <3>3, <3>4
  <2> QED BY <1>0, <2>1, <2>2, <2>3, <2>4 DEF HoldsName
<1>4. ASSUME NEW r \in inbox PROVE Waits(r)'
  <2>1. Waits(r) /\ r.conn[1] \in Process /\ r.conn[1][1] \in Exec
    BY RequestParts DEF NameInv
  <2>2. Current(r.conn[1])' <=> Current(r.conn[1])
    BY <1>1, <2>1
  <2>3. CASE r.kind = "post"
    <3>1. Posted(r)
      BY <2>1, <2>3 DEF Waits
    <3>2. Current(r.conn[1]) => r.conn[1][1] # i
      BY <2>3, NoPostLeft DEF Current
    <3>3. Posted(r)'
      BY <1>0, <2>1, <2>2, <3>1, <3>2 DEF Posted
    <3> QED BY <1>0, <2>1, <2>3, <3>3 DEF Waits
  <2>4. CASE r.kind # "post"
    BY <1>0, <1>2, <2>1, <2>2, <2>4 DEF Waits, Deleting
  <2> QED BY <2>3, <2>4
<1>5. ASSUME NEW r \in inbox, NEW s \in inbox PROVE Single(r, s)'
  <2>1. Single(r, s)
    BY DEF NameInv
  <2> QED BY <1>0, <2>1 DEF Single
<1>6. ASSUME NEW a \in answered PROVE Answered(a)'
  <2>1. Answered(a) /\ a[1][1] \in Process /\ a[1][1][1] \in Exec
    BY AnswerParts DEF NameInv
  <2>2. main'[a[1][1][1]] # "new"
    BY <1>0, <2>1 DEF Answered
  <2> QED BY <1>0, <1>1, <1>2, <2>1, <2>2 DEF Answered
<1>7. ASSUME NEW n \in Name PROVE Owned(n)' /\ Fresh(n)'
  <2>1. Owned(n) /\ Fresh(n)
    BY DEF NameInv
  <2>2. nodes[n] \in {None, Null} \cup Process
    BY DEF LaunchInv, MasterOK
  <2>3. nodes[n] \notin {None, Null} => (Current(nodes[n])' <=> Current(nodes[n]))
    BY <1>0, <1>1, <2>2 DEF Current, Alive, Pid
  <2>4. Owned(n)'
    BY <1>0, <2>1 DEF Owned
  <2>5. Fresh(n)'
    BY <1>0, <2>1, <2>3 DEF Fresh
  <2> QED BY <2>4, <2>5
<1> QED
  BY <1>3, <1>4, <1>5, <1>6, <1>7

LEMMA GoesOnNames ==
  ASSUME LaunchInv, NameInv, NEW i \in Exec, GoesOn(i)
  PROVE  NameInv'
<1>1. UNCHANGED <<inbox, answered>>
  BY StepFrame DEF GoesOn
<1>2. \A a \in answered, r \in inbox : a[1] # r.conn
  BY DEF NameInv
<1> QED
  BY <1>1, <1>2, OthersStay, ThreadsStay DEF NameInv

LEMMA PostNames ==
  ASSUME LaunchInv, NameInv, NEW i \in Exec, SendsPost(i)
  PROVE  NameInv'
<1>0. PICK new : new = [conn |-> ConnOf(i, "run"), kind |-> "post"]
  OBVIOUS
<1>1. inbox' = inbox \cup {new} /\ UNCHANGED <<answered, starts>> /\ main[i] = "new"
  BY <1>0, StepFrame DEF SendsPost
<1>2. new.kind = "post" /\ new.conn = ConnOf(i, "run") /\ new.conn[1] = Pid(i)
      /\ new.conn[2] = "run" /\ Pid(i)[1] = i /\ Pid(i)[2] = starts[i]
  BY <1>0, PidParts DEF Pid
<1>3. Waits(new)'
  <2>1. Current(Pid(i))' /\ main'[i] = "posted" /\ Pid(i)' = Pid(i)
    BY <1>1, StepFrame DEF Current, Pid, SendsPost, Becomes, LaunchInv, ProcOK
  <2>2. starts[i] <= starts[i]
    BY DEF LaunchInv, ManagerOK
  <2> QED BY <1>1, <1>2, <2>1, <2>2 DEF Waits, Posted, ConnOf
<1>4. \A r \in inbox : Single(r, new)' /\ Single(new, r)'
  BY <1>2 DEF Single
<1>5. Single(new, new)'
  BY <1>2 DEF Single
<1>6. \A a \in answered : a[1] # new.conn
  <2> SUFFICES ASSUME NEW a \in answered, a[1] = new.conn PROVE FALSE
    OBVIOUS
  <2>1. Answered(a)
    BY DEF NameInv
  <2> QED BY <1>1, <1>2, <2>1 DEF Answered
<1>7. \A a \in answered, r \in inbox : a[1] # r.conn
  BY DEF NameInv
<1>8. \A r \in inbox' : Waits(r)'
  BY <1>1, <1>3, OthersStay
<1>9. \A r, s \in inbox' : Single(r, s)'
  BY <1>1, <1>4, <1>5, OthersStay
<1> QED
  BY <1>1, <1>6, <1>7, <1>8, <1>9, OthersStay, ThreadsStay DEF NameInv

\* The DELETE of a process that leaves through one thread finds its name there.
LEMMA DeleteNames ==
  ASSUME LaunchInv, NameInv, NEW i \in Exec, SendsDelete(i)
  PROVE  NameInv'
<1>a. PICK new : new = [conn |-> ConnOf(i, sock[i]), kind |-> "delete"]
  OBVIOUS
<1>0. Threads(i) /\ HoldsName(i) /\ ProcOK /\ Alive(i) /\ Reads(i)'
  BY StepFrame DEF NameInv, LaunchInv, SendsDelete, Becomes, ProcOK, Reads
<1>1. UNCHANGED <<nodes, answered, starts, raced>>
  BY StepFrame DEF SendsDelete
<1>2. new.kind = "delete" /\ new.conn = ConnOf(i, sock[i]) /\ new.conn[1] = Pid(i)
      /\ new.conn[2] = sock[i] /\ Pid(i)[1] = i /\ Pid(i)[2] = starts[i]
      /\ NameFor(Pid(i)) = NameOf[i]
  BY <1>a, PidParts DEF Pid
<1>3. sock[i] \in Thread
  BY <1>0 DEF SendsDelete, Threads, Past, ProcOK, Thread
<1>4. CASE Carries(ConnOf(i, sock[i]))
  <2>1. inbox' = inbox
    BY <1>4 DEF SendsDelete, Sent
  <2>2. \A a \in answered, r \in inbox : a[1] # r.conn
    BY DEF NameInv
  <2> QED BY <1>1, <2>1, <2>2, OthersStay, ThreadsStay DEF NameInv
<1>5. CASE ~Carries(ConnOf(i, sock[i]))
  <2>1. inbox' = inbox \cup {new}
    BY <1>a, <1>5 DEF SendsDelete, Sent
  <2>2. NameOf[i] \in raced \/ ~Reads(i)
    BY <1>0 DEF SendsDelete, Threads, Alone, Past, Reads
  <2>3. NameOf[i] \in raced \/ nodes[NameOf[i]] = Pid(i)
    <3>1. ~Reads(i) => ~Returned(i)
      <4> SUFFICES ASSUME NEW a \in answered, a[1][1] = Pid(i), a[1][2] \in Thread PROVE Reads(i)
        BY DEF Returned
      <4>1. Answered(a)
        BY DEF NameInv
      <4> QED BY <1>2, <4>1 DEF Answered
    <3>2. Registered(i)
      BY <1>0 DEF SendsDelete, Registered, Threads, Past, ProcOK, Alive
    <3> QED BY <1>0, <2>2, <3>1, <3>2 DEF HoldsName
  <2>4. Waits(new)'
    <3>1. starts[i] <= starts[i] /\ Pid(i)' = Pid(i)
      BY <1>1 DEF LaunchInv, ManagerOK, Pid
    <3>2. NameFor(Pid(i)) \in raced' \/ nodes'[NameFor(Pid(i))] = Pid(i)
      BY <1>1, <1>2, <2>3
    <3>3. Deleting(new)'
      BY <1>0, <1>1, <1>2, <1>3, <3>1, <3>2 DEF Deleting
    <3> QED BY <1>1, <1>2, <3>1, <3>3 DEF Waits
  <2>5. ASSUME NEW r \in inbox PROVE Single(r, new)' /\ Single(new, r)'
    <3>1. ASSUME r.kind = "delete", r.conn[1] = Pid(i) PROVE NameOf[i] \in raced
      <4>1. Reads(i)
        BY <1>0, <1>2, <3>1 DEF NameInv, Waits, Deleting, Current
      <4> QED BY <2>2, <4>1
    <3> QED BY <1>1, <1>2, <3>1 DEF Single
  <2>6. Single(new, new)'
    BY DEF Single
  <2>7. \A a \in answered, r \in inbox' : a[1] # r.conn
    BY <1>2, <1>5, <2>1 DEF Carries, NameInv
  <2>8. \A r \in inbox' : Waits(r)'
    BY <2>1, <2>4, OthersStay
  <2>9. \A r, s \in inbox' : Single(r, s)'
    BY <2>1, <2>5, <2>6, OthersStay
  <2> QED BY <1>1, <2>7, <2>8, <2>9, OthersStay, ThreadsStay DEF NameInv
<1> QED
  BY <1>4, <1>5

-----------------------------------------------------------------------------
(* The names: the end and the start of a process *)

\* A process that ends without a crash has given its name back, unless it raced.
LEMMA EndIsClean ==
  ASSUME LaunchInv, NameInv, NEW i \in Exec, Ending(i), Pid(i) \notin crashed'
  PROVE  /\ NameOf[i] \in raced \/ nodes[NameOf[i]] # Pid(i)
         /\ Reads(i) /\ main[i] # "posted"
<1>0. Threads(i) /\ \A a \in answered : Answered(a)
  BY DEF NameInv
<1>1. CASE \E u \in Thread, a \in {"ok", "bad"} : Response(i, u, a)
  <2>1. PICK u \in Thread, x \in {"ok", "bad"} : <<ConnOf(i, u), x>> \in answered
    BY <1>1 DEF Response
  <2>2. PICK a \in answered : a = <<ConnOf(i, u), x>>
    BY <2>1
  <2>3. a[1][1] = Pid(i) /\ a[1][2] = u /\ Pid(i)[1] = i
    BY <2>2, PidParts
  <2>4. Reads(i) /\ (NameOf[i] \in raced \/ nodes[NameOf[i]] # Pid(i))
    BY <1>0, <2>3 DEF Answered, NameFor
  <2> QED BY <1>0, <2>4 DEF Threads, Reads
<1>2. CASE main[i] = "read" /\ sock[i] = "closed"
  BY <1>0, <1>2 DEF Threads, Alone, Reads
<1> QED
  BY <1>1, <1>2 DEF Ending

LEMMA EndNames ==
  ASSUME LaunchInv, NameInv, NEW i \in Exec, Ending(i)
  PROVE  NameInv'
<1>0. /\ UNCHANGED <<nodes, inbox, starts, raced>> /\ Alive(i)
      /\ answered' = {a \in answered : a[1][1] # Pid(i)}
      /\ crashed \subseteq crashed'
  BY DEF Ending, Ends
<1>1. /\ \A j \in Exec \ {i} : main'[j] = main[j] /\ sig'[j] = sig[j] /\ sock'[j] = sock[j]
      /\ main'[i] = "off" /\ sig'[i] = "off"
  BY DEF Ending, Ends, LaunchInv, ProcOK
<1>2. ASSUME NEW p \in Process PROVE Current(p)' <=> Current(p) /\ p # Pid(i)
  <2>1. p[1] \in Exec
    BY DEF Process
  <2> QED BY <1>0, <1>1, <2>1, PidParts DEF Current, Alive, Pid
<1>3. ASSUME NEW j \in Exec PROVE Threads(j)' /\ HoldsName(j)'
  <2>1. CASE j = i
    BY <1>1, <2>1 DEF Threads, Alone, Past, HoldsName, Alive
  <2>2. CASE j # i
    <3>1. Threads(j) /\ HoldsName(j) /\ Pid(j)' = Pid(j) /\ Pid(j) # Pid(i)
      BY <1>0, <2>2 DEF NameInv, Pid
    <3>2. Threads(j)'
      BY <1>0, <1>1, <2>2, <3>1 DEF Threads, Alone
    <3>3. (Returned(j) => Returned(j)') /\ (Registered(j)' => Registered(j))
      BY <1>0, <1>1, <2>2, <3>1 DEF Returned, Registered, Response, ConnOf
    <3>4. Alive(j)' => Alive(j)
      BY <1>1, <2>2 DEF Alive
    <3> QED BY <1>0, <3>1, <3>2, <3>3, <3>4 DEF HoldsName
  <2> QED BY <2>1, <2>2
<1>4. ASSUME NEW r \in inbox PROVE Waits(r)'
  <2>1. Waits(r) /\ r.conn[1] \in Process /\ r.conn[1][1] \in Exec
    BY RequestParts DEF NameInv
  <2>2. Current(r.conn[1])' <=> Current(r.conn[1]) /\ r.conn[1] # Pid(i)
    BY <1>2, <2>1
  <2>3. Current(r.conn[1])' => r.conn[1][1] # i
    BY <2>2 DEF Current
  <2>4. CASE r.kind = "post"
    <3>1. Posted(r)
      BY <2>1, <2>4 DEF Waits
    <3>2. r.conn[1] = Pid(i) => Pid(i) \in crashed'
      BY <1>0, <3>1, EndIsClean, PidParts DEF Posted
    <3>3. Posted(r)'
      BY <1>0, <1>1, <2>1, <2>2, <2>3, <3>1, <3>2 DEF Posted
    <3> QED BY <1>0, <2>1, <2>4, <3>3 DEF Waits
  <2>5. CASE r.kind # "post"
    BY <1>0, <1>1, <2>1, <2>2, <2>3, <2>5 DEF Waits, Deleting, Reads
  <2> QED BY <2>4, <2>5
<1>5. ASSUME NEW a \in answered' PROVE Answered(a)' /\ \A r \in inbox : a[1] # r.conn
  <2>1. a \in answered /\ a[1][1] # Pid(i)
    BY <1>0
  <2>2. Answered(a) /\ a[1][1] \in Process /\ a[1][1][1] \in Exec
    BY <2>1, AnswerParts DEF NameInv
  <2>3. Current(a[1][1])' /\ a[1][1][1] # i
    BY <1>2, <2>1, <2>2 DEF Answered, Current
  <2>4. Answered(a)'
    BY <1>0, <1>1, <2>2, <2>3 DEF Answered, Reads
  <2> QED BY <2>1, <2>4 DEF NameInv
<1>6. ASSUME NEW n \in Name PROVE Owned(n)' /\ Fresh(n)'
  <2>1. Owned(n) /\ Fresh(n) /\ nodes[n] \in {None, Null} \cup Process
    BY DEF NameInv, LaunchInv, MasterOK
  <2>2. Owned(n)'
    BY <1>0, <2>1 DEF Owned
  <2>3. CASE nodes[n] = Pid(i)
    <3>1. nodes[n] \notin {None, Null} /\ NameFor(Pid(i)) = NameOf[i]
      BY <1>0, <2>3, PidIsProcess, PidParts, NodeLifeAssumption DEF Process
    <3>2. n = NameOf[i]
      BY <2>1, <2>3, <3>1 DEF Owned
    <3>3. Pid(i) \in crashed' \/ n \in raced
      BY <2>3, <3>2, EndIsClean
    <3> QED BY <1>0, <2>2, <2>3, <3>1, <3>3 DEF Fresh
  <2>4. CASE nodes[n] # Pid(i)
    <3>1. nodes[n] \in Process => (Current(nodes[n]) => Current(nodes[n])')
      BY <1>0, <1>2, <2>4 DEF Current, Alive, Pid
    <3>2. Fresh(n)'
      BY <1>0, <2>1, <3>1 DEF Fresh
    <3> QED BY <2>2, <3>2
  <2> QED BY <2>3, <2>4
<1>7. \A r, s \in inbox : Single(r, s)'
  BY <1>0 DEF NameInv, Single
<1> QED
  BY <1>0, <1>3, <1>4, <1>5, <1>6, <1>7 DEF NameInv

LEMMA StartNames ==
  ASSUME LaunchInv, NameInv, PmStarts
  PROVE  NameInv'
<1>0. UNCHANGED <<nodes, inbox, answered, sig, sock, crashed, raced>>
  BY DEF PmStarts, Started
<1>1. PICK i \in Exec : i = pm.i
  BY DEF LaunchInv, ManagerOK
<1>2. /\ \A j \in Exec \ {i} : main'[j] = main[j] /\ starts'[j] = starts[j]
      /\ main'[i] = "new" /\ starts'[i] = starts[i] + 1
      /\ \A j \in Exec : starts[j] \in 0..2
  BY <1>1 DEF PmStarts, Started, LaunchInv, ProcOK, ManagerOK
<1>3. ~Alive(i)
  <2>1. Launched(i) /\ i >= pm.i
    BY <1>1 DEF LaunchInv, Exec
  <2>2. pm.at = "start" => starts[i] = 0
    BY <2>1 DEF Launched
  <2> QED BY <1>1, <1>2, <2>1, <2>2 DEF PmStarts, Launched
<1>4. ASSUME NEW p \in Process PROVE Current(p)' <=> Current(p) \/ p = <<i, starts[i] + 1>>
  <2>1. p[1] \in Exec
    BY DEF Process
  <2>2. CASE p[1] = i
    BY <1>2, <1>3, <2>2 DEF Current, Alive, Pid
  <2>3. CASE p[1] # i
    BY <1>2, <2>1, <2>3 DEF Current, Alive, Pid
  <2> QED BY <2>2, <2>3
<1>5. ASSUME NEW j \in Exec PROVE Threads(j)' /\ HoldsName(j)'
  <2>1. Threads(j) /\ HoldsName(j)
    BY DEF NameInv
  <2>2. CASE j = i
    <3>1. sig[i] = "off"
      BY <1>3, <2>1, <2>2 DEF Threads, Alive
    <3>2. Threads(i)'
      BY <1>0, <1>2, <3>1 DEF Threads, Alone, Past
    <3>3. ~Response(i, "run", "ok")'
      <4> SUFFICES ASSUME NEW a \in answered, a = <<ConnOf(i, "run")', "ok">> PROVE FALSE
        BY <1>0 DEF Response
      <4>1. Answered(a) /\ a[1][1][1] = i
        BY DEF NameInv, ConnOf, Pid
      <4> QED BY <1>3, <4>1 DEF Answered, Current
    <3> QED BY <1>2, <2>2, <3>2, <3>3 DEF HoldsName, Registered, Past
  <2>3. CASE j # i
    <3>1. Pid(j)' = Pid(j) /\ main'[j] = main[j]
      BY <1>2, <2>3 DEF Pid
    <3>2. Threads(j)'
      BY <1>0, <2>1, <3>1 DEF Threads, Alone
    <3>3. (Returned(j) => Returned(j)') /\ (Registered(j)' => Registered(j))
      BY <1>0, <3>1 DEF Returned, Registered, Response, ConnOf
    <3> QED BY <1>0, <2>1, <3>1, <3>2, <3>3 DEF HoldsName, Alive
  <2> QED BY <2>2, <2>3
<1>6. ASSUME NEW r \in inbox PROVE Waits(r)'
  <2>1. Waits(r) /\ r.conn[1] \in Process /\ r.conn[1][1] \in Exec
    BY RequestParts DEF NameInv
  <2>2. r.conn[1] # <<i, starts[i] + 1>> /\ r.conn[1][2] <= starts'[r.conn[1][1]]
    BY <1>2, <2>1 DEF Waits, Process
  <2>3. Current(r.conn[1])' <=> Current(r.conn[1])
    BY <1>4, <2>1, <2>2
  <2>4. Current(r.conn[1]) => r.conn[1][1] # i
    BY <1>3 DEF Current
  <2>5. r.kind = "post" => Posted(r)'
    BY <1>0, <1>2, <2>1, <2>3, <2>4 DEF Waits, Posted
  <2>6. r.kind = "delete" => Deleting(r)'
    BY <1>0, <1>2, <2>1, <2>3, <2>4 DEF Waits, Deleting, Reads
  <2> QED BY <2>2, <2>5, <2>6 DEF Waits
<1>7. ASSUME NEW a \in answered PROVE Answered(a)'
  <2>1. Answered(a) /\ a[1][1] \in Process /\ a[1][1][1] \in Exec
    BY AnswerParts DEF NameInv
  <2>2. a[1][1][1] # i
    BY <1>3, <2>1 DEF Answered, Current
  <2> QED BY <1>0, <1>2, <1>4, <2>1, <2>2 DEF Answered, Reads
<1>8. ASSUME NEW n \in Name PROVE Owned(n)' /\ Fresh(n)'
  <2>1. Owned(n) /\ Fresh(n) /\ nodes[n] \in {None, Null} \cup Process
    BY DEF NameInv, LaunchInv, MasterOK
  <2>2. Owned(n)'
    BY <1>0, <2>1 DEF Owned
  <2>3. nodes[n] \in Process /\ Current(nodes[n]) => Current(nodes[n])'
    <3> SUFFICES ASSUME NEW p \in Process, p = nodes[n], Current(p) PROVE Current(p)'
      BY <1>0 DEF Current, Alive, Pid
    <3> QED BY <1>4
  <2>4. Fresh(n)'
    BY <1>0, <2>1, <2>3 DEF Fresh
  <2> QED BY <2>2, <2>4
<1>9. /\ \A r, s \in inbox : Single(r, s)'
      /\ \A a \in answered, r \in inbox : a[1] # r.conn
  BY <1>0 DEF NameInv, Single
<1> QED
  BY <1>0, <1>5, <1>6, <1>7, <1>8, <1>9 DEF NameInv

-----------------------------------------------------------------------------
(* The names: the master's server *)

\* The connection of a request tells its kind: no two requests share one.
LEMMA OneRequest ==
  ASSUME LaunchInv, NameInv, NEW r \in inbox, NEW s \in inbox, r.conn = s.conn
  PROVE  r = s
<1>1. Waits(r) /\ Waits(s)
  BY DEF NameInv
<1>2. r.kind \in {"post", "delete"} /\ s.kind \in {"post", "delete"}
  BY RequestParts
<1>3. r.kind = s.kind
  BY <1>1, <1>2 DEF Waits, Posted, Deleting, Thread
<1> QED
  BY <1>3, RequestParts

\* What an answer to r leaves as it is.
LEMMA AnswerFrame ==
  ASSUME LaunchInv, NameInv, NEW r \in inbox, NEW x \in {"ok", "bad"}, Answer(r, x),
         UNCHANGED <<procVars, starts, crashed, raced>>, inbox' = inbox \ {r}
  PROVE  /\ \A p : Current(p)' <=> Current(p)
         /\ \A j \in Exec : Threads(j)' /\ Pid(j)' = Pid(j) /\ (Returned(j) => Returned(j)')
         /\ \A q, s \in inbox' : Single(q, s)'
         /\ answered' = IF Current(r.conn[1]) THEN answered \cup {<<r.conn, x>>} ELSE answered
         /\ \A a \in answered', s \in inbox' : a[1] # s.conn
<1>0. UNCHANGED <<main, sig, sock, starts, crashed, raced>>
  BY DEF procVars
<1>1. \A p : Current(p)' <=> Current(p)
  BY <1>0 DEF Current, Alive, Pid
<1>2. r.conn[1] \in Process /\ r.conn[1][1] \in Exec
  BY RequestParts
<1>3. (\E i \in Exec : Alive(i) /\ Pid(i) = r.conn[1]) <=> Current(r.conn[1])
  BY <1>2, PidParts DEF Current
<1>4. answered' = IF Current(r.conn[1]) THEN answered \cup {<<r.conn, x>>} ELSE answered
  BY <1>3 DEF Answer
<1>5. ASSUME NEW j \in Exec PROVE Threads(j)' /\ Pid(j)' = Pid(j) /\ (Returned(j) => Returned(j)')
  <2>1. Threads(j)
    BY DEF NameInv
  <2>2. Threads(j)' /\ Pid(j)' = Pid(j)
    BY <1>0, <2>1 DEF Threads, Alone, Pid
  <2> QED BY <1>4, <2>2 DEF Returned
<1>6. ASSUME NEW a \in answered', NEW s \in inbox' PROVE a[1] # s.conn
  <2>1. CASE a \in answered
    BY <2>1 DEF NameInv
  <2>2. CASE a = <<r.conn, x>>
    BY <2>2, OneRequest
  <2> QED BY <1>4, <2>1, <2>2
<1>7. \A q, s \in inbox' : Single(q, s)'
  BY <1>0 DEF NameInv, Single
<1> QED
  BY <1>1, <1>4, <1>5, <1>6, <1>7

\* addNode lets in the process of a POST when the name is free.
LEMMA AddNames ==
  ASSUME LaunchInv, NameInv, NEW r \in inbox, r.kind = "post", inbox' = inbox \ {r},
         UNCHANGED <<procVars, starts, crashed, raced>>, addNode(NameFor(r.conn[1]), r)
  PROVE  NameInv'
<1> DEFINE n == NameFor(r.conn[1])
<1>0. /\ r.conn[1] \in Process /\ r.conn[1][1] \in Exec /\ n \in Name
      /\ r.conn = <<r.conn[1], r.conn[2]>>
      /\ nodes \in [Name -> {None, Null} \cup Process]
      /\ UNCHANGED <<main, sig, sock, starts, crashed, raced>>
  BY RequestParts DEF LaunchInv, MasterOK, procVars
<1>1. Posted(r) /\ r.conn[2] = "run"
  BY DEF NameInv, Waits, Posted
<1>2. PICK x \in {"ok", "bad"} :
        /\ Answer(r, x)
        /\ \/ x = "ok" /\ nodes[n] = None /\ nodes' = [nodes EXCEPT ![n] = r.conn[1]]
           \/ x = "bad" /\ nodes' = nodes
  BY DEF addNode
<1>3. /\ \A p : Current(p)' <=> Current(p)
      /\ \A j \in Exec : Threads(j)' /\ Pid(j)' = Pid(j) /\ (Returned(j) => Returned(j)')
      /\ \A q, s \in inbox' : Single(q, s)'
      /\ answered' = IF Current(r.conn[1]) THEN answered \cup {<<r.conn, x>>} ELSE answered
      /\ \A a \in answered', s \in inbox' : a[1] # s.conn
  BY <1>2, AnswerFrame
<1>4. \A p \in Process : p # None /\ p # Null
  BY NodeLifeAssumption DEF Process
<1>5. \A m \in Name : nodes[m] \in Process => nodes'[m] = nodes[m]
  BY <1>0, <1>2, <1>4
<1>6. ASSUME NEW j \in Exec PROVE HoldsName(j)'
  <2>1. HoldsName(j) /\ NameOf[j] \in Name
    BY NodeLifeAssumption DEF NameInv
  <2> SUFFICES ASSUME Alive(j)', Registered(j)' PROVE nodes'[NameOf[j]] = Pid(j) \/ Returned(j)' \/ NameOf[j] \in raced
    BY <1>0, <1>3 DEF HoldsName
  <2>2. Alive(j) /\ Pid(j) \in Process
    BY <1>0, PidIsProcess DEF Alive
  <2>3. CASE Registered(j)
    BY <1>3, <1>5, <2>1, <2>2, <2>3 DEF HoldsName
  <2>4. CASE ~Registered(j)
    <3>1. <<ConnOf(j, "run"), "ok">> \in answered' /\ <<ConnOf(j, "run"), "ok">> \notin answered
      BY <1>0, <1>3, <2>4 DEF Registered, Response, ConnOf
    <3>2. x = "ok" /\ r.conn = ConnOf(j, "run")
      BY <1>3, <3>1
    <3>3. r.conn[1] = Pid(j) /\ n = NameOf[j]
      BY <3>2, PidParts
    <3> QED BY <1>0, <1>2, <3>2, <3>3
  <2> QED BY <2>3, <2>4
<1>7. ASSUME NEW s \in inbox' PROVE Waits(s)'
  <2>1. Waits(s) /\ s.conn[1] \in Process /\ NameFor(s.conn[1]) \in Name
    BY RequestParts DEF NameInv
  <2>2. s.kind = "post" => Posted(s)'
    BY <1>0, <1>3, <2>1 DEF Waits, Posted
  <2>3. s.kind = "delete" => Deleting(s)'
    BY <1>0, <1>3, <1>5, <2>1 DEF Waits, Deleting, Reads
  <2> QED BY <1>0, <2>1, <2>2, <2>3 DEF Waits
<1>8. ASSUME NEW a \in answered' PROVE Answered(a)'
  <2>1. CASE a \in answered
    <3>1. /\ Answered(a) /\ a[1][1] \in Process /\ NameFor(a[1][1]) \in Name
          /\ a[1][1][1] \in Exec
      BY <2>1, AnswerParts DEF NameInv
    <3>2. Threads(a[1][1][1])
      BY <3>1 DEF NameInv
    <3>3. a[1][2] \in Thread => a[1][1] # r.conn[1]
      BY <1>1, <3>1, <3>2 DEF Answered, Posted, Threads, Reads
    <3>4. a[1][2] \in Thread /\ nodes[NameFor(a[1][1])] # a[1][1]
            => nodes'[NameFor(a[1][1])] # a[1][1]
      BY <1>0, <1>2, <3>1, <3>3
    <3> QED BY <1>0, <1>3, <3>1, <3>4 DEF Answered, Reads
  <2>2. CASE a = <<r.conn, x>> /\ Current(r.conn[1])
    <3>1. a[1] = r.conn /\ a[1][2] \notin Thread
      BY <1>1, <2>2 DEF Thread
    <3>2. main'[r.conn[1][1]] # "new"
      BY <1>0, <1>1, <2>2 DEF Posted
    <3> QED BY <1>3, <2>2, <3>1, <3>2 DEF Answered
  <2> QED BY <1>3, <2>1, <2>2
<1>9. ASSUME NEW m \in Name PROVE Owned(m)' /\ Fresh(m)'
  <2>1. Owned(m) /\ Fresh(m) /\ nodes[m] \in {None, Null} \cup Process
    BY <1>0 DEF NameInv
  <2>2. CASE nodes'[m] = nodes[m]
    <3>1. Owned(m)'
      BY <2>1, <2>2 DEF Owned
    <3>2. Current(nodes[m])' <=> Current(nodes[m])
      BY <1>0, <2>2 DEF Current, Alive, Pid
    <3>3. (\E s \in inbox : s.kind = "delete" /\ NameFor(s.conn[1]) = m)
            => \E s \in inbox' : s.kind = "delete" /\ NameFor(s.conn[1]) = m
      OBVIOUS
    <3>4. Fresh(m)'
      BY <1>0, <2>1, <2>2, <3>2, <3>3 DEF Fresh
    <3> QED BY <3>1, <3>4
  <2>3. CASE m = n /\ nodes'[m] = r.conn[1]
    <3>1. Owned(m)'
      BY <2>3 DEF Owned
    <3>2. Current(nodes[m])' \/ nodes'[m] \in crashed'
      BY <1>0, <1>1, <2>3 DEF Posted, Current, Alive, Pid
    <3>3. nodes'[m] # Null
      BY <1>0, <1>4, <2>3
    <3>4. Fresh(m)'
      BY <3>2, <3>3 DEF Fresh
    <3> QED BY <3>1, <3>4
  <2> QED BY <1>0, <1>2, <2>2, <2>3
<1> QED
  BY <1>3, <1>6, <1>7, <1>8, <1>9 DEF NameInv

\* handleDelete takes the name of a DELETE; without a race it is the sender's own.
LEMMA TakeNames ==
  ASSUME LaunchInv, NameInv, NEW r \in inbox, r.kind = "delete", inbox' = inbox \ {r},
         UNCHANGED <<procVars, starts, crashed, raced>>, handleDelete(NameFor(r.conn[1]), r)
  PROVE  NameInv'
<1> DEFINE n == NameFor(r.conn[1])
<1>0. /\ r.conn[1] \in Process /\ r.conn[1][1] \in Exec /\ n \in Name
      /\ r.conn = <<r.conn[1], r.conn[2]>>
      /\ nodes \in [Name -> {None, Null} \cup Process]
      /\ UNCHANGED <<main, sig, sock, starts, crashed, raced>>
  BY RequestParts DEF LaunchInv, MasterOK, procVars
<1>1. Deleting(r) /\ r.conn[2] \in Thread /\ (n \in raced \/ nodes[n] = r.conn[1])
  BY DEF NameInv, Waits, Deleting
<1>2. \A p \in Process : p # None /\ p # Null
  BY NodeLifeAssumption DEF Process
<1>3. PICK x \in {"ok", "bad"} : Answer(r, x)
  BY DEF handleDelete
<1>4. /\ nodes'[n] \in {None, Null} /\ (n \notin raced => nodes'[n] = None)
      /\ \A m \in Name \ {n} : nodes'[m] = nodes[m]
  BY <1>0, <1>1, <1>2 DEF handleDelete
<1>5. /\ \A p : Current(p)' <=> Current(p)
      /\ \A j \in Exec : Threads(j)' /\ Pid(j)' = Pid(j) /\ (Returned(j) => Returned(j)')
      /\ \A q, s \in inbox' : Single(q, s)'
      /\ answered' = IF Current(r.conn[1]) THEN answered \cup {<<r.conn, x>>} ELSE answered
      /\ \A a \in answered', s \in inbox' : a[1] # s.conn
  BY <1>3, AnswerFrame
<1>6. ASSUME NEW j \in Exec PROVE HoldsName(j)'
  <2>1. HoldsName(j) /\ NameOf[j] \in Name
    BY NodeLifeAssumption DEF NameInv
  <2> SUFFICES ASSUME Alive(j)', Registered(j)', NameOf[j] \notin raced
               PROVE  nodes'[NameOf[j]] = Pid(j) \/ Returned(j)'
    BY <1>0, <1>5 DEF HoldsName
  <2>2. Alive(j)
    BY <1>0 DEF Alive
  <2>3. Registered(j)
    <3>1. ConnOf(j, "run") # r.conn
      BY <1>1, PidParts DEF Thread
    <3> QED BY <1>0, <1>5, <3>1 DEF Registered, Response, ConnOf
  <2>4. CASE Returned(j)
    BY <1>5, <2>4
  <2>5. CASE nodes[NameOf[j]] = Pid(j) /\ NameOf[j] # n
    BY <1>4, <2>1, <2>5
  <2>6. CASE nodes[NameOf[j]] = Pid(j) /\ NameOf[j] = n
    <3>1. r.conn[1] = Pid(j) /\ Current(r.conn[1])
      BY <1>1, <2>2, <2>6, PidParts
    <3>2. <<r.conn, x>> \in answered'
      BY <1>5, <3>1
    <3> QED BY <1>1, <1>5, <3>1, <3>2 DEF Returned
  <2> QED BY <2>1, <2>2, <2>3, <2>4, <2>5, <2>6 DEF HoldsName
<1>7. ASSUME NEW s \in inbox' PROVE Waits(s)'
  <2>1. Waits(s) /\ s.conn[1] \in Process /\ NameFor(s.conn[1]) \in Name
    BY RequestParts DEF NameInv
  <2>2. s.kind = "post" => Posted(s)'
    BY <1>0, <1>5, <2>1 DEF Waits, Posted
  <2>3. ASSUME s.kind = "delete" PROVE Deleting(s)'
    <3>1. Deleting(s)
      BY <2>1, <2>3 DEF Waits
    <3>2. CASE NameFor(s.conn[1]) = n
      <4>1. n \notin raced => s.conn[1] = r.conn[1]
        BY <1>1, <3>1, <3>2 DEF Deleting
      <4>2. n \in raced
        BY <2>3, <4>1 DEF NameInv, Single
      <4> QED BY <1>0, <1>5, <3>1, <3>2, <4>2 DEF Deleting, Reads
    <3>3. CASE NameFor(s.conn[1]) # n
      BY <1>0, <1>4, <1>5, <2>1, <3>1, <3>3 DEF Deleting, Reads
    <3> QED BY <3>2, <3>3
  <2> QED BY <1>0, <2>1, <2>2, <2>3 DEF Waits
<1>8. ASSUME NEW a \in answered' PROVE Answered(a)'
  <2>1. CASE a \in answered
    <3>1. /\ Answered(a) /\ a[1][1] \in Process /\ NameFor(a[1][1]) \in Name
          /\ a[1][1][1] \in Exec
      BY <2>1, AnswerParts DEF NameInv
    <3>2. nodes[NameFor(a[1][1])] # a[1][1] => nodes'[NameFor(a[1][1])] # a[1][1]
      BY <1>2, <1>4, <3>1
    <3> QED BY <1>0, <1>5, <3>1, <3>2 DEF Answered, Reads
  <2>2. CASE a = <<r.conn, x>> /\ Current(r.conn[1])
    <3>1. a[1] = r.conn
      BY <2>2
    <3>2. Reads(r.conn[1][1]) /\ Threads(r.conn[1][1])
      BY <1>0, <1>1, <2>2 DEF Deleting, NameInv
    <3>3. main'[r.conn[1][1]] # "new" /\ Reads(r.conn[1][1])'
      BY <1>0, <3>2 DEF Reads, Threads
    <3>4. nodes'[n] # r.conn[1]
      BY <1>0, <1>2, <1>4
    <3> QED BY <1>5, <2>2, <3>1, <3>3, <3>4 DEF Answered
  <2> QED BY <1>5, <2>1, <2>2
<1>9. ASSUME NEW m \in Name PROVE Owned(m)' /\ Fresh(m)'
  <2>1. Owned(m) /\ Fresh(m) /\ nodes[m] \in {None, Null} \cup Process
    BY <1>0 DEF NameInv
  <2>2. CASE m = n
    BY <1>0, <1>4, <2>2 DEF Owned, Fresh
  <2>3. CASE m # n
    <3>1. nodes'[m] = nodes[m]
      BY <1>4, <2>3
    <3>2. Owned(m)'
      BY <2>1, <3>1 DEF Owned
    <3>3. Current(nodes[m])' <=> Current(nodes[m])
      BY <1>0, <3>1 DEF Current, Alive, Pid
    <3>4. (\E s \in inbox : s.kind = "delete" /\ NameFor(s.conn[1]) = m)
            => \E s \in inbox' : s.kind = "delete" /\ NameFor(s.conn[1]) = m
      BY <2>3
    <3>5. Fresh(m)'
      BY <1>0, <2>1, <3>1, <3>3, <3>4 DEF Fresh
    <3> QED BY <3>2, <3>5
  <2> QED BY <2>2, <2>3
<1> QED
  BY <1>5, <1>6, <1>7, <1>8, <1>9 DEF NameInv

-----------------------------------------------------------------------------
(* The theorems *)

NlInv == LaunchInv /\ NameInv

LEMMA NlStart == NlInit => NlInv
<1> SUFFICES ASSUME NlInit PROVE NlInv
  OBVIOUS
<1>1. MasterOK /\ ProcOK /\ HistoryOK
  BY DEF NlInit, MasterOK, ProcOK, HistoryOK
<1>2. 1 \in Exec /\ 0 \in 0..2
  BY NodeLifeAssumption DEF Exec
<1>3. ManagerOK
  BY <1>2 DEF NlInit, ManagerOK
<1>4. \A j \in Exec : Launched(j)
  BY DEF NlInit, Launched, Alive
<1>5. NameInv
  BY DEF NlInit, NameInv, Threads, Alone, Past, HoldsName, Alive, Owned, Fresh
<1> QED
  BY <1>1, <1>3, <1>4, <1>5 DEF NlInv, LaunchInv

LEMMA NlStep ==
  ASSUME NlInv, [NlNext]_nlVars
  PROVE  NlInv'
<1>0. LaunchInv /\ NameInv /\ \A i \in Exec : Threads(i)
  BY DEF NlInv, NameInv
<1>1. CASE PmMoves
  <2>1. UNCHANGED <<nodes, inbox, answered, main, sig, sock, starts, crashed, raced>>
    BY <1>1 DEF PmMoves, procVars
  <2>2. \A j \in Exec : Threads(j)' /\ HoldsName(j)'
    BY <1>0, <2>1 DEF NameInv, Threads, Alone, HoldsName, Alive, Registered, Response, ConnOf,
                      Pid, Returned
  <2>3. \A r \in inbox : Waits(r)'
    BY <1>0, <2>1 DEF NameInv, Waits, Posted, Deleting, Current, Alive, Pid, Reads
  <2>4. \A r, s \in inbox : Single(r, s)'
    BY <1>0, <2>1 DEF NameInv, Single
  <2>5. \A a \in answered : Answered(a)' /\ \A r \in inbox : a[1] # r.conn
    BY <1>0, <2>1 DEF NameInv, Answered, Current, Alive, Pid, Reads
  <2>6. \A n \in Name : Owned(n)' /\ Fresh(n)'
    BY <1>0, <2>1 DEF NameInv, Owned, Fresh, Current, Alive, Pid
  <2> QED BY <1>0, <1>1, <2>1, <2>2, <2>3, <2>4, <2>5, <2>6, ManagerMoves DEF NlInv, NameInv
<1>2. CASE PmStarts
  BY <1>0, <1>2, StartKinds, StartNames DEF NlInv
<1>3. CASE MasterHandles
  <2>1. LaunchInv'
    BY <1>0, <1>3, HandleKinds
  <2>2. PICK r \in inbox :
          /\ inbox' = inbox \ {r}
          /\ \/ r.kind = "post" /\ addNode(NameFor(r.conn[1]), r)
             \/ r.kind = "delete" /\ handleDelete(NameFor(r.conn[1]), r)
    BY <1>3 DEF MasterHandles, NameFor
  <2>3. UNCHANGED <<procVars, starts, crashed, raced>>
    BY <1>3 DEF MasterHandles
  <2>4. NameInv'
    BY <1>0, <2>2, <2>3, AddNames, TakeNames
  <2> QED BY <2>1, <2>4 DEF NlInv
<1>4. ASSUME NEW i \in Exec, Ending(i) PROVE NlInv'
  <2>1. LaunchInv'
    BY <1>0, <1>4, EndKinds DEF Ending
  <2>2. NameInv'
    BY <1>0, <1>4, EndNames
  <2> QED BY <2>1, <2>2 DEF NlInv
<1>5. ASSUME NEW i \in Exec, GoesOn(i) \/ SendsPost(i) \/ SendsDelete(i) PROVE NlInv'
  <2>1. LaunchInv'
    BY <1>0, <1>5, GoesOnKinds
  <2>2. NameInv'
    BY <1>0, <1>5, GoesOnNames, PostNames, DeleteNames
  <2> QED BY <2>1, <2>2 DEF NlInv
<1>6. CASE Manager \/ MasterInt \/ MasterLists \/ UNCHANGED nlVars
  BY <1>0, <1>1, <1>2, <1>6, PmKinds
<1>7. ASSUME NEW i \in Exec,
             \/ NodeRun(i) \/ NodeUp(i) \/ onSignal(i) \/ Destroy(i) \/ Killed(i)
             \/ \E t \in Thread : Leave(i, t)
      PROVE  NlInv'
  BY <1>0, <1>4, <1>5, <1>7, NodeKinds
<1> QED
  BY <1>3, <1>6, <1>7 DEF NlNext

LEMMA NlAlways == NlSpec => []NlInv
BY NlStart, NlStep, PTL DEF NlSpec

\* A master that a SIGINT has made exit leaves none of its children: onSignal has
\* waited for each of them and none is started again meanwhile.
THEOREM ExitCorrect == NlSpec => []ExitLeavesNoChild
<1>1. NlInv => ExitLeavesNoChild
  BY DEF NlInv, LaunchInv, Launched, ExitLeavesNoChild
<1> QED
  BY <1>1, NlAlways, PTL

\* A node in service holds its name at the master, unless a process of that name ran
\* onSignal and the destructor at once; and no program is started more than twice.
THEOREM NameKept == NlSpec => []KeepsItsName
<1>1. NlInv => KeepsItsName
  <2> SUFFICES ASSUME NlInv PROVE KeepsItsName
    OBVIOUS
  <2>1. NlTypeOK
    BY DEF NlInv, LaunchInv, MasterOK, ProcOK, ManagerOK, HistoryOK, Process, NlTypeOK
  <2>2. ASSUME NEW i \in Exec, InService(i)
        PROVE  nodes[NameOf[i]] = Pid(i) \/ NameOf[i] \in raced
    <3>1. HoldsName(i) /\ Alive(i) /\ Registered(i) /\ ~Reads(i)
      BY <2>2 DEF NlInv, NameInv, InService, Alive, Registered, Reads
    <3>2. ~Returned(i)
      <4> SUFFICES ASSUME NEW a \in answered, a[1][1] = Pid(i), a[1][2] \in Thread PROVE FALSE
        BY DEF Returned
      <4>1. Answered(a)
        BY DEF NlInv, NameInv
      <4> QED BY <3>1, <4>1, PidParts DEF Answered
    <3> QED BY <3>1, <3>2 DEF HoldsName
  <2> QED BY <2>1, <2>2 DEF KeepsItsName
<1> QED
  BY <1>1, NlAlways, PTL

\* A name that stays behind is that of a process that crashed, or its DELETE is on
\* the way; a null entry is never left.  Both unless a process of that name raced.
THEOREM NoStaleCorrect == NlSpec => []NoStaleName
<1>1. NlInv => NoStaleName
  <2> SUFFICES ASSUME NlInv, NEW n \in Name \ raced
               PROVE  /\ nodes[n] # Null
                      /\ nodes[n] # None =>
                           \/ \E i \in Exec : Alive(i) /\ Pid(i) = nodes[n]
                           \/ \E r \in inbox : r.kind = "delete" /\ NameOf[r.conn[1][1]] = n
                           \/ nodes[n] \in crashed
    BY DEF NoStaleName
  <2>1. Fresh(n) /\ nodes[n] \in {None, Null} \cup Process
    BY DEF NlInv, NameInv, LaunchInv, MasterOK
  <2>2. nodes[n] \in Process /\ Current(nodes[n]) => \E i \in Exec : Alive(i) /\ Pid(i) = nodes[n]
    BY DEF Current, Process
  <2> QED BY <2>1, <2>2, NodeLifeAssumption DEF Fresh, NameFor
<1> QED
  BY <1>1, NlAlways, PTL
=============================================================================
