------------------------------ MODULE NodeLife ------------------------------
(***************************************************************************)
(* The life of the processes of one host: ProcessManager starts the        *)
(* configured programs and starts a dead one again, every program makes a  *)
(* Node that registers its name with the master (NodeImpl::run) and takes  *)
(* the name back when a signal arrives (onSignal, on a thread of its own)  *)
(* or when the Node is destroyed (on the main thread), and the master      *)
(* keeps the names (NodeController).                                       *)
(*                                                                         *)
(* onSignal and the destructor use the same m_socket without a lock.  What *)
(* the race can do is a choice between the outcomes of the system calls:   *)
(* a connect on a socket the other thread has connected fails, a write or  *)
(* a read on one the other has closed fails, and two requests may go over  *)
(* one connection, of which the master reads only the first.               *)
(*                                                                         *)
(* MaxCrash bounds the processes that are killed.  Nothing else needs a    *)
(* bound: the signal set is waited on once, so no program is started more  *)
(* than twice.                                                             *)
(***************************************************************************)
EXTENDS Naturals, FiniteSets

CONSTANTS
  NumExec,   \* the programs of "launch", 1..NumExec
  Name,      \* node names
  NameOf,    \* the name each program gives its node
  None, Null, \* not in m_nodes, and in m_nodes with a null pointer
  MaxCrash

Exec == 1..NumExec
Thread == {"main", "sig"}

ASSUME NodeLifeAssumption ==
  /\ NumExec \in Nat \ {0}
  /\ NameOf \in [Exec -> Name]
  /\ None # Null /\ {None, Null} \cap (Exec \X (1..2)) = {}
  /\ MaxCrash \in Nat

VARIABLES
  nodes,    \* m_nodes: name -> None, Null or the process <<program, start>>
  inbox,    \* requests written to the master and not yet read
  answered, \* connections whose request the master has answered: conn -> result
  main,     \* main[i]: where the main thread of program i is
  sig,      \* sig[i]: where its signal thread is
  sock,     \* sock[i]: the connection m_socket holds ("closed" when none)
  starts,   \* starts[i]: how often program i has been started
  pm,       \* where ProcessManager is: [at, i]
  signals,  \* signals the master's signal set has caught
  crashed,  \* processes that ended other than by exit(0)     (history)
  raced     \* names whose process ran onSignal and the destructor (history)

procVars == <<main, sig, sock>>
nlVars == <<nodes, inbox, answered, procVars, starts, pm, signals, crashed, raced>>

Pid(i) == <<i, starts[i]>>
Alive(i) == main[i] # "off"
MasterUp == pm.at \notin {"failed", "exited"}

\* The connections of a process: the one of run() and those of the two ways to
\* leave.
Conn == (Exec \X (1..2)) \X {"run", "main", "sig"}
ConnOf(i, c) == <<Pid(i), c>>
Request == [conn : Conn, kind : {"post", "delete"}]

NlInit ==
  /\ nodes = [n \in Name |-> None]
  /\ inbox = {} /\ answered = {}
  /\ main = [i \in Exec |-> "off"]
  /\ sig = [i \in Exec |-> "off"]
  /\ sock = [i \in Exec |-> "closed"]
  /\ starts = [i \in Exec |-> 0]
  /\ pm = [at |-> "start", i |-> 1]
  /\ signals = {} /\ crashed = {} /\ raced = {}

-----------------------------------------------------------------------------
(* ProcessManager *)

\* The signals are in the set only when run() has started every program; before
\* that a SIGCHLD is ignored and a SIGINT ends the master.
Caught == pm.at \notin {"start", "check"}

\* A signal that comes after the one that onSignal was called for is kept by the
\* set for a wait that is never made.
Raise(s) == signals' = IF pm.at = "armed" THEN signals \cup {s} ELSE signals

\* What the end of child i leaves behind.
Ends(i) ==
  /\ main' = [main EXCEPT ![i] = "off"]
  /\ sig' = [sig EXCEPT ![i] = "off"]
  /\ sock' = [sock EXCEPT ![i] = "closed"]
  /\ answered' = {a \in answered : a[1][1] # Pid(i)}
  /\ Raise("CHLD")

Started(i) ==
  /\ starts' = [starts EXCEPT ![i] = @ + 1]
  /\ main' = [main EXCEPT ![i] = "new"]
  /\ UNCHANGED <<sig, sock>>

\* run() and the loop of onSignal make a child and ask at once whether it is
\* running.  A program that cannot be started throws, as does one that is found
\* to have ended again: nothing catches either.
PmStart ==
  /\ pm.at = "start"
  /\ \/ Started(pm.i) /\ pm' = [pm EXCEPT !.at = "check"]
     \/ pm' = [pm EXCEPT !.at = "failed"] /\ UNCHANGED <<procVars, starts>>
  /\ UNCHANGED <<nodes, inbox, answered, signals, crashed, raced>>

PmCheck ==
  /\ pm.at = "check"
  /\ pm' = CASE ~Alive(pm.i) -> [pm EXCEPT !.at = "failed"]
             [] Alive(pm.i) /\ pm.i < NumExec -> [at |-> "start", i |-> pm.i + 1]
             [] OTHER -> [at |-> "armed", i |-> 1]
  /\ UNCHANGED <<nodes, inbox, answered, procVars, starts, signals, crashed, raced>>

\* Mutant: SIGINT ends the master at once.
OnSignalExits(s) ==
  pm' = [at |-> IF s = "INT" THEN "exited" ELSE "scan", i |-> 1]

\* What onSignal starts to do about a signal.
Reaction(s) == pm' = [at |-> IF s = "INT" THEN "wait" ELSE "scan", i |-> 1]

\* onSignal: the wait is not registered again.
PmSignal ==
  /\ pm.at = "armed"
  /\ \E s \in signals : Reaction(s)
  /\ signals' = {}
  /\ UNCHANGED <<nodes, inbox, answered, procVars, starts, crashed, raced>>

\* The next turn of a loop over m_processes, or what comes after it.
NextTurn(loop, done) == IF pm.i < NumExec THEN [at |-> loop, i |-> pm.i + 1]
                                          ELSE [at |-> done, i |-> pm.i]

\* Mutant: only the first dead child is started again.
PmScanFirst ==
  /\ pm.at = "scan"
  /\ IF Alive(pm.i) THEN pm' = NextTurn("scan", "idle") /\ UNCHANGED <<procVars, starts>>
                    ELSE Started(pm.i) /\ pm' = [pm EXCEPT !.at = "idle"]
  /\ UNCHANGED <<nodes, inbox, answered, signals, crashed, raced>>

\* onSignal for SIGCHLD, one child at a time.
PmScan ==
  /\ pm.at = "scan"
  /\ \/ Alive(pm.i) /\ pm' = NextTurn("scan", "idle") /\ UNCHANGED <<procVars, starts>>
     \/ ~Alive(pm.i) /\ Started(pm.i) /\ pm' = [pm EXCEPT !.at = "rescan"]
     \/ ~Alive(pm.i) /\ pm' = [pm EXCEPT !.at = "failed"]
          /\ UNCHANGED <<procVars, starts>>
  /\ UNCHANGED <<nodes, inbox, answered, signals, crashed, raced>>

PmRescan ==
  /\ pm.at = "rescan"
  /\ pm' = IF Alive(pm.i) THEN NextTurn("scan", "idle") ELSE [pm EXCEPT !.at = "failed"]
  /\ UNCHANGED <<nodes, inbox, answered, procVars, starts, signals, crashed, raced>>

\* onSignal for SIGINT: the children are waited for, not signalled.
PmWait ==
  /\ pm.at = "wait"
  /\ ~Alive(pm.i)
  /\ pm' = NextTurn("wait", "exited")
  /\ UNCHANGED <<nodes, inbox, answered, procVars, starts, signals, crashed, raced>>

\* SIGINT for the master.
MasterInt ==
  /\ MasterUp
  /\ IF Caught THEN Raise("INT") /\ UNCHANGED pm
               ELSE pm' = [pm EXCEPT !.at = "failed"] /\ UNCHANGED signals
  /\ UNCHANGED <<nodes, inbox, answered, procVars, starts, crashed, raced>>

-----------------------------------------------------------------------------
(* The master's side: one request of each connection is read and answered *)

\* The answer to a process that is gone is lost.
Answer(r, result) ==
  answered' = IF \E i \in Exec : Alive(i) /\ Pid(i) = r.conn[1]
              THEN answered \cup {<<r.conn, result>>} ELSE answered

addNode(n, r) ==
  /\ \/ nodes[n] = None /\ nodes' = [nodes EXCEPT ![n] = r.conn[1]] /\ Answer(r, "ok")
     \/ nodes[n] # None /\ UNCHANGED nodes /\ Answer(r, "bad")
  /\ UNCHANGED pm

\* m_nodes[name] makes a null entry for a name that is not there; what deletes is
\* whoever holds the name.
handleDelete(n, r) ==
  /\ \/ nodes[n] \notin {None, Null}
          /\ nodes' = [nodes EXCEPT ![n] = None] /\ Answer(r, "ok")
     \/ nodes[n] \in {None, Null}
          /\ nodes' = [nodes EXCEPT ![n] = Null] /\ Answer(r, "bad")
  /\ UNCHANGED pm

\* m_ioc runs only after ProcessManager::run; until then requests wait.
MasterHandles ==
  /\ MasterUp /\ Caught
  /\ \E r \in inbox :
       LET n == NameOf[r.conn[1][1]] IN
       /\ inbox' = inbox \ {r}
       /\ \/ r.kind = "post" /\ addNode(n, r)
          \/ r.kind = "delete" /\ handleDelete(n, r)
  /\ UNCHANGED <<procVars, starts, signals, crashed, raced>>

\* getAllNodeInfo for the list of a new connection: every entry is dereferenced.
MasterLists ==
  /\ MasterUp /\ Caught
  /\ \E n \in Name : nodes[n] = Null
  /\ pm' = [pm EXCEPT !.at = "failed"]
  /\ UNCHANGED <<nodes, inbox, answered, procVars, starts, signals, crashed, raced>>
-----------------------------------------------------------------------------
(* The node's side *)

Dies(i) ==
  /\ Ends(i)
  /\ crashed' = crashed \cup {Pid(i)}

\* NodeImpl::run sends POST /node.
NodeRun(i) ==
  /\ main[i] = "new"
  /\ sock' = [sock EXCEPT ![i] = "run"]
  /\ inbox' = inbox \cup {[conn |-> ConnOf(i, "run"), kind |-> "post"]}
  /\ main' = [main EXCEPT ![i] = "posted"]
  /\ UNCHANGED <<nodes, answered, sig, starts, pm, signals, crashed, raced>>

Response(i, c, answer) == <<ConnOf(i, c), answer>> \in answered

\* Mutant: a refused node goes through the destructor.
NodeUpUnwinds(i) ==
  /\ main[i] = "posted"
  /\ \/ /\ Response(i, "run", "ok")
        /\ main' = [main EXCEPT ![i] = "up"]
        /\ sig' = [sig EXCEPT ![i] = "wait"]
     \/ /\ Response(i, "run", "bad")
        /\ main' = [main EXCEPT ![i] = "close"]
        /\ UNCHANGED sig
  /\ UNCHANGED <<nodes, inbox, answered, sock, starts, pm, signals, crashed, raced>>

\* The rest of NodeImpl::run: only now are the signals caught.  A refused node
\* throws; no program catches it, so the destructor does not run.
NodeUp(i) ==
  /\ main[i] = "posted"
  /\ \/ /\ Response(i, "run", "ok")
        /\ main' = [main EXCEPT ![i] = "up"]
        /\ sig' = [sig EXCEPT ![i] = "wait"]
        /\ UNCHANGED <<answered, sock, signals, crashed>>
     \/ Response(i, "run", "bad") /\ Dies(i)
  /\ UNCHANGED <<nodes, inbox, starts, pm, raced>>

\* A signal of the set: the io thread enters onSignal.  The wait is registered
\* once, so later signals do nothing.
onSignal(i) ==
  /\ sig[i] = "wait"
  /\ sig' = [sig EXCEPT ![i] = "close"]
  /\ UNCHANGED <<nodes, inbox, answered, main, sock, starts, pm, signals, crashed, raced>>

\* The program's main function ends and destroys the Node.
Destroy(i) ==
  /\ main[i] = "up"
  /\ main' = [main EXCEPT ![i] = "close"]
  /\ UNCHANGED <<nodes, inbox, answered, sig, sock, starts, pm, signals, crashed, raced>>

\* A signal that is not in the set (SIGKILL) or that comes before run() has added
\* it, or an exception nothing catches, such as run()'s when a call fails.
Killed(i) ==
  /\ Alive(i) /\ Cardinality(crashed) < MaxCrash
  /\ Dies(i)
  /\ UNCHANGED <<nodes, inbox, starts, pm, raced>>

\* Where a thread is in the code that both onSignal and the destructor have:
\* close, connect, write DELETE /node, read, exit.
At(i, t) == IF t = "main" THEN main[i] ELSE sig[i]
Goes(i, t, pc) ==
  IF t = "main" THEN main' = [main EXCEPT ![i] = pc] /\ UNCHANGED sig
                ELSE sig' = [sig EXCEPT ![i] = pc] /\ UNCHANGED main

\* onSignal throws on an error; the destructor goes on.
OnError(i, t, pc) ==
  \/ t = "sig" /\ Dies(i)
  \/ t = "main" /\ Goes(i, t, pc) /\ UNCHANGED <<answered, sock, signals, crashed>>

Leaving(i, t) == At(i, t) \in {"close", "connect", "write", "read"}

LeaveClose(i, t) ==
  /\ At(i, t) = "close"
  /\ sock' = [sock EXCEPT ![i] = "closed"]
  /\ Goes(i, t, "connect")
  /\ raced' = IF \A u \in Thread : Leaving(i, u) THEN raced \cup {NameOf[i]} ELSE raced
  /\ UNCHANGED <<nodes, inbox, answered, starts, pm, signals, crashed>>

LeaveConnect(i, t) ==
  /\ At(i, t) = "connect"
  /\ \/ /\ sock[i] = "closed"
        /\ sock' = [sock EXCEPT ![i] = t]
        /\ Goes(i, t, "write")
        /\ UNCHANGED <<answered, signals, crashed>>
     \/ sock[i] # "closed" /\ OnError(i, t, "write")
  /\ UNCHANGED <<nodes, inbox, starts, pm, raced>>

\* The second request of a connection is never read: Server reads one.
Carries(c) == (\E r \in inbox : r.conn = c) \/ (\E a \in answered : a[1] = c)
Sent(c) == IF Carries(c) THEN inbox ELSE inbox \cup {[conn |-> c, kind |-> "delete"]}

\* Mutant: the request is not sent.
LeaveWriteNothing(i, t) ==
  /\ At(i, t) = "write"
  /\ answered' = answered \cup {<<ConnOf(i, t), "ok">>}
  /\ Goes(i, t, "read")
  /\ UNCHANGED <<nodes, inbox, sock, starts, pm, signals, crashed, raced>>

LeaveWrite(i, t) ==
  /\ At(i, t) = "write"
  /\ \/ /\ sock[i] # "closed"
        /\ inbox' = Sent(ConnOf(i, sock[i]))
        /\ Goes(i, t, "read")
        /\ UNCHANGED <<answered, sock, signals, crashed>>
     \/ sock[i] = "closed" /\ OnError(i, t, "read") /\ UNCHANGED inbox
  /\ UNCHANGED <<nodes, starts, pm, raced>>

\* With an answer either thread ends the process with exit(0).  Without one the
\* read fails when the other thread has closed the socket; the destructor then
\* exits all the same.
LeaveRead(i, t) ==
  /\ At(i, t) = "read"
  /\ \/ /\ \E u \in Thread, a \in {"ok", "bad"} : Response(i, u, a)
        /\ Ends(i)
        /\ UNCHANGED crashed
     \/ /\ sock[i] = "closed"
        /\ Ends(i)
        /\ crashed' = IF t = "sig" THEN crashed \cup {Pid(i)} ELSE crashed
  /\ UNCHANGED <<nodes, inbox, starts, pm, raced>>

-----------------------------------------------------------------------------
Manager == PmStart \/ PmCheck \/ PmSignal \/ PmScan \/ PmRescan \/ PmWait

Leave(i, t) ==
  LeaveClose(i, t) \/ LeaveConnect(i, t) \/ LeaveWrite(i, t) \/ LeaveRead(i, t)

\* Nothing is modelled after the end of the master.
NlNext ==
  \/ Manager \/ MasterInt \/ MasterHandles \/ MasterLists
  \/ MasterUp /\ \E i \in Exec :
       \/ NodeRun(i) \/ NodeUp(i) \/ onSignal(i) \/ Destroy(i) \/ Killed(i)
       \/ \E t \in Thread : Leave(i, t)

NlSpec == NlInit /\ [][NlNext]_nlVars

-----------------------------------------------------------------------------
(* Properties *)

NlTypeOK ==
  /\ nodes \in [Name -> {None, Null} \cup (Exec \X (1..2))]
  /\ inbox \subseteq Request
  /\ answered \subseteq Conn \X {"ok", "bad"}
  /\ main \in [Exec -> {"off", "new", "posted", "up", "close",
                        "connect", "write", "read"}]
  /\ sig \in [Exec -> {"off", "wait", "close", "connect", "write", "read"}]
  /\ sock \in [Exec -> {"closed", "run", "main", "sig"}]
  /\ starts \in [Exec -> 0..2]
  /\ pm \in [at : {"start", "check", "armed", "scan", "rescan", "wait", "idle",
                   "failed", "exited"}, i : Exec]
  /\ signals \subseteq {"CHLD", "INT"}
  /\ crashed \subseteq Exec \X (1..2)
  /\ raced \subseteq Name

InService(i) == main[i] = "up" /\ sig[i] = "wait"

\* A node in service holds its name at the master: no DELETE of an earlier or of
\* another process of that name has taken it away.  The exception is a name whose
\* process has left through onSignal and the destructor at once: its second
\* DELETE can reach the master after the successor has registered.
KeepsItsName ==
  NlTypeOK /\ \A i \in Exec : InService(i) =>
    nodes[NameOf[i]] = Pid(i) \/ NameOf[i] \in raced

\* A name that stays registered for a process that is gone, with no DELETE on its
\* way, is one whose process crashed: leaving through onSignal or the destructor
\* gives the name back, whenever the process ends.  A null entry, which refuses the
\* name for ever and which getAllNodeInfo dereferences, is never left.  Both with
\* the exception of a process that ran onSignal and the destructor at once.
NoStaleName ==
  \A n \in Name \ raced :
    /\ nodes[n] # Null
    /\ nodes[n] # None =>
         \/ \E i \in Exec : Alive(i) /\ Pid(i) = nodes[n]
         \/ \E r \in inbox : r.kind = "delete" /\ NameOf[r.conn[1][1]] = n
         \/ nodes[n] \in crashed

\* When SIGINT has made the master exit, no child is left: onSignal has waited for
\* each of them and starts none again.
ExitLeavesNoChild == pm.at = "exited" => \A i \in Exec : ~Alive(i)

\* While the wait is registered a child that has died is started again, unless the
\* master is told to exit or cannot start a program.
RestartsTheDead ==
  \A i \in Exec :
    (pm.at = "armed" /\ "CHLD" \in signals /\ ~Alive(i))
      ~> (starts[i] = 2 \/ pm.at \in {"wait", "failed", "exited"})
=============================================================================
