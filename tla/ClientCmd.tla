------------------------------ MODULE ClientCmd ------------------------------
(***************************************************************************)
(* The command line tool (src/src/Util/src/main.cpp): topic echo, topic    *)
(* pub and bag play, each a process with a node of a fixed name.  pub also *)
(* records what it publishes, in a file named by the topic and the second  *)
(* it started in, with the time since its first message; bag play reads    *)
(* such a file and publishes it again with the same pauses.                *)
(*                                                                         *)
(* One topic.  A recorded message is its publisher and number.             *)
(*                                                                         *)
(* Bounds: MaxClock seconds, MaxLines messages of a publisher; a process   *)
(* runs one command.                                                       *)
(***************************************************************************)
EXTENDS Naturals, Sequences

CONSTANTS User, MaxClock, MaxLines

ASSUME ClientCmdAssumption == MaxClock \in Nat /\ MaxLines \in Nat \ {0}

NoFile == [made |-> FALSE, lines |-> <<>>]

VARIABLES
  clock,
  held,   \* node names the master has
  file,   \* file[s]: the recording made in second s: [made, lines]
  proc    \* proc[u]: the process of user u

ccVars == <<clock, held, file, proc>>

NodeName == [echo |-> "echo_node", pub |-> "publish_node", once |-> "publish_node",
             play |-> "bagplay_node"]

Idle == [at |-> "idle", cmd |-> "echo", sec |-> 0, first |-> 0, sent |-> <<>>]

Lines(u) == file[proc[u].sec].lines

CcInit ==
  /\ clock = 0
  /\ held = {}
  /\ file = [s \in 0..MaxClock |-> NoFile]
  /\ proc = [u \in User |-> Idle]

Tick == clock < MaxClock /\ clock' = clock + 1 /\ UNCHANGED <<held, file, proc>>

-----------------------------------------------------------------------------
\* The file is made, or emptied, before the node is.
OpenRecord(s) == file' = [file EXCEPT ![s] = [made |-> TRUE, lines |-> <<>>]]

\* topic pub: the message is made, then the file, then the node.
RunPub(u, cmd) ==
  /\ proc[u].at = "idle"
  /\ proc' = [proc EXCEPT ![u] = [Idle EXCEPT !.at = "register", !.cmd = cmd, !.sec = clock]]
  /\ OpenRecord(clock)
  /\ UNCHANGED <<clock, held>>

\* A list of nodes or topics is asked for and printed; a wrong command, a topic
\* without a type or a message that cannot be made is reported.
PrintsAndEnds(u) ==
  /\ proc[u].at = "idle"
  /\ proc' = [proc EXCEPT ![u].at = "over"]
  /\ UNCHANGED <<clock, held, file>>

\* topic echo: the topic has a type and the type a descriptor.
RunEcho(u) ==
  /\ proc[u].at = "idle"
  /\ proc' = [proc EXCEPT ![u] = [Idle EXCEPT !.at = "register"]]
  /\ UNCHANGED <<clock, held, file>>

\* bag play: a file that is not there, or has no type in its first line, is
\* reported and nothing is made.
RunPlay(u, s) ==
  /\ proc[u].at = "idle"
  /\ file[s].made
  /\ proc' = [proc EXCEPT ![u] = [Idle EXCEPT !.at = "register", !.cmd = "play", !.sec = s]]
  /\ UNCHANGED <<clock, held, file>>

\* The node: a name that is taken throws, and the process ends.
Register(u) ==
  LET n == NodeName[proc[u].cmd] IN
  /\ proc[u].at = "register"
  /\ \/ /\ n \notin held
        /\ held' = held \cup {n}
        /\ proc' = [proc EXCEPT ![u].at = "run"]
     \/ /\ n \in held
        /\ proc' = [proc EXCEPT ![u].at = "over"]
        /\ UNCHANGED held
  /\ UNCHANGED <<clock, file>>

\* The time since the first message of this process.
Stamp(u) == IF proc[u].sent = <<>> THEN 0 ELSE clock - proc[u].first

\* publish_message, by a timer or once: published, then written to the file.  The
\* timer goes on while onSignal is taking the node back.
PublishMessage(u) ==
  LET msg == <<u, Len(proc[u].sent) + 1>> IN
  /\ proc[u].at \in {"run", "leave"} /\ proc[u].cmd \in {"pub", "once"}
  /\ Len(proc[u].sent) < IF proc[u].cmd = "once" THEN 1 ELSE MaxLines
  /\ file' = [file EXCEPT ![proc[u].sec].lines = Append(@, [time |-> Stamp(u), msg |-> msg])]
  /\ proc' = [proc EXCEPT ![u].sent = Append(@, [time |-> clock, msg |-> msg]),
                          ![u].first = IF proc[u].sent = <<>> THEN clock ELSE @,
                          ![u].at = IF proc[u].cmd = "once" THEN "leave" ELSE @]
  /\ UNCHANGED <<clock, held>>

\* Mutant: the pause is left out.
PlayLineAtOnce(u) ==
  LET k == Len(proc[u].sent) + 1 IN
  /\ proc[u].at = "run" /\ proc[u].cmd = "play"
  /\ k <= Len(Lines(u))
  /\ proc' = [proc EXCEPT ![u].sent = Append(@, [time |-> clock, msg |-> Lines(u)[k].msg]),
                          ![u].first = Lines(u)[k].time]
  /\ UNCHANGED <<clock, held, file>>

\* One turn of bag_play's loop: after the first line the difference between two
\* times is waited for.  The file may grow while it is played.
PlayLine(u) ==
  LET k == Len(proc[u].sent) + 1
      line == Lines(u)[k]
      pause == IF k = 1 THEN 0 ELSE line.time - proc[u].first
      before == IF k = 1 THEN 0 ELSE proc[u].sent[k - 1].time
  IN
  /\ proc[u].at = "run" /\ proc[u].cmd = "play"
  /\ k <= Len(Lines(u))
  /\ clock >= before + pause
  /\ proc' = [proc EXCEPT ![u].sent = Append(@, [time |-> clock, msg |-> line.msg]),
                          ![u].first = line.time]
  /\ UNCHANGED <<clock, held, file>>

\* The end of the file: the node goes out of scope.
PlayEnds(u) ==
  /\ proc[u].at = "run" /\ proc[u].cmd = "play"
  /\ Len(proc[u].sent) >= Len(Lines(u))
  /\ proc' = [proc EXCEPT ![u].at = "leave"]
  /\ UNCHANGED <<clock, held, file>>

\* SIGINT from the terminal, or from pub itself with --once.
Interrupt(u) ==
  /\ proc[u].at = "run"
  /\ proc' = [proc EXCEPT ![u].at = "leave"]
  /\ UNCHANGED <<clock, held, file>>

\* The node is taken back and the process exits; with a timer that can be
\* between the publishing and the writing of a message.
LeaveNode(u) ==
  /\ proc[u].at = "leave"
  /\ held' = held \ {NodeName[proc[u].cmd]}
  /\ \/ proc' = [proc EXCEPT ![u].at = "over"]
     \/ /\ proc[u].cmd = "pub" /\ Len(proc[u].sent) < MaxLines
        /\ proc' = [proc EXCEPT ![u].at = "over",
                      ![u].sent = Append(@, [time |-> clock, msg |-> <<u, Len(@) + 1>>])]
  /\ UNCHANGED <<clock, file>>

CcNext ==
  \/ Tick
  \/ \E u \in User :
       \/ RunPub(u, "pub") \/ RunPub(u, "once") \/ RunEcho(u) \/ PrintsAndEnds(u)
       \/ \E s \in 0..MaxClock : RunPlay(u, s)
       \/ Register(u) \/ PublishMessage(u) \/ PlayLine(u) \/ PlayEnds(u)
       \/ Interrupt(u) \/ LeaveNode(u)

CcSpec == CcInit /\ [][CcNext]_ccVars

Line == [time : 0..MaxClock, msg : User \X (1..MaxLines)]

CcTypeOK ==
  /\ clock \in 0..MaxClock
  /\ held \subseteq {"echo_node", "publish_node", "bagplay_node"}
  /\ \A s \in 0..MaxClock : \A k \in DOMAIN file[s].lines : file[s].lines[k] \in Line
  /\ \A u \in User :
       /\ proc[u].at \in {"idle", "register", "run", "leave", "over"}
       /\ proc[u].cmd \in DOMAIN NodeName
       /\ \A k \in DOMAIN proc[u].sent : proc[u].sent[k] \in Line

\* The publishers whose recording no other one has emptied.
Recorders == {u \in User : /\ proc[u].at \in {"run", "leave", "over"}
                           /\ proc[u].cmd \in {"pub", "once"}
                           /\ \A v \in User \ {u} : proc[v].cmd \in {"pub", "once"} =>
                                                      proc[v].sec # proc[u].sec}

\* A recording is exactly what its publisher has published, with the time since
\* the first message, so bag play publishes the same messages in the same order
\* and never closer together than they were.  A publisher that is interrupted may
\* have published one message more.  The exception is a recording of a
\* second in which another pub started: it empties the file before the master
\* refuses its node.
RecordAndReplay ==
  CcTypeOK /\ \A u \in Recorders :
    LET sent == proc[u].sent IN
    /\ Len(sent) - Len(Lines(u)) \in 0..(IF proc[u].at = "over" THEN 1 ELSE 0)
    /\ \A k \in DOMAIN Lines(u) :
         Lines(u)[k] = [time |-> sent[k].time - proc[u].first, msg |-> sent[k].msg]
    /\ \A v \in User : (proc[v].cmd = "play" /\ proc[v].sec = proc[u].sec) =>
         \A k \in DOMAIN proc[v].sent :
           /\ proc[v].sent[k].msg = sent[k].msg
           /\ k > 1 => proc[v].sent[k].time - proc[v].sent[k - 1].time
                         >= sent[k].time - sent[k - 1].time
=============================================================================
